----------------------------- MODULE ExportsProofs -----------------------------
(* Exports, for any number of rows, connections and executions and any limits: *)
(* who publishes is alone and has its images, the limits hold, and what is     *)
(* cleaned up is no ready copy.                                                *)
EXTENDS Exports, FiniteSetTheorems, TLAPS

Rows ==
  [status : Statuses, ask : Asks, epoch : 0 .. MaxAttempts, deadline : 0 .. JobFor,
   lease : 0 .. LeaseFor, retry : 0 .. RetryFor, expires : 0 .. KeepFor,
   key : 0 .. MaxAttempts, deleted : BOOLEAN]
Stages == {"none", "writing", "placed", "unsaved"}
Connections ==
  [phase : {"none", "asked", "checked", "leased", "open"}, of : Exports, left : 0 .. DownloadFor]
LeasesRun == \A e \in Exports : row[e].lease > 0 => row[e].status = "running"

\* No lease outlasts the deadline of its job.
LeasesLast == \A e \in Exports : row[e].lease <= row[e].deadline

LEMMA Shapes ==
  TypeOK <=> /\ row \in [Exports -> Rows] /\ LeasesRun
             /\ pin \in [Exports -> 0 .. PinFor] /\ file \in [Files -> Absent .. SweepAfter]
             /\ exec \in [Files -> Stages] /\ dl \in [Downloads -> Connections]
             /\ doomed \subseteq Exports /\ unprotected \subseteq Files
BY DEF TypeOK, LeasesRun, Rows, Stages, Connections

LEMMA NewRow ==
  ASSUME ConstantsOK
  PROVE  /\ NoRow \in Rows /\ Idle \in Connections
         /\ NoRow.status = "absent" /\ NoRow.epoch = 0 /\ NoRow.lease = 0
         /\ NoRow.key = 0 /\ NoRow.deleted = FALSE
BY DEF ConstantsOK, NoRow, Idle, Rows, Connections, Statuses

\* A row is only created once; from then on its state moves this way.
Moves ==
  {<<"queued", "running">>, <<"retry_wait", "running">>,
   <<"running", "ready">>, <<"running", "retry_wait">>, <<"running", "failed">>,
   <<"queued", "failed">>, <<"retry_wait", "failed">>,
   <<"ready", "expired">>, <<"ready", "unavailable">>}

\* What every step but its creation does to a row.
Ages(e) ==
  /\ row'[e].ask = row[e].ask /\ row'[e].deadline <= row[e].deadline
  /\ row[e].deleted => row'[e].deleted
  /\ row'[e].deleted => row[e].deleted \/ row'[e].status \in Gone
  /\ \/ row'[e].status = row[e].status
     \/ <<row[e].status, row'[e].status>> \in Moves
  /\ row'[e].lease > 0 => row'[e].status = "running"
  /\ row'[e].lease <= row'[e].deadline

\* What every step but the claims and ends of executions leaves of a row.
Stands(e) ==
  /\ row'[e].epoch = row[e].epoch /\ row'[e].key = row[e].key
  /\ row'[e].lease > 0 => row[e].lease > 0
  /\ row'[e].status \in {"running", "ready"} => row'[e].status = row[e].status

LEMMA LessTypes ==
  ASSUME NEW m \in Nat, NEW n \in -1 .. m
  PROVE  /\ Less(n) \in -1 .. m /\ Less(n) <= n
         /\ n \in 0 .. m => Less(n) \in 0 .. m
         /\ n > 0 => Less(n) = n - 1
         /\ Less(n) = -1 <=> n = -1
BY DEF Less

LEMMA RowStands ==
  ASSUME TypeOK, LeasesLast, NEW e \in Exports, row'[e] = row[e]
  PROVE  row'[e] \in Rows /\ Ages(e) /\ Stands(e)
<1>1. row[e] \in Rows /\ LeasesRun
  BY Shapes
<1>2. row[e].deadline <= row[e].deadline
  BY <1>1 DEF Rows
<1> QED BY <1>1, <1>2 DEF Ages, Stands, LeasesRun, LeasesLast

\* A row that comes to an end of its own has no lease.
LEMMA RowEnds ==
  ASSUME TypeOK, LeasesLast, NEW e \in Exports,
         NEW s \in {"expired", "unavailable", "failed"},
         row'[e] = [row[e] EXCEPT !.status = s],
         <<row[e].status, s>> \in Moves, row[e].lease = 0
  PROVE  row'[e] \in Rows /\ Ages(e) /\ Stands(e)
<1>1. row[e] \in Rows
  BY Shapes
<1>2. /\ row'[e] \in Rows /\ row'[e].status = s /\ row'[e].ask = row[e].ask
      /\ row'[e].deadline = row[e].deadline /\ row'[e].deleted = row[e].deleted
      /\ row'[e].epoch = row[e].epoch /\ row'[e].key = row[e].key /\ row'[e].lease = row[e].lease
  BY <1>1 DEF Rows, Statuses, Gone
<1>3. row[e].deadline <= row[e].deadline
  BY <1>1 DEF Rows
<1> QED BY <1>2, <1>3 DEF Ages, Stands, LeasesLast

\* Who reads, what the dispatcher, the clean-up, a download and the clock do to rows.
LEMMA QuietRows ==
  ASSUME ConstantsOK, TypeOK, LeasesLast,
         \/ \E f \in Exports : ReadExpired(f) \/ RemoveExpired(f)
         \/ \E d \in Downloads : OpenDownload(d)
         \/ PendingExports \/ ExpiredExportFiles \/ Tick
  PROVE  \A e \in Exports : row'[e] \in Rows /\ Ages(e) /\ Stands(e)
<1>1. row \in [Exports -> Rows] /\ LeasesRun /\ dl \in [Downloads -> Connections]
  BY Shapes
<1>2. SUFFICES ASSUME NEW e \in Exports PROVE row'[e] \in Rows /\ Ages(e) /\ Stands(e)
  OBVIOUS
<1> DEFINE Kept == row'[e] = row[e]
           Ends(s) == /\ row'[e] = [row[e] EXCEPT !.status = s]
                      /\ <<row[e].status, s>> \in Moves /\ row[e].lease = 0
<1>3. /\ row[e] \in Rows /\ row[e].lease \in Nat
      /\ row[e].lease > 0 => row[e].status = "running" /\ row[e].deadline > 0
      /\ row[e].deadline \in Nat
  BY <1>1 DEF Rows, LeasesRun, LeasesLast
<1>4. CASE \E f \in Exports : ReadExpired(f)
  <2>1. Kept \/ Ends("expired")
    BY <1>1, <1>3, <1>4 DEF ReadExpired, Moves
  <2> QED BY <2>1, RowStands, RowEnds
<1>5. CASE \E d \in Downloads : OpenDownload(d)
  <2>1. PICK d \in Downloads : OpenDownload(d)
    BY <1>5
  <2>2. dl[d].of \in Exports
    BY <1>1 DEF Connections
  <2>3. Kept \/ Ends("unavailable")
    <3>1. CASE row' = row
      BY <3>1
    <3>2. CASE row' = [row EXCEPT ![dl[d].of].status =
                         IF row[dl[d].of].status = "ready" THEN "unavailable" ELSE @]
      <4>1. CASE e = dl[d].of /\ row[e].status = "ready"
        BY <1>1, <1>3, <3>2, <4>1 DEF Moves
      <4>2. CASE e = dl[d].of /\ row[e].status # "ready"
        <5>1. row'[e] = [row[e] EXCEPT !.status = row[e].status]
          BY <1>1, <3>2, <4>2
        <5> QED BY <1>3, <5>1 DEF Rows
      <4>3. CASE e # dl[d].of
        BY <1>1, <2>2, <3>2, <4>3
      <4> QED BY <4>1, <4>2, <4>3
    <3> QED BY <2>1, <3>1, <3>2 DEF OpenDownload
  <2> QED BY <2>3, RowStands, RowEnds
<1>6. CASE PendingExports
  <2>1. Kept \/ (Overdue(e) /\ row'[e] = [row[e] EXCEPT !.status = "failed"])
    BY <1>6 DEF PendingExports
  <2>2. Overdue(e) => <<row[e].status, "failed">> \in Moves /\ row[e].lease = 0
    BY <1>3 DEF Overdue, Pending, Moves
  <2> QED BY <2>1, <2>2, RowStands, RowEnds
<1>7. CASE ExpiredExportFiles
  <2>1. Kept \/ (row[e].status = "ready" /\ row'[e] = [row[e] EXCEPT !.status = "expired"])
    BY <1>7 DEF ExpiredExportFiles
  <2>2. row[e].status = "ready" => <<row[e].status, "expired">> \in Moves /\ row[e].lease = 0
    BY <1>3 DEF Moves
  <2> QED BY <2>1, <2>2, RowStands, RowEnds
<1>8. CASE \E f \in Exports : RemoveExpired(f)
  <2>1. \/ Kept
        \/ row'[e] = [row[e] EXCEPT !.deleted = row[e].deleted \/ row[e].status \in Gone]
    BY <1>1, <1>8 DEF RemoveExpired
  <2>2. CASE row'[e] = [row[e] EXCEPT !.deleted = row[e].deleted \/ row[e].status \in Gone]
    <3>1. (row[e].deleted \/ row[e].status \in Gone) \in BOOLEAN
      OBVIOUS
    <3>2. /\ row'[e] \in Rows /\ row'[e].status = row[e].status /\ row'[e].ask = row[e].ask
          /\ row'[e].deadline = row[e].deadline /\ row'[e].lease = row[e].lease
          /\ row'[e].epoch = row[e].epoch /\ row'[e].key = row[e].key
      BY <1>3, <2>2, <3>1 DEF Rows
    <3>3. row'[e].deleted <=> row[e].deleted \/ row[e].status \in Gone
      BY <1>3, <2>2 DEF Rows
    <3>4. row[e].deadline <= row[e].deadline
      BY <1>3
    <3> QED BY <1>3, <3>2, <3>3, <3>4 DEF Ages, Stands, LeasesLast
  <2> QED BY <2>1, <2>2, RowStands
<1>9. CASE Tick
  <2>1. row'[e] = [row[e] EXCEPT !.deadline = Less(@), !.lease = Less(@),
                                 !.retry = Less(@), !.expires = Less(@)]
    BY <1>9 DEF Tick
  <2>2. /\ Less(row[e].deadline) \in 0 .. JobFor /\ Less(row[e].lease) \in 0 .. LeaseFor
        /\ Less(row[e].retry) \in 0 .. RetryFor /\ Less(row[e].expires) \in 0 .. KeepFor
        /\ Less(row[e].lease) <= Less(row[e].deadline) /\ Less(row[e].deadline) <= row[e].deadline
        /\ Less(row[e].lease) <= row[e].lease
    BY <1>3 DEF Less, Rows, LeasesLast, ConstantsOK
  <2>3. /\ row'[e] \in Rows /\ row'[e].status = row[e].status /\ row'[e].ask = row[e].ask
        /\ row'[e].deadline = Less(row[e].deadline) /\ row'[e].lease = Less(row[e].lease)
        /\ row'[e].epoch = row[e].epoch /\ row'[e].key = row[e].key
        /\ row'[e].deleted = row[e].deleted
    BY <1>3, <2>1, <2>2 DEF Rows
  <2> QED BY <1>3, <2>2, <2>3 DEF Ages, Stands
<1> QED BY <1>4, <1>5, <1>6, <1>7, <1>8, <1>9

\* A claim raises the epoch, an end keeps it.
LEMMA ClaimRow ==
  ASSUME ConstantsOK, TypeOK, LeasesLast, NEW f \in Exports, ClaimExport(f)
  PROVE  /\ \A e \in Exports : row'[e] \in Rows /\ Ages(e)
         /\ \A e \in Exports \ {f} : row'[e] = row[e] /\ row[e].lease = 0
         /\ row'[f].epoch = row[f].epoch + 1 /\ row'[f].status = "running"
         /\ row[f].status \in {"queued", "retry_wait"}
<1>1. row \in [Exports -> Rows] /\ LeasesRun
  BY Shapes
<1>2. /\ row[f] \in Rows /\ row[f].epoch \in Nat /\ row[f].epoch < MaxAttempts
      /\ row[f].deadline > 0 /\ row[f].deadline \in Nat
      /\ row[f].status \in {"queued", "retry_wait"}
  BY <1>1 DEF ClaimExport, Claimable, Rows
<1>3. /\ Lesser(row[f].deadline, LeaseFor) \in 0 .. LeaseFor
      /\ Lesser(row[f].deadline, LeaseFor) <= row[f].deadline
  BY <1>2 DEF Lesser, ConstantsOK
<1>4. row' = [row EXCEPT ![f].status = "running", ![f].epoch = row[f].epoch + 1, ![f].retry = 0,
                         ![f].lease = Lesser(row[f].deadline, LeaseFor)]
  BY DEF ClaimExport
<1>5. row'[f] = [row[f] EXCEPT !.status = "running", !.epoch = row[f].epoch + 1, !.retry = 0,
                               !.lease = Lesser(row[f].deadline, LeaseFor)]
  BY <1>1, <1>4
<1>6. /\ row'[f].status = "running" /\ row'[f].epoch = row[f].epoch + 1
      /\ row'[f].lease = Lesser(row[f].deadline, LeaseFor) /\ row'[f].ask = row[f].ask
      /\ row'[f].deadline = row[f].deadline /\ row'[f].deleted = row[f].deleted
  BY <1>2, <1>5 DEF Rows
<1>7. row'[f] \in Rows
  <2>1. /\ row[f].epoch + 1 \in 0 .. MaxAttempts /\ 0 \in 0 .. RetryFor
        /\ "running" \in Statuses
    BY <1>2 DEF ConstantsOK, Statuses, Pending
  <2> QED BY <1>2, <1>3, <1>5, <2>1 DEF Rows
<1>8. <<row[f].status, row'[f].status>> \in Moves
  BY <1>2, <1>6 DEF Moves
<1>9. Ages(f)
  BY <1>2, <1>3, <1>6, <1>8 DEF Ages
<1>10. \A e \in Exports \ {f} : row'[e] = row[e]
  BY <1>1, <1>4
<1>11. \A e \in Exports : row[e].lease = 0
  BY <1>1 DEF ClaimExport, LeasesRun, Rows
<1> QED BY <1>2, <1>6, <1>7, <1>9, <1>10, <1>11, RowStands

\* The end of an execution that passes the fence leaves no lease.
LEMMA EndRow ==
  ASSUME ConstantsOK, TypeOK, LeasesLast, NEW x \in Files, Fence(x),
         \/ row' = [row EXCEPT ![x[1]].status = "ready", ![x[1]].key = x[2], ![x[1]].lease = 0,
                               ![x[1]].expires = KeepFor]
         \/ \E again, named \in BOOLEAN : row' = [row EXCEPT ![x[1]] = FailedRow(@, again, named)]
  PROVE  LET f == x[1] IN
         /\ f \in Exports
         /\ \A e \in Exports : row'[e] \in Rows /\ Ages(e)
         /\ \A e \in Exports \ {f} : row'[e] = row[e]
         /\ row'[f].lease = 0 /\ row'[f].epoch = row[f].epoch /\ row'[f].status # "running"
         /\ row'[f].status = "ready" => row'[f].key = x[2]
<1> DEFINE f == x[1]
<1>1. row \in [Exports -> Rows] /\ f \in Exports /\ x[2] \in 1 .. MaxAttempts
  BY Shapes DEF Files
<1>2. /\ row[f] \in Rows /\ row[f].status = "running" /\ row[f].epoch = x[2]
      /\ row[f].deadline \in Nat
  BY <1>1 DEF Fence, Rows
<1>3. \E s \in {"ready", "retry_wait", "failed"}, k \in 0 .. MaxAttempts, t \in 0 .. RetryFor,
         u \in 0 .. KeepFor :
        /\ row' = [row EXCEPT ![f] = [row[f] EXCEPT !.status = s, !.key = k, !.lease = 0,
                                                    !.retry = t, !.expires = u]]
        /\ s = "ready" => k = x[2]
  <2>1. CASE row' = [row EXCEPT ![f].status = "ready", ![f].key = x[2], ![f].lease = 0,
                                ![f].expires = KeepFor]
    <3>1. [row[f] EXCEPT !.status = "ready", !.key = x[2], !.lease = 0, !.expires = KeepFor]
          = [row[f] EXCEPT !.status = "ready", !.key = x[2], !.lease = 0,
                           !.retry = row[f].retry, !.expires = KeepFor]
      BY <1>2 DEF Rows
    <3>2. row' = [row EXCEPT ![f] = [row[f] EXCEPT !.status = "ready", !.key = x[2], !.lease = 0,
                                            !.retry = row[f].retry, !.expires = KeepFor]]
      BY <1>1, <2>1, <3>1
    <3>3. row[f].retry \in 0 .. RetryFor /\ KeepFor \in 0 .. KeepFor /\ x[2] \in 0 .. MaxAttempts
      BY <1>1, <1>2 DEF Rows, ConstantsOK
    <3> QED BY <3>2, <3>3
  <2>2. CASE \E again, named \in BOOLEAN : row' = [row EXCEPT ![f] = FailedRow(@, again, named)]
    <3>1. PICK again \in BOOLEAN, named \in BOOLEAN :
            row' = [row EXCEPT ![f] = FailedRow(row[f], again, named)]
      BY <1>1, <2>2
    <3> DEFINE s == IF again THEN "retry_wait" ELSE "failed"
               t == IF again THEN RetryFor ELSE 0
               k == IF named THEN row[f].epoch ELSE 0
    <3>2. /\ s \in {"ready", "retry_wait", "failed"} /\ s # "ready"
          /\ t \in 0 .. RetryFor /\ k \in 0 .. MaxAttempts
      BY <1>2 DEF Rows, ConstantsOK
    <3>3. FailedRow(row[f], again, named)
          = [row[f] EXCEPT !.status = s, !.key = k, !.lease = 0, !.retry = t,
                           !.expires = row[f].expires]
      BY <1>2 DEF FailedRow, Rows
    <3>4. row[f].expires \in 0 .. KeepFor
      BY <1>2 DEF Rows
    <3>5. row' = [row EXCEPT ![f] = [row[f] EXCEPT !.status = s, !.key = k, !.lease = 0,
                                            !.retry = t, !.expires = row[f].expires]]
      BY <3>1, <3>3
    <3> HIDE DEF s, t, k
    <3> QED BY <3>2, <3>4, <3>5
  <2> QED BY <2>1, <2>2
<1>4. PICK s \in {"ready", "retry_wait", "failed"}, k \in 0 .. MaxAttempts, t \in 0 .. RetryFor,
          u \in 0 .. KeepFor :
        /\ row' = [row EXCEPT ![f] = [row[f] EXCEPT !.status = s, !.key = k, !.lease = 0,
                                                    !.retry = t, !.expires = u]]
        /\ s = "ready" => k = x[2]
  BY <1>3
<1>5. row'[f] = [row[f] EXCEPT !.status = s, !.key = k, !.lease = 0, !.retry = t, !.expires = u]
  BY <1>1, <1>4
<1>6. /\ row'[f].status = s /\ row'[f].key = k /\ row'[f].lease = 0 /\ row'[f].ask = row[f].ask
      /\ row'[f].epoch = row[f].epoch /\ row'[f].deadline = row[f].deadline
      /\ row'[f].deleted = row[f].deleted
  BY <1>2, <1>5 DEF Rows
<1>7. row'[f] \in Rows
  <2>1. s \in Statuses /\ 0 \in 0 .. LeaseFor
    BY DEF Statuses, Pending, ConstantsOK
  <2> QED BY <1>2, <1>5, <2>1 DEF Rows
<1>8. <<row[f].status, row'[f].status>> \in Moves
  BY <1>2, <1>6 DEF Moves
<1>9. Ages(f)
  BY <1>2, <1>6, <1>8 DEF Ages
<1>10. \A e \in Exports \ {f} : row'[e] = row[e]
  BY <1>1, <1>4
<1> QED BY <1>1, <1>4, <1>6, <1>7, <1>9, <1>10, RowStands

Quiet == \A e \in Exports : row'[e] \in Rows /\ Ages(e) /\ Stands(e)

\* A publication or a failure that the fence lets through.
Ends(x) ==
  /\ Fence(x) /\ (FinishReady(x) \/ FinishFailed(x))
  /\ \A e \in Exports : row'[e] \in Rows /\ Ages(e)
  /\ \A e \in Exports \ {x[1]} : row'[e] = row[e]
  /\ row'[x[1]].lease = 0 /\ row'[x[1]].epoch = row[x[1]].epoch /\ row'[x[1]].status # "running"
  /\ row'[x[1]].status = "ready" => row'[x[1]].key = x[2]

Creates(f) ==
  \E a \in Asks :
    /\ Admitted(a) /\ row[f].status = "absent"
    /\ row' = [row EXCEPT ![f] = [NoRow EXCEPT !.status = "queued", !.ask = a, !.deadline = JobFor]]
    /\ pin' = [pin EXCEPT ![f] = PinFor]
    /\ UNCHANGED <<file, exec, dl, doomed, unprotected>>

LEMMA FinishEnds ==
  ASSUME ConstantsOK, TypeOK, LeasesLast, NEW x \in Files, FinishReady(x) \/ FinishFailed(x)
  PROVE  Ends(x) \/ UNCHANGED <<row, pin>>
<1>1. CASE FinishReady(x)
  <2>1. Fence(x) /\ row' = [row EXCEPT ![x[1]].status = "ready", ![x[1]].key = x[2],
                                       ![x[1]].lease = 0, ![x[1]].expires = KeepFor]
    BY <1>1 DEF FinishReady
  <2> QED BY <1>1, <2>1, EndRow DEF Ends
<1>2. CASE FinishFailed(x)
  <2>1. CASE UNCHANGED <<row, pin>>
    BY <2>1
  <2>2. CASE /\ Fence(x)
             /\ \E again, named \in BOOLEAN : row' = [row EXCEPT ![x[1]] = FailedRow(@, again, named)]
    BY <1>2, <2>2, EndRow DEF Ends
  <2>3. ~(UNCHANGED <<row, pin>>) => <2>2!1
    <3>1. CASE /\ Fence(x)
               /\ \E retry, named \in BOOLEAN :
                     LET again == retry /\ row[x[1]].epoch < MaxAttempts IN
                     /\ row' = [row EXCEPT ![x[1]] = FailedRow(@, again, named)]
                     /\ pin' = [pin EXCEPT ![x[1]] = IF PinsKept(again) THEN @ ELSE 0]
      <4>1. PICK retry \in BOOLEAN, named \in BOOLEAN :
              row' = [row EXCEPT ![x[1]] = FailedRow(@, retry /\ row[x[1]].epoch < MaxAttempts, named)]
        BY <3>1
      <4>2. (retry /\ row[x[1]].epoch < MaxAttempts) \in BOOLEAN
        OBVIOUS
      <4> QED BY <3>1, <4>1, <4>2
    <3> QED BY <1>2, <3>1 DEF FinishFailed
  <2> QED BY <2>1, <2>2, <2>3
<1> QED BY <1>1, <1>2

LEMMA RowSteps ==
  ASSUME ConstantsOK, TypeOK, LeasesLast, [Next]_vars
  PROVE  \/ Quiet
         \/ \E f \in Exports : ClaimExport(f) \/ Creates(f)
         \/ \E x \in Files : Ends(x)
<1>1. CASE row' = row
  BY <1>1, RowStands DEF Quiet
<1>2. ASSUME NEW x \in Files, Work(x) \/ Crash(x) \/ SweepLook(x) \/ SweepRemove(x)
      PROVE  row' = row \/ Ends(x)
  <2>1. CASE FinishReady(x) \/ FinishFailed(x)
    BY <2>1, FinishEnds
  <2> QED BY <1>2, <2>1 DEF Work, Place, FinishRefused, Discard, Crash, SweepLook, SweepRemove
<1>3. ASSUME NEW d \in Downloads, Download(d) \/ ServerCrash(d)
      PROVE  row' = row \/ OpenDownload(d)
  BY <1>3 DEF Download, CheckDownload, LeaseDownload, EndDownload, ServerCrash
<1>4. ASSUME NEW e \in Exports, NEW a \in Asks, CreateExport(e, a) PROVE Creates(e)
  BY <1>4 DEF CreateExport, Creates
<1>5. ASSUME NEW e \in Exports, NEW d \in Downloads, AskDownload(d, e) PROVE row' = row
  BY <1>5 DEF AskDownload
<1>6. CASE \/ \E f \in Exports : ReadExpired(f) \/ RemoveExpired(f)
           \/ \E d \in Downloads : OpenDownload(d)
           \/ PendingExports \/ ExpiredExportFiles \/ Tick
  BY <1>6, QuietRows DEF Quiet
<1>7. CASE UNCHANGED vars
  BY <1>1, <1>7 DEF vars
<1> QED BY <1>1, <1>2, <1>3, <1>4, <1>5, <1>6, <1>7 DEF Next

LEMMA CreateRow ==
  ASSUME ConstantsOK, TypeOK, LeasesLast, NEW f \in Exports, Creates(f)
  PROVE  /\ \A e \in Exports : row'[e] \in Rows
         /\ \A e \in Exports \ {f} : row'[e] = row[e]
         /\ row'[f].status = "queued" /\ row'[f].epoch = 0 /\ row'[f].lease = 0
         /\ row'[f].key = 0 /\ row'[f].deleted = FALSE /\ row'[f].deadline = JobFor
         /\ row[f].status = "absent" /\ pin'[f] = PinFor
<1>1. row \in [Exports -> Rows] /\ pin \in [Exports -> 0 .. PinFor]
  BY Shapes
<1>2. PICK a \in Asks :
        /\ row[f].status = "absent"
        /\ row' = [row EXCEPT ![f] = [NoRow EXCEPT !.status = "queued", !.ask = a, !.deadline = JobFor]]
        /\ pin' = [pin EXCEPT ![f] = PinFor]
  BY DEF Creates
<1> DEFINE new == [NoRow EXCEPT !.status = "queued", !.ask = a, !.deadline = JobFor]
<1>3. "queued" \in Statuses /\ JobFor \in 0 .. JobFor
  BY DEF Statuses, Pending, ConstantsOK
<1>4. /\ new \in Rows /\ new.status = "queued" /\ new.epoch = 0 /\ new.lease = 0
      /\ new.key = 0 /\ new.deleted = FALSE /\ new.deadline = JobFor
  BY <1>3, NewRow DEF Rows
<1>5. row'[f] = new /\ \A e \in Exports \ {f} : row'[e] = row[e]
  BY <1>1, <1>2
<1> HIDE DEF new
<1> QED BY <1>1, <1>2, <1>4, <1>5

LEMMA RowTypes ==
  ASSUME ConstantsOK, TypeOK, LeasesLast, [Next]_vars
  PROVE  /\ \A e \in Exports : row'[e] \in Rows
         /\ LeasesRun' /\ LeasesLast'
<1>1. row \in [Exports -> Rows] /\ LeasesRun
  BY Shapes
<1>2. ASSUME \A e \in Exports : row'[e] \in Rows /\ Ages(e)
      PROVE  LeasesRun' /\ LeasesLast'
  BY <1>2 DEF Ages, LeasesRun, LeasesLast
<1>3. ASSUME NEW f \in Exports, Creates(f) PROVE LeasesRun' /\ LeasesLast'
  <2>1. \A e \in Exports \ {f} : row'[e] = row[e]
    BY <1>3, CreateRow
  <2>2. row'[f].lease = 0 /\ row'[f].deadline = JobFor /\ JobFor \in Nat
    BY <1>3, CreateRow DEF ConstantsOK
  <2>3. LeasesRun'
    BY <1>1, <2>1, <2>2 DEF LeasesRun
  <2>4. LeasesLast'
    BY <2>1, <2>2 DEF LeasesLast
  <2> QED BY <2>3, <2>4
<1> QED BY <1>2, <1>3, RowSteps, ClaimRow, CreateRow DEF Quiet, Ends

LEMMA RowDomain ==
  ASSUME ConstantsOK, TypeOK, [Next]_vars
  PROVE  row' = [e \in Exports |-> row'[e]]
<1>1. row = [e \in Exports |-> row[e]]
  BY Shapes
<1>2. ASSUME NEW x \in Files, Work(x) \/ Crash(x) \/ SweepLook(x) \/ SweepRemove(x)
      PROVE  row' = [e \in Exports |-> row'[e]]
  <2>1. CASE FinishReady(x)
    BY <1>1, <2>1 DEF FinishReady
  <2>2. CASE FinishFailed(x)
    BY <1>1, <2>2 DEF FinishFailed
  <2> QED BY <1>1, <1>2, <2>1, <2>2
        DEF Work, Place, FinishRefused, Discard, Crash, SweepLook, SweepRemove
<1>3. ASSUME NEW d \in Downloads, Download(d) \/ ServerCrash(d)
      PROVE  row' = [e \in Exports |-> row'[e]]
  <2>1. CASE OpenDownload(d)
    BY <1>1, <2>1 DEF OpenDownload
  <2> QED BY <1>1, <1>3, <2>1 DEF Download, CheckDownload, LeaseDownload, EndDownload, ServerCrash
<1>4. ASSUME NEW f \in Exports, \/ \E a \in Asks : CreateExport(f, a)
                                \/ ReadExpired(f) \/ ClaimExport(f) \/ RemoveExpired(f)
                                \/ \E d \in Downloads : AskDownload(d, f)
      PROVE  row' = [e \in Exports |-> row'[e]]
  BY <1>1, <1>4 DEF CreateExport, ReadExpired, ClaimExport, RemoveExpired, AskDownload
<1>5. CASE PendingExports \/ ExpiredExportFiles \/ Tick \/ UNCHANGED vars
  BY <1>1, <1>5 DEF PendingExports, ExpiredExportFiles, Tick, vars
<1> QED BY <1>2, <1>3, <1>4, <1>5 DEF Next

LEMMA StepTypes ==
  ASSUME ConstantsOK, TypeOK, LeasesLast, [Next]_vars
  PROVE  TypeOK' /\ LeasesLast'
<1>1. /\ row \in [Exports -> Rows]
      /\ pin \in [Exports -> 0 .. PinFor] /\ file \in [Files -> Absent .. SweepAfter]
      /\ exec \in [Files -> Stages] /\ dl \in [Downloads -> Connections]
      /\ doomed \subseteq Exports /\ unprotected \subseteq Files
  BY Shapes
<1>2. row' \in [Exports -> Rows] /\ LeasesRun' /\ LeasesLast'
  BY RowTypes, RowDomain
<1>3. SUFFICES /\ pin' \in [Exports -> 0 .. PinFor] /\ file' \in [Files -> Absent .. SweepAfter]
               /\ exec' \in [Files -> Stages] /\ dl' \in [Downloads -> Connections]
               /\ doomed' \subseteq Exports /\ unprotected' \subseteq Files
  BY <1>2 DEF TypeOK, LeasesRun, Rows, Stages, Connections
<1>4. /\ 0 \in 0 .. PinFor /\ PinFor \in 0 .. PinFor /\ Absent \in Absent .. SweepAfter
      /\ SweepAfter \in Absent .. SweepAfter
  BY DEF ConstantsOK, Absent
<1>5. ASSUME NEW x \in Files, Work(x) \/ Crash(x) \/ SweepLook(x) \/ SweepRemove(x)
      PROVE  <1>3!1
  <2>1. \A y \in Files, s \in Stages : [exec EXCEPT ![y] = s] \in [Files -> Stages]
    BY <1>1
  <2>2. x[1] \in Exports
    BY DEF Files
  <2>3. CASE FinishFailed(x)
    <3>1. exec' = [exec EXCEPT ![x] = "none"] /\ UNCHANGED <<file, dl, doomed, unprotected>>
      BY <2>3 DEF FinishFailed
    <3>2. pin' = pin \/ pin' = [pin EXCEPT ![x[1]] = pin[x[1]]] \/ pin' = [pin EXCEPT ![x[1]] = 0]
      BY <2>3 DEF FinishFailed
    <3> QED BY <1>1, <1>4, <2>2, <3>1, <3>2 DEF Stages
  <2>4. CASE FinishReady(x)
    <3>1. \E answer \in {"none", "unsaved"} : exec' = [exec EXCEPT ![x] = answer]
      BY <2>4 DEF FinishReady
    <3>2. exec' \in [Files -> Stages]
      BY <2>1, <3>1 DEF Stages
    <3> QED BY <1>1, <1>4, <2>2, <2>4, <3>2 DEF FinishReady
  <2>5. CASE Place(x)
    BY <1>1, <1>4, <2>5 DEF Place, Stages
  <2>6. CASE Discard(x) \/ FinishRefused(x) \/ Crash(x)
    BY <1>1, <1>4, <2>6 DEF Discard, FinishRefused, Crash, Stages
  <2>7. CASE SweepLook(x) \/ SweepRemove(x)
    BY <1>1, <1>4, <2>7 DEF SweepLook, SweepRemove
  <2> QED BY <1>5, <2>3, <2>4, <2>5, <2>6, <2>7 DEF Work
<1>6. ASSUME NEW d \in Downloads, Download(d) \/ ServerCrash(d) \/ \E e \in Exports : AskDownload(d, e)
      PROVE  <1>3!1
  <2>1. UNCHANGED <<pin, file, exec, doomed, unprotected>>
    BY <1>6 DEF Download, CheckDownload, LeaseDownload, OpenDownload, EndDownload, ServerCrash,
                AskDownload
  <2>2. dl[d] \in Connections /\ Idle \in Connections
    BY <1>1, NewRow
  <2>3. dl' \in [Downloads -> Connections]
    <3>1. CASE ServerCrash(d)
      BY <1>1, <2>2, <3>1 DEF ServerCrash, Connections
    <3>2. CASE \E e \in Exports : AskDownload(d, e)
      <4>1. PICK e \in Exports : dl' = [dl EXCEPT ![d] = [Idle EXCEPT !.phase = "asked", !.of = e]]
        BY <3>2 DEF AskDownload
      <4>2. [Idle EXCEPT !.phase = "asked", !.of = e] \in Connections
        BY <2>2 DEF Connections
      <4> QED BY <1>1, <4>1, <4>2
    <3>3. CASE CheckDownload(d)
      BY <1>1, <2>2, <3>3 DEF CheckDownload, Connections
    <3>4. CASE LeaseDownload(d)
      <4>1. [dl[d] EXCEPT !.phase = "leased", !.left = DownloadFor] \in Connections
        <5>1. DownloadFor \in 0 .. DownloadFor
          BY DEF ConstantsOK
        <5> QED BY <2>2, <5>1 DEF Connections
      <4>2. dl' = [dl EXCEPT ![d] = [dl[d] EXCEPT !.phase = "leased", !.left = DownloadFor]]
        BY <1>1, <3>4 DEF LeaseDownload
      <4> QED BY <1>1, <4>1, <4>2
    <3>5. CASE OpenDownload(d)
      <4>1. [dl[d] EXCEPT !.phase = "open"] \in Connections
        BY <2>2 DEF Connections
      <4> QED BY <1>1, <2>2, <3>5, <4>1 DEF OpenDownload
    <3>6. CASE EndDownload(d)
      BY <1>1, <2>2, <3>6 DEF EndDownload
    <3> QED BY <1>6, <3>1, <3>2, <3>3, <3>4, <3>5, <3>6 DEF Download
  <2> QED BY <1>1, <2>1, <2>3
<1>7. ASSUME NEW f \in Exports, \/ \E a \in Asks : CreateExport(f, a)
                                \/ ReadExpired(f) \/ ClaimExport(f) \/ RemoveExpired(f)
      PROVE  <1>3!1
  <2>1. CASE \E a \in Asks : CreateExport(f, a)
    BY <1>1, <1>4, <2>1 DEF CreateExport
  <2>2. CASE ReadExpired(f)
    BY <1>1, <2>2 DEF ReadExpired
  <2>3. CASE ClaimExport(f)
    BY <1>1, <2>3 DEF ClaimExport, Stages
  <2>4. CASE RemoveExpired(f)
    BY <1>1, <1>4, <2>4 DEF RemoveExpired
  <2> QED BY <1>7, <2>1, <2>2, <2>3, <2>4
<1>8. CASE ExpiredExportFiles
  BY <1>1, <1>8 DEF ExpiredExportFiles, Removable
<1>9. CASE Tick
  <2>1. \A e \in Exports : Less(pin[e]) \in 0 .. PinFor
    BY <1>1, LessTypes DEF Less, ConstantsOK
  <2>2. \A x \in Files : Less(file[x]) \in Absent .. SweepAfter
    BY <1>1 DEF Less, ConstantsOK, Absent
  <2>3. \A d \in Downloads : [dl[d] EXCEPT !.left = Less(@)] \in Connections
    BY <1>1 DEF Less, ConstantsOK, Connections
  <2> QED BY <1>1, <1>9, <2>1, <2>2, <2>3 DEF Tick
<1>10. CASE PendingExports \/ UNCHANGED vars
  BY <1>1, <1>10 DEF PendingExports, vars
<1> QED BY <1>5, <1>6, <1>7, <1>8, <1>9, <1>10 DEF Next

-----------------------------------------------------------------------------
(* Who publishes. *)

\* The images of an export that is prepared are pinned beyond its deadline.
PinsLast == \A e \in Exports : Live(e) => pin[e] > row[e].deadline

\* One execution at a time has a lease.
OneLeased == \A e, f \in Exports : row[e].lease > 0 /\ row[f].lease > 0 => e = f

LEMMA StepLeases ==
  ASSUME ConstantsOK, TypeOK, LeasesLast, OneLeased, [Next]_vars
  PROVE  OneLeased'
<1>1. row \in [Exports -> Rows]
  BY Shapes
<1>2. CASE \A e \in Exports : row'[e].lease > 0 => row[e].lease > 0
  BY <1>2 DEF OneLeased
<1>3. ASSUME NEW f \in Exports, ClaimExport(f) PROVE OneLeased'
  <2>1. \A e \in Exports \ {f} : ~(row'[e].lease > 0)
    BY <1>3, ClaimRow
  <2> QED BY <2>1 DEF OneLeased
<1>4. ASSUME NEW f \in Exports, Creates(f) PROVE <1>2!1
  <2>1. row'[f].lease = 0 /\ \A e \in Exports \ {f} : row'[e] = row[e]
    BY <1>4, CreateRow
  <2> QED BY <2>1
<1>5. ASSUME NEW x \in Files, Ends(x) PROVE <1>2!1
  BY <1>5 DEF Ends
<1>6. CASE Quiet
  BY <1>2, <1>6 DEF Quiet, Stands
<1> QED BY <1>2, <1>3, <1>4, <1>5, <1>6, RowSteps

LEMMA StepPins ==
  ASSUME ConstantsOK, TypeOK, LeasesLast, PinsLast, [Next]_vars
  PROVE  PinsLast'
<1>1. row \in [Exports -> Rows] /\ pin \in [Exports -> 0 .. PinFor]
  BY Shapes
<1>2. ASSUME NEW e \in Exports, Ages(e), row'[e] \in Rows, Live(e)' PROVE Live(e)
  BY <1>1, <1>2 DEF Ages, Live, Moves, Pending, Rows
<1>3. ASSUME NEW e \in Exports, Ages(e), row'[e] \in Rows, Live(e)', pin'[e] = pin[e]
      PROVE  pin'[e] > row'[e].deadline
  <2>1. pin[e] > row[e].deadline
    BY <1>2, <1>3 DEF PinsLast
  <2> QED BY <1>1, <1>3, <2>1 DEF Ages, Rows
<1>4. CASE UNCHANGED pin /\ \A e \in Exports : Ages(e) /\ row'[e] \in Rows
  BY <1>3, <1>4 DEF PinsLast
<1>5. ASSUME NEW f \in Exports, Creates(f) PROVE PinsLast'
  <2>1. pin'[f] > row'[f].deadline
    BY <1>5, CreateRow DEF ConstantsOK
  <2>2. ASSUME NEW e \in Exports \ {f} PROVE row'[e] = row[e] /\ pin'[e] = pin[e]
    BY <1>1, <1>5, CreateRow DEF Creates
  <2> QED BY <2>1, <2>2 DEF PinsLast, Live
<1>6. ASSUME NEW x \in Files, Ends(x) PROVE PinsLast'
  <2>1. x[1] \in Exports
    BY DEF Files
  <2>2. ASSUME NEW e \in Exports, Live(e)' PROVE pin'[e] = pin[e]
    <3>1. CASE e # x[1]
      BY <1>1, <1>6, <2>1, <3>1 DEF Ends, FinishReady, FinishFailed
    <3>2. CASE e = x[1] /\ FinishReady(x)
      <4>1. row'[e].status = "ready"
        BY <1>1, <2>1, <3>2 DEF FinishReady
      <4> QED BY <2>2, <4>1 DEF Live, Pending
    <3>3. CASE e = x[1] /\ FinishFailed(x)
      <4>1. CASE UNCHANGED pin
        BY <4>1
      <4>2. CASE \E retry, named \in BOOLEAN :
                   LET again == retry /\ row[e].epoch < MaxAttempts IN
                   /\ row' = [row EXCEPT ![e] = FailedRow(@, again, named)]
                   /\ pin' = [pin EXCEPT ![e] = IF PinsKept(again) THEN @ ELSE 0]
        <5>1. PICK retry \in BOOLEAN, named \in BOOLEAN :
                LET again == retry /\ row[e].epoch < MaxAttempts IN
                /\ row' = [row EXCEPT ![e] = FailedRow(@, again, named)]
                /\ pin' = [pin EXCEPT ![e] = IF PinsKept(again) THEN @ ELSE 0]
          BY <4>2
        <5> DEFINE again == retry /\ row[e].epoch < MaxAttempts
        <5>2. row'[e].status = IF again THEN "retry_wait" ELSE "failed"
          BY <1>1, <5>1 DEF FailedRow, Rows
        <5>3. again
          BY <2>2, <5>2 DEF Live, Pending
        <5> QED BY <1>1, <5>1, <5>3 DEF PinsKept
      <4> QED BY <3>3, <4>1, <4>2 DEF FinishFailed
    <3> QED BY <1>6, <3>1, <3>2, <3>3 DEF Ends
  <2> QED BY <1>3, <1>6, <2>2 DEF PinsLast, Ends
<1>7. CASE Tick
  <2>1. Quiet
    BY <1>7, QuietRows DEF Quiet
  <2>2. ASSUME NEW e \in Exports, Live(e)' PROVE pin'[e] > row'[e].deadline
    <3>1. pin[e] > row[e].deadline
      BY <1>2, <2>1, <2>2 DEF PinsLast, Quiet
    <3>2. row'[e].deadline = Less(row[e].deadline) /\ pin'[e] = Less(pin[e])
      BY <1>1, <1>7 DEF Tick, Rows
    <3>3. row[e].deadline \in Nat /\ pin[e] \in Nat /\ row'[e].deadline > 0
      BY <1>1, <2>2 DEF Rows, Live
    <3> QED BY <3>1, <3>2, <3>3 DEF Less
  <2> QED BY <2>2 DEF PinsLast
<1>8. ASSUME NEW f \in Exports, ClaimExport(f) PROVE PinsLast'
  BY <1>4, <1>8, ClaimRow DEF ClaimExport
<1>9. CASE Quiet /\ UNCHANGED pin
  BY <1>4, <1>9 DEF Quiet
<1>10. \/ UNCHANGED pin \/ Tick
       \/ \E e \in Exports, a \in Asks : CreateExport(e, a)
       \/ \E x \in Files : FinishReady(x) \/ FinishFailed(x)
  BY DEF Next, Work, Download, vars, ReadExpired, ClaimExport, RemoveExpired, AskDownload, Place,
         FinishRefused, Discard, Crash, SweepLook, SweepRemove, CheckDownload, LeaseDownload,
         OpenDownload, EndDownload, ServerCrash, PendingExports, ExpiredExportFiles
<1>11. ASSUME NEW e \in Exports, NEW a \in Asks, CreateExport(e, a) PROVE Creates(e)
  BY <1>11 DEF CreateExport, Creates
<1>12. ASSUME NEW x \in Files, FinishReady(x) \/ FinishFailed(x)
       PROVE  Ends(x) \/ UNCHANGED <<row, pin>>
  BY <1>12, FinishEnds
<1>13. CASE UNCHANGED <<row, pin>>
  BY <1>13 DEF PinsLast, Live
<1> QED BY <1>5, <1>6, <1>7, <1>8, <1>9, <1>10, <1>11, <1>12, <1>13, RowSteps

LEMMA PublisherPinned ==
  ASSUME ConstantsOK, TypeOK, OneLeased, PinsLast
  PROVE  OnePinnedPublisher
<1>1. row \in [Exports -> Rows] /\ pin \in [Exports -> 0 .. PinFor]
  BY Shapes
<1>2. ASSUME NEW x \in Files, Fence(x)
      PROVE  x[1] \in Exports /\ Live(x[1]) /\ row[x[1]].lease > 0 /\ x = <<x[1], row[x[1]].epoch>>
  BY <1>2 DEF Fence, Live, Pending, Files
<1>3. ASSUME NEW x \in Files, Fence(x) PROVE pin[x[1]] > 0
  BY <1>1, <1>2, <1>3 DEF PinsLast, Rows
<1>4. ASSUME NEW x \in Files, NEW y \in Files, Fence(x), Fence(y) PROVE x = y
  BY <1>2, <1>4 DEF OneLeased
<1> QED BY <1>3, <1>4 DEF OnePinnedPublisher

-----------------------------------------------------------------------------
(* The limits. *)

ChargedSet == {e \in Exports : Charged(e)}
LiveSet == {e \in Exports : Live(e)}

\* A set that gains at most one element stays within a bound it was below.
LEMMA OneMoreFits ==
  ASSUME NEW S, NEW T, NEW e, NEW n \in Nat, IsFiniteSet(S),
         T \subseteq S \cup {e}, Cardinality(S) < n
  PROVE  Cardinality(T) <= n
<1>1. IsFiniteSet(S \cup {e}) /\ Cardinality(S \cup {e}) <= Cardinality(S) + 1
  <2>1. IsFiniteSet(S \cup {e}) /\ Cardinality(S) \in Nat
    BY FS_AddElement, FS_CardinalityType
  <2>2. Cardinality(S \cup {e}) = IF e \in S THEN Cardinality(S) ELSE Cardinality(S) + 1
    BY FS_AddElement
  <2> QED BY <2>1, <2>2
<1>2. Cardinality(T) <= Cardinality(S \cup {e})
  BY <1>1, FS_Subset
<1>3. Cardinality(T) \in Nat /\ Cardinality(S) \in Nat /\ Cardinality(S \cup {e}) \in Nat
  BY <1>1, FS_Subset, FS_CardinalityType
<1> QED BY <1>1, <1>2, <1>3

LEMMA StepLimits ==
  ASSUME ConstantsOK, TypeOK, LeasesLast, LimitsRespected, [Next]_vars
  PROVE  LimitsRespected'
<1>1. /\ row \in [Exports -> Rows] /\ IsFiniteSet(Exports)
      /\ IsFiniteSet(LiveSet) /\ IsFiniteSet(ChargedSet)
      /\ MaxLive \in Nat /\ Budget \in Nat
  <2>1. LiveSet \subseteq Exports /\ ChargedSet \subseteq Exports
    BY DEF LiveSet, ChargedSet
  <2> QED BY <2>1, Shapes, FS_Subset DEF ConstantsOK
<1>2. ASSUME \A e \in Exports : row'[e] \in Rows /\ Ages(e) PROVE LimitsRespected'
  <2>1. ASSUME NEW e \in Exports PROVE Live(e)' => Live(e)
    BY <1>1, <1>2 DEF Ages, Live, Moves, Pending, Rows
  <2>2. ASSUME NEW e \in Exports PROVE Charged(e)' => Charged(e)
    BY <1>2 DEF Ages, Charged, Moves, Pending, Gone
  <2>3. LiveSet' \subseteq LiveSet /\ ChargedSet' \subseteq ChargedSet
    BY <2>1, <2>2 DEF LiveSet, ChargedSet
  <2>4. /\ Cardinality(LiveSet') <= Cardinality(LiveSet) /\ Cardinality(LiveSet') \in Nat
        /\ Cardinality(ChargedSet') <= Cardinality(ChargedSet) /\ Cardinality(ChargedSet') \in Nat
        /\ Cardinality(LiveSet) \in Nat /\ Cardinality(ChargedSet) \in Nat
    BY <1>1, <2>3, FS_Subset, FS_CardinalityType
  <2>5. Cardinality(LiveSet) <= MaxLive /\ Cardinality(ChargedSet) <= Budget
    BY DEF LimitsRespected, LiveSet, ChargedSet
  <2>6. Cardinality(LiveSet') <= MaxLive /\ Cardinality(ChargedSet') <= Budget
    BY <1>1, <2>4, <2>5
  <2>7. \A e, f \in Exports : (e # f /\ Live(e)' /\ Live(f)') =>
          SessionOf(row'[e].ask) # SessionOf(row'[f].ask)
    BY <1>2, <2>1 DEF LimitsRespected, Ages
  <2> QED BY <2>6, <2>7 DEF LimitsRespected, LiveSet, ChargedSet
<1>3. ASSUME NEW f \in Exports, Creates(f) PROVE LimitsRespected'
  <2>1. PICK a \in Asks :
          /\ Admitted(a)
          /\ row' = [row EXCEPT ![f] = [NoRow EXCEPT !.status = "queued", !.ask = a,
                                                     !.deadline = JobFor]]
    BY <1>3 DEF Creates
  <2>2. row'[f].ask = a
    BY <1>1, <2>1, NewRow DEF Rows
  <2>3. \A e \in Exports \ {f} : row'[e] = row[e]
    BY <1>3, CreateRow
  <2>4. \A e \in Exports \ {f} : (Live(e)' <=> Live(e)) /\ (Charged(e)' <=> Charged(e))
    BY <2>3 DEF Live, Charged
  <2>5. LiveSet' \subseteq LiveSet \cup {f} /\ ChargedSet' \subseteq ChargedSet \cup {f}
    BY <2>4 DEF LiveSet, ChargedSet
  <2>6. Cardinality(LiveSet) < MaxLive /\ Cardinality(ChargedSet) < Budget
    BY <2>1 DEF Admitted, LiveSet, ChargedSet
  <2>7. Cardinality(LiveSet') <= MaxLive /\ Cardinality(ChargedSet') <= Budget
    BY <1>1, <2>5, <2>6, OneMoreFits
  <2>8. \A e \in Exports \ {f} : Live(e) => SessionOf(row[e].ask) # SessionOf(a)
    BY <2>1 DEF Admitted
  <2>9. \A e, g \in Exports : (e # g /\ Live(e)' /\ Live(g)') =>
          SessionOf(row'[e].ask) # SessionOf(row'[g].ask)
    BY <2>2, <2>3, <2>4, <2>8 DEF LimitsRespected
  <2> QED BY <2>7, <2>9 DEF LimitsRespected, LiveSet, ChargedSet
<1> QED BY <1>2, <1>3, RowSteps, ClaimRow DEF Quiet, Ends

-----------------------------------------------------------------------------
(* What is cleaned up. *)

\* Files belong to executions that were claimed; a row that does not exist has none.
FilesKnown ==
  \A x \in Files :
    (file[x] # Absent \/ exec[x] # "none" \/ x \in unprotected) => x[2] <= row[x[1]].epoch
RowsNew == \A e \in Exports : row[e].status = "absent" => row[e].epoch = 0

\* The clean-up and the sweep have listed what is over for good.
DoomedGone ==
  /\ \A e \in doomed : row[e].status \in Gone
  /\ \A e \in Exports : row[e].deleted => row[e].status \in Gone
SweptFree ==
  \A x \in unprotected :
    LET r == row[x[1]] IN
    /\ ~(r.epoch = x[2] /\ r.status = "running" /\ r.deadline > 0)
    /\ ~(r.status = "ready" /\ r.key = x[2])

FilesInv == FilesKnown /\ RowsNew /\ DoomedGone /\ SweptFree

\* Steps that keep epochs, keys, states and stages of a file's export.
LEMMA FilesStay ==
  ASSUME ConstantsOK, TypeOK, LeasesLast, FilesInv, Quiet,
         UNCHANGED <<exec, unprotected>>,
         \A x \in Files : file'[x] # Absent => file[x] # Absent,
         \A e \in doomed' : row'[e].status \in Gone
  PROVE  FilesInv'
<1>1. row \in [Exports -> Rows] /\ unprotected \subseteq Files
  BY Shapes
<1>2. \A x \in Files : x[1] \in Exports
  BY DEF Files
<1>3. FilesKnown'
  BY <1>2 DEF FilesInv, FilesKnown, Quiet, Stands
<1>4. RowsNew'
  BY DEF FilesInv, RowsNew, Quiet, Stands, Ages, Moves
<1>5. DoomedGone'
  <2>1. ASSUME NEW e \in Exports, row[e].status \in Gone PROVE row'[e].status \in Gone
    BY <2>1 DEF Quiet, Ages, Moves, Gone
  <2> QED BY <2>1 DEF FilesInv, DoomedGone, Quiet, Ages
<1>6. SweptFree'
  <2>1. ASSUME NEW x \in unprotected, NEW e \in Exports, e = x[1],
               row'[e].status \in {"running", "ready"}
        PROVE  /\ row'[e].status = row[e].status /\ row'[e].epoch = row[e].epoch
               /\ row'[e].key = row[e].key /\ (row'[e].deadline > 0 => row[e].deadline > 0)
    <3>1. row[e] \in Rows /\ row'[e] \in Rows /\ Ages(e) /\ Stands(e)
      BY <1>1 DEF Quiet
    <3>2. row'[e].deadline <= row[e].deadline /\ row'[e].deadline \in Nat /\ row[e].deadline \in Nat
      BY <3>1 DEF Ages, Rows
    <3> QED BY <2>1, <3>1, <3>2 DEF Stands
  <2> QED BY <1>1, <1>2, <2>1 DEF FilesInv, SweptFree
<1> QED BY <1>3, <1>4, <1>5, <1>6 DEF FilesInv

\* Steps of executions and of the sweep, which leave the rows.
LEMMA FilesWork ==
  ASSUME ConstantsOK, TypeOK, FilesInv, UNCHANGED <<row, doomed>>,
         \A x \in Files : (file'[x] # Absent \/ exec'[x] # "none") =>
                          (file[x] # Absent \/ exec[x] # "none"),
         \A x \in unprotected' :
           x \in unprotected \/ (x \in Files /\ file[x] # Absent /\ ~ExportFileProtected(x))
  PROVE  FilesInv'
<1>1. row \in [Exports -> Rows] /\ unprotected \subseteq Files /\ \A x \in Files : x[1] \in Exports
  BY Shapes DEF Files
<1>2. FilesKnown' /\ RowsNew' /\ DoomedGone'
  BY DEF FilesInv, FilesKnown, RowsNew, DoomedGone
<1>3. ASSUME NEW x \in Files, ~ExportFileProtected(x)
      PROVE  /\ ~(row[x[1]].epoch = x[2] /\ row[x[1]].status = "running" /\ row[x[1]].deadline > 0)
             /\ ~(row[x[1]].status = "ready" /\ row[x[1]].key = x[2])
  BY <1>1, <1>3 DEF ExportFileProtected, FilesInv, DoomedGone, Gone
<1>4. SweptFree'
  BY <1>3 DEF FilesInv, SweptFree
<1> QED BY <1>2, <1>4 DEF FilesInv

LEMMA FilesClaim ==
  ASSUME ConstantsOK, TypeOK, LeasesLast, FilesInv, NEW f \in Exports, ClaimExport(f)
  PROVE  FilesInv'
<1>1. /\ row \in [Exports -> Rows] /\ exec \in [Files -> Stages]
      /\ unprotected \subseteq Files /\ doomed \subseteq Exports
      /\ \A x \in Files : x[1] \in Exports /\ x[2] \in Nat /\ x = <<x[1], x[2]>>
  BY Shapes DEF Files
<1>2. /\ \A e \in Exports \ {f} : row'[e] = row[e]
      /\ row'[f].epoch = row[f].epoch + 1 /\ row'[f].status = "running"
      /\ row[f].status \in {"queued", "retry_wait"} /\ row[f].epoch \in Nat
      /\ \A e \in Exports : Ages(e)
  BY <1>1, ClaimRow DEF Rows
<1>3. /\ exec' = [exec EXCEPT ![<<f, row[f].epoch + 1>>] = "writing"]
      /\ UNCHANGED <<file, doomed, unprotected>>
  BY DEF ClaimExport
<1>4. FilesKnown'
  <2>1. ASSUME NEW x \in Files, file'[x] # Absent \/ exec'[x] # "none" \/ x \in unprotected'
        PROVE  x[2] <= row'[x[1]].epoch
    <3>1. CASE x = <<f, row[f].epoch + 1>>
      BY <1>1, <1>2, <3>1
    <3>2. CASE x # <<f, row[f].epoch + 1>>
      <4>1. x[2] <= row[x[1]].epoch
        BY <1>1, <1>3, <2>1, <3>2 DEF FilesInv, FilesKnown
      <4>2. CASE x[1] = f
        BY <1>1, <1>2, <4>1, <4>2
      <4>3. CASE x[1] # f
        BY <1>1, <1>2, <4>1, <4>3
      <4> QED BY <4>2, <4>3
    <3> QED BY <3>1, <3>2
  <2> QED BY <2>1 DEF FilesKnown
<1>5. RowsNew'
  BY <1>2 DEF FilesInv, RowsNew
<1>6. DoomedGone'
  <2>1. \A e \in Exports : row[e].status \in Gone => e # f
    BY <1>2 DEF Gone
  <2>2. \A e \in doomed' : row'[e].status \in Gone
    BY <1>1, <1>2, <1>3, <2>1 DEF FilesInv, DoomedGone
  <2>3. ASSUME NEW e \in Exports, row'[e].deleted PROVE row'[e].status \in Gone
    <3>1. CASE e = f
      BY <1>2, <2>1, <2>3, <3>1 DEF Ages, FilesInv, DoomedGone
    <3>2. CASE e # f
      BY <1>2, <2>3, <3>2 DEF FilesInv, DoomedGone
    <3> QED BY <3>1, <3>2
  <2> QED BY <2>2, <2>3 DEF DoomedGone
<1>7. SweptFree'
  <2>1. ASSUME NEW x \in unprotected
        PROVE  LET r == row'[x[1]] IN
               /\ ~(r.epoch = x[2] /\ r.status = "running" /\ r.deadline > 0)
               /\ ~(r.status = "ready" /\ r.key = x[2])
    <3>1. x \in Files /\ x[2] <= row[x[1]].epoch
      BY <1>1 DEF FilesInv, FilesKnown
    <3>2. CASE x[1] = f
      BY <1>1, <1>2, <3>1, <3>2
    <3>3. CASE x[1] # f
      BY <1>1, <1>2, <3>1, <3>3 DEF FilesInv, SweptFree
    <3> QED BY <3>2, <3>3
  <2> QED BY <1>3, <2>1 DEF SweptFree
<1> QED BY <1>4, <1>5, <1>6, <1>7 DEF FilesInv

\* A publication or a failure frees nothing that the sweep has listed.
LEMMA FilesEnd ==
  ASSUME ConstantsOK, TypeOK, LeasesLast, FilesInv, NEW x \in Files, Ends(x)
  PROVE  FilesInv'
<1> DEFINE f == x[1]
<1>1. /\ row \in [Exports -> Rows] /\ exec \in [Files -> Stages]
      /\ unprotected \subseteq Files /\ doomed \subseteq Exports /\ f \in Exports
      /\ \A y \in Files : y[1] \in Exports
  BY Shapes DEF Files
<1>2. /\ \A e \in Exports \ {f} : row'[e] = row[e]
      /\ row'[f].epoch = row[f].epoch /\ row'[f].status # "running"
      /\ row'[f].status = "ready" => row'[f].key = x[2]
      /\ row[f].status = "running" /\ row[f].epoch = x[2] /\ row[f].deadline > 0
      /\ \A e \in Exports : Ages(e)
  BY DEF Ends, Fence
<1>3. /\ UNCHANGED <<file, doomed, unprotected>>
      /\ \A y \in Files : exec'[y] # "none" => exec[y] # "none"
  BY <1>1 DEF Ends, FinishReady, FinishFailed
<1>4. \A e \in Exports : row'[e].epoch = row[e].epoch
  BY <1>2
<1>5. FilesKnown'
  BY <1>1, <1>3, <1>4 DEF FilesInv, FilesKnown
<1>6. RowsNew'
  BY <1>2, <1>4 DEF FilesInv, RowsNew, Ages, Moves
<1>7. DoomedGone'
  <2>1. \A e \in Exports : row[e].status \in Gone => e # f
    BY <1>2 DEF Gone
  <2>2. \A e \in doomed' : row'[e].status \in Gone
    BY <1>1, <1>2, <1>3, <2>1 DEF FilesInv, DoomedGone
  <2>3. ASSUME NEW e \in Exports, row'[e].deleted PROVE row'[e].status \in Gone
    <3>1. CASE e = f
      BY <1>2, <2>1, <2>3, <3>1 DEF Ages, FilesInv, DoomedGone
    <3>2. CASE e # f
      BY <1>2, <2>3, <3>2 DEF FilesInv, DoomedGone
    <3> QED BY <3>1, <3>2
  <2> QED BY <2>2, <2>3 DEF DoomedGone
<1>8. SweptFree'
  <2>1. ASSUME NEW y \in unprotected
        PROVE  LET r == row'[y[1]] IN
               /\ ~(r.epoch = y[2] /\ r.status = "running" /\ r.deadline > 0)
               /\ ~(r.status = "ready" /\ r.key = y[2])
    <3>1. CASE y[1] = f
      <4>1. y[2] # x[2]
        BY <1>2, <3>1 DEF FilesInv, SweptFree
      <4> QED BY <1>2, <3>1, <4>1
    <3>2. CASE y[1] # f
      BY <1>1, <1>2, <3>2 DEF FilesInv, SweptFree
    <3> QED BY <3>1, <3>2
  <2> QED BY <1>3, <2>1 DEF SweptFree
<1> QED BY <1>5, <1>6, <1>7, <1>8 DEF FilesInv

LEMMA FilesCreate ==
  ASSUME ConstantsOK, TypeOK, LeasesLast, FilesInv, NEW f \in Exports, Creates(f)
  PROVE  FilesInv'
<1>1. /\ row \in [Exports -> Rows] /\ unprotected \subseteq Files /\ doomed \subseteq Exports
      /\ \A y \in Files : y[1] \in Exports /\ y[2] \in Nat \ {0}
  BY Shapes DEF Files
<1>2. /\ \A e \in Exports \ {f} : row'[e] = row[e]
      /\ row'[f].status = "queued" /\ row'[f].epoch = 0 /\ row'[f].deleted = FALSE
      /\ row[f].status = "absent" /\ row[f].epoch = 0
  BY CreateRow DEF FilesInv, RowsNew
<1>3. UNCHANGED <<file, exec, doomed, unprotected>>
  BY DEF Creates
<1>4. \A e \in Exports : row'[e].epoch = row[e].epoch
  BY <1>2
<1>5. FilesKnown' /\ RowsNew'
  BY <1>1, <1>2, <1>3, <1>4 DEF FilesInv, FilesKnown, RowsNew
<1>6. DoomedGone'
  <2>1. \A e \in Exports : row[e].status \in Gone => e # f
    BY <1>2 DEF Gone
  <2> QED BY <1>1, <1>2, <1>3, <2>1 DEF FilesInv, DoomedGone
<1>7. SweptFree'
  BY <1>1, <1>2, <1>3 DEF FilesInv, SweptFree
<1> QED BY <1>5, <1>6, <1>7 DEF FilesInv

LEMMA StepFiles ==
  ASSUME ConstantsOK, TypeOK, LeasesLast, FilesInv, [Next]_vars
  PROVE  FilesInv'
<1>1. /\ row \in [Exports -> Rows] /\ exec \in [Files -> Stages] /\ doomed \subseteq Exports
      /\ file \in [Files -> Absent .. SweepAfter] /\ unprotected \subseteq Files
  BY Shapes
<1>2. \A e \in doomed : row[e].status \in Gone
  BY DEF FilesInv, DoomedGone
<1>3. ASSUME Quiet, NEW e \in doomed PROVE row'[e].status \in Gone
  BY <1>1, <1>2, <1>3 DEF Quiet, Ages, Moves, Gone
<1>4. ASSUME UNCHANGED <<row, file, exec, doomed, unprotected>> PROVE FilesInv'
  BY <1>4 DEF FilesInv, FilesKnown, RowsNew, DoomedGone, SweptFree
<1>5. ASSUME NEW x \in Files, FinishReady(x) \/ FinishFailed(x) PROVE FilesInv'
  <2>1. CASE Ends(x)
    BY <2>1, FilesEnd
  <2>2. CASE UNCHANGED <<row, pin>>
    <3>1. /\ UNCHANGED <<row, doomed, file, unprotected>>
          /\ \A y \in Files : exec'[y] # "none" => exec[y] # "none"
      BY <1>1, <1>5, <2>2 DEF FinishReady, FinishFailed
    <3> QED BY <3>1, FilesWork
  <2> QED BY <1>5, <2>1, <2>2, FinishEnds
<1>6. ASSUME NEW x \in Files, Place(x) \/ FinishRefused(x) \/ Discard(x) \/ Crash(x)
      PROVE  FilesInv'
  <2>1. /\ UNCHANGED <<row, doomed, unprotected>>
        /\ \A y \in Files : (file'[y] # Absent \/ exec'[y] # "none") =>
                            (file[y] # Absent \/ exec[y] # "none")
    BY <1>1, <1>6 DEF Place, FinishRefused, Discard, Crash
  <2> QED BY <2>1, FilesWork
<1>7. ASSUME NEW x \in Files, SweepLook(x) \/ SweepRemove(x) PROVE FilesInv'
  <2>1. /\ UNCHANGED <<row, doomed, exec>>
        /\ \A y \in Files : file'[y] # Absent => file[y] # Absent
    BY <1>1, <1>7 DEF SweepLook, SweepRemove
  <2>2. \A y \in unprotected' :
          y \in unprotected \/ (y \in Files /\ file[y] # Absent /\ ~ExportFileProtected(y))
    BY <1>7 DEF SweepLook, SweepRemove, Sweepable, Absent
  <2> QED BY <2>1, <2>2, FilesWork
<1>8. ASSUME NEW e \in Exports, ReadExpired(e) \/ RemoveExpired(e) PROVE FilesInv'
  <2>1. Quiet
    BY <1>8, QuietRows DEF Quiet
  <2>2. /\ UNCHANGED <<exec, unprotected>> /\ doomed' \subseteq doomed
        /\ \A x \in Files : file'[x] # Absent => file[x] # Absent
    BY <1>1, <1>8 DEF ReadExpired, RemoveExpired
  <2> QED BY <1>3, <2>1, <2>2, FilesStay
<1>9. CASE PendingExports \/ \E d \in Downloads : OpenDownload(d)
  <2>1. Quiet
    BY <1>9, QuietRows DEF Quiet
  <2>2. UNCHANGED <<exec, unprotected, doomed, file>>
    BY <1>9 DEF PendingExports, OpenDownload
  <2> QED BY <1>3, <2>1, <2>2, FilesStay
<1>10. CASE Tick
  <2>1. Quiet
    BY <1>10, QuietRows DEF Quiet
  <2>2. UNCHANGED <<exec, unprotected, doomed>> /\ \A x \in Files : file'[x] = Less(file[x])
    BY <1>10 DEF Tick
  <2>3. \A x \in Files : file'[x] # Absent => file[x] # Absent
    BY <2>2 DEF Less, Absent
  <2> QED BY <1>3, <2>1, <2>2, <2>3, FilesStay
<1>11. CASE ExpiredExportFiles
  <2>1. Quiet
    BY <1>11, QuietRows DEF Quiet
  <2>2. UNCHANGED <<exec, unprotected, file>> /\ \A e \in doomed' : row'[e].status \in Gone
    BY <1>11 DEF ExpiredExportFiles, Removable
  <2> QED BY <2>1, <2>2, FilesStay
<1>12. ASSUME NEW e \in Exports, NEW a \in Asks, CreateExport(e, a) PROVE FilesInv'
  <2>1. Creates(e)
    BY <1>12 DEF CreateExport, Creates
  <2> QED BY <2>1, FilesCreate
<1>13. ASSUME NEW d \in Downloads, \/ CheckDownload(d) \/ LeaseDownload(d) \/ EndDownload(d)
                                   \/ ServerCrash(d) \/ \E e \in Exports : AskDownload(d, e)
       PROVE  FilesInv'
  BY <1>4, <1>13 DEF CheckDownload, LeaseDownload, EndDownload, ServerCrash, AskDownload
<1>14. CASE UNCHANGED vars
  BY <1>4, <1>14 DEF vars
<1> QED BY <1>5, <1>6, <1>7, <1>8, <1>9, <1>10, <1>11, <1>12, <1>13, <1>14, FilesClaim
        DEF Next, Work, Download

\* The copy that a ready row names outlasts the step, unless its execution does
\* not know of its commit.
Spared ==
  \A e \in Exports :
    (/\ row[e].status = "ready" /\ row[e].key # 0
     /\ file[Copy(e)] # Absent /\ exec[Copy(e)] # "unsaved")
    => file'[Copy(e)] # Absent

LEMMA StepSpares ==
  ASSUME ConstantsOK, TypeOK, FilesInv, [Next]_vars
  PROVE  Spared
<1>1. /\ row \in [Exports -> Rows] /\ file \in [Files -> Absent .. SweepAfter]
      /\ exec \in [Files -> Stages] /\ doomed \subseteq Exports
  BY Shapes
<1>2. SUFFICES ASSUME NEW e \in Exports, row[e].status = "ready", row[e].key # 0,
                      file[Copy(e)] # Absent, exec[Copy(e)] # "unsaved"
               PROVE  file'[Copy(e)] # Absent
  BY DEF Spared
<1>3. Copy(e) \in Files /\ Copy(e)[1] = e /\ Copy(e)[2] = row[e].key
  BY <1>1, <1>2 DEF Copy, Files, Rows
<1>4. CASE UNCHANGED file
  BY <1>2, <1>4
<1>5. ASSUME NEW x \in Files, Place(x) PROVE file'[Copy(e)] # Absent
  BY <1>1, <1>2, <1>3, <1>5 DEF Place, Absent, ConstantsOK
<1>6. ASSUME NEW x \in Files, Discard(x) PROVE file'[Copy(e)] # Absent
  <2>1. x # Copy(e) /\ file' = [file EXCEPT ![x] = Absent]
    BY <1>2, <1>6 DEF Discard
  <2> QED BY <1>1, <1>2, <1>3, <2>1
<1>7. ASSUME NEW x \in Files, SweepRemove(x) PROVE file'[Copy(e)] # Absent
  <2>1. x # Copy(e) /\ file' = [file EXCEPT ![x] = Absent]
    BY <1>2, <1>3, <1>7 DEF SweepRemove, FilesInv, SweptFree
  <2> QED BY <1>1, <1>2, <1>3, <2>1
<1>8. ASSUME NEW f \in Exports, RemoveExpired(f) PROVE file'[Copy(e)] # Absent
  <2>1. f # e /\ file' = [file EXCEPT ![Copy(f)] = Absent]
    BY <1>2, <1>8 DEF RemoveExpired, FilesInv, DoomedGone, Gone
  <2>2. Copy(f) # Copy(e)
    BY <2>1 DEF Copy
  <2> QED BY <1>1, <1>2, <1>3, <2>1, <2>2
<1>9. CASE Tick
  <2>1. file'[Copy(e)] = Less(file[Copy(e)])
    BY <1>3, <1>9 DEF Tick
  <2> QED BY <1>1, <1>2, <1>3, <2>1 DEF Less, Absent
<1>10. \/ UNCHANGED file \/ Tick
       \/ \E x \in Files : Place(x) \/ Discard(x) \/ SweepRemove(x)
       \/ \E f \in Exports : RemoveExpired(f)
  BY DEF Next, Work, Download, vars, CreateExport, ReadExpired, ClaimExport, AskDownload,
         FinishReady, FinishFailed, FinishRefused, Crash, SweepLook, CheckDownload, LeaseDownload,
         OpenDownload, EndDownload, ServerCrash, PendingExports, ExpiredExportFiles
<1> QED BY <1>4, <1>5, <1>6, <1>7, <1>8, <1>9, <1>10

-----------------------------------------------------------------------------
(* The theorems. *)

ExportsInv ==
  TypeOK /\ LeasesLast /\ OneLeased /\ PinsLast /\ LimitsRespected /\ FilesInv

LEMMA InitExports == ConstantsOK /\ Init => ExportsInv
<1> SUFFICES ASSUME ConstantsOK, Init PROVE ExportsInv
  OBVIOUS
<1>1. /\ row = [e \in Exports |-> NoRow] /\ pin = [e \in Exports |-> 0]
      /\ file = [x \in Files |-> Absent] /\ exec = [x \in Files |-> "none"]
      /\ dl = [d \in Downloads |-> Idle] /\ doomed = {} /\ unprotected = {}
  BY DEF Init
<1>2. /\ 0 \in 0 .. PinFor /\ Absent \in Absent .. SweepAfter /\ NoRow.deadline = 0
      /\ MaxLive \in Nat /\ Budget \in Nat
  BY DEF ConstantsOK, Absent, NoRow
<1>3. TypeOK
  BY <1>1, <1>2, NewRow, Shapes DEF LeasesRun, Stages
<1>4. LeasesLast /\ OneLeased
  BY <1>1, <1>2, NewRow DEF LeasesLast, OneLeased
<1>5. \A e \in Exports : ~Live(e) /\ ~Charged(e)
  BY <1>1, NewRow DEF Live, Charged, Pending, Gone
<1>6. PinsLast
  BY <1>5 DEF PinsLast
<1>7. LimitsRespected
  <2>1. {e \in Exports : Live(e)} = {} /\ {e \in Exports : Charged(e)} = {}
    BY <1>5
  <2>2. Cardinality({}) = 0
    BY FS_EmptySet
  <2> QED BY <1>2, <1>5, <2>1, <2>2 DEF LimitsRespected
<1>8. FilesInv
  BY <1>1, NewRow DEF FilesInv, FilesKnown, RowsNew, DoomedGone, SweptFree
<1> QED BY <1>3, <1>4, <1>6, <1>7, <1>8 DEF ExportsInv

LEMMA NextExports == ConstantsOK /\ ExportsInv /\ [Next]_vars => ExportsInv'
BY StepTypes, StepLeases, StepPins, StepLimits, StepFiles DEF ExportsInv

LEMMA ExportsKept ==
  ASSUME ConstantsOK
  PROVE  Spec => []ExportsInv
<1>1. Init => ExportsInv
  BY InitExports
<1>2. ExportsInv /\ [Next]_vars => ExportsInv'
  BY NextExports
<1> QED BY <1>1, <1>2, PTL DEF Spec

\* Whatever is claimed again, lost or late: of the executions that may still publish
\* there is one, and the images it needs are pinned.
THEOREM OnePublisher ==
  ASSUME ConstantsOK
  PROVE  Spec => []OnePinnedPublisher
<1>1. ExportsInv => OnePinnedPublisher
  BY PublisherPinned DEF ExportsInv
<1> QED BY <1>1, ExportsKept, PTL

\* Preparations and copies stay within their bounds, for all sessions and for one.
THEOREM LimitsHold ==
  ASSUME ConstantsOK
  PROVE  Spec => []LimitsRespected
<1>1. ExportsInv => LimitsRespected
  BY DEF ExportsInv
<1> QED BY <1>1, ExportsKept, PTL

\* Neither the clean-up nor the sweep, which both remove what they listed earlier,
\* removes a copy that a ready row names.
THEOREM ReadyIsSpared ==
  ASSUME ConstantsOK
  PROVE  Spec => CleanupSparesReady
<1>1. ExportsInv /\ [Next]_vars => [Spared]_vars
  BY StepSpares DEF ExportsInv
<1>2. CleanupSparesReady <=> [][Spared]_vars
  BY PTL DEF CleanupSparesReady, Spared
<1> QED BY <1>1, <1>2, ExportsKept, PTL DEF Spec

=============================================================================

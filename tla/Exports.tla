------------------------------ MODULE Exports ------------------------------
(***************************************************************************)
(* Article exports: the rows of article_exports, the files an execution    *)
(* places under exports/, downloads with their leases, the clean-up of     *)
(* expired copies and the sweep of files that no row names.                *)
(*                                                                         *)
(* A time stamp is the time left until it is reached, 0 once it is; Tick   *)
(* lets one unit pass.  Control transactions hold one advisory lock, so    *)
(* each is a step; the download transaction is two, because the clean-up   *)
(* statements run without the lock and may fall between its reads and its  *)
(* insert.  The broker delivers a task any number of times, so a claim may *)
(* be tried whenever the row allows it.                                    *)
(***************************************************************************)
EXTENDS Integers, FiniteSets

CONSTANTS
    Exports,        \* export rows
    Asks,           \* what is exported: <<session, request, format>>
    Downloads,      \* connections that download a copy
    MaxAttempts,    \* executions of one export (2)
    MaxLive,        \* exports in preparation, all sessions (5)
    Budget,         \* copies and preparations that may use disk (256 MiB / 64 MiB)
    MaxDownloads,   \* download leases, all sessions (2)
    JobFor, LeaseFor, RetryFor, KeepFor, DownloadFor, PinFor, SweepAfter,
    AnswerLost      \* whether the answer to a commit can get lost

\* What the constants satisfy: the instances assume it.
ConstantsOK ==
    /\ {MaxAttempts, MaxLive, Budget, MaxDownloads, JobFor, LeaseFor, RetryFor,
        KeepFor, DownloadFor, PinFor, SweepAfter} \subseteq Nat \ {0}
    /\ JobFor < PinFor
    /\ JobFor < SweepAfter
    /\ AnswerLost \in BOOLEAN
    /\ IsFiniteSet(Exports) /\ Exports # {} /\ Asks # {}

VARIABLES
    row,         \* article_exports
    pin,         \* time left of the pins on the images of an export
    file,        \* exports/<id>-<epoch>: time until it may be swept, or Absent
    exec,        \* where the execution of one epoch is
    dl,          \* downloads and their leases
    doomed,      \* clean-up: rows whose file it is about to remove
    unprotected  \* sweep: files it found to belong to nobody

vars == <<row, pin, file, exec, dl, doomed, unprotected>>

Absent == -1
Files == Exports \X (1 .. MaxAttempts)
Pending == {"queued", "running", "retry_wait"}
Gone == {"expired", "unavailable"}
Statuses == {"absent", "ready", "failed"} \cup Pending \cup Gone

NoRow == [status |-> "absent", ask |-> CHOOSE a \in Asks : TRUE, epoch |-> 0,
          deadline |-> 0, lease |-> 0, retry |-> 0, expires |-> 0, key |-> 0,
          deleted |-> FALSE]
Idle == [phase |-> "none", of |-> CHOOSE e \in Exports : TRUE, left |-> 0]

Init ==
    /\ row = [e \in Exports |-> NoRow]
    /\ pin = [e \in Exports |-> 0]
    /\ file = [x \in Files |-> Absent]
    /\ exec = [x \in Files |-> "none"]
    /\ dl = [d \in Downloads |-> Idle]
    /\ doomed = {}
    /\ unprotected = {}

SessionOf(a) == a[1]
Live(e) == row[e].status \in Pending /\ row[e].deadline > 0
Lesser(m, n) == IF m < n THEN m ELSE n

(* No transaction is between its first and its last statement. *)
LockFree == \A d \in Downloads : dl[d].phase # "checked"

----------------------------------------------------------------------------
(* Creating an export. *)

Reusable(e, a) ==
    /\ row[e].ask = a
    /\ Live(e) \/ (row[e].status = "ready" /\ row[e].expires > 0)

(* Rows whose copy, or whose preparation, is charged to the disk budget. *)
Charged(e) ==
    /\ ~row[e].deleted
    /\ row[e].status \in Pending \cup {"ready"} \cup Gone

UnbudgetedAdmitted(a) ==   \* mutant: copies on disk are not counted
    /\ Cardinality({f \in Exports : Live(f)}) < MaxLive
    /\ \A f \in Exports : Live(f) => SessionOf(row[f].ask) # SessionOf(a)

Admitted(a) ==
    /\ Cardinality({f \in Exports : Live(f)}) < MaxLive
    /\ \A f \in Exports : Live(f) => SessionOf(row[f].ask) # SessionOf(a)
    /\ Cardinality({f \in Exports : Charged(f)}) < Budget

CreateExport(e, a) ==
    /\ LockFree
    /\ row[e].status = "absent"
    /\ \A f \in Exports : ~Reusable(f, a)
    /\ Admitted(a)
    /\ row' = [row EXCEPT ![e] = [NoRow EXCEPT !.status = "queued", !.ask = a,
                                               !.deadline = JobFor]]
    /\ pin' = [pin EXCEPT ![e] = PinFor]
    /\ UNCHANGED <<file, exec, dl, doomed, unprotected>>

(* The owner reads the export after its life time. *)
ReadExpired(e) ==
    /\ row[e].status = "ready" /\ row[e].expires = 0
    /\ row' = [row EXCEPT ![e].status = "expired"]
    /\ UNCHANGED <<pin, file, exec, dl, doomed, unprotected>>

----------------------------------------------------------------------------
(* Preparing the file. *)

UndatedOverdue(e) ==   \* mutant: only a lost execution is failed
    row[e].status = "running" /\ row[e].lease = 0

Overdue(e) ==
    /\ row[e].status \in Pending
    /\ \/ row[e].deadline = 0
       \/ row[e].status = "running" /\ row[e].lease = 0

(* The dispatcher fails what ran out of time before it lists the rest. *)
PendingExports ==
    /\ LockFree
    /\ \E e \in Exports : Overdue(e)
    /\ row' = [e \in Exports |-> IF Overdue(e) THEN [row[e] EXCEPT !.status = "failed"]
                                               ELSE row[e]]
    /\ UNCHANGED <<pin, file, exec, dl, doomed, unprotected>>

Claimable(e) ==
    /\ \/ row[e].status = "queued"
       \/ row[e].status = "retry_wait" /\ row[e].retry = 0
    /\ row[e].deadline > 0
    /\ row[e].epoch < MaxAttempts

ClaimExport(e) ==
    LET k == row[e].epoch + 1 IN
    /\ LockFree
    /\ \A f \in Exports : ~(row[f].status = "running" /\ row[f].lease > 0)
    /\ Claimable(e)
    /\ row' = [row EXCEPT ![e].status = "running", ![e].epoch = k, ![e].retry = 0,
                          ![e].lease = Lesser(row[e].deadline, LeaseFor)]
    /\ exec' = [exec EXCEPT ![<<e, k>>] = "writing"]
    /\ UNCHANGED <<pin, file, dl, doomed, unprotected>>

(* The finished file is renamed to the name of its epoch. *)
Place(x) ==
    /\ exec[x] = "writing"
    /\ exec' = [exec EXCEPT ![x] = "placed"]
    /\ file' = [file EXCEPT ![x] = SweepAfter]
    /\ UNCHANGED <<row, pin, dl, doomed, unprotected>>

Fence(x) ==
    LET r == row[x[1]] IN
    r.status = "running" /\ r.epoch = x[2] /\ r.lease > 0 /\ r.deadline > 0

(* FinishExport after a success.  When the call returns an error the       *)
(* execution removes its file, whether the commit took place or not.       *)
FinishReady(x) ==
    LET e == x[1] IN
    /\ LockFree
    /\ exec[x] = "placed"
    /\ Fence(x)
    /\ row' = [row EXCEPT ![e].status = "ready", ![e].key = x[2], ![e].lease = 0,
                          ![e].expires = KeepFor]
    /\ pin' = [pin EXCEPT ![e] = 0]
    /\ \E answer \in {"none"} \cup (IF AnswerLost THEN {"unsaved"} ELSE {}) :
          exec' = [exec EXCEPT ![x] = answer]
    /\ UNCHANGED <<file, dl, doomed, unprotected>>

FinishRefused(x) ==
    /\ exec[x] = "placed"
    /\ exec' = [exec EXCEPT ![x] = "unsaved"]
    /\ UNCHANGED <<row, pin, file, dl, doomed, unprotected>>

Discard(x) ==
    /\ exec[x] = "unsaved"
    /\ exec' = [exec EXCEPT ![x] = "none"]
    /\ file' = [file EXCEPT ![x] = Absent]
    /\ UNCHANGED <<row, pin, dl, doomed, unprotected>>

(* FinishExport after a failure; retry says that the error was none of the *)
(* product's own and that active time is left, named that the rename was   *)
(* what failed, so that the row keeps the name of a file it does not have. *)
FailedRow(r, again, named) ==
    [r EXCEPT !.status = IF again THEN "retry_wait" ELSE "failed",
              !.retry = IF again THEN RetryFor ELSE 0,
              !.key = IF named THEN r.epoch ELSE 0,
              !.lease = 0]

PinsReleased(again) == FALSE   \* mutant: a retry loses its pins

PinsKept(again) == again

FinishFailed(x) ==
    LET e == x[1] IN
    /\ LockFree
    /\ exec[x] = "writing"
    /\ exec' = [exec EXCEPT ![x] = "none"]
    /\ \/ /\ Fence(x)
          /\ \E retry, named \in BOOLEAN :
                LET again == retry /\ row[e].epoch < MaxAttempts IN
                /\ row' = [row EXCEPT ![e] = FailedRow(@, again, named)]
                /\ pin' = [pin EXCEPT ![e] = IF PinsKept(again) THEN @ ELSE 0]
       \/ UNCHANGED <<row, pin>>
    /\ UNCHANGED <<file, dl, doomed, unprotected>>

(* The worker dies; what it has placed stays on disk. *)
Crash(x) ==
    /\ exec[x] # "none"
    /\ exec' = [exec EXCEPT ![x] = "none"]
    /\ UNCHANGED <<row, pin, file, dl, doomed, unprotected>>

----------------------------------------------------------------------------
(* Downloads. *)

Leases(d) == {c \in Downloads \ {d} : dl[c].left > 0}

AskDownload(d, e) ==
    /\ dl[d].phase = "none" /\ dl[d].left = 0
    /\ row[e].status = "ready" /\ row[e].expires > 0
    /\ dl' = [dl EXCEPT ![d] = [Idle EXCEPT !.phase = "asked", !.of = e]]
    /\ UNCHANGED <<row, pin, file, exec, doomed, unprotected>>

Downloadable(d) ==
    LET e == dl[d].of IN
    /\ row[e].status = "ready" /\ row[e].expires > 0
    /\ Cardinality(Leases(d)) < MaxDownloads
    /\ \A c \in Leases(d) :
          SessionOf(row[dl[c].of].ask) # SessionOf(row[e].ask)

(* ExportDownload: its reads, and then its insert and commit. *)
CheckDownload(d) ==
    /\ LockFree
    /\ dl[d].phase = "asked"
    /\ dl' = [dl EXCEPT ![d].phase = IF Downloadable(d) THEN "checked" ELSE "none"]
    /\ UNCHANGED <<row, pin, file, exec, doomed, unprotected>>

LeaseDownload(d) ==
    /\ dl[d].phase = "checked"
    /\ dl' = [dl EXCEPT ![d].phase = "leased", ![d].left = DownloadFor]
    /\ UNCHANGED <<row, pin, file, exec, doomed, unprotected>>

Copy(e) == <<e, row[e].key>>

(* The copy is opened and its digest compared before the first byte is sent. *)
OpenDownload(d) ==
    LET e == dl[d].of IN
    /\ dl[d].phase = "leased"
    /\ \/ /\ file[Copy(e)] # Absent
          /\ dl' = [dl EXCEPT ![d].phase = "open"]
          /\ UNCHANGED row
       \/ \* the file is missing or damaged
          /\ row' = [row EXCEPT ![e].status =
                        IF row[e].status = "ready" THEN "unavailable" ELSE @]
          /\ dl' = [dl EXCEPT ![d] = Idle]
    /\ UNCHANGED <<pin, file, exec, doomed, unprotected>>

EndDownload(d) ==
    /\ dl[d].phase = "open"
    /\ dl' = [dl EXCEPT ![d] = Idle]
    /\ UNCHANGED <<row, pin, file, exec, doomed, unprotected>>

(* The server dies: the lease, if it was committed, stays until it is over. *)
ServerCrash(d) ==
    /\ dl[d].phase # "none"
    /\ dl' = [dl EXCEPT ![d].phase = "none"]
    /\ UNCHANGED <<row, pin, file, exec, doomed, unprotected>>

----------------------------------------------------------------------------
(* Clean-up. *)

InDownload(e) == \E d \in Downloads : dl[d].of = e /\ dl[d].left > 0

ExpiredRemovable(r) ==   \* mutant: an unavailable copy is forgotten
    {e \in Exports : /\ r[e].status = "expired" /\ r[e].key # 0
                     /\ ~r[e].deleted /\ ~InDownload(e)}

Removable(r) ==
    {e \in Exports : /\ r[e].status \in Gone /\ r[e].key # 0
                     /\ ~r[e].deleted /\ ~InDownload(e)}

ExpiredExportFiles ==
    LET r == [e \in Exports |-> IF row[e].status = "ready" /\ row[e].expires = 0
                                THEN [row[e] EXCEPT !.status = "expired"] ELSE row[e]]
    IN /\ row' = r
       /\ doomed' = Removable(r)
       /\ UNCHANGED <<pin, file, exec, dl, unprotected>>

(* The file goes, and the row says so unless that last statement is lost. *)
RemoveExpired(e) ==
    /\ e \in doomed
    /\ file' = [file EXCEPT ![Copy(e)] = Absent]
    /\ \/ row' = [row EXCEPT ![e].deleted = @ \/ row[e].status \in Gone]
       \/ UNCHANGED row
    /\ doomed' = doomed \ {e}
    /\ UNCHANGED <<pin, exec, dl, unprotected>>

RunningFileProtected(x) ==   \* mutant: only work in progress is protected
    row[x[1]].status = "running" /\ row[x[1]].deadline > 0

ExportFileProtected(x) ==
    LET r == row[x[1]] IN
    \/ r.key = x[2] /\ ~r.deleted
    \/ r.status = "running" /\ r.deadline > 0

Sweepable(x) == file[x] = 0

SweepLook(x) ==
    /\ Sweepable(x)
    /\ ~ExportFileProtected(x)
    /\ unprotected' = unprotected \cup {x}
    /\ UNCHANGED <<row, pin, file, exec, dl, doomed>>

SweepRemove(x) ==
    /\ x \in unprotected
    /\ file' = [file EXCEPT ![x] = Absent]
    /\ unprotected' = unprotected \ {x}
    /\ UNCHANGED <<row, pin, exec, dl, doomed>>

----------------------------------------------------------------------------

Less(n) == IF n > 0 THEN n - 1 ELSE n

Tick ==
    /\ row' = [e \in Exports |->
                 [row[e] EXCEPT !.deadline = Less(@), !.lease = Less(@),
                                !.retry = Less(@), !.expires = Less(@)]]
    /\ pin' = [e \in Exports |-> Less(pin[e])]
    /\ file' = [x \in Files |-> Less(file[x])]
    /\ dl' = [d \in Downloads |-> [dl[d] EXCEPT !.left = Less(@)]]
    /\ UNCHANGED <<exec, doomed, unprotected>>

Work(x) == Place(x) \/ FinishReady(x) \/ FinishRefused(x) \/ Discard(x) \/ FinishFailed(x)
Download(d) == CheckDownload(d) \/ LeaseDownload(d) \/ OpenDownload(d) \/ EndDownload(d)

Next ==
    \/ \E e \in Exports :
         \/ \E a \in Asks : CreateExport(e, a)
         \/ ReadExpired(e) \/ ClaimExport(e) \/ RemoveExpired(e)
         \/ \E d \in Downloads : AskDownload(d, e)
    \/ \E x \in Files : Work(x) \/ Crash(x) \/ SweepLook(x) \/ SweepRemove(x)
    \/ \E d \in Downloads : Download(d) \/ ServerCrash(d)
    \/ PendingExports \/ ExpiredExportFiles \/ Tick

(* The clock, the dispatcher's and the clean-up's tickers and the calls of *)
(* a process that lives go on; nothing makes a task be delivered.          *)
Fairness ==
    /\ WF_vars(Tick) /\ WF_vars(PendingExports) /\ WF_vars(ExpiredExportFiles)
    /\ \A e \in Exports : WF_vars(RemoveExpired(e))
    /\ \A x \in Files : WF_vars(Work(x)) /\ WF_vars(SweepLook(x)) /\ WF_vars(SweepRemove(x))
    /\ \A d \in Downloads : WF_vars(Download(d))

Spec == Init /\ [][Next]_vars /\ Fairness

----------------------------------------------------------------------------
(* Every part of the state has its type; only a running row has a lease. *)
TypeOK ==
    /\ row \in [Exports -> [status: Statuses, ask: Asks, epoch: 0 .. MaxAttempts,
                            deadline: 0 .. JobFor, lease: 0 .. LeaseFor,
                            retry: 0 .. RetryFor, expires: 0 .. KeepFor,
                            key: 0 .. MaxAttempts, deleted: BOOLEAN]]
    /\ \A e \in Exports : row[e].lease > 0 => row[e].status = "running"
    /\ pin \in [Exports -> 0 .. PinFor]
    /\ file \in [Files -> Absent .. SweepAfter]
    /\ exec \in [Files -> {"none", "writing", "placed", "unsaved"}]
    /\ dl \in [Downloads -> [phase: {"none", "asked", "checked", "leased", "open"},
                             of: Exports, left: 0 .. DownloadFor]]
    /\ doomed \subseteq Exports
    /\ unprotected \subseteq Files

(* Preparations and copies stay within the bounds for all sessions and for *)
(* one, although CreateExport only counts rows that expiry, retries and    *)
(* clean-up change behind it.                                              *)
LimitsRespected ==
    /\ Cardinality({e \in Exports : Live(e)}) <= MaxLive
    /\ Cardinality({e \in Exports : Charged(e)}) <= Budget
    /\ \A e, f \in Exports :
          (e # f /\ Live(e) /\ Live(f)) => SessionOf(row[e].ask) # SessionOf(row[f].ask)

(* Two executions that may still publish never exist side by side, and the *)
(* images of the one that does are pinned.                                 *)
OnePinnedPublisher ==
    \A x, y \in Files :
        (exec[x] \in {"writing", "placed"} /\ Fence(x)) =>
            /\ pin[x[1]] > 0
            /\ (exec[y] \in {"writing", "placed"} /\ Fence(y)) => x = y

(* No file that a ready row names is removed by the clean-up or the sweep, *)
(* only by the execution that did not learn of its own commit.             *)
CleanupSparesReady ==
    [][\A e \in Exports :
          (/\ row[e].status = "ready" /\ row[e].key # 0
           /\ file[Copy(e)] # Absent /\ exec[Copy(e)] # "unsaved")
          => file'[Copy(e)] # Absent]_vars

(* A committed copy is on disk until clean-up takes it ("A committed file  *)
(* remains protected until the normal download-aware cleanup").            *)
CommittedCopyKept ==
    \A e \in Exports : row[e].status = "ready" => file[Copy(e)] # Absent

(* Every preparation comes to an end, delivered or not. *)
EveryExportEnds ==
    \A e \in Exports : (row[e].status \in Pending) ~> (row[e].status \notin Pending)

(* No copy stays on disk for good, whoever crashed between its rename, its *)
(* commit, its download and its removal.                                   *)
EveryFileGoes ==
    \A x \in Files : (file[x] # Absent) ~> (file[x] = Absent)
=============================================================================

------------------------ MODULE RequestSharingProofs ------------------------
(***************************************************************************)
(* No request is left waiting for a run that is over or being stopped, and *)
(* a completed request has the article it asked for.  The argument sorts   *)
(* what a transaction may do to one run and to one request into a few      *)
(* kinds of step that keep the invariant, and shows that every action is a *)
(* step of these kinds for every run and every request.                    *)
(***************************************************************************)
EXTENDS ServiceEnds, FiniteSetTheorems, TLAPS

\* ServedWhileOpen and AnsweredAsAsked for one request.
Served(q) ==
  /\ request[q].active \in Runs
  /\ LET r == request[q].active
     IN  /\ job[r].status = "live" /\ job[r].source = request[q].source
         /\ IF request[q].status = "waiting_source" THEN IsSource(r)
            ELSE /\ job[r].kind = "article" /\ job[r].spec = request[q].spec
                 /\ job[r].snapshot = request[q].snapshot

Answered(q) ==
  /\ request[q].article \in Runs
  /\ LET a == job[request[q].article]
     IN  /\ a.kind = "article" /\ a.status = "succeeded"
         /\ a.source = request[q].source /\ a.snapshot = request[q].snapshot
         /\ a.spec.base = request[q].spec.base
         /\ request[q].spec.fresh # NoRequest => a.spec = request[q].spec

\* The snapshot of a run belongs to its source and is known where it has to be,
\* and no question waits for a run that does not exist or is being stopped.
Coherent(r) ==
  /\ job[r].snapshot # NoSnapshot => SourceOf[job[r].snapshot] = job[r].source
  /\ job[r].kind \in {"restore", "article"} \/ job[r].status = "succeeded"
       => job[r].snapshot # NoSnapshot
  /\ awaited[r] => job[r].status \notin {"absent", "stopping"}
  /\ leaving[r] => job[r].status # "absent"

SharingInv ==
  /\ TypeOK
  /\ \A q \in Requests : (Open(q) => Served(q)) /\ (request[q].status = "completed" => Answered(q))
  /\ \A r \in Runs : Coherent(r)

-----------------------------------------------------------------------------
(* The kinds of step.                                                      *)

Created(r) ==
  /\ job[r].status = "absent" /\ job'[r].status = "live"
  /\ job'[r].snapshot # NoSnapshot => SourceOf[job'[r].snapshot] = job'[r].source
  /\ job'[r].kind \in {"restore", "article"} => job'[r].snapshot # NoSnapshot

AskedToStop(r) ==
  /\ job[r].status = "live" /\ job'[r] = [job[r] EXCEPT !.status = "stopping"]
  /\ ~awaited'[r]

\* The run is over; a preparation has found its snapshot.
Over(r) ==
  /\ Live(r) /\ job'[r].status \in {"succeeded", "failed", "canceled"}
  /\ job'[r].kind = job[r].kind /\ job'[r].source = job[r].source
  /\ job'[r].spec = job[r].spec
  /\ \/ /\ job'[r].snapshot = job[r].snapshot
        /\ job'[r].status # "succeeded" \/ job[r].snapshot # NoSnapshot
     \/ /\ job[r].kind = "prepare" /\ job'[r].snapshot \in Snapshots
        /\ SourceOf[job'[r].snapshot] = job[r].source

RunStep(r) ==
  /\ job'[r] = job[r] \/ Created(r) \/ AskedToStop(r) \/ Over(r)
  /\ awaited'[r] => awaited[r] \/ job'[r].status = "live"
  /\ leaving'[r] => leaving[r] \/ awaited[r]

\* An open request that is left alone keeps its run.
Untouched(q) ==
  /\ request'[q] = request[q]
  /\ Open(q) => job'[request[q].active] = job[request[q].active]

RequestStep(q) ==
  \/ Untouched(q)
  \/ Open(q)' /\ Served(q)'
  \/ request'[q].status = "completed" /\ Answered(q)'
  \/ request'[q].status \in {"failed", "canceled"}

Steps ==
  /\ TypeOK'
  /\ \A r \in Runs : RunStep(r)
  /\ \A q \in Requests : RequestStep(q)

\* Steps of these kinds keep the invariant.
LEMMA StepsKeep ==
  ASSUME SharingInv, Steps
  PROVE  SharingInv'
<1> USE DEF Steps
<1>1. ASSUME NEW q \in Requests, Open(q)' PROVE Served(q)'
  <2>1. CASE Untouched(q)
    BY <1>1, <2>1 DEF Untouched, SharingInv, Open, Served, IsSource
  <2> QED BY <1>1, <2>1 DEF RequestStep, Open, OpenStatuses
<1>2. ASSUME NEW q \in Requests, request'[q].status = "completed" PROVE Answered(q)'
  <2>1. CASE Untouched(q)
    <3>1. Answered(q)
      BY <1>2, <2>1 DEF Untouched, SharingInv
    <3>2. job'[request[q].article] = job[request[q].article]
      BY <3>1 DEF Answered, RunStep, Created, AskedToStop, Over, Live
    <3> QED BY <2>1, <3>1, <3>2 DEF Untouched, Answered
  <2> QED BY <1>2, <2>1 DEF RequestStep, Open, OpenStatuses
<1>3. ASSUME NEW r \in Runs PROVE Coherent(r)'
  <2>1. Coherent(r) /\ job[r] \in Jobs /\ RunStep(r)
    BY DEF SharingInv, TypeOK
  <2>2. CASE job'[r] = job[r]
    BY <2>1, <2>2 DEF Coherent, RunStep
  <2>3. CASE Created(r)
    BY <2>1, <2>3 DEF Coherent, RunStep, Created
  <2>4. CASE AskedToStop(r)
    BY <2>1, <2>4 DEF Coherent, RunStep, AskedToStop, Jobs
  <2>5. CASE Over(r)
    BY <2>1, <2>5, SharingAssumption DEF Coherent, RunStep, Over, Live
  <2> QED BY <2>1, <2>2, <2>3, <2>4, <2>5 DEF RunStep
<1> QED BY <1>1, <1>2, <1>3 DEF SharingInv

-----------------------------------------------------------------------------
(* Types.                                                                  *)

LEMMA InitType == Init => TypeOK
<1> SUFFICES ASSUME Init PROVE TypeOK
  OBVIOUS
<1>1. AnySource \in Sources /\ AnySpec \in Specs
  BY SharingAssumption DEF AnySource, AnySpec, Specs
<1> QED BY <1>1 DEF Init, TypeOK, Jobs, Rows, Open, OpenStatuses, SourceKinds, Failures

LEMMA NewRowType ==
  ASSUME NEW source \in Sources, NEW spec \in Specs, NEW p \in Runs,
         NEW s \in Snapshots \cup {NoSnapshot}
  PROVE  NewRow(source, spec, p, s) \in Rows
BY DEF NewRow, Rows, OpenStatuses, Failures

LEMMA BoundRowType ==
  ASSUME NEW row \in Rows, NEW s \in Snapshots, NEW a \in Runs
  PROVE  /\ BoundRow(row, s, a) \in Rows
         /\ BoundRow(row, s, a).status \in {"completed", "generating"}
         /\ BoundRow(row, s, a).status = "generating" => BoundRow(row, s, a).active = a
BY DEF BoundRow, Rows, OpenStatuses

LEMMA PreparedType ==
  ASSUME TypeOK, NEW p \in Runs, NEW s \in Snapshots, NEW Q \in SUBSET Requests,
         NEW rows \in [Q -> Rows], NEW serve
  PROVE  Prepared(p, s, serve, rows) \in [Runs -> Jobs]
<1> SUFFICES ASSUME NEW r \in Runs
             PROVE  Prepared(p, s, serve, rows)[r] \in Jobs
  BY DEF Prepared
<1>1. CASE r = p
  BY <1>1 DEF Prepared, TypeOK, Jobs
<1>2. CASE r # p /\ NoJob(r) /\ \E q \in DOMAIN rows : serve[rows[q].spec] = r
  <2> DEFINE q == CHOOSE q \in DOMAIN rows : serve[rows[q].spec] = r
  <2>1. rows[q] \in Rows
    BY <1>2
  <2>2. Prepared(p, s, serve, rows)[r] = ArticleJob(rows[q], s)
    BY <1>2 DEF Prepared
  <2> HIDE DEF q
  <2> QED BY <2>1, <2>2 DEF ArticleJob, Rows, Jobs, SourceKinds
<1>3. CASE r # p /\ ~(NoJob(r) /\ \E q \in DOMAIN rows : serve[rows[q].spec] = r)
  BY <1>3 DEF Prepared, TypeOK
<1> QED BY <1>1, <1>2, <1>3

-----------------------------------------------------------------------------
(* Binding requests to articles.                                           *)

\* Run a serves the row: it is the article, or it is going to be.
ServedBy(row, s, a) ==
  /\ a \in Runs
  /\ job'[a].kind = "article" /\ job'[a].snapshot = s /\ job'[a].source = row.source
  /\ \/ /\ job[a].status = "succeeded" /\ job'[a].status = "succeeded"
        /\ job'[a].spec.base = row.spec.base
        /\ row.spec.fresh = NoRequest
     \/ /\ job[a].status # "succeeded" /\ job'[a].status = "live"
        /\ job'[a].spec = row.spec

\* What Prepared makes of the runs other than p, and of the rows it serves.
LEMMA BindKeeps ==
  ASSUME SharingInv, NEW p \in Runs, NEW s \in Snapshots, NEW Q \in SUBSET Requests,
         NEW rows \in [Q -> Rows],
         NEW serve \in Servings({rows[q].spec : q \in Q}, s),
         ~Stopping({rows[q].spec : q \in Q}, s),
         \A q \in Q : rows[q].source = SourceOf[s],
         job[p].kind \in SourceKinds, job[p].status # "absent",
         job' = Prepared(p, s, serve, rows)
  PROVE  /\ \A r \in Runs \ {p} :
              job'[r] = job[r] \/ (Created(r) /\ job'[r].kind = "article")
         /\ job'[p] = [[job[p] EXCEPT !.status = "succeeded"] EXCEPT !.snapshot = s]
         /\ \A q \in Q : ServedBy(rows[q], s, serve[rows[q].spec])
<1> DEFINE S == {rows[q].spec : q \in Q}
<1>1. \A spec \in S :
        /\ serve[spec] \in Runs
        /\ IF Reusable(spec, s) # {} THEN serve[spec] \in Reusable(spec, s)
           ELSE IF Underway(spec, s) # {} THEN serve[spec] \in Underway(spec, s)
           ELSE NoJob(serve[spec])
  BY DEF Servings
<1>2. \A spec \in S : NoJob(serve[spec]) => spec \in ToCreate(S, s)
  BY <1>1 DEF ToCreate, Reusable, Underway, NoJob, Live
<1>3. \A s1, s2 \in S : NoJob(serve[s1]) /\ serve[s1] = serve[s2] => s1 = s2
  BY <1>2 DEF Servings
<1>4. ASSUME NEW r \in Runs \ {p}, NoJob(r), NEW x \in Q, serve[rows[x].spec] = r
      PROVE  job'[r] = ArticleJob(rows[x], s)
  <2> DEFINE y == CHOOSE q \in DOMAIN rows : serve[rows[q].spec] = r
  <2>1. y \in Q /\ serve[rows[y].spec] = r
    BY <1>4
  <2>2. job'[r] = ArticleJob(rows[y], s)
    BY <1>4 DEF Prepared
  <2> HIDE DEF y
  <2>3. rows[y].spec = rows[x].spec /\ rows[y].source = rows[x].source
    BY <1>3, <1>4, <2>1
  <2> QED BY <2>2, <2>3 DEF ArticleJob
<1>5. ASSUME NEW r \in Runs \ {p}, ~ \E x \in Q : NoJob(r) /\ serve[rows[x].spec] = r
      PROVE  job'[r] = job[r]
  BY <1>5 DEF Prepared
<1>6. job'[p] = [[job[p] EXCEPT !.status = "succeeded"] EXCEPT !.snapshot = s]
  BY DEF Prepared
<1>7. ASSUME NEW r \in Runs \ {p}
      PROVE  job'[r] = job[r] \/ (Created(r) /\ job'[r].kind = "article")
  <2>1. CASE \E x \in Q : NoJob(r) /\ serve[rows[x].spec] = r
    <3>1. PICK x \in Q : NoJob(r) /\ serve[rows[x].spec] = r
      BY <2>1
    <3>2. job'[r] = ArticleJob(rows[x], s) /\ rows[x].source = SourceOf[s]
      BY <1>4, <3>1
    <3> QED BY <3>1, <3>2, SharingAssumption DEF Created, ArticleJob, NoJob
  <2> QED BY <1>5, <2>1
<1>8. ASSUME NEW q \in Q
      PROVE  ServedBy(rows[q], s, serve[rows[q].spec])
  <2> DEFINE spec == rows[q].spec
             a == serve[spec]
  <2>1. spec \in S /\ a \in Runs
    BY <1>1
  <2>2. CASE Reusable(spec, s) # {}
    <3>1. a \in Reusable(spec, s)
      BY <1>1, <2>1, <2>2
    <3>2. a # p /\ job'[a] = job[a]
      BY <3>1, <1>5 DEF Reusable, SourceKinds, NoJob
    <3>3. job[a].source = SourceOf[s]
      BY <3>1, <2>1, SharingAssumption DEF Reusable, SharingInv, Coherent
    <3> QED BY <2>1, <3>1, <3>2, <3>3 DEF Reusable, ServedBy
  <2>3. CASE Reusable(spec, s) = {} /\ Underway(spec, s) # {}
    <3>1. a \in Underway(spec, s)
      BY <1>1, <2>1, <2>3
    <3>2. a # p /\ job'[a] = job[a]
      BY <3>1, <1>5 DEF Underway, SourceKinds, NoJob, Live
    <3>3. job[a].source = SourceOf[s]
      BY <3>1, <2>1, SharingAssumption DEF Underway, SharingInv, Coherent
    <3>4. job[a].status = "live"
      BY <2>1, <2>3, <3>1 DEF Stopping, Underway, Live
    <3> QED BY <2>1, <3>1, <3>2, <3>3, <3>4 DEF Underway, ServedBy
  <2>4. CASE Reusable(spec, s) = {} /\ Underway(spec, s) = {}
    <3>1. NoJob(a) /\ a # p
      BY <1>1, <2>1, <2>4 DEF NoJob
    <3>2. job'[a] = ArticleJob(rows[q], s)
      BY <1>4, <2>1, <3>1
    <3> QED BY <2>1, <3>1, <3>2 DEF ArticleJob, NoJob, ServedBy
  <2> QED BY <2>2, <2>3, <2>4
<1> QED BY <1>6, <1>7, <1>8

-----------------------------------------------------------------------------
(* Every action is a step of these kinds.                                  *)

\* An open request names a live run, so that what happens to a run that does not
\* exist, or is over, leaves the request alone.
LEMMA OpenNamesLive ==
  ASSUME SharingInv, NEW q \in Requests, Open(q)
  PROVE  request[q].active \in Runs /\ job[request[q].active].status = "live"
BY DEF SharingInv, Served

\* The runs stay as they are.
LEMMA SameJobs ==
  ASSUME SharingInv, job' = job,
         \A r \in Runs : awaited'[r] => awaited[r] \/ job[r].status = "live",
         \A r \in Runs : leaving'[r] => leaving[r] \/ awaited[r]
  PROVE  /\ \A r \in Runs : RunStep(r)
         /\ \A q \in Requests : request'[q] = request[q] => RequestStep(q)
BY DEF RunStep, RequestStep, Untouched

\* One run is created.
LEMMA OneCreated ==
  ASSUME SharingInv, NEW p \in Runs, Created(p),
         NEW new \in Jobs, job' = [job EXCEPT ![p] = new],
         \A r \in Runs : awaited'[r] => awaited[r] \/ r = p, leaving' = leaving
  PROVE  /\ job' \in [Runs -> Jobs]
         /\ \A r \in Runs : RunStep(r)
         /\ \A q \in Requests : request'[q] = request[q] => RequestStep(q)
<1>1. job \in [Runs -> Jobs]
  BY DEF SharingInv, TypeOK
<1>2. \A r \in Runs \ {p} : job'[r] = job[r]
  BY <1>1
<1>3. \A r \in Runs : RunStep(r)
  BY <1>2 DEF RunStep, Created
<1>4. ASSUME NEW q \in Requests, request'[q] = request[q] PROVE RequestStep(q)
  BY <1>2, <1>4, OpenNamesLive DEF RequestStep, Untouched, Created
<1> QED BY <1>1, <1>3, <1>4

\* A new request that waits for a source run under way.
LEMMA Waits ==
  ASSUME SharingInv, NEW q \in Requests, NEW source \in Sources, NEW spec \in Specs,
         NEW p \in Runs, NEW s \in Snapshots \cup {NoSnapshot},
         request' = [request EXCEPT ![q] = NewRow(source, spec, p, s)],
         job'[p].status = "live", job'[p].source = source, job'[p].kind \in SourceKinds
  PROVE  /\ request' \in [Requests -> Rows]
         /\ \A x \in Requests : Open(x)' => request'[x].active \in Runs
         /\ RequestStep(q)
         /\ \A x \in Requests \ {q} : request'[x] = request[x]
<1>1. request \in [Requests -> Rows]
  BY DEF SharingInv, TypeOK
<1>2. NewRow(source, spec, p, s) \in Rows
  BY NewRowType
<1>3. request'[q] = NewRow(source, spec, p, s)
  BY <1>1
<1>4. Open(q)' /\ Served(q)'
  BY <1>3 DEF NewRow, Open, OpenStatuses, Served, IsSource
<1>5. \A x \in Requests \ {q} : request'[x] = request[x]
  BY <1>1
<1>6. ASSUME NEW x \in Requests, Open(x)' PROVE request'[x].active \in Runs
  BY <1>3, <1>5, <1>6, OpenNamesLive DEF Open, NewRow
<1> QED BY <1>1, <1>2, <1>4, <1>5, <1>6 DEF RequestStep

LEMMA JoinSteps ==
  ASSUME SharingInv, NEW q \in Requests, NEW source \in Sources, NEW spec \in Specs,
         NEW pinned, JoinSource(q, source, spec, pinned)
  PROVE  Steps
<1>1. PICK p \in Found(source, pinned) :
        /\ job[p].status = "live"
        /\ request' = [request EXCEPT ![q] = NewRow(source, spec, p, SnapshotOf(p))]
        /\ UNCHANGED <<job, awaited, leaving, videoReady, imagesReady>>
  BY DEF JoinSource
<1>2. p \in Runs /\ job[p].kind \in SourceKinds /\ job[p].source = source
  <2>1. CASE p \in Preparing(source)
    BY <2>1 DEF Preparing, SourceKinds
  <2>2. CASE \E s \in ToRestore(source, pinned) : p \in Restoring(s)
    <3>1. PICK s \in ToRestore(source, pinned) : p \in Restoring(s)
      BY <2>2
    <3>2. PICK i \in Ingested(source, pinned) : s = job[i].snapshot
      BY <3>1 DEF ToRestore, Retained
    <3>3. SourceOf[s] = source
      BY <3>2 DEF Ingested, SharingInv, Coherent
    <3>4. p \in Runs /\ job[p].kind = "restore" /\ job[p].snapshot = s
      BY <3>1 DEF Restoring
    <3>5. s # NoSnapshot /\ SourceOf[s] = job[p].source
      BY <3>4 DEF SharingInv, Coherent
    <3> QED BY <3>3, <3>4, <3>5 DEF SourceKinds
  <2> QED BY <1>1, <2>1, <2>2 DEF Found
<1>3. SnapshotOf(p) \in Snapshots \cup {NoSnapshot}
  BY <1>2 DEF SnapshotOf, SharingInv, TypeOK, Jobs
<1>4. /\ request' \in [Requests -> Rows]
      /\ \A x \in Requests : Open(x)' => request'[x].active \in Runs
      /\ RequestStep(q)
      /\ \A x \in Requests \ {q} : request'[x] = request[x]
  BY <1>1, <1>2, <1>3, Waits
<1>5. TypeOK'
  BY <1>1, <1>4 DEF TypeOK, SharingInv
<1> QED BY <1>1, <1>4, <1>5, SameJobs DEF Steps

LEMMA SourceJobType ==
  ASSUME NEW kind \in SourceKinds, NEW source \in Sources,
         NEW s \in Snapshots \cup {NoSnapshot}
  PROVE  SourceJob(kind, source, s) \in Jobs
<1>1. AnySpec \in Specs
  BY SharingAssumption DEF AnySpec, Specs
<1> QED BY <1>1 DEF SourceJob, Jobs, SourceKinds

LEMMA StartSteps ==
  ASSUME SharingInv, NEW q \in Requests, NEW source \in Sources, NEW spec \in Specs,
         NEW pinned,
         StartRestore(q, source, spec, pinned) \/ StartPrepare(q, source, spec, pinned)
  PROVE  Steps
<1>1. PICK p \in Runs, s \in Snapshots \cup {NoSnapshot}, kind \in SourceKinds :
        /\ NoJob(p)
        /\ job' = [job EXCEPT ![p] = SourceJob(kind, source, s)]
        /\ kind = "restore" => s # NoSnapshot
        /\ s # NoSnapshot => SourceOf[s] = source
        /\ request' = [request EXCEPT ![q] = NewRow(source, spec, p, s)]
        /\ UNCHANGED <<awaited, leaving, videoReady, imagesReady>>
  <2>1. CASE StartRestore(q, source, spec, pinned)
    <3>1. PICK s \in ToRestore(source, pinned), p \in Runs :
            /\ NoJob(p)
            /\ job' = [job EXCEPT ![p] = SourceJob("restore", source, s)]
            /\ request' = [request EXCEPT ![q] = NewRow(source, spec, p, s)]
            /\ UNCHANGED <<awaited, leaving, videoReady, imagesReady>>
      BY <2>1 DEF StartRestore
    <3>2. PICK i \in Ingested(source, pinned) : s = job[i].snapshot
      BY <3>1 DEF ToRestore, Retained
    <3>3. s \in Snapshots /\ s # NoSnapshot /\ SourceOf[s] = source
      BY <3>2, SharingAssumption DEF Ingested, SharingInv, Coherent, TypeOK, Jobs
    <3> QED BY <3>1, <3>3 DEF SourceKinds
  <2>2. CASE StartPrepare(q, source, spec, pinned)
    BY <2>2 DEF StartPrepare, SourceKinds
  <2> QED BY <2>1, <2>2
<1> DEFINE new == SourceJob(kind, source, s)
<1>2. new \in Jobs
  BY <1>1, SourceJobType
<1>3. /\ job'[p] = new /\ new.status = "live" /\ new.source = source
      /\ new.kind = kind /\ new.snapshot = s
      /\ job' = [job EXCEPT ![p] = new]
  BY <1>1 DEF SourceJob, SharingInv, TypeOK
<1> HIDE DEF new
<1>4. Created(p)
  BY <1>1, <1>3 DEF Created, NoJob, SourceKinds
<1>5. /\ request' \in [Requests -> Rows]
      /\ \A x \in Requests : Open(x)' => request'[x].active \in Runs
      /\ RequestStep(q)
      /\ \A x \in Requests \ {q} : request'[x] = request[x]
  <2>1. job'[p].status = "live" /\ job'[p].source = source /\ job'[p].kind \in SourceKinds
    BY <1>1, <1>3
  <2>2. request' = [request EXCEPT ![q] = NewRow(source, spec, p, s)]
    BY <1>1
  <2> QED BY <2>1, <2>2, Waits
<1>6. /\ job' \in [Runs -> Jobs]
      /\ \A r \in Runs : RunStep(r)
      /\ \A x \in Requests : request'[x] = request[x] => RequestStep(x)
  BY <1>1, <1>2, <1>3, <1>4, OneCreated
<1>7. TypeOK'
  BY <1>1, <1>5, <1>6 DEF TypeOK, SharingInv
<1> QED BY <1>5, <1>6, <1>7 DEF Steps

\* The rows of Q are bound to articles, the run p is over or was already.
LEMMA BindSteps ==
  ASSUME SharingInv, NEW p \in Runs, NEW s \in Snapshots, NEW Q \in SUBSET Requests,
         NEW rows \in [Q -> Rows],
         NEW serve \in Servings({rows[q].spec : q \in Q}, s),
         ~Stopping({rows[q].spec : q \in Q}, s),
         \A q \in Q : rows[q].source = SourceOf[s],
         job[p].kind \in SourceKinds,
         job[p].status = "live" \/ (job[p].status = "succeeded" /\ job[p].snapshot = s),
         job[p].source = SourceOf[s], job[p].kind = "restore" => job[p].snapshot = s,
         job' = Prepared(p, s, serve, rows),
         request' = [x \in Requests |->
           IF x \in Q THEN BoundRow(rows[x], s, serve[rows[x].spec]) ELSE request[x]],
         Waiting(p) \subseteq Q,
         awaited' = awaited, leaving' = leaving, videoReady' \in [Snapshots -> BOOLEAN],
         imagesReady' = imagesReady
  PROVE  Steps
<1>1. job[p].status # "absent"
  OBVIOUS
<1>2. /\ \A r \in Runs \ {p} :
           job'[r] = job[r] \/ (Created(r) /\ job'[r].kind = "article")
      /\ job'[p] = [[job[p] EXCEPT !.status = "succeeded"] EXCEPT !.snapshot = s]
      /\ \A q \in Q : ServedBy(rows[q], s, serve[rows[q].spec])
  BY <1>1, BindKeeps
<1>3. job[p] \in Jobs
  BY DEF SharingInv, TypeOK
<1>4. job' \in [Runs -> Jobs]
  BY PreparedType DEF SharingInv
<1>5. RunStep(p)
  <2>1. /\ job'[p].status = "succeeded" /\ job'[p].snapshot = s
        /\ job'[p].kind = job[p].kind /\ job'[p].source = job[p].source
        /\ job'[p].spec = job[p].spec
    BY <1>2, <1>3 DEF Jobs
  <2>2. CASE job[p].status = "live"
    <3>1. Over(p)
      BY <2>1, <2>2, SharingAssumption DEF Over, Live, SourceKinds
    <3> QED BY <3>1 DEF RunStep
  <2>3. CASE job[p].status = "succeeded" /\ job[p].snapshot = s
    <3>1. job'[p] = job[p]
      BY <1>3, <1>4, <2>1, <2>3 DEF Jobs
    <3> QED BY <3>1 DEF RunStep
  <2> QED BY <2>2, <2>3
<1>6. \A r \in Runs : RunStep(r)
  BY <1>2, <1>5 DEF RunStep
<1>7. ASSUME NEW q \in Q
      PROVE  /\ request'[q] \in Rows /\ RequestStep(q)
             /\ Open(q)' => request'[q].active \in Runs
  <2> DEFINE a == serve[rows[q].spec]
  <2>0. ServedBy(rows[q], s, a)
    BY <1>2
  <2>1. request'[q] = BoundRow(rows[q], s, a) /\ a \in Runs /\ rows[q] \in Rows
    BY <2>0 DEF ServedBy
  <2> HIDE DEF a
  <2>2. request'[q] \in Rows
    BY <2>1, BoundRowType
  <2>3. CASE job[a].status = "succeeded"
    <3>1. /\ request'[q].status = "completed" /\ request'[q].article = a
          /\ request'[q].snapshot = s /\ request'[q].source = rows[q].source
          /\ request'[q].spec = rows[q].spec
      BY <2>1, <2>3 DEF BoundRow, Rows
    <3>2. Answered(q)'
      BY <2>0, <2>3, <3>1 DEF Answered, ServedBy
    <3> QED BY <2>2, <3>1, <3>2 DEF RequestStep, Open, OpenStatuses
  <2>4. CASE job[a].status # "succeeded"
    <3>1. /\ request'[q].status = "generating" /\ request'[q].active = a
          /\ request'[q].snapshot = s /\ request'[q].source = rows[q].source
          /\ request'[q].spec = rows[q].spec
      BY <2>1, <2>4 DEF BoundRow, Rows
    <3>2. Open(q)' /\ Served(q)'
      BY <2>0, <2>1, <2>4, <3>1 DEF Served, ServedBy, Open, OpenStatuses
    <3> QED BY <2>1, <2>2, <3>1, <3>2 DEF RequestStep
  <2> QED BY <2>3, <2>4
<1>8. ASSUME NEW q \in Requests \ Q
      PROVE  /\ request'[q] \in Rows /\ RequestStep(q)
             /\ Open(q)' => request'[q].active \in Runs
  <2>1. request'[q] = request[q] /\ request[q] \in Rows
    BY DEF SharingInv, TypeOK
  <2>2. ASSUME Open(q) PROVE job'[request[q].active] = job[request[q].active]
    <3>1. Served(q)
      BY <2>2 DEF SharingInv
    <3>2. request[q].active # p
      BY <2>2, <3>1 DEF Served, Waiting, SourceKinds, Open, OpenStatuses
    <3> QED BY <1>2, <3>1, <3>2 DEF Served, Created
  <2> QED BY <2>1, <2>2, OpenNamesLive DEF RequestStep, Untouched, Open
<1>9. request' \in [Requests -> Rows]
  BY <1>7, <1>8
<1>10. TypeOK'
  BY <1>7, <1>8, <1>4, <1>9 DEF TypeOK, SharingInv
<1> QED BY <1>6, <1>7, <1>8, <1>10 DEF Steps

LEMMA BindAtOnceSteps ==
  ASSUME SharingInv, NEW q \in Requests, NEW source \in Sources, NEW spec \in Specs,
         NEW pinned, BindAtOnce(q, source, spec, pinned)
  PROVE  Steps
<1>1. PICK p \in Ready(source, pinned) :
        \E serve \in Servings({spec}, job[p].snapshot) :
          LET row == NewRow(source, spec, p, NoSnapshot)
          IN  /\ ~Stopping({spec}, job[p].snapshot)
              /\ job' = Prepared(p, job[p].snapshot, serve, [x \in {q} |-> row])
              /\ request' = [request EXCEPT ![q] = BoundRow(row, job[p].snapshot, serve[spec])]
              /\ UNCHANGED <<awaited, leaving, videoReady, imagesReady>>
  BY DEF BindAtOnce
<1> DEFINE s == job[p].snapshot
           row == NewRow(source, spec, p, NoSnapshot)
           rows == [x \in {q} |-> row]
<1>2. PICK serve \in Servings({spec}, s) :
        /\ ~Stopping({spec}, s)
        /\ job' = Prepared(p, s, serve, rows)
        /\ request' = [request EXCEPT ![q] = BoundRow(row, s, serve[spec])]
        /\ UNCHANGED <<awaited, leaving, videoReady, imagesReady>>
  BY <1>1
<1>3. /\ p \in Runs /\ job[p].kind = "prepare" /\ job[p].status = "succeeded"
      /\ job[p].source = source
  BY DEF Ready, Ingested
<1>4. s \in Snapshots /\ SourceOf[s] = source
  BY <1>3, SharingAssumption DEF SharingInv, Coherent, TypeOK, Jobs
<1>5. row \in Rows /\ row.source = source /\ row.spec = spec
  BY <1>3, NewRowType DEF NewRow
<1> HIDE DEF s, row
<1>6. rows \in [{q} -> Rows] /\ {rows[x].spec : x \in {q}} = {spec}
  BY <1>5
<1>7. \A x \in {q} : rows[x].source = SourceOf[s]
  BY <1>4, <1>5
<1>8. request' = [x \in Requests |->
        IF x \in {q} THEN BoundRow(rows[x], s, serve[rows[x].spec]) ELSE request[x]]
  BY <1>2, <1>5 DEF SharingInv, TypeOK
<1>9. Waiting(p) \subseteq {q}
  BY <1>3, OpenNamesLive DEF Waiting, Open, OpenStatuses
<1>10. /\ job[p].kind \in SourceKinds /\ job[p].source = SourceOf[s]
       /\ job[p].kind = "restore" => job[p].snapshot = s
       /\ job[p].status = "live" \/ (job[p].status = "succeeded" /\ job[p].snapshot = s)
  BY <1>3, <1>4 DEF s, SourceKinds
<1>11. videoReady' \in [Snapshots -> BOOLEAN]
  BY <1>2 DEF SharingInv, TypeOK
<1>12. /\ {q} \in SUBSET Requests
       /\ serve \in Servings({rows[x].spec : x \in {q}}, s)
       /\ ~Stopping({rows[x].spec : x \in {q}}, s)
  BY <1>2, <1>6
<1> HIDE DEF rows
<1>13. /\ job' = Prepared(p, s, serve, rows)
       /\ awaited' = awaited /\ leaving' = leaving /\ imagesReady' = imagesReady
  BY <1>2
<1> QED
  BY <1>3, <1>4, <1>6, <1>7, <1>8, <1>9, <1>10, <1>11, <1>12, <1>13, BindSteps

LEMMA FinishSourceSteps ==
  ASSUME SharingInv, NEW p \in Runs, NEW s \in Snapshots, FinishSource(p, s)
  PROVE  Steps
<1> DEFINE Q == Waiting(p)
           rows == [q \in Q |-> request[q]]
<1>1. Q \in SUBSET Requests /\ rows \in [Q -> Rows]
  BY DEF Waiting, SharingInv, TypeOK
<1>2. SpecsOf(Q) = {rows[q].spec : q \in Q}
  BY DEF SpecsOf
<1>3. PICK serve \in Servings(SpecsOf(Q), s) :
        /\ job' = Prepared(p, s, serve, rows)
        /\ request' = [q \in Requests |->
             IF q \in Q THEN BoundRow(request[q], s, serve[request[q].spec]) ELSE request[q]]
  BY DEF FinishSource
<1>4. request' = [q \in Requests |->
        IF q \in Q THEN BoundRow(rows[q], s, serve[rows[q].spec]) ELSE request[q]]
  BY <1>3
<1>5. job[p].kind \in SourceKinds /\ job[p].status = "live" /\ s \in Outcome(p)
  BY DEF FinishSource, IsSource
<1>6. job[p].source = SourceOf[s] /\ (job[p].kind = "restore" => job[p].snapshot = s)
  <2>1. CASE job[p].kind = "restore"
    <3>1. s = job[p].snapshot
      BY <1>5, <2>1 DEF Outcome
    <3> QED BY <2>1, <3>1 DEF SharingInv, Coherent
  <2> QED BY <1>5, <2>1 DEF Outcome
<1>7. \A q \in Q : rows[q].source = SourceOf[s]
  BY <1>6 DEF SharingInv, Served, Waiting, Open, OpenStatuses
<1>8. ~Stopping(SpecsOf(Q), s)
  BY DEF FinishSource
<1>9. /\ awaited' = awaited /\ leaving' = leaving /\ imagesReady' = imagesReady
      /\ videoReady' \in [Snapshots -> BOOLEAN]
  BY DEF FinishSource, SharingInv, TypeOK
<1> HIDE DEF rows, Q
<1> QED BY <1>1, <1>2, <1>3, <1>4, <1>5, <1>6, <1>7, <1>8, <1>9, BindSteps DEF Q

\* One run is asked to stop: no open request is bound to it any longer.
LEMMA OneStopped ==
  ASSUME SharingInv, NEW r \in Runs, job[r].status = "live",
         job' = [job EXCEPT ![r] = [@ EXCEPT !.status = "stopping"]],
         ~awaited'[r], \A x \in Runs : awaited'[x] => awaited[x],
         \A x \in Runs : leaving'[x] => leaving[x],
         \A x \in Requests : Open(x) /\ request[x].active = r => ~Open(x)'
  PROVE  /\ job' \in [Runs -> Jobs]
         /\ \A x \in Runs : RunStep(x)
         /\ \A x \in Requests : request'[x] = request[x] => RequestStep(x)
<1>1. job \in [Runs -> Jobs]
  BY DEF SharingInv, TypeOK
<1>2. job'[r] = [job[r] EXCEPT !.status = "stopping"] /\ \A x \in Runs \ {r} : job'[x] = job[x]
  BY <1>1
<1>3. job' \in [Runs -> Jobs]
  BY <1>1, <1>2 DEF Jobs
<1>4. \A x \in Runs : RunStep(x)
  BY <1>2 DEF RunStep, AskedToStop
<1>5. ASSUME NEW x \in Requests, request'[x] = request[x] PROVE RequestStep(x)
  BY <1>2, <1>5, OpenNamesLive DEF RequestStep, Untouched, Open
<1> QED BY <1>3, <1>4, <1>5

LEMMA CancelSteps ==
  ASSUME SharingInv, NEW q \in Requests, CancelRequest(q)
  PROVE  Steps
<1> DEFINE r == request[q].active
<1>1. Open(q) /\ request \in [Requests -> Rows]
  BY DEF CancelRequest, SharingInv, TypeOK
<1>2. r \in Runs /\ job[r].status = "live"
  BY <1>1, OpenNamesLive
<1>3. request' = [request EXCEPT ![q] = [@ EXCEPT !.status = "canceled", !.active = NoRun]]
  BY DEF CancelRequest
<1>4. /\ request'[q].status = "canceled" /\ request' \in [Requests -> Rows]
      /\ \A x \in Requests \ {q} : request'[x] = request[x]
  BY <1>1, <1>3 DEF Rows
<1>5. RequestStep(q)
  BY <1>4 DEF RequestStep
<1>6. \A x \in Requests : Open(x)' => request'[x].active \in Runs
  BY <1>4 DEF Open, OpenStatuses, SharingInv, TypeOK
<1>7. UNCHANGED <<awaited, leaving, videoReady, imagesReady>>
  BY DEF CancelRequest
<1>8. /\ job' \in [Runs -> Jobs]
      /\ \A x \in Runs : RunStep(x)
      /\ \A x \in Requests : request'[x] = request[x] => RequestStep(x)
  <2>1. CASE job' = job
    BY <1>7, <2>1, SameJobs DEF SharingInv, TypeOK
  <2>2. CASE job' # job
    <3>1. ~Needed(r, q) /\ job' = [job EXCEPT ![r] = [@ EXCEPT !.status = "stopping"]]
      BY <2>2 DEF CancelRequest
    <3>2. /\ ~awaited'[r] /\ \A x \in Runs : awaited'[x] => awaited[x]
          /\ \A x \in Runs : leaving'[x] => leaving[x]
      BY <1>7, <3>1 DEF Needed
    <3>3. \A x \in Requests : Open(x) /\ request[x].active = r => ~Open(x)'
      BY <1>4, <3>1 DEF Needed, Open, OpenStatuses
    <3> HIDE DEF r
    <3> QED BY <1>2, <3>1, <3>2, <3>3, OneStopped
  <2> QED BY <2>1, <2>2
<1>9. TypeOK'
  BY <1>4, <1>6, <1>7, <1>8 DEF TypeOK, SharingInv
<1> QED BY <1>4, <1>5, <1>8, <1>9 DEF Steps

\* One run is over: the requests that are not bound to it are left alone.
LEMMA OneOver ==
  ASSUME SharingInv, NEW r \in Runs, Live(r),
         NEW status \in {"succeeded", "failed", "canceled"},
         status = "succeeded" => job[r].snapshot # NoSnapshot,
         job' = [job EXCEPT ![r] = [@ EXCEPT !.status = status]], awaited' = awaited,
         leaving' = leaving
  PROVE  /\ job' \in [Runs -> Jobs]
         /\ job'[r] = [job[r] EXCEPT !.status = status]
         /\ \A x \in Runs : RunStep(x)
         /\ \A x \in Requests : request'[x] = request[x] /\ ~(request[x].active = r /\ Open(x))
              => RequestStep(x)
<1>1. job \in [Runs -> Jobs]
  BY DEF SharingInv, TypeOK
<1>2. job'[r] = [job[r] EXCEPT !.status = status] /\ \A x \in Runs \ {r} : job'[x] = job[x]
  BY <1>1
<1>3. job' \in [Runs -> Jobs]
  BY <1>1, <1>2 DEF Jobs
<1>4. Over(r)
  BY <1>1, <1>2 DEF Over, Jobs
<1>5. \A x \in Runs : RunStep(x)
  BY <1>2, <1>4 DEF RunStep
<1>6. ASSUME NEW x \in Requests, request'[x] = request[x], ~(request[x].active = r /\ Open(x))
      PROVE  RequestStep(x)
  BY <1>2, <1>6, OpenNamesLive DEF RequestStep, Untouched
<1> QED BY <1>2, <1>3, <1>5, <1>6

LEMMA TerminateSteps ==
  ASSUME SharingInv, NEW r \in Runs, Live(r),
         NEW status \in {"failed", "canceled"}, NEW failure \in Failures,
         Terminate(r, status, failure)
  PROVE  Steps
<1>1. /\ job' = [job EXCEPT ![r] = [@ EXCEPT !.status = status]]
      /\ UNCHANGED <<awaited, leaving, videoReady, imagesReady>>
  BY DEF Terminate
<1>2. /\ job' \in [Runs -> Jobs]
      /\ \A x \in Runs : RunStep(x)
      /\ \A x \in Requests : request'[x] = request[x] /\ ~(request[x].active = r /\ Open(x))
           => RequestStep(x)
  BY <1>1, OneOver
<1>3. ASSUME NEW q \in Requests
      PROVE  /\ request'[q] \in Rows /\ RequestStep(q)
             /\ Open(q)' => request'[q].active \in Runs
  <2>1. request[q] \in Rows /\ (Open(q) => request[q].active \in Runs)
    BY DEF SharingInv, TypeOK
  <2>2. CASE request[q].active = r /\ Open(q)
    <3>1. request'[q] = [request[q] EXCEPT !.status = status, !.failure = failure]
      BY <2>2 DEF Terminate
    <3>2. request'[q] \in Rows /\ request'[q].status = status
      BY <2>1, <3>1 DEF Rows
    <3> QED BY <3>2 DEF RequestStep, Open, OpenStatuses
  <2>3. CASE ~(request[q].active = r /\ Open(q))
    <3>1. request'[q] = request[q]
      BY <2>3 DEF Terminate
    <3> QED BY <1>2, <2>1, <2>3, <3>1 DEF Open
  <2> QED BY <2>2, <2>3
<1>4. request' \in [Requests -> Rows]
  BY <1>3 DEF Terminate
<1>5. TypeOK'
  BY <1>1, <1>2, <1>3, <1>4 DEF TypeOK, SharingInv
<1> QED BY <1>2, <1>3, <1>5 DEF Steps

LEMMA PublishSteps ==
  ASSUME SharingInv, NEW r \in Runs, Publish(r)
  PROVE  Steps
<1>1. /\ job[r].kind = "article" /\ job[r].status = "live" /\ job[r] \in Jobs
      /\ job[r].snapshot # NoSnapshot
  BY DEF Publish, SharingInv, TypeOK, Coherent
<1>2. /\ job' = [job EXCEPT ![r] = [@ EXCEPT !.status = "succeeded"]]
      /\ awaited' = awaited /\ leaving' = leaving /\ videoReady' = videoReady
      /\ imagesReady' \in [Runs -> BOOLEAN]
  BY DEF Publish, SharingInv, TypeOK
<1>3. /\ job' \in [Runs -> Jobs]
      /\ job'[r] = [job[r] EXCEPT !.status = "succeeded"]
      /\ \A x \in Runs : RunStep(x)
      /\ \A x \in Requests : request'[x] = request[x] /\ ~(request[x].active = r /\ Open(x))
           => RequestStep(x)
  BY <1>1, <1>2, OneOver DEF Live
<1>4. ASSUME NEW q \in Requests
      PROVE  /\ request'[q] \in Rows /\ RequestStep(q)
             /\ Open(q)' => request'[q].active \in Runs
  <2>1. request[q] \in Rows /\ (Open(q) => request[q].active \in Runs)
    BY DEF SharingInv, TypeOK
  <2>2. CASE request[q].active = r /\ request[q].status = "generating"
    <3>1. request'[q] = [request[q] EXCEPT !.status = "completed", !.article = r]
      BY <2>2 DEF Publish
    <3>2. /\ request'[q] \in Rows /\ request'[q].status = "completed"
          /\ request'[q].article = r /\ request'[q].source = request[q].source
          /\ request'[q].snapshot = request[q].snapshot /\ request'[q].spec = request[q].spec
      BY <2>1, <3>1 DEF Rows
    <3>3. Served(q)
      BY <2>2 DEF SharingInv, Open, OpenStatuses
    <3>4. Answered(q)'
      BY <1>1, <1>3, <2>2, <3>2, <3>3 DEF Answered, Served, Jobs
    <3> QED BY <3>2, <3>4 DEF RequestStep, Open, OpenStatuses
  <2>3. CASE ~(request[q].active = r /\ request[q].status = "generating")
    <3>1. request'[q] = request[q]
      BY <2>3 DEF Publish
    <3>2. ~(request[q].active = r /\ Open(q))
      BY <1>1, <2>3 DEF SharingInv, Served, Open, OpenStatuses, IsSource, SourceKinds
    <3> QED BY <1>3, <2>1, <3>1, <3>2 DEF Open
  <2> QED BY <2>2, <2>3
<1>5. request' \in [Requests -> Rows]
  BY <1>4 DEF Publish
<1>6. TypeOK'
  BY <1>2, <1>3, <1>4, <1>5 DEF TypeOK, SharingInv
<1> QED BY <1>3, <1>4, <1>6 DEF Steps

\* No request is touched.
LEMMA RequestsStay ==
  ASSUME SharingInv, request' = request,
         job' \in [Runs -> Jobs], awaited' \in [Runs -> BOOLEAN],
         leaving' \in [Runs -> BOOLEAN],
         videoReady' \in [Snapshots -> BOOLEAN], imagesReady' \in [Runs -> BOOLEAN],
         \A r \in Runs : RunStep(r),
         \A q \in Requests : request'[q] = request[q] => RequestStep(q)
  PROVE  Steps
BY DEF Steps, SharingInv, TypeOK, Open

LEMMA QuestionWaitsSteps ==
  ASSUME SharingInv, NEW s \in Snapshots, QuestionWaits(s)
  PROVE  Steps
<1>1. /\ request' = request /\ job \in [Runs -> Jobs] /\ awaited \in [Runs -> BOOLEAN]
      /\ leaving' = leaving /\ leaving' \in [Runs -> BOOLEAN]
      /\ videoReady' \in [Snapshots -> BOOLEAN] /\ imagesReady' \in [Runs -> BOOLEAN]
  BY DEF QuestionWaits, SharingInv, TypeOK
<1>2. CASE \E r \in Restoring(s) :
             /\ job[r].status = "live"
             /\ awaited' = [awaited EXCEPT ![r] = TRUE] /\ job' = job
  <2>1. PICK r \in Runs : /\ job[r].status = "live"
                          /\ awaited' = [awaited EXCEPT ![r] = TRUE] /\ job' = job
    BY <1>2 DEF Restoring
  <2>2. awaited' \in [Runs -> BOOLEAN] /\ \A x \in Runs : awaited'[x] => awaited[x] \/ x = r
    BY <1>1, <2>1
  <2>3. \A x \in Runs : awaited'[x] => awaited[x] \/ job[x].status = "live"
    BY <2>1, <2>2
  <2> QED BY <1>1, <2>1, <2>2, <2>3, SameJobs, RequestsStay
<1>3. CASE \E r \in Runs :
             /\ NoJob(r)
             /\ job' = [job EXCEPT ![r] = SourceJob("restore", SourceOf[s], s)]
             /\ awaited' = [awaited EXCEPT ![r] = TRUE]
  <2>1. PICK r \in Runs :
             /\ NoJob(r)
             /\ job' = [job EXCEPT ![r] = SourceJob("restore", SourceOf[s], s)]
             /\ awaited' = [awaited EXCEPT ![r] = TRUE]
    BY <1>3
  <2> DEFINE new == SourceJob("restore", SourceOf[s], s)
  <2>2. new \in Jobs
    BY SharingAssumption, SourceJobType DEF SourceKinds
  <2>3. Created(r)
    BY <1>1, <2>1, SharingAssumption DEF Created, NoJob, SourceJob
  <2>4. awaited' \in [Runs -> BOOLEAN] /\ \A x \in Runs : awaited'[x] => awaited[x] \/ x = r
    BY <1>1, <2>1
  <2>5. job' = [job EXCEPT ![r] = new]
    BY <2>1
  <2> HIDE DEF new
  <2>6. /\ job' \in [Runs -> Jobs]
        /\ \A x \in Runs : RunStep(x)
        /\ \A x \in Requests : request'[x] = request[x] => RequestStep(x)
    BY <1>1, <2>2, <2>3, <2>4, <2>5, OneCreated
  <2> QED BY <1>1, <2>4, <2>6, RequestsStay
<1> QED BY <1>2, <1>3 DEF QuestionWaits

LEMMA QuestionCanceledSteps ==
  ASSUME SharingInv, NEW r \in Runs, QuestionCanceled(r)
  PROVE  Steps
<1>1. /\ request' = request /\ job' = job /\ job' \in [Runs -> Jobs]
      /\ awaited \in [Runs -> BOOLEAN] /\ leaving \in [Runs -> BOOLEAN]
      /\ videoReady' \in [Snapshots -> BOOLEAN] /\ imagesReady' \in [Runs -> BOOLEAN]
  BY DEF QuestionCanceled, SharingInv, TypeOK
<1>2. /\ awaited' \in [Runs -> BOOLEAN] /\ leaving' \in [Runs -> BOOLEAN]
      /\ \A x \in Runs : awaited'[x] => awaited[x]
      /\ \A x \in Runs : leaving'[x] => leaving[x] \/ awaited[x]
  BY <1>1 DEF QuestionCanceled
<1> QED BY <1>1, <1>2, SameJobs, RequestsStay

\* What a question that leaves does to the two variables about questions.
LEMMA QuestionGone ==
  ASSUME SharingInv, NEW r \in Runs, QuestionLeaves(r)
  PROVE  /\ awaited' \in [Runs -> BOOLEAN] /\ leaving' \in [Runs -> BOOLEAN]
         /\ \A x \in Runs : awaited'[x] => awaited[x]
         /\ \A x \in Runs : leaving'[x] => leaving[x]
BY DEF QuestionLeaves, SharingInv, TypeOK

LEMMA QuestionLeavesSteps ==
  ASSUME SharingInv, NEW r \in Runs, QuestionLeaves(r)
  PROVE  Steps
<1>1. /\ request' = request /\ job \in [Runs -> Jobs]
      /\ videoReady' \in [Snapshots -> BOOLEAN] /\ imagesReady' \in [Runs -> BOOLEAN]
  BY DEF QuestionLeaves, SharingInv, TypeOK
<1>2. /\ awaited' \in [Runs -> BOOLEAN] /\ leaving' \in [Runs -> BOOLEAN]
      /\ \A x \in Runs : awaited'[x] => awaited[x]
      /\ \A x \in Runs : leaving'[x] => leaving[x]
  BY QuestionGone
<1>3. CASE job' = job
  BY <1>1, <1>2, <1>3, SameJobs, RequestsStay
<1>4. CASE job' # job
  <2>1. /\ Live(r) /\ ~awaited'[r] /\ ~ \E q \in Requests : request[q].active = r /\ Open(q)
        /\ job' = [job EXCEPT ![r] = [@ EXCEPT !.status = "stopping"]]
    BY <1>4 DEF QuestionLeaves
  <2>2. job[r].status = "live"
    BY <1>1, <1>4, <2>1 DEF Live, Jobs
  <2>3. /\ job' \in [Runs -> Jobs]
        /\ \A x \in Runs : RunStep(x)
        /\ \A x \in Requests : request'[x] = request[x] => RequestStep(x)
    BY <1>2, <2>1, <2>2, OneStopped
  <2> QED BY <1>1, <1>2, <2>3, RequestsStay
<1> QED BY <1>3, <1>4

\* Nothing happens, or media are lost.
LEMMA IdleSteps ==
  ASSUME SharingInv, UNCHANGED <<job, request, awaited, leaving>>,
         videoReady' \in [Snapshots -> BOOLEAN], imagesReady' \in [Runs -> BOOLEAN]
  PROVE  Steps
<1>1. /\ job' \in [Runs -> Jobs] /\ awaited' \in [Runs -> BOOLEAN]
      /\ leaving' \in [Runs -> BOOLEAN]
  BY DEF SharingInv, TypeOK
<1> QED BY <1>1, SameJobs, RequestsStay

LEMMA AcceptSteps ==
  ASSUME SharingInv, NEW q \in Requests, NEW source \in Sources, NEW spec \in Specs,
         NEW pinned, Accept(q, source, spec, pinned)
  PROVE  Steps
BY JoinSteps, BindAtOnceSteps, StartSteps DEF Accept

LEMMA NextSteps ==
  ASSUME SharingInv, [Next]_vars
  PROVE  Steps
<1>1. CASE Visitor
  <2>1. ASSUME NEW q \in Requests, CreateRequest(q) PROVE Steps
    <3>1. PICK source \in Sources, base \in Bases, fresh \in {NoRequest, q} :
            Accept(q, source, [base |-> base, fresh |-> fresh], NoSnapshot)
      BY <2>1 DEF CreateRequest
    <3>2. [base |-> base, fresh |-> fresh] \in Specs
      BY DEF Specs
    <3> QED BY <3>1, <3>2, AcceptSteps
  <2>2. ASSUME NEW q \in Requests, NEW old \in Requests, RetryRequest(q, old) PROVE Steps
    <3>1. request[old].source \in Sources /\ request[old].spec \in Specs
      BY DEF SharingInv, TypeOK, Rows
    <3> QED BY <2>2, <3>1, AcceptSteps DEF RetryRequest
  <2> QED BY <1>1, <2>1, <2>2, CancelSteps DEF Visitor
<1>2. ASSUME NEW r \in Runs, RunEnds(r) PROVE Steps
  <2>1. ASSUME NEW s \in Snapshots, FinishRefused(r, s) PROVE Steps
    BY <2>1, TerminateSteps DEF FinishRefused, Live, Failures
  <2>2. CASE RunFails(r)
    BY <2>2, TerminateSteps DEF RunFails, Live, Failures
  <2>3. CASE RunStops(r)
    BY <2>3, TerminateSteps DEF RunStops, Live, Failures
  <2> QED BY <1>2, <2>1, <2>2, <2>3, FinishSourceSteps, PublishSteps DEF RunEnds
<1>3. CASE Question
  BY <1>3, QuestionWaitsSteps, QuestionCanceledSteps, QuestionLeavesSteps DEF Question
<1>4. CASE MediaLost
  <2>1. /\ UNCHANGED <<job, request, awaited, leaving>>
        /\ videoReady' \in [Snapshots -> BOOLEAN] /\ imagesReady' \in [Runs -> BOOLEAN]
    BY <1>4 DEF MediaLost, VideoGone, ImagesGone, SharingInv, TypeOK
  <2> QED BY <2>1, IdleSteps
<1>5. CASE UNCHANGED vars
  BY <1>5, IdleSteps DEF vars, SharingInv, TypeOK
<1> QED BY <1>1, <1>2, <1>3, <1>4, <1>5 DEF Next

-----------------------------------------------------------------------------
(* The invariants.                                                         *)

LEMMA InitSharing == Init => SharingInv
<1> SUFFICES ASSUME Init PROVE SharingInv
  OBVIOUS
<1>1. TypeOK
  BY InitType
<1>2. \A q \in Requests : request[q].status = "none"
  BY DEF Init
<1>3. \A r \in Runs : /\ job[r].snapshot = NoSnapshot /\ job[r].kind = "none"
                      /\ job[r].status = "absent" /\ ~awaited[r] /\ ~leaving[r]
  BY DEF Init
<1> QED BY <1>1, <1>2, <1>3 DEF SharingInv, Coherent, Open, OpenStatuses

LEMMA SharingInvariant == Spec => []SharingInv
<1>1. SharingInv /\ [Next]_vars => SharingInv'
  BY NextSteps, StepsKeep
<1> QED BY InitSharing, <1>1, PTL DEF Spec

\* Every variable keeps its type, whatever the numbers of requests, runs, videos
\* and interpretations and however full the backlog may get.
THEOREM SharingTypeCorrect == Spec => []TypeOK
<1>1. SharingInv => TypeOK
  BY DEF SharingInv
<1> QED BY <1>1, SharingInvariant, PTL

\* No request is left waiting for a run that is over or that is being stopped,
\* nor for one that works for another source or another article.
THEOREM NobodyStranded == Spec => []ServedWhileOpen
<1>1. SharingInv => ServedWhileOpen
  BY DEF SharingInv, ServedWhileOpen, Served
<1> QED BY <1>1, SharingInvariant, PTL

\* A completed request has a published article of its source, its snapshot and
\* its interpretation, and a fresh one an article generated for it.
THEOREM AnsweredRight == Spec => []AnsweredAsAsked
<1>1. SharingInv => AnsweredAsAsked
  BY DEF SharingInv, AnsweredAsAsked, Answered
<1> QED BY <1>1, SharingInvariant, PTL

-----------------------------------------------------------------------------
(* RequestSharing implements SharedWork: a run is asked to stop exactly    *)
(* when the last request or question that needs it leaves.  The kinds of   *)
(* step of RequestSharingProofs say what happens to a run; what is left to *)
(* show for each action is what happens to those who ask for it.           *)

Askers == Requests \cup {NoRequest}

\* What a step may do to the demand for run r: others join, somebody leaves and
\* somebody else needs the run, a question is canceled, or it is settled.
Grows(r) == Demand(r) \subseteq Demand(r)' /\ Leaving(r)' = Leaving(r)

OneLeaves(r) ==
  /\ \E a \in Demand(r) : Demand(r)' = Demand(r) \ {a}
  /\ Demand(r)' # {} /\ Leaving(r)' = Leaving(r)

OneWithdraws(r) ==
  \E a \in Demand(r) : Demand(r)' = Demand(r) \ {a} /\ Leaving(r)' = Leaving(r) \cup {a}

OneLetsGo(r) ==
  /\ \E a \in Leaving(r) : Leaving(r)' = Leaving(r) \ {a}
  /\ Demand(r)' = Demand(r) /\ Demand(r) # {}

WorkStep(r) ==
  /\ Created(r) => Demand(r)' # {}
  /\ AskedToStop(r) => \/ \E a \in Askers : Demand(r) = {a}
                       \/ Demand(r) = {} /\ Leaving(r) # {}
  /\ job[r].status = "live" /\ job'[r] = job[r]
       => Grows(r) \/ OneLeaves(r) \/ OneWithdraws(r) \/ OneLetsGo(r)

\* A run that is being stopped, or does not exist, is not asked for.
OnlyLiveAskedFor == \A r \in Runs : job[r].status # "live" => Demand(r) = {}

LEMMA AskedForWhileLive == SharingInv => OnlyLiveAskedFor
<1> SUFFICES ASSUME SharingInv, NEW r \in Runs, job[r].status # "live"
             PROVE  Demand(r) = {}
  BY DEF OnlyLiveAskedFor
<1>1. CASE Live(r)
  <2>1. job[r].status = "stopping"
    BY <1>1 DEF Live
  <2>2. ~awaited[r]
    BY <2>1 DEF SharingInv, Coherent
  <2>3. \A q \in Requests : ~(request[q].active = r /\ Open(q))
    BY OpenNamesLive
  <2> QED BY <2>2, <2>3 DEF Demand
<1> QED BY <1>1 DEF Demand

\* Such a step of a run is a step of shared work.
LEMMA WorkStepShared ==
  ASSUME SharingInv, SharingInv', NEW r \in Runs, RunStep(r), WorkStep(r)
  PROVE  \/ Shared!Rest(r) \/ Shared!Start(r) \/ Shared!Join(r) \/ Shared!Withdraw(r)
         \/ Shared!Leave(r) \/ Shared!Abandon(r) \/ Shared!End(r) \/ Shared!Stopped(r)
<1> DEFINE st == [x \in Runs |-> WorkState(x)]
           de == [x \in Runs |-> Demand(x)]
           le == [x \in Runs |-> Leaving(x)]
<1>1. /\ st[r] = WorkState(r) /\ st'[r] = WorkState(r)'
      /\ de[r] = Demand(r) /\ de'[r] = Demand(r)'
      /\ le[r] = Leaving(r) /\ le'[r] = Leaving(r)'
  OBVIOUS
<1>2. /\ job[r].status # "live" => Demand(r) = {}
      /\ job'[r].status # "live" => Demand(r)' = {}
      /\ job[r].status # "live" => Leaving(r) = {}
      /\ job'[r].status # "live" => Leaving(r)' = {}
  <2>1. OnlyLiveAskedFor /\ OnlyLiveAskedFor'
    BY AskedForWhileLive, PTL
  <2> QED BY <2>1 DEF OnlyLiveAskedFor, Leaving
<1>3. Demand(r) \subseteq Askers /\ Demand(r)' \subseteq Askers
  BY DEF Demand, Askers
<1>4. job[r].status \in {"absent", "live", "stopping", "succeeded", "failed", "canceled"}
  BY DEF SharingInv, TypeOK, Jobs
<1> HIDE DEF st, de, le
<1>5. CASE job'[r] = job[r] /\ job[r].status # "live"
  <2>1. WorkState(r)' = WorkState(r) /\ Demand(r)' = Demand(r) /\ Leaving(r)' = Leaving(r)
    BY <1>2, <1>5 DEF WorkState
  <2> QED BY <1>1, <2>1 DEF Shared!Rest, st, de, le
<1>6. CASE job'[r] = job[r] /\ job[r].status = "live"
  <2>1. WorkState(r) = "working" /\ WorkState(r)' = "working"
    BY <1>6 DEF WorkState
  <2>2. CASE Grows(r)
    BY <1>1, <1>3, <2>1, <2>2 DEF Shared!Join, Shared!Goes, Grows, Askers, st, de, le
  <2>3. CASE OneLeaves(r)
    BY <1>1, <2>1, <2>3 DEF Shared!Leave, Shared!Goes, OneLeaves, st, de, le
  <2>4. CASE OneWithdraws(r)
    BY <1>1, <2>1, <2>4 DEF Shared!Withdraw, Shared!Goes, OneWithdraws, st, de, le
  <2>5. CASE OneLetsGo(r)
    BY <1>1, <2>1, <2>5 DEF Shared!Leave, Shared!Goes, OneLetsGo, st, de, le
  <2> QED BY <1>6, <2>2, <2>3, <2>4, <2>5 DEF WorkStep
<1>7. CASE Created(r)
  <2>1. WorkState(r) = "none" /\ WorkState(r)' = "working"
    BY <1>7 DEF WorkState, Created
  <2>2. Leaving(r)' = {}
    BY <1>7 DEF Leaving, RunStep, Created, SharingInv, Coherent
  <2> QED BY <1>1, <1>3, <1>7, <2>1, <2>2 DEF Shared!Start, WorkStep, Askers, st, de, le
<1>8. CASE AskedToStop(r)
  <2>1. job[r].status = "live" /\ job'[r].status = "stopping"
    BY <1>8 DEF AskedToStop, SharingInv, TypeOK, Jobs
  <2>2. /\ WorkState(r) = "working" /\ WorkState(r)' = "stopping"
        /\ Demand(r)' = {} /\ Leaving(r)' = {}
    BY <1>2, <2>1 DEF WorkState
  <2>3. (\E a \in Askers : Demand(r) = {a}) \/ (Demand(r) = {} /\ Leaving(r) # {})
    BY <1>8 DEF WorkStep
  <2> QED BY <1>1, <2>2, <2>3 DEF Shared!Abandon, Askers, st, de, le
<1>9. CASE Over(r)
  <2>1. /\ job[r].status \in {"live", "stopping"} /\ WorkState(r)' = "over"
        /\ Demand(r)' = {} /\ Leaving(r)' = {}
    BY <1>2, <1>9 DEF WorkState, Over, Live
  <2>2. CASE job[r].status = "live"
    BY <1>1, <2>1, <2>2 DEF Shared!End, WorkState, st, de, le
  <2>3. CASE job[r].status = "stopping"
    BY <1>1, <1>2, <2>1, <2>3 DEF Shared!Stopped, WorkState, st, de, le
  <2> QED BY <2>1, <2>2, <2>3
<1> QED BY <1>5, <1>6, <1>7, <1>8, <1>9 DEF RunStep

-----------------------------------------------------------------------------
(* Every action does that to every run.                                    *)

\* Nobody who asks for r leaves.
LEMMA Stays ==
  ASSUME NEW r, Live(r), job'[r] = job[r], awaited[r] => awaited'[r],
         leaving'[r] = leaving[r],
         \A q \in Requests : request[q].active = r /\ Open(q) => request'[q] = request[q]
  PROVE  Grows(r)
<1>1. \A q \in Requests : request[q].active = r /\ Open(q)
        => request'[q].active = r /\ Open(q)'
  BY DEF Open
<1>2. Live(r)'
  BY DEF Live
<1>3. Demand(r) \subseteq Demand(r)'
  BY <1>1, <1>2 DEF Demand
<1> QED BY <1>3 DEF Grows, Leaving

\* A new request leaves all others where they are, and asks for the run it creates.
LEMMA AcceptWorks ==
  ASSUME SharingInv, NEW q \in Requests, request[q].status = "none",
         NEW source \in Sources, NEW spec \in Specs, NEW pinned,
         Accept(q, source, spec, pinned), NEW r \in Runs
  PROVE  WorkStep(r)
<1>1. job \in [Runs -> Jobs] /\ request \in [Requests -> Rows]
  BY DEF SharingInv, TypeOK
<1>2. /\ awaited' = awaited /\ leaving' = leaving
      /\ \A x \in Requests : Open(x) => request'[x] = request[x]
  BY <1>1 DEF Accept, JoinSource, BindAtOnce, StartRestore, StartPrepare, Open, OpenStatuses
<1>3. job[r].status = "live" /\ job'[r] = job[r] => Grows(r)
  BY <1>2, Stays DEF Live
<1>4. /\ Created(r) => Open(q)' /\ request'[q].active = r
      /\ ~AskedToStop(r)
  <2>1. CASE job' = job
    BY <1>1, <2>1 DEF Created, AskedToStop, Jobs
  <2>2. CASE \E p \in Runs, kind \in SourceKinds, s \in Snapshots \cup {NoSnapshot} :
               /\ NoJob(p)
               /\ job' = [job EXCEPT ![p] = SourceJob(kind, source, s)]
               /\ request' = [request EXCEPT ![q] = NewRow(source, spec, p, s)]
    <3>1. PICK p \in Runs, kind \in SourceKinds, s \in Snapshots \cup {NoSnapshot} :
            /\ NoJob(p)
            /\ job' = [job EXCEPT ![p] = SourceJob(kind, source, s)]
            /\ request' = [request EXCEPT ![q] = NewRow(source, spec, p, s)]
      BY <2>2
    <3>2. request'[q].status = "waiting_source" /\ request'[q].active = p
      BY <1>1, <3>1 DEF NewRow
    <3>3. CASE r = p
      BY <1>1, <3>1, <3>2, <3>3 DEF Created, AskedToStop, NoJob, Open, OpenStatuses
    <3>4. CASE r # p
      BY <1>1, <3>1, <3>4 DEF Created, AskedToStop, Jobs
    <3> QED BY <3>3, <3>4
  <2>3. CASE BindAtOnce(q, source, spec, pinned)
    <3>1. PICK p \in Ready(source, pinned) :
            \E serve \in Servings({spec}, job[p].snapshot) :
              LET row == NewRow(source, spec, p, NoSnapshot)
              IN  /\ job' = Prepared(p, job[p].snapshot, serve, [x \in {q} |-> row])
                  /\ request' = [request EXCEPT ![q] = BoundRow(row, job[p].snapshot, serve[spec])]
      BY <2>3 DEF BindAtOnce
    <3> DEFINE row == NewRow(source, spec, p, NoSnapshot)
               s == job[p].snapshot
    <3>2. PICK serve : /\ job' = Prepared(p, s, serve, [x \in {q} |-> row])
                       /\ request' = [request EXCEPT ![q] = BoundRow(row, s, serve[spec])]
      BY <3>1
    <3>3. row.spec = spec /\ row \in Rows /\ p \in Runs /\ job[p].status = "succeeded"
      <4>1. p \in Runs /\ job[p].status = "succeeded"
        BY DEF Ready, Ingested
      <4> QED BY <4>1, NewRowType DEF NewRow
    <3> HIDE DEF row, s
    <3>4. \/ r = p
          \/ job'[r] = job[r]
          \/ NoJob(r) /\ serve[spec] = r /\ job'[r] = ArticleJob(row, s)
      BY <3>2, <3>3 DEF Prepared
    <3>5. CASE r = p
      BY <3>3, <3>5 DEF Created, AskedToStop
    <3>6. CASE job'[r] = job[r]
      BY <1>1, <3>6 DEF Created, AskedToStop, Jobs
    <3>7. CASE NoJob(r) /\ serve[spec] = r /\ job'[r] = ArticleJob(row, s)
      <4>1. request'[q] = BoundRow(row, s, r)
        BY <1>1, <3>2, <3>7
      <4>2. request'[q].status = "generating" /\ request'[q].active = r
        BY <3>3, <3>7, <4>1 DEF BoundRow, NoJob, Rows
      <4> QED BY <3>7, <4>2 DEF AskedToStop, NoJob, Open, OpenStatuses
    <3> QED BY <3>4, <3>5, <3>6, <3>7
  <2>4. CASE StartRestore(q, source, spec, pinned)
    <3>1. \A s \in ToRestore(source, pinned) : s \in Snapshots \cup {NoSnapshot}
      BY <1>1 DEF ToRestore, Retained, Ingested, Jobs
    <3>2. "restore" \in SourceKinds
      BY DEF SourceKinds
    <3> QED BY <2>2, <2>4, <3>1, <3>2 DEF StartRestore
  <2>5. CASE StartPrepare(q, source, spec, pinned)
    BY <2>2, <2>5 DEF StartPrepare, SourceKinds
  <2>6. CASE JoinSource(q, source, spec, pinned)
    BY <2>1, <2>6 DEF JoinSource
  <2> QED BY <2>3, <2>4, <2>5, <2>6 DEF Accept
<1>5. Created(r) => Demand(r)' # {}
  BY <1>4 DEF Created, Demand, Live
<1> QED BY <1>3, <1>4, <1>5 DEF WorkStep

\* When a source is ready, those who waited for it ask for its articles.
LEMMA FinishSourceWorks ==
  ASSUME SharingInv, NEW p \in Runs, NEW s \in Snapshots, FinishSource(p, s), NEW r \in Runs
  PROVE  WorkStep(r)
<1> DEFINE Q == Waiting(p)
           rows == [q \in Q |-> request[q]]
<1>1. job \in [Runs -> Jobs] /\ request \in [Requests -> Rows] /\ Q \subseteq Requests
  BY DEF SharingInv, TypeOK, Waiting
<1>2. PICK serve :
        /\ job' = Prepared(p, s, serve, rows)
        /\ request' = [q \in Requests |->
             IF q \in Q THEN BoundRow(request[q], s, serve[request[q].spec]) ELSE request[q]]
  BY DEF FinishSource
<1>3. job[p].status = "live" /\ awaited' = awaited /\ leaving' = leaving
  BY DEF FinishSource
<1>4. CASE r = p
  <2>1. job'[p].status = "succeeded"
    BY <1>1, <1>2 DEF Prepared, Jobs
  <2> QED BY <1>1, <1>3, <1>4, <2>1 DEF WorkStep, Created, AskedToStop, Jobs
<1>5. CASE r # p
  <2>1. \/ job'[r] = job[r]
        \/ \E q \in Q : NoJob(r) /\ serve[rows[q].spec] = r /\ job'[r].status = "live"
    <3>1. CASE NoJob(r) /\ \E q \in DOMAIN rows : serve[rows[q].spec] = r
      BY <1>2, <1>5, <3>1 DEF Prepared, ArticleJob
    <3> QED BY <1>2, <1>5, <3>1 DEF Prepared
  <2>2. CASE job'[r] = job[r]
    <3>1. \A q \in Requests : request[q].active = r /\ Open(q) => request'[q] = request[q]
      BY <1>2, <1>5 DEF Waiting
    <3>2. job[r].status = "live" => Grows(r)
      BY <1>3, <2>2, <3>1, Stays DEF Live
    <3> QED BY <1>1, <2>2, <3>2 DEF WorkStep, Created, AskedToStop, Jobs
  <2>3. CASE \E q \in Q : NoJob(r) /\ serve[rows[q].spec] = r /\ job'[r].status = "live"
    <3>1. PICK q \in Q : NoJob(r) /\ serve[request[q].spec] = r /\ job'[r].status = "live"
      BY <2>3
    <3>2. request'[q] = BoundRow(request[q], s, r) /\ request[q] \in Rows
      BY <1>1, <1>2, <3>1
    <3>3. request'[q].status = "generating" /\ request'[q].active = r
      BY <3>1, <3>2 DEF BoundRow, NoJob, Rows
    <3>4. Demand(r)' # {}
      BY <1>1, <3>1, <3>3 DEF Demand, Live, Open, OpenStatuses
    <3> QED BY <3>1, <3>4 DEF WorkStep, AskedToStop, NoJob
  <2> QED BY <2>1, <2>2, <2>3
<1> QED BY <1>4, <1>5

\* A run that ends takes only those away who asked for it.
LEMMA EndWorks ==
  ASSUME SharingInv, NEW e \in Runs, Live(e), NEW status \in {"succeeded", "failed", "canceled"},
         job' = [job EXCEPT ![e] = [@ EXCEPT !.status = status]], awaited' = awaited,
         leaving' = leaving,
         \A q \in Requests : request[q].active # e => request'[q] = request[q],
         NEW r \in Runs
  PROVE  WorkStep(r)
<1>1. job \in [Runs -> Jobs]
  BY DEF SharingInv, TypeOK
<1>2. CASE r = e
  <2>1. job'[e].status = status
    BY <1>1 DEF Jobs
  <2>2. job'[r] # job[r]
    BY <1>2, <2>1 DEF Live
  <2> QED BY <1>1, <1>2, <2>1, <2>2 DEF WorkStep, Created, AskedToStop, Jobs
<1>3. CASE r # e
  <2>1. job'[r] = job[r]
    BY <1>1, <1>3
  <2>2. job[r].status = "live" => Grows(r)
    BY <1>3, <2>1, Stays DEF Live
  <2> QED BY <1>1, <2>1, <2>2 DEF WorkStep, Created, AskedToStop, Jobs
<1> QED BY <1>2, <1>3

LEMMA CancelWorks ==
  ASSUME SharingInv, NEW q \in Requests, CancelRequest(q), NEW r \in Runs
  PROVE  WorkStep(r)
<1> DEFINE a == request[q].active
<1>1. /\ job \in [Runs -> Jobs] /\ request \in [Requests -> Rows]
      /\ Open(q) /\ a \in Runs /\ job[a].status = "live"
  BY OpenNamesLive DEF SharingInv, TypeOK, CancelRequest
<1>2. /\ ~Open(q)' /\ awaited' = awaited /\ leaving' = leaving
      /\ \A x \in Requests \ {q} : request'[x] = request[x]
  BY <1>1 DEF CancelRequest, Open, OpenStatuses
<1>3. job' = IF Needed(a, q) THEN job
             ELSE [job EXCEPT ![a] = [@ EXCEPT !.status = "stopping"]]
  BY <1>1 DEF CancelRequest, Live
<1>4. q # NoRequest /\ q \in Demand(a)
  BY <1>1, SharingAssumption DEF Demand, Live
<1> HIDE DEF a
<1>5. CASE r # a
  <2>1. job'[r] = job[r]
    BY <1>1, <1>3, <1>5
  <2>2. job[r].status = "live" => Grows(r)
    BY <1>2, <1>5, <2>1, Stays DEF Live, a
  <2> QED BY <1>1, <2>1, <2>2 DEF WorkStep, Created, AskedToStop, Jobs
<1>6. CASE r = a /\ Needed(a, q)
  <2>1. job'[r] = job[r] /\ Live(r) /\ Live(r)'
    BY <1>1, <1>3, <1>6 DEF Live
  <2>2. Demand(r)' = Demand(r) \ {q}
    BY <1>2, <1>4, <2>1 DEF Demand, Open
  <2>3. Demand(r)' # {}
    <3>1. CASE awaited[r]
      BY <1>2, <2>1, <3>1 DEF Demand
    <3>2. CASE \E other \in Requests \ {q} : request[other].active = r /\ Open(other)
      BY <1>2, <2>1, <3>2 DEF Demand, Open
    <3> QED BY <1>6, <3>1, <3>2 DEF Needed
  <2>4. OneLeaves(r)
    BY <1>2, <1>4, <1>6, <2>1, <2>2, <2>3 DEF OneLeaves, Leaving
  <2> QED BY <1>1, <1>6, <2>1, <2>4 DEF WorkStep, Created, AskedToStop, Jobs
<1>7. CASE r = a /\ ~Needed(a, q)
  <2>1. Demand(r) = {q}
    BY <1>1, <1>4, <1>7 DEF Demand, Needed
  <2>2. job'[r].status = "stopping"
    BY <1>1, <1>3, <1>7 DEF Jobs
  <2>3. job'[r] # job[r]
    BY <1>1, <1>7, <2>2
  <2> QED BY <2>1, <2>2, <2>3 DEF WorkStep, Created, Askers
<1> QED BY <1>5, <1>6, <1>7

LEMMA QuestionWaitsWorks ==
  ASSUME SharingInv, NEW s \in Snapshots, QuestionWaits(s), NEW r \in Runs
  PROVE  WorkStep(r)
<1>1. job \in [Runs -> Jobs] /\ awaited \in [Runs -> BOOLEAN] /\ request' = request
  BY DEF SharingInv, TypeOK, QuestionWaits
<1>0. leaving' = leaving
  BY DEF QuestionWaits
<1>2. \A x \in Runs : awaited[x] => awaited'[x]
  BY <1>1 DEF QuestionWaits
<1>3. job'[r] = job[r] \/ (NoJob(r) /\ job'[r].status = "live" /\ awaited'[r])
  BY <1>1 DEF QuestionWaits, SourceJob
<1>4. CASE job'[r] = job[r]
  <2>1. job[r].status = "live" => Grows(r)
    BY <1>0, <1>1, <1>2, <1>4, Stays DEF Live
  <2> QED BY <1>1, <1>4, <2>1 DEF WorkStep, Created, AskedToStop, Jobs
<1>5. CASE NoJob(r) /\ job'[r].status = "live" /\ awaited'[r]
  <2>1. Demand(r)' # {}
    BY <1>5 DEF Demand, Live
  <2> QED BY <1>5, <2>1 DEF WorkStep, AskedToStop, NoJob
<1> QED BY <1>3, <1>4, <1>5

LEMMA QuestionCanceledWorks ==
  ASSUME SharingInv, NEW a \in Runs, QuestionCanceled(a), NEW r \in Runs
  PROVE  WorkStep(r)
<1>1. /\ job \in [Runs -> Jobs] /\ awaited \in [Runs -> BOOLEAN]
      /\ leaving \in [Runs -> BOOLEAN] /\ job' = job /\ request' = request
      /\ awaited' = [awaited EXCEPT ![a] = FALSE] /\ leaving' = [leaving EXCEPT ![a] = TRUE]
      /\ awaited[a]
  BY DEF SharingInv, TypeOK, QuestionCanceled
<1>2. job'[r] = job[r] /\ job[r] \in Jobs
  BY <1>1
<1>3. ASSUME r # a, job[r].status = "live" PROVE Grows(r)
  <2>1. awaited'[r] = awaited[r] /\ leaving'[r] = leaving[r]
    BY <1>1, <1>3
  <2>2. \A q \in Requests : request'[q] = request[q]
    BY <1>1
  <2> QED BY <1>2, <1>3, <2>1, <2>2, Stays DEF Live
<1>4. ASSUME r = a, job[r].status = "live" PROVE OneWithdraws(r)
  <2>1. NoRequest \in Demand(r) /\ Demand(r)' = Demand(r) \ {NoRequest}
    BY <1>1, <1>4, SharingAssumption DEF Demand, Open, Live
  <2>2. Leaving(r)' = Leaving(r) \cup {NoRequest}
    BY <1>1, <1>4 DEF Leaving
  <2> QED BY <2>1, <2>2 DEF OneWithdraws
<1> QED BY <1>2, <1>3, <1>4 DEF WorkStep, Created, AskedToStop, Jobs

LEMMA QuestionLeavesWorks ==
  ASSUME SharingInv, NEW a \in Runs, QuestionLeaves(a), NEW r \in Runs
  PROVE  WorkStep(r)
<1> DEFINE Wanted == awaited'[a] \/ \E q \in Requests : request[q].active = a /\ Open(q)
<1>1. /\ job \in [Runs -> Jobs] /\ awaited \in [Runs -> BOOLEAN]
      /\ leaving \in [Runs -> BOOLEAN] /\ request' = request
      /\ \/ awaited[a] /\ awaited' = [awaited EXCEPT ![a] = FALSE] /\ leaving' = leaving
         \/ leaving[a] /\ leaving' = [leaving EXCEPT ![a] = FALSE] /\ awaited' = awaited
      /\ job' = IF ~Live(a) \/ Wanted THEN job
                ELSE [job EXCEPT ![a] = [@ EXCEPT !.status = "stopping"]]
  BY DEF SharingInv, TypeOK, QuestionLeaves
<1> HIDE DEF Wanted
<1>2. CASE r # a
  <2>1. job'[r] = job[r] /\ awaited'[r] = awaited[r] /\ leaving'[r] = leaving[r]
    BY <1>1, <1>2
  <2>2. job[r].status = "live" => Grows(r)
    <3>1. \A q \in Requests : request'[q] = request[q]
      BY <1>1
    <3> QED BY <2>1, <3>1, Stays DEF Live
  <2> QED BY <1>1, <2>1, <2>2 DEF WorkStep, Created, AskedToStop, Jobs
<1>3. CASE r = a /\ job'[a] = job[a]
  <2>1. job[r].status = "live" => Wanted
    <3>1. [job[a] EXCEPT !.status = "stopping"].status = "stopping"
      BY <1>1 DEF Jobs
    <3> QED BY <1>1, <1>3, <3>1 DEF Live
  <2>2. ASSUME job[r].status = "live" PROVE OneLeaves(r) \/ OneLetsGo(r)
    <3>1. Live(r) /\ Live(r)'
      BY <1>3, <2>2 DEF Live
    <3>2. Demand(r)' # {}
      BY <1>1, <1>3, <2>1, <2>2, <3>1 DEF Demand, Open, Wanted
    <3>3. CASE awaited[a] /\ awaited' = [awaited EXCEPT ![a] = FALSE] /\ leaving' = leaving
      <4>1. NoRequest \in Demand(r) /\ Demand(r)' = Demand(r) \ {NoRequest}
        BY <1>1, <1>3, <3>1, <3>3, SharingAssumption DEF Demand, Open
      <4>2. Leaving(r)' = Leaving(r)
        BY <1>3, <3>3 DEF Leaving
      <4> QED BY <3>2, <4>1, <4>2 DEF OneLeaves
    <3>4. CASE leaving[a] /\ leaving' = [leaving EXCEPT ![a] = FALSE] /\ awaited' = awaited
      <4>1. Demand(r)' = Demand(r)
        BY <1>1, <1>3, <3>1, <3>4 DEF Demand, Open
      <4>2. NoRequest \in Leaving(r) /\ Leaving(r)' = Leaving(r) \ {NoRequest}
        BY <1>1, <1>3, <2>2, <3>4 DEF Leaving
      <4> QED BY <3>2, <4>1, <4>2 DEF OneLetsGo
    <3> QED BY <1>1, <3>3, <3>4
  <2> QED BY <1>1, <1>3, <2>2 DEF WorkStep, Created, AskedToStop, Jobs
<1>4. CASE r = a /\ job'[a] # job[a]
  <2>1. Live(r) /\ ~Wanted /\ job'[r].status = "stopping"
    BY <1>1, <1>4 DEF Jobs
  <2>2. job[r].status = "live"
    BY <1>1, <1>4, <2>1 DEF Live, Jobs
  <2>3. CASE awaited[a]
    <3>1. Demand(r) = {NoRequest}
      BY <1>1, <1>4, <2>1, <2>3 DEF Demand, Wanted
    <3> QED BY <1>4, <2>1, <3>1 DEF WorkStep, Created, Live, Askers
  <2>4. CASE ~awaited[a]
    <3>1. Demand(r) = {} /\ Leaving(r) # {}
      BY <1>1, <1>4, <2>1, <2>2, <2>4 DEF Demand, Leaving, Wanted
    <3> QED BY <1>4, <2>1, <3>1 DEF WorkStep, Created, Live
  <2> QED BY <2>3, <2>4
<1> QED BY <1>2, <1>3, <1>4

LEMMA NextWorks ==
  ASSUME SharingInv, [Next]_vars, NEW r \in Runs
  PROVE  WorkStep(r)
<1>1. CASE Visitor
  <2>1. ASSUME NEW q \in Requests, CreateRequest(q) PROVE WorkStep(r)
    <3>1. PICK source \in Sources, base \in Bases, fresh \in {NoRequest, q} :
            Accept(q, source, [base |-> base, fresh |-> fresh], NoSnapshot)
      BY <2>1 DEF CreateRequest
    <3>2. [base |-> base, fresh |-> fresh] \in Specs
      BY DEF Specs
    <3>3. request[q].status = "none"
      BY <2>1 DEF CreateRequest
    <3> QED BY <3>1, <3>2, <3>3, AcceptWorks
  <2>2. ASSUME NEW q \in Requests, NEW old \in Requests, RetryRequest(q, old)
        PROVE  WorkStep(r)
    <3>1. request[old].source \in Sources /\ request[old].spec \in Specs
      BY DEF SharingInv, TypeOK, Rows
    <3> QED BY <2>2, <3>1, AcceptWorks DEF RetryRequest
  <2> QED BY <1>1, <2>1, <2>2, CancelWorks DEF Visitor
<1>2. ASSUME NEW e \in Runs, RunEnds(e) PROVE WorkStep(r)
  <2>1. ASSUME Live(e), NEW status \in {"failed", "canceled"}, NEW failure,
               Terminate(e, status, failure)
        PROVE  WorkStep(r)
    BY <2>1, EndWorks DEF Terminate
  <2>2. ASSUME NEW s \in Snapshots, FinishRefused(e, s) PROVE WorkStep(r)
    BY <2>1, <2>2 DEF FinishRefused, Live
  <2>3. CASE RunFails(e)
    BY <2>1, <2>3 DEF RunFails, Live
  <2>4. CASE RunStops(e)
    BY <2>1, <2>4 DEF RunStops, Live
  <2>5. CASE Publish(e)
    BY <2>5, EndWorks DEF Publish, Live
  <2> QED BY <1>2, <2>2, <2>3, <2>4, <2>5, FinishSourceWorks DEF RunEnds
<1>3. CASE Question
  BY <1>3, QuestionWaitsWorks, QuestionCanceledWorks, QuestionLeavesWorks DEF Question
<1>4. CASE UNCHANGED <<job, request, awaited, leaving>>
  <2>1. job[r].status = "live" => Grows(r)
    BY <1>4, Stays DEF Live
  <2>2. job[r] \in Jobs
    BY DEF SharingInv, TypeOK
  <2> QED BY <1>4, <2>1, <2>2 DEF WorkStep, Created, AskedToStop, Jobs
<1>5. MediaLost \/ UNCHANGED vars => UNCHANGED <<job, request, awaited, leaving>>
  BY DEF MediaLost, VideoGone, ImagesGone, vars
<1> QED BY <1>1, <1>2, <1>3, <1>4, <1>5 DEF Next

-----------------------------------------------------------------------------
\* A shared run is stopped when, and only when, the last request or question
\* that needs it leaves, whatever the numbers of visitors, videos and runs.
THEOREM StopsForTheLastOnly == Spec => StopsWithItsLastUser
<1>1. Init => Shared!Init
  BY DEF Init, Shared!Init, WorkState, Demand, Leaving, Live
<1>2. ASSUME SharingInv, SharingInv', [Next]_vars PROVE Shared!Next
  <2>1. \A r \in Runs : RunStep(r)
    BY <1>2, NextSteps DEF Steps
  <2>2. \A r \in Runs : WorkStep(r)
    BY <1>2, NextWorks
  <2> QED BY <1>2, <2>1, <2>2, WorkStepShared DEF Shared!Next
<1> QED BY <1>1, <1>2, SharingInvariant, PTL DEF Spec, StopsWithItsLastUser, Shared!Spec

-----------------------------------------------------------------------------
(* The backlog never exceeds its bound.  What admitVideoTask counts are    *)
(* runs, and pairs of a source run and an article that waits for it: when  *)
(* the source is prepared there is room for the runs of these articles.    *)

\* The tables hold finitely many rows.
FiniteRows == IsFiniteSet(Runs) /\ IsFiniteSet(Requests)

\* What admitVideoTask counts: runs that count once, and the articles that wait
\* for a source run.
Awaited(r) == SpecsOf(Waiting(r))
WaitedFor(R) == {r \in R : IsSource(r) /\ Waiting(r) # {}}
Singles(R) == R \ WaitedFor(R)
Pairs(R) == UNION {{<<r, s>> : s \in Awaited(r)} : r \in WaitedFor(R)}

\* The inductive invariant.
Bounded == Backlog(LiveRuns) <= MaxPending

\* What belongs to the two sets.
LEMMA BacklogCounts ==
  ASSUME NEW R
  PROVE  /\ Backlog(R) = Cardinality(Singles(R)) + Cardinality(Pairs(R))
         /\ \A r, s : <<r, s>> \in Pairs(R) <=> r \in R /\ IsSource(r) /\ s \in Awaited(r)
         /\ \A x \in Pairs(R) : \E r, s : x = <<r, s>>
         /\ \A r : r \in Singles(R) <=> r \in R /\ ~(IsSource(r) /\ Awaited(r) # {})
<1>1. Backlog(R) = Cardinality(Singles(R)) + Cardinality(Pairs(R))
  BY DEF Backlog, Singles, Pairs, WaitedFor, Awaited
<1>2. \A r : Awaited(r) # {} <=> Waiting(r) # {}
  BY DEF Awaited, SpecsOf
<1>3. \A r, s : <<r, s>> \in Pairs(R) <=> r \in R /\ IsSource(r) /\ s \in Awaited(r)
  <2>1. ASSUME NEW r, NEW s, <<r, s>> \in Pairs(R)
        PROVE  r \in R /\ IsSource(r) /\ s \in Awaited(r)
    BY <2>1 DEF Pairs, WaitedFor
  <2>2. ASSUME NEW r, NEW s, r \in R, IsSource(r), s \in Awaited(r)
        PROVE  <<r, s>> \in Pairs(R)
    BY <1>2, <2>2 DEF Pairs, WaitedFor
  <2> QED BY <2>1, <2>2
<1>4. \A x \in Pairs(R) : \E r, s : x = <<r, s>>
  BY DEF Pairs
<1>5. \A r : r \in Singles(R) <=> r \in R /\ ~(IsSource(r) /\ Awaited(r) # {})
  BY <1>2 DEF Singles, WaitedFor
<1> QED BY <1>1, <1>3, <1>4, <1>5

\* BacklogCounts for the live runs, in one step and in the next.
CountsRight ==
  /\ Backlog(LiveRuns) = Cardinality(Singles(LiveRuns)) + Cardinality(Pairs(LiveRuns))
  /\ \A r, s : <<r, s>> \in Pairs(LiveRuns) <=> r \in LiveRuns /\ IsSource(r) /\ s \in Awaited(r)
  /\ \A x \in Pairs(LiveRuns) : \E r, s : x = <<r, s>>
  /\ \A r : r \in Singles(LiveRuns) <=> r \in LiveRuns /\ ~(IsSource(r) /\ Awaited(r) # {})

LEMMA CountsNow == CountsRight
BY BacklogCounts DEF CountsRight

LEMMA CountsNext == CountsRight'
BY CountsNow, PTL

\* Finitely many rows make finitely many pairs.
LEMMA BacklogFinite ==
  ASSUME FiniteRows, NEW R \in SUBSET Runs
  PROVE  /\ IsFiniteSet(Singles(R)) /\ IsFiniteSet(Pairs(R))
         /\ \A r \in Runs : IsFiniteSet(Awaited(r))
<1> DEFINE all == {request[q].spec : q \in Requests}
           f == [q \in Requests |-> request[q].spec]
<1>1. f \in Surjection(Requests, all)
  BY DEF Surjection
<1>2. IsFiniteSet(all)
  BY <1>1, FS_Surjection DEF FiniteRows
<1>3. \A r : Awaited(r) \subseteq all
  BY DEF Awaited, SpecsOf, Waiting
<1>4. IsFiniteSet(Runs \X all)
  BY <1>2, FS_Product DEF FiniteRows
<1>5. Pairs(R) \subseteq Runs \X all
  BY <1>3, BacklogCounts
<1>6. Singles(R) \subseteq Runs
  BY DEF Singles
<1> HIDE DEF all
<1> QED BY <1>2, <1>3, <1>4, <1>5, <1>6, FS_Subset DEF FiniteRows

\* Parts of finite unions.
LEMMA Sums ==
  ASSUME NEW S, IsFiniteSet(S), NEW P, IsFiniteSet(P), NEW A, IsFiniteSet(A),
         NEW B, IsFiniteSet(B), NEW S2, S2 \subseteq S \cup A, NEW P2, P2 \subseteq P \cup B
  PROVE  /\ Cardinality(S) \in Nat /\ Cardinality(P) \in Nat
         /\ Cardinality(A) \in Nat /\ Cardinality(B) \in Nat
         /\ Cardinality(S2) \in Nat /\ Cardinality(P2) \in Nat
         /\ Cardinality(S2) + Cardinality(P2)
              <= Cardinality(S) + Cardinality(P) + Cardinality(A) + Cardinality(B)
<1>1. /\ Cardinality(S) \in Nat /\ Cardinality(P) \in Nat
      /\ Cardinality(A) \in Nat /\ Cardinality(B) \in Nat
  BY FS_CardinalityType
<1>2. /\ IsFiniteSet(S \cup A) /\ Cardinality(S \cup A) <= Cardinality(S) + Cardinality(A)
      /\ Cardinality(S \cup A) \in Nat
  <2>1. IsFiniteSet(S \cap A) /\ IsFiniteSet(S \cup A)
    BY FS_Union, FS_Subset
  <2>2. Cardinality(S \cap A) \in Nat /\ Cardinality(S \cup A) \in Nat
    BY <2>1, FS_CardinalityType
  <2>3. Cardinality(S \cup A) = Cardinality(S) + Cardinality(A) - Cardinality(S \cap A)
    BY FS_Union
  <2> QED BY <1>1, <2>1, <2>2, <2>3
<1>3. /\ IsFiniteSet(P \cup B) /\ Cardinality(P \cup B) <= Cardinality(P) + Cardinality(B)
      /\ Cardinality(P \cup B) \in Nat
  <2>1. IsFiniteSet(P \cap B) /\ IsFiniteSet(P \cup B)
    BY FS_Union, FS_Subset
  <2>2. Cardinality(P \cap B) \in Nat /\ Cardinality(P \cup B) \in Nat
    BY <2>1, FS_CardinalityType
  <2>3. Cardinality(P \cup B) = Cardinality(P) + Cardinality(B) - Cardinality(P \cap B)
    BY FS_Union
  <2> QED BY <1>1, <2>1, <2>2, <2>3
<1>4. /\ IsFiniteSet(S2) /\ Cardinality(S2) <= Cardinality(S \cup A)
      /\ IsFiniteSet(P2) /\ Cardinality(P2) <= Cardinality(P \cup B)
  BY <1>2, <1>3, FS_Subset
<1>5. Cardinality(S2) \in Nat /\ Cardinality(P2) \in Nat
  BY <1>4, FS_CardinalityType
<1> QED BY <1>1, <1>2, <1>3, <1>4, <1>5

\* A run that counts as it did among the runs R.
Counts(r, R) == r \in R /\ IsSource(r)' = IsSource(r) /\ Awaited(r)' = Awaited(r)

\* The backlog after a step: that of R, the runs A that are new in it and count
\* once, and the pairs B.
LEMMA BacklogStep ==
  ASSUME FiniteRows, NEW R \in SUBSET Runs, NEW A, IsFiniteSet(A), NEW B, IsFiniteSet(B),
         \A r \in Runs : Live(r)' =>
           \/ Counts(r, R)
           \/ r \in A /\ ~(IsSource(r)' /\ Awaited(r)' # {})
           \/ /\ IsSource(r)' /\ Awaited(r)' # {}
              /\ \A s \in Awaited(r)' : <<r, s>> \in B \/ <<r, s>> \in Pairs(R)
  PROVE  /\ Backlog(LiveRuns)' <= Backlog(R) + Cardinality(A) + Cardinality(B)
         /\ Backlog(LiveRuns)' \in Nat /\ Backlog(R) \in Nat
         /\ Cardinality(A) \in Nat /\ Cardinality(B) \in Nat
<1>1. CountsRight'
  BY CountsNext
<1>2. /\ \A r, s : <<r, s>> \in Pairs(R) <=> r \in R /\ IsSource(r) /\ s \in Awaited(r)
      /\ \A r : r \in Singles(R) <=> r \in R /\ ~(IsSource(r) /\ Awaited(r) # {})
      /\ Backlog(R) = Cardinality(Singles(R)) + Cardinality(Pairs(R))
  BY BacklogCounts
<1>3. Singles(LiveRuns)' \subseteq Singles(R) \cup A
  <2>1. ASSUME NEW r \in Singles(LiveRuns)' PROVE r \in Singles(R) \cup A
    <3>1. r \in Runs /\ Live(r)' /\ ~(IsSource(r)' /\ Awaited(r)' # {})
      BY <1>1, <2>1 DEF CountsRight, LiveRuns
    <3> QED BY <1>2, <3>1 DEF Counts
  <2> QED BY <2>1
<1>4. Pairs(LiveRuns)' \subseteq Pairs(R) \cup B
  <2>1. ASSUME NEW x \in Pairs(LiveRuns)' PROVE x \in Pairs(R) \cup B
    <3>1. PICK r, s : x = <<r, s>>
      BY <1>1 DEF CountsRight
    <3>2. r \in Runs /\ Live(r)' /\ IsSource(r)' /\ s \in Awaited(r)'
      BY <1>1, <3>1 DEF CountsRight, LiveRuns
    <3> QED BY <1>2, <3>1, <3>2 DEF Counts
  <2> QED BY <2>1
<1>5. IsFiniteSet(Singles(R)) /\ IsFiniteSet(Pairs(R))
  BY BacklogFinite
<1>6. /\ Cardinality(Singles(R)) \in Nat /\ Cardinality(Pairs(R)) \in Nat
      /\ Cardinality(A) \in Nat /\ Cardinality(B) \in Nat
      /\ Cardinality(Singles(LiveRuns)') \in Nat /\ Cardinality(Pairs(LiveRuns)') \in Nat
      /\ Cardinality(Singles(LiveRuns)') + Cardinality(Pairs(LiveRuns)')
           <= Cardinality(Singles(R)) + Cardinality(Pairs(R)) + Cardinality(A) + Cardinality(B)
  BY <1>3, <1>4, <1>5, Sums
<1>7. Backlog(LiveRuns)' = Cardinality(Singles(LiveRuns)') + Cardinality(Pairs(LiveRuns)')
  BY <1>1 DEF CountsRight
<1> QED BY <1>2, <1>6, <1>7

\* What is left of the backlog without one of its runs.
LEMMA BacklogWithout ==
  ASSUME FiniteRows, NEW R \in SUBSET Runs, NEW r \in R
  PROVE  /\ Backlog(R) \in Nat /\ Backlog(R \ {r}) \in Nat /\ Cardinality(Awaited(r)) \in Nat
         /\ Backlog(R \ {r}) + 1 <= Backlog(R)
         /\ IsSource(r) => Backlog(R \ {r}) + Cardinality(Awaited(r)) <= Backlog(R)
<1> DEFINE Q == R \ {r}
<1>1. /\ Backlog(R) = Cardinality(Singles(R)) + Cardinality(Pairs(R))
      /\ \A x, s : <<x, s>> \in Pairs(R) <=> x \in R /\ IsSource(x) /\ s \in Awaited(x)
      /\ \A x \in Pairs(R) : \E y, s : x = <<y, s>>
      /\ \A x : x \in Singles(R) <=> x \in R /\ ~(IsSource(x) /\ Awaited(x) # {})
  BY BacklogCounts
<1>2. /\ Backlog(Q) = Cardinality(Singles(Q)) + Cardinality(Pairs(Q))
      /\ \A x, s : <<x, s>> \in Pairs(Q) <=> x \in Q /\ IsSource(x) /\ s \in Awaited(x)
      /\ \A x \in Pairs(Q) : \E y, s : x = <<y, s>>
      /\ \A x : x \in Singles(Q) <=> x \in Q /\ ~(IsSource(x) /\ Awaited(x) # {})
  BY BacklogCounts
<1>3. Q \in SUBSET Runs
  OBVIOUS
<1>4. /\ IsFiniteSet(Singles(R)) /\ IsFiniteSet(Pairs(R)) /\ IsFiniteSet(Awaited(r))
      /\ IsFiniteSet(Singles(Q)) /\ IsFiniteSet(Pairs(Q))
  BY <1>3, BacklogFinite
<1>count. /\ Backlog(R) = Cardinality(Singles(R)) + Cardinality(Pairs(R))
          /\ Backlog(Q) = Cardinality(Singles(Q)) + Cardinality(Pairs(Q))
  BY BacklogCounts
<1> HIDE DEF Q
<1>5. /\ Cardinality(Singles(R)) \in Nat /\ Cardinality(Pairs(R)) \in Nat
      /\ Cardinality(Singles(Q)) \in Nat /\ Cardinality(Pairs(Q)) \in Nat
      /\ Cardinality(Awaited(r)) \in Nat
  BY <1>4, FS_CardinalityType
<1>6. CASE ~(IsSource(r) /\ Awaited(r) # {})
  <2>1. r \in Singles(R) /\ Singles(Q) = Singles(R) \ {r}
    BY <1>1, <1>2, <1>6 DEF Q
  <2>2. Cardinality(Singles(Q)) = Cardinality(Singles(R)) - 1
    BY <1>4, <2>1, FS_RemoveElement
  <2>3. Pairs(Q) \subseteq Pairs(R)
    <3>1. ASSUME NEW x \in Pairs(Q) PROVE x \in Pairs(R)
      <4>1. PICK y, s : x = <<y, s>>
        BY <1>2
      <4> QED BY <1>1, <1>2, <4>1 DEF Q
    <3> QED BY <3>1
  <2>4. Cardinality(Pairs(Q)) <= Cardinality(Pairs(R))
    BY <1>4, <2>3, FS_Subset
  <2>5. IsSource(r) => Cardinality(Awaited(r)) = 0
    BY <1>6, FS_EmptySet
  <2>6. /\ Backlog(R) \in Nat /\ Backlog(Q) \in Nat /\ Backlog(Q) + 1 <= Backlog(R)
    BY <1>count, <1>5, <2>2, <2>4
  <2>7. IsSource(r) => Backlog(Q) + Cardinality(Awaited(r)) <= Backlog(R)
    BY <2>5, <2>6
  <2> QED BY <1>5, <2>6, <2>7 DEF Q
<1>7. CASE IsSource(r) /\ Awaited(r) # {}
  <2> DEFINE mine == {<<r, s>> : s \in Awaited(r)}
             f == [s \in Awaited(r) |-> <<r, s>>]
  <2>1. Singles(Q) = Singles(R)
    BY <1>1, <1>2, <1>7 DEF Q
  <2>2. mine \subseteq Pairs(R) /\ Pairs(R) = Pairs(Q) \cup mine
    <3>1. \A x \in mine : x \in Pairs(R)
      BY <1>1, <1>7
    <3>2. ASSUME NEW x \in Pairs(R) PROVE x \in Pairs(Q) \cup mine
      <4>1. PICK y, s : x = <<y, s>>
        BY <1>1
      <4>2. y \in R /\ IsSource(y) /\ s \in Awaited(y)
        BY <1>1, <4>1
      <4> QED BY <1>2, <4>1, <4>2 DEF Q
    <3>3. ASSUME NEW x \in Pairs(Q) PROVE x \in Pairs(R)
      <4>1. PICK y, s : x = <<y, s>>
        BY <1>2
      <4> QED BY <1>1, <1>2, <4>1 DEF Q
    <3> QED BY <3>1, <3>2, <3>3
  <2>3. Pairs(Q) \cap mine = {}
    <3>1. \A x \in mine : x \notin Pairs(Q)
      BY <1>2 DEF Q
    <3> QED BY <3>1
  <2>4. f \in Injection(Awaited(r), mine)
    <3>1. f \in [Awaited(r) -> mine]
      OBVIOUS
    <3>2. \A s, t \in Awaited(r) : f[s] = f[t] => s = t
      OBVIOUS
    <3> HIDE DEF f, mine
    <3> QED BY <3>1, <3>2 DEF Injection, IsInjective
  <2>5. IsFiniteSet(mine)
    BY <1>4, <2>2, FS_Subset
  <2>6. Cardinality(Awaited(r)) <= Cardinality(mine) /\ Cardinality(mine) \in Nat
    BY <2>4, <2>5, FS_Injection, FS_CardinalityType
  <2> HIDE DEF mine
  <2>7. Cardinality(Pairs(R)) = Cardinality(Pairs(Q)) + Cardinality(mine)
    <3>1. Cardinality(Pairs(Q) \cup mine)
            = Cardinality(Pairs(Q)) + Cardinality(mine) - Cardinality(Pairs(Q) \cap mine)
      BY <1>4, <2>5, FS_Union
    <3>2. Cardinality(Pairs(Q) \cap mine) = 0
      BY <2>3, FS_EmptySet
    <3> QED BY <1>5, <2>2, <2>6, <3>1, <3>2
  <2>8. Cardinality(Awaited(r)) # 0
    BY <1>4, <1>7, FS_EmptySet
  <2>9. /\ Backlog(R) \in Nat /\ Backlog(Q) \in Nat
        /\ Backlog(Q) + Cardinality(Awaited(r)) <= Backlog(R) /\ Backlog(Q) + 1 <= Backlog(R)
    BY <1>count, <1>5, <2>1, <2>6, <2>7, <2>8
  <2> QED BY <1>5, <2>9 DEF Q
<1> QED BY <1>6, <1>7

LEMMA LiveRunsAreRuns == LiveRuns \in SUBSET Runs
BY DEF LiveRuns

\* Every live run counts as before.
LEMMA NoHeavier ==
  ASSUME FiniteRows, Bounded, \A r \in Runs : Live(r)' => Counts(r, LiveRuns)
  PROVE  Bounded'
<1>1. IsFiniteSet({}) /\ Cardinality({}) = 0
  BY FS_EmptySet
<1>2. /\ Backlog(LiveRuns)' <= Backlog(LiveRuns) + 0 + 0
      /\ Backlog(LiveRuns)' \in Nat /\ Backlog(LiveRuns) \in Nat
  BY <1>1, LiveRunsAreRuns, BacklogStep
<1> QED BY <1>2, SharingAssumption DEF Bounded

\* One run counts once, whatever it did before; or one pair is new.
LEMMA OneHeavier ==
  ASSUME FiniteRows, Bounded, NEW p \in Runs, NEW y,
         Admitted \/ (p \in LiveRuns /\ Awaited(p) = {} /\ Awaited(p)' = {y}),
         \A r \in Runs \ {p} : Live(r)' => Counts(r, LiveRuns),
         IsSource(p)', Awaited(p)' = Awaited(p) \cup {y},
         p \in LiveRuns => IsSource(p), p \notin LiveRuns => Awaited(p) = {}
  PROVE  Bounded'
<1> DEFINE B == {<<p, y>>}
<1>1. /\ IsFiniteSet({}) /\ Cardinality({}) = 0 /\ IsFiniteSet(B) /\ Cardinality(B) = 1
  BY FS_EmptySet, FS_Singleton
<1>2. LiveRuns \in SUBSET Runs /\ LiveRuns \ {p} \in SUBSET Runs
  BY LiveRunsAreRuns
<1>3. CASE Admitted
  <2>1. \A s \in Awaited(p)' : <<p, s>> \in B \/ <<p, s>> \in Pairs(LiveRuns)
    BY BacklogCounts
  <2>2. \A r \in Runs : Live(r)' =>
           \/ Counts(r, LiveRuns)
           \/ r \in {} /\ ~(IsSource(r)' /\ Awaited(r)' # {})
           \/ /\ IsSource(r)' /\ Awaited(r)' # {}
              /\ \A s \in Awaited(r)' : <<r, s>> \in B \/ <<r, s>> \in Pairs(LiveRuns)
    BY <2>1
  <2> HIDE DEF B
  <2>3. /\ Backlog(LiveRuns)' <= Backlog(LiveRuns) + Cardinality({}) + Cardinality(B)
        /\ Backlog(LiveRuns)' \in Nat /\ Backlog(LiveRuns) \in Nat
    BY <1>1, <1>2, <2>2, BacklogStep
  <2> QED BY <1>1, <1>3, <2>3, SharingAssumption DEF Bounded, Admitted
<1>4. CASE p \in LiveRuns /\ Awaited(p) = {} /\ Awaited(p)' = {y}
  <2>2. \A r \in Runs : Live(r)' =>
           \/ Counts(r, LiveRuns \ {p})
           \/ r \in {} /\ ~(IsSource(r)' /\ Awaited(r)' # {})
           \/ /\ IsSource(r)' /\ Awaited(r)' # {}
              /\ \A s \in Awaited(r)' : <<r, s>> \in B \/ <<r, s>> \in Pairs(LiveRuns \ {p})
    BY <1>4 DEF Counts
  <2> HIDE DEF B
  <2>3. /\ Backlog(LiveRuns)' <= Backlog(LiveRuns \ {p}) + Cardinality({}) + Cardinality(B)
        /\ Backlog(LiveRuns)' \in Nat /\ Backlog(LiveRuns \ {p}) \in Nat
    BY <1>1, <1>2, <2>2, BacklogStep
  <2>4. Backlog(LiveRuns \ {p}) + 1 <= Backlog(LiveRuns) /\ Backlog(LiveRuns) \in Nat
    BY <1>2, <1>4, BacklogWithout
  <2> QED BY <1>1, <2>3, <2>4, SharingAssumption DEF Bounded
<1> QED BY <1>3, <1>4

\* Requests that neither begin nor cease to wait for r leave what it counts for.
LEMMA SameAwaited ==
  ASSUME NEW r \in Runs,
         \A q \in Requests :
           \/ request'[q] = request[q]
           \/ /\ ~(request[q].active = r /\ request[q].status = "waiting_source")
              /\ ~(request'[q].active = r /\ request'[q].status = "waiting_source")
  PROVE  Awaited(r)' = Awaited(r)
<1>1. /\ \A q \in Waiting(r) : q \in Waiting(r)' /\ request'[q].spec = request[q].spec
      /\ \A q \in Waiting(r)' : q \in Waiting(r) /\ request'[q].spec = request[q].spec
  BY DEF Waiting
<1> QED BY <1>1 DEF Awaited, SpecsOf

\* A request begins to wait for p.
LEMMA OneWaits ==
  ASSUME SharingInv, NoLateRefusal, NEW q \in Requests, NEW source \in Sources, NEW spec \in Specs,
         NEW p \in Runs, NEW s \in Snapshots \cup {NoSnapshot}, request[q].status = "none",
         request' = [request EXCEPT ![q] = NewRow(source, spec, p, s)]
  PROVE  /\ Awaited(p)' = Awaited(p) \cup {spec}
         /\ \A r \in Runs \ {p} : Awaited(r)' = Awaited(r)
         /\ NoLateRefusal'
<1>1. request \in [Requests -> Rows]
  BY DEF SharingInv, TypeOK
<1>2. /\ request'[q] = NewRow(source, spec, p, s)
      /\ \A x \in Requests \ {q} : request'[x] = request[x]
  BY <1>1
<1>3. /\ request'[q].status = "waiting_source" /\ request'[q].active = p
      /\ request'[q].spec = spec /\ request'[q].failure = "none"
  BY <1>2 DEF NewRow
<1>4. Awaited(p)' = Awaited(p) \cup {spec}
  <2>1. Waiting(p)' = Waiting(p) \cup {q} /\ q \notin Waiting(p)
    BY <1>2, <1>3 DEF Waiting
  <2>2. \A x \in Waiting(p) : request'[x].spec = request[x].spec
    BY <1>2, <2>1 DEF Waiting
  <2> QED BY <1>3, <2>1, <2>2 DEF Awaited, SpecsOf
<1>5. ASSUME NEW r \in Runs \ {p} PROVE Awaited(r)' = Awaited(r)
  BY <1>2, <1>3, SameAwaited
<1>6. NoLateRefusal'
  BY <1>2, <1>3 DEF NoLateRefusal
<1> QED BY <1>4, <1>5, <1>6

\* Nobody waits for what is not live.
LEMMA NobodyWaits ==
  ASSUME SharingInv, NEW r \in Runs, ~(Live(r) /\ IsSource(r))
  PROVE  Awaited(r) = {}
BY DEF SharingInv, Served, Awaited, SpecsOf, Waiting, Open, OpenStatuses, Live

\* A request joins a source run.
LEMMA JoinBounded ==
  ASSUME FiniteRows, SharingInv, Bounded, NoLateRefusal,
         NEW q \in Requests, NEW source \in Sources, NEW spec \in Specs, NEW pinned,
         request[q].status = "none", JoinSource(q, source, spec, pinned)
  PROVE  Bounded' /\ NoLateRefusal'
<1>1. PICK p \in Found(source, pinned) :
        /\ job[p].status = "live" /\ SubscriberAdmitted(p, spec)
        /\ request' = [request EXCEPT ![q] = NewRow(source, spec, p, SnapshotOf(p))]
        /\ job' = job
  BY DEF JoinSource
<1>2. p \in Runs /\ IsSource(p)
  <2>1. CASE p \in Preparing(source)
    BY <2>1 DEF Preparing, IsSource, SourceKinds
  <2>2. CASE \E s \in ToRestore(source, pinned) : p \in Restoring(s)
    BY <2>2 DEF Restoring, IsSource, SourceKinds
  <2> QED BY <1>1, <2>1, <2>2 DEF Found
<1>3. SnapshotOf(p) \in Snapshots \cup {NoSnapshot}
  BY <1>2 DEF SnapshotOf, SharingInv, TypeOK, Jobs
<1>4. /\ Awaited(p)' = Awaited(p) \cup {spec}
      /\ \A r \in Runs \ {p} : Awaited(r)' = Awaited(r)
      /\ NoLateRefusal'
  BY <1>1, <1>2, <1>3, OneWaits
<1>5. /\ p \in LiveRuns /\ IsSource(p)'
      /\ \A r \in Runs : Live(r)' = Live(r) /\ IsSource(r)' = IsSource(r)
  BY <1>1, <1>2 DEF LiveRuns, Live, IsSource
<1>6. \A r \in Runs \ {p} : Live(r)' => Counts(r, LiveRuns)
  BY <1>4, <1>5 DEF Counts, LiveRuns
<1>7. CASE spec \in Awaited(p)
  <2>1. Live(p)' => Counts(p, LiveRuns)
    BY <1>2, <1>4, <1>5, <1>7 DEF Counts
  <2>2. \A r \in Runs : Live(r)' => Counts(r, LiveRuns)
    BY <1>6, <2>1
  <2> QED BY <1>4, <2>2, NoHeavier
<1>8. CASE Awaited(p) = {} \/ Admitted
  <2>1. Admitted \/ (p \in LiveRuns /\ Awaited(p) = {} /\ Awaited(p)' = {spec})
    BY <1>4, <1>5, <1>8
  <2> QED BY <1>2, <1>4, <1>5, <1>6, <2>1, OneHeavier
<1> QED BY <1>1, <1>7, <1>8 DEF SubscriberAdmitted, Awaited, SpecsOf

\* A source run is started.
LEMMA StartBounded ==
  ASSUME FiniteRows, SharingInv, Bounded, NoLateRefusal,
         NEW q \in Requests, NEW source \in Sources, NEW spec \in Specs, NEW pinned,
         request[q].status = "none",
         StartRestore(q, source, spec, pinned) \/ StartPrepare(q, source, spec, pinned)
  PROVE  Bounded' /\ NoLateRefusal'
<1>1. PICK p \in Runs, s \in Snapshots \cup {NoSnapshot}, kind \in SourceKinds :
        /\ Admitted /\ NoJob(p)
        /\ job' = [job EXCEPT ![p] = SourceJob(kind, source, s)]
        /\ request' = [request EXCEPT ![q] = NewRow(source, spec, p, s)]
  <2>1. CASE StartRestore(q, source, spec, pinned)
    <3>1. PICK s \in ToRestore(source, pinned), p \in Runs :
            /\ NoJob(p)
            /\ job' = [job EXCEPT ![p] = SourceJob("restore", source, s)]
            /\ request' = [request EXCEPT ![q] = NewRow(source, spec, p, s)]
      BY <2>1 DEF StartRestore
    <3>2. PICK i \in Ingested(source, pinned) : s = job[i].snapshot
      BY <3>1 DEF ToRestore, Retained
    <3>3. s \in Snapshots \cup {NoSnapshot}
      BY <3>2 DEF Ingested, SharingInv, TypeOK, Jobs
    <3> QED BY <2>1, <3>1, <3>3 DEF StartRestore, SourceKinds
  <2>2. CASE StartPrepare(q, source, spec, pinned)
    BY <2>2 DEF StartPrepare, SourceKinds
  <2> QED BY <2>1, <2>2
<1>2. /\ Awaited(p)' = Awaited(p) \cup {spec}
      /\ \A r \in Runs \ {p} : Awaited(r)' = Awaited(r)
      /\ NoLateRefusal'
  BY <1>1, OneWaits
<1>3. job'[p].kind \in SourceKinds /\ \A r \in Runs \ {p} : job'[r] = job[r]
  BY <1>1 DEF SourceJob, SharingInv, TypeOK
<1>4. p \notin LiveRuns /\ Awaited(p) = {} /\ IsSource(p)'
  BY <1>1, <1>3, NobodyWaits DEF LiveRuns, NoJob, Live, IsSource
<1>5. \A r \in Runs \ {p} : Live(r)' => Counts(r, LiveRuns)
  BY <1>2, <1>3 DEF Counts, LiveRuns, Live, IsSource
<1> QED BY <1>1, <1>2, <1>4, <1>5, OneHeavier

\* The runs that Prepared creates for the specifications S.
NewArticles(serve, S, s) == {serve[spec] : spec \in ToCreate(S, s)}

\* There are no more new runs than specifications that need one.
LEMMA NewArticlesCount ==
  ASSUME NEW S, IsFiniteSet(S), NEW s, NEW serve \in Servings(S, s)
  PROVE  /\ IsFiniteSet(ToCreate(S, s)) /\ IsFiniteSet(NewArticles(serve, S, s))
         /\ Cardinality(NewArticles(serve, S, s)) <= Cardinality(ToCreate(S, s))
         /\ Cardinality(ToCreate(S, s)) <= Cardinality(S)
<1> DEFINE T == ToCreate(S, s)
           f == [spec \in T |-> serve[spec]]
<1>1. f \in Surjection(T, NewArticles(serve, S, s))
  BY DEF Surjection, NewArticles
<1>2. T \in SUBSET S
  BY DEF ToCreate
<1> HIDE DEF f
<1> QED BY <1>1, <1>2, FS_Subset, FS_Surjection

\* The runs that are new once a source is prepared are articles.
LEMMA PreparedCreates ==
  ASSUME NEW p \in Runs, NEW s, NEW Q \in SUBSET Requests, NEW rows \in [Q -> Rows],
         NEW S, S = {rows[q].spec : q \in Q}, NEW serve \in Servings(S, s),
         job' = Prepared(p, s, serve, rows)
  PROVE  \A r \in Runs \ {p} :
           \/ job'[r] = job[r]
           \/ NoJob(r) /\ r \in NewArticles(serve, S, s) /\ job'[r].kind = "article"
<1>1. \A spec \in S : NoJob(serve[spec]) => spec \in ToCreate(S, s)
  BY DEF Servings, ToCreate, Reusable, Underway, NoJob, Live
<1>2. SUFFICES ASSUME NEW r \in Runs \ {p}, job'[r] # job[r]
               PROVE  NoJob(r) /\ r \in NewArticles(serve, S, s) /\ job'[r].kind = "article"
  OBVIOUS
<1>3. NoJob(r) /\ \E q \in DOMAIN rows : serve[rows[q].spec] = r
  BY <1>2 DEF Prepared
<1>4. job'[r] = ArticleJob(rows[CHOOSE q \in DOMAIN rows : serve[rows[q].spec] = r], s)
  BY <1>3 DEF Prepared
<1>5. job'[r].kind = "article"
  BY <1>4 DEF ArticleJob
<1>6. DOMAIN rows = Q
  OBVIOUS
<1>7. PICK q \in Q : serve[rows[q].spec] = r
  BY <1>3, <1>6
<1>8. rows[q].spec \in ToCreate(S, s)
  BY <1>1, <1>3, <1>7
<1>9. r \in NewArticles(serve, S, s)
  BY <1>7, <1>8 DEF NewArticles
<1> QED BY <1>3, <1>5, <1>9

\* The articles of a source that is over, or was, take the place of what waited.
LEMMA BindBounded ==
  ASSUME FiniteRows, Bounded, NEW R \in SUBSET LiveRuns, NEW A, IsFiniteSet(A),
         Backlog(R) + Cardinality(A) <= MaxPending,
         \A r \in Runs : Live(r)' => Counts(r, R) \/ (r \in A /\ ~IsSource(r)')
  PROVE  Bounded'
<1>1. IsFiniteSet({}) /\ Cardinality({}) = 0 /\ R \in SUBSET Runs
  BY FS_EmptySet DEF LiveRuns
<1>2. /\ Backlog(LiveRuns)' <= Backlog(R) + Cardinality(A) + 0 /\ Backlog(LiveRuns)' \in Nat
      /\ Backlog(R) \in Nat /\ Cardinality(A) \in Nat
  BY <1>1, BacklogStep
<1> QED BY <1>2, SharingAssumption DEF Bounded

\* A source is prepared, and the articles that waited for it get their runs.
LEMMA FinishBounded ==
  ASSUME FiniteRows, SharingInv, Bounded, NoLateRefusal,
         NEW p \in Runs, NEW s \in Snapshots, FinishSource(p, s)
  PROVE  Bounded' /\ NoLateRefusal'
<1> DEFINE Q == Waiting(p)
           S == SpecsOf(Q)
           rows == [q \in Q |-> request[q]]
           R == LiveRuns \ {p}
<1>1. Q \in SUBSET Requests /\ rows \in [Q -> Rows] /\ S = {rows[q].spec : q \in Q}
  BY DEF Waiting, SharingInv, TypeOK, SpecsOf
<1>2. PICK serve \in Servings(S, s) :
        /\ job' = Prepared(p, s, serve, rows)
        /\ request' = [q \in Requests |->
             IF q \in Q THEN BoundRow(request[q], s, serve[request[q].spec]) ELSE request[q]]
  BY DEF FinishSource
<1>3. S = Awaited(p) /\ IsFiniteSet(S) /\ ~Overrun(p, s)
  <2>1. S = Awaited(p)
    BY DEF Awaited
  <2> QED BY <2>1, BacklogFinite DEF FinishSource
<1> DEFINE A == NewArticles(serve, S, s)
<1>4. /\ IsFiniteSet(A) /\ Cardinality(A) <= Cardinality(ToCreate(S, s))
      /\ IsFiniteSet(ToCreate(S, s))
  BY <1>3, NewArticlesCount
<1>5. \A r \in Runs \ {p} :
        \/ job'[r] = job[r]
        \/ NoJob(r) /\ r \in A /\ job'[r].kind = "article"
  <2> HIDE DEF rows, S, A
  <2> QED BY <1>1, <1>2, PreparedCreates DEF A
<1>6. ASSUME NEW q \in Requests
      PROVE  /\ request'[q] = request[q] \/ (q \in Q /\ request'[q].status # "waiting_source")
             /\ request'[q].failure = request[q].failure
  <2>1. request[q] \in Rows
    BY DEF SharingInv, TypeOK
  <2>2. CASE q \in Q
    <3>1. request'[q] = BoundRow(request[q], s, serve[request[q].spec])
      BY <1>2, <2>2
    <3> QED BY <2>1, <2>2, <3>1 DEF BoundRow, Rows
  <2>3. CASE q \notin Q
    BY <1>2, <2>3
  <2> QED BY <2>2, <2>3
<1>7. NoLateRefusal'
  BY <1>6 DEF NoLateRefusal
<1>8. \A r \in Runs \ {p} : Awaited(r)' = Awaited(r)
  BY <1>6, SameAwaited DEF Waiting
<1>9. p \in LiveRuns /\ R \in SUBSET LiveRuns
  BY DEF FinishSource, LiveRuns, Live
<1>10. ~Live(p)'
  BY <1>2, <1>9 DEF Prepared, Live, SharingInv, TypeOK, Jobs
<1>11. \A r \in Runs : Live(r)' => Counts(r, R) \/ (r \in A /\ ~IsSource(r)')
  <2>1. ASSUME NEW r \in Runs \ {p}, job'[r] = job[r], Live(r)' PROVE Counts(r, R)
    BY <1>8, <2>1 DEF Counts, LiveRuns, Live, IsSource
  <2>2. ASSUME NEW r \in Runs \ {p}, r \in A, job'[r].kind = "article" PROVE ~IsSource(r)'
    BY <2>2 DEF IsSource, SourceKinds
  <2> HIDE DEF A, R
  <2> QED BY <1>5, <1>10, <2>1, <2>2
<1>12. /\ Backlog(LiveRuns) \in Nat /\ Backlog(R) \in Nat /\ Backlog(R) + 1 <= Backlog(LiveRuns)
  BY <1>9, LiveRunsAreRuns, BacklogWithout
<1>13. Backlog(R) + Cardinality(A) <= MaxPending
  <2>1. Cardinality(A) \in Nat /\ Cardinality(ToCreate(S, s)) \in Nat
    BY <1>4, FS_CardinalityType
  <2>2. CASE ToCreate(S, s) = {}
    <3>1. Cardinality(A) = 0
      BY <2>1, <2>2, <1>4, FS_EmptySet
    <3> QED BY <1>12, <3>1, SharingAssumption DEF Bounded
  <2>3. CASE ToCreate(S, s) # {}
    <3>1. Backlog(R) + Cardinality(ToCreate(S, s)) <= MaxPending
      <4>1. ~(Backlog(R) + Cardinality(ToCreate(S, s)) > MaxPending)
        BY <1>3, <2>3 DEF Overrun
      <4> HIDE DEF R, S
      <4> QED BY <1>12, <2>1, <4>1, SharingAssumption
    <3> HIDE DEF R, S, A
    <3> QED BY <1>4, <1>12, <2>1, <3>1, SharingAssumption
  <2> QED BY <2>2, <2>3
<1> HIDE DEF R, A
<1> QED BY <1>4, <1>7, <1>9, <1>11, <1>13, BindBounded

\* A request for a source that is prepared gets its article or its run.
LEMMA BindAtOnceBounded ==
  ASSUME FiniteRows, SharingInv, Bounded, NoLateRefusal,
         NEW q \in Requests, NEW source \in Sources, NEW spec \in Specs, NEW pinned,
         request[q].status = "none", BindAtOnce(q, source, spec, pinned)
  PROVE  Bounded' /\ NoLateRefusal'
<1>1. PICK p \in Ready(source, pinned) :
        \E serve \in Servings({spec}, job[p].snapshot) :
          LET row == NewRow(source, spec, p, NoSnapshot)
          IN  /\ ToCreate({spec}, job[p].snapshot) # {} => Admitted
              /\ job' = Prepared(p, job[p].snapshot, serve, [x \in {q} |-> row])
              /\ request' = [request EXCEPT ![q] = BoundRow(row, job[p].snapshot, serve[spec])]
  BY DEF BindAtOnce
<1> DEFINE s == job[p].snapshot
           row == NewRow(source, spec, p, NoSnapshot)
           rows == [x \in {q} |-> row]
           S == {spec}
<1>2. PICK serve \in Servings(S, s) :
        /\ ToCreate(S, s) # {} => Admitted
        /\ job' = Prepared(p, s, serve, rows)
        /\ request' = [request EXCEPT ![q] = BoundRow(row, s, serve[spec])]
  BY <1>1
<1>3. p \in Runs /\ job[p].status = "succeeded"
  BY DEF Ready, Ingested
<1>4. row \in Rows /\ row.spec = spec /\ row.failure = "none"
  BY <1>3, NewRowType DEF NewRow
<1> HIDE DEF s, row
<1>5. rows \in [{q} -> Rows] /\ S = {rows[x].spec : x \in {q}}
  BY <1>4
<1> DEFINE A == NewArticles(serve, S, s)
<1>6. IsFiniteSet(S) /\ Cardinality(S) = 1
  BY FS_Singleton
<1> HIDE DEF S, rows
<1>7. /\ IsFiniteSet(A) /\ Cardinality(A) <= Cardinality(ToCreate(S, s))
      /\ IsFiniteSet(ToCreate(S, s)) /\ Cardinality(ToCreate(S, s)) <= 1
  BY <1>6, NewArticlesCount
<1>8. \A r \in Runs \ {p} :
        \/ job'[r] = job[r]
        \/ NoJob(r) /\ r \in A /\ job'[r].kind = "article"
  <2>1. {q} \in SUBSET Requests
    OBVIOUS
  <2> QED BY <1>2, <1>3, <1>5, <2>1, PreparedCreates
<1>9. /\ request'[q].failure = "none" /\ request'[q].status # "waiting_source"
      /\ \A x \in Requests \ {q} : request'[x] = request[x]
  BY <1>2, <1>4 DEF BoundRow, Rows, SharingInv, TypeOK
<1>10. NoLateRefusal'
  BY <1>9 DEF NoLateRefusal
<1>11. \A r \in Runs : Awaited(r)' = Awaited(r)
  BY <1>9, SameAwaited
<1>12. ~Live(p)'
  BY <1>2, <1>3 DEF Prepared, Live, SharingInv, TypeOK, Jobs
<1>13. \A r \in Runs : Live(r)' => Counts(r, LiveRuns) \/ (r \in A /\ ~IsSource(r)')
  <2>1. ASSUME NEW r \in Runs \ {p}, job'[r] = job[r], Live(r)' PROVE Counts(r, LiveRuns)
    BY <1>11, <2>1 DEF Counts, LiveRuns, Live, IsSource
  <2>2. ASSUME NEW r \in Runs \ {p}, r \in A, job'[r].kind = "article" PROVE ~IsSource(r)'
    BY <2>2 DEF IsSource, SourceKinds
  <2> HIDE DEF A
  <2> QED BY <1>8, <1>12, <2>1, <2>2
<1>14. Backlog(LiveRuns) \in Nat
  <2>1. IsFiniteSet(Singles(LiveRuns)) /\ IsFiniteSet(Pairs(LiveRuns))
    BY LiveRunsAreRuns, BacklogFinite
  <2>2. Cardinality(Singles(LiveRuns)) \in Nat /\ Cardinality(Pairs(LiveRuns)) \in Nat
    BY <2>1, FS_CardinalityType
  <2>3. Backlog(LiveRuns) = Cardinality(Singles(LiveRuns)) + Cardinality(Pairs(LiveRuns))
    BY BacklogCounts
  <2> QED BY <2>2, <2>3
<1>15. Backlog(LiveRuns) + Cardinality(A) <= MaxPending
  <2>1. Cardinality(A) \in Nat /\ Cardinality(ToCreate(S, s)) \in Nat
    BY <1>7, FS_CardinalityType
  <2>2. CASE ToCreate(S, s) = {}
    <3>1. Cardinality(A) = 0
      BY <2>1, <2>2, <1>7, FS_EmptySet
    <3> HIDE DEF A
    <3> QED BY <1>14, <3>1, SharingAssumption DEF Bounded
  <2>3. CASE ToCreate(S, s) # {}
    <3>1. Backlog(LiveRuns) < MaxPending
      BY <1>2, <2>3 DEF Admitted
    <3> HIDE DEF A
    <3> QED BY <1>7, <1>14, <2>1, <3>1, SharingAssumption
  <2> QED BY <2>2, <2>3
<1> HIDE DEF A
<1> QED BY <1>7, <1>10, <1>13, <1>15, BindBounded

\* A run that is waited for by fewer, and may be over.
LEMMA Lighter ==
  ASSUME FiniteRows, Bounded, NEW p \in LiveRuns,
         \A r \in Runs \ {p} : Live(r)' => Counts(r, LiveRuns),
         IsSource(p)' = IsSource(p), Awaited(p)' \subseteq Awaited(p)
  PROVE  Bounded'
<1> DEFINE A == {p}
           R == LiveRuns \ {p}
<1>1. /\ IsFiniteSet({}) /\ Cardinality({}) = 0 /\ IsFiniteSet(A) /\ Cardinality(A) = 1
  BY FS_EmptySet, FS_Singleton
<1>2. LiveRuns \in SUBSET Runs /\ R \in SUBSET Runs
  BY LiveRunsAreRuns
<1>3. /\ Backlog(R) + 1 <= Backlog(LiveRuns) /\ Backlog(LiveRuns) \in Nat /\ Backlog(R) \in Nat
  BY <1>2, BacklogWithout
<1>4. CASE IsSource(p)' /\ Awaited(p)' # {}
  <2>1. \A s \in Awaited(p)' : <<p, s>> \in Pairs(LiveRuns)
    BY <1>4, BacklogCounts
  <2>2. \A r \in Runs : Live(r)' =>
           \/ Counts(r, LiveRuns)
           \/ r \in {} /\ ~(IsSource(r)' /\ Awaited(r)' # {})
           \/ /\ IsSource(r)' /\ Awaited(r)' # {}
              /\ \A s \in Awaited(r)' : <<r, s>> \in {} \/ <<r, s>> \in Pairs(LiveRuns)
    BY <1>4, <2>1
  <2>3. /\ Backlog(LiveRuns)' <= Backlog(LiveRuns) + Cardinality({}) + Cardinality({})
        /\ Backlog(LiveRuns)' \in Nat
    BY <1>1, <1>2, <2>2, BacklogStep
  <2> QED BY <1>1, <1>3, <2>3, SharingAssumption DEF Bounded
<1>5. CASE ~(IsSource(p)' /\ Awaited(p)' # {})
  <2>1. \A r \in Runs : Live(r)' =>
           \/ Counts(r, R)
           \/ r \in A /\ ~(IsSource(r)' /\ Awaited(r)' # {})
           \/ /\ IsSource(r)' /\ Awaited(r)' # {}
              /\ \A s \in Awaited(r)' : <<r, s>> \in {} \/ <<r, s>> \in Pairs(R)
    BY <1>5 DEF Counts
  <2> HIDE DEF A, R
  <2>2. /\ Backlog(LiveRuns)' <= Backlog(R) + Cardinality(A) + Cardinality({})
        /\ Backlog(LiveRuns)' \in Nat
    BY <1>1, <1>2, <2>1, BacklogStep
  <2> QED BY <1>1, <1>3, <2>2, SharingAssumption DEF Bounded
<1> QED BY <1>4, <1>5

\* A new run that nobody waits for.
LEMMA OneMore ==
  ASSUME FiniteRows, Bounded, Admitted, NEW p \in Runs, Awaited(p)' = {},
         \A r \in Runs \ {p} : Live(r)' => Counts(r, LiveRuns)
  PROVE  Bounded'
<1> DEFINE A == {p}
<1>1. /\ IsFiniteSet({}) /\ Cardinality({}) = 0 /\ IsFiniteSet(A) /\ Cardinality(A) = 1
  BY FS_EmptySet, FS_Singleton
<1>2. \A r \in Runs : Live(r)' =>
         \/ Counts(r, LiveRuns)
         \/ r \in A /\ ~(IsSource(r)' /\ Awaited(r)' # {})
         \/ /\ IsSource(r)' /\ Awaited(r)' # {}
            /\ \A s \in Awaited(r)' : <<r, s>> \in {} \/ <<r, s>> \in Pairs(LiveRuns)
  OBVIOUS
<1> HIDE DEF A
<1>3. /\ Backlog(LiveRuns)' <= Backlog(LiveRuns) + Cardinality(A) + Cardinality({})
      /\ Backlog(LiveRuns)' \in Nat /\ Backlog(LiveRuns) \in Nat
  BY <1>1, <1>2, LiveRunsAreRuns, BacklogStep
<1> QED BY <1>1, <1>3, SharingAssumption DEF Bounded, Admitted

\* A request is canceled.
LEMMA CancelBounded ==
  ASSUME FiniteRows, SharingInv, Bounded, NoLateRefusal, NEW q \in Requests, CancelRequest(q)
  PROVE  Bounded' /\ NoLateRefusal'
<1>0. PICK p : p = request[q].active
  OBVIOUS
<1>1. p \in Runs /\ p \in LiveRuns
  BY <1>0 DEF CancelRequest, SharingInv, Served, LiveRuns, Live
<1>2. request' = [request EXCEPT ![q] = [request[q] EXCEPT !.status = "canceled", !.active = NoRun]]
  BY DEF CancelRequest
<1>3. job' = job \/ job' = [job EXCEPT ![p] = [job[p] EXCEPT !.status = "stopping"]]
  BY <1>0 DEF CancelRequest
<1>4. request \in [Requests -> Rows] /\ job \in [Runs -> Jobs]
  BY DEF SharingInv, TypeOK
<1>5. /\ request'[q].status = "canceled" /\ request'[q].failure = request[q].failure
      /\ \A x \in Requests \ {q} : request'[x] = request[x]
  BY <1>2, <1>4 DEF Rows
<1>6. NoLateRefusal'
  BY <1>5 DEF NoLateRefusal
<1>7. Awaited(p)' \subseteq Awaited(p)
  <2>1. \A x \in Waiting(p)' : x \in Waiting(p) /\ request'[x].spec = request[x].spec
    BY <1>5 DEF Waiting
  <2> QED BY <2>1 DEF Awaited, SpecsOf
<1>8. \A r \in Runs \ {p} : Awaited(r)' = Awaited(r)
  BY <1>0, <1>5, SameAwaited
<1>9. job'[p].kind = job[p].kind /\ \A r \in Runs \ {p} : job'[r] = job[r]
  BY <1>1, <1>3, <1>4 DEF Jobs
<1>10. IsSource(p)' = IsSource(p)
  BY <1>9 DEF IsSource
<1>11. \A r \in Runs \ {p} : Live(r)' => Counts(r, LiveRuns)
  BY <1>8, <1>9 DEF Counts, LiveRuns, Live, IsSource
<1> QED BY <1>1, <1>6, <1>7, <1>10, <1>11, Lighter

\* Run r is over, and so are the requests that waited for it.
LEMMA TerminateBounded ==
  ASSUME FiniteRows, SharingInv, Bounded, NoLateRefusal, NEW r \in Runs,
         NEW status \in {"failed", "canceled"}, NEW failure, failure # "admission",
         Terminate(r, status, failure)
  PROVE  Bounded' /\ NoLateRefusal'
<1>1. request \in [Requests -> Rows] /\ job \in [Runs -> Jobs]
  BY DEF SharingInv, TypeOK
<1>2. ASSUME NEW q \in Requests
      PROVE  /\ \/ request'[q] = request[q]
                \/ request[q].active = r /\ request'[q].active = r
             /\ request'[q].failure # "admission"
  BY <1>1, <1>2 DEF Terminate, Rows, NoLateRefusal
<1>3. NoLateRefusal'
  BY <1>2 DEF NoLateRefusal
<1>4. ~Live(r)' /\ \A x \in Runs \ {r} : job'[x] = job[x]
  BY <1>1 DEF Terminate, Live, Jobs
<1>5. \A x \in Runs \ {r} : Awaited(x)' = Awaited(x)
  BY <1>2, SameAwaited
<1>6. \A x \in Runs : Live(x)' => Counts(x, LiveRuns)
  BY <1>4, <1>5 DEF Counts, LiveRuns, Live, IsSource
<1> QED BY <1>3, <1>6, NoHeavier

\* What a source run counts for is enough for the articles that wait for it.
LEMMA NeverOverrun ==
  ASSUME FiniteRows, Bounded, NEW p \in LiveRuns, IsSource(p), NEW s
  PROVE  ~Overrun(p, s)
<1> DEFINE new == ToCreate(Awaited(p), s)
           rest == Backlog(LiveRuns \ {p})
<1>1. /\ Backlog(LiveRuns) \in Nat /\ rest \in Nat /\ Cardinality(Awaited(p)) \in Nat
      /\ rest + Cardinality(Awaited(p)) <= Backlog(LiveRuns)
  BY LiveRunsAreRuns, BacklogWithout
<1>2. IsFiniteSet(Awaited(p)) /\ new \subseteq Awaited(p)
  BY LiveRunsAreRuns, BacklogFinite DEF ToCreate
<1> HIDE DEF new, rest
<1>3. IsFiniteSet(new) /\ Cardinality(new) <= Cardinality(Awaited(p))
  BY <1>2, FS_Subset
<1>4. Cardinality(new) \in Nat
  BY <1>3, FS_CardinalityType
<1>5. ~(rest + Cardinality(new) > MaxPending)
  BY <1>1, <1>3, <1>4, SharingAssumption DEF Bounded
<1> QED BY <1>5 DEF Overrun, new, rest, Awaited

\* A run ends.
LEMMA EndsBounded ==
  ASSUME FiniteRows, SharingInv, Bounded, NoLateRefusal, NEW r \in Runs, RunEnds(r)
  PROVE  Bounded' /\ NoLateRefusal'
<1>1. ASSUME NEW s \in Snapshots, FinishSource(r, s) PROVE Bounded' /\ NoLateRefusal'
  BY <1>1, FinishBounded
<1>2. ASSUME NEW s \in Snapshots, FinishRefused(r, s) PROVE Bounded' /\ NoLateRefusal'
  <2>1. r \in LiveRuns /\ IsSource(r)
    BY <1>2 DEF FinishRefused, LiveRuns, Live
  <2>2. ~Overrun(r, s)
    BY <2>1, NeverOverrun
  <2>3. Terminate(r, "failed", "stopping")
    BY <1>2, <2>2 DEF FinishRefused
  <2> QED BY <2>3, TerminateBounded
<1>3. ASSUME Publish(r) PROVE Bounded' /\ NoLateRefusal'
  <2>1. request \in [Requests -> Rows] /\ job \in [Runs -> Jobs]
    BY DEF SharingInv, TypeOK
  <2>2. ASSUME NEW q \in Requests
        PROVE  /\ \/ request'[q] = request[q]
                  \/ request[q].active = r /\ request'[q].active = r
               /\ request'[q].failure = request[q].failure
    BY <1>3, <2>1, <2>2 DEF Publish, Rows
  <2>3. NoLateRefusal'
    BY <2>2 DEF NoLateRefusal
  <2>4. ~Live(r)' /\ \A x \in Runs \ {r} : job'[x] = job[x]
    BY <1>3, <2>1 DEF Publish, Live, Jobs
  <2>5. \A x \in Runs \ {r} : Awaited(x)' = Awaited(x)
    BY <2>2, SameAwaited
  <2>6. \A x \in Runs : Live(x)' => Counts(x, LiveRuns)
    BY <2>4, <2>5 DEF Counts, LiveRuns, Live, IsSource
  <2> QED BY <2>3, <2>6, NoHeavier
<1>4. ASSUME RunFails(r) \/ RunStops(r) PROVE Bounded' /\ NoLateRefusal'
  BY <1>4, TerminateBounded DEF RunFails, RunStops
<1> QED BY <1>1, <1>2, <1>3, <1>4 DEF RunEnds

\* A question begins or ceases to need a restore.
LEMMA QuestionBounded ==
  ASSUME FiniteRows, SharingInv, Bounded, NoLateRefusal, Question
  PROVE  Bounded' /\ NoLateRefusal'
<1>1. request' = request
  BY DEF Question, QuestionWaits, QuestionCanceled, QuestionLeaves
<1>2. NoLateRefusal' /\ \A r \in Runs : Awaited(r)' = Awaited(r)
  BY <1>1 DEF NoLateRefusal, Awaited, SpecsOf, Waiting
<1>3. job \in [Runs -> Jobs]
  BY DEF SharingInv, TypeOK
<1>4. CASE \E r \in Runs : NoJob(r) /\ Admitted /\ \A x \in Runs \ {r} : job'[x] = job[x]
  <2>1. PICK r \in Runs : NoJob(r) /\ Admitted /\ \A x \in Runs \ {r} : job'[x] = job[x]
    BY <1>4
  <2>2. Awaited(r)' = {}
    BY <1>2, <2>1, NobodyWaits DEF NoJob, Live
  <2>3. \A x \in Runs \ {r} : Live(x)' => Counts(x, LiveRuns)
    BY <1>2, <2>1 DEF Counts, LiveRuns, Live, IsSource
  <2> QED BY <1>2, <2>1, <2>2, <2>3, OneMore
<1>5. CASE \A r \in Runs : job'[r].kind = job[r].kind /\ (Live(r)' => Live(r))
  <2>1. \A r \in Runs : Live(r)' => Counts(r, LiveRuns)
    BY <1>2, <1>5 DEF Counts, LiveRuns, IsSource
  <2> QED BY <1>2, <2>1, NoHeavier
<1>6. ASSUME NEW s \in Snapshots, QuestionWaits(s)
      PROVE  \/ \E r \in Runs : NoJob(r) /\ Admitted /\ \A x \in Runs \ {r} : job'[x] = job[x]
             \/ \A r \in Runs : job'[r].kind = job[r].kind /\ (Live(r)' => Live(r))
  BY <1>3, <1>6 DEF QuestionWaits, Live
<1>7. ASSUME NEW r \in Runs, QuestionLeaves(r)
      PROVE  \A x \in Runs : job'[x].kind = job[x].kind /\ (Live(x)' => Live(x))
  <2>1. job' = job \/ (Live(r) /\ job' = [job EXCEPT ![r] = [job[r] EXCEPT !.status = "stopping"]])
    BY <1>7 DEF QuestionLeaves
  <2> QED BY <1>3, <2>1 DEF Live, Jobs
<1>8. ASSUME NEW r \in Runs, QuestionCanceled(r)
      PROVE  \A x \in Runs : job'[x].kind = job[x].kind /\ (Live(x)' => Live(x))
  BY <1>8 DEF QuestionCanceled, Live
<1> QED BY <1>4, <1>5, <1>6, <1>7, <1>8 DEF Question

\* Every step keeps the backlog within its bound, and refuses no article late.
LEMMA StepBounded ==
  ASSUME FiniteRows, SharingInv, Bounded, NoLateRefusal, [Next]_vars
  PROVE  Bounded' /\ NoLateRefusal'
<1>1. ASSUME NEW q \in Requests, NEW source \in Sources, NEW spec \in Specs, NEW pinned,
             request[q].status = "none", Accept(q, source, spec, pinned)
      PROVE  Bounded' /\ NoLateRefusal'
  BY <1>1, JoinBounded, BindAtOnceBounded, StartBounded DEF Accept
<1>2. ASSUME NEW q \in Requests, CreateRequest(q) PROVE Bounded' /\ NoLateRefusal'
  BY <1>1, <1>2 DEF CreateRequest, Specs
<1>3. ASSUME NEW q \in Requests, NEW old \in Requests, RetryRequest(q, old)
      PROVE  Bounded' /\ NoLateRefusal'
  <2>1. request[old].source \in Sources /\ request[old].spec \in Specs
    BY DEF SharingInv, TypeOK, Rows
  <2> QED BY <1>1, <1>3, <2>1 DEF RetryRequest
<1>4. ASSUME MediaLost \/ UNCHANGED vars PROVE Bounded' /\ NoLateRefusal'
  <2>1. job' = job /\ request' = request
    BY <1>4 DEF MediaLost, VideoGone, ImagesGone, vars
  <2>2. \A r \in Runs : Live(r)' => Counts(r, LiveRuns)
    BY <2>1 DEF Counts, LiveRuns, Live, IsSource, Awaited, SpecsOf, Waiting
  <2>3. NoLateRefusal'
    BY <2>1 DEF NoLateRefusal
  <2> QED BY <2>2, <2>3, NoHeavier
<1> QED BY <1>2, <1>3, <1>4, CancelBounded, EndsBounded, QuestionBounded DEF Next, Visitor

\* At first nothing is live.
LEMMA InitBounded ==
  ASSUME FiniteRows, Init
  PROVE  Bounded /\ NoLateRefusal
<1>1. LiveRuns = {}
  BY DEF Init, LiveRuns, Live
<1>2. Singles(LiveRuns) = {} /\ Pairs(LiveRuns) = {}
  BY <1>1 DEF Singles, Pairs, WaitedFor
<1>3. Backlog(LiveRuns) = Cardinality(Singles(LiveRuns)) + Cardinality(Pairs(LiveRuns))
  BY BacklogCounts
<1>4. Backlog(LiveRuns) = 0
  BY <1>2, <1>3, FS_EmptySet
<1> QED BY <1>4, SharingAssumption DEF Bounded, Init, NoLateRefusal

\* Finishing a source cannot fan out beyond the bound: no request that was
\* admitted fails because its article is refused (bindPrepared, admitVideoTask),
\* for any finite tables and any bound.
THEOREM NobodyRefusedLate ==
  ASSUME FiniteRows
  PROVE  Spec => []NoLateRefusal
<1>1. Init => Bounded /\ NoLateRefusal
  BY InitBounded
<1>2. SharingInv /\ (Bounded /\ NoLateRefusal) /\ [Next]_vars => (Bounded /\ NoLateRefusal)'
  BY StepBounded
<1>3. Spec => []SharingInv
  BY SharingInvariant
<1> QED BY <1>1, <1>2, <1>3, PTL DEF Spec

(***************************************************************************)
(* Beside all that must end (ServiceEnds), exports keep what was promised. *)
(***************************************************************************)

\* The proofs about exports, for those of the composition.
Copies == INSTANCE ExportsProofs WITH row <- copy

\* Two instances of one module are the same.
LEMMA CopiesInit ==
  /\ Export!ConstantsOK => Copies!ConstantsOK
  /\ Export!Init => Copies!Init
BY DEF
  Export!ConstantsOK, Copies!ConstantsOK, Export!Init, Copies!Init,
  Export!IsFiniteSet, Copies!IsFiniteSet, Export!NoRow, Copies!NoRow, Export!Files,
  Copies!Files, Export!Absent, Copies!Absent, Export!Idle, Copies!Idle

LEMMA CopiesNext == Export!Next => Copies!Next
BY DEF
  Export!Next, Copies!Next, Export!CreateExport, Copies!CreateExport,
  Export!ReadExpired, Copies!ReadExpired, Export!ClaimExport, Copies!ClaimExport,
  Export!RemoveExpired, Copies!RemoveExpired, Export!AskDownload, Copies!AskDownload,
  Export!Files, Copies!Files, Export!Work, Copies!Work, Export!Crash, Copies!Crash,
  Export!SweepLook, Copies!SweepLook, Export!SweepRemove, Copies!SweepRemove,
  Export!Download, Copies!Download, Export!ServerCrash, Copies!ServerCrash,
  Export!PendingExports, Copies!PendingExports, Export!ExpiredExportFiles,
  Copies!ExpiredExportFiles, Export!Tick, Copies!Tick, Export!LockFree, Copies!LockFree,
  Export!Reusable, Copies!Reusable, Export!Admitted, Copies!Admitted, Export!NoRow,
  Copies!NoRow, Export!Claimable, Copies!Claimable, Export!Lesser, Copies!Lesser,
  Export!Copy, Copies!Copy, Export!Absent, Copies!Absent, Export!Gone, Copies!Gone,
  Export!Idle, Copies!Idle, Export!Place, Copies!Place, Export!FinishReady,
  Copies!FinishReady, Export!FinishRefused, Copies!FinishRefused, Export!Discard,
  Copies!Discard, Export!FinishFailed, Copies!FinishFailed, Export!Sweepable,
  Copies!Sweepable, Export!ExportFileProtected, Copies!ExportFileProtected,
  Export!CheckDownload, Copies!CheckDownload, Export!LeaseDownload,
  Copies!LeaseDownload, Export!OpenDownload, Copies!OpenDownload, Export!EndDownload,
  Copies!EndDownload, Export!Overdue, Copies!Overdue, Export!Removable,
  Copies!Removable, Export!Less, Copies!Less, Export!Live, Copies!Live,
  Export!Cardinality, Copies!Cardinality, Export!SessionOf, Copies!SessionOf,
  Export!Charged, Copies!Charged, Export!Fence, Copies!Fence, Export!FailedRow,
  Copies!FailedRow, Export!PinsKept, Copies!PinsKept, Export!Downloadable,
  Copies!Downloadable, Export!Pending, Copies!Pending, Export!InDownload,
  Copies!InDownload, Export!IsFiniteSet, Copies!IsFiniteSet, Export!Leases,
  Copies!Leases

\* A step of another component leaves exports alone.
LEMMA CopiesStep == [ServiceNext]_serviceVars => [Copies!Next]_Copies!vars
BY CopiesNext DEF ServiceNext, serviceVars, exportVars, Copies!vars

\* Neither the clean-up nor the sweep, which both remove what they listed earlier,
\* removes a copy that a ready row names, beside whatever else goes on
\* (ExpiredExportFiles and ExportFileProtected, exports.go).
THEOREM SparedAmongAll == ServiceSpec => CleanupSparesReady
<1>1. Copies!ConstantsOK
  BY ServiceAssumption, CopiesInit
<1>2. ServiceInit => Copies!ExportsInv
  BY <1>1, CopiesInit, Copies!InitExports DEF ServiceInit
<1>3. Copies!ExportsInv /\ [ServiceNext]_serviceVars => Copies!ExportsInv'
  BY <1>1, CopiesStep, Copies!NextExports
<1>4. Copies!ExportsInv /\ [ServiceNext]_serviceVars => Copies!Spared
  BY <1>1, CopiesStep, Copies!StepSpares DEF Copies!ExportsInv
<1>5. CleanupSparesReady <=> [][Copies!Spared]_exportVars
  BY PTL DEF CleanupSparesReady, Export!CleanupSparesReady, Copies!Spared, exportVars,
             Export!vars, Export!Copy, Copies!Copy, Export!Absent, Copies!Absent
<1> QED BY <1>2, <1>3, <1>4, <1>5, PTL DEF ServiceSpec
=============================================================================

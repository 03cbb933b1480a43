--------------------------- MODULE RequestSharing ---------------------------
(***************************************************************************)
(* How requests share work: internal/store/requests.go, bindPrepared and   *)
(* Publish of artifacts.go, the retained sources of source_reuse.go and    *)
(* the backlog bound of admission.go.                                      *)
(*                                                                         *)
(* A request waits for a source run (a preparation, or the restoration of  *)
(* a video that was deleted), and then for an article run.  Both are       *)
(* shared: a request joins the work that is under way for the same source  *)
(* and for the same interpretation, and a run is stopped when the last     *)
(* request that needs it is canceled.  A question about an article may     *)
(* need a restore, too.                                                    *)
(*                                                                         *)
(* Every operation is one transaction under the advisory lock, hence one   *)
(* step.  A run is reduced to what RunLifecycle shows of it: it is live,   *)
(* being stopped, or over.  A source stands for a video together with its  *)
(* preparation key.  Refusals that change nothing are not steps.           *)
(***************************************************************************)
EXTENDS Naturals, FiniteSets

CONSTANTS
  Requests,       \* identities of generation_requests rows
  Runs,           \* identities of job_runs rows (bound: how many there can be)
  Sources,        \* videos, each with its sourcePreparationKey
  LocalSources,   \* those of the platform "local"
  Snapshots,      \* identities of source_snapshots rows
  SourceOf,       \* SourceOf[s]: source_id of snapshot s
  Retainable,     \* snapshots of complete, anonymous ingestion
  Bases,          \* interpretations asked for: model, purpose, level of detail
  MaxPending,     \* maxPendingVideoTasks
  NoRun, NoRequest, NoSnapshot

ASSUME SharingAssumption ==
  /\ Sources # {} /\ Bases # {} /\ LocalSources \subseteq Sources
  /\ SourceOf \in [Snapshots -> Sources] /\ Retainable \subseteq Snapshots
  /\ MaxPending \in Nat
  /\ NoRun \notin Runs /\ NoRequest \notin Requests /\ NoSnapshot \notin Snapshots

\* A GenerationSpec.  FreshArticleID, new for each "regenerate" and kept by
\* its retries, is named by the request that introduced it.
Specs == [base : Bases, fresh : Requests \cup {NoRequest}]

SourceKinds == {"prepare", "restore"}
OpenStatuses == {"waiting_source", "generating"}
Failures == {"none", "work", "stopping", "admission"}

VARIABLES
  job,          \* job_runs rows, without questions
  request,      \* generation_requests rows
  awaited,      \* a question with status waiting_dependency depends on run r
  leaving,      \* a question that depended on run r is canceled, not yet settled
  videoReady,   \* the video of snapshot s is in state ready
  imagesReady   \* every image of the article of run r is in state ready

vars == <<job, request, awaited, leaving, videoReady, imagesReady>>

NoJob(r) == job[r].status = "absent"
Live(r) == job[r].status \in {"live", "stopping"}
IsSource(r) == job[r].kind \in SourceKinds
Open(q) == request[q].status \in OpenStatuses

Jobs ==
  [kind : SourceKinds \cup {"article", "none"},
   status : {"absent", "live", "stopping", "succeeded", "failed", "canceled"},
   source : Sources, snapshot : Snapshots \cup {NoSnapshot}, spec : Specs]

Rows ==
  [status : OpenStatuses \cup {"none", "completed", "failed", "canceled"},
   source : Sources, spec : Specs, active : Runs \cup {NoRun},
   snapshot : Snapshots \cup {NoSnapshot}, article : Runs \cup {NoRun},
   failure : Failures]

\* Every variable has its type, and an open request names a run.
TypeOK ==
  /\ job \in [Runs -> Jobs]
  /\ request \in [Requests -> Rows]
  /\ \A q \in Requests : Open(q) => request[q].active \in Runs
  /\ awaited \in [Runs -> BOOLEAN] /\ leaving \in [Runs -> BOOLEAN]
  /\ videoReady \in [Snapshots -> BOOLEAN]
  /\ imagesReady \in [Runs -> BOOLEAN]

AnySpec == [base |-> CHOOSE b \in Bases : TRUE, fresh |-> NoRequest]
AnySource == CHOOSE s \in Sources : TRUE

Init ==
  /\ job = [r \in Runs |-> [kind |-> "none", status |-> "absent", source |-> AnySource,
                            snapshot |-> NoSnapshot, spec |-> AnySpec]]
  /\ request = [q \in Requests |->
       [status |-> "none", source |-> AnySource, spec |-> AnySpec, active |-> NoRun,
        snapshot |-> NoSnapshot, article |-> NoRun, failure |-> "none"]]
  /\ awaited = [r \in Runs |-> FALSE] /\ leaving = [r \in Runs |-> FALSE]
  /\ videoReady = [s \in Snapshots |-> FALSE]
  /\ imagesReady = [r \in Runs |-> FALSE]

-----------------------------------------------------------------------------
(* Admission.                                                              *)

Waiting(p) ==
  {q \in Requests : request[q].active = p /\ request[q].status = "waiting_source"}
SpecsOf(Q) == {request[q].spec : q \in Q}

\* A source run counts once for each different article that waits for it, and
\* at least once; any other run counts once.
Backlog(R) ==
  LET waitedFor == {r \in R : IsSource(r) /\ Waiting(r) # {}}
  IN  Cardinality(R \ waitedFor)
        + Cardinality(UNION {{<<r, s>> : s \in SpecsOf(Waiting(r))} : r \in waitedFor})

LiveRuns == {r \in Runs : Live(r)}

\* admitVideoTask
Admitted == Backlog(LiveRuns) < MaxPending

\* Mutant: only new runs are admitted, not the articles that wait for them.
SubscriberUnadmitted(p, spec) == TRUE

\* admitSourceSubscriber: the first article that waits, and one that waits
\* already, add nothing to the backlog.
SubscriberAdmitted(p, spec) ==
  \/ Waiting(p) = {} \/ spec \in SpecsOf(Waiting(p))
  \/ Admitted

-----------------------------------------------------------------------------
(* bindPrepared: from a prepared source to an article.                     *)

\* Mutant: an article is reused on behalf of a fresh specification, too.
ReusableForFresh(spec, snapshot) ==
  {a \in Runs : /\ job[a].kind = "article" /\ job[a].status = "succeeded"
                /\ job[a].snapshot = snapshot /\ job[a].spec.base = spec.base
                /\ imagesReady[a]}

\* Articles with the reuse key of the specification and their images in place.
\* Publish strips FreshArticleID from the key, bindPrepared does not look for
\* articles on behalf of a fresh specification.
Reusable(spec, snapshot) ==
  {a \in Runs : /\ spec.fresh = NoRequest
                /\ job[a].kind = "article" /\ job[a].status = "succeeded"
                /\ job[a].snapshot = snapshot /\ job[a].spec.base = spec.base
                /\ imagesReady[a]}

\* The run with the work key of the article, if one is live.
Underway(spec, snapshot) ==
  {a \in Runs : /\ job[a].kind = "article" /\ Live(a)
                /\ job[a].snapshot = snapshot /\ job[a].spec = spec}

\* Mutant: a run that is being stopped is joined.
StoppingJoined(S, snapshot) == FALSE

\* "matching generation is stopping"
Stopping(S, snapshot) ==
  \E spec \in S : /\ Reusable(spec, snapshot) = {}
                  /\ \E a \in Underway(spec, snapshot) : job[a].status = "stopping"

ToCreate(S, snapshot) ==
  {spec \in S : Reusable(spec, snapshot) = {} /\ Underway(spec, snapshot) = {}}

\* How the waiting specifications S are served: by an article, by the run under
\* way, or each by a run of its own.
Servings(S, snapshot) ==
  {serve \in [S -> Runs] :
     /\ \A spec \in S :
          IF Reusable(spec, snapshot) # {} THEN serve[spec] \in Reusable(spec, snapshot)
          ELSE IF Underway(spec, snapshot) # {} THEN serve[spec] \in Underway(spec, snapshot)
          ELSE NoJob(serve[spec])
     /\ \A s1, s2 \in ToCreate(S, snapshot) : s1 # s2 => serve[s1] # serve[s2]}

\* newRun
SourceJob(kind, source, snapshot) ==
  [kind |-> kind, status |-> "live", source |-> source, snapshot |-> snapshot,
   spec |-> AnySpec]

ArticleJob(row, snapshot) ==
  [kind |-> "article", status |-> "live", source |-> row.source,
   snapshot |-> snapshot, spec |-> row.spec]

\* The row of a request once its source is prepared.
BoundRow(row, snapshot, a) ==
  IF job[a].status = "succeeded"
  THEN [row EXCEPT !.status = "completed", !.snapshot = snapshot,
                   !.active = NoRun, !.article = a]
  ELSE [row EXCEPT !.status = "generating", !.snapshot = snapshot, !.active = a]

\* The jobs after p ended as succeeded and the new articles were created, for
\* one of the requests that wait for them.
Prepared(p, snapshot, serve, rows) ==
  [r \in Runs |->
     IF r = p THEN [job[p] EXCEPT !.status = "succeeded", !.snapshot = snapshot]
     ELSE IF NoJob(r) /\ \E q \in DOMAIN rows : serve[rows[q].spec] = r
     THEN ArticleJob(rows[CHOOSE q \in DOMAIN rows : serve[rows[q].spec] = r], snapshot)
     ELSE job[r]]

-----------------------------------------------------------------------------
(* CreateRequest, by the work it finds for its source.                     *)

\* What a source run may be found by (active_work_key makes it unique).
Preparing(source) ==
  {p \in Runs : job[p].kind = "prepare" /\ job[p].source = source /\ Live(p)}
Restoring(snapshot) ==
  {p \in Runs : job[p].kind = "restore" /\ job[p].snapshot = snapshot /\ Live(p)}

\* Preparations that succeeded; a retry is pinned to the snapshot it had.
Ingested(source, pinned) ==
  {p \in Runs : /\ source \notin LocalSources
                /\ job[p].kind = "prepare" /\ job[p].status = "succeeded"
                /\ job[p].source = source /\ pinned \in {NoSnapshot, job[p].snapshot}}

Ready(source, pinned) == {p \in Ingested(source, pinned) : videoReady[job[p].snapshot]}

\* findRetainedSource
Retained(source, pinned) ==
  {job[p].snapshot : p \in {p \in Ingested(source, pinned) :
                              pinned # NoSnapshot \/ job[p].snapshot \in Retainable}}

\* A retry looks for its own snapshot before it looks for a live preparation.
Unprepared(source, pinned) ==
  \/ pinned # NoSnapshot /\ Retained(source, pinned) # {}
  \/ Preparing(source) = {}

\* A retained snapshot whose video has to be downloaded again.
ToRestore(source, pinned) ==
  {s \in Retained(source, pinned) :
     Unprepared(source, pinned) /\ Ready(source, pinned) = {} /\ ~videoReady[s]}

\* The live source run the request finds.
Found(source, pinned) ==
  IF ~Unprepared(source, pinned) THEN Preparing(source)
  ELSE UNION {Restoring(s) : s \in ToRestore(source, pinned)}

NewRow(source, spec, p, snapshot) ==
  [status |-> "waiting_source", source |-> source, spec |-> spec, active |-> p,
   snapshot |-> snapshot, article |-> NoRun, failure |-> "none"]

\* snapshot_id of the new row: known only when a video is restored.
SnapshotOf(p) == IF job[p].kind = "restore" THEN job[p].snapshot ELSE NoSnapshot

\* The request joins a source run under way.  One that is being stopped
\* refuses it.
JoinSource(q, source, spec, pinned) ==
  \E p \in Found(source, pinned) :
    /\ job[p].status = "live"
    /\ SubscriberAdmitted(p, spec)
    /\ request' = [request EXCEPT ![q] = NewRow(source, spec, p, SnapshotOf(p))]
    /\ UNCHANGED <<job, awaited, leaving, videoReady, imagesReady>>

\* The source is prepared already: the new request is bound to an article
\* or to an article run within the same transaction.
BindAtOnce(q, source, spec, pinned) ==
  /\ Unprepared(source, pinned)
  /\ \E p \in Ready(source, pinned) :
       LET s == job[p].snapshot
           row == NewRow(source, spec, p, NoSnapshot)
       IN  /\ ~Stopping({spec}, s)
           /\ ToCreate({spec}, s) # {} => Admitted
           /\ \E serve \in Servings({spec}, s) :
                /\ job' = Prepared(p, s, serve, [x \in {q} |-> row])
                /\ request' = [request EXCEPT ![q] = BoundRow(row, s, serve[spec])]
  /\ UNCHANGED <<awaited, leaving, videoReady, imagesReady>>

\* The video of a retained snapshot is downloaded again.
StartRestore(q, source, spec, pinned) ==
  /\ Admitted
  /\ \E s \in ToRestore(source, pinned), p \in Runs :
       /\ Restoring(s) = {} /\ NoJob(p)
       /\ job' = [job EXCEPT ![p] = SourceJob("restore", source, s)]
       /\ request' = [request EXCEPT ![q] = NewRow(source, spec, p, s)]
  /\ UNCHANGED <<awaited, leaving, videoReady, imagesReady>>

\* Nothing to build on.
StartPrepare(q, source, spec, pinned) ==
  /\ Admitted
  /\ Unprepared(source, pinned)
  /\ Ready(source, pinned) = {} /\ Retained(source, pinned) = {}
  /\ \E p \in Runs :
       /\ NoJob(p)
       /\ job' = [job EXCEPT ![p] = SourceJob("prepare", source, NoSnapshot)]
       /\ request' = [request EXCEPT ![q] = NewRow(source, spec, p, NoSnapshot)]
  /\ UNCHANGED <<awaited, leaving, videoReady, imagesReady>>

Accept(q, source, spec, pinned) ==
  \/ JoinSource(q, source, spec, pinned)
  \/ BindAtOnce(q, source, spec, pinned)
  \/ StartRestore(q, source, spec, pinned)
  \/ StartPrepare(q, source, spec, pinned)

\* A new request, for any article of the kind asked for or for a fresh one.
CreateRequest(q) ==
  /\ request[q].status = "none"
  /\ \E source \in Sources, base \in Bases, fresh \in {NoRequest, q} :
       Accept(q, source, [base |-> base, fresh |-> fresh], NoSnapshot)

\* A retry repeats the specification of the old request and its snapshot.
RetryRequest(q, old) ==
  /\ request[q].status = "none"
  /\ request[old].status \in {"failed", "canceled"}
  /\ Accept(q, request[old].source, request[old].spec, request[old].snapshot)

-----------------------------------------------------------------------------
(* Cancellation.                                                           *)

\* Mutant: the questions that wait for a restore are forgotten.
NeededByRequest(r, q) ==
  \E other \in Requests \ {q} : request[other].active = r /\ Open(other)

\* What cancelUnused asks about run r once request q is out of the way.
Needed(r, q) ==
  \/ \E other \in Requests \ {q} : request[other].active = r /\ Open(other)
  \/ awaited[r]

CancelRequest(q) ==
  LET r == request[q].active
  IN  /\ Open(q)
      /\ request' = [request EXCEPT ![q] = [@ EXCEPT !.status = "canceled", !.active = NoRun]]
      /\ job' = IF Needed(r, q) \/ ~Live(r) THEN job
                ELSE [job EXCEPT ![r] = [@ EXCEPT !.status = "stopping"]]
      /\ UNCHANGED <<awaited, leaving, videoReady, imagesReady>>

-----------------------------------------------------------------------------
(* The ends of runs.                                                       *)

\* Mutant: the requests that still wait for their source are forgotten.
TerminateGenerating(r, status, failure) ==
  /\ job' = [job EXCEPT ![r] = [@ EXCEPT !.status = status]]
  /\ request' = [q \in Requests |->
       IF request[q].active = r /\ request[q].status = "generating"
       THEN [request[q] EXCEPT !.status = status, !.failure = failure]
       ELSE request[q]]
  /\ UNCHANGED <<awaited, leaving, videoReady, imagesReady>>

\* terminate: run r ends as status, and so do the requests bound to it.
Terminate(r, status, failure) ==
  /\ job' = [job EXCEPT ![r] = [@ EXCEPT !.status = status]]
  /\ request' = [q \in Requests |->
       IF request[q].active = r /\ Open(q)
       THEN [request[q] EXCEPT !.status = status, !.failure = failure]
       ELSE request[q]]
  /\ UNCHANGED <<awaited, leaving, videoReady, imagesReady>>

\* The snapshots run p may turn out to have prepared.
Outcome(p) ==
  IF job[p].kind = "restore" THEN {job[p].snapshot}
  ELSE {s \in Snapshots : SourceOf[s] = job[p].source}

\* newRun would refuse one of the articles.
Overrun(p, snapshot) ==
  LET new == ToCreate(SpecsOf(Waiting(p)), snapshot)
  IN  new # {} /\ Backlog(LiveRuns \ {p}) + Cardinality(new) > MaxPending

\* FinishSource: all requests that wait for p get their article or its run.
FinishSource(p, snapshot) ==
  /\ IsSource(p) /\ job[p].status = "live" /\ snapshot \in Outcome(p)
  /\ LET Q == Waiting(p)
     IN  /\ ~Stopping(SpecsOf(Q), snapshot) /\ ~Overrun(p, snapshot)
         /\ \E serve \in Servings(SpecsOf(Q), snapshot) :
              /\ job' = Prepared(p, snapshot, serve, [q \in Q |-> request[q]])
              /\ request' = [q \in Requests |->
                   IF q \in Q THEN BoundRow(request[q], snapshot, serve[request[q].spec])
                   ELSE request[q]]
  /\ videoReady' = [videoReady EXCEPT ![snapshot] = TRUE]
  /\ UNCHANGED <<awaited, leaving, imagesReady>>

\* bindPrepared returns an error, the transaction is rolled back, and classify
\* makes the error a permanent failure of the source run.
FinishRefused(p, snapshot) ==
  LET stopping == Stopping(SpecsOf(Waiting(p)), snapshot)
  IN  /\ IsSource(p) /\ job[p].status = "live" /\ snapshot \in Outcome(p)
      /\ stopping \/ Overrun(p, snapshot)
      /\ Terminate(p, "failed", IF stopping THEN "stopping" ELSE "admission")

\* Publish: the article, the requests and the run are completed together.
Publish(r) ==
  /\ job[r].kind = "article" /\ job[r].status = "live"
  /\ job' = [job EXCEPT ![r] = [@ EXCEPT !.status = "succeeded"]]
  /\ request' = [q \in Requests |->
       IF request[q].active = r /\ request[q].status = "generating"
       THEN [request[q] EXCEPT !.status = "completed", !.article = r]
       ELSE request[q]]
  /\ imagesReady' = [imagesReady EXCEPT ![r] = TRUE]
  /\ UNCHANGED <<awaited, leaving, videoReady>>

\* The work fails, or time runs out.
RunFails(r) ==
  /\ job[r].status = "live"
  /\ Terminate(r, "failed", "work")

RunStops(r) ==
  /\ job[r].status = "stopping"
  /\ Terminate(r, "canceled", "none")

-----------------------------------------------------------------------------
(* Questions that need a video, and the loss of media.                     *)

\* WaitForRestore, for a question about an article of the snapshot.  A restore
\* that is being stopped is not joined and, with its work key, in the way.
QuestionWaits(snapshot) ==
  /\ \E q \in Requests : request[q].status = "completed" /\ request[q].snapshot = snapshot
  /\ \/ \E r \in Restoring(snapshot) :
          /\ job[r].status = "live" /\ ~awaited[r]
          /\ awaited' = [awaited EXCEPT ![r] = TRUE]
          /\ UNCHANGED job
     \/ /\ Restoring(snapshot) = {} /\ Admitted
        /\ \E r \in Runs :
             /\ NoJob(r)
             /\ job' = [job EXCEPT ![r] = SourceJob("restore", SourceOf[snapshot], snapshot)]
             /\ awaited' = [awaited EXCEPT ![r] = TRUE]
  /\ UNCHANGED <<request, leaving, videoReady, imagesReady>>

\* CancelTurn only asks the question to stop: what it waited for goes on until
\* the question is settled.
QuestionCanceled(r) ==
  /\ awaited[r] /\ ~leaving[r]
  /\ awaited' = [awaited EXCEPT ![r] = FALSE] /\ leaving' = [leaving EXCEPT ![r] = TRUE]
  /\ UNCHANGED <<job, request, videoReady, imagesReady>>

\* terminate of a question that waits or waited, with cancelUnused; or the
\* question is woken when its restore is over.
QuestionLeaves(r) ==
  /\ \/ awaited[r] /\ awaited' = [awaited EXCEPT ![r] = FALSE] /\ UNCHANGED leaving
     \/ leaving[r] /\ leaving' = [leaving EXCEPT ![r] = FALSE] /\ UNCHANGED awaited
  /\ job' = IF ~Live(r) \/ awaited'[r] \/ \E q \in Requests : request[q].active = r /\ Open(q)
            THEN job ELSE [job EXCEPT ![r] = [@ EXCEPT !.status = "stopping"]]
  /\ UNCHANGED <<request, videoReady, imagesReady>>

\* A file is deleted by cleanup or by an administrator, or found missing.
VideoGone(snapshot) ==
  /\ videoReady[snapshot] /\ videoReady' = [videoReady EXCEPT ![snapshot] = FALSE]
  /\ UNCHANGED <<job, request, awaited, leaving, imagesReady>>

ImagesGone(r) ==
  /\ imagesReady[r] /\ imagesReady' = [imagesReady EXCEPT ![r] = FALSE]
  /\ UNCHANGED <<job, request, awaited, leaving, videoReady>>

-----------------------------------------------------------------------------
(* The system.                                                             *)

Visitor ==
  \E q \in Requests :
    \/ CreateRequest(q)
    \/ \E old \in Requests : RetryRequest(q, old)
    \/ CancelRequest(q)

RunEnds(r) ==
  \/ \E s \in Snapshots : FinishSource(r, s)
  \/ \E s \in Snapshots : FinishRefused(r, s)
  \/ Publish(r)
  \/ RunFails(r)
  \/ RunStops(r)

Question ==
  \/ \E s \in Snapshots : QuestionWaits(s)
  \/ \E r \in Runs : QuestionCanceled(r) \/ QuestionLeaves(r)

MediaLost ==
  \/ \E s \in Snapshots : VideoGone(s)
  \/ \E r \in Runs : ImagesGone(r)

Next ==
  \/ Visitor
  \/ \E r \in Runs : RunEnds(r)
  \/ Question
  \/ MediaLost

Spec == Init /\ [][Next]_vars

\* Every live run ends: EveryRunSettles of RunLifecycle.
Fairness == \A r \in Runs : WF_vars(RunEnds(r))
FairSpec == Spec /\ Fairness

-----------------------------------------------------------------------------
(* Properties.                                                             *)

\* An open request is bound to a run that is under way, for its own source and,
\* once it is generating, for its snapshot and specification: no request is left
\* waiting for a run that is over or that is being stopped.
ServedWhileOpen ==
  \A q \in Requests : Open(q) =>
    /\ request[q].active \in Runs
    /\ LET r == request[q].active
       IN  /\ job[r].status = "live" /\ job[r].source = request[q].source
           /\ IF request[q].status = "waiting_source" THEN IsSource(r)
              ELSE /\ job[r].kind = "article" /\ job[r].spec = request[q].spec
                   /\ job[r].snapshot = request[q].snapshot

\* A completed request got a published article of the source and snapshot it is
\* bound to and the interpretation it asked for, and a fresh one an article that
\* was generated for it (or for the request it retries).
AnsweredAsAsked ==
  \A q \in Requests : request[q].status = "completed" =>
    /\ request[q].article \in Runs
    /\ LET a == job[request[q].article]
       IN  /\ a.kind = "article" /\ a.status = "succeeded"
           /\ a.source = request[q].source /\ a.snapshot = request[q].snapshot
           /\ a.spec.base = request[q].spec.base
           /\ request[q].spec.fresh # NoRequest => a.spec = request[q].spec

\* Finishing a shared source cannot fan out beyond the bound: no request that
\* was admitted fails because its article is not (admission.go).
NoLateRefusal == \A q \in Requests : request[q].failure # "admission"

\* Every open request ends, because runs do.
EveryRequestEnds == \A q \in Requests : Open(q) ~> ~Open(q)

\* Stopping a request releases its own demand and harms nobody else's
\* (docs/site/start.md).
StopHarmsNobodyElse == \A q \in Requests : request[q].failure # "stopping"

\* Shared work as SharedWork has it: a run is stopped when, and only when, the
\* last request or question that needs it lets go of it.
Demand(r) ==
  IF Live(r)
  THEN {q \in Requests : request[q].active = r /\ Open(q)}
         \cup (IF awaited[r] THEN {NoRequest} ELSE {})
  ELSE {}

Leaving(r) == IF job[r].status = "live" /\ leaving[r] THEN {NoRequest} ELSE {}

WorkState(r) ==
  CASE job[r].status = "absent" -> "none"
    [] job[r].status = "live" -> "working"
    [] job[r].status = "stopping" -> "stopping"
    [] OTHER -> "over"

Shared == INSTANCE SharedWork WITH
  Works <- Runs, Askers <- Requests \cup {NoRequest},
  state <- [r \in Runs |-> WorkState(r)], demand <- [r \in Runs |-> Demand(r)],
  leaving <- [r \in Runs |-> Leaving(r)]

StopsWithItsLastUser == Shared!Spec
=============================================================================

---------------------------- MODULE RunLifecycle ----------------------------
(***************************************************************************)
(* The life of a background run, from its acceptance to its terminal       *)
(* status: the control transactions of internal/store/execution.go, the    *)
(* task handler, the dispatcher and the reconciler of                      *)
(* internal/jobs/worker.go, and the Asynq broker they talk to.             *)
(*                                                                         *)
(* Every control transaction takes one advisory lock (Store.Tx), so each   *)
(* is one atomic step here.  What interleaves is everything between them:  *)
(* delivery, claim, the work itself, saving its outcome, acknowledging     *)
(* the broker; the outbox row between its claim, the enqueue and its       *)
(* receipt; the broker state the reconciler saw and the transaction in     *)
(* which it acts on it.                                                    *)
(*                                                                         *)
(* Durations are abstract.  The lease and the absolute deadline are state  *)
(* that time may change at any moment; a comparison with a queue limit, a  *)
(* retry time, the stall limit or the active budget is a free choice of    *)
(* the transaction that makes it.                                          *)
(***************************************************************************)
EXTENDS Naturals, FiniteSets

CONSTANTS
  Runs,             \* identities of job_runs rows
  Kind,             \* Kind[r]: the kind column of run r
  Slots,            \* task slots: goroutines that execute one task at a time
  Process,          \* Process[w]: the worker process of slot w (lease_owner)
  VideoSlots,       \* execution_settings.max_video_running
  SourceSlots,      \* sourcePreparationSlots
  MaxEpoch,         \* bound: claims granted to one run
  MaxGeneration,    \* bound: dispatch generations of one run
  Faults,           \* which faults the environment may inject
  FaultBudget,      \* bound: how many of them in one behaviour
  Events,           \* which events of visitors and of time may occur
  Nobody,           \* lease_owner IS NULL; a task no slot holds
  NoRun             \* dependency_run_id IS NULL

Kinds == {"prepare", "restore", "article", "answer"}

FaultKinds == {"crash", "stall", "shutdown", "redis", "database",
               "ack_lost", "exhausted"}

ASSUME SetsAssumption ==
  /\ Runs # {} /\ NoRun \notin Runs
  /\ Kind \in [Runs -> Kinds]
  /\ Nobody \notin Slots \cup {Process[w] : w \in Slots}

ASSUME BoundsAssumption ==
  /\ VideoSlots \in Nat /\ SourceSlots \in Nat
  /\ MaxEpoch \in Nat \ {0}
  /\ MaxGeneration \in Nat \ {0}
  /\ FaultBudget \in Nat /\ Events \subseteq {"join", "cancel", "deadline", "reinterpret"}
  /\ Faults \subseteq FaultKinds

Epochs == 1 .. MaxEpoch
Generations == 1 .. MaxGeneration
Processes == {Process[w] : w \in Slots}

VARIABLES
  \* columns of job_runs
  status, generation, epoch, failures, owner, lease, dependency, restoreUsed,
  overdue,      \* deadline_at has passed
  checkpoint,   \* the attempt that last saved work (0: none)
  result,       \* the attempt whose result was committed (0: none)
  wanted,       \* some live request or question of a visitor is bound to the run
  attempts,     \* job_attempts: outcome of attempt e of run r
  outbox,       \* task_outbox: the row of generation g of run r
  broker,       \* external: the Asynq task of generation g of run r
  handler,      \* the task execution in progress in each slot
  probe,        \* what the reconciler saw of a run and has not acted on yet
  faults        \* faults left to inject

\* What terminate changes, and the other columns.
holdVars == <<status, owner, lease, wanted, attempts>>
planVars == <<generation, epoch, failures, dependency, restoreUsed, overdue>>
workVars == <<checkpoint, result>>
jobVars == <<holdVars, planVars, workVars>>
queueVars == <<outbox, broker>>
vars == <<jobVars, queueVars, handler, probe, faults>>

Terminal == {"succeeded", "failed", "canceled"}
Statuses == {"absent", "queued", "running", "retry_wait", "waiting_dependency",
             "cancel_requested"} \cup Terminal
Outcomes == {"none", "open", "lease_expired", "retry_wait", "interrupted",
             "waiting_dependency"} \cup Terminal
RowStates == {"none", "pending", "sending", "sent", "delivered"}
TaskStates == {"missing", "pending", "active", "retry", "completed", "archived"}
Phases == {"idle", "delivered", "reading", "working", "failing", "acking"}
Errors == {"transient", "permanent", "media_missing", "fenced", "shutdown"}
Acks == {"nil", "busy", "retry", "error"}
\* What Repair tells apart: no task, a task that is over, anything else (a task
\* still to run, or a broker that did not answer).
Views == {"missing", "ended", "other"}

\* The deepest failure_count that still permits another attempt (MaxRetries).
MaxRetries(r) == IF Kind[r] \in {"answer", "restore"} THEN 1 ELSE 2

Live(r) == status[r] \notin Terminal \cup {"absent"}
IsSource(r) == Kind[r] \in {"prepare", "restore"}

NoTask == [state |-> "missing", holder |-> Nobody]
Idle == [phase |-> "idle", run |-> NoRun, gen |-> 0, epoch |-> 0, note |-> "none"]
NoProbe == [gen |-> 0, view |-> "other"]

HoldTypeOK ==
  /\ status \in [Runs -> Statuses]
  /\ owner \in [Runs -> Processes \cup {Nobody}]
  /\ lease \in [Runs -> {"none", "live", "expired"}]
  /\ wanted \in [Runs -> BOOLEAN]
  /\ attempts \in [Runs -> [Epochs -> Outcomes]]

PlanTypeOK ==
  /\ generation \in [Runs -> 0 .. MaxGeneration]
  /\ epoch \in [Runs -> 0 .. MaxEpoch]
  /\ failures \in [Runs -> Nat]
  /\ dependency \in [Runs -> Runs \cup {NoRun}]
  /\ restoreUsed \in [Runs -> BOOLEAN]
  /\ overdue \in [Runs -> BOOLEAN]

WorkTypeOK ==
  /\ checkpoint \in [Runs -> 0 .. MaxEpoch]
  /\ result \in [Runs -> 0 .. MaxEpoch]

Tasks == [state : TaskStates, holder : Slots \cup {Nobody}]

QueueTypeOK ==
  /\ outbox \in [Runs -> [Generations -> RowStates]]
  /\ broker \in [Runs -> [Generations -> Tasks]]

Executions ==
  [phase : Phases, run : Runs \cup {NoRun}, gen : 0 .. MaxGeneration,
   epoch : 0 .. MaxEpoch, note : Errors \cup Acks \cup {"none"}]

\* Every variable has its type, and a busy slot is bound to a run.
TypeOK ==
  /\ HoldTypeOK /\ PlanTypeOK /\ WorkTypeOK /\ QueueTypeOK
  /\ handler \in [Slots -> Executions]
  /\ \A w \in Slots :
       handler[w].phase # "idle" => handler[w].run \in Runs /\ handler[w].gen \in Generations
  /\ probe \in [Runs -> [gen : 0 .. MaxGeneration, view : Views]]
  /\ faults \in 0 .. FaultBudget

Init ==
  /\ status = [r \in Runs |-> "absent"]
  /\ generation = [r \in Runs |-> 0]
  /\ epoch = [r \in Runs |-> 0]
  /\ failures = [r \in Runs |-> 0]
  /\ owner = [r \in Runs |-> Nobody]
  /\ lease = [r \in Runs |-> "none"]
  /\ dependency = [r \in Runs |-> NoRun]
  /\ restoreUsed = [r \in Runs |-> FALSE]
  /\ overdue = [r \in Runs |-> FALSE]
  /\ checkpoint = [r \in Runs |-> 0]
  /\ result = [r \in Runs |-> 0]
  /\ wanted = [r \in Runs |-> FALSE]
  /\ attempts = [r \in Runs |-> [e \in Epochs |-> "none"]]
  /\ outbox = [r \in Runs |-> [g \in Generations |-> "none"]]
  /\ broker = [r \in Runs |-> [g \in Generations |-> NoTask]]
  /\ handler = [w \in Slots |-> Idle]
  /\ probe = [r \in Runs |-> NoProbe]
  /\ faults = FaultBudget

-----------------------------------------------------------------------------
(* Pieces of control transactions.                                         *)

\* Effects shared by every transition of a slot.
MoveTo(w, phase, note) ==
  handler' = [handler EXCEPT ![w] = [@ EXCEPT !.phase = phase, !.note = note]]

Fault(k) == k \in Faults /\ faults > 0 /\ faults' = faults - 1
NoFault == UNCHANGED faults

\* Mutant of Fence: any claim of the owning process may write.
FenceByOwner(w) ==
  LET h == handler[w] IN
  status[h.run] = "running" /\ owner[h.run] = Process[w] /\ lease[h.run] = "live" /\ ~overdue[h.run]

\* Mutant of Fence: a run that is being stopped still accepts writes.
FenceUnstopped(w) ==
  LET h == handler[w] IN
  epoch[h.run] = h.epoch /\ owner[h.run] = Process[w] /\ lease[h.run] = "live" /\ ~overdue[h.run]

\* Mutant of Fence: the lease may have run out.
FenceUnleased(w) ==
  LET h == handler[w] IN
  status[h.run] = "running" /\ epoch[h.run] = h.epoch /\ owner[h.run] = Process[w] /\ ~overdue[h.run]

\* fence: the claim of slot w may still write.
Fence(w) ==
  LET h == handler[w] IN
  /\ status[h.run] = "running"
  /\ epoch[h.run] = h.epoch
  /\ owner[h.run] = Process[w]
  /\ lease[h.run] = "live"
  /\ ~overdue[h.run]

\* Some live request, or some run other than gone waiting for it, needs run d.
Needed(d, gone) ==
  \/ wanted[d]
  \/ \E q \in Runs \ {gone} :
       dependency[q] = d /\ status[q] = "waiting_dependency"

CloseAttempts(r, outcome) ==
  [e \in Epochs |-> IF attempts[r][e] = "open" THEN outcome ELSE attempts[r][e]]

\* Mutant of Settled: terminate forgets cancelUnused.
SettledAlone(r, outcome) == [status EXCEPT ![r] = outcome]

\* terminate of run r, cancelUnused of its dependency included.
Settled(r, outcome) ==
  [x \in Runs |->
     IF x = r THEN outcome
     ELSE IF x = dependency[r] /\ Live(x) /\ ~Needed(x, r)
          THEN "cancel_requested"
          ELSE status[x]]

Terminate(r, outcome) ==
  /\ status' = Settled(r, outcome)
  /\ owner' = [owner EXCEPT ![r] = Nobody]
  /\ lease' = [lease EXCEPT ![r] = "none"]
  /\ wanted' = [wanted EXCEPT ![r] = FALSE]
  /\ attempts' = [attempts EXCEPT ![r] = CloseAttempts(r, outcome)]
  /\ UNCHANGED <<generation, epoch, dependency, restoreUsed, overdue, workVars>>

\* Runs that occupy an execution slot in admitExecution.
Occupying ==
  {x \in Runs : /\ Kind[x] # "answer"
                /\ status[x] \in {"running", "cancel_requested"}
                /\ lease[x] = "live"}

HasCapacity(r) ==
  \/ Kind[r] = "answer"
  \/ /\ Cardinality(Occupying) < VideoSlots
     /\ IsSource(r) => Cardinality({x \in Occupying : IsSource(x)}) < SourceSlots

\* The active-work unique index: every restore run of an instance is for one
\* snapshot, so at most one of them is live; other runs have keys of their own.
ActiveRestores == {x \in Runs : Kind[x] = "restore" /\ Live(x)}

-----------------------------------------------------------------------------
(* Acceptance and cancellation, as the request transactions cause them.    *)

\* newRun for a visitor's request or question.
Create(r) ==
  /\ status[r] = "absent"
  /\ Kind[r] = "restore" => "reinterpret" \in Events /\ ActiveRestores = {}
  /\ status' = [status EXCEPT ![r] = "queued"]
  /\ generation' = [generation EXCEPT ![r] = 1]
  /\ wanted' = [wanted EXCEPT ![r] = TRUE]
  /\ outbox' = [outbox EXCEPT ![r][1] = "pending"]
  /\ UNCHANGED <<epoch, failures, owner, lease, dependency, restoreUsed,
                  overdue, workVars, attempts, broker, handler, probe, faults>>

\* A further request joins an active run; one that is stopping is refused.
Join(r) ==
  /\ "join" \in Events
  /\ status[r] \in {"queued", "running", "retry_wait"}
  /\ Kind[r] # "answer"
  /\ wanted' = [wanted EXCEPT ![r] = TRUE]
  /\ UNCHANGED <<status, planVars, owner, lease, workVars, attempts, queueVars,
                  handler, probe, faults>>

\* The last live request of a run is canceled (CancelRequest, cancelUnused), or
\* the question of an answer run is (CancelTurn).
Cancel(r) ==
  /\ "cancel" \in Events
  /\ Live(r) /\ wanted[r]
  /\ wanted' = [wanted EXCEPT ![r] = FALSE]
  /\ status' = IF \E q \in Runs : dependency[q] = r /\ status[q] = "waiting_dependency"
               THEN status
               ELSE [status EXCEPT ![r] = "cancel_requested"]
  /\ UNCHANGED <<planVars, owner, lease, workVars, attempts, queueVars, handler,
                  probe, faults>>

-----------------------------------------------------------------------------
(* The dispatcher: one transactional outbox row at a time.                 *)

\* Outbox claims an undelivered row for thirty seconds, which only keeps other
\* dispatchers from it; dispatch then reads the run: a settled run or an older
\* generation needs no task.
OutboxClaim(r, g) ==
  /\ outbox[r][g] = "pending"
  /\ outbox' = [outbox EXCEPT ![r][g] =
                  IF ~Live(r) \/ generation[r] # g THEN "delivered" ELSE "sending"]
  /\ UNCHANGED <<jobVars, broker, handler, probe, faults>>

\* EnqueueContext with the deterministic task identity; an identity conflict
\* finds the same payload and counts as delivered.
Enqueue(r, g) ==
  /\ outbox[r][g] = "sending"
  /\ outbox' = [outbox EXCEPT ![r][g] = "sent"]
  /\ broker' = IF broker[r][g].state = "missing"
               THEN [broker EXCEPT ![r][g] = [state |-> "pending", holder |-> Nobody]]
               ELSE broker
  /\ UNCHANGED <<jobVars, handler, probe, faults>>

\* OutboxResult(delivered).
OutboxDelivered(r, g) ==
  /\ outbox[r][g] = "sent"
  /\ outbox' = [outbox EXCEPT ![r][g] = "delivered"]
  /\ UNCHANGED <<jobVars, broker, handler, probe, faults>>

\* Mutant of OutboxRetry: a row is done with once it was claimed.
OutboxGivesUp(r, g) ==
  /\ \/ outbox[r][g] = "sending" /\ Fault("redis")
     \/ outbox[r][g] \in {"sending", "sent"} /\ Fault("crash")
  /\ outbox' = [outbox EXCEPT ![r][g] = "delivered"]
  /\ UNCHANGED <<jobVars, broker, handler, probe>>

\* The broker refuses the enqueue (OutboxResult not delivered), or the
\* dispatcher dies and the claim of the row runs out: it is sent again later.
OutboxRetry(r, g) ==
  /\ \/ outbox[r][g] = "sending" /\ Fault("redis")
     \/ outbox[r][g] \in {"sending", "sent"} /\ Fault("crash")
  /\ outbox' = [outbox EXCEPT ![r][g] = "pending"]
  /\ UNCHANGED <<jobVars, broker, handler, probe>>

-----------------------------------------------------------------------------
(* The broker (external): at-least-once delivery, as the worker relies on. *)

\* A slot takes a task that is pending, or whose retry is due.
Take(w, r, g) ==
  /\ handler[w].phase = "idle"
  /\ broker[r][g].state \in {"pending", "retry"}
  /\ broker' = [broker EXCEPT ![r][g] = [state |-> "active", holder |-> w]]
  /\ handler' = [handler EXCEPT ![w] =
       [phase |-> "delivered", run |-> r, gen |-> g, epoch |-> 0, note |-> "none"]]
  /\ UNCHANGED <<jobVars, outbox, probe, faults>>

\* The broker's own task lease ran out: the slot died, or stalled for so long
\* that the broker delivers again while the first execution goes on.
Redeliver(r, g) ==
  LET h == broker[r][g].holder IN
  /\ broker[r][g].state = "active"
  /\ IF h \in Slots /\ handler[h].phase # "idle"
        /\ handler[h].run = r /\ handler[h].gen = g
     THEN Fault("stall")
     ELSE NoFault
  /\ broker' = [broker EXCEPT ![r][g] = [state |-> "retry", holder |-> Nobody]]
  /\ UNCHANGED <<jobVars, outbox, handler, probe>>

\* The last generation RepairMissing may open (a bound: the last generation of a
\* question is kept for its wake).
RepairLimit(r) == IF Kind[r] = "answer" THEN MaxGeneration - 1 ELSE MaxGeneration

\* Redis loses a task.  (Kept below the generation bound, so that the repair
\* of the loss stays within it.)
LoseTask(r, g) ==
  /\ broker[r][g].state # "missing"
  /\ generation[r] < RepairLimit(r)
  /\ Fault("redis")
  /\ broker' = [broker EXCEPT ![r][g] = NoTask]
  /\ UNCHANGED <<jobVars, outbox, handler, probe>>

\* The handler returns to the broker.  A slot that no longer holds the task
\* changes nothing.
Ack(w) ==
  LET h == handler[w]
      held == broker[h.run][h.gen] = [state |-> "active", holder |-> w]
  IN
  /\ h.phase = "acking"
  /\ handler' = [handler EXCEPT ![w] = Idle]
  /\ \/ ~held /\ NoFault /\ UNCHANGED broker
     \/ /\ held /\ NoFault
        /\ broker' = [broker EXCEPT ![h.run][h.gen] =
             [state |-> IF h.note = "nil" THEN "completed" ELSE "retry",
              holder |-> Nobody]]
     \/ /\ held /\ h.note \in {"retry", "error"} /\ Fault("exhausted")
        /\ broker' = [broker EXCEPT ![h.run][h.gen] =
             [state |-> "archived", holder |-> Nobody]]
  /\ UNCHANGED <<jobVars, outbox, probe>>

-----------------------------------------------------------------------------
(* handle: Claim, one action for each way the transaction can end.         *)

Delivered(w) == handler[w].phase = "delivered"

\* The generation is current and the run may still be claimed or settled.
Current(w) ==
  LET r == handler[w].run IN
  /\ generation[r] = handler[w].gen
  /\ Live(r) /\ status[r] # "waiting_dependency"

\* Nothing to do: an older delivery, or another execution holds the lease.
ClaimSkip(w) ==
  LET r == handler[w].run IN
  /\ Delivered(w)
  /\ \/ ~Current(w)
     \/ status[r] = "running" /\ lease[r] = "live" /\ ~overdue[r]
  /\ MoveTo(w, "reading", "none")
  /\ UNCHANGED <<jobVars, queueVars, probe, faults>>

ClaimCanceled(w) ==
  LET r == handler[w].run IN
  /\ Delivered(w) /\ Current(w)
  /\ status[r] = "cancel_requested"
  /\ Terminate(r, "canceled")
  /\ MoveTo(w, "reading", "none")
  /\ UNCHANGED <<failures, queueVars, probe, faults>>

\* The deadline passed, or a queued run waited longer than its queue limit.
ClaimTooLate(w) ==
  LET r == handler[w].run IN
  /\ Delivered(w) /\ Current(w)
  /\ status[r] # "cancel_requested"
  /\ overdue[r] \/ status[r] = "queued"
  /\ Terminate(r, "failed")
  /\ MoveTo(w, "reading", "none")
  /\ UNCHANGED <<failures, queueVars, probe, faults>>

\* Claim got as far as asking for a new execution.
Claimable(w) ==
  LET r == handler[w].run IN
  /\ Delivered(w) /\ Current(w)
  /\ status[r] # "cancel_requested"
  /\ ~overdue[r]
  /\ status[r] = "running" => lease[r] # "live"

\* An article's provider asked for a later retry, or every slot is occupied.
ClaimDeferred(w) ==
  LET r == handler[w].run IN
  /\ Claimable(w)
  /\ \/ /\ Kind[r] = "article" /\ status[r] = "retry_wait"
        /\ MoveTo(w, "acking", "retry")
     \/ /\ ~HasCapacity(r)
        /\ MoveTo(w, "acking", "busy")
  /\ UNCHANGED <<jobVars, queueVars, probe, faults>>

\* Mutant of ClaimFailures: a takeover is not charged.
ClaimUncharged(r) == failures[r]

\* failure_count after an execution whose lease ran out has been charged.
ClaimFailures(r) == failures[r] + (IF status[r] = "running" THEN 1 ELSE 0)

\* Mutant of ClaimClosed: a takeover leaves the lost attempt open.
ClaimLeavesOpen(r) == attempts[r]

\* The attempts of r once Claim has closed one whose lease ran out.
ClaimClosed(r) ==
  IF status[r] = "running" THEN CloseAttempts(r, "lease_expired") ELSE attempts[r]

\* A new execution: the next epoch, a fresh lease, an open attempt.
ClaimGranted(w) ==
  LET r == handler[w].run
      e == epoch[r] + 1
  IN
  /\ Claimable(w) /\ HasCapacity(r)
  /\ ClaimFailures(r) <= MaxRetries(r)
  /\ e <= MaxEpoch
  /\ status' = [status EXCEPT ![r] = "running"]
  /\ epoch' = [epoch EXCEPT ![r] = e]
  /\ failures' = [failures EXCEPT ![r] = ClaimFailures(r)]
  /\ owner' = [owner EXCEPT ![r] = Process[w]]
  /\ lease' = [lease EXCEPT ![r] = "live"]
  /\ attempts' = [attempts EXCEPT ![r] = [ClaimClosed(r) EXCEPT ![e] = "open"]]
  /\ handler' = [handler EXCEPT ![w] = [@ EXCEPT !.phase = "working", !.epoch = e]]
  /\ UNCHANGED <<generation, dependency, restoreUsed, overdue, workVars, wanted,
                  queueVars, probe, faults>>

\* The retry or the active-time budget is spent (the second may be at any time).
ClaimExhausted(w) ==
  LET r == handler[w].run IN
  /\ Claimable(w) /\ HasCapacity(r)
  /\ failures' = [failures EXCEPT ![r] = ClaimFailures(r)]
  /\ status' = Settled(r, "failed")
  /\ owner' = [owner EXCEPT ![r] = Nobody]
  /\ lease' = [lease EXCEPT ![r] = "none"]
  /\ wanted' = [wanted EXCEPT ![r] = FALSE]
  /\ attempts' = [attempts EXCEPT ![r] = ClaimClosed(r)]
  /\ MoveTo(w, "reading", "none")
  /\ UNCHANGED <<generation, epoch, dependency, restoreUsed, overdue, workVars,
                  queueVars, probe, faults>>

\* Claim, or the reads right after it, fail: the broker delivers again, and a
\* claim already granted stays behind until its lease runs out.
ClaimError(w) ==
  /\ handler[w].phase \in {"delivered", "working"}
  /\ Fault("database")
  /\ MoveTo(w, "acking", "error")
  /\ UNCHANGED <<jobVars, queueVars, probe>>

\* No claim: the handler reads the run again to choose its answer.
ReadBack(w) ==
  LET h == handler[w] IN
  /\ h.phase = "reading"
  /\ MoveTo(w, "acking",
            IF status[h.run] = "running" /\ generation[h.run] = h.gen
            THEN "busy" ELSE "nil")
  /\ UNCHANGED <<jobVars, queueVars, probe, faults>>

Claim(w) ==
  \/ ClaimSkip(w) \/ ClaimCanceled(w) \/ ClaimTooLate(w) \/ ClaimDeferred(w)
  \/ ClaimGranted(w) \/ ClaimExhausted(w)
-----------------------------------------------------------------------------
(* handle: the work of a granted claim.                                    *)

Working(w) == handler[w].phase = "working"

\* Heartbeat renews the lease; a refused one cancels the work.
Heartbeat(w) ==
  /\ Working(w)
  /\ IF Fence(w)
     THEN lease' = [lease EXCEPT ![handler[w].run] = "live"] /\ UNCHANGED handler
     ELSE MoveTo(w, "failing", "transient") /\ UNCHANGED lease
  /\ UNCHANGED <<status, planVars, owner, workVars, wanted, attempts, queueVars,
                  probe, faults>>

\* Checkpoint, Step and the other fenced writes of an execution in progress.
Checkpoint(w) ==
  LET h == handler[w] IN
  /\ Working(w)
  /\ IF Fence(w)
     THEN checkpoint' = [checkpoint EXCEPT ![h.run] = h.epoch] /\ UNCHANGED handler
     ELSE MoveTo(w, "failing", "fenced") /\ UNCHANGED checkpoint
  /\ UNCHANGED <<holdVars, planVars, result, queueVars, probe, faults>>

\* FinishSource, Publish and CompleteAnswer end in finishRun.  The answer of
\* the commit may be lost, in which case the work reports an error.
FinishRun(w) ==
  LET h == handler[w] IN
  /\ Working(w) /\ Fence(w)
  /\ status' = [status EXCEPT ![h.run] = "succeeded"]
  /\ result' = [result EXCEPT ![h.run] = h.epoch]
  /\ owner' = [owner EXCEPT ![h.run] = Nobody]
  /\ lease' = [lease EXCEPT ![h.run] = "none"]
  /\ wanted' = [wanted EXCEPT ![h.run] = FALSE]
  /\ attempts' = [attempts EXCEPT ![h.run][h.epoch] = "succeeded"]
  /\ \/ MoveTo(w, "acking", "nil") /\ NoFault
     \/ MoveTo(w, "failing", "transient") /\ Fault("ack_lost")
  /\ UNCHANGED <<planVars, checkpoint, queueVars, probe>>

\* The work ends with an error, or its completion is fenced.
WorkFails(w) ==
  /\ Working(w)
  /\ \/ MoveTo(w, "failing", "transient")
     \/ MoveTo(w, "failing", "permanent")
     \/ Kind[handler[w].run] = "answer" /\ MoveTo(w, "failing", "media_missing")
     \/ ~Fence(w) /\ MoveTo(w, "failing", "fenced")
  /\ UNCHANGED <<jobVars, queueVars, probe, faults>>

\* The process is asked to stop while the slot works or saves its error.
Shutdown(w) ==
  /\ handler[w].phase \in {"working", "failing"}
  /\ handler[w].note # "shutdown"
  /\ Fault("shutdown")
  /\ MoveTo(w, "failing", "shutdown")
  /\ UNCHANGED <<jobVars, queueVars, probe>>

-----------------------------------------------------------------------------
(* handle: saving the outcome of failed work.                              *)

Failing(w, note) == handler[w].phase = "failing" /\ handler[w].note = note

\* An execution gives its run up without a terminal status.
Release(w, next, outcome) ==
  LET h == handler[w] IN
  /\ status' = [status EXCEPT ![h.run] = next]
  /\ owner' = [owner EXCEPT ![h.run] = Nobody]
  /\ lease' = [lease EXCEPT ![h.run] = "none"]
  /\ attempts' = [attempts EXCEPT ![h.run][h.epoch] = outcome]

\* ErrFenced ends the delivery without touching the run.
FencedEnds(w) ==
  /\ Failing(w, "fenced")
  /\ MoveTo(w, "acking", "nil")
  /\ UNCHANGED <<jobVars, queueVars, probe, faults>>

\* Suspend by an execution that is no longer the run's, or no longer fenced in.
SuspendRefused(w) ==
  LET h == handler[w] IN
  /\ Failing(w, "shutdown")
  /\ \/ epoch[h.run] # h.epoch
     \/ status[h.run] # "cancel_requested" /\ ~Fence(w)
  /\ MoveTo(w, "acking", "busy")
  /\ UNCHANGED <<jobVars, queueVars, probe, faults>>

SuspendCanceled(w) ==
  LET h == handler[w] IN
  /\ Failing(w, "shutdown")
  /\ epoch[h.run] = h.epoch /\ status[h.run] = "cancel_requested"
  /\ Terminate(h.run, "canceled")
  /\ MoveTo(w, "acking", "busy")
  /\ UNCHANGED <<failures, queueVars, probe, faults>>

\* A graceful stop keeps the checkpoint and spends no retry.
Suspend(w) ==
  /\ Failing(w, "shutdown") /\ Fence(w)
  /\ Release(w, "retry_wait", "interrupted")
  /\ MoveTo(w, "acking", "busy")
  /\ UNCHANGED <<planVars, workVars, wanted, queueVars, probe, faults>>

\* Mutant of JoinableRestores: one that is being stopped counts.
LiveRestores == ActiveRestores

\* Restores that a question may wait for.
JoinableRestores ==
  {d \in ActiveRestores : status[d] \in {"queued", "running", "retry_wait"}}

\* WaitForRestore: the question waits for a restore in progress ...
WaitForActiveRestore(w, d) ==
  LET r == handler[w].run IN
  /\ Failing(w, "media_missing") /\ Fence(w)
  /\ ~restoreUsed[r]
  /\ d \in JoinableRestores
  /\ Release(w, "waiting_dependency", "waiting_dependency")
  /\ dependency' = [dependency EXCEPT ![r] = d]
  /\ restoreUsed' = [restoreUsed EXCEPT ![r] = TRUE]
  /\ MoveTo(w, "acking", "nil")
  /\ UNCHANGED <<generation, epoch, failures, overdue, workVars, wanted,
                  queueVars, probe, faults>>

\* ... or for one that the same transaction creates.
WaitForNewRestore(w, d) ==
  LET h == handler[w] IN
  /\ Failing(w, "media_missing") /\ Fence(w)
  /\ ~restoreUsed[h.run]
  /\ ActiveRestores = {}
  /\ Kind[d] = "restore" /\ status[d] = "absent"
  /\ status' = [status EXCEPT ![h.run] = "waiting_dependency", ![d] = "queued"]
  /\ generation' = [generation EXCEPT ![d] = 1]
  /\ outbox' = [outbox EXCEPT ![d][1] = "pending"]
  /\ owner' = [owner EXCEPT ![h.run] = Nobody]
  /\ lease' = [lease EXCEPT ![h.run] = "none"]
  /\ attempts' = [attempts EXCEPT ![h.run][h.epoch] = "waiting_dependency"]
  /\ dependency' = [dependency EXCEPT ![h.run] = d]
  /\ restoreUsed' = [restoreUsed EXCEPT ![h.run] = TRUE]
  /\ MoveTo(w, "acking", "nil")
  /\ UNCHANGED <<epoch, failures, overdue, workVars, wanted, broker, probe,
                  faults>>

\* The wait is refused: fenced, already used once, no capacity for a new
\* restore, or the active-work index still holds a restore that is stopping.
RestoreRefused(w) ==
  LET r == handler[w].run IN
  /\ Failing(w, "media_missing")
  /\ IF ~Fence(w) THEN MoveTo(w, "failing", "fenced")
     ELSE /\ restoreUsed[r] \/ JoinableRestores = {}
          /\ MoveTo(w, "failing", "permanent")
  /\ UNCHANGED <<jobVars, queueVars, probe, faults>>

\* Fail: only the execution of the current epoch, still named as the owner.
FailOwns(w) ==
  LET h == handler[w] IN
  /\ handler[w].phase = "failing" /\ h.note \in {"transient", "permanent"}
  /\ epoch[h.run] = h.epoch /\ owner[h.run] = Process[w]

FailFenced(w) ==
  LET h == handler[w] IN
  /\ h.phase = "failing" /\ h.note \in {"transient", "permanent"}
  /\ ~(epoch[h.run] = h.epoch /\ owner[h.run] = Process[w])
  /\ MoveTo(w, "acking", "nil")
  /\ UNCHANGED <<jobVars, queueVars, probe, faults>>

FailCanceled(w) ==
  LET r == handler[w].run IN
  /\ FailOwns(w) /\ status[r] = "cancel_requested"
  /\ Terminate(r, "canceled")
  /\ MoveTo(w, "acking", "nil")
  /\ UNCHANGED <<failures, queueVars, probe, faults>>

FailRetry(w) ==
  LET r == handler[w].run IN
  /\ FailOwns(w) /\ status[r] \notin Terminal \cup {"cancel_requested"}
  /\ handler[w].note = "transient"
  /\ failures[r] < MaxRetries(r)
  /\ ~overdue[r]
  /\ Release(w, "retry_wait", "retry_wait")
  /\ failures' = [failures EXCEPT ![r] = failures[r] + 1]
  /\ MoveTo(w, "acking", "retry")
  /\ UNCHANGED <<generation, epoch, dependency, restoreUsed, overdue, workVars,
                  wanted, queueVars, probe, faults>>

\* No retry: a permanent failure, or a budget or the deadline leaves no room.
FailFinal(w) ==
  LET r == handler[w].run IN
  /\ FailOwns(w) /\ status[r] \notin Terminal \cup {"cancel_requested"}
  /\ Terminate(r, "failed")
  /\ MoveTo(w, "acking", "nil")
  /\ UNCHANGED <<failures, queueVars, probe, faults>>

\* The database refuses the save: the run keeps its claim until the lease runs
\* out (a refused WaitForRestore goes on to Fail instead).
SaveError(w) ==
  /\ handler[w].phase = "failing" /\ handler[w].note # "fenced"
  /\ Fault("database")
  /\ IF handler[w].note = "media_missing"
     THEN MoveTo(w, "failing", "permanent")
     ELSE MoveTo(w, "acking", "error")
  /\ UNCHANGED <<jobVars, queueVars, probe>>

Save(w) ==
  \/ FencedEnds(w)
  \/ SuspendRefused(w) \/ SuspendCanceled(w) \/ Suspend(w)
  \/ \E d \in Runs : WaitForActiveRestore(w, d) \/ WaitForNewRestore(w, d)
  \/ RestoreRefused(w)
  \/ FailFenced(w) \/ FailCanceled(w) \/ FailRetry(w) \/ FailFinal(w)

\* The process of the slot dies.
Crash(w) ==
  /\ handler[w].phase # "idle"
  /\ Fault("crash")
  /\ handler' = [handler EXCEPT ![w] = Idle]
  /\ UNCHANGED <<jobVars, queueVars, probe>>

-----------------------------------------------------------------------------
(* The reconciler.                                                         *)

\* Mutant of TaskView: the broker's state as it is.
TaskViewRaw(r) == broker[r][generation[r]].state

\* Recoverable lists the run, GetTaskInfo answers; both are stale from here on.
TaskView(r) ==
  LET state == broker[r][generation[r]].state IN
  CASE state = "missing" -> "missing"
    [] state \in {"completed", "archived"} -> "ended"
    [] OTHER -> "other"

Observe(r) ==
  /\ Live(r) /\ probe[r] = NoProbe
  /\ \E view \in {TaskView(r), "other"} :
       /\ probe' = [probe EXCEPT ![r] = [gen |-> generation[r], view |-> view]]
       /\ IF view = TaskView(r) THEN NoFault ELSE Fault("redis")
  /\ UNCHANGED <<jobVars, queueVars, handler>>

Probed(r) == probe[r] # NoProbe
Forget(r) == probe' = [probe EXCEPT ![r] = NoProbe]

\* Repair of the generation that was observed, of a run not yet settled.
Repairable(r) == Probed(r) /\ generation[r] = probe[r].gen /\ Live(r)

\* Past the checks that need no broker state.
OnTime(r) == Repairable(r) /\ status[r] # "cancel_requested" /\ ~overdue[r]

Undelivered(r) == outbox[r][generation[r]] # "delivered"

RepairCanceled(r) ==
  /\ Repairable(r) /\ status[r] = "cancel_requested"
  /\ Terminate(r, "canceled")
  /\ Forget(r)
  /\ UNCHANGED <<failures, queueVars, handler, faults>>

\* Mutant of TooLate: a live lease protects a run beyond its deadline.
TooLateUnleased(r) == overdue[r] /\ lease[r] # "live"

\* The deadline passed, the queue limit, the stall limit of a running
\* execution, or the limit on an undelivered outbox row.
TooLate(r) ==
  \/ overdue[r]
  \/ status[r] \in {"queued", "retry_wait", "running"}
  \/ Undelivered(r)

RepairTooLate(r) ==
  /\ Repairable(r) /\ status[r] # "cancel_requested"
  /\ TooLate(r)
  /\ Terminate(r, "failed")
  /\ Forget(r)
  /\ UNCHANGED <<failures, queueVars, handler, faults>>

\* Mutant of Lost: a failed restore is waited for.
LostByCancel(d) == status[d] = "canceled"

Lost(d) == status[d] \in {"failed", "canceled"}

\* wakeDependency: the restore is lost ...
RepairRestoreLost(r) ==
  /\ OnTime(r) /\ status[r] = "waiting_dependency"
  /\ Lost(dependency[r])
  /\ Terminate(r, "failed")
  /\ Forget(r)
  /\ UNCHANGED <<failures, queueVars, handler, faults>>

\* Mutant of Redispatch: the new generation has no outbox row.
RedispatchUnsent(r, g) ==
  generation' = [generation EXCEPT ![r] = g] /\ UNCHANGED outbox

\* A new dispatch generation and its outbox row.
Redispatch(r, g) ==
  /\ generation' = [generation EXCEPT ![r] = g]
  /\ outbox' = [outbox EXCEPT ![r][g] = "pending"]

\* ... or done: the question is queued again under a new generation.
RepairWake(r) ==
  LET g == generation[r] + 1 IN
  /\ OnTime(r) /\ status[r] = "waiting_dependency"
  /\ status[dependency[r]] = "succeeded"
  /\ g <= MaxGeneration
  /\ status' = [status EXCEPT ![r] = "queued"]
  /\ dependency' = [dependency EXCEPT ![r] = NoRun]
  /\ Redispatch(r, g)
  /\ Forget(r)
  /\ UNCHANGED <<epoch, failures, owner, lease, restoreUsed, overdue, workVars,
                  wanted, attempts, broker, handler, faults>>

\* Neither waiting for a restore nor protected by a live lease.
Unattended(r) ==
  /\ OnTime(r) /\ status[r] # "waiting_dependency"
  /\ lease[r] # "live"

\* The broker is done with the task and the run has no result.
RepairEnded(r) ==
  /\ Unattended(r)
  /\ probe[r].view = "ended"
  /\ Terminate(r, "failed")
  /\ Forget(r)
  /\ UNCHANGED <<failures, queueVars, handler, faults>>

\* The broker has no task and no outbox row will bring one: deliver again under
\* a new generation.
RepairMissing(r) ==
  LET g == generation[r] + 1 IN
  /\ Unattended(r)
  /\ probe[r].view = "missing"
  /\ ~Undelivered(r)
  /\ g <= RepairLimit(r)
  /\ Redispatch(r, g)
  /\ Forget(r)
  /\ UNCHANGED <<holdVars, epoch, failures, dependency, restoreUsed, overdue,
                  workVars, broker, handler, faults>>

\* Everything else leaves the run alone.
RepairNothing(r) ==
  /\ Probed(r)
  /\ \/ ~Repairable(r)
     \/ /\ OnTime(r) /\ status[r] = "waiting_dependency"
        /\ status[dependency[r]] \notin Terminal
     \/ /\ OnTime(r) /\ status[r] # "waiting_dependency" /\ lease[r] = "live"
     \/ /\ Unattended(r)
        /\ \/ probe[r].view = "other"
           \/ /\ probe[r].view = "missing"
              /\ \/ Undelivered(r)
                 \/ status[r] = "retry_wait"   \* retry_not_before still ahead
                 \/ generation[r] >= RepairLimit(r)
  /\ Forget(r)
  /\ UNCHANGED <<jobVars, queueVars, handler, faults>>

Repair(r) ==
  \/ RepairCanceled(r) \/ RepairTooLate(r) \/ RepairRestoreLost(r)
  \/ RepairWake(r) \/ RepairEnded(r) \/ RepairMissing(r) \/ RepairNothing(r)

-----------------------------------------------------------------------------
(* Time.                                                                   *)

\* A slot is executing the current attempt of run r.
Executing(w, r) ==
  /\ handler[w].phase \in {"working", "failing"}
  /\ handler[w].run = r /\ handler[w].epoch = epoch[r]

\* A lease runs out once nobody renews it, or although somebody should.
LeaseExpires(r) ==
  /\ lease[r] = "live"
  /\ lease' = [lease EXCEPT ![r] = "expired"]
  /\ IF \E w \in Slots : Executing(w, r) THEN Fault("stall") ELSE NoFault
  /\ UNCHANGED <<status, planVars, owner, workVars, wanted, attempts, queueVars,
                  handler, probe>>

DeadlinePasses(r) ==
  /\ "deadline" \in Events /\ Live(r) /\ ~overdue[r]
  /\ overdue' = [overdue EXCEPT ![r] = TRUE]
  /\ UNCHANGED <<holdVars, generation, epoch, failures, dependency, restoreUsed,
                  workVars, queueVars, handler, probe, faults>>

-----------------------------------------------------------------------------

Request == \E r \in Runs : Create(r) \/ Join(r) \/ Cancel(r)

Dispatch(r, g) == OutboxClaim(r, g) \/ Enqueue(r, g) \/ OutboxDelivered(r, g)

Handle(w) == Claim(w) \/ ReadBack(w) \/ FinishRun(w) \/ WorkFails(w) \/ Save(w) \/ Ack(w)

Disturbance(w) == ClaimError(w) \/ SaveError(w) \/ Shutdown(w) \/ Crash(w)

Next ==
  \/ Request
  \/ \E r \in Runs, g \in Generations :
       \/ Dispatch(r, g) \/ OutboxRetry(r, g)
       \/ Redeliver(r, g) \/ LoseTask(r, g)
       \/ \E w \in Slots : Take(w, r, g)
  \/ \E w \in Slots : Handle(w) \/ Heartbeat(w) \/ Checkpoint(w) \/ Disturbance(w)
  \/ \E r \in Runs : Observe(r) \/ Repair(r) \/ LeaseExpires(r) \/ DeadlinePasses(r)

Spec == Init /\ [][Next]_vars

\* The reconciler runs on a ticker and visits every live run, and time passes.
ReconcileFairness ==
  \A r \in Runs :
    /\ WF_vars(Observe(r) /\ NoFault) /\ WF_vars(Repair(r))
    /\ WF_vars(DeadlinePasses(r))

\* The dispatcher runs on a ticker; the broker delivers what it holds and
\* recovers the tasks of dead slots; every handler step ends, the work at the
\* latest with its context deadline; a lease nobody renews runs out.  Strong
\* fairness where a slot is shared by all tasks (Take), and where a retry time
\* that is a free choice of each transaction must come in the end (Claim, Repair).
DeliveryFairness ==
  /\ \A r \in Runs, g \in Generations :
       /\ WF_vars(Dispatch(r, g)) /\ WF_vars(Redeliver(r, g) /\ NoFault)
       /\ SF_vars(\E w \in Slots : Take(w, r, g))
  /\ \A w \in Slots : WF_vars(Handle(w)) /\ SF_vars(ClaimGranted(w) \/ ClaimExhausted(w))
  /\ \A r \in Runs : WF_vars(LeaseExpires(r) /\ NoFault) /\ SF_vars(RepairMissing(r))

\* Only the reconciler works: no dispatcher, broker or slot need ever act.
ReconciledSpec == Spec /\ ReconcileFairness

\* The whole system works, between finitely many faults.
FairSpec == Spec /\ ReconcileFairness /\ DeliveryFairness

-----------------------------------------------------------------------------
(* Safety.                                                                 *)

\* The attempts of a run are numbered by its epochs without a gap, exactly the
\* current one is open while the run is running, and the one that succeeded is
\* the one whose result is kept.  (Claim, Fail, Suspend, WaitForRestore,
\* finishRun and terminate each close attempts in a way of their own.)
AttemptsMatchStatus ==
  \A r \in Runs :
    /\ status[r] = "running" => attempts[r][epoch[r]] = "open"
    /\ \A e \in Epochs :
         /\ attempts[r][e] = "none" <=> e > epoch[r]
         /\ attempts[r][e] = "succeeded" <=> e = result[r]
         /\ attempts[r][e] = "open" =>
              e = epoch[r] /\ status[r] \in {"running", "cancel_requested"}

\* failure_count is the number of attempts that failed or were lost, whatever
\* mixture of retries, takeovers and graceful stops the run went through, and
\* it passes the retry allowance only on a run that has failed for it.
FailuresAccounted ==
  \A r \in Runs :
    /\ failures[r] = Cardinality({e \in Epochs :
                         attempts[r][e] \in {"lease_expired", "retry_wait"}})
    /\ failures[r] > MaxRetries(r) => status[r] = "failed"

\* However many executions of a run are alive, at most one passes the fence.
SoleWriter ==
  \A v, w \in Slots :
    v # w /\ Working(v) /\ Working(w) /\ handler[v].run = handler[w].run
      => ~(Fence(v) /\ Fence(w))

\* A run is stopped or canceled only when nobody needs it: in particular a
\* question never waits for a restore that is being stopped.
CancelMeansUnneeded ==
  \A r \in Runs :
    status[r] \in {"cancel_requested", "canceled"} => ~Needed(r, NoRun)

\* Claims, takeovers and heartbeats never bring more executions under a live
\* lease than the setting, or the source limit, admits.
CapacityRespected ==
  /\ Cardinality(Occupying) <= VideoSlots
  /\ Cardinality({x \in Occupying : IsSource(x)}) <= SourceSlots

\* A row of the outbox counts as delivered, for the current generation of a
\* live run, only if the broker has the task, whatever dies in between.
\* (Stated for instances in which Redis loses nothing.)
DeliveredIsEnqueued ==
  \A r \in Runs : \A g \in Generations :
    Live(r) /\ g = generation[r] /\ outbox[r][g] \in {"sent", "delivered"}
      => broker[r][g].state # "missing"

\* An execution slot is given back only when the canceled execution has
\* stopped, or its lease has run out: the comment of admitExecution.
CancelingKeepsCapacity ==
  [][\A r \in Runs :
       r \in Occupying /\ status[r] = "cancel_requested"
         => \/ r \in Occupying' \/ lease'[r] = "expired"
            \/ \A w \in Slots : ~Executing(w, r)']_vars

-----------------------------------------------------------------------------
(* The promise.                                                            *)

\* What an outside reader makes of a status.
PhaseOf(s) ==
  CASE s \in {"queued", "retry_wait", "waiting_dependency"} -> "open"
    [] s = "running" -> "executing"
    [] s = "cancel_requested" -> "stopping"
    [] OTHER -> s

PromisedPhase == [r \in Runs |-> PhaseOf(status[r])]

Promise == INSTANCE RunPromise WITH
             phase <- PromisedPhase, executions <- epoch, saved <- checkpoint

\* The lifecycle keeps the promise: to an outside reader there is one execution
\* of a run at a time, and nothing an earlier one does shows.
KeepsPromise == Promise!Spec

-----------------------------------------------------------------------------
(* Shared work.                                                            *)

WorkState(r) ==
  CASE status[r] = "absent" -> "none"
    [] status[r] = "cancel_requested" -> "stopping"
    [] status[r] \in Terminal -> "over"
    [] OTHER -> "working"

\* Who needs run r: a request or question of a visitor, the runs that wait for it.
Demand(r) ==
  IF Live(r)
  THEN {q \in Runs : dependency[q] = r /\ status[q] = "waiting_dependency"}
         \cup (IF wanted[r] THEN {NoRun} ELSE {})
  ELSE {}

\* Runs that waited for r and are being stopped.
Leaving(r) ==
  IF WorkState(r) = "working"
  THEN {q \in Runs : dependency[q] = r /\ status[q] = "cancel_requested"} ELSE {}

Shared == INSTANCE SharedWork WITH
  Works <- Runs, Askers <- Runs \cup {NoRun},
  state <- [r \in Runs |-> WorkState(r)], demand <- [r \in Runs |-> Demand(r)],
  leaving <- [r \in Runs |-> Leaving(r)]

\* Runs are shared work: one is stopped when, and only when, the last visitor or
\* question that needs it lets go of it.
SharesWork == Shared!Spec

-----------------------------------------------------------------------------
(* Liveness.                                                               *)

\* The deadline settles every accepted run, with the reconciler alone.
EveryRunSettles ==
  \A r \in Runs : status[r] # "absent" ~> status[r] \in Terminal

\* A question waiting for a restore that is over goes on, or fails, without the
\* deadline's help.
RestoreWaitEnds ==
  \A r, d \in Runs :
    status[r] = "waiting_dependency" /\ dependency[r] = d /\ status[d] \in Terminal
      ~> status[r] # "waiting_dependency"
=============================================================================

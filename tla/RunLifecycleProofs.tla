------------------------- MODULE RunLifecycleProofs -------------------------
(***************************************************************************)
(* RunLifecycle is well typed, lets one execution of a run at a time pass  *)
(* the fence, and implements RunPromise: for every set of runs, slots and  *)
(* processes, every bound and every choice of events and faults.           *)
(***************************************************************************)
EXTENDS RunLifecycle, FiniteSetTheorems, TLAPS

\* The conjuncts of TypeOK about handler, and about the probe and the faults.
SlotsTypeOK ==
  /\ handler \in [Slots -> Executions]
  /\ \A w \in Slots :
       handler[w].phase # "idle" => handler[w].run \in Runs /\ handler[w].gen \in Generations

ProbeTypeOK == probe \in [Runs -> [gen : 0 .. MaxGeneration, view : Views]]

FaultsTypeOK == faults \in 0 .. FaultBudget

JobTypeOK == HoldTypeOK /\ PlanTypeOK /\ WorkTypeOK

LEMMA TypeParts ==
  /\ TypeOK <=> JobTypeOK /\ QueueTypeOK /\ SlotsTypeOK /\ ProbeTypeOK /\ FaultsTypeOK
  /\ TypeOK' <=> JobTypeOK' /\ QueueTypeOK' /\ SlotsTypeOK' /\ ProbeTypeOK' /\ FaultsTypeOK'
BY DEF TypeOK, JobTypeOK, SlotsTypeOK, ProbeTypeOK, FaultsTypeOK

-----------------------------------------------------------------------------
(* What the pieces of the actions keep.                                    *)

LEMMA SlotType ==
  ASSUME SlotsTypeOK, NEW w \in Slots, NEW x \in Executions,
         x.phase # "idle" => x.run \in Runs /\ x.gen \in Generations,
         handler' = [handler EXCEPT ![w] = x]
  PROVE  SlotsTypeOK'
BY DEF SlotsTypeOK

LEMMA MoveToType ==
  ASSUME SlotsTypeOK, NEW w \in Slots, NEW phase \in Phases,
         NEW note \in Errors \cup Acks \cup {"none"},
         handler[w].phase # "idle", MoveTo(w, phase, note)
  PROVE  SlotsTypeOK'
<1>1. handler[w] \in Executions
  BY DEF SlotsTypeOK
<1>2. [handler[w] EXCEPT !.phase = phase, !.note = note] \in Executions
  BY <1>1 DEF Executions
<1> QED BY <1>2 DEF SlotsTypeOK, MoveTo, Executions

LEMMA FaultType ==
  ASSUME FaultsTypeOK, NoFault \/ \E k \in FaultKinds : Fault(k)
  PROVE  FaultsTypeOK'
BY BoundsAssumption DEF FaultsTypeOK, Fault, NoFault

LEMMA TaskType ==
  ASSUME QueueTypeOK, UNCHANGED outbox,
         NEW r \in Runs, NEW g \in Generations, NEW task \in Tasks,
         broker' = [broker EXCEPT ![r][g] = task]
  PROVE  QueueTypeOK'
BY DEF QueueTypeOK

LEMMA UnchangedType ==
  /\ JobTypeOK /\ UNCHANGED jobVars => JobTypeOK'
  /\ QueueTypeOK /\ UNCHANGED queueVars => QueueTypeOK'
  /\ SlotsTypeOK /\ UNCHANGED handler => SlotsTypeOK'
  /\ ProbeTypeOK /\ UNCHANGED probe => ProbeTypeOK'
  /\ FaultsTypeOK /\ UNCHANGED faults => FaultsTypeOK'
<1>1. JobTypeOK /\ UNCHANGED jobVars => JobTypeOK'
  BY DEF JobTypeOK, HoldTypeOK, PlanTypeOK, WorkTypeOK, jobVars, holdVars, planVars, workVars
<1>2. QueueTypeOK /\ UNCHANGED queueVars => QueueTypeOK'
  BY DEF QueueTypeOK, queueVars
<1> QED BY <1>1, <1>2 DEF SlotsTypeOK, ProbeTypeOK, FaultsTypeOK

LEMMA TerminateType ==
  ASSUME JobTypeOK, NEW r \in Runs, NEW outcome \in Terminal,
         Terminate(r, outcome), UNCHANGED failures
  PROVE  JobTypeOK'
<1>1. status' \in [Runs -> Statuses]
  BY DEF JobTypeOK, HoldTypeOK, Terminate, Settled, Statuses
<1>2. attempts' \in [Runs -> [Epochs -> Outcomes]]
  BY DEF JobTypeOK, HoldTypeOK, Terminate, CloseAttempts, Outcomes
<1> QED BY <1>1, <1>2
        DEF JobTypeOK, HoldTypeOK, PlanTypeOK, WorkTypeOK, Terminate, workVars

LEMMA ForgetType ==
  ASSUME ProbeTypeOK, NEW r \in Runs, Forget(r)
  PROVE  ProbeTypeOK'
<1>1. NoProbe \in [gen : 0 .. MaxGeneration, view : Views]
  BY BoundsAssumption DEF NoProbe, Views
<1> QED BY <1>1 DEF ProbeTypeOK, Forget

LEMMA ReleaseType ==
  ASSUME HoldTypeOK, NEW w \in Slots, NEW next \in Statuses, NEW outcome \in Outcomes,
         Release(w, next, outcome), UNCHANGED wanted
  PROVE  HoldTypeOK'
<1> DEFINE h == handler[w]
<1>1. attempts' \in [Runs -> [Epochs -> Outcomes]]
  BY DEF HoldTypeOK, Release
<1> QED BY <1>1 DEF HoldTypeOK, Release

-----------------------------------------------------------------------------

LEMMA InitType == Init => TypeOK
<1> SUFFICES ASSUME Init PROVE TypeOK
  OBVIOUS
<1> USE SetsAssumption, BoundsAssumption DEF Init
<1>1. HoldTypeOK
  BY DEF HoldTypeOK, Statuses, Outcomes
<1>2. PlanTypeOK /\ WorkTypeOK
  BY DEF PlanTypeOK, WorkTypeOK
<1>3. QueueTypeOK
  BY DEF QueueTypeOK, RowStates, Tasks, NoTask, TaskStates
<1>4. SlotsTypeOK
  BY DEF SlotsTypeOK, Executions, Idle, Phases
<1>5. ProbeTypeOK /\ FaultsTypeOK
  BY DEF ProbeTypeOK, FaultsTypeOK, NoProbe, Views
<1> QED BY <1>1, <1>2, <1>3, <1>4, <1>5, TypeParts DEF JobTypeOK

LEMMA RequestType ==
  ASSUME TypeOK, NEW r \in Runs, Create(r) \/ Join(r) \/ Cancel(r)
  PROVE  TypeOK'
<1> SUFFICES JobTypeOK' /\ QueueTypeOK'
  BY TypeParts, UnchangedType DEF Create, Join, Cancel
<1> USE TypeParts
<1>1. CASE Create(r)
  <2>1. HoldTypeOK' /\ PlanTypeOK' /\ WorkTypeOK'
    BY <1>1, BoundsAssumption
    DEF Create, JobTypeOK, HoldTypeOK, PlanTypeOK, WorkTypeOK, Statuses, workVars
  <2>2. QueueTypeOK'
    BY <1>1, BoundsAssumption DEF Create, QueueTypeOK, RowStates, Generations
  <2> QED BY <1>1, <2>1, <2>2 DEF Create, JobTypeOK
<1>2. CASE Join(r)
  BY <1>2 DEF Join, JobTypeOK, HoldTypeOK, PlanTypeOK, WorkTypeOK, QueueTypeOK,
              planVars, workVars, queueVars
<1>3. CASE Cancel(r)
  BY <1>3 DEF Cancel, JobTypeOK, HoldTypeOK, PlanTypeOK, WorkTypeOK, QueueTypeOK,
              planVars, workVars, queueVars, Statuses
<1> QED BY <1>1, <1>2, <1>3

LEMMA DispatchType ==
  ASSUME TypeOK, NEW r \in Runs, NEW g \in Generations,
         Dispatch(r, g) \/ OutboxRetry(r, g)
  PROVE  TypeOK'
<1> USE TypeParts DEF QueueTypeOK, RowStates
<1>1. QueueTypeOK'
  <2>1. CASE OutboxClaim(r, g)
    BY <2>1 DEF OutboxClaim
  <2>2. CASE Enqueue(r, g)
    BY <2>2 DEF Enqueue, Tasks, TaskStates
  <2>3. CASE OutboxDelivered(r, g)
    BY <2>3 DEF OutboxDelivered
  <2>4. CASE OutboxRetry(r, g)
    BY <2>4 DEF OutboxRetry
  <2> QED BY <2>1, <2>2, <2>3, <2>4 DEF Dispatch
<1>2. FaultsTypeOK'
  BY FaultType DEF Dispatch, OutboxClaim, Enqueue, OutboxDelivered, OutboxRetry,
                   NoFault, FaultKinds
<1> QED BY <1>1, <1>2, UnchangedType
        DEF Dispatch, OutboxClaim, Enqueue, OutboxDelivered, OutboxRetry

LEMMA BrokerType ==
  ASSUME TypeOK, NEW r \in Runs, NEW g \in Generations,
         \/ Redeliver(r, g) \/ LoseTask(r, g)
         \/ \E w \in Slots : Take(w, r, g)
  PROVE  TypeOK'
<1>1. QueueTypeOK'
  <2> USE TypeParts DEF QueueTypeOK
  <2>1. CASE Redeliver(r, g)
    BY <2>1 DEF Redeliver, Tasks, TaskStates
  <2>2. CASE LoseTask(r, g)
    <3>1. NoTask \in Tasks
      BY DEF NoTask, Tasks, TaskStates
    <3> QED BY <2>2, <3>1 DEF LoseTask
  <2>3. ASSUME NEW w \in Slots, Take(w, r, g) PROVE QueueTypeOK'
    BY <2>3 DEF Take, Tasks, TaskStates
  <2> QED BY <2>1, <2>2, <2>3
<1>2. SlotsTypeOK'
  <2>1. CASE Redeliver(r, g) \/ LoseTask(r, g)
    BY <2>1, TypeParts, UnchangedType DEF Redeliver, LoseTask
  <2>2. ASSUME NEW w \in Slots, Take(w, r, g) PROVE SlotsTypeOK'
    <3> DEFINE x == [phase |-> "delivered", run |-> r, gen |-> g, epoch |-> 0,
                     note |-> "none"]
    <3>1. x \in Executions /\ x.run \in Runs /\ x.gen \in Generations
      BY BoundsAssumption DEF Executions, Phases, Generations
    <3>2. handler' = [handler EXCEPT ![w] = x]
      BY <2>2 DEF Take
    <3> HIDE DEF x
    <3> QED BY <3>1, <3>2, SlotType, TypeParts
  <2> QED BY <2>1, <2>2
<1>3. FaultsTypeOK'
  BY TypeParts, FaultType DEF Redeliver, LoseTask, Take, NoFault, FaultKinds
<1> QED BY <1>1, <1>2, <1>3, TypeParts, UnchangedType DEF Redeliver, LoseTask, Take

\* A slot whose handler is busy has a run and an execution record.
LEMMA Busy ==
  ASSUME TypeOK, NEW w \in Slots, handler[w].phase # "idle"
  PROVE  handler[w].run \in Runs /\ handler[w] \in Executions
BY DEF TypeOK

\* A step of a slot that only moves its handler on.
LEMMA OnlyMovesType ==
  ASSUME TypeOK, NEW w \in Slots, NEW phase \in Phases,
         NEW note \in Errors \cup Acks \cup {"none"},
         handler[w].phase # "idle", MoveTo(w, phase, note),
         UNCHANGED <<jobVars, queueVars, probe>>,
         NoFault \/ \E k \in FaultKinds : Fault(k)
  PROVE  TypeOK'
BY TypeParts, MoveToType, FaultType, UnchangedType

\* A step of a slot that settles its run.
LEMMA TerminatesType ==
  ASSUME TypeOK, NEW w \in Slots, NEW outcome \in Terminal, NEW phase \in Phases,
         NEW note \in Errors \cup Acks \cup {"none"},
         handler[w].phase # "idle", Terminate(handler[w].run, outcome),
         MoveTo(w, phase, note), UNCHANGED <<failures, queueVars, probe, faults>>
  PROVE  TypeOK'
BY Busy, TypeParts, MoveToType, TerminateType, UnchangedType

LEMMA ClaimGrantedType ==
  ASSUME TypeOK, NEW w \in Slots, ClaimGranted(w)
  PROVE  TypeOK'
<1> DEFINE r == handler[w].run
           e == epoch[r] + 1
           x == [handler[w] EXCEPT !.phase = "working", !.epoch = e]
<1>1. r \in Runs /\ handler[w] \in Executions
  BY Busy DEF ClaimGranted, Claimable, Delivered
<1>2. e \in Epochs /\ e \in 0 .. MaxEpoch
  BY <1>1, BoundsAssumption DEF TypeOK, PlanTypeOK, ClaimGranted, Epochs
<1>3. SlotsTypeOK'
  <2>1. \A n \in 0 .. MaxEpoch :
          [handler[w] EXCEPT !.phase = "working", !.epoch = n] \in Executions
    BY <1>1 DEF Executions, Phases
  <2>2. x \in Executions
    BY <1>2, <2>1
  <2>3. x.run \in Runs /\ x.gen \in Generations
    BY <1>1 DEF TypeOK, Executions, ClaimGranted, Claimable, Delivered
  <2>4. handler' = [handler EXCEPT ![w] = x]
    BY DEF ClaimGranted
  <2> HIDE DEF x
  <2> QED BY <2>2, <2>3, <2>4, SlotType, TypeParts
<1>4. attempts' \in [Runs -> [Epochs -> Outcomes]]
  <2>1. ClaimClosed(r) \in [Epochs -> Outcomes]
    BY <1>1 DEF TypeOK, HoldTypeOK, ClaimClosed, CloseAttempts, Outcomes
  <2> QED BY <1>1, <2>1 DEF TypeOK, HoldTypeOK, ClaimGranted, Outcomes
<1>5. HoldTypeOK'
  BY <1>1, <1>4 DEF TypeOK, HoldTypeOK, ClaimGranted, Statuses, Processes
<1>6. PlanTypeOK' /\ WorkTypeOK'
  BY <1>1, <1>2
  DEF TypeOK, PlanTypeOK, WorkTypeOK, workVars, ClaimGranted, ClaimFailures
<1> QED BY <1>3, <1>5, <1>6, TypeParts, UnchangedType DEF ClaimGranted, JobTypeOK

LEMMA ClaimExhaustedType ==
  ASSUME TypeOK, NEW w \in Slots, ClaimExhausted(w)
  PROVE  TypeOK'
<1> DEFINE r == handler[w].run
<1>1. r \in Runs /\ handler[w].phase # "idle"
  BY Busy DEF ClaimExhausted, Claimable, Delivered
<1>2. SlotsTypeOK'
  BY <1>1, MoveToType, TypeParts DEF ClaimExhausted, Phases
<1>3. attempts' \in [Runs -> [Epochs -> Outcomes]]
  <2>1. ClaimClosed(r) \in [Epochs -> Outcomes]
    BY <1>1 DEF TypeOK, HoldTypeOK, ClaimClosed, CloseAttempts, Outcomes
  <2> QED BY <1>1, <2>1 DEF TypeOK, HoldTypeOK, ClaimExhausted
<1>4. status' \in [Runs -> Statuses]
  BY DEF TypeOK, HoldTypeOK, ClaimExhausted, Settled, Statuses, Terminal
<1>5. HoldTypeOK'
  BY <1>3, <1>4 DEF TypeOK, HoldTypeOK, ClaimExhausted
<1>6. PlanTypeOK' /\ WorkTypeOK'
  BY <1>1 DEF TypeOK, PlanTypeOK, WorkTypeOK, workVars, ClaimExhausted, ClaimFailures
<1> QED BY <1>2, <1>5, <1>6, TypeParts, UnchangedType DEF ClaimExhausted, JobTypeOK

LEMMA ClaimType ==
  ASSUME TypeOK, NEW w \in Slots, Claim(w) \/ ClaimError(w) \/ ReadBack(w)
  PROVE  TypeOK'
<1> USE DEF Phases, Errors, Acks
<1>1. CASE ClaimSkip(w)
  BY <1>1, OnlyMovesType DEF ClaimSkip, Delivered, NoFault
<1>2. CASE ClaimCanceled(w)
  BY <1>2, TerminatesType DEF ClaimCanceled, Delivered, Terminal
<1>3. CASE ClaimTooLate(w)
  BY <1>3, TerminatesType DEF ClaimTooLate, Delivered, Terminal
<1>4. CASE ClaimDeferred(w)
  BY <1>4, OnlyMovesType DEF ClaimDeferred, Claimable, Delivered, NoFault
<1>5. CASE ClaimGranted(w)
  BY <1>5, ClaimGrantedType
<1>6. CASE ClaimExhausted(w)
  BY <1>6, ClaimExhaustedType
<1>7. CASE ClaimError(w)
  BY <1>7, OnlyMovesType DEF ClaimError, FaultKinds
<1>8. CASE ReadBack(w)
  BY <1>8, OnlyMovesType DEF ReadBack, NoFault
<1> QED BY <1>1, <1>2, <1>3, <1>4, <1>5, <1>6, <1>7, <1>8 DEF Claim

LEMMA WorkType ==
  ASSUME TypeOK, NEW w \in Slots,
         \/ Heartbeat(w) \/ Checkpoint(w) \/ FinishRun(w) \/ WorkFails(w)
         \/ Shutdown(w) \/ Crash(w) \/ Ack(w)
  PROVE  TypeOK'
<1> USE DEF Phases, Errors, Acks
<1> DEFINE h == handler[w]
<1>1. CASE Heartbeat(w)
  <2>1. JobTypeOK'
    BY <1>1, TypeParts
    DEF Heartbeat, JobTypeOK, HoldTypeOK, PlanTypeOK, WorkTypeOK, planVars, workVars
  <2>2. SlotsTypeOK'
    BY <1>1, MoveToType, UnchangedType, TypeParts DEF Heartbeat, Working
  <2> QED BY <1>1, <2>1, <2>2, UnchangedType, TypeParts DEF Heartbeat
<1>2. CASE Checkpoint(w)
  <2>1. h \in Executions
    BY <1>2, Busy DEF Checkpoint, Working
  <2>2. JobTypeOK'
    BY <1>2, <2>1, TypeParts
    DEF Checkpoint, JobTypeOK, HoldTypeOK, PlanTypeOK, WorkTypeOK, holdVars, planVars,
        Executions
  <2>3. SlotsTypeOK'
    BY <1>2, MoveToType, UnchangedType, TypeParts DEF Checkpoint, Working
  <2> QED BY <1>2, <2>2, <2>3, UnchangedType, TypeParts DEF Checkpoint
<1>3. CASE FinishRun(w)
  <2>1. h.run \in Runs /\ h \in Executions
    BY <1>3, Busy DEF FinishRun, Working
  <2>2. attempts' \in [Runs -> [Epochs -> Outcomes]]
    BY <1>3, <2>1 DEF FinishRun, TypeOK, HoldTypeOK, Outcomes, Terminal
  <2>3. JobTypeOK'
    BY <1>3, <2>1, <2>2, TypeParts
    DEF FinishRun, JobTypeOK, HoldTypeOK, PlanTypeOK, WorkTypeOK, planVars, Statuses,
        Terminal, Executions
  <2>4. SlotsTypeOK' /\ FaultsTypeOK'
    BY <1>3, MoveToType, FaultType, TypeParts DEF FinishRun, Working, FaultKinds
  <2> QED BY <1>3, <2>3, <2>4, UnchangedType, TypeParts DEF FinishRun
<1>4. CASE WorkFails(w)
  BY <1>4, OnlyMovesType DEF WorkFails, Working, NoFault
<1>5. CASE Shutdown(w)
  BY <1>5, OnlyMovesType DEF Shutdown, FaultKinds
<1>6. Idle \in Executions /\ Idle.phase = "idle"
  BY BoundsAssumption DEF Idle, Executions
<1>7. CASE Crash(w)
  <2>1. SlotsTypeOK'
    BY <1>6, <1>7, SlotType, TypeParts DEF Crash
  <2> QED BY <1>7, <2>1, FaultType, UnchangedType, TypeParts DEF Crash, FaultKinds
<1>8. CASE Ack(w)
  <2>1. SlotsTypeOK'
    BY <1>6, <1>8, SlotType, TypeParts DEF Ack
  <2>2. QueueTypeOK'
    <3>1. h.run \in Runs
      BY <1>8, Busy DEF Ack
    <3>2. \A state \in TaskStates : [state |-> state, holder |-> Nobody] \in Tasks
      BY DEF Tasks
    <3>3. \/ UNCHANGED broker
          \/ \E task \in Tasks : broker' = [broker EXCEPT ![h.run][h.gen] = task]
      BY <1>8, <3>2 DEF Ack, TaskStates
    <3>4. UNCHANGED outbox
      BY <1>8 DEF Ack
    <3>5. h.gen \in Generations
      BY <1>8 DEF Ack, TypeOK
    <3> QED BY <3>1, <3>3, <3>4, <3>5, TaskType, TypeParts, UnchangedType DEF queueVars
  <2>3. FaultsTypeOK'
    BY <1>8, FaultType, TypeParts DEF Ack, FaultKinds
  <2> QED BY <1>8, <2>1, <2>2, <2>3, UnchangedType, TypeParts DEF Ack
<1> QED BY <1>1, <1>2, <1>3, <1>4, <1>5, <1>7, <1>8

LEMMA WaitType ==
  ASSUME TypeOK, NEW w \in Slots, NEW d \in Runs,
         WaitForActiveRestore(w, d) \/ WaitForNewRestore(w, d)
  PROVE  TypeOK'
<1> DEFINE h == handler[w]
<1>1. h.run \in Runs /\ h.phase # "idle"
  BY Busy DEF WaitForActiveRestore, WaitForNewRestore, Failing
<1>2. SlotsTypeOK'
  BY <1>1, MoveToType, TypeParts
  DEF WaitForActiveRestore, WaitForNewRestore, Phases, Acks
<1>3. CASE WaitForActiveRestore(w, d)
  <2>1. HoldTypeOK'
    BY <1>3, ReleaseType, TypeParts
    DEF WaitForActiveRestore, JobTypeOK, Statuses, Outcomes
  <2>2. PlanTypeOK' /\ WorkTypeOK'
    BY <1>3, TypeParts
    DEF WaitForActiveRestore, JobTypeOK, PlanTypeOK, WorkTypeOK, workVars
  <2> QED BY <1>2, <1>3, <2>1, <2>2, TypeParts, UnchangedType
          DEF WaitForActiveRestore, JobTypeOK
<1>4. CASE WaitForNewRestore(w, d)
  <2>1. attempts' \in [Runs -> [Epochs -> Outcomes]]
    BY <1>4 DEF WaitForNewRestore, TypeOK, HoldTypeOK, Outcomes
  <2>2. HoldTypeOK'
    BY <1>4, <2>1 DEF WaitForNewRestore, TypeOK, HoldTypeOK, Statuses
  <2>3. PlanTypeOK' /\ WorkTypeOK'
    <3>1. 1 \in 0 .. MaxGeneration
      BY BoundsAssumption
    <3>2. generation' \in [Runs -> 0 .. MaxGeneration]
      BY <1>4, <3>1 DEF WaitForNewRestore, TypeOK, PlanTypeOK
    <3>3. dependency' \in [Runs -> Runs \cup {NoRun}]
      BY <1>4 DEF WaitForNewRestore, TypeOK, PlanTypeOK
    <3> QED BY <1>4, <3>2, <3>3
            DEF WaitForNewRestore, TypeOK, PlanTypeOK, WorkTypeOK, workVars
  <2>4. QueueTypeOK'
    BY <1>4, BoundsAssumption
    DEF WaitForNewRestore, TypeOK, QueueTypeOK, RowStates, Generations
  <2> QED BY <1>2, <1>4, <2>2, <2>3, <2>4, TypeParts, UnchangedType
          DEF WaitForNewRestore, JobTypeOK
<1> QED BY <1>3, <1>4

LEMMA SaveType ==
  ASSUME TypeOK, NEW w \in Slots, Save(w) \/ SaveError(w)
  PROVE  TypeOK'
<1> USE DEF Phases, Errors, Acks
<1>1. CASE FencedEnds(w)
  BY <1>1, OnlyMovesType DEF FencedEnds, Failing, NoFault
<1>2. CASE SuspendRefused(w)
  BY <1>2, OnlyMovesType DEF SuspendRefused, Failing, NoFault
<1>3. CASE SuspendCanceled(w)
  BY <1>3, TerminatesType DEF SuspendCanceled, Failing, Terminal
<1>4. CASE Suspend(w)
  <2>1. HoldTypeOK'
    BY <1>4, ReleaseType, TypeParts DEF Suspend, JobTypeOK, Statuses, Outcomes
  <2>2. PlanTypeOK' /\ WorkTypeOK'
    BY <1>4, TypeParts
    DEF Suspend, JobTypeOK, PlanTypeOK, WorkTypeOK, planVars, workVars
  <2>3. SlotsTypeOK'
    BY <1>4, MoveToType, TypeParts DEF Suspend, Failing
  <2> QED BY <1>4, <2>1, <2>2, <2>3, TypeParts, UnchangedType DEF Suspend, JobTypeOK
<1>5. CASE \E d \in Runs : WaitForActiveRestore(w, d) \/ WaitForNewRestore(w, d)
  BY <1>5, WaitType
<1>6. CASE RestoreRefused(w)
  BY <1>6, OnlyMovesType DEF RestoreRefused, Failing, NoFault
<1>7. CASE FailFenced(w)
  BY <1>7, OnlyMovesType DEF FailFenced, NoFault
<1>8. CASE FailCanceled(w)
  BY <1>8, TerminatesType DEF FailCanceled, FailOwns, Terminal
<1>9. CASE FailRetry(w)
  <2>1. handler[w].run \in Runs /\ handler[w].phase # "idle"
    BY <1>9, Busy DEF FailRetry, FailOwns
  <2>2. HoldTypeOK'
    BY <1>9, ReleaseType, TypeParts DEF FailRetry, JobTypeOK, Statuses, Outcomes
  <2>3. PlanTypeOK' /\ WorkTypeOK'
    BY <1>9, <2>1, TypeParts DEF FailRetry, JobTypeOK, PlanTypeOK, WorkTypeOK, workVars
  <2>4. SlotsTypeOK'
    BY <1>9, <2>1, MoveToType, TypeParts DEF FailRetry
  <2> QED BY <1>9, <2>2, <2>3, <2>4, TypeParts, UnchangedType DEF FailRetry, JobTypeOK
<1>10. CASE FailFinal(w)
  BY <1>10, TerminatesType DEF FailFinal, FailOwns, Terminal
<1>11. CASE SaveError(w)
  BY <1>11, OnlyMovesType DEF SaveError, FaultKinds
<1> QED BY <1>1, <1>2, <1>3, <1>4, <1>5, <1>6, <1>7, <1>8, <1>9, <1>10, <1>11 DEF Save

LEMMA RepairSettlesType ==
  ASSUME TypeOK, NEW r \in Runs, NEW outcome \in Terminal,
         Terminate(r, outcome), Forget(r),
         UNCHANGED <<failures, queueVars, handler, faults>>
  PROVE  TypeOK'
BY TypeParts, TerminateType, ForgetType, UnchangedType

LEMMA RepairType ==
  ASSUME TypeOK, NEW r \in Runs, Observe(r) \/ Repair(r)
  PROVE  TypeOK'
<1> USE DEF Terminal
<1>1. CASE Observe(r)
  <2>1. TaskView(r) \in Views /\ "other" \in Views
    BY DEF TaskView, Views
  <2>2. ProbeTypeOK'
    BY <1>1, <2>1, TypeParts DEF Observe, ProbeTypeOK, JobTypeOK, PlanTypeOK
  <2>3. FaultsTypeOK'
    BY <1>1, FaultType, TypeParts DEF Observe, FaultKinds
  <2> QED BY <1>1, <2>2, <2>3, TypeParts, UnchangedType DEF Observe
<1>2. CASE RepairCanceled(r)
  BY <1>2, RepairSettlesType DEF RepairCanceled
<1>3. CASE RepairTooLate(r)
  BY <1>3, RepairSettlesType DEF RepairTooLate
<1>4. CASE RepairRestoreLost(r)
  BY <1>4, RepairSettlesType DEF RepairRestoreLost
<1>5. CASE RepairEnded(r)
  BY <1>5, RepairSettlesType DEF RepairEnded
<1>6. CASE RepairWake(r) \/ RepairMissing(r)
  <2> DEFINE g == generation[r] + 1
  <2>1. g \in Generations /\ g \in 0 .. MaxGeneration
    BY <1>6, BoundsAssumption
    DEF RepairWake, RepairMissing, RepairLimit, TypeOK, PlanTypeOK, Generations
  <2>2. QueueTypeOK'
    <3>1. UNCHANGED broker /\ outbox' = [outbox EXCEPT ![r][g] = "pending"]
      BY <1>6 DEF RepairWake, RepairMissing, Redispatch
    <3> HIDE DEF g
    <3> QED BY <2>1, <3>1 DEF TypeOK, QueueTypeOK, RowStates
  <2>3. HoldTypeOK'
    BY <1>6 DEF RepairWake, RepairMissing, TypeOK, HoldTypeOK, Statuses, holdVars
  <2>4. PlanTypeOK' /\ WorkTypeOK'
    BY <1>6, <2>1
    DEF RepairWake, RepairMissing, Redispatch, TypeOK, PlanTypeOK, WorkTypeOK, workVars
  <2> QED BY <1>6, <2>2, <2>3, <2>4, TypeParts, ForgetType, UnchangedType
          DEF RepairWake, RepairMissing, JobTypeOK
<1>7. CASE RepairNothing(r)
  BY <1>7, TypeParts, ForgetType, UnchangedType DEF RepairNothing
<1> QED BY <1>1, <1>2, <1>3, <1>4, <1>5, <1>6, <1>7 DEF Repair

LEMMA TimeType ==
  ASSUME TypeOK, NEW r \in Runs, LeaseExpires(r) \/ DeadlinePasses(r)
  PROVE  TypeOK'
<1>1. CASE LeaseExpires(r)
  <2>1. JobTypeOK'
    BY <1>1, TypeParts
    DEF LeaseExpires, JobTypeOK, HoldTypeOK, PlanTypeOK, WorkTypeOK, planVars, workVars
  <2>2. FaultsTypeOK'
    BY <1>1, FaultType, TypeParts DEF LeaseExpires, FaultKinds
  <2> QED BY <1>1, <2>1, <2>2, TypeParts, UnchangedType DEF LeaseExpires
<1>2. CASE DeadlinePasses(r)
  <2>1. JobTypeOK'
    BY <1>2, TypeParts
    DEF DeadlinePasses, JobTypeOK, HoldTypeOK, PlanTypeOK, WorkTypeOK, holdVars, workVars
  <2> QED BY <1>2, <2>1, TypeParts, UnchangedType DEF DeadlinePasses
<1> QED BY <1>1, <1>2

\* Every variable of the lifecycle keeps its type, whatever the environment does.
THEOREM TypeCorrect == Spec => []TypeOK
<1>1. ASSUME TypeOK, [Next]_vars PROVE TypeOK'
  <2>1. CASE Request
    BY <1>1, <2>1, RequestType DEF Request
  <2>2. ASSUME NEW r \in Runs, NEW g \in Generations,
               \/ Dispatch(r, g) \/ OutboxRetry(r, g) \/ Redeliver(r, g) \/ LoseTask(r, g)
               \/ \E w \in Slots : Take(w, r, g)
        PROVE  TypeOK'
    BY <1>1, <2>2, DispatchType, BrokerType
  <2>3. ASSUME NEW w \in Slots,
               Handle(w) \/ Heartbeat(w) \/ Checkpoint(w) \/ Disturbance(w)
        PROVE  TypeOK'
    BY <1>1, <2>3, ClaimType, WorkType, SaveType DEF Handle, Disturbance
  <2>4. ASSUME NEW r \in Runs, Observe(r) \/ Repair(r) \/ LeaseExpires(r) \/ DeadlinePasses(r)
        PROVE  TypeOK'
    BY <1>1, <2>4, RepairType, TimeType
  <2>5. CASE UNCHANGED vars
    BY <1>1, <2>5, TypeParts, UnchangedType DEF vars, queueVars
  <2> QED BY <1>1, <2>1, <2>2, <2>3, <2>4, <2>5 DEF Next
<1> QED BY <1>1, InitType, PTL DEF Spec

-----------------------------------------------------------------------------
(* Whatever is delivered twice, taken over, crashed or saved too late: one *)
(* execution at a time passes the fence of a run, and the lifecycle keeps  *)
(* the promise of RunPromise.  For all constants.                          *)

\* Slot w executes a claim it was granted: the current one of its run or not.
Claimed(w) == handler[w].phase \in {"working", "failing"}

\* A claim in execution has an epoch that its run has given out.
ClaimsNumbered ==
  \A w \in Slots : Claimed(w) => handler[w].epoch \in 1 .. epoch[handler[w].run]

\* No two slots execute the same claim.
ClaimsDistinct ==
  \A v, w \in Slots :
    v # w /\ Claimed(v) /\ Claimed(w) /\ handler[v].run = handler[w].run
      => handler[v].epoch # handler[w].epoch

\* The owner of a run is named only while an execution may hold it.
OwnerHolds ==
  \A r \in Runs : owner[r] # Nobody => status[r] \in {"running", "cancel_requested"}

ClaimsInv == ClaimsNumbered /\ ClaimsDistinct

-----------------------------------------------------------------------------
(* Claims.                                                                 *)

\* No run gives out an epoch, and no slot begins to execute one.
NoNewClaim ==
  /\ UNCHANGED epoch
  /\ \A w \in Slots :
       Claimed(w)' => /\ Claimed(w)
                      /\ handler'[w].run = handler[w].run
                      /\ handler'[w].epoch = handler[w].epoch

LEMMA NoNewClaimKeeps ==
  ASSUME ClaimsInv, NoNewClaim
  PROVE  ClaimsInv'
BY DEF ClaimsInv, ClaimsNumbered, ClaimsDistinct, NoNewClaim, Claimed

LEMMA SameHandler == UNCHANGED <<epoch, handler>> => NoNewClaim
BY DEF NoNewClaim, Claimed

LEMMA MoveToKeepsClaims ==
  ASSUME TypeOK, NEW w \in Slots, NEW phase, NEW note,
         handler[w].phase # "idle", MoveTo(w, phase, note), UNCHANGED epoch,
         phase \in {"working", "failing"} => Claimed(w)
  PROVE  NoNewClaim
<1>1. handler[w] \in Executions /\ handler \in [Slots -> Executions]
  BY DEF TypeOK
<1>2. handler'[w] = [handler[w] EXCEPT !.phase = phase, !.note = note]
  BY <1>1 DEF MoveTo
<1>3. /\ handler'[w].phase = phase /\ handler'[w].run = handler[w].run
      /\ handler'[w].epoch = handler[w].epoch
  BY <1>1, <1>2 DEF Executions
<1>4. \A v \in Slots \ {w} : handler'[v] = handler[v]
  BY <1>1 DEF MoveTo
<1> QED BY <1>3, <1>4 DEF NoNewClaim, Claimed

LEMMA ClaimGrantedClaims ==
  ASSUME TypeOK, ClaimsInv, NEW w \in Slots, ClaimGranted(w)
  PROVE  ClaimsInv'
<1> DEFINE r == handler[w].run
           e == epoch[r] + 1
<1>1. r \in Runs /\ handler \in [Slots -> Executions] /\ epoch[r] \in Nat
      /\ epoch \in [Runs -> 0 .. MaxEpoch]
  BY Busy, BoundsAssumption DEF ClaimGranted, Claimable, Delivered, TypeOK, PlanTypeOK
<1>2. epoch' = [epoch EXCEPT ![r] = e]
  BY DEF ClaimGranted
<1>3. handler'[w].run = r /\ handler'[w].epoch = e
  BY <1>1 DEF ClaimGranted, Executions
<1>4. \A v \in Slots \ {w} : handler'[v] = handler[v]
  BY <1>1 DEF ClaimGranted
<1>5. \A v \in Slots : Claimed(v) => handler[v].run \in Runs /\ epoch[handler[v].run] \in Nat
                                     /\ handler[v].epoch \in Nat
  BY <1>1, BoundsAssumption DEF Claimed, TypeOK, Executions
<1>6. ClaimsNumbered'
  BY <1>1, <1>2, <1>3, <1>4, <1>5 DEF ClaimsInv, ClaimsNumbered, Claimed
<1>7. ASSUME NEW v \in Slots \ {w}, Claimed(v), handler[v].run = r
      PROVE  handler[v].epoch # e
  BY <1>1, <1>5, <1>7 DEF ClaimsInv, ClaimsNumbered
<1>8. ClaimsDistinct'
  BY <1>3, <1>4, <1>7 DEF ClaimsInv, ClaimsDistinct, Claimed
<1> QED BY <1>6, <1>8 DEF ClaimsInv

LEMMA SlotClaims ==
  ASSUME TypeOK, ClaimsInv, NEW w \in Slots,
         Handle(w) \/ Heartbeat(w) \/ Checkpoint(w) \/ Disturbance(w)
  PROVE  ClaimsInv'
<1> USE MoveToKeepsClaims, NoNewClaimKeeps
    DEF Delivered, Claimable, Current, Claimed, Working, Failing, FailOwns,
        jobVars, planVars, Terminate
<1>1. CASE Claim(w)
  BY <1>1, ClaimGrantedClaims
  DEF Claim, ClaimSkip, ClaimCanceled, ClaimTooLate, ClaimDeferred, ClaimExhausted
<1>2. CASE ReadBack(w) \/ WorkFails(w) \/ ClaimError(w) \/ SaveError(w) \/ Shutdown(w)
  BY <1>2 DEF ReadBack, WorkFails, ClaimError, SaveError, Shutdown
<1>3. CASE FinishRun(w) \/ Heartbeat(w) \/ Checkpoint(w)
  BY <1>3, SameHandler DEF FinishRun, Heartbeat, Checkpoint
<1>4. CASE FencedEnds(w) \/ SuspendRefused(w) \/ SuspendCanceled(w) \/ Suspend(w)
  BY <1>4 DEF FencedEnds, SuspendRefused, SuspendCanceled, Suspend
<1>5. CASE \E d \in Runs : WaitForActiveRestore(w, d) \/ WaitForNewRestore(w, d)
  BY <1>5 DEF WaitForActiveRestore, WaitForNewRestore
<1>6. CASE RestoreRefused(w) \/ FailFenced(w) \/ FailCanceled(w) \/ FailRetry(w) \/ FailFinal(w)
  BY <1>6 DEF RestoreRefused, FailFenced, FailCanceled, FailRetry, FailFinal
<1>7. CASE Ack(w) \/ Crash(w)
  <2>1. UNCHANGED epoch /\ handler' = [handler EXCEPT ![w] = Idle]
    BY <1>7 DEF Ack, Crash
  <2>2. NoNewClaim
    BY <2>1 DEF NoNewClaim, TypeOK, Idle
  <2> QED BY <2>2
<1> QED BY <1>1, <1>2, <1>3, <1>4, <1>5, <1>6, <1>7 DEF Handle, Save, Disturbance

LEMMA StepClaims ==
  ASSUME TypeOK, ClaimsInv, [Next]_vars
  PROVE  ClaimsInv'
<1> USE NoNewClaimKeeps, SameHandler DEF jobVars, planVars
<1>1. CASE Request
  BY <1>1 DEF Request, Create, Join, Cancel
<1>2. ASSUME NEW r \in Runs, NEW g \in Generations,
             Dispatch(r, g) \/ OutboxRetry(r, g) \/ Redeliver(r, g) \/ LoseTask(r, g)
      PROVE  ClaimsInv'
  BY <1>2 DEF Dispatch, OutboxClaim, Enqueue, OutboxDelivered, OutboxRetry, Redeliver, LoseTask
<1>3. ASSUME NEW r \in Runs, NEW g \in Generations, NEW w \in Slots, Take(w, r, g)
      PROVE  ClaimsInv'
  <2>1. NoNewClaim
    BY <1>3 DEF Take, NoNewClaim, Claimed, TypeOK
  <2> QED BY <2>1
<1>4. ASSUME NEW w \in Slots, Handle(w) \/ Heartbeat(w) \/ Checkpoint(w) \/ Disturbance(w)
      PROVE  ClaimsInv'
  BY <1>4, SlotClaims
<1>5. ASSUME NEW r \in Runs, Observe(r) \/ LeaseExpires(r) \/ DeadlinePasses(r)
      PROVE  ClaimsInv'
  BY <1>5 DEF Observe, LeaseExpires, DeadlinePasses
<1>6. ASSUME NEW r \in Runs, Repair(r) PROVE ClaimsInv'
  BY <1>6 DEF Repair, RepairCanceled, RepairTooLate, RepairRestoreLost, RepairWake,
              RepairEnded, RepairMissing, RepairNothing, Terminate
<1>7. CASE UNCHANGED vars
  BY <1>7 DEF vars
<1> QED BY <1>1, <1>2, <1>3, <1>4, <1>5, <1>6, <1>7 DEF Next

LEMMA InitClaims == Init => ClaimsInv
BY DEF Init, ClaimsInv, ClaimsNumbered, ClaimsDistinct, Claimed, Idle

LEMMA ClaimsImplySoleWriter == ClaimsInv => SoleWriter
BY DEF ClaimsInv, ClaimsDistinct, SoleWriter, Working, Claimed, Fence

\* However many executions of a run are alive (redelivered, stalled, taken over,
\* of one process or of several), at most one of them may write.
THEOREM OneWriter == Spec => []SoleWriter
<1>1. Init => ClaimsInv
  BY InitClaims
<1>2. TypeOK /\ ClaimsInv /\ [Next]_vars => ClaimsInv'
  BY StepClaims
<1> QED BY <1>1, <1>2, ClaimsImplySoleWriter, TypeCorrect, PTL DEF Spec

-----------------------------------------------------------------------------
(* Owners.                                                                 *)

\* Statuses with an execution that may hold the run.
Held == {"running", "cancel_requested"}

LEMMA SettledOwner ==
  ASSUME OwnerHolds, TypeOK, NEW r \in Runs, NEW outcome,
         status' = Settled(r, outcome), owner' = [owner EXCEPT ![r] = Nobody]
  PROVE  OwnerHolds'
BY DEF OwnerHolds, Settled, TypeOK, HoldTypeOK

LEMMA SlotOwner ==
  ASSUME TypeOK, OwnerHolds, NEW w \in Slots,
         Handle(w) \/ Heartbeat(w) \/ Checkpoint(w) \/ Disturbance(w)
  PROVE  OwnerHolds'
<1> DEFINE r == handler[w].run
<1>1. handler[w].phase # "idle" => r \in Runs
  BY Busy
<1> USE <1>1, SettledOwner
    DEF Delivered, Claimable, Working, Failing, FailOwns, Terminate,
        jobVars, holdVars, planVars
<1>2. CASE ClaimGranted(w)
  BY <1>2 DEF ClaimGranted, OwnerHolds, TypeOK, HoldTypeOK
<1>3. CASE Claim(w) /\ ~ClaimGranted(w)
  BY <1>3 DEF Claim, ClaimSkip, ClaimCanceled, ClaimTooLate, ClaimDeferred,
              ClaimExhausted, OwnerHolds
<1>4. CASE ReadBack(w) \/ WorkFails(w) \/ ClaimError(w) \/ SaveError(w) \/ Shutdown(w)
           \/ Ack(w) \/ Crash(w) \/ Heartbeat(w) \/ Checkpoint(w)
  BY <1>4 DEF ReadBack, WorkFails, ClaimError, SaveError, Shutdown, Ack, Crash,
              Heartbeat, Checkpoint, OwnerHolds
<1>5. CASE FinishRun(w)
  BY <1>5 DEF FinishRun, OwnerHolds, TypeOK, HoldTypeOK
<1>6. CASE FencedEnds(w) \/ SuspendRefused(w) \/ RestoreRefused(w) \/ FailFenced(w)
  BY <1>6 DEF FencedEnds, SuspendRefused, RestoreRefused, FailFenced, OwnerHolds
<1>7. CASE SuspendCanceled(w) \/ FailCanceled(w) \/ FailFinal(w)
  BY <1>7 DEF SuspendCanceled, FailCanceled, FailFinal
<1>8. CASE Suspend(w) \/ FailRetry(w) \/ \E d \in Runs : WaitForActiveRestore(w, d)
  BY <1>8 DEF Suspend, FailRetry, WaitForActiveRestore, Release, OwnerHolds, TypeOK, HoldTypeOK
<1>9. CASE \E d \in Runs : WaitForNewRestore(w, d)
  BY <1>9 DEF WaitForNewRestore, OwnerHolds, TypeOK, HoldTypeOK
<1> QED BY <1>2, <1>3, <1>4, <1>5, <1>6, <1>7, <1>8, <1>9 DEF Handle, Save, Disturbance

LEMMA StepOwner ==
  ASSUME TypeOK, OwnerHolds, [Next]_vars
  PROVE  OwnerHolds'
<1> USE SettledOwner DEF Terminate, jobVars, holdVars, planVars, OwnerHolds
<1>1. CASE Request
  BY <1>1 DEF Request, Create, Join, Cancel, TypeOK, HoldTypeOK
<1>2. ASSUME NEW r \in Runs, NEW g \in Generations,
             \/ Dispatch(r, g) \/ OutboxRetry(r, g) \/ Redeliver(r, g) \/ LoseTask(r, g)
             \/ \E w \in Slots : Take(w, r, g)
      PROVE  OwnerHolds'
  BY <1>2 DEF Dispatch, OutboxClaim, Enqueue, OutboxDelivered, OutboxRetry, Redeliver,
              LoseTask, Take
<1>3. ASSUME NEW w \in Slots, Handle(w) \/ Heartbeat(w) \/ Checkpoint(w) \/ Disturbance(w)
      PROVE  OwnerHolds'
  BY <1>3, SlotOwner
<1>4. ASSUME NEW r \in Runs, Observe(r) \/ LeaseExpires(r) \/ DeadlinePasses(r)
      PROVE  OwnerHolds'
  BY <1>4 DEF Observe, LeaseExpires, DeadlinePasses
<1>5. ASSUME NEW r \in Runs, Repair(r) PROVE OwnerHolds'
  BY <1>5 DEF Repair, RepairCanceled, RepairTooLate, RepairRestoreLost, RepairWake,
              RepairEnded, RepairMissing, RepairNothing, OnTime, TypeOK, HoldTypeOK
<1>6. CASE UNCHANGED vars
  BY <1>6 DEF vars
<1> QED BY <1>1, <1>2, <1>3, <1>4, <1>5, <1>6 DEF Next

-----------------------------------------------------------------------------
(* The refinement.                                                         *)

\* What each run does in a step, in terms of its status.
LEMMA StatusMoves ==
  ASSUME UNCHANGED <<epoch, checkpoint, result>>,
         \A x \in Runs : \/ PhaseOf(status'[x]) = PhaseOf(status[x])
                         \/ <<PhaseOf(status[x]), PhaseOf(status'[x])>> \in Promise!Moves
  PROVE  Promise!Next
BY DEF Promise!Next, Promise!Rest, Promise!Move, PromisedPhase

LEMMA Settling ==
  ASSUME TypeOK, NEW r \in Runs, NEW outcome, status' = Settled(r, outcome),
         UNCHANGED <<epoch, checkpoint, result>>,
         \/ outcome = "canceled" /\ status[r] = "cancel_requested"
         \/ outcome = "failed" /\ Live(r) /\ status[r] # "cancel_requested"
  PROVE  Promise!Next
<1>1. status \in [Runs -> Statuses]
  BY DEF TypeOK, HoldTypeOK
<1>2. ASSUME NEW x \in Runs
      PROVE  \/ status'[x] = status[x]
             \/ <<PhaseOf(status[x]), PhaseOf(status'[x])>> \in Promise!Moves
  BY <1>1, <1>2 DEF Settled, Live, Terminal, Statuses, PhaseOf, Promise!Moves
<1> QED BY <1>2, StatusMoves

LEMMA Stands == UNCHANGED <<status, epoch, checkpoint, result>> => Promise!Next
BY StatusMoves

LEMMA SlotKeepsPromise ==
  ASSUME TypeOK, OwnerHolds, NEW w \in Slots,
         Handle(w) \/ Heartbeat(w) \/ Checkpoint(w) \/ Disturbance(w)
  PROVE  Promise!Next
<1> DEFINE r == handler[w].run
<1>1. handler[w].phase # "idle" => r \in Runs
  BY Busy
<1>2. status \in [Runs -> Statuses]
  BY DEF TypeOK, HoldTypeOK
<1> USE <1>1, Stands
    DEF Delivered, Claimable, Working, Failing, jobVars, holdVars, planVars, workVars
<1>3. CASE ClaimSkip(w) \/ ClaimDeferred(w) \/ ReadBack(w) \/ WorkFails(w) \/ Ack(w)
           \/ Heartbeat(w) \/ Disturbance(w)
  BY <1>3 DEF ClaimSkip, ClaimDeferred, ReadBack, WorkFails, Ack, Heartbeat,
              Disturbance, ClaimError, SaveError, Shutdown, Crash
<1>4. CASE ClaimCanceled(w) \/ ClaimTooLate(w) \/ ClaimExhausted(w)
  BY <1>4, Settling DEF ClaimCanceled, ClaimTooLate, ClaimExhausted, Current, Terminate
<1>5. CASE ClaimGranted(w)
  <2>1. r \in Runs /\ epoch \in [Runs -> 0 .. MaxEpoch]
    BY <1>5 DEF ClaimGranted, TypeOK, PlanTypeOK
  <2>2. PhaseOf(status[r]) \in {"open", "executing"} /\ PhaseOf("running") = "executing"
    BY <1>2, <1>5, <2>1 DEF ClaimGranted, Current, Live, Terminal, Statuses, PhaseOf
  <2>3. Promise!Start(r)
    BY <1>2, <1>5, <2>1, <2>2 DEF ClaimGranted, Promise!Start, PromisedPhase
  <2>4. \A x \in Runs \ {r} : Promise!Rest(x)
    BY <1>2, <1>5, <2>1 DEF ClaimGranted, Promise!Rest, PromisedPhase
  <2> QED BY <2>3, <2>4 DEF Promise!Next
<1>6. CASE Checkpoint(w)
  <2>1. CASE ~Fence(w)
    BY <1>6, <2>1 DEF Checkpoint
  <2>2. CASE Fence(w)
    <3>1. r \in Runs /\ checkpoint' = [checkpoint EXCEPT ![r] = epoch[r]]
          /\ UNCHANGED <<status, epoch, result>> /\ PhaseOf(status[r]) = "executing"
      BY <1>6, <2>2 DEF Checkpoint, Fence, PhaseOf
    <3>2. checkpoint \in [Runs -> 0 .. MaxEpoch]
      BY DEF TypeOK, WorkTypeOK
    <3>3. Promise!Save(r) /\ \A x \in Runs \ {r} : Promise!Rest(x)
      BY <3>1, <3>2 DEF Promise!Save, Promise!Rest, PromisedPhase
    <3> QED BY <3>3 DEF Promise!Next
  <2> QED BY <2>1, <2>2
<1>7. CASE FinishRun(w)
  <2>1. r \in Runs /\ result' = [result EXCEPT ![r] = epoch[r]]
        /\ status' = [status EXCEPT ![r] = "succeeded"]
        /\ UNCHANGED <<epoch, checkpoint>>
        /\ PhaseOf(status[r]) = "executing" /\ PhaseOf("succeeded") = "succeeded"
    BY <1>7 DEF FinishRun, Fence, PhaseOf
  <2>2. result \in [Runs -> 0 .. MaxEpoch]
    BY DEF TypeOK, WorkTypeOK
  <2>3. Promise!Succeed(r) /\ \A x \in Runs \ {r} : Promise!Rest(x)
    BY <1>2, <2>1, <2>2 DEF Promise!Succeed, Promise!Rest, PromisedPhase
  <2> QED BY <2>3 DEF Promise!Next
<1>8. CASE FencedEnds(w) \/ SuspendRefused(w) \/ RestoreRefused(w) \/ FailFenced(w)
  BY <1>8 DEF FencedEnds, SuspendRefused, RestoreRefused, FailFenced
<1>9. CASE SuspendCanceled(w) \/ FailCanceled(w)
  BY <1>9, Settling DEF SuspendCanceled, FailCanceled, FailOwns, Terminate
<1>10. CASE FailFinal(w)
  <2>1. owner[r] # Nobody
    BY <1>10, SetsAssumption DEF FailFinal, FailOwns
  <2>2. Live(r) /\ status[r] # "cancel_requested"
    BY <1>10, <2>1 DEF FailFinal, FailOwns, OwnerHolds, Live, Terminal
  <2> QED BY <1>10, <2>2, Settling DEF FailFinal, FailOwns, Terminate
<1>11. CASE FailRetry(w)
  <2>1. owner[r] # Nobody
    BY <1>11, SetsAssumption DEF FailRetry, FailOwns
  <2>2. status[r] = "running"
    BY <1>11, <2>1 DEF FailRetry, FailOwns, OwnerHolds
  <2> QED BY <1>2, <1>11, <2>2, StatusMoves
          DEF FailRetry, FailOwns, Release, PhaseOf, Promise!Moves
<1>12. CASE Suspend(w) \/ \E d \in Runs : WaitForActiveRestore(w, d)
  BY <1>2, <1>12, StatusMoves
  DEF Suspend, WaitForActiveRestore, Fence, Release, PhaseOf, Promise!Moves
<1>13. CASE \E d \in Runs : WaitForNewRestore(w, d)
  BY <1>2, <1>13, StatusMoves DEF WaitForNewRestore, Fence, PhaseOf, Promise!Moves
<1> QED BY <1>3, <1>4, <1>5, <1>6, <1>7, <1>8, <1>9, <1>10, <1>11, <1>12, <1>13
        DEF Handle, Claim, Save

LEMMA StepKeepsPromise ==
  ASSUME TypeOK, OwnerHolds, [Next]_vars
  PROVE  [Promise!Next]_(Promise!vars)
<1> SUFFICES Promise!Next
  OBVIOUS
<1> USE Stands DEF jobVars, holdVars, planVars, workVars
<1>1. status \in [Runs -> Statuses]
  BY DEF TypeOK, HoldTypeOK
<1>2. CASE Request
  BY <1>1, <1>2, StatusMoves
  DEF Request, Create, Join, Cancel, Live, Terminal, Statuses, PhaseOf, Promise!Moves
<1>3. ASSUME NEW r \in Runs, NEW g \in Generations,
             \/ Dispatch(r, g) \/ OutboxRetry(r, g) \/ Redeliver(r, g) \/ LoseTask(r, g)
             \/ \E w \in Slots : Take(w, r, g)
      PROVE  Promise!Next
  BY <1>3 DEF Dispatch, OutboxClaim, Enqueue, OutboxDelivered, OutboxRetry, Redeliver,
              LoseTask, Take
<1>4. ASSUME NEW w \in Slots, Handle(w) \/ Heartbeat(w) \/ Checkpoint(w) \/ Disturbance(w)
      PROVE  Promise!Next
  BY <1>4, SlotKeepsPromise
<1>5. ASSUME NEW r \in Runs, Observe(r) \/ LeaseExpires(r) \/ DeadlinePasses(r)
      PROVE  Promise!Next
  BY <1>5 DEF Observe, LeaseExpires, DeadlinePasses
<1>6. ASSUME NEW r \in Runs, Repair(r) PROVE Promise!Next
  <2>1. CASE RepairCanceled(r) \/ RepairTooLate(r) \/ RepairRestoreLost(r) \/ RepairEnded(r)
    <3>1. \/ Terminate(r, "canceled") /\ status[r] = "cancel_requested"
          \/ Terminate(r, "failed") /\ Live(r) /\ status[r] # "cancel_requested"
      BY <2>1
      DEF RepairCanceled, RepairTooLate, RepairRestoreLost, RepairEnded, Unattended,
          OnTime, Repairable
    <3> QED BY <3>1, Settling DEF Terminate
  <2>2. CASE RepairWake(r)
    BY <1>1, <2>2, StatusMoves DEF RepairWake, OnTime, PhaseOf
  <2>3. CASE RepairMissing(r) \/ RepairNothing(r)
    BY <2>3 DEF RepairMissing, RepairNothing
  <2> QED BY <1>6, <2>1, <2>2, <2>3 DEF Repair
<1>7. CASE UNCHANGED vars
  BY <1>7 DEF vars
<1> QED BY <1>2, <1>3, <1>4, <1>5, <1>6, <1>7 DEF Next

LEMMA InitKeepsPromise == Init => OwnerHolds /\ Promise!Init
BY DEF Init, OwnerHolds, Promise!Init, PromisedPhase, PhaseOf

\* The queue, the broker, leases, retries and takeovers implement the promise:
\* one execution at a time, only the current one saves or commits, a run that is
\* being stopped only ends as canceled, and an end is final.
THEOREM PromiseKept == Spec => KeepsPromise
<1>1. Init => OwnerHolds /\ Promise!Init
  BY InitKeepsPromise
<1>2. TypeOK /\ OwnerHolds /\ [Next]_vars => OwnerHolds'
  BY StepOwner
<1>3. TypeOK /\ OwnerHolds /\ [Next]_vars => [Promise!Next]_(Promise!vars)
  BY StepKeepsPromise
<1> QED BY <1>1, <1>2, <1>3, TypeCorrect, PTL DEF Spec, KeepsPromise, Promise!Spec

(***************************************************************************)
(* What the lifecycle records, and what it owes to those who asked for a   *)
(* run and to the machine.                                                 *)
(*                                                                         *)
(* First: the attempts of a run match its epochs, its status and its       *)
(* result.  The argument sorts what a transaction may do to the attempts   *)
(* of one run into five kinds of step, shows that each keeps the match,    *)
(* and that every action is, for every run, a step of one of these kinds.  *)
(***************************************************************************)

\* AttemptsMatchStatus for one run, and what it rests on: a running run has
\* given out an epoch, and only a succeeded one has a result.
Matches(x) ==
  /\ status[x] = "running" => epoch[x] \in Epochs /\ attempts[x][epoch[x]] = "open"
  /\ result[x] # 0 => status[x] = "succeeded"
  /\ \A e \in Epochs :
       /\ attempts[x][e] = "none" <=> e > epoch[x]
       /\ attempts[x][e] = "succeeded" <=> e = result[x]
       /\ attempts[x][e] = "open" => e = epoch[x] /\ status[x] \in Held

AllMatch == \A x \in Runs : Matches(x)

\* Neither the epoch nor the result changes.
Kept(x) == epoch'[x] = epoch[x] /\ result'[x] = result[x]

\* The status moves without an attempt to close: the run is created, asked to
\* stop, or queued again.
OnlyStatus(x) ==
  /\ Kept(x) /\ attempts'[x] = attempts[x]
  /\ \/ status'[x] = status[x]
     \/ status[x] # "succeeded" /\ status'[x] = "cancel_requested"
     \/ status[x] \notin Held \cup {"succeeded"} /\ status'[x] # "running"

\* The run ends, and what is open is closed with it.
Closes(x) ==
  /\ Kept(x) /\ status[x] # "succeeded" /\ status'[x] \notin Held
  /\ \E outcome \in Outcomes \ {"none", "open", "succeeded"} :
       attempts'[x] = CloseAttempts(x, outcome)

\* The current execution gives the run up.
GivesUp(x) ==
  /\ Kept(x) /\ status[x] = "running" /\ status'[x] \notin Held
  /\ \E outcome \in Outcomes \ {"none", "open", "succeeded"} :
       attempts'[x] = [attempts[x] EXCEPT ![epoch[x]] = outcome]

\* The current execution commits.
Commits(x) ==
  /\ status[x] = "running" /\ status'[x] = "succeeded"
  /\ epoch'[x] = epoch[x] /\ result'[x] = epoch[x]
  /\ attempts'[x] = [attempts[x] EXCEPT ![epoch[x]] = "succeeded"]

\* A new execution takes the run.
Starts(x) ==
  /\ status[x] \notin {"cancel_requested", "succeeded"} /\ status'[x] = "running"
  /\ epoch'[x] = epoch[x] + 1 /\ epoch'[x] \in Epochs /\ result'[x] = result[x]
  /\ attempts'[x] = [ClaimClosed(x) EXCEPT ![epoch[x] + 1] = "open"]

AttemptStep(x) ==
  OnlyStatus(x) \/ Closes(x) \/ GivesUp(x) \/ Commits(x) \/ Starts(x)

LEMMA StepMatches ==
  ASSUME TypeOK, NEW x \in Runs, Matches(x), AttemptStep(x)
  PROVE  Matches(x)'
<1>1. /\ attempts[x] \in [Epochs -> Outcomes]
      /\ epoch[x] \in Nat /\ result[x] \in Nat
      /\ Epochs \subseteq Nat \ {0}
  BY BoundsAssumption DEF TypeOK, HoldTypeOK, PlanTypeOK, WorkTypeOK, Epochs
<1>2. CASE OnlyStatus(x)
  <2>1. epoch'[x] = epoch[x] /\ result'[x] = result[x] /\ attempts'[x] = attempts[x]
    BY <1>2 DEF OnlyStatus, Kept
  <2>2. /\ status'[x] = "running" => status[x] = "running"
        /\ status[x] = "succeeded" => status'[x] = "succeeded"
        /\ status[x] \in Held => status'[x] \in Held
    BY <1>2 DEF OnlyStatus, Held
  <2> QED BY <2>1, <2>2 DEF Matches
<1>3. CASE Closes(x)
  BY <1>1, <1>3 DEF Closes, Kept, Matches, CloseAttempts, Held
<1>4. CASE GivesUp(x)
  BY <1>1, <1>4 DEF GivesUp, Kept, Matches, Held
<1>5. CASE Commits(x)
  BY <1>1, <1>5 DEF Commits, Matches, Held
<1>6. CASE Starts(x)
  BY <1>1, <1>6 DEF Starts, Matches, ClaimClosed, CloseAttempts, Held
<1> QED BY <1>2, <1>3, <1>4, <1>5, <1>6 DEF AttemptStep

LEMMA StandsMatches ==
  UNCHANGED <<status, epoch, result, attempts>> => \A x \in Runs : AttemptStep(x)
BY DEF AttemptStep, OnlyStatus, Kept

\* terminate: run r closes, its dependency may be asked to stop.
LEMMA SettlingMatches ==
  ASSUME TypeOK, NEW r \in Runs, NEW outcome \in {"failed", "canceled"},
         status[r] # "succeeded", status' = Settled(r, outcome),
         UNCHANGED <<epoch, result>>,
         \/ attempts' = [attempts EXCEPT ![r] = CloseAttempts(r, outcome)]
         \/ attempts' = [attempts EXCEPT ![r] = CloseAttempts(r, "lease_expired")]
  PROVE  \A x \in Runs : AttemptStep(x)
<1>1. status \in [Runs -> Statuses] /\ attempts \in [Runs -> [Epochs -> Outcomes]]
  BY DEF TypeOK, HoldTypeOK
<1>2. status'[r] = outcome
  BY <1>1 DEF Settled
<1>3. Closes(r)
  BY <1>1, <1>2 DEF Closes, Kept, Held, Outcomes, Terminal
<1>4. ASSUME NEW x \in Runs \ {r} PROVE OnlyStatus(x)
  BY <1>1 DEF OnlyStatus, Kept, Settled, Live, Terminal
<1> QED BY <1>3, <1>4 DEF AttemptStep

LEMMA ClaimExhaustedMatches ==
  ASSUME TypeOK, NEW w \in Slots, ClaimExhausted(w)
  PROVE  \A x \in Runs : AttemptStep(x)
<1> DEFINE r == handler[w].run
<1>1. r \in Runs /\ status[r] \notin Terminal \cup {"cancel_requested"}
      /\ status \in [Runs -> Statuses] /\ attempts \in [Runs -> [Epochs -> Outcomes]]
  BY Busy DEF ClaimExhausted, Claimable, Delivered, Current, Live, TypeOK, HoldTypeOK
<1>2. CASE status[r] = "running"
  BY <1>1, <1>2, SettlingMatches DEF ClaimExhausted, ClaimClosed, Terminal, workVars
<1>3. CASE status[r] # "running"
  <2>1. attempts' = attempts /\ status' = Settled(r, "failed") /\ UNCHANGED <<epoch, result>>
    BY <1>1, <1>3 DEF ClaimExhausted, ClaimClosed, workVars
  <2>2. OnlyStatus(r)
    BY <1>1, <1>3, <2>1 DEF OnlyStatus, Kept, Settled, Held, Terminal
  <2>3. ASSUME NEW x \in Runs \ {r} PROVE OnlyStatus(x)
    BY <1>1, <2>1 DEF OnlyStatus, Kept, Settled, Live, Terminal
  <2> QED BY <2>2, <2>3 DEF AttemptStep
<1> QED BY <1>2, <1>3

LEMMA ClaimGrantedMatches ==
  ASSUME TypeOK, NEW w \in Slots, ClaimGranted(w)
  PROVE  \A x \in Runs : AttemptStep(x)
<1> DEFINE r == handler[w].run
<1>1. /\ r \in Runs /\ epoch[r] \in Nat
      /\ status[r] \notin {"cancel_requested", "succeeded"}
      /\ status \in [Runs -> Statuses] /\ attempts \in [Runs -> [Epochs -> Outcomes]]
      /\ epoch \in [Runs -> 0 .. MaxEpoch]
  BY Busy, BoundsAssumption
  DEF ClaimGranted, Claimable, Delivered, Current, Live, Terminal, TypeOK, HoldTypeOK, PlanTypeOK
<1>2. Starts(r)
  BY <1>1, BoundsAssumption DEF ClaimGranted, Starts, Epochs, workVars
<1>3. \A x \in Runs \ {r} : OnlyStatus(x)
  BY <1>1 DEF ClaimGranted, OnlyStatus, Kept, workVars
<1> QED BY <1>2, <1>3 DEF AttemptStep

\* Suspend, Fail and WaitForRestore: the run of slot w is given up; at most an
\* absent run is created with it.
Releases(w) ==
  LET r == handler[w].run IN
  /\ r \in Runs /\ status[r] = "running" /\ epoch[r] = handler[w].epoch
  /\ UNCHANGED <<epoch, result>>
  /\ \E outcome \in {"retry_wait", "interrupted", "waiting_dependency"} :
       attempts' = [attempts EXCEPT ![r][epoch[r]] = outcome]
  /\ status'[r] \notin Held
  /\ \A x \in Runs \ {r} :
       status'[x] = status[x] \/ (status[x] = "absent" /\ status'[x] = "queued")

LEMMA ReleaseMatches ==
  ASSUME TypeOK, NEW w \in Slots, Releases(w)
  PROVE  \A x \in Runs : AttemptStep(x)
<1>1. attempts \in [Runs -> [Epochs -> Outcomes]]
  BY DEF TypeOK, HoldTypeOK
<1>2. GivesUp(handler[w].run)
  <2>1. PICK outcome \in {"retry_wait", "interrupted", "waiting_dependency"} :
          attempts' = [attempts EXCEPT ![handler[w].run][epoch[handler[w].run]] = outcome]
    BY DEF Releases
  <2>2. attempts'[handler[w].run]
          = [attempts[handler[w].run] EXCEPT ![epoch[handler[w].run]] = outcome]
    BY <1>1, <2>1 DEF Releases
  <2> QED BY <2>2 DEF Releases, GivesUp, Kept, Outcomes
<1>3. \A x \in Runs \ {handler[w].run} : OnlyStatus(x)
  BY <1>1 DEF Releases, OnlyStatus, Kept, Held
<1> QED BY <1>2, <1>3 DEF AttemptStep

LEMMA FinishMatches ==
  ASSUME TypeOK, NEW w \in Slots, FinishRun(w)
  PROVE  \A x \in Runs : AttemptStep(x)
<1> DEFINE r == handler[w].run
<1>1. /\ r \in Runs /\ epoch[r] = handler[w].epoch /\ status[r] = "running"
      /\ status \in [Runs -> Statuses] /\ attempts \in [Runs -> [Epochs -> Outcomes]]
      /\ result \in [Runs -> 0 .. MaxEpoch]
  BY Busy DEF FinishRun, Working, Fence, TypeOK, HoldTypeOK, WorkTypeOK
<1>2. Commits(r)
  BY <1>1 DEF FinishRun, Commits, planVars
<1>3. \A x \in Runs \ {r} : OnlyStatus(x)
  BY <1>1 DEF FinishRun, OnlyStatus, Kept, planVars
<1> QED BY <1>2, <1>3 DEF AttemptStep

LEMMA SaveMatches ==
  ASSUME TypeOK, OwnerHolds, NEW w \in Slots, Save(w)
  PROVE  \A x \in Runs : AttemptStep(x)
<1> DEFINE r == handler[w].run
<1>1. status \in [Runs -> Statuses] /\ (handler[w].phase # "idle" => r \in Runs)
  BY Busy DEF TypeOK, HoldTypeOK
<1>2. FailOwns(w) => status[r] \in Held /\ epoch[r] = handler[w].epoch /\ r \in Runs
  BY <1>1, SetsAssumption DEF FailOwns, OwnerHolds, Held
<1>3. CASE FencedEnds(w) \/ SuspendRefused(w) \/ RestoreRefused(w) \/ FailFenced(w)
  BY <1>3, StandsMatches
  DEF FencedEnds, SuspendRefused, RestoreRefused, FailFenced, jobVars, holdVars, planVars,
      workVars
<1>4. CASE SuspendCanceled(w) \/ FailCanceled(w) \/ FailFinal(w)
  <2>1. r \in Runs /\ status[r] # "succeeded"
    BY <1>1, <1>2, <1>4 DEF SuspendCanceled, FailCanceled, FailFinal, Failing, Terminal
  <2>2. Terminate(r, "canceled") \/ Terminate(r, "failed")
    BY <1>4 DEF SuspendCanceled, FailCanceled, FailFinal
  <2> QED BY <2>1, <2>2, SettlingMatches DEF Terminate, workVars
<1>5. CASE FailRetry(w)
  <2>1. /\ r \in Runs /\ status[r] = "running" /\ epoch[r] = handler[w].epoch
        /\ UNCHANGED <<epoch, result>>
    BY <1>1, <1>2, <1>5 DEF FailRetry, FailOwns, Held, workVars
  <2>2. attempts' = [attempts EXCEPT ![r][epoch[r]] = "retry_wait"]
    BY <2>1, <1>5 DEF FailRetry, Release
  <2>3. /\ status'[r] \notin Held
        /\ \A x \in Runs \ {r} :
             status'[x] = status[x] \/ (status[x] = "absent" /\ status'[x] = "queued")
    <3>1. status' = [status EXCEPT ![r] = "retry_wait"]
      BY <1>5 DEF FailRetry, Release
    <3> QED BY <1>1, <2>1, <3>1 DEF Held
  <2> QED BY <2>1, <2>2, <2>3, ReleaseMatches DEF Releases
<1>6. CASE Suspend(w)
  <2>1. /\ r \in Runs /\ status[r] = "running" /\ epoch[r] = handler[w].epoch
        /\ UNCHANGED <<epoch, result>>
    BY <1>1, <1>2, <1>6 DEF Suspend, Failing, Fence, planVars, workVars
  <2>2. attempts' = [attempts EXCEPT ![r][epoch[r]] = "interrupted"]
    BY <2>1, <1>6 DEF Suspend, Release
  <2>3. /\ status'[r] \notin Held
        /\ \A x \in Runs \ {r} :
             status'[x] = status[x] \/ (status[x] = "absent" /\ status'[x] = "queued")
    <3>1. status' = [status EXCEPT ![r] = "retry_wait"]
      BY <1>6 DEF Suspend, Release
    <3> QED BY <1>1, <2>1, <3>1 DEF Held
  <2> QED BY <2>1, <2>2, <2>3, ReleaseMatches DEF Releases
<1>7. ASSUME NEW d \in Runs, WaitForActiveRestore(w, d)
      PROVE  \A x \in Runs : AttemptStep(x)
  <2>1. /\ r \in Runs /\ status[r] = "running" /\ epoch[r] = handler[w].epoch
        /\ UNCHANGED <<epoch, result>>
    BY <1>1, <1>2, <1>7 DEF WaitForActiveRestore, Failing, Fence, workVars
  <2>2. attempts' = [attempts EXCEPT ![r][epoch[r]] = "waiting_dependency"]
    BY <2>1, <1>7 DEF WaitForActiveRestore, Release
  <2>3. /\ status'[r] \notin Held
        /\ \A x \in Runs \ {r} :
             status'[x] = status[x] \/ (status[x] = "absent" /\ status'[x] = "queued")
    <3>1. status' = [status EXCEPT ![r] = "waiting_dependency"]
      BY <1>7 DEF WaitForActiveRestore, Release
    <3> QED BY <1>1, <2>1, <3>1 DEF Held
  <2> QED BY <2>1, <2>2, <2>3, ReleaseMatches DEF Releases
<1>8. ASSUME NEW d \in Runs, WaitForNewRestore(w, d)
      PROVE  \A x \in Runs : AttemptStep(x)
  <2>1. /\ r \in Runs /\ status[r] = "running" /\ epoch[r] = handler[w].epoch
        /\ UNCHANGED <<epoch, result>>
    BY <1>1, <1>2, <1>8 DEF WaitForNewRestore, Failing, Fence, workVars
  <2>2. attempts' = [attempts EXCEPT ![r][epoch[r]] = "waiting_dependency"]
    BY <2>1, <1>8 DEF WaitForNewRestore
  <2>3. /\ status'[r] \notin Held
        /\ \A x \in Runs \ {r} :
             status'[x] = status[x] \/ (status[x] = "absent" /\ status'[x] = "queued")
    <3>1. status' = [status EXCEPT ![r] = "waiting_dependency", ![d] = "queued"]
          /\ status[d] = "absent"
      BY <1>8 DEF WaitForNewRestore
    <3> QED BY <1>1, <2>1, <3>1 DEF Held
  <2> QED BY <2>1, <2>2, <2>3, ReleaseMatches DEF Releases
<1> QED BY <1>3, <1>4, <1>5, <1>6, <1>7, <1>8 DEF Save

LEMMA SlotMatches ==
  ASSUME TypeOK, OwnerHolds, NEW w \in Slots,
         Handle(w) \/ Heartbeat(w) \/ Checkpoint(w) \/ Disturbance(w)
  PROVE  \A x \in Runs : AttemptStep(x)
<1> DEFINE r == handler[w].run
<1>1. CASE Heartbeat(w) \/ Checkpoint(w) \/ Disturbance(w) \/ ReadBack(w) \/ WorkFails(w) \/ Ack(w)
  BY <1>1, StandsMatches
  DEF Heartbeat, Checkpoint, Disturbance, ClaimError, SaveError, Shutdown, Crash, ReadBack,
      WorkFails, Ack, jobVars, holdVars, planVars, workVars
<1>2. CASE ClaimSkip(w) \/ ClaimDeferred(w)
  BY <1>2, StandsMatches
  DEF ClaimSkip, ClaimDeferred, jobVars, holdVars, planVars, workVars
<1>3. CASE ClaimCanceled(w) \/ ClaimTooLate(w)
  <2>1. r \in Runs /\ status[r] # "succeeded"
    BY <1>3, Busy DEF ClaimCanceled, ClaimTooLate, Delivered, Current, Live, Terminal
  <2>2. Terminate(r, "canceled") \/ Terminate(r, "failed")
    BY <1>3 DEF ClaimCanceled, ClaimTooLate
  <2> QED BY <2>1, <2>2, SettlingMatches DEF Terminate, workVars
<1> QED BY <1>1, <1>2, <1>3, ClaimExhaustedMatches, ClaimGrantedMatches, FinishMatches, SaveMatches
        DEF Handle, Claim

LEMMA NextMatches ==
  ASSUME TypeOK, OwnerHolds, [Next]_vars
  PROVE  \A x \in Runs : AttemptStep(x)
<1> USE StandsMatches DEF jobVars, holdVars, planVars, workVars
<1>1. status \in [Runs -> Statuses]
  BY DEF TypeOK, HoldTypeOK
<1>2. CASE Request
  BY <1>1, <1>2
  DEF Request, Create, Join, Cancel, Live, Terminal, AttemptStep, OnlyStatus, Kept, Held
<1>3. ASSUME NEW r \in Runs, NEW g \in Generations,
             \/ Dispatch(r, g) \/ OutboxRetry(r, g) \/ Redeliver(r, g) \/ LoseTask(r, g)
             \/ \E w \in Slots : Take(w, r, g)
      PROVE  \A x \in Runs : AttemptStep(x)
  BY <1>3 DEF Dispatch, OutboxClaim, Enqueue, OutboxDelivered, OutboxRetry, Redeliver,
              LoseTask, Take
<1>4. ASSUME NEW w \in Slots, Handle(w) \/ Heartbeat(w) \/ Checkpoint(w) \/ Disturbance(w)
      PROVE  \A x \in Runs : AttemptStep(x)
  BY <1>4, SlotMatches
<1>5. ASSUME NEW r \in Runs, Observe(r) \/ LeaseExpires(r) \/ DeadlinePasses(r)
      PROVE  \A x \in Runs : AttemptStep(x)
  BY <1>5 DEF Observe, LeaseExpires, DeadlinePasses
<1>6. ASSUME NEW r \in Runs, Repair(r) PROVE \A x \in Runs : AttemptStep(x)
  <2>1. CASE RepairCanceled(r) \/ RepairTooLate(r) \/ RepairRestoreLost(r) \/ RepairEnded(r)
    <3>1. status[r] # "succeeded" /\ (Terminate(r, "canceled") \/ Terminate(r, "failed"))
      BY <2>1
      DEF RepairCanceled, RepairTooLate, RepairRestoreLost, RepairEnded, Unattended,
          OnTime, Repairable, Live, Terminal
    <3> QED BY <3>1, SettlingMatches DEF Terminate
  <2>2. CASE RepairWake(r)
    BY <1>1, <2>2 DEF RepairWake, AttemptStep, OnlyStatus, Kept, Held
  <2>3. CASE RepairMissing(r) \/ RepairNothing(r)
    BY <2>3 DEF RepairMissing, RepairNothing
  <2> QED BY <1>6, <2>1, <2>2, <2>3 DEF Repair
<1>7. CASE UNCHANGED vars
  BY <1>7 DEF vars
<1> QED BY <1>2, <1>3, <1>4, <1>5, <1>6, <1>7 DEF Next

\* Every attempt is closed exactly once and in step with its run, by whichever of
\* the transactions ends it; no run has two open attempts, or a result that is not
\* the result of its succeeded attempt.
THEOREM AttemptsMatch == Spec => []AttemptsMatchStatus
<1>1. Init => OwnerHolds /\ AllMatch
  BY InitKeepsPromise, BoundsAssumption DEF Init, AllMatch, Matches, Epochs
<1>2. TypeOK /\ OwnerHolds /\ AllMatch /\ [Next]_vars => OwnerHolds' /\ AllMatch'
  BY StepOwner, NextMatches, StepMatches DEF AllMatch
<1>3. AllMatch => AttemptsMatchStatus
  BY DEF AllMatch, Matches, Held, AttemptsMatchStatus
<1> QED BY <1>1, <1>2, <1>3, TypeCorrect, PTL DEF Spec

-----------------------------------------------------------------------------
(* What the lifecycle owes to those who asked for a run, and to the        *)
(* machine: a needed run is not stopped, no work goes on for nobody, the   *)
(* execution slots are not exceeded, a delivered row is in the broker.     *)
(* The steps are sorted by what they do to statuses, interest and waits.   *)

\* Statuses of a run that works or will, by itself.
Open == {"queued", "running", "retry_wait"}

\* No status, interest or wait changes, and no lease becomes live.
Rests ==
  /\ UNCHANGED <<status, wanted, dependency>>
  /\ \A x \in Runs : lease'[x] = "live" => lease[x] = "live"

\* An execution starts, or takes over from one whose lease ran out.
Admits(r) ==
  /\ status[r] \in Open /\ HasCapacity(r)
  /\ status[r] = "running" => lease[r] # "live"
  /\ status' = [status EXCEPT ![r] = "running"]
  /\ lease' = [lease EXCEPT ![r] = "live"]
  /\ UNCHANGED <<wanted, dependency>>

\* An execution gives the run back, to be retried.
GivesBack(r) ==
  /\ status[r] = "running" /\ status' = [status EXCEPT ![r] = "retry_wait"]
  /\ lease' = [lease EXCEPT ![r] = "none"]
  /\ UNCHANGED <<wanted, dependency>>

\* terminate.
Settles(r, outcome) ==
  /\ Live(r) /\ (outcome = "canceled" => status[r] = "cancel_requested")
  /\ status' = Settled(r, outcome)
  /\ wanted' = [wanted EXCEPT ![r] = FALSE]
  /\ lease' = [lease EXCEPT ![r] = "none"]
  /\ UNCHANGED dependency

\* finishRun.
Finishes(r) ==
  /\ status[r] = "running" /\ status' = [status EXCEPT ![r] = "succeeded"]
  /\ wanted' = [wanted EXCEPT ![r] = FALSE]
  /\ lease' = [lease EXCEPT ![r] = "none"]
  /\ UNCHANGED dependency

\* WaitForRestore, for a restore in progress or a new one.
Waits(r, d) ==
  /\ status[r] = "running"
  /\ \/ status[d] \in Open /\ status' = [status EXCEPT ![r] = "waiting_dependency"]
     \/ /\ status[d] = "absent"
        /\ status' = [status EXCEPT ![r] = "waiting_dependency", ![d] = "queued"]
  /\ dependency' = [dependency EXCEPT ![r] = d]
  /\ lease' = [lease EXCEPT ![r] = "none"]
  /\ UNCHANGED wanted

RunStep ==
  \/ Rests
  \/ \E r \in Runs :
       \/ Create(r) \/ Join(r) \/ Cancel(r) \/ RepairWake(r)
       \/ Admits(r) \/ GivesBack(r) \/ Finishes(r)
       \/ \E outcome \in {"failed", "canceled"} : Settles(r, outcome)
       \/ \E d \in Runs : Waits(r, d)

-----------------------------------------------------------------------------
(* Every action is a step of one of these kinds.                           *)

LEMMA Resting == UNCHANGED <<status, wanted, dependency, lease>> => RunStep
BY DEF RunStep, Rests

LEMMA Terminating ==
  ASSUME NEW r \in Runs, NEW outcome \in {"failed", "canceled"}, Live(r),
         outcome = "canceled" => status[r] = "cancel_requested",
         Terminate(r, outcome)
  PROVE  RunStep
BY DEF RunStep, Settles, Terminate

LEMMA ClaimKinds ==
  ASSUME TypeOK, NEW w \in Slots, Claim(w)
  PROVE  RunStep
<1> DEFINE r == handler[w].run
<1>1. r \in Runs
  BY Busy DEF Claim, ClaimSkip, ClaimCanceled, ClaimTooLate, ClaimDeferred, ClaimGranted,
              ClaimExhausted, Claimable, Delivered
<1>2. CASE ClaimSkip(w) \/ ClaimDeferred(w)
  BY <1>2, Resting DEF ClaimSkip, ClaimDeferred, jobVars, holdVars, planVars
<1>3. CASE ClaimCanceled(w) \/ ClaimTooLate(w)
  BY <1>1, <1>3, Terminating DEF ClaimCanceled, ClaimTooLate, Current
<1>4. CASE ClaimGranted(w)
  <2>1. status[r] \in Open
    BY <1>1, <1>4 DEF ClaimGranted, Claimable, Current, Live, Open, TypeOK, HoldTypeOK,
                      Statuses
  <2> QED BY <1>1, <1>4, <2>1 DEF ClaimGranted, Claimable, RunStep, Admits
<1>5. CASE ClaimExhausted(w)
  BY <1>1, <1>5 DEF ClaimExhausted, Claimable, Current, RunStep, Settles
<1> QED BY <1>2, <1>3, <1>4, <1>5, <1>1 DEF Claim

LEMMA SaveKinds ==
  ASSUME TypeOK, OwnerHolds, NEW w \in Slots, Save(w)
  PROVE  RunStep
<1> DEFINE r == handler[w].run
<1>1. /\ handler[w].phase # "idle" => r \in Runs
      /\ status \in [Runs -> Statuses] /\ lease \in [Runs -> {"none", "live", "expired"}]
  BY Busy DEF TypeOK, HoldTypeOK
<1>2. FailOwns(w) => status[r] \in Held /\ r \in Runs
  BY <1>1, SetsAssumption DEF FailOwns, OwnerHolds, Held
<1>3. CASE FencedEnds(w) \/ SuspendRefused(w) \/ RestoreRefused(w) \/ FailFenced(w)
  BY <1>3, Resting
  DEF FencedEnds, SuspendRefused, RestoreRefused, FailFenced, jobVars, holdVars, planVars
<1>4. CASE SuspendCanceled(w) \/ FailCanceled(w)
  <2>1. r \in Runs /\ status[r] = "cancel_requested" /\ Terminate(r, "canceled")
    BY <1>1, <1>2, <1>4 DEF SuspendCanceled, FailCanceled, Failing
  <2> QED BY <2>1, Terminating DEF Live, Terminal
<1>5. CASE FailFinal(w)
  <2>1. r \in Runs /\ status[r] = "running" /\ Terminate(r, "failed")
    BY <1>2, <1>5 DEF FailFinal, Held
  <2> QED BY <2>1, Terminating DEF Live, Terminal
<1>6. CASE FailRetry(w) \/ Suspend(w)
  <2>1. /\ r \in Runs /\ status[r] = "running"
        /\ \E outcome \in Outcomes : Release(w, "retry_wait", outcome)
    BY <1>1, <1>2, <1>6 DEF FailRetry, Suspend, Failing, Fence, Held, Outcomes
  <2>2. UNCHANGED <<wanted, dependency>>
    BY <1>6 DEF FailRetry, Suspend, planVars
  <2> QED BY <2>1, <2>2 DEF Release, RunStep, GivesBack
<1>7. ASSUME NEW d \in Runs, WaitForActiveRestore(w, d) \/ WaitForNewRestore(w, d)
      PROVE  RunStep
  <2>1. r \in Runs /\ status[r] = "running"
    BY <1>1, <1>7 DEF WaitForActiveRestore, WaitForNewRestore, Failing, Fence
  <2>2. Waits(r, d)
    BY <1>1, <1>7, <2>1
    DEF WaitForActiveRestore, WaitForNewRestore, Waits, Release, JoinableRestores, Open
  <2> QED BY <2>1, <2>2 DEF RunStep
<1> QED BY <1>3, <1>4, <1>5, <1>6, <1>7 DEF Save

LEMMA SlotKinds ==
  ASSUME TypeOK, OwnerHolds, NEW w \in Slots,
         Handle(w) \/ Heartbeat(w) \/ Checkpoint(w) \/ Disturbance(w)
  PROVE  RunStep
<1> DEFINE r == handler[w].run
<1>1. CASE Checkpoint(w) \/ Disturbance(w) \/ ReadBack(w) \/ WorkFails(w) \/ Ack(w)
  BY <1>1, Resting
  DEF Checkpoint, Disturbance, ClaimError, SaveError, Shutdown, Crash, ReadBack, WorkFails,
      Ack, jobVars, holdVars, planVars
<1>2. CASE Heartbeat(w)
  BY <1>2 DEF Heartbeat, Fence, TypeOK, HoldTypeOK, RunStep, Rests, planVars
<1>3. CASE FinishRun(w)
  <2>1. r \in Runs
    BY <1>3, Busy DEF FinishRun, Working
  <2> QED BY <1>3, <2>1 DEF FinishRun, Fence, planVars, RunStep, Finishes
<1> QED BY <1>1, <1>2, <1>3, ClaimKinds, SaveKinds DEF Handle

LEMMA NextKinds ==
  ASSUME TypeOK, OwnerHolds, [Next]_vars
  PROVE  RunStep
<1> USE Resting DEF jobVars, holdVars, planVars
<1>1. CASE Request
  BY <1>1 DEF Request, RunStep
<1>2. ASSUME NEW r \in Runs, NEW g \in Generations,
             \/ Dispatch(r, g) \/ OutboxRetry(r, g) \/ Redeliver(r, g) \/ LoseTask(r, g)
             \/ \E w \in Slots : Take(w, r, g)
      PROVE  RunStep
  BY <1>2 DEF Dispatch, OutboxClaim, Enqueue, OutboxDelivered, OutboxRetry, Redeliver,
              LoseTask, Take
<1>3. ASSUME NEW w \in Slots, Handle(w) \/ Heartbeat(w) \/ Checkpoint(w) \/ Disturbance(w)
      PROVE  RunStep
  BY <1>3, SlotKinds
<1>4. ASSUME NEW r \in Runs, LeaseExpires(r) PROVE RunStep
  BY <1>4 DEF LeaseExpires, TypeOK, HoldTypeOK, RunStep, Rests
<1>5. ASSUME NEW r \in Runs, Observe(r) \/ DeadlinePasses(r) PROVE RunStep
  BY <1>5 DEF Observe, DeadlinePasses
<1>6. ASSUME NEW r \in Runs, Repair(r) PROVE RunStep
  <2>1. CASE RepairCanceled(r)
    BY <2>1, Terminating DEF RepairCanceled, Repairable
  <2>2. CASE RepairTooLate(r) \/ RepairRestoreLost(r) \/ RepairEnded(r)
    BY <2>2, Terminating
    DEF RepairTooLate, RepairRestoreLost, RepairEnded, Unattended, OnTime, Repairable
  <2>3. CASE RepairWake(r)
    BY <2>3 DEF RunStep
  <2>4. CASE RepairMissing(r) \/ RepairNothing(r)
    BY <2>4 DEF RepairMissing, RepairNothing
  <2> QED BY <1>6, <2>1, <2>2, <2>3, <2>4 DEF Repair
<1>7. CASE UNCHANGED vars
  BY <1>7 DEF vars
<1> QED BY <1>1, <1>2, <1>3, <1>4, <1>5, <1>6, <1>7 DEF Next

-----------------------------------------------------------------------------
(* Who needs a run.                                                        *)

\* Only a run that waits, stops or has ended names a dependency.
WaitsAlone == \A r \in Runs : status[r] \in Open \cup {"absent"} => dependency[r] = NoRun

\* A live run that is not being stopped is bound to a request or question, or
\* to a run still to be settled that depends on it: no work goes on for nobody.
NoOrphanedWork ==
  \A r \in Runs :
    Live(r) /\ status[r] # "cancel_requested" =>
      wanted[r] \/ \E q \in Runs : dependency[q] = r /\ Live(q)

NeedsInv == CancelMeansUnneeded /\ NoOrphanedWork /\ WaitsAlone

LEMMA StepNeeds ==
  ASSUME TypeOK, NeedsInv, RunStep
  PROVE  NeedsInv'
<1> USE SetsAssumption DEF NeedsInv, CancelMeansUnneeded, NoOrphanedWork, WaitsAlone, Needed,
                           Open, Live, Terminal
<1>1. /\ status \in [Runs -> Statuses] /\ wanted \in [Runs -> BOOLEAN]
      /\ dependency \in [Runs -> Runs \cup {NoRun}]
  BY DEF TypeOK, HoldTypeOK, PlanTypeOK
<1>2. CASE Rests
  BY <1>2 DEF Rests
<1>3. ASSUME NEW r \in Runs, Create(r) PROVE NeedsInv'
  BY <1>1, <1>3 DEF Create
<1>4. ASSUME NEW r \in Runs, Join(r) PROVE NeedsInv'
  BY <1>1, <1>4 DEF Join, planVars
<1>5. ASSUME NEW r \in Runs, Cancel(r) PROVE NeedsInv'
  BY <1>1, <1>5 DEF Cancel, planVars
<1>6. ASSUME NEW r \in Runs, RepairWake(r) PROVE NeedsInv'
  BY <1>1, <1>6 DEF RepairWake
<1>7. ASSUME NEW r \in Runs, Admits(r) \/ GivesBack(r) PROVE NeedsInv'
  BY <1>1, <1>7 DEF Admits, GivesBack
<1>8. ASSUME NEW r \in Runs, Finishes(r) PROVE NeedsInv'
  BY <1>1, <1>8 DEF Finishes
<1>9. ASSUME NEW r \in Runs, NEW outcome \in {"failed", "canceled"}, Settles(r, outcome)
      PROVE  NeedsInv'
  BY <1>1, <1>9 DEF Settles, Settled
<1>10. ASSUME NEW r \in Runs, NEW d \in Runs, Waits(r, d) PROVE NeedsInv'
  BY <1>1, <1>10 DEF Waits
<1> QED BY <1>2, <1>3, <1>4, <1>5, <1>6, <1>7, <1>8, <1>9, <1>10 DEF RunStep

LEMMA InitNeeds == Init => NeedsInv
BY SetsAssumption
DEF Init, NeedsInv, CancelMeansUnneeded, NoOrphanedWork, WaitsAlone, Needed, Live

LEMMA NeedsKept == Spec => []NeedsInv
<1>1. Init => OwnerHolds /\ NeedsInv
  BY InitKeepsPromise, InitNeeds
<1>2. TypeOK /\ OwnerHolds /\ NeedsInv /\ [Next]_vars => OwnerHolds' /\ NeedsInv'
  BY StepOwner, NextKinds, StepNeeds
<1> QED BY <1>1, <1>2, TypeCorrect, PTL DEF Spec

\* A run is stopped only when no request, question or waiting run needs it any
\* more, whichever transaction settles the last one that did.
THEOREM StoppedWhenUnneeded == Spec => []CancelMeansUnneeded
<1>1. NeedsInv => CancelMeansUnneeded
  BY DEF NeedsInv
<1> QED BY <1>1, NeedsKept, PTL

\* A run that is not being stopped has somebody to work for: what a settled run
\* waited for is asked to stop if that run was the last to need it.
THEOREM WorkIsWanted == Spec => []NoOrphanedWork
<1>1. NeedsInv => NoOrphanedWork
  BY DEF NeedsInv
<1> QED BY <1>1, NeedsKept, PTL

-----------------------------------------------------------------------------
(* Runs are shared work.  Each kind of step is, for every run, one of the  *)
(* steps of SharedWork: who needs a run, and who no longer does but is     *)
(* still to be settled, follows from the statuses and dependencies of      *)
(* those who wait.                                                         *)

\* A run that is waited for exists.
DependencyExists == \A q, x \in Runs : dependency[q] = x => status[x] # "absent"

LEMMA StepExists ==
  ASSUME TypeOK, NeedsInv, DependencyExists, RunStep
  PROVE  DependencyExists'
<1> USE SetsAssumption DEF DependencyExists, Live, Terminal
<1>1. /\ status \in [Runs -> Statuses] /\ dependency \in [Runs -> Runs \cup {NoRun}]
  BY DEF TypeOK, HoldTypeOK, PlanTypeOK
<1>2. CASE Rests
  BY <1>2 DEF Rests
<1>3. ASSUME NEW r \in Runs, Create(r) \/ Join(r) \/ Cancel(r) \/ RepairWake(r)
      PROVE  DependencyExists'
  BY <1>1, <1>3 DEF Create, Join, Cancel, RepairWake, planVars
<1>4. ASSUME NEW r \in Runs, Admits(r) \/ GivesBack(r) \/ Finishes(r) PROVE DependencyExists'
  BY <1>1, <1>4 DEF Admits, GivesBack, Finishes
<1>5. ASSUME NEW r \in Runs, NEW outcome \in {"failed", "canceled"}, Settles(r, outcome)
      PROVE  DependencyExists'
  BY <1>1, <1>5 DEF Settles, Settled
<1>6. ASSUME NEW r \in Runs, NEW d \in Runs, Waits(r, d) PROVE DependencyExists'
  BY <1>1, <1>6 DEF Waits, Open
<1> QED BY <1>2, <1>3, <1>4, <1>5, <1>6 DEF RunStep

\* The runs that wait for x, and those that did until they were canceled.
Waiters(x) == {q \in Runs : dependency[q] = x /\ status[q] = "waiting_dependency"}
Quitters(x) == {q \in Runs : dependency[q] = x /\ status[q] = "cancel_requested"}

\* The steps of SharedWork, for run x.
WorkGoes(x) == WorkState(x) = "working" /\ WorkState(x)' = "working"

WorkRests(x) ==
  WorkState(x)' = WorkState(x) /\ Demand(x)' = Demand(x) /\ Leaving(x)' = Leaving(x)

WorkStarts(x) ==
  /\ WorkState(x) = "none" /\ WorkState(x)' = "working"
  /\ Demand(x)' # {} /\ Leaving(x)' = {}

WorkJoined(x) ==
  WorkGoes(x) /\ Demand(x) \subseteq Demand(x)' /\ Leaving(x)' = Leaving(x)

WorkWithdrawn(x) ==
  /\ WorkGoes(x)
  /\ \E a \in Demand(x) :
       Demand(x)' = Demand(x) \ {a} /\ Leaving(x)' = Leaving(x) \cup {a}

WorkLeft(x) ==
  /\ WorkGoes(x) /\ Demand(x)' # {}
  /\ \/ \E a \in Demand(x) : Demand(x)' = Demand(x) \ {a} /\ Leaving(x)' = Leaving(x)
     \/ \E a \in Leaving(x) : Leaving(x)' = Leaving(x) \ {a} /\ Demand(x)' = Demand(x)

WorkAbandoned(x) ==
  /\ WorkState(x) = "working" /\ WorkState(x)' = "stopping"
  /\ \/ \E a \in Runs \cup {NoRun} : Demand(x) = {a}
     \/ Demand(x) = {} /\ Leaving(x) # {}
  /\ Demand(x)' = {} /\ Leaving(x)' = {}

WorkEnds(x) ==
  /\ WorkState(x) = "working" /\ WorkState(x)' = "over"
  /\ Demand(x)' = {} /\ Leaving(x)' = {}

WorkStopped(x) ==
  /\ WorkState(x) = "stopping" /\ WorkState(x)' = "over"
  /\ Demand(x) = {} /\ Demand(x)' = {} /\ Leaving(x)' = {}

WorkStep(x) ==
  \/ WorkRests(x) \/ WorkStarts(x) \/ WorkJoined(x) \/ WorkWithdrawn(x) \/ WorkLeft(x)
  \/ WorkAbandoned(x) \/ WorkEnds(x) \/ WorkStopped(x)

LEMMA WorkStepShared ==
  ASSUME NEW x \in Runs, WorkStep(x)
  PROVE  \/ Shared!Rest(x) \/ Shared!Start(x) \/ Shared!Join(x) \/ Shared!Withdraw(x)
         \/ Shared!Leave(x) \/ Shared!Abandon(x) \/ Shared!End(x) \/ Shared!Stopped(x)
<1> DEFINE st == [r \in Runs |-> WorkState(r)]
           de == [r \in Runs |-> Demand(r)]
           le == [r \in Runs |-> Leaving(r)]
<1>1. /\ st[x] = WorkState(x) /\ st'[x] = WorkState(x)'
      /\ de[x] = Demand(x) /\ de'[x] = Demand(x)'
      /\ le[x] = Leaving(x) /\ le'[x] = Leaving(x)'
  OBVIOUS
<1>2. Demand(x)' \subseteq Runs \cup {NoRun}
  BY DEF Demand
<1> HIDE DEF st, de, le
<1>3. WorkRests(x) => Shared!Rest(x)
  BY <1>1 DEF WorkRests, Shared!Rest, st, de, le
<1>4. WorkStarts(x) => Shared!Start(x)
  BY <1>1, <1>2 DEF WorkStarts, Shared!Start, st, de, le
<1>5. WorkJoined(x) => Shared!Join(x)
  BY <1>1, <1>2 DEF WorkJoined, WorkGoes, Shared!Join, Shared!Goes, st, de, le
<1>6. WorkWithdrawn(x) => Shared!Withdraw(x)
  BY <1>1 DEF WorkWithdrawn, WorkGoes, Shared!Withdraw, Shared!Goes, st, de, le
<1>7. WorkLeft(x) => Shared!Leave(x)
  BY <1>1 DEF WorkLeft, WorkGoes, Shared!Leave, Shared!Goes, st, de, le
<1>8. WorkAbandoned(x) => Shared!Abandon(x)
  BY <1>1 DEF WorkAbandoned, Shared!Abandon, st, de, le
<1>9. WorkEnds(x) => Shared!End(x)
  BY <1>1 DEF WorkEnds, Shared!End, st, de, le
<1>10. WorkStopped(x) => Shared!Stopped(x)
  BY <1>1 DEF WorkStopped, Shared!Stopped, st, de, le
<1> QED BY <1>3, <1>4, <1>5, <1>6, <1>7, <1>8, <1>9, <1>10 DEF WorkStep

\* What a status says about the work, and who needs it.
LEMMA WorkOf ==
  ASSUME TypeOK, NEW x \in Runs
  PROVE  /\ WorkState(x) = "working" <=> status[x] \in Open \cup {"waiting_dependency"}
         /\ WorkState(x) = "stopping" <=> status[x] = "cancel_requested"
         /\ WorkState(x) = "over" <=> status[x] \in Terminal
         /\ WorkState(x) = "none" <=> status[x] = "absent"
         /\ Live(x) <=> status[x] \in Open \cup {"waiting_dependency", "cancel_requested"}
         /\ Live(x) => Demand(x) = Waiters(x) \cup (IF wanted[x] THEN {NoRun} ELSE {})
         /\ ~Live(x) => Demand(x) = {}
         /\ WorkState(x) = "working" => Leaving(x) = Quitters(x)
         /\ WorkState(x) # "working" => Leaving(x) = {}
<1>1. status[x] \in Statuses
  BY DEF TypeOK, HoldTypeOK
<1> QED BY <1>1 DEF WorkState, Live, Terminal, Open, Statuses, Demand, Leaving, Waiters, Quitters

ShareInv == TypeOK /\ NeedsInv /\ DependencyExists

\* What the invariant says of run x when a step is looked at.
LEMMA WorkKnown ==
  ASSUME ShareInv, NEW x \in Runs
  PROVE  /\ status \in [Runs -> Statuses] /\ wanted \in [Runs -> BOOLEAN]
         /\ dependency \in [Runs -> Runs \cup {NoRun}]
         /\ WorkState(x) = "stopping" => ~wanted[x] /\ Waiters(x) = {} /\ Demand(x) = {}
         /\ WorkState(x) = "none" => Waiters(x) = {} /\ Quitters(x) = {}
         /\ \A q \in Runs : status[q] \in Open \cup {"absent"} => dependency[q] = NoRun
         /\ NoRun \notin Runs
<1> USE SetsAssumption DEF ShareInv
<1>1. /\ status \in [Runs -> Statuses] /\ wanted \in [Runs -> BOOLEAN]
      /\ dependency \in [Runs -> Runs \cup {NoRun}]
  BY DEF TypeOK, HoldTypeOK, PlanTypeOK
<1>2. WorkState(x) = "stopping" => ~wanted[x] /\ Waiters(x) = {}
  BY WorkOf DEF NeedsInv, CancelMeansUnneeded, Needed, Waiters
<1>3. WorkState(x) = "stopping" => Demand(x) = {}
  BY <1>2, WorkOf DEF Demand, Waiters
<1>4. WorkState(x) = "none" => Waiters(x) = {} /\ Quitters(x) = {}
  BY WorkOf DEF DependencyExists, Waiters, Quitters
<1> QED BY <1>1, <1>2, <1>3, <1>4 DEF NeedsInv, WaitsAlone

\* Nothing happens to the work, nor to those who need it.
LEMMA WorkSame ==
  ASSUME ShareInv, TypeOK', NEW x \in Runs, WorkState(x)' = WorkState(x),
         wanted'[x] = wanted[x],
         Live(x) => Waiters(x)' = Waiters(x) /\ Quitters(x)' = Quitters(x)
  PROVE  WorkStep(x)
<1>1. status[x] \in Statuses /\ status'[x] \in Statuses
  BY DEF ShareInv, TypeOK, HoldTypeOK
<1>2. Live(x)' <=> Live(x)
  BY <1>1 DEF WorkState, Live, Terminal, Statuses
<1>3. WorkState(x) = "working" => Live(x)
  BY <1>1 DEF WorkState, Live, Terminal, Statuses
<1>4. Demand(x)' = Demand(x)
  BY <1>2 DEF Demand, Waiters
<1>5. Leaving(x)' = Leaving(x)
  BY <1>3 DEF Leaving, Quitters
<1> QED BY <1>4, <1>5 DEF WorkStep, WorkRests

LEMMA CreateWorks ==
  ASSUME ShareInv, TypeOK', NEW r \in Runs, Create(r), NEW x \in Runs
  PROVE  WorkStep(x)
<1>1. /\ status' = [status EXCEPT ![r] = "queued"] /\ status[r] = "absent"
      /\ wanted' = [wanted EXCEPT ![r] = TRUE] /\ dependency' = dependency
  BY DEF Create
<1>2. dependency[r] = NoRun
  BY <1>1, WorkKnown
<1>3. \A y \in Runs : Waiters(y)' = Waiters(y) /\ Quitters(y)' = Quitters(y)
  BY <1>1, <1>2, WorkKnown DEF Waiters, Quitters
<1>4. CASE x = r
  <2>1. WorkState(x) = "none" /\ WorkState(x)' = "working" /\ wanted'[x] /\ Live(x)'
    BY <1>1, <1>4, WorkKnown DEF WorkState, Live, Terminal
  <2>2. Leaving(x)' = {}
    BY <1>3, <2>1, WorkKnown DEF Leaving, Quitters
  <2>3. Demand(x)' # {}
    BY <2>1 DEF Demand
  <2> QED BY <2>1, <2>2, <2>3 DEF WorkStep, WorkStarts
<1>5. CASE x # r
  <2>1. WorkState(x)' = WorkState(x) /\ wanted'[x] = wanted[x]
    BY <1>1, <1>5, WorkKnown DEF WorkState
  <2> QED BY <1>3, <2>1, WorkSame
<1> QED BY <1>4, <1>5

LEMMA JoinWorks ==
  ASSUME ShareInv, TypeOK', NEW r \in Runs, Join(r), NEW x \in Runs
  PROVE  WorkStep(x)
<1>1. /\ status' = status /\ dependency' = dependency
      /\ status[r] \in Open /\ wanted' = [wanted EXCEPT ![r] = TRUE]
  BY DEF Join, planVars, Open
<1>2. /\ WorkState(x)' = WorkState(x) /\ Live(x)' = Live(x)
      /\ Waiters(x)' = Waiters(x) /\ Quitters(x)' = Quitters(x) /\ Leaving(x)' = Leaving(x)
  BY <1>1 DEF WorkState, Live, Waiters, Quitters, Leaving
<1>3. CASE x = r
  <2>1. WorkState(x) = "working"
    BY <1>1, <1>3, WorkOf DEF ShareInv
  <2>2. Demand(x) \subseteq Demand(x)'
    BY <1>1, <1>2, <1>3, WorkKnown DEF Demand
  <2> QED BY <1>2, <2>1, <2>2 DEF WorkStep, WorkJoined, WorkGoes
<1>4. CASE x # r
  <2>1. wanted'[x] = wanted[x]
    BY <1>1, <1>4, WorkKnown
  <2> QED BY <1>2, <2>1, WorkSame
<1> QED BY <1>3, <1>4

\* Runs that run, are retried or woken wait for nobody.
LEMMA MovesWork ==
  ASSUME ShareInv, TypeOK', NEW r \in Runs, RepairWake(r) \/ Admits(r) \/ GivesBack(r),
         NEW x \in Runs
  PROVE  WorkStep(x)
<1>1. /\ wanted' = wanted
      /\ \E s \in Open : status' = [status EXCEPT ![r] = s]
      /\ status[r] \in Open \cup {"waiting_dependency"}
      /\ dependency'[r] = NoRun /\ \A q \in Runs \ {r} : dependency'[q] = dependency[q]
      /\ dependency[r] = NoRun \/ status[dependency[r]] = "succeeded"
  BY WorkKnown DEF RepairWake, Admits, GivesBack, Open
<1>2. WorkState(x)' = WorkState(x) /\ wanted'[x] = wanted[x]
  BY <1>1, WorkKnown DEF WorkState, Open, Terminal
<1>3. \A q \in Runs \ {r} : status'[q] = status[q]
  BY <1>1, WorkKnown
<1>4. status'[r] \in Open
  BY <1>1, WorkKnown
<1>5. Live(x) => dependency[r] # x
  BY <1>1, WorkKnown DEF Live, Terminal
<1>6. Live(x) => Waiters(x)' = Waiters(x) /\ Quitters(x)' = Quitters(x)
  BY <1>1, <1>3, <1>4, <1>5, WorkKnown DEF Waiters, Quitters, Open
<1> QED BY <1>2, <1>6, WorkSame

LEMMA FinishWorks ==
  ASSUME ShareInv, TypeOK', NEW r \in Runs, Finishes(r), NEW x \in Runs
  PROVE  WorkStep(x)
<1>1. /\ status[r] = "running" /\ status' = [status EXCEPT ![r] = "succeeded"]
      /\ wanted' = [wanted EXCEPT ![r] = FALSE] /\ dependency' = dependency
      /\ dependency[r] = NoRun
  BY WorkKnown DEF Finishes, Open
<1>2. CASE x = r
  <2>1. WorkState(x) = "working" /\ WorkState(x)' = "over" /\ ~Live(x)'
    BY <1>1, <1>2, WorkKnown DEF WorkState, Live, Terminal
  <2> QED BY <2>1 DEF WorkStep, WorkEnds, Demand, Leaving
<1>3. CASE x # r
  <2>1. WorkState(x)' = WorkState(x) /\ wanted'[x] = wanted[x]
    BY <1>1, <1>3, WorkKnown DEF WorkState
  <2>2. Waiters(x)' = Waiters(x) /\ Quitters(x)' = Quitters(x)
    BY <1>1, WorkKnown DEF Waiters, Quitters
  <2> QED BY <2>1, <2>2, WorkSame
<1> QED BY <1>2, <1>3

LEMMA WaitWorks ==
  ASSUME ShareInv, TypeOK', NEW r \in Runs, NEW d \in Runs, Waits(r, d), NEW x \in Runs
  PROVE  WorkStep(x)
<1>1. /\ wanted' = wanted /\ dependency' = [dependency EXCEPT ![r] = d]
      /\ status[r] = "running" /\ dependency[r] = NoRun
      /\ \/ status[d] \in Open /\ status' = [status EXCEPT ![r] = "waiting_dependency"]
         \/ /\ status[d] = "absent" /\ d # r
            /\ status' = [status EXCEPT ![r] = "waiting_dependency", ![d] = "queued"]
  BY WorkKnown DEF Waits, Open
<1>2. /\ dependency'[r] = d /\ \A q \in Runs \ {r} : dependency'[q] = dependency[q]
      /\ status'[r] = "waiting_dependency"
      /\ \A q \in Runs \ {r, d} : status'[q] = status[q]
  BY <1>1, WorkKnown
<1>3. d # r => status'[d] = status[d] \/ (status[d] = "absent" /\ status'[d] = "queued")
  BY <1>1, WorkKnown
<1>4. status[d] = "absent" => dependency[d] = NoRun
  BY WorkKnown
<1>5. /\ Waiters(x)' = IF x = d THEN Waiters(x) \cup {r} ELSE Waiters(x)
      /\ Quitters(x)' = Quitters(x)
  BY <1>1, <1>2, <1>3, <1>4, WorkKnown DEF Waiters, Quitters
<1>6. CASE x # d
  <2>1. WorkState(x)' = WorkState(x)
    BY <1>1, <1>2, <1>6 DEF WorkState, Terminal
  <2> QED BY <1>1, <1>5, <1>6, <2>1, WorkSame
<1>7. CASE x = d /\ status[d] = "absent"
  <2>1. status'[d] = "queued"
    BY <1>1, <1>7, WorkKnown DEF Open
  <2>2. WorkState(x) = "none" /\ WorkState(x)' = "working" /\ Live(x)'
    BY <1>7, <2>1 DEF WorkState, Live, Terminal
  <2>3. r \in Demand(x)'
    BY <1>5, <1>7, <2>2 DEF Demand, Waiters
  <2>4. Leaving(x)' = {}
    BY <1>5, <2>2, WorkKnown DEF Leaving, Quitters
  <2> QED BY <2>2, <2>3, <2>4 DEF WorkStep, WorkStarts
<1>8. CASE x = d /\ status[d] # "absent"
  <2>1. status[d] \in Open /\ status'[d] \in Open \cup {"waiting_dependency"}
    BY <1>1, <1>8, WorkKnown
  <2>2. WorkGoes(x) /\ Live(x) /\ Live(x)'
    BY <1>8, <2>1 DEF WorkGoes, WorkState, Live, Terminal, Open
  <2>3. Demand(x) \subseteq Demand(x)' /\ Leaving(x)' = Leaving(x)
    BY <1>1, <1>5, <2>2 DEF Demand, Leaving, WorkGoes, Waiters, Quitters
  <2> QED BY <2>2, <2>3 DEF WorkStep, WorkJoined
<1> QED BY <1>6, <1>7, <1>8

\* A run is canceled: those it waits for are left by it once it is settled.
LEMMA CancelWorks ==
  ASSUME ShareInv, TypeOK', NEW r \in Runs, Cancel(r), NEW x \in Runs
  PROVE  WorkStep(x)
<1>1. /\ Live(r) /\ wanted[r] /\ wanted' = [wanted EXCEPT ![r] = FALSE]
      /\ dependency' = dependency
      /\ status' = IF Waiters(r) # {} THEN status
                   ELSE [status EXCEPT ![r] = "cancel_requested"]
  BY DEF Cancel, planVars, Waiters
<1>2. WorkState(r) = "working"
  <2>1. WorkState(r) # "stopping"
    BY <1>1, WorkKnown
  <2> QED BY <1>1, <2>1, WorkOf DEF ShareInv
<1>3. Demand(r) = Waiters(r) \cup {NoRun} /\ NoRun \notin Waiters(r)
  BY <1>1, WorkOf, WorkKnown DEF ShareInv, Waiters
<1>4. CASE Waiters(r) # {}
  <2>1. /\ WorkState(x)' = WorkState(x) /\ Live(x)' = Live(x)
        /\ Waiters(x)' = Waiters(x) /\ Quitters(x)' = Quitters(x) /\ Leaving(x)' = Leaving(x)
    BY <1>1, <1>4 DEF WorkState, Live, Waiters, Quitters, Leaving
  <2>2. CASE x = r
    <3>1. ~wanted'[x]
      BY <1>1, <2>2, WorkKnown
    <3>2. Demand(x)' = Waiters(x)
      BY <1>1, <1>4, <2>1, <2>2, <3>1 DEF Demand, Waiters
    <3>3. NoRun \in Demand(x) /\ Demand(x)' = Demand(x) \ {NoRun} /\ Demand(x)' # {}
      BY <1>3, <1>4, <2>2, <3>2
    <3> QED BY <1>2, <2>1, <2>2, <3>3 DEF WorkStep, WorkLeft, WorkGoes
  <2>3. CASE x # r
    <3>1. wanted'[x] = wanted[x]
      BY <1>1, <2>3, WorkKnown
    <3> QED BY <2>1, <3>1, WorkSame
  <2> QED BY <2>2, <2>3
<1>5. CASE Waiters(r) = {}
  <2>1. status'[r] = "cancel_requested" /\ \A q \in Runs \ {r} : status'[q] = status[q]
    BY <1>1, <1>5, WorkKnown
  <2>2. CASE x = r
    <3>0. status'[x] = "cancel_requested" /\ ~wanted'[x]
      BY <1>1, <2>1, <2>2, WorkKnown
    <3>1. WorkState(x)' = "stopping" /\ ~wanted'[x]
      BY <3>0 DEF WorkState, Terminal
    <3>2. Demand(x) = {NoRun}
      BY <1>3, <1>5, <2>2
    <3>3. Waiters(x)' = {}
      BY <1>1, <1>5, <2>1, <2>2 DEF Waiters
    <3>4. Demand(x)' = {} /\ Leaving(x)' = {}
      BY <3>1, <3>3 DEF Demand, Leaving, Waiters
    <3> QED BY <1>2, <2>2, <3>1, <3>2, <3>4 DEF WorkStep, WorkAbandoned
  <2>3. CASE x # r
    <3>1. WorkState(x)' = WorkState(x) /\ wanted'[x] = wanted[x]
      BY <1>1, <2>1, <2>3, WorkKnown DEF WorkState
    <3>2. CASE dependency[r] # x
      <4>1. Waiters(x)' = Waiters(x) /\ Quitters(x)' = Quitters(x)
        BY <1>1, <2>1, <3>2 DEF Waiters, Quitters
      <4> QED BY <3>1, <4>1, WorkSame
    <3>3. CASE dependency[r] = x /\ Live(x)
      <4>1. status[r] = "waiting_dependency"
        BY <1>2, <3>3, WorkOf, WorkKnown DEF ShareInv
      <4>2. r \in Waiters(x)
        BY <3>3, <4>1 DEF Waiters
      <4>3. WorkState(x) = "working"
        <5>1. WorkState(x) # "stopping"
          BY <4>2, WorkKnown
        <5> QED BY <3>3, <5>1, WorkOf DEF ShareInv
      <4>4. Waiters(x)' = Waiters(x) \ {r} /\ Quitters(x)' = Quitters(x) \cup {r}
        BY <1>1, <2>1, <3>3 DEF Waiters, Quitters
      <4>5. WorkGoes(x) /\ Live(x)'
        BY <2>1, <2>3, <3>1, <3>3, <4>3 DEF WorkGoes, Live
      <4>6. /\ Demand(x) = Waiters(x) \cup (IF wanted[x] THEN {NoRun} ELSE {})
            /\ Demand(x)' = Waiters(x)' \cup (IF wanted'[x] THEN {NoRun} ELSE {})
            /\ Leaving(x) = Quitters(x) /\ Leaving(x)' = Quitters(x)'
        BY <3>3, <4>5 DEF WorkGoes, Demand, Leaving, Waiters, Quitters
      <4>7. r \in Demand(x) /\ Demand(x)' = Demand(x) \ {r} /\ Leaving(x)' = Leaving(x) \cup {r}
        BY <3>1, <4>2, <4>4, <4>6, WorkKnown
      <4> QED BY <4>5, <4>7 DEF WorkStep, WorkWithdrawn
    <3> QED BY <3>1, <3>2, <3>3, WorkSame
  <2> QED BY <2>2, <2>3
<1> QED BY <1>4, <1>5

\* A run is settled: what it waited for is stopped if nobody else needs it.
LEMMA SettleWorks ==
  ASSUME ShareInv, TypeOK', NEW r \in Runs, NEW outcome \in {"failed", "canceled"},
         Settles(r, outcome), NEW x \in Runs
  PROVE  WorkStep(x)
<1> DEFINE d == dependency[r]
           stopped == d \in Runs \ {r} /\ Live(d) /\ ~Needed(d, r)
<1>1. /\ Live(r) /\ wanted' = [wanted EXCEPT ![r] = FALSE] /\ dependency' = dependency
      /\ status'[r] = outcome
      /\ \A q \in Runs \ {r} : status'[q] = IF q = d /\ stopped THEN "cancel_requested"
                                            ELSE status[q]
  BY DEF Settles, Settled
<1>2. stopped => /\ ~wanted[d] /\ Waiters(d) \subseteq {r}
                 /\ Demand(d) = Waiters(d)
  BY WorkOf DEF ShareInv, Needed, Waiters
<1>3. d \in Runs => status[r] \in {"waiting_dependency", "cancel_requested"}
  BY <1>1, WorkOf, WorkKnown DEF ShareInv
<1> HIDE DEF stopped
<1>4. CASE x = r
  <2>1. WorkState(x)' = "over" /\ ~Live(x)'
    BY <1>1, <1>4 DEF WorkState, Live, Terminal
  <2>2. Demand(x)' = {} /\ Leaving(x)' = {}
    BY <2>1 DEF Demand, Leaving
  <2>3. WorkState(x) \in {"working", "stopping"}
    BY <1>1, <1>4, WorkOf DEF ShareInv
  <2> QED BY <2>1, <2>2, <2>3, WorkKnown DEF WorkStep, WorkEnds, WorkStopped
<1>5. CASE x = d /\ x # r /\ stopped
  <2>0. status'[x] = "cancel_requested"
    BY <1>1, <1>5
  <2>1. WorkState(x)' = "stopping"
    BY <2>0 DEF WorkState, Terminal
  <2>2. ~wanted'[x] /\ Waiters(x)' = {}
    BY <1>1, <1>2, <1>5, WorkKnown DEF Waiters
  <2>3. Demand(x)' = {} /\ Leaving(x)' = {}
    BY <2>1, <2>2 DEF Demand, Leaving, Waiters
  <2>4. CASE WorkState(x) = "stopping"
    BY <2>1, <2>3, <2>4, WorkKnown, WorkOf DEF WorkStep, WorkRests, ShareInv
  <2>5. CASE WorkState(x) # "stopping"
    <3>1. WorkState(x) = "working"
      BY <1>5, <2>5, WorkOf DEF ShareInv, stopped
    <3>2. CASE status[r] = "waiting_dependency"
      <4>1. Demand(x) = {r}
        BY <1>2, <1>5, <3>2 DEF Waiters
      <4> QED BY <2>1, <2>3, <3>1, <4>1 DEF WorkStep, WorkAbandoned
    <3>3. CASE status[r] = "cancel_requested"
      <4>1. Demand(x) = {}
        BY <1>2, <1>5, <3>3 DEF Waiters
      <4>2. r \in Leaving(x)
        BY <1>5, <3>1, <3>3 DEF Leaving
      <4> QED BY <2>1, <2>3, <3>1, <4>1, <4>2 DEF WorkStep, WorkAbandoned
    <3> QED BY <1>3, <1>5, <3>2, <3>3
  <2> QED BY <2>4, <2>5
<1>6. CASE x = d /\ x # r /\ ~stopped
  <2>1. status'[x] = status[x] /\ wanted'[x] = wanted[x]
    BY <1>1, <1>6, WorkKnown
  <2>2. WorkState(x)' = WorkState(x)
    BY <2>1 DEF WorkState
  <2>3. CASE ~Live(x)
    BY <2>1, <2>2, <2>3, WorkSame
  <2>4. CASE Live(x)
    <3>1. Needed(x, r)
      BY <1>6, <2>4 DEF stopped
    <3>2. Live(x)' /\ \A q \in Runs \ {r} : status'[q] = status[q]
      BY <1>1, <1>6, <2>1, <2>4 DEF Live
    <3>3. Waiters(x)' = Waiters(x) \ {r} /\ Quitters(x)' = Quitters(x) \ {r}
      BY <1>1, <3>2 DEF Waiters, Quitters
    <3>4. wanted[x] \/ Waiters(x) \ {r} # {}
      BY <3>1 DEF Needed, Waiters
    <3>5. WorkState(x) = "working"
      <4>1. WorkState(x) # "stopping"
        BY <3>4, WorkKnown
      <4> QED BY <2>4, <4>1, WorkOf DEF ShareInv
    <3>6. /\ Demand(x) = Waiters(x) \cup (IF wanted[x] THEN {NoRun} ELSE {})
          /\ Demand(x)' = Waiters(x)' \cup (IF wanted'[x] THEN {NoRun} ELSE {})
          /\ Leaving(x) = Quitters(x) /\ Leaving(x)' = Quitters(x)'
      BY <2>2, <2>4, <3>2, <3>5 DEF Demand, Leaving, Waiters, Quitters
    <3>7. Demand(x)' # {}
      BY <2>1, <3>3, <3>4, <3>6
    <3>8. CASE status[r] = "waiting_dependency"
      <4>1. r \in Waiters(x) /\ r \notin Quitters(x)
        BY <1>6, <3>8 DEF Waiters, Quitters
      <4>2. r \in Demand(x) /\ Demand(x)' = Demand(x) \ {r} /\ Leaving(x)' = Leaving(x)
        BY <2>1, <3>3, <3>6, <4>1, WorkKnown
      <4> QED BY <2>2, <3>5, <3>7, <4>2 DEF WorkStep, WorkLeft, WorkGoes
    <3>9. CASE status[r] = "cancel_requested"
      <4>1. r \notin Waiters(x) /\ r \in Quitters(x)
        BY <1>6, <3>9 DEF Waiters, Quitters
      <4>2. r \in Leaving(x) /\ Leaving(x)' = Leaving(x) \ {r} /\ Demand(x)' = Demand(x)
        BY <2>1, <3>3, <3>6, <4>1, WorkKnown
      <4> QED BY <2>2, <3>5, <3>7, <4>2 DEF WorkStep, WorkLeft, WorkGoes
    <3> QED BY <1>3, <1>6, <3>8, <3>9
  <2> QED BY <2>3, <2>4
<1>7. CASE x # r /\ x # d
  <2>1. status'[x] = status[x] /\ wanted'[x] = wanted[x] /\ WorkState(x)' = WorkState(x)
    BY <1>1, <1>7, WorkKnown DEF WorkState
  <2>2. CASE ~(stopped /\ dependency[d] = x /\ status[d] = "waiting_dependency")
    <3>1. Live(x) => Waiters(x)' = Waiters(x) /\ Quitters(x)' = Quitters(x)
      <4>1. stopped /\ dependency[d] = x
              => status[d] \in {"waiting_dependency", "cancel_requested"}
        BY <1>7, WorkOf, WorkKnown DEF ShareInv, stopped
      <4> QED BY <1>1, <1>7, <2>2, <4>1 DEF Waiters, Quitters
    <3> QED BY <2>1, <3>1, WorkSame
  <2>3. CASE stopped /\ dependency[d] = x /\ status[d] = "waiting_dependency"
    <3>1. d \in Runs /\ d \in Waiters(x) /\ status'[d] = "cancel_requested"
      BY <1>1, <2>3 DEF stopped, Waiters
    <3>2. Waiters(x)' = Waiters(x) \ {d} /\ Quitters(x)' = Quitters(x) \cup {d}
      BY <1>1, <1>7, <2>3, <3>1 DEF Waiters, Quitters
    <3>3. CASE ~Live(x)
      BY <2>1, <3>3, WorkSame
    <3>4. CASE Live(x)
      <4>1. WorkState(x) = "working" /\ Live(x)'
        <5>1. WorkState(x) # "stopping"
          BY <3>1, WorkKnown
        <5> QED BY <2>1, <3>4, <5>1, WorkOf DEF ShareInv, Live
      <4>2. /\ Demand(x) = Waiters(x) \cup (IF wanted[x] THEN {NoRun} ELSE {})
            /\ Demand(x)' = Waiters(x)' \cup (IF wanted'[x] THEN {NoRun} ELSE {})
            /\ Leaving(x) = Quitters(x) /\ Leaving(x)' = Quitters(x)'
        BY <2>1, <3>4, <4>1 DEF Demand, Leaving, Waiters, Quitters
      <4>3. /\ d \in Demand(x) /\ Demand(x)' = Demand(x) \ {d}
            /\ Leaving(x)' = Leaving(x) \cup {d}
        BY <2>1, <3>1, <3>2, <4>2, WorkKnown
      <4> QED BY <2>1, <4>1, <4>3 DEF WorkStep, WorkWithdrawn, WorkGoes
    <3> QED BY <3>3, <3>4
  <2> QED BY <2>2, <2>3
<1> QED BY <1>4, <1>5, <1>6, <1>7

LEMMA StepShared ==
  ASSUME ShareInv, TypeOK', RunStep
  PROVE  Shared!Next
<1>1. ASSUME NEW x \in Runs PROVE WorkStep(x)
  <2>1. CASE Rests
    <3>1. /\ WorkState(x)' = WorkState(x) /\ wanted'[x] = wanted[x]
          /\ Waiters(x)' = Waiters(x) /\ Quitters(x)' = Quitters(x)
      BY <2>1 DEF Rests, WorkState, Waiters, Quitters
    <3> QED BY <3>1, WorkSame
  <2>2. ASSUME NEW r \in Runs, Create(r) \/ Join(r) \/ Cancel(r) PROVE WorkStep(x)
    BY <2>2, CreateWorks, JoinWorks, CancelWorks
  <2>3. ASSUME NEW r \in Runs, RepairWake(r) \/ Admits(r) \/ GivesBack(r) \/ Finishes(r)
        PROVE  WorkStep(x)
    BY <2>3, MovesWork, FinishWorks
  <2>4. ASSUME NEW r \in Runs, NEW outcome \in {"failed", "canceled"}, Settles(r, outcome)
        PROVE  WorkStep(x)
    BY <2>4, SettleWorks
  <2>5. ASSUME NEW r \in Runs, NEW d \in Runs, Waits(r, d) PROVE WorkStep(x)
    BY <2>5, WaitWorks
  <2> QED BY <2>1, <2>2, <2>3, <2>4, <2>5 DEF RunStep
<1> QED BY <1>1, WorkStepShared DEF Shared!Next

\* The lifecycle implements shared work, as RequestSharing does: whatever is
\* delivered, retried, taken over or lost, a run is stopped when, and only when,
\* the last visitor or run that needs it lets go of it (cancelUnused).
THEOREM SharedByAll == Spec => SharesWork
<1>1. ASSUME Init PROVE DependencyExists /\ Shared!Init
  <2>1. \A x \in Runs : status[x] = "absent" /\ dependency[x] = NoRun
    BY <1>1 DEF Init
  <2>2. \A x \in Runs : WorkState(x) = "none" /\ Demand(x) = {} /\ Leaving(x) = {}
    <3>1. \A x \in Runs : ~Live(x) /\ WorkState(x) = "none"
      BY <2>1 DEF WorkState, Live, Terminal
    <3> QED BY <3>1 DEF Demand, Leaving
  <2> QED BY <2>1, <2>2, SetsAssumption DEF DependencyExists, Shared!Init
<1>2. /\ TypeOK /\ TypeOK' /\ OwnerHolds /\ NeedsInv /\ DependencyExists /\ [Next]_vars
        => DependencyExists' /\ Shared!Next
  BY NextKinds, StepExists, StepShared DEF ShareInv
<1>3. Init => OwnerHolds
  BY InitKeepsPromise
<1>4. TypeOK /\ OwnerHolds /\ [Next]_vars => OwnerHolds'
  BY StepOwner
<1> QED
  BY <1>1, <1>2, <1>3, <1>4, TypeCorrect, NeedsKept, PTL DEF Spec, SharesWork, Shared!Spec

-----------------------------------------------------------------------------
(* The execution slots.                                                    *)

\* A live lease is that of a claim that has not been settled.
LeaseHolds == \A r \in Runs : lease[r] = "live" => status[r] \in Held

\* Nothing is admitted: every occupant was one before.
NoneAdmitted == Occupying' \subseteq Occupying

LEMMA StepLease ==
  ASSUME TypeOK, LeaseHolds, RunStep
  PROVE  LeaseHolds' /\ (NoneAdmitted \/ \E r \in Runs : Admits(r))
<1> USE DEF LeaseHolds, Held, NoneAdmitted, Occupying
<1>1. status \in [Runs -> Statuses] /\ lease \in [Runs -> {"none", "live", "expired"}]
  BY DEF TypeOK, HoldTypeOK
<1>2. CASE Rests
  BY <1>2 DEF Rests
<1>3. ASSUME NEW r \in Runs, Create(r) \/ Join(r) \/ Cancel(r) \/ RepairWake(r)
      PROVE  LeaseHolds' /\ NoneAdmitted
  BY <1>1, <1>3 DEF Create, Join, Cancel, RepairWake, Live, Terminal
<1>4. ASSUME NEW r \in Runs, Admits(r) PROVE LeaseHolds'
  BY <1>1, <1>4 DEF Admits
<1>5. ASSUME NEW r \in Runs, GivesBack(r) \/ Finishes(r) PROVE LeaseHolds' /\ NoneAdmitted
  BY <1>1, <1>5 DEF GivesBack, Finishes
<1>6. ASSUME NEW r \in Runs, NEW outcome \in {"failed", "canceled"}, Settles(r, outcome)
      PROVE  LeaseHolds' /\ NoneAdmitted
  BY <1>1, <1>6 DEF Settles, Settled, Live, Terminal
<1>7. ASSUME NEW r \in Runs, NEW d \in Runs, Waits(r, d) PROVE LeaseHolds' /\ NoneAdmitted
  BY <1>1, <1>7 DEF Waits, Open
<1> QED BY <1>2, <1>3, <1>4, <1>5, <1>6, <1>7 DEF RunStep

\* A set with at most one element more than a finite one has at most one more.
LEMMA OneMore ==
  ASSUME NEW S, IsFiniteSet(S), NEW x, NEW T, T \subseteq S \cup {x}
  PROVE  /\ Cardinality(S) \in Nat /\ Cardinality(T) \in Nat
         /\ Cardinality(T) <= Cardinality(S) + 1
<1>1. IsFiniteSet(S \cup {x}) /\ Cardinality(S) \in Nat
  BY FS_AddElement, FS_CardinalityType
<1>2. Cardinality(S \cup {x}) = IF x \in S THEN Cardinality(S) ELSE Cardinality(S) + 1
  BY FS_AddElement
<1>3. IsFiniteSet(T) /\ Cardinality(T) <= Cardinality(S \cup {x})
  BY <1>1, FS_Subset
<1>4. Cardinality(T) \in Nat
  BY <1>3, FS_CardinalityType
<1> QED BY <1>1, <1>2, <1>3, <1>4

\* Admission counts the occupants before it adds one.
LEMMA AdmitsCapacity ==
  ASSUME TypeOK, IsFiniteSet(Runs), CapacityRespected, NEW r \in Runs, Admits(r)
  PROVE  CapacityRespected'
<1> DEFINE Sources == {x \in Occupying : IsSource(x)}
<1>1. IsFiniteSet(Occupying) /\ IsFiniteSet(Sources)
  BY FS_Subset DEF Occupying
<1>2. status \in [Runs -> Statuses] /\ lease \in [Runs -> {"none", "live", "expired"}]
  BY DEF TypeOK, HoldTypeOK
<1>3. CASE Kind[r] = "answer"
  <2>1. Occupying' = Occupying /\ Sources' = Sources
    BY <1>2, <1>3 DEF Admits, Occupying, IsSource
  <2> QED BY <2>1 DEF CapacityRespected
<1>4. CASE Kind[r] # "answer"
  <2>1. Occupying' = Occupying \cup {r}
    BY <1>2, <1>4 DEF Admits, Occupying, Open
  <2>2. Sources' = IF IsSource(r) THEN Sources \cup {r} ELSE Sources
    BY <2>1 DEF IsSource
  <2>3. /\ Cardinality(Occupying) < VideoSlots
        /\ IsSource(r) => Cardinality(Sources) < SourceSlots
    BY <1>4 DEF Admits, HasCapacity
  <2>4. Sources' \subseteq Sources \cup {r} /\ Occupying' \subseteq Occupying \cup {r}
    BY <2>1, <2>2
  <2> HIDE DEF Sources
  <2>5. Cardinality(Occupying') <= VideoSlots
    <3>1. /\ Cardinality(Occupying) \in Nat /\ Cardinality(Occupying') \in Nat
          /\ Cardinality(Occupying') <= Cardinality(Occupying) + 1
      BY <1>1, <2>4, OneMore
    <3> QED BY <2>3, <3>1, BoundsAssumption
  <2>6. Cardinality(Sources') <= SourceSlots
    <3>1. /\ Cardinality(Sources) \in Nat /\ Cardinality(Sources') \in Nat
          /\ Cardinality(Sources') <= Cardinality(Sources) + 1
      BY <1>1, <2>4, OneMore
    <3>2. CASE IsSource(r)
      BY <2>3, <3>1, <3>2, BoundsAssumption
    <3>3. CASE ~IsSource(r)
      BY <2>2, <3>3 DEF CapacityRespected, Sources
    <3> QED BY <3>2, <3>3
  <2> QED BY <2>5, <2>6 DEF CapacityRespected, Sources
<1> QED BY <1>3, <1>4

LEMMA NoneAdmittedCapacity ==
  ASSUME IsFiniteSet(Runs), CapacityRespected, NoneAdmitted
  PROVE  CapacityRespected'
<1> DEFINE Sources == {x \in Occupying : IsSource(x)}
<1>1. IsFiniteSet(Occupying) /\ IsFiniteSet(Sources)
  BY FS_Subset DEF Occupying
<1>2. Sources' \subseteq Sources
  BY DEF NoneAdmitted, IsSource
<1>3. /\ Cardinality(Occupying') <= Cardinality(Occupying)
      /\ Cardinality(Sources') <= Cardinality(Sources)
      /\ Cardinality(Occupying) \in Nat /\ Cardinality(Sources) \in Nat
      /\ Cardinality(Occupying') \in Nat /\ Cardinality(Sources') \in Nat
  BY <1>1, <1>2, FS_Subset, FS_CardinalityType DEF NoneAdmitted
<1> QED BY <1>3, BoundsAssumption DEF CapacityRespected

LEMMA InitCapacity ==
  ASSUME Init PROVE LeaseHolds /\ CapacityRespected
<1>1. Occupying = {} /\ {x \in Occupying : IsSource(x)} = {}
  BY DEF Init, Occupying
<1>2. LeaseHolds
  BY DEF Init, LeaseHolds
<1> QED BY <1>1, <1>2, FS_EmptySet, BoundsAssumption DEF CapacityRespected

\* However claims, takeovers, heartbeats and cancellations interleave, the leases
\* that are live never number more than the execution slots, nor those of sources
\* more than theirs.
THEOREM SlotsSuffice ==
  ASSUME IsFiniteSet(Runs)
  PROVE  Spec => []CapacityRespected
<1>1. Init => OwnerHolds /\ LeaseHolds /\ CapacityRespected
  BY InitKeepsPromise, InitCapacity
<1>2. TypeOK /\ OwnerHolds /\ LeaseHolds /\ CapacityRespected /\ [Next]_vars
        => OwnerHolds' /\ LeaseHolds' /\ CapacityRespected'
  BY StepOwner, NextKinds, StepLease, AdmitsCapacity, NoneAdmittedCapacity
<1> QED BY <1>1, <1>2, TypeCorrect, PTL DEF Spec

-----------------------------------------------------------------------------
(* The accounting of failures.                                             *)

\* The attempts of run x that failure_count counts.
Charged(x) == {e \in Epochs : attempts[x][e] \in {"lease_expired", "retry_wait"}}

\* FailuresAccounted for one run.
Accounted(x) ==
  /\ failures[x] = Cardinality(Charged(x))
  /\ failures[x] > MaxRetries(x) => status[x] = "failed"

AllAccounted == \A x \in Runs : Accounted(x)

\* Nothing is charged: what closes, if anything, is no failed or lost attempt.
ChargesNothing(x) ==
  /\ failures'[x] = failures[x]
  /\ \/ attempts'[x] = attempts[x]
     \/ \E outcome \in Outcomes \ {"none", "open", "lease_expired", "retry_wait"} :
          \/ attempts'[x] = CloseAttempts(x, outcome)
          \/ /\ status[x] = "running"
             /\ attempts'[x] = [attempts[x] EXCEPT ![epoch[x]] = outcome]

\* Fail, with an allowance left.
ChargesRetry(x) ==
  /\ status[x] = "running"
  /\ failures[x] < MaxRetries(x) /\ failures'[x] = failures[x] + 1
  /\ attempts'[x] = [attempts[x] EXCEPT ![epoch[x]] = "retry_wait"]

\* Claim: a lost attempt, if there is one, is charged.
ChargesLost(x) ==
  /\ failures'[x] = ClaimFailures(x)
  /\ \/ /\ ClaimFailures(x) <= MaxRetries(x) /\ epoch[x] + 1 \in Epochs
        /\ attempts'[x] = [ClaimClosed(x) EXCEPT ![epoch[x] + 1] = "open"]
     \/ status'[x] = "failed" /\ attempts'[x] = ClaimClosed(x)

ChargeStep(x) == ChargesNothing(x) \/ ChargesRetry(x) \/ ChargesLost(x)

LEMMA FailedStays ==
  ASSUME TypeOK, RunStep, NEW x \in Runs, status[x] = "failed"
  PROVE  status'[x] = "failed"
<1>1. status \in [Runs -> Statuses]
  BY DEF TypeOK, HoldTypeOK
<1> QED BY <1>1
        DEF RunStep, Rests, Create, Join, Cancel, RepairWake, OnTime, Repairable, Admits,
            GivesBack, Finishes, Settles, Settled, Waits, Open, Live, Terminal

\* One more attempt is charged, and nothing else changes in the count.
LEMMA ChargeOne ==
  ASSUME TypeOK, NEW x \in Runs, failures[x] = Cardinality(Charged(x)),
         NEW e \in Epochs, e \notin Charged(x), Charged(x)' = Charged(x) \cup {e},
         failures'[x] = failures[x] + 1
  PROVE  failures'[x] = Cardinality(Charged(x)')
<1>1. IsFiniteSet(Charged(x))
  <2>1. IsFiniteSet(Epochs)
    BY BoundsAssumption, FS_Interval DEF Epochs
  <2>2. Charged(x) \in SUBSET Epochs
    BY DEF Charged
  <2> QED BY <2>1, <2>2, FS_Subset
<1>2. Cardinality(Charged(x) \cup {e}) = Cardinality(Charged(x)) + 1
  BY <1>1, FS_AddElement
<1> QED BY <1>2

LEMMA StepAccounted ==
  ASSUME TypeOK, RunStep, NEW x \in Runs, Matches(x), Accounted(x), ChargeStep(x)
  PROVE  Accounted(x)'
<1>1. /\ attempts[x] \in [Epochs -> Outcomes]
      /\ epoch[x] \in Nat /\ failures[x] \in Nat
      /\ Epochs \subseteq Nat \ {0}
      /\ MaxRetries(x) \in Nat
  BY BoundsAssumption DEF TypeOK, HoldTypeOK, PlanTypeOK, Epochs, MaxRetries
<1>2. CASE ChargesNothing(x)
  <2> DEFINE charging == {"lease_expired", "retry_wait"}
  <2>1. Charged(x)' = Charged(x)
    <3>1. SUFFICES ASSUME NEW e \in Epochs
                   PROVE  attempts'[x][e] \in charging <=> attempts[x][e] \in charging
      BY DEF Charged
    <3>2. CASE attempts'[x] = attempts[x]
      BY <3>2
    <3>3. ASSUME NEW outcome \in Outcomes \ {"none", "open", "lease_expired", "retry_wait"},
                 attempts'[x] = CloseAttempts(x, outcome)
          PROVE  attempts'[x][e] \in charging <=> attempts[x][e] \in charging
      BY <3>3 DEF CloseAttempts
    <3>4. ASSUME NEW outcome \in Outcomes \ {"none", "open", "lease_expired", "retry_wait"},
                 status[x] = "running",
                 attempts'[x] = [attempts[x] EXCEPT ![epoch[x]] = outcome]
          PROVE  attempts'[x][e] \in charging <=> attempts[x][e] \in charging
      <4>1. attempts[x][epoch[x]] = "open"
        BY <3>4 DEF Matches
      <4> QED BY <1>1, <3>4, <4>1
    <3> QED BY <1>2, <3>2, <3>3, <3>4 DEF ChargesNothing
  <2> QED BY <1>2, <2>1, FailedStays DEF ChargesNothing, Accounted, MaxRetries
<1>3. CASE ChargesRetry(x)
  <2>1. Charged(x)' = Charged(x) \cup {epoch[x]} /\ epoch[x] \in Epochs \ Charged(x)
    BY <1>1, <1>3 DEF ChargesRetry, Charged, Matches
  <2>2. failures'[x] = Cardinality(Charged(x)')
    BY <1>3, <2>1, ChargeOne DEF ChargesRetry, Accounted
  <2>3. failures'[x] <= MaxRetries(x)
    BY <1>1, <1>3 DEF ChargesRetry
  <2> QED BY <1>1, <1>3, <2>2, <2>3 DEF Accounted, MaxRetries, ChargesRetry
<1>4. CASE ChargesLost(x)
  <2>1. ClaimFailures(x) <= MaxRetries(x) \/ status'[x] = "failed"
    BY <1>4 DEF ChargesLost
  <2>2. CASE status[x] = "running"
    <3>1. Charged(x)' = Charged(x) \cup {epoch[x]} /\ epoch[x] \in Epochs \ Charged(x)
      <4>1. /\ epoch[x] \in Epochs /\ attempts[x][epoch[x]] = "open"
            /\ \A e \in Epochs : /\ attempts[x][e] = "open" => e = epoch[x]
                                 /\ attempts[x][e] = "none" <=> e > epoch[x]
        BY <2>2 DEF Matches
      <4>2. /\ ClaimClosed(x) \in [Epochs -> Outcomes]
            /\ \A e \in Epochs :
                 ClaimClosed(x)[e] = IF e = epoch[x] THEN "lease_expired" ELSE attempts[x][e]
        BY <1>1, <2>2, <4>1 DEF ClaimClosed, CloseAttempts, Outcomes
      <4>3. \A e \in Epochs :
              attempts'[x][e] \in {"lease_expired", "retry_wait"}
                <=> ClaimClosed(x)[e] \in {"lease_expired", "retry_wait"}
        <5>1. epoch[x] + 1 \in Epochs => ClaimClosed(x)[epoch[x] + 1] = "none"
          BY <1>1, <4>1, <4>2
        <5>2. \/ attempts'[x] = ClaimClosed(x)
              \/ /\ epoch[x] + 1 \in Epochs
                 /\ attempts'[x] = [ClaimClosed(x) EXCEPT ![epoch[x] + 1] = "open"]
          BY <1>4 DEF ChargesLost
        <5> QED BY <4>2, <5>1, <5>2
      <4> QED BY <4>1, <4>2, <4>3 DEF Charged
    <3>2. failures'[x] = failures[x] + 1
      BY <1>4, <2>2 DEF ChargesLost, ClaimFailures
    <3>3. failures'[x] = Cardinality(Charged(x)')
      BY <3>1, <3>2, ChargeOne DEF Accounted
    <3> QED BY <1>1, <1>4, <2>1, <3>2, <3>3 DEF Accounted, MaxRetries, ChargesLost
  <2>3. CASE status[x] # "running"
    <3>1. Charged(x)' = Charged(x)
      BY <1>1, <1>4, <2>3 DEF ChargesLost, Charged, Matches, ClaimClosed
    <3>2. failures'[x] = failures[x]
      BY <1>1, <1>4, <2>3 DEF ChargesLost, ClaimFailures
    <3> QED BY <1>1, <1>4, <2>1, <3>1, <3>2 DEF Accounted, MaxRetries, ChargesLost
  <2> QED BY <2>2, <2>3
<1> QED BY <1>2, <1>3, <1>4 DEF ChargeStep

LEMMA ChargeNone == UNCHANGED <<failures, attempts>> => \A x \in Runs : ChargeStep(x)
BY DEF ChargeStep, ChargesNothing

LEMMA TerminateCharges ==
  ASSUME TypeOK, NEW r \in Runs, NEW outcome \in {"failed", "canceled"},
         Terminate(r, outcome), UNCHANGED failures
  PROVE  \A x \in Runs : ChargeStep(x)
<1>1. attempts \in [Runs -> [Epochs -> Outcomes]]
  BY DEF TypeOK, HoldTypeOK
<1> QED BY <1>1 DEF Terminate, ChargeStep, ChargesNothing, Outcomes, Terminal

LEMMA ClaimCharges ==
  ASSUME TypeOK, NEW w \in Slots, Claim(w)
  PROVE  \A x \in Runs : ChargeStep(x)
<1> DEFINE r == handler[w].run
<1>1. /\ r \in Runs
      /\ attempts \in [Runs -> [Epochs -> Outcomes]] /\ failures \in [Runs -> Nat]
      /\ epoch \in [Runs -> 0 .. MaxEpoch] /\ status \in [Runs -> Statuses]
  BY Busy DEF Claim, ClaimSkip, ClaimCanceled, ClaimTooLate, ClaimDeferred, ClaimGranted,
              ClaimExhausted, Claimable, Delivered, TypeOK, HoldTypeOK, PlanTypeOK
<1>2. CASE ClaimSkip(w) \/ ClaimDeferred(w)
  BY <1>2, ChargeNone DEF ClaimSkip, ClaimDeferred, jobVars, holdVars, planVars
<1>3. CASE ClaimCanceled(w) \/ ClaimTooLate(w)
  BY <1>1, <1>3, TerminateCharges DEF ClaimCanceled, ClaimTooLate
<1>4. CASE ClaimGranted(w)
  <2>1. epoch[r] + 1 \in Epochs
    BY <1>1, <1>4, BoundsAssumption DEF ClaimGranted, Epochs
  <2>2. ChargesLost(r)
    BY <1>1, <1>4, <2>1 DEF ClaimGranted, ChargesLost
  <2>3. \A x \in Runs \ {r} : ChargesNothing(x)
    BY <1>1, <1>4 DEF ClaimGranted, ChargesNothing
  <2> QED BY <2>2, <2>3 DEF ChargeStep
<1>5. CASE ClaimExhausted(w)
  <2>1. ChargesLost(r)
    BY <1>1, <1>5 DEF ClaimExhausted, ChargesLost, Settled
  <2>2. \A x \in Runs \ {r} : ChargesNothing(x)
    BY <1>1, <1>5 DEF ClaimExhausted, ChargesNothing
  <2> QED BY <2>1, <2>2 DEF ChargeStep
<1> QED BY <1>2, <1>3, <1>4, <1>5, <1>1 DEF Claim

LEMMA SaveCharges ==
  ASSUME TypeOK, OwnerHolds, NEW w \in Slots, Save(w) \/ FinishRun(w)
  PROVE  \A x \in Runs : ChargeStep(x)
<1> DEFINE r == handler[w].run
<1>1. /\ handler[w].phase # "idle" => r \in Runs
      /\ attempts \in [Runs -> [Epochs -> Outcomes]] /\ failures \in [Runs -> Nat]
  BY Busy DEF TypeOK, HoldTypeOK, PlanTypeOK
<1>2. FailOwns(w) => status[r] \in Held /\ r \in Runs
  BY <1>1, SetsAssumption DEF FailOwns, OwnerHolds, Held
<1>3. CASE FencedEnds(w) \/ SuspendRefused(w) \/ RestoreRefused(w) \/ FailFenced(w)
  BY <1>3, ChargeNone
  DEF FencedEnds, SuspendRefused, RestoreRefused, FailFenced, jobVars, holdVars, planVars
<1>4. CASE SuspendCanceled(w) \/ FailCanceled(w) \/ FailFinal(w)
  BY <1>1, <1>2, <1>4, TerminateCharges DEF SuspendCanceled, FailCanceled, FailFinal, Failing
<1>5. CASE FailRetry(w)
  <2>1. ChargesRetry(r)
    BY <1>1, <1>2, <1>5 DEF FailRetry, FailOwns, Release, ChargesRetry, Held
  <2>2. \A x \in Runs \ {r} : ChargesNothing(x)
    BY <1>1, <1>5 DEF FailRetry, Release, ChargesNothing
  <2> QED BY <2>1, <2>2 DEF ChargeStep
<1>6. CASE FinishRun(w) \/ Suspend(w)
           \/ \E d \in Runs : WaitForActiveRestore(w, d) \/ WaitForNewRestore(w, d)
  <2>1. /\ r \in Runs /\ status[r] = "running" /\ epoch[r] = handler[w].epoch
        /\ UNCHANGED failures
    BY <1>1, <1>6
    DEF FinishRun, Working, Suspend, WaitForActiveRestore, WaitForNewRestore, Failing, Fence,
        planVars
  <2>2. \E outcome \in {"succeeded", "interrupted", "waiting_dependency"} :
          attempts' = [attempts EXCEPT ![r][epoch[r]] = outcome]
    BY <1>6, <2>1 DEF FinishRun, Suspend, WaitForActiveRestore, WaitForNewRestore, Release
  <2>3. ChargesNothing(r)
    BY <1>1, <2>1, <2>2 DEF ChargesNothing, Outcomes, Terminal
  <2>4. \A x \in Runs \ {r} : ChargesNothing(x)
    BY <1>1, <2>1, <2>2 DEF ChargesNothing
  <2> QED BY <2>3, <2>4 DEF ChargeStep
<1> QED BY <1>3, <1>4, <1>5, <1>6 DEF Save

LEMMA NextCharges ==
  ASSUME TypeOK, OwnerHolds, [Next]_vars
  PROVE  \A x \in Runs : ChargeStep(x)
<1> USE ChargeNone DEF jobVars, holdVars, planVars
<1>1. CASE Request
  BY <1>1 DEF Request, Create, Join, Cancel
<1>2. ASSUME NEW r \in Runs, NEW g \in Generations,
             \/ Dispatch(r, g) \/ OutboxRetry(r, g) \/ Redeliver(r, g) \/ LoseTask(r, g)
             \/ \E w \in Slots : Take(w, r, g)
      PROVE  \A x \in Runs : ChargeStep(x)
  BY <1>2 DEF Dispatch, OutboxClaim, Enqueue, OutboxDelivered, OutboxRetry, Redeliver,
              LoseTask, Take
<1>3. ASSUME NEW w \in Slots, Heartbeat(w) \/ Checkpoint(w) \/ Disturbance(w)
                              \/ ReadBack(w) \/ WorkFails(w) \/ Ack(w)
      PROVE  \A x \in Runs : ChargeStep(x)
  BY <1>3 DEF Heartbeat, Checkpoint, Disturbance, ClaimError, SaveError, Shutdown, Crash,
              ReadBack, WorkFails, Ack
<1>4. ASSUME NEW w \in Slots, Handle(w) PROVE \A x \in Runs : ChargeStep(x)
  BY <1>3, <1>4, ClaimCharges, SaveCharges DEF Handle
<1>5. ASSUME NEW r \in Runs, Observe(r) \/ LeaseExpires(r) \/ DeadlinePasses(r)
      PROVE  \A x \in Runs : ChargeStep(x)
  BY <1>5 DEF Observe, LeaseExpires, DeadlinePasses
<1>6. ASSUME NEW r \in Runs, Repair(r) PROVE \A x \in Runs : ChargeStep(x)
  <2>1. CASE RepairCanceled(r) \/ RepairTooLate(r) \/ RepairRestoreLost(r) \/ RepairEnded(r)
    BY <2>1, TerminateCharges DEF RepairCanceled, RepairTooLate, RepairRestoreLost, RepairEnded
  <2>2. CASE RepairWake(r) \/ RepairMissing(r) \/ RepairNothing(r)
    BY <2>2 DEF RepairWake, RepairMissing, RepairNothing
  <2> QED BY <1>6, <2>1, <2>2 DEF Repair
<1>7. CASE UNCHANGED vars
  BY <1>7 DEF vars
<1> QED BY <1>1, <1>2, <1>3, <1>4, <1>5, <1>6, <1>7 DEF Next

LEMMA InitAccounted == Init => AllMatch /\ AllAccounted
<1>1. Init => AllMatch
  BY BoundsAssumption DEF Init, AllMatch, Matches, Epochs
<1>2. Init => \A x \in Runs : Charged(x) = {}
  BY DEF Init, Charged
<1>3. Init => \A x \in Runs : failures[x] = 0 /\ MaxRetries(x) \in Nat
  BY DEF Init, MaxRetries
<1>4. ASSUME NEW x \in Runs, Charged(x) = {}, failures[x] = 0, MaxRetries(x) \in Nat
      PROVE  Accounted(x)
  BY <1>4, FS_EmptySet DEF Accounted
<1> QED BY <1>1, <1>2, <1>3, <1>4 DEF AllAccounted

\* failure_count counts exactly the failed and the lost attempts of a run, whatever
\* retries, takeovers and graceful stops it goes through; past its allowance the run
\* has failed.
THEOREM FailuresCounted == Spec => []FailuresAccounted
<1>1. Init => OwnerHolds /\ AllMatch /\ AllAccounted
  BY InitKeepsPromise, InitAccounted
<1>2. TypeOK /\ OwnerHolds /\ AllMatch /\ AllAccounted /\ [Next]_vars
        => OwnerHolds' /\ AllMatch' /\ AllAccounted'
  <2> SUFFICES ASSUME TypeOK, OwnerHolds, AllMatch, AllAccounted, [Next]_vars
               PROVE  OwnerHolds' /\ AllMatch' /\ AllAccounted'
    OBVIOUS
  <2>1. OwnerHolds' /\ AllMatch'
    BY StepOwner, NextMatches, StepMatches DEF AllMatch
  <2>2. AllAccounted'
    BY NextKinds, NextCharges, StepAccounted DEF AllMatch, AllAccounted
  <2> QED BY <2>1, <2>2
<1>3. AllAccounted => FailuresAccounted
  BY DEF AllAccounted, Accounted, Charged, FailuresAccounted
<1> QED BY <1>1, <1>2, <1>3, TypeCorrect, PTL DEF Spec

-----------------------------------------------------------------------------
(* Outbox rows and tasks.                                                  *)

\* No row is written ahead of its generation, and an absent run has none.
RowsBehind ==
  \A r \in Runs :
    /\ status[r] = "absent" => generation[r] = 0
    /\ \A g \in Generations : g > generation[r] => outbox[r][g] = "none"

\* The rows of run x: its generation stays and a row moves on, or a new generation
\* opens with a row of its own.
RowsMove(x) ==
  /\ generation'[x] = generation[x]
  /\ \A g \in Generations :
       \/ outbox'[x][g] = outbox[x][g]
       \/ /\ outbox[x][g] = "pending" /\ outbox'[x][g] = "delivered"
          /\ ~Live(x) \/ generation[x] # g
       \/ outbox[x][g] # "none" /\ outbox'[x][g] \in {"pending", "sending"}
       \/ outbox[x][g] = "sending" /\ broker'[x][g].state # "missing"
       \/ outbox[x][g] = "sent" /\ outbox'[x][g] = "delivered"

RowOpens(x) ==
  \E g \in Generations :
    /\ g > generation[x] /\ generation'[x] = g
    /\ status'[x] # "absent"
    /\ outbox'[x] = [outbox[x] EXCEPT ![g] = "pending"]

RowStep(x) == RowsMove(x) \/ RowOpens(x)

\* No task is lost.
TasksStay ==
  \A r \in Runs : \A g \in Generations :
    broker[r][g].state # "missing" => broker'[r][g].state # "missing"

\* No run comes to life but a new one.
LEMMA LiveStays ==
  ASSUME TypeOK, RunStep, NEW x \in Runs
  PROVE  /\ Live(x)' => Live(x) \/ status[x] = "absent"
         /\ status'[x] = "absent" => status[x] = "absent"
<1>1. status \in [Runs -> Statuses]
  BY DEF TypeOK, HoldTypeOK
<1> QED BY <1>1
        DEF RunStep, Rests, Create, Join, Cancel, RepairWake, OnTime, Repairable, Admits,
            GivesBack, Finishes, Settles, Settled, Waits, Open, Live, Terminal

LEMMA StepRows ==
  ASSUME TypeOK, RunStep, TasksStay, RowsBehind, DeliveredIsEnqueued,
         \A x \in Runs : RowStep(x)
  PROVE  RowsBehind' /\ DeliveredIsEnqueued'
<1>1. /\ generation \in [Runs -> 0 .. MaxGeneration]
      /\ outbox \in [Runs -> [Generations -> RowStates]]
      /\ Generations \subseteq Nat \ {0}
  BY BoundsAssumption DEF TypeOK, PlanTypeOK, QueueTypeOK, Generations
<1>2. ASSUME NEW x \in Runs, RowsMove(x)
      PROVE  /\ status'[x] = "absent" => generation'[x] = 0
             /\ \A g \in Generations : g > generation'[x] => outbox'[x][g] = "none"
             /\ \A g \in Generations :
                  Live(x)' /\ g = generation'[x] /\ outbox'[x][g] \in {"sent", "delivered"}
                    => broker'[x][g].state # "missing"
  <2>1. /\ status'[x] = "absent" => generation'[x] = 0
        /\ \A g \in Generations : g > generation'[x] => outbox'[x][g] = "none"
    BY <1>1, <1>2, LiveStays DEF RowsMove, RowsBehind
  <2>2. ASSUME NEW g \in Generations, Live(x)', g = generation'[x],
               outbox'[x][g] \in {"sent", "delivered"}
        PROVE  broker'[x][g].state # "missing"
    <3>1. g = generation[x] /\ Live(x)
      BY <1>1, <1>2, <2>2, LiveStays DEF RowsMove, RowsBehind
    <3>2. outbox[x][g] \in {"sent", "delivered"} => broker[x][g].state # "missing"
      BY <3>1 DEF DeliveredIsEnqueued
    <3> QED BY <1>2, <2>2, <3>1, <3>2 DEF RowsMove, TasksStay
  <2> QED BY <2>1, <2>2
<1>3. ASSUME NEW x \in Runs, RowOpens(x)
      PROVE  /\ status'[x] = "absent" => generation'[x] = 0
             /\ \A g \in Generations : g > generation'[x] => outbox'[x][g] = "none"
             /\ \A g \in Generations :
                  Live(x)' /\ g = generation'[x] /\ outbox'[x][g] \in {"sent", "delivered"}
                    => broker'[x][g].state # "missing"
  <2>1. PICK g \in Generations : /\ g > generation[x] /\ generation'[x] = g
                                 /\ status'[x] # "absent"
                                 /\ outbox'[x] = [outbox[x] EXCEPT ![g] = "pending"]
    BY <1>3 DEF RowOpens
  <2>2. \A n \in Generations :
          outbox'[x][n] = IF n = g THEN "pending" ELSE outbox[x][n]
    BY <1>1, <2>1
  <2>3. \A n \in Generations : n > g => outbox[x][n] = "none"
    BY <1>1, <2>1 DEF RowsBehind
  <2> QED BY <1>1, <2>1, <2>2, <2>3
<1> QED BY <1>2, <1>3 DEF RowStep, RowsBehind, DeliveredIsEnqueued

-----------------------------------------------------------------------------

LEMMA SameRows == UNCHANGED <<generation, outbox>> => \A x \in Runs : RowStep(x)
BY DEF RowStep, RowsMove

LEMMA QueueRows ==
  ASSUME TypeOK, NEW r \in Runs, NEW g \in Generations, Dispatch(r, g) \/ OutboxRetry(r, g)
  PROVE  \A x \in Runs : RowStep(x)
<1>1. /\ outbox \in [Runs -> [Generations -> RowStates]]
      /\ broker \in [Runs -> [Generations -> Tasks]]
  BY DEF TypeOK, QueueTypeOK
<1>2. UNCHANGED generation
  BY DEF Dispatch, OutboxClaim, Enqueue, OutboxDelivered, OutboxRetry, jobVars, planVars
<1>3. CASE OutboxClaim(r, g)
  BY <1>1, <1>2, <1>3 DEF OutboxClaim, RowStep, RowsMove
<1>4. CASE Enqueue(r, g)
  <2>1. broker'[r][g].state # "missing"
    BY <1>1, <1>4 DEF Enqueue
  <2> QED BY <1>1, <1>2, <1>4, <2>1 DEF Enqueue, RowStep, RowsMove
<1>5. CASE OutboxDelivered(r, g)
  BY <1>1, <1>2, <1>5 DEF OutboxDelivered, RowStep, RowsMove
<1>6. CASE OutboxRetry(r, g)
  BY <1>1, <1>2, <1>6 DEF OutboxRetry, RowStep, RowsMove
<1> QED BY <1>3, <1>4, <1>5, <1>6 DEF Dispatch

\* A run is created, or dispatched again.
LEMMA OpeningRows ==
  ASSUME TypeOK, RowsBehind, NEW r \in Runs, NEW g \in Generations, g > generation[r],
         generation' = [generation EXCEPT ![r] = g],
         outbox' = [outbox EXCEPT ![r][g] = "pending"], status'[r] # "absent"
  PROVE  \A x \in Runs : RowStep(x)
BY DEF TypeOK, PlanTypeOK, QueueTypeOK, RowStep, RowsMove, RowOpens

LEMMA NextRows ==
  ASSUME TypeOK, RowsBehind, [Next]_vars
  PROVE  \A x \in Runs : RowStep(x)
<1> USE SameRows DEF jobVars, planVars, queueVars
<1>1. status \in [Runs -> Statuses] /\ 1 \in Generations
  BY BoundsAssumption DEF TypeOK, HoldTypeOK, Generations
<1>2. ASSUME NEW r \in Runs, Create(r) PROVE \A x \in Runs : RowStep(x)
  <2>1. 1 > generation[r] /\ status'[r] # "absent"
    BY <1>1, <1>2 DEF Create, RowsBehind
  <2>2. /\ generation' = [generation EXCEPT ![r] = 1]
        /\ outbox' = [outbox EXCEPT ![r][1] = "pending"]
    BY <1>2 DEF Create
  <2> QED BY <1>1, <2>1, <2>2, OpeningRows
<1>3. ASSUME NEW r \in Runs, Join(r) \/ Cancel(r) PROVE \A x \in Runs : RowStep(x)
  BY <1>3 DEF Join, Cancel
<1>4. ASSUME NEW r \in Runs, NEW g \in Generations,
             \/ Redeliver(r, g) \/ LoseTask(r, g)
             \/ \E w \in Slots : Take(w, r, g)
      PROVE  \A x \in Runs : RowStep(x)
  BY <1>4 DEF Redeliver, LoseTask, Take
<1>5. ASSUME NEW w \in Slots, Heartbeat(w) \/ Checkpoint(w) \/ Disturbance(w)
                              \/ ReadBack(w) \/ WorkFails(w) \/ FinishRun(w) \/ Ack(w)
      PROVE  \A x \in Runs : RowStep(x)
  BY <1>5 DEF Heartbeat, Checkpoint, Disturbance, ClaimError, SaveError, Shutdown, Crash,
              ReadBack, WorkFails, FinishRun, Ack
<1>6. ASSUME NEW w \in Slots, Claim(w) PROVE \A x \in Runs : RowStep(x)
  BY <1>6 DEF Claim, ClaimSkip, ClaimCanceled, ClaimTooLate, ClaimDeferred, ClaimGranted,
              ClaimExhausted, Terminate
<1>7. ASSUME NEW w \in Slots, NEW d \in Runs, WaitForNewRestore(w, d)
      PROVE  \A x \in Runs : RowStep(x)
  <2>1. 1 > generation[d] /\ status'[d] # "absent"
    BY <1>1, <1>7 DEF WaitForNewRestore, RowsBehind
  <2>2. /\ generation' = [generation EXCEPT ![d] = 1]
        /\ outbox' = [outbox EXCEPT ![d][1] = "pending"]
    BY <1>7 DEF WaitForNewRestore
  <2> QED BY <1>1, <2>1, <2>2, OpeningRows
<1>8. ASSUME NEW w \in Slots, Save(w) PROVE \A x \in Runs : RowStep(x)
  <2>1. CASE \/ FencedEnds(w) \/ SuspendRefused(w) \/ SuspendCanceled(w) \/ Suspend(w)
             \/ RestoreRefused(w) \/ FailFenced(w) \/ FailCanceled(w) \/ FailRetry(w)
             \/ FailFinal(w)
    BY <2>1 DEF FencedEnds, SuspendRefused, SuspendCanceled, Suspend, RestoreRefused,
                FailFenced, FailCanceled, FailRetry, FailFinal, Terminate
  <2>2. ASSUME NEW d \in Runs, WaitForActiveRestore(w, d) PROVE \A x \in Runs : RowStep(x)
    BY <2>2 DEF WaitForActiveRestore
  <2> QED BY <1>7, <1>8, <2>1, <2>2 DEF Save
<1>9. ASSUME NEW r \in Runs, Observe(r) \/ LeaseExpires(r) \/ DeadlinePasses(r)
      PROVE  \A x \in Runs : RowStep(x)
  BY <1>9 DEF Observe, LeaseExpires, DeadlinePasses
<1>10. ASSUME NEW r \in Runs, Repair(r) PROVE \A x \in Runs : RowStep(x)
  <2>1. CASE RepairCanceled(r) \/ RepairTooLate(r) \/ RepairRestoreLost(r) \/ RepairEnded(r)
             \/ RepairNothing(r)
    BY <2>1 DEF RepairCanceled, RepairTooLate, RepairRestoreLost, RepairEnded,
                RepairNothing, Terminate
  <2>2. CASE RepairWake(r) \/ RepairMissing(r)
    <3> DEFINE g == generation[r] + 1
    <3>1. g \in Generations /\ g > generation[r]
      BY <2>2, BoundsAssumption
      DEF RepairWake, RepairMissing, RepairLimit, TypeOK, PlanTypeOK, Generations
    <3>2. status'[r] # "absent"
      BY <1>1, <2>2 DEF RepairWake, RepairMissing, Unattended, OnTime, Repairable, Live, holdVars
    <3>3. Redispatch(r, g)
      BY <2>2 DEF RepairWake, RepairMissing
    <3> HIDE DEF g
    <3> QED BY <3>1, <3>2, <3>3, OpeningRows DEF Redispatch
  <2> QED BY <1>10, <2>1, <2>2 DEF Repair
<1>11. CASE UNCHANGED vars
  BY <1>11 DEF vars
<1> QED BY <1>2, <1>3, <1>4, <1>5, <1>6, <1>8, <1>9, <1>10, <1>11, QueueRows
        DEF Next, Request, Handle

\* Only a Redis that forgets loses a task.
LEMMA NextTasks ==
  ASSUME TypeOK, "redis" \notin Faults, [Next]_vars
  PROVE  TasksStay
<1>1. broker \in [Runs -> [Generations -> Tasks]]
  BY DEF TypeOK, QueueTypeOK
<1>2. UNCHANGED broker => TasksStay
  BY DEF TasksStay
<1> USE <1>2 DEF queueVars
<1>3. CASE Request
  BY <1>3 DEF Request, Create, Join, Cancel
<1>4. ASSUME NEW r \in Runs, NEW g \in Generations, Enqueue(r, g) \/ Redeliver(r, g)
      PROVE  TasksStay
  BY <1>1, <1>4 DEF Enqueue, Redeliver, TasksStay
<1>5. ASSUME NEW r \in Runs, NEW g \in Generations, NEW w \in Slots, Take(w, r, g)
      PROVE  TasksStay
  BY <1>1, <1>5 DEF Take, TasksStay
<1>6. ASSUME NEW r \in Runs, NEW g \in Generations,
             OutboxClaim(r, g) \/ OutboxDelivered(r, g) \/ OutboxRetry(r, g) \/ LoseTask(r, g)
      PROVE  TasksStay
  BY <1>6 DEF OutboxClaim, OutboxDelivered, OutboxRetry, LoseTask, Fault
<1>7. ASSUME NEW w \in Slots, Ack(w) PROVE TasksStay
  BY <1>1, <1>7 DEF Ack, TasksStay
<1>8. ASSUME NEW w \in Slots, Heartbeat(w) \/ Checkpoint(w) \/ Disturbance(w)
                              \/ ReadBack(w) \/ WorkFails(w) \/ FinishRun(w) \/ Claim(w)
      PROVE  TasksStay
  BY <1>8 DEF Heartbeat, Checkpoint, Disturbance, ClaimError, SaveError, Shutdown, Crash,
              ReadBack, WorkFails, FinishRun, Claim, ClaimSkip, ClaimCanceled, ClaimTooLate,
              ClaimDeferred, ClaimGranted, ClaimExhausted
<1>9. ASSUME NEW w \in Slots, Save(w) PROVE TasksStay
  BY <1>9 DEF Save, FencedEnds, SuspendRefused, SuspendCanceled, Suspend,
              WaitForActiveRestore, WaitForNewRestore, RestoreRefused, FailFenced,
              FailCanceled, FailRetry, FailFinal
<1>10. ASSUME NEW r \in Runs, Observe(r) \/ LeaseExpires(r) \/ DeadlinePasses(r) \/ Repair(r)
      PROVE  TasksStay
  BY <1>10 DEF Observe, LeaseExpires, DeadlinePasses, Repair, RepairCanceled, RepairTooLate,
               RepairRestoreLost, RepairWake, RepairEnded, RepairMissing, RepairNothing
<1>11. CASE UNCHANGED vars
  BY <1>11 DEF vars
<1> QED BY <1>3, <1>4, <1>5, <1>6, <1>7, <1>8, <1>9, <1>10, <1>11 DEF Next, Dispatch, Handle

\* While Redis keeps what it has: a row counts as sent or delivered, for the current
\* generation of a live run, only if the broker has its task, whatever crashes between
\* the claim of the row, the enqueue and the receipt.
THEOREM DeliveredForReal ==
  ASSUME "redis" \notin Faults
  PROVE  Spec => []DeliveredIsEnqueued
<1>1. Init => OwnerHolds /\ RowsBehind /\ DeliveredIsEnqueued
  BY InitKeepsPromise, BoundsAssumption
  DEF Init, RowsBehind, DeliveredIsEnqueued, Live
<1>2. TypeOK /\ OwnerHolds /\ RowsBehind /\ DeliveredIsEnqueued /\ [Next]_vars
        => OwnerHolds' /\ RowsBehind' /\ DeliveredIsEnqueued'
  BY StepOwner, NextKinds, NextRows, NextTasks, StepRows
<1> QED BY <1>1, <1>2, TypeCorrect, PTL DEF Spec

=============================================================================

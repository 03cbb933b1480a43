----------------------------- MODULE MCRunCases -----------------------------
(***************************************************************************)
(* Several small instances of RunLifecycle in one state space: a behaviour *)
(* stays in the case it starts in, so that the check of each is the check  *)
(* of an instance of its own.                                              *)
(***************************************************************************)
EXTENDS Naturals, FiniteSets, TLC

CONSTANTS
  r1, r2, w1, p1, Nobody, NoRun

VARIABLES
  case, status, generation, epoch, failures, owner, lease, dependency,
  restoreUsed, overdue, checkpoint, result, wanted, attempts, outbox, broker,
  handler, probe, faults

\* A question whose deadline passes, with a broker and slots that owe nothing.
Deadline == INSTANCE RunLifecycle WITH
  Runs <- {r1}, Kind <- r1 :> "answer",
  Slots <- {w1}, Process <- w1 :> p1, VideoSlots <- 1, SourceSlots <- 1,
  MaxEpoch <- 2, MaxGeneration <- 2,
  Events <- {"join", "cancel", "deadline"}, Faults <- {"crash", "redis"}, FaultBudget <- 2

\* A question that settles before any deadline, after one fault of any kind.
Recovery == INSTANCE RunLifecycle WITH
  Runs <- {r1}, Kind <- r1 :> "answer",
  Slots <- {w1}, Process <- w1 :> p1, VideoSlots <- 1, SourceSlots <- 1,
  MaxEpoch <- 3, MaxGeneration <- 2, Events <- {"cancel"},
  Faults <- {"crash", "redis", "exhausted", "shutdown", "database", "stall"},
  FaultBudget <- 1

\* A question whose restore ends, fails or is stopped.
Waiting == INSTANCE RunLifecycle WITH
  Runs <- {r1, r2}, Kind <- r1 :> "answer" @@ r2 :> "restore",
  Slots <- {w1}, Process <- w1 :> p1, VideoSlots <- 1, SourceSlots <- 1,
  MaxEpoch <- 1, MaxGeneration <- 2, Events <- {"cancel"}, Faults <- {}, FaultBudget <- 0

vars == <<case, Waiting!vars>>

Init ==
  /\ case \in {"deadline", "recovery", "waiting"}
  /\ case = "deadline" => Deadline!Init
  /\ case = "recovery" => Recovery!Init
  /\ case = "waiting" => Waiting!Init

Next ==
  /\ UNCHANGED case
  /\ \/ case = "deadline" /\ Deadline!Next
     \/ case = "recovery" /\ Recovery!Next
     \/ case = "waiting" /\ Waiting!Next

Spec == Init /\ [][Next]_vars

\* ReconciledSpec of the deadline and waiting cases, FairSpec of the recovery case.
FairSpec ==
  /\ Spec
  /\ WF_vars(case = "deadline" /\ UNCHANGED <<case, faults>> /\ Deadline!Observe(r1))
  /\ WF_vars(case = "deadline" /\ UNCHANGED case /\ Deadline!Repair(r1))
  /\ WF_vars(case = "deadline" /\ UNCHANGED case /\ Deadline!DeadlinePasses(r1))
  /\ \A r \in {r1, r2} :
       /\ WF_vars(case = "waiting" /\ UNCHANGED <<case, faults>> /\ Waiting!Observe(r))
       /\ WF_vars(case = "waiting" /\ UNCHANGED case /\ Waiting!Repair(r))
  /\ WF_vars(case = "recovery" /\ UNCHANGED <<case, faults>> /\ Recovery!Observe(r1))
  /\ WF_vars(case = "recovery" /\ UNCHANGED case /\ Recovery!Repair(r1))
  /\ \A g \in 1 .. 2 :
       /\ WF_vars(case = "recovery" /\ UNCHANGED case /\ Recovery!Dispatch(r1, g))
       /\ WF_vars(case = "recovery" /\ UNCHANGED <<case, faults>> /\ Recovery!Redeliver(r1, g))
       /\ SF_vars(case = "recovery" /\ UNCHANGED case /\ Recovery!Take(w1, r1, g))
  /\ WF_vars(case = "recovery" /\ UNCHANGED case /\ Recovery!Handle(w1))
  /\ SF_vars(/\ case = "recovery" /\ UNCHANGED case
             /\ Recovery!ClaimGranted(w1) \/ Recovery!ClaimExhausted(w1))
  /\ WF_vars(case = "recovery" /\ UNCHANGED <<case, faults>> /\ Recovery!LeaseExpires(r1))
  /\ SF_vars(case = "recovery" /\ UNCHANGED case /\ Recovery!RepairMissing(r1))

\* The properties of RunLifecycle, each in the case that can break it.
EveryRunSettles ==
  case \in {"deadline", "recovery"} /\ status[r1] # "absent"
    ~> status[r1] \in {"succeeded", "failed", "canceled"}
RestoreWaitEnds ==
  /\ case = "waiting" /\ status[r1] = "waiting_dependency" /\ dependency[r1] = r2
     /\ status[r2] \in {"succeeded", "failed", "canceled"}
    ~> status[r1] # "waiting_dependency"
=============================================================================

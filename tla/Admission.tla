----------------------------- MODULE Admission -----------------------------
(* What orders and bounds the work of visitors: the questions of a         *)
(* conversation (extended here), the slots that executions occupy, and the *)
(* token buckets of submissions. The three share nothing, so a behaviour   *)
(* stays in the case it starts in, and the others rest.                    *)
EXTENDS Conversation

CONSTANTS
    Runs, Kind, TaskSlots, Process, VideoSlots, SourceSlots,       \* RunLifecycle
    MaxEpoch, MaxGeneration, Faults, FaultBudget, Events, Nobody, NoRun,
    Sessions, Address, Burst, Every, MaxTime                       \* SubmissionLimiter

VARIABLES
    case,
    status, generation, epoch, failures, owner, lease, dependency,   \* RunLifecycle
    restoreUsed, overdue, checkpoint, result, wanted, attempts, outbox, broker,
    handler, probe, faults,
    now, bucket, elapsed, back, admitted                            \* SubmissionLimiter

runVars == <<status, generation, epoch, failures, owner, lease, dependency, restoreUsed,
             overdue, checkpoint, result, wanted, attempts, outbox, broker, handler, probe, faults>>
limitVars == <<now, bucket, elapsed, back, admitted>>

Capacity == INSTANCE RunLifecycle WITH Slots <- TaskSlots

Limits == INSTANCE SubmissionLimiter

ASSUME AdmissionAssumption ==
    /\ Capacity!SetsAssumption /\ Capacity!BoundsAssumption
    /\ ConstantsOK /\ Limits!ConstantsOK

AdmissionInit ==
    /\ case \in {"capacity", "conversation", "limits"}
    /\ Capacity!Init /\ Init /\ Limits!Init

AdmissionNext ==
    /\ UNCHANGED case
    /\ \/ case = "capacity" /\ UNCHANGED <<convVars, limitVars>> /\ Capacity!Next
       \/ case = "conversation" /\ UNCHANGED <<runVars, limitVars>> /\ Next
       \/ case = "limits" /\ UNCHANGED <<runVars, convVars>> /\ Limits!Next

admissionVars == <<case, runVars, convVars, limitVars>>

AdmissionSpec == AdmissionInit /\ [][AdmissionNext]_admissionVars

-----------------------------------------------------------------------------
\* The properties of the components, each in the case that can break it;
\* those of the conversation are SentOnce, ThreadInStep and SameKeySameTurn.
\* RatesKept also says that the components are well typed.
CapacityRespected == case = "capacity" => Capacity!CapacityRespected
RatesKept ==
    /\ TypeOK
    /\ case = "limits" => Limits!TypeOK /\ Limits!RateBounded /\ Limits!HintHonest
=============================================================================

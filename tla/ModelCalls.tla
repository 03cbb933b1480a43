----------------------------- MODULE ModelCalls -----------------------------
(* The calls of one run to its language model: each has a frozen input, a  *)
(* bounded number of physical sends over the routes of the model, and one  *)
(* result that every later execution of the run replays.                   *)
EXTENDS Integers, FiniteSets, FiniteSetsExt

CONSTANTS
    Calls,          \* the logical calls, numbered 0 .. Calls - 1
    Inputs,         \* what the execution might ask, depending on readiness
    Routes,         \* suppliers of exactly this model
    BaseSends,      \* 3: sends of one call
    Ceiling,        \* min(20, MaxIterations): sends of the run
    RecoveryLimit,  \* min(2, ProviderRecoveryLimit): recoveries of the run
    MaxEpoch        \* bound of the exploration

ConstantsOK ==
    /\ Calls \in Nat \ {0} /\ BaseSends \in Nat \ {0} /\ Ceiling \in Nat
    /\ RecoveryLimit \in Nat /\ MaxEpoch \in Nat \ {0} /\ IsFiniteSet(Routes)
    /\ "none" \notin Inputs

VARIABLES
    run,            \* of the run: state, epoch, call of the checkpoint
    eligible,       \* routes that are enabled, verified and current
    frozen,         \* of a call: its input, "none" before it is frozen
    op,             \* of a call: its row in the ledger of operations
    sent,           \* of a call: what physically left
    exec            \* of an epoch: the execution

vars == <<run, eligible, frozen, op, sent, exec>>

Keys == 0 .. Calls - 1
Epochs == 1 .. MaxEpoch
NoOp == [args |-> "none", submissions |-> 0, result |-> 0, known |-> "no",
         recovery |-> "no", allowed |-> 0]
NoExec == [phase |-> "none", call |-> 0, input |-> "none", left |-> {}, n |-> 0,
           used |-> [k \in Keys |-> 0]]

Init ==
    /\ run = [state |-> "running", epoch |-> 1, call |-> 0]
    /\ eligible \in SUBSET Routes /\ eligible # {}
    /\ frozen = [k \in Keys |-> "none"] /\ op = [k \in Keys |-> NoOp]
    /\ sent = [k \in Keys |-> [times |-> 0, inputs |-> {}]]
    /\ exec = [[e \in Epochs |-> NoExec] EXCEPT ![1].phase = "call"]

ByOwner(e) == run.state = "running"     \* mutant: the slot is known by its owner
Fence(e) == run.state = "running" /\ run.epoch = e

At(e, phase) == exec[e].phase = phase
Go(e, phase) == exec' = [exec EXCEPT ![e].phase = phase]
Rest(e, phase, call, used) ==
    exec' = [exec EXCEPT ![e] =
        [NoExec EXCEPT !.phase = phase, !.call = call, !.used = used]]
Leave(e) == Rest(e, "gone", 0, exec[e].used)

\* The handler of a failed execution: the run waits for its retry or is over.
GiveUp(e, state) ==
    /\ Leave(e)
    /\ run' = IF Fence(e) THEN [run EXCEPT !.state = state] ELSE run

\* The next call, with what this one brought: 0 when it brought no result.
NextCall(e, result) ==
    LET next == exec[e].call + 1 IN
    Rest(e, IF next \in Keys THEN "call" ELSE "gone", next,
         [exec[e].used EXCEPT ![exec[e].call] = result])

(**************************** The frozen input ****************************)
LookAtInput(e) ==
    /\ At(e, "call")
    /\ LET k == exec[e].call IN
       \/ frozen[k] # "none"
          /\ exec' = [exec EXCEPT ![e].phase = "begin", ![e].input = frozen[k]]
       \/ frozen[k] = "none"
          /\ \E x \in Inputs : exec' = [exec EXCEPT ![e].phase = "freeze", ![e].input = x]
    /\ UNCHANGED <<run, eligible, frozen, op, sent>>

\* The execution goes on with what it wrote, not with what was there.
FreezeInput(e) ==
    /\ At(e, "freeze")
    /\ IF Fence(e)
       THEN /\ frozen' = [frozen EXCEPT ![exec[e].call] = IF @ = "none" THEN exec[e].input ELSE @]
            /\ Go(e, "begin")
       ELSE Leave(e) /\ UNCHANGED frozen
    /\ UNCHANGED <<run, eligible, op, sent>>

(**************************** The ledger's row *****************************)
BeginCall(e) ==
    /\ At(e, "begin")
    /\ LET k == exec[e].call
           row == IF op[k].args = "none" THEN [op[k] EXCEPT !.args = exec[e].input] ELSE op[k]
       IN IF ~Fence(e) THEN Leave(e) /\ UNCHANGED op
          ELSE /\ op' = [op EXCEPT ![k] = row]
               /\ IF row.args # exec[e].input THEN Go(e, "conflict")
                  ELSE IF row.result # 0 THEN NextCall(e, row.result)
                  ELSE Go(e, "ask")
    /\ UNCHANGED <<run, eligible, frozen, sent>>

ForgetfulKnown(k) == FALSE                      \* mutant: takeover sends again
Known(k) == op[k].known # "no"

\* A known outcome is replayed; otherwise the routes are read once.
AskOutcome(e) ==
    /\ At(e, "ask")
    /\ IF Known(exec[e].call) THEN NextCall(e, 0) /\ UNCHANGED run
       ELSE IF eligible = {} THEN GiveUp(e, "ended")
       ELSE /\ exec' = [exec EXCEPT ![e].phase = "routes", ![e].left = eligible]
            /\ UNCHANGED run
    /\ UNCHANGED <<eligible, frozen, op, sent>>

(********************************** Sends **********************************)
Base == IF Cardinality(eligible) > BaseSends THEN Cardinality(eligible) ELSE BaseSends

\* The rows of model_submissions: a send that was counted, by call and number.
Submissions == UNION {{k} \X (1 .. op[k].submissions) : k \in Keys}
Spent == Cardinality(Submissions)

\* The ceiling of the run is read again in the transaction that counts.
UncheckedAffordable == TRUE                     \* mutant
Affordable == Spent < Ceiling

Limit(k) ==
    IF op[k].recovery = "no" THEN Base
    ELSE Max({Base, Min({Base + 1, op[k].allowed})})

(* BeginModelSubmission, called when the request is about to leave.        *)
BeginSubmission(e, r) ==
    /\ At(e, "routes") /\ r \in exec[e].left
    /\ LET k == exec[e].call IN
       \/ ~Fence(e) /\ Leave(e) /\ UNCHANGED <<run, op>>
       \/ Fence(e) /\ ~Affordable /\ GiveUp(e, "ended") /\ UNCHANGED op
       \/ /\ Fence(e) /\ Affordable /\ r \notin eligible
          /\ exec' = [exec EXCEPT ![e].left = @ \ {r}]
          /\ UNCHANGED <<run, op>>
       \/ /\ Fence(e) /\ Affordable /\ r \in eligible /\ op[k].recovery = "waiting"
          /\ GiveUp(e, "waiting") /\ UNCHANGED op
       \/ /\ Fence(e) /\ Affordable /\ r \in eligible /\ op[k].recovery # "waiting"
          /\ IF op[k].submissions < Limit(k)
             THEN /\ op' = [op EXCEPT ![k].submissions = @ + 1, ![k].known = "no"]
                  /\ exec' = [exec EXCEPT ![e].phase = "reserved", ![e].left = @ \ {r},
                                           ![e].n = op[k].submissions + 1]
             ELSE Go(e, "recover") /\ UNCHANGED op
          /\ UNCHANGED run
    /\ UNCHANGED <<eligible, frozen, sent>>

RoutesExhausted(e) ==
    /\ At(e, "routes") /\ exec[e].left = {}
    /\ \E state \in {"waiting", "ended"} : GiveUp(e, state)
    /\ UNCHANGED <<eligible, frozen, op, sent>>

(* ScheduleModelRecovery: one more send for a call that used its sends up, *)
(* after a delay, for a few calls of the run.                              *)
ScheduleRecovery(e) ==
    /\ At(e, "recover")
    /\ LET k == exec[e].call
           reserved ==
             /\ Fence(e) /\ op[k].recovery = "no"
             /\ Cardinality({j \in Keys : op[j].recovery # "no"}) < RecoveryLimit
             /\ op[k].result = 0 /\ op[k].submissions = Base /\ frozen[k] # "none"
       IN /\ op' = IF reserved
                   THEN [op EXCEPT ![k].recovery = "waiting", ![k].allowed = Base + 1] ELSE op
          /\ GiveUp(e, IF reserved THEN "waiting" ELSE "ended")
    /\ UNCHANGED <<eligible, frozen, sent>>

RecoveryDue(k) ==
    /\ op[k].recovery = "waiting"
    /\ op' = [op EXCEPT ![k].recovery = "due"]
    /\ UNCHANGED <<run, eligible, frozen, sent, exec>>

Send(e) ==
    /\ At(e, "reserved")
    /\ sent' = [sent EXCEPT ![exec[e].call] =
          [times |-> @.times + 1, inputs |-> @.inputs \cup {exec[e].input}]]
    /\ Go(e, "sent")
    /\ UNCHANGED <<run, eligible, frozen, op>>

\* An observation needs no fence, but only that of the last send is read.
Observed(e) ==
    LET k == exec[e].call IN
    IF exec[e].n = op[k].submissions
    THEN [op EXCEPT ![k].known = IF Fence(e) THEN "current" ELSE "late"]
    ELSE op

Answer(e) ==
    /\ At(e, "sent")
    /\ \/ Go(e, "save") /\ UNCHANGED op
       \/ \* unavailable or limited: the next route
          Go(e, "routes") /\ UNCHANGED op
       \/ \* rejected or cut at its length: the next call asks for less
          op' = Observed(e) /\ NextCall(e, 0)
       \/ \* cut, and the observation was not saved
          NextCall(e, 0) /\ UNCHANGED op
    /\ UNCHANGED <<run, eligible, frozen, sent>>

\* FinishOperation keeps the first result; the execution returns its own.
SaveResult(e) ==
    /\ At(e, "save")
    /\ LET k == exec[e].call IN
       IF Fence(e)
       THEN /\ op' = [op EXCEPT ![k].result = IF @ = 0 THEN exec[e].n ELSE @]
            /\ NextCall(e, exec[e].n)
       ELSE Leave(e) /\ UNCHANGED op
    /\ UNCHANGED <<run, eligible, frozen, sent>>

(************************* The run and its suppliers ***********************)
Checkpoint(e) ==
    /\ At(e, "call") /\ Fence(e) /\ run.call # exec[e].call
    /\ run' = [run EXCEPT !.call = exec[e].call]
    /\ UNCHANGED <<eligible, frozen, op, sent, exec>>

\* A lease ran out, or a retry is due: the old execution may still be at work.
Claim ==
    /\ run.state # "ended" /\ run.epoch < MaxEpoch
    /\ run' = [run EXCEPT !.state = "running", !.epoch = @ + 1]
    /\ exec' = [exec EXCEPT ![run.epoch + 1] =
          [NoExec EXCEPT !.phase = "call", !.call = run.call]]
    /\ UNCHANGED <<eligible, frozen, op, sent>>

Interrupt(e) ==
    /\ exec[e].phase \notin {"none", "gone", "conflict"}
    /\ \/ Leave(e) /\ UNCHANGED run
       \/ GiveUp(e, "waiting")
    /\ UNCHANGED <<eligible, frozen, op, sent>>

\* A supplier is disabled, verified, or rotates its key.
ChangeRoute(r) ==
    /\ eligible' = IF r \in eligible THEN eligible \ {r} ELSE eligible \cup {r}
    /\ UNCHANGED <<run, frozen, op, sent, exec>>

Next ==
    \/ \E e \in Epochs :
         \/ LookAtInput(e) \/ FreezeInput(e) \/ BeginCall(e) \/ AskOutcome(e)
         \/ \E r \in Routes : BeginSubmission(e, r)
         \/ RoutesExhausted(e) \/ ScheduleRecovery(e) \/ Send(e) \/ Answer(e)
         \/ SaveResult(e) \/ Checkpoint(e) \/ Interrupt(e)
    \/ \E k \in Keys : RecoveryDue(k)
    \/ Claim
    \/ \E r \in Routes : ChangeRoute(r)

Spec == Init /\ [][Next]_vars
(******************************* Properties ********************************)
Most == Max({BaseSends, Cardinality(Routes)})

TypeOK ==
    /\ run \in [state : {"running", "waiting", "ended"}, epoch : Epochs, call : 0 .. Calls]
    /\ eligible \subseteq Routes /\ frozen \in [Keys -> Inputs \cup {"none"}]
    /\ op \in [Keys -> [args : Inputs \cup {"none"}, submissions : 0 .. Most + 1,
                        result : 0 .. Most + 1, known : {"no", "current", "late"},
                        recovery : {"no", "waiting", "due"}, allowed : 0 .. Most + 1]]
    /\ sent \in [Keys -> [times : 0 .. Most + 1, inputs : SUBSET Inputs]]
    /\ exec \in [Epochs ->
          [phase : {"none", "call", "freeze", "begin", "conflict", "ask", "routes",
                    "recover", "reserved", "sent", "save", "gone"},
           call : 0 .. Calls, input : Inputs \cup {"none"}, left : SUBSET Routes,
           n : 0 .. Most + 1, used : [Keys -> 0 .. Most + 1]]]

(* Whatever executions, recoveries and suppliers do, the run never pays for *)
(* more than its ceiling, nothing leaves uncounted, and only a few calls   *)
(* get their one extra send.                                               *)
SpendBounded ==
    /\ Spent <= Ceiling
    /\ \A k \in Keys : sent[k].times <= op[k].submissions /\ op[k].submissions <= Most + 1
    /\ Cardinality({k \in Keys : op[k].submissions > Most}) <= RecoveryLimit

(* "It must never change an already authorized model:N": all that leaves    *)
(* for a call carries its frozen input, no execution meets a ledger that   *)
(* contradicts it, and all that go past a call have used one result.       *)
OneInputOneResult ==
    /\ \A k \in Keys : sent[k].inputs \subseteq {frozen[k]}
    /\ \A e \in Epochs :
          /\ exec[e].phase # "conflict"
          /\ \A k \in Keys : exec[e].used[k] # 0 => exec[e].used[k] = op[k].result

RepeatsKnown ==
    \E k \in Keys : op[k].known = "current" /\ op'[k].submissions # op[k].submissions

(* A complete but useless answer that the owner of the run recorded is     *)
(* never paid for again, by no execution and on no route.                  *)
KnownOutcomeFinal == [][~RepeatsKnown]_vars
=============================================================================

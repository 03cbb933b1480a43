-------------------------- MODULE ModelCallsProofs --------------------------
(***************************************************************************)
(* One input and one result for each call of a run, and no second payment  *)
(* for an outcome its owner knows, for every number of calls, suppliers    *)
(* and executions.  What makes it true is that the fence is one            *)
(* execution's: what it looked at, only it can change.                     *)
(***************************************************************************)
EXTENDS ModelCalls, FiniteSetTheorems, TLAPS

Ops == [args : Inputs \cup {"none"}, submissions : Nat, result : Nat,
        known : {"no", "current", "late"}, recovery : {"no", "waiting", "due"}, allowed : Nat]
Phases == {"none", "call", "freeze", "begin", "conflict", "ask", "routes",
           "recover", "reserved", "sent", "save", "gone"}
Execs == [phase : Phases, call : 0 .. Calls, input : Inputs \cup {"none"},
          left : SUBSET Routes, n : Nat, used : [Keys -> Nat]]

\* Types without the bounds on what is counted.
CallTypes ==
  /\ run \in [state : {"running", "waiting", "ended"}, epoch : Epochs, call : Keys]
  /\ eligible \subseteq Routes
  /\ frozen \in [Keys -> Inputs \cup {"none"}]
  /\ op \in [Keys -> Ops]
  /\ sent \in [Keys -> [times : Nat, inputs : SUBSET Inputs]]
  /\ exec \in [Epochs -> Execs]

\* Ledger and wire agree with the frozen input.
KeyOK(k) ==
  /\ op[k].args \in {"none", frozen[k]}
  /\ sent[k].inputs \subseteq {frozen[k]}
  /\ frozen[k] = "none" => sent[k].inputs = {}

Past == {"begin", "ask", "routes", "recover", "reserved", "sent", "save"}

ExecOK(e) ==
  /\ exec[e].phase # "conflict"
  /\ exec[e].phase \in Past \cup {"call", "freeze"} => exec[e].call \in Keys
  /\ exec[e].phase = "freeze" =>
        exec[e].input \in Inputs /\ (Fence(e) => frozen[exec[e].call] = "none")
  /\ exec[e].phase \in Past =>
        exec[e].input \in Inputs /\ frozen[exec[e].call] = exec[e].input
  /\ exec[e].phase \in {"ask", "routes", "reserved", "sent", "save"} /\ Fence(e) =>
        op[exec[e].call].result = 0
  /\ exec[e].phase \in {"routes", "reserved", "sent", "save"} /\ Fence(e) =>
        op[exec[e].call].known # "current"
  /\ exec[e].phase \in {"reserved", "sent", "save"} => exec[e].n > 0
  /\ \A k \in Keys : exec[e].used[k] # 0 => exec[e].used[k] = op[k].result

CallInv ==
  /\ CallTypes
  /\ \A k \in Keys : KeyOK(k)
  /\ \A e \in Epochs : ExecOK(e)

\* What another execution's step may change for an execution that stands still.
Quiet(e) ==
  /\ Fence(e)' => Fence(e)
  /\ \A k \in Keys :
       /\ frozen[k] # "none" => frozen'[k] = frozen[k]
       /\ op[k].result # 0 => op'[k].result = op[k].result
       /\ Fence(e) => /\ frozen'[k] = frozen[k]
                      /\ op'[k].result = op[k].result
                      /\ op'[k].known = "current" => op[k].known = "current"

LEMMA QuietKeeps ==
  ASSUME ConstantsOK, CallInv, NEW e \in Epochs, Quiet(e), exec'[e] = exec[e]
  PROVE  ExecOK(e)'
<1>1. ExecOK(e) /\ exec[e] \in Execs
  BY DEF CallInv, CallTypes
<1>2. exec[e].phase \in Past => frozen'[exec[e].call] = exec[e].input
  BY <1>1 DEF ExecOK, Quiet, ConstantsOK
<1> QED BY <1>1, <1>2 DEF ExecOK, Quiet, Execs, Past

LEMMA CallInit == ASSUME ConstantsOK, Init PROVE CallInv
<1> USE DEF ConstantsOK, Init, NoExec, NoOp, Keys, Epochs
<1>1. CallTypes
  <2>1. 0 \in Keys /\ 0 \in 0 .. Calls /\ 1 \in Epochs
    OBVIOUS
  <2>2. run \in [state : {"running", "waiting", "ended"}, epoch : Epochs, call : Keys]
    BY <2>1
  <2>3. NoOp \in Ops
    BY DEF Ops
  <2>4. op \in [Keys -> Ops]
    BY <2>3
  <2>5. exec \in [Epochs -> Execs]
    <3>1. NoExec \in Execs /\ [NoExec EXCEPT !.phase = "call"] \in Execs
      BY <2>1 DEF Execs, Phases
    <3> QED BY <2>1, <3>1
  <2>6. sent \in [Keys -> [times : Nat, inputs : SUBSET Inputs]]
    OBVIOUS
  <2>7. frozen \in [Keys -> Inputs \cup {"none"}] /\ eligible \subseteq Routes
    OBVIOUS
  <2> QED BY <2>2, <2>4, <2>5, <2>6, <2>7 DEF CallTypes
<1>2. \A k \in Keys : KeyOK(k)
  BY DEF KeyOK
<1>3. \A e \in Epochs : ExecOK(e)
  BY DEF ExecOK, Past
<1> QED BY <1>1, <1>2, <1>3 DEF CallInv

\* A step of e that writes neither inputs nor the ledger.
LEMMA LookStep ==
  ASSUME ConstantsOK, CallInv, NEW e \in Epochs,
         UNCHANGED <<frozen, op, sent>>, eligible' \subseteq Routes,
         run' \in [state : {"running", "waiting", "ended"}, epoch : Epochs, call : Keys],
         \A u \in Epochs : Fence(u)' => Fence(u),
         exec' = [exec EXCEPT ![e] = exec'[e]], exec'[e] \in Execs, ExecOK(e)'
  PROVE  CallInv'
<1>1. CallTypes'
  BY DEF CallInv, CallTypes
<1>2. \A k \in Keys : KeyOK(k)'
  BY DEF CallInv, KeyOK
<1>3. \A u \in Epochs : ExecOK(u)'
  <2> SUFFICES ASSUME NEW u \in Epochs, u # e PROVE ExecOK(u)'
    OBVIOUS
  <2>1. exec'[u] = exec[u]
    BY DEF CallInv, CallTypes
  <2>2. Quiet(u)
    BY DEF Quiet
  <2> QED BY <2>1, <2>2, QuietKeeps
<1> QED BY <1>1, <1>2, <1>3 DEF CallInv

\* An execution that rests, at its next call or for good.
LEMMA RestOK ==
  ASSUME ConstantsOK, CallInv, NEW e \in Epochs, NEW c \in 0 .. Calls,
         NEW phase \in {"call", "gone"}, phase = "call" => c \in Keys,
         NEW used \in [Keys -> Nat], \A k \in Keys : used[k] # 0 => used[k] = op'[k].result,
         Rest(e, phase, c, used)
  PROVE  /\ exec' = [exec EXCEPT ![e] = exec'[e]]
         /\ exec'[e] \in Execs /\ ExecOK(e)'
<1>1. exec \in [Epochs -> Execs]
  BY DEF CallInv, CallTypes
<1>2. exec'[e] = [NoExec EXCEPT !.phase = phase, !.call = c, !.used = used]
  BY <1>1 DEF Rest
<1>3. /\ exec'[e].phase = phase /\ exec'[e].call = c /\ exec'[e].used = used
      /\ exec'[e] \in Execs
  <2>1. exec'[e] = [phase |-> phase, call |-> c, input |-> "none", left |-> {}, n |-> 0, used |-> used]
    BY <1>2 DEF NoExec
  <2> QED BY <2>1 DEF Execs, Phases
<1>4. exec' = [exec EXCEPT ![e] = exec'[e]]
  BY <1>1, <1>2 DEF Rest
<1>5. ExecOK(e)'
  BY <1>3 DEF ExecOK, Past
<1> QED BY <1>3, <1>4, <1>5

LEMMA LeaveOK ==
  ASSUME ConstantsOK, CallInv, NEW e \in Epochs, Leave(e),
         \A k \in Keys : op[k].result # 0 => op'[k].result = op[k].result
  PROVE  /\ exec' = [exec EXCEPT ![e] = exec'[e]]
         /\ exec'[e] \in Execs /\ ExecOK(e)'
<1>1. exec[e].used \in [Keys -> Nat] /\ 0 \in 0 .. Calls
  BY DEF CallInv, CallTypes, Execs, ConstantsOK
<1>2. \A k \in Keys : exec[e].used[k] # 0 => exec[e].used[k] = op'[k].result
  BY DEF CallInv, ExecOK
<1>3. Rest(e, "gone", 0, exec[e].used)
  BY DEF Leave
<1> QED BY <1>1, <1>2, <1>3, RestOK

LEMMA NextOK ==
  ASSUME ConstantsOK, CallInv, NEW e \in Epochs, NEW result \in Nat, exec[e].call \in Keys,
         NextCall(e, result), result # 0 => op'[exec[e].call].result = result,
         \A k \in Keys : op[k].result # 0 => op'[k].result = op[k].result
  PROVE  /\ exec' = [exec EXCEPT ![e] = exec'[e]]
         /\ exec'[e] \in Execs /\ ExecOK(e)'
<1> DEFINE used == [exec[e].used EXCEPT ![exec[e].call] = result]
           next == exec[e].call + 1
           phase == IF next \in Keys THEN "call" ELSE "gone"
<1>1. exec[e].used \in [Keys -> Nat] /\ used \in [Keys -> Nat]
  BY DEF CallInv, CallTypes, Execs
<1>2. \A k \in Keys : used[k] # 0 => used[k] = op'[k].result
  BY <1>1 DEF CallInv, ExecOK
<1>3. next \in 0 .. Calls /\ phase \in {"call", "gone"} /\ (phase = "call" => next \in Keys)
  BY DEF Keys, ConstantsOK
<1>4. Rest(e, phase, next, used)
  BY DEF NextCall
<1> HIDE DEF used, next, phase
<1> QED BY <1>1, <1>2, <1>3, <1>4, RestOK

\* The fence is never given back to an execution.
LEMMA GiveUpFence ==
  ASSUME CallInv, NEW e \in Epochs, NEW state \in {"waiting", "ended"}, GiveUp(e, state)
  PROVE  /\ \A u \in Epochs : Fence(u)' => Fence(u)
         /\ run' \in [state : {"running", "waiting", "ended"}, epoch : Epochs, call : Keys]
         /\ Leave(e)
BY DEF GiveUp, Fence, CallInv, CallTypes

LEMMA SameFence ==
  ASSUME CallInv, run' = run
  PROVE  /\ \A u \in Epochs : Fence(u)' => Fence(u)
         /\ run' \in [state : {"running", "waiting", "ended"}, epoch : Epochs, call : Keys]
BY DEF Fence, CallInv, CallTypes

LEMMA LookAtInputStep ==
  ASSUME ConstantsOK, CallInv, NEW e \in Epochs, LookAtInput(e) PROVE CallInv'
<1>0. ExecOK(e) /\ exec \in [Epochs -> Execs] /\ exec[e].call \in Keys /\ exec[e].phase = "call"
      /\ frozen \in [Keys -> Inputs \cup {"none"}]
  BY DEF CallInv, CallTypes, LookAtInput, At, ExecOK
<1>1. UNCHANGED <<run, eligible, frozen, op, sent>>
  BY DEF LookAtInput
<1>2. \E phase \in {"begin", "freeze"}, x \in Inputs :
        /\ exec' = [exec EXCEPT ![e].phase = phase, ![e].input = x]
        /\ phase = "begin" => frozen[exec[e].call] = x
        /\ phase = "freeze" => frozen[exec[e].call] = "none"
  BY <1>0 DEF LookAtInput
<1>3. exec' = [exec EXCEPT ![e] = exec'[e]] /\ exec'[e] \in Execs
  <2>1. PICK phase \in {"begin", "freeze"}, x \in Inputs :
          exec' = [exec EXCEPT ![e].phase = phase, ![e].input = x]
    BY <1>2
  <2>2. exec'[e] = [exec[e] EXCEPT !.phase = phase, !.input = x]
    BY <1>0, <2>1
  <2>3. exec'[e] \in Execs
    <3>1. exec[e] \in Execs
      BY <1>0
    <3>2. /\ exec'[e].phase = phase /\ exec'[e].call = exec[e].call /\ exec'[e].input = x
          /\ exec'[e].left = exec[e].left /\ exec'[e].n = exec[e].n /\ exec'[e].used = exec[e].used
          /\ exec'[e] = [phase |-> phase, call |-> exec[e].call, input |-> x, left |-> exec[e].left,
                         n |-> exec[e].n, used |-> exec[e].used]
      BY <2>2, <3>1 DEF Execs
    <3>3. phase \in Phases /\ x \in Inputs \cup {"none"}
      BY DEF Phases
    <3> QED BY <3>1, <3>2, <3>3 DEF Execs
  <2> QED BY <1>0, <2>1, <2>2, <2>3
<1>4. ExecOK(e)'
  BY <1>0, <1>1, <1>2 DEF ExecOK, Past, Execs, Fence
<1> QED BY <1>1, <1>3, <1>4, SameFence, LookStep DEF CallInv, CallTypes

LEMMA FreezeInputStep ==
  ASSUME ConstantsOK, CallInv, NEW e \in Epochs, FreezeInput(e) PROVE CallInv'
<1>0. ExecOK(e) /\ exec \in [Epochs -> Execs] /\ exec[e].call \in Keys /\ exec[e].phase = "freeze"
      /\ frozen \in [Keys -> Inputs \cup {"none"}] /\ exec[e].input \in Inputs
  BY DEF CallInv, CallTypes, FreezeInput, At, ExecOK
<1>1. UNCHANGED <<run, eligible, op, sent>>
  BY DEF FreezeInput
<1>2. CASE ~Fence(e)
  <2>1. Leave(e) /\ frozen' = frozen
    BY <1>2 DEF FreezeInput
  <2> QED BY <1>1, <2>1, SameFence, LeaveOK, LookStep DEF CallInv, CallTypes
<1>3. CASE Fence(e)
  <2>1. /\ frozen[exec[e].call] = "none"
        /\ frozen' = [frozen EXCEPT ![exec[e].call] = exec[e].input]
        /\ exec' = [exec EXCEPT ![e].phase = "begin"]
    BY <1>0, <1>3 DEF FreezeInput, Go, ExecOK
  <2>2. exec' \in [Epochs -> Execs] /\ frozen' \in [Keys -> Inputs \cup {"none"}]
    <3>1. exec[e] \in Execs /\ "begin" \in Phases
      BY <1>0 DEF Phases
    <3>2. [exec[e] EXCEPT !.phase = "begin"] \in Execs
      BY <3>1 DEF Execs
    <3>3. exec' \in [Epochs -> Execs]
      BY <1>0, <2>1, <3>2
    <3>4. frozen' \in [Keys -> Inputs \cup {"none"}]
      BY <1>0, <2>1
    <3> QED BY <3>3, <3>4
  <2>3. CallTypes'
    BY <1>1, <2>2 DEF CallInv, CallTypes
  <2>4. \A k \in Keys : KeyOK(k)'
    BY <1>0, <1>1, <2>1 DEF CallInv, KeyOK
  <2>5. ExecOK(e)'
    BY <1>0, <1>1, <2>1 DEF ExecOK, Past, Execs
  <2>6. ASSUME NEW u \in Epochs, u # e PROVE ExecOK(u)'
    <3>1. exec'[u] = exec[u] /\ ~Fence(u)
      BY <1>0, <1>3, <2>1, <2>6 DEF Fence
    <3>2. Quiet(u)
      BY <1>0, <1>1, <2>1, <3>1 DEF Quiet, Fence
    <3> QED BY <3>1, <3>2, QuietKeeps
  <2> QED BY <2>3, <2>4, <2>5, <2>6 DEF CallInv
<1> QED BY <1>2, <1>3

LEMMA BeginCallStep ==
  ASSUME ConstantsOK, CallInv, NEW e \in Epochs, BeginCall(e) PROVE CallInv'
<1> DEFINE k == exec[e].call
           row == IF op[k].args = "none" THEN [op[k] EXCEPT !.args = exec[e].input] ELSE op[k]
<1>0. ExecOK(e) /\ exec \in [Epochs -> Execs] /\ k \in Keys /\ exec[e].phase = "begin"
      /\ op \in [Keys -> Ops] /\ exec[e].input \in Inputs /\ frozen[k] = exec[e].input /\ KeyOK(k)
  BY DEF CallInv, CallTypes, BeginCall, At, ExecOK, Past
<1>1. UNCHANGED <<run, eligible, frozen, sent>>
  BY DEF BeginCall
<1>2. row \in Ops /\ row.args = exec[e].input /\ row.result = op[k].result /\ row.known = op[k].known
  BY <1>0 DEF Ops, KeyOK
<1>3. CASE ~Fence(e)
  <2>1. Leave(e) /\ op' = op
    BY <1>3 DEF BeginCall
  <2> QED BY <1>1, <2>1, SameFence, LeaveOK, LookStep DEF CallInv, CallTypes
<1>4. CASE Fence(e)
  <2>1. /\ op' = [op EXCEPT ![k] = row]
        /\ IF row.result # 0 THEN NextCall(e, row.result) ELSE Go(e, "ask")
    BY <1>2, <1>4 DEF BeginCall
  <2>2. op' \in [Keys -> Ops]
    BY <1>0, <1>2, <2>1
  <2>3. \A j \in Keys : op'[j].result = op[j].result /\ op'[j].known = op[j].known
                        /\ (op'[j].args = op[j].args \/ op'[j].args = frozen[j])
    BY <1>0, <1>2, <2>1
  <2> HIDE DEF k, row
  <2>4. exec' = [exec EXCEPT ![e] = exec'[e]] /\ exec'[e] \in Execs /\ ExecOK(e)'
    <3>1. CASE row.result # 0
      <4>1. NextCall(e, row.result) /\ row.result \in Nat /\ op'[k].result = row.result
        BY <1>0, <1>2, <2>1, <2>3, <3>1 DEF Ops
      <4> QED BY <1>0, <2>3, <4>1, NextOK DEF k
    <3>2. CASE row.result = 0
      <4>1. exec' = [exec EXCEPT ![e].phase = "ask"]
        BY <2>1, <3>2 DEF Go
      <4>2. exec'[e] \in Execs /\ exec' = [exec EXCEPT ![e] = exec'[e]]
        BY <1>0, <4>1 DEF Execs, Phases
      <4>3. ExecOK(e)'
        BY <1>0, <1>1, <1>2, <2>3, <3>2, <4>1 DEF ExecOK, Past, Execs, k
      <4> QED BY <4>2, <4>3
    <3> QED BY <3>1, <3>2
  <2>5. CallTypes'
    BY <1>0, <1>1, <2>2, <2>4 DEF CallInv, CallTypes
  <2>6. \A j \in Keys : KeyOK(j)'
    BY <1>1, <2>3 DEF CallInv, KeyOK
  <2>7. ASSUME NEW u \in Epochs, u # e PROVE ExecOK(u)'
    <3>1. exec'[u] = exec[u]
      BY <1>0, <2>4, <2>7
    <3>2. Quiet(u)
      BY <1>1, <2>3 DEF Quiet, Fence
    <3> QED BY <3>1, <3>2, QuietKeeps
  <2> QED BY <2>4, <2>5, <2>6, <2>7 DEF CallInv
<1> QED BY <1>3, <1>4

LEMMA AskOutcomeStep ==
  ASSUME ConstantsOK, CallInv, NEW e \in Epochs, AskOutcome(e) PROVE CallInv'
<1>0. ExecOK(e) /\ exec \in [Epochs -> Execs] /\ exec[e].call \in Keys /\ exec[e].phase = "ask"
      /\ eligible \subseteq Routes
  BY DEF CallInv, CallTypes, AskOutcome, At, ExecOK, Past
<1>1. UNCHANGED <<eligible, frozen, op, sent>>
  BY DEF AskOutcome
<1>2. CASE Known(exec[e].call)
  <2>1. NextCall(e, 0) /\ run' = run
    BY <1>2 DEF AskOutcome
  <2> QED BY <1>0, <1>1, <2>1, SameFence, NextOK, LookStep DEF CallInv, CallTypes
<1>3. CASE ~Known(exec[e].call) /\ eligible = {}
  <2>1. GiveUp(e, "ended")
    BY <1>3 DEF AskOutcome
  <2> QED BY <1>0, <1>1, <2>1, GiveUpFence, LeaveOK, LookStep
<1>4. CASE ~Known(exec[e].call) /\ eligible # {}
  <2>1. exec' = [exec EXCEPT ![e].phase = "routes", ![e].left = eligible] /\ run' = run
    BY <1>4 DEF AskOutcome
  <2>2. exec' = [exec EXCEPT ![e] = exec'[e]] /\ exec'[e] \in Execs
    BY <1>0, <2>1 DEF Execs, Phases
  <2>3. ExecOK(e)'
    BY <1>0, <1>1, <1>4, <2>1 DEF ExecOK, Past, Execs, Fence, Known
  <2> QED BY <1>0, <1>1, <2>1, <2>2, <2>3, SameFence, LookStep
<1> QED BY <1>2, <1>3, <1>4

\* A step of e on the ledger: without the fence it settles nothing.
LEMMA LedgerStep ==
  ASSUME ConstantsOK, CallInv, NEW e \in Epochs,
         UNCHANGED <<eligible, frozen, sent>>, op' \in [Keys -> Ops],
         run' \in [state : {"running", "waiting", "ended"}, epoch : Epochs, call : Keys],
         \A u \in Epochs : Fence(u)' => Fence(u),
         \A k \in Keys : op'[k].args = op[k].args /\ (op[k].result # 0 => op'[k].result = op[k].result),
         ~Fence(e) => \A k \in Keys : /\ op'[k].result = op[k].result
                                      /\ op'[k].known = "current" => op[k].known = "current",
         exec' = [exec EXCEPT ![e] = exec'[e]], exec'[e] \in Execs, ExecOK(e)'
  PROVE  CallInv'
<1>1. CallTypes'
  BY DEF CallInv, CallTypes
<1>2. \A k \in Keys : KeyOK(k)'
  BY DEF CallInv, KeyOK
<1>3. \A u \in Epochs : ExecOK(u)'
  <2> SUFFICES ASSUME NEW u \in Epochs, u # e PROVE ExecOK(u)'
    OBVIOUS
  <2>1. exec'[u] = exec[u]
    BY DEF CallInv, CallTypes
  <2>2. Quiet(u)
    BY DEF Quiet, Fence
  <2> QED BY <2>1, <2>2, QuietKeeps
<1> QED BY <1>1, <1>2, <1>3 DEF CallInv

LEMMA BeginSubmissionStep ==
  ASSUME ConstantsOK, CallInv, NEW e \in Epochs, NEW r \in Routes, BeginSubmission(e, r)
  PROVE  CallInv'
<1> DEFINE k == exec[e].call
<1>0. ExecOK(e) /\ exec \in [Epochs -> Execs] /\ k \in Keys /\ exec[e].phase = "routes"
      /\ op \in [Keys -> Ops] /\ eligible \subseteq Routes
  BY DEF CallInv, CallTypes, BeginSubmission, At, ExecOK, Past
<1>1. UNCHANGED <<eligible, frozen, sent>>
  BY DEF BeginSubmission
<1>2. CASE Leave(e) /\ UNCHANGED <<run, op>>
  BY <1>0, <1>1, <1>2, SameFence, LeaveOK, LookStep
<1>3. ASSUME NEW state \in {"waiting", "ended"}, GiveUp(e, state), op' = op PROVE CallInv'
  BY <1>0, <1>1, <1>3, GiveUpFence, LeaveOK, LookStep
<1>4. ASSUME NEW phase \in {"routes", "recover"}, NEW left \in SUBSET Routes,
             exec' = [exec EXCEPT ![e].phase = phase, ![e].left = left], UNCHANGED <<run, op>>
      PROVE  CallInv'
  <2>1. exec' = [exec EXCEPT ![e] = exec'[e]] /\ exec'[e] \in Execs
    BY <1>0, <1>4 DEF Execs, Phases
  <2>2. ExecOK(e)'
    BY <1>0, <1>1, <1>4 DEF ExecOK, Past, Execs, Fence
  <2> QED BY <1>0, <1>1, <1>4, <2>1, <2>2, SameFence, LookStep
<1>5. CASE /\ Fence(e) /\ run' = run
           /\ op' = [op EXCEPT ![k].submissions = @ + 1, ![k].known = "no"]
           /\ exec' = [exec EXCEPT ![e].phase = "reserved", ![e].left = @ \ {r},
                                    ![e].n = op[k].submissions + 1]
  <2>1. op' \in [Keys -> Ops]
    BY <1>0, <1>5 DEF Ops
  <2>2. \A j \in Keys : op'[j].args = op[j].args /\ op'[j].result = op[j].result
    BY <1>0, <1>5 DEF Ops
  <2>3. op'[k].known = "no" /\ op[k].submissions \in Nat
    BY <1>0, <1>5 DEF Ops
  <2>4. exec' = [exec EXCEPT ![e] = exec'[e]] /\ exec'[e] \in Execs
    <3>1. exec'[e] = [exec[e] EXCEPT !.phase = "reserved", !.left = @ \ {r}, !.n = op[k].submissions + 1]
      BY <1>0, <1>5
    <3>2. exec[e] \in Execs /\ op[k].submissions + 1 \in Nat
      BY <1>0, <2>3
    <3>3. exec'[e] \in Execs
      BY <3>1, <3>2 DEF Execs, Phases
    <3>4. exec' = [exec EXCEPT ![e] = exec'[e]]
      BY <1>0, <1>5, <3>1
    <3> QED BY <3>3, <3>4
  <2>5. /\ exec'[e].phase = "reserved" /\ exec'[e].call = k /\ exec'[e].input = exec[e].input
        /\ exec'[e].used = exec[e].used /\ exec'[e].n = op[k].submissions + 1
    BY <1>0, <1>5 DEF Execs
  <2>6. ExecOK(e)'
    BY <1>0, <1>1, <1>5, <2>2, <2>3, <2>5 DEF ExecOK, Past
  <2> QED BY <1>0, <1>1, <1>5, <2>1, <2>2, <2>4, <2>6, SameFence, LedgerStep
<1>6. exec[e].left \in SUBSET Routes
  BY <1>0 DEF Execs
<1>7. [exec EXCEPT ![e].phase = "recover"] = [exec EXCEPT ![e].phase = "recover", ![e].left = exec[e].left]
      /\ [exec EXCEPT ![e].left = @ \ {r}]
           = [exec EXCEPT ![e].phase = "routes", ![e].left = exec[e].left \ {r}]
  BY <1>0 DEF Execs
<1> QED
  <2>1. CASE ~Fence(e) \/ ~Affordable
    BY <2>1, <1>2, <1>3 DEF BeginSubmission
  <2>2. CASE Fence(e) /\ Affordable /\ r \notin eligible
    BY <2>2, <1>4, <1>6, <1>7 DEF BeginSubmission
  <2>3. CASE Fence(e) /\ Affordable /\ r \in eligible /\ op[k].recovery = "waiting"
    BY <2>3, <1>3 DEF BeginSubmission
  <2>4. CASE Fence(e) /\ Affordable /\ r \in eligible /\ op[k].recovery # "waiting"
    <3>1. CASE op[k].submissions < Limit(k)
      BY <2>4, <3>1, <1>5 DEF BeginSubmission
    <3>2. CASE ~(op[k].submissions < Limit(k))
      BY <2>4, <3>2, <1>4, <1>6, <1>7 DEF BeginSubmission, Go
    <3> QED BY <3>1, <3>2
  <2> QED BY <2>1, <2>2, <2>3, <2>4

LEMMA BaseNat == ASSUME ConstantsOK, eligible \subseteq Routes PROVE Base \in Nat
<1>1. Cardinality(eligible) \in Nat
  BY FS_Subset, FS_CardinalityType DEF ConstantsOK
<1> QED BY <1>1 DEF Base, ConstantsOK

LEMMA ScheduleRecoveryStep ==
  ASSUME ConstantsOK, CallInv, NEW e \in Epochs, ScheduleRecovery(e) PROVE CallInv'
<1> DEFINE k == exec[e].call
<1>0. ExecOK(e) /\ exec \in [Epochs -> Execs] /\ k \in Keys
      /\ op \in [Keys -> Ops] /\ eligible \subseteq Routes
  BY DEF CallInv, CallTypes, ScheduleRecovery, At, ExecOK, Past
<1>1. /\ UNCHANGED <<eligible, frozen, sent>>
      /\ \E state \in {"waiting", "ended"} : GiveUp(e, state)
      /\ op' = op \/ op' = [op EXCEPT ![k].recovery = "waiting", ![k].allowed = Base + 1]
  BY DEF ScheduleRecovery
<1>2. Base + 1 \in Nat
  BY <1>0, BaseNat
<1>3. op' \in [Keys -> Ops] /\ \A j \in Keys : /\ op'[j].args = op[j].args
        /\ op'[j].result = op[j].result /\ op'[j].known = op[j].known
  BY <1>0, <1>1, <1>2 DEF Ops
<1> QED BY <1>0, <1>1, <1>3, GiveUpFence, LeaveOK, LedgerStep

LEMMA RecoveryDueStep ==
  ASSUME ConstantsOK, CallInv, NEW k \in Keys, RecoveryDue(k) PROVE CallInv'
<1>1. UNCHANGED <<run, eligible, frozen, sent, exec>> /\ op' = [op EXCEPT ![k].recovery = "due"]
  BY DEF RecoveryDue
<1>2. op' \in [Keys -> Ops] /\ \A j \in Keys : /\ op'[j].args = op[j].args
        /\ op'[j].result = op[j].result /\ op'[j].known = op[j].known
  BY <1>1 DEF CallInv, CallTypes, Ops
<1> QED BY <1>1, <1>2 DEF CallInv, CallTypes, KeyOK, ExecOK, Fence

LEMMA SendStep == ASSUME ConstantsOK, CallInv, NEW e \in Epochs, Send(e) PROVE CallInv'
<1> DEFINE k == exec[e].call
<1>0. ExecOK(e) /\ exec \in [Epochs -> Execs] /\ k \in Keys /\ exec[e].phase = "reserved"
      /\ sent \in [Keys -> [times : Nat, inputs : SUBSET Inputs]]
      /\ exec[e].input \in Inputs /\ frozen[k] = exec[e].input
  BY DEF CallInv, CallTypes, Send, At, ExecOK, Past
<1>1. /\ UNCHANGED <<run, eligible, frozen, op>> /\ exec' = [exec EXCEPT ![e].phase = "sent"]
      /\ sent' = [sent EXCEPT ![k] = [times |-> @.times + 1, inputs |-> @.inputs \cup {exec[e].input}]]
  BY DEF Send, Go
<1>2. exec' \in [Epochs -> Execs] /\ sent' \in [Keys -> [times : Nat, inputs : SUBSET Inputs]]
  <2>1. exec' \in [Epochs -> Execs]
    <3>1. [exec[e] EXCEPT !.phase = "sent"] \in Execs
      <4>1. exec[e] \in Execs
        BY <1>0
      <4> QED BY <4>1 DEF Execs, Phases
    <3>2. exec' = [exec EXCEPT ![e] = [exec[e] EXCEPT !.phase = "sent"]]
      BY <1>0, <1>1
    <3> QED BY <1>0, <3>1, <3>2
  <2>2. sent[k].times + 1 \in Nat /\ sent[k].inputs \cup {exec[e].input} \in SUBSET Inputs
    BY <1>0
  <2> HIDE DEF k
  <2>3. sent' \in [Keys -> [times : Nat, inputs : SUBSET Inputs]]
    BY <1>0, <1>1, <2>2
  <2> QED BY <2>1, <2>3
<1>3. CallTypes'
  BY <1>1, <1>2 DEF CallInv, CallTypes
<1>4. \A j \in Keys : KeyOK(j)'
  <2>1. ASSUME NEW j \in Keys, j # k PROVE KeyOK(j)'
    BY <1>0, <1>1, <2>1 DEF CallInv, KeyOK
  <2>2. ASSUME NEW j \in Keys, j = k PROVE KeyOK(j)'
    BY <1>0, <1>1, <2>2 DEF CallInv, KeyOK, ConstantsOK
  <2> QED BY <2>1, <2>2
<1>5. ExecOK(e)'
  BY <1>0, <1>1 DEF ExecOK, Past, Execs, Fence
<1>6. ASSUME NEW u \in Epochs, u # e PROVE ExecOK(u)'
  <2>1. exec'[u] = exec[u] /\ Quiet(u)
    BY <1>0, <1>1, <1>6 DEF Quiet, Fence
  <2> QED BY <2>1, QuietKeeps
<1> QED BY <1>3, <1>4, <1>5, <1>6 DEF CallInv

LEMMA AnswerStep == ASSUME ConstantsOK, CallInv, NEW e \in Epochs, Answer(e) PROVE CallInv'
<1> DEFINE k == exec[e].call
<1>0. ExecOK(e) /\ exec \in [Epochs -> Execs] /\ k \in Keys /\ exec[e].phase = "sent"
      /\ op \in [Keys -> Ops] /\ eligible \subseteq Routes
  BY DEF CallInv, CallTypes, Answer, At, ExecOK, Past
<1>1. UNCHANGED <<run, eligible, frozen, sent>>
  BY DEF Answer
<1>2. ASSUME NEW phase \in {"save", "routes"}, Go(e, phase), op' = op PROVE CallInv'
  <2>1. exec' = [exec EXCEPT ![e].phase = phase]
    BY <1>2 DEF Go
  <2>2. exec' = [exec EXCEPT ![e] = exec'[e]] /\ exec'[e] \in Execs
    BY <1>0, <2>1 DEF Execs, Phases
  <2>3. ExecOK(e)'
    BY <1>0, <1>1, <1>2, <2>1 DEF ExecOK, Past, Execs, Fence
  <2> QED BY <1>0, <1>1, <1>2, <2>2, <2>3, SameFence, LookStep
<1>3. ASSUME NextCall(e, 0), op' = op \/ op' = Observed(e) PROVE CallInv'
  <2>1. op' \in [Keys -> Ops]
    BY <1>0, <1>3 DEF Observed, Ops
  <2>2. \A j \in Keys : op'[j].args = op[j].args /\ op'[j].result = op[j].result
    BY <1>0, <1>3 DEF Observed, Ops
  <2>3. ~Fence(e) => \A j \in Keys : op'[j].known = "current" => op[j].known = "current"
    BY <1>0, <1>3 DEF Observed, Ops
  <2> QED BY <1>0, <1>1, <1>3, <2>1, <2>2, <2>3, SameFence, NextOK, LedgerStep
<1> QED BY <1>2, <1>3 DEF Answer

LEMMA SaveResultStep ==
  ASSUME ConstantsOK, CallInv, NEW e \in Epochs, SaveResult(e) PROVE CallInv'
<1> DEFINE k == exec[e].call
<1>0. ExecOK(e) /\ exec \in [Epochs -> Execs] /\ k \in Keys /\ exec[e].phase = "save"
      /\ op \in [Keys -> Ops] /\ eligible \subseteq Routes /\ exec[e].n \in Nat
  BY DEF CallInv, CallTypes, SaveResult, At, ExecOK, Past, Execs
<1>1. UNCHANGED <<run, eligible, frozen, sent>>
  BY DEF SaveResult
<1>2. CASE ~Fence(e)
  <2>1. Leave(e) /\ op' = op
    BY <1>2 DEF SaveResult
  <2> QED BY <1>0, <1>1, <2>1, SameFence, LeaveOK, LookStep
<1>3. CASE Fence(e)
  <2>1. /\ op' = [op EXCEPT ![k].result = IF @ = 0 THEN exec[e].n ELSE @]
        /\ NextCall(e, exec[e].n)
    BY <1>3 DEF SaveResult
  <2>2. op[k].result = 0
    BY <1>0, <1>3 DEF ExecOK
  <2>3. op' \in [Keys -> Ops] /\ op'[k].result = exec[e].n
    BY <1>0, <2>1, <2>2 DEF Ops
  <2>4. \A j \in Keys : op'[j].args = op[j].args /\ (op[j].result # 0 => op'[j].result = op[j].result)
    BY <1>0, <2>1, <2>2 DEF Ops
  <2> QED BY <1>0, <1>1, <1>3, <2>1, <2>3, <2>4, SameFence, NextOK, LedgerStep
<1> QED BY <1>2, <1>3

\* Checkpoint, Interrupt, RoutesExhausted, ChangeRoute.
LEMMA RunSteps ==
  ASSUME ConstantsOK, CallInv, NEW e \in Epochs,
         Checkpoint(e) \/ Interrupt(e) \/ RoutesExhausted(e) PROVE CallInv'
<1>0. ExecOK(e) /\ exec \in [Epochs -> Execs] /\ eligible \subseteq Routes
  BY DEF CallInv, CallTypes
<1>1. UNCHANGED <<eligible, frozen, op, sent>>
  BY DEF Checkpoint, Interrupt, RoutesExhausted
<1>2. ASSUME NEW state \in {"waiting", "ended"}, GiveUp(e, state) PROVE CallInv'
  BY <1>0, <1>1, <1>2, GiveUpFence, LeaveOK, LookStep
<1>3. CASE Leave(e) /\ run' = run
  BY <1>0, <1>1, <1>3, SameFence, LeaveOK, LookStep
<1>4. CASE Checkpoint(e)
  <2>1. /\ exec[e].call \in Keys /\ exec' = exec /\ run' = [run EXCEPT !.call = exec[e].call]
    BY <1>0, <1>4 DEF Checkpoint, At, ExecOK
  <2>2. /\ \A u \in Epochs : Fence(u)' <=> Fence(u)
        /\ run' \in [state : {"running", "waiting", "ended"}, epoch : Epochs, call : Keys]
    BY <2>1 DEF Fence, CallInv, CallTypes
  <2>3. exec' = [exec EXCEPT ![e] = exec'[e]] /\ exec'[e] \in Execs
    BY <1>0, <2>1
  <2>4. ExecOK(e)'
    BY <1>0, <1>1, <2>1, <2>2 DEF ExecOK
  <2> QED BY <1>0, <1>1, <2>2, <2>3, <2>4, LookStep
<1> QED BY <1>2, <1>3, <1>4 DEF Interrupt, RoutesExhausted

LEMMA ClaimStep == ASSUME ConstantsOK, CallInv, Claim PROVE CallInv'
<1>e. PICK e \in Epochs : e = run.epoch + 1
  BY DEF CallInv, CallTypes, Claim, Epochs, ConstantsOK
<1>0. /\ exec \in [Epochs -> Execs] /\ eligible \subseteq Routes /\ op \in [Keys -> Ops]
      /\ run \in [state : {"running", "waiting", "ended"}, epoch : Epochs, call : Keys]
  BY DEF CallInv, CallTypes
<1>1. /\ UNCHANGED <<eligible, frozen, op, sent>>
      /\ run' = [run EXCEPT !.state = "running", !.epoch = e]
      /\ exec' = [exec EXCEPT ![e] = [NoExec EXCEPT !.phase = "call", !.call = run.call]]
  BY <1>e DEF Claim
<1>2. /\ exec'[e].phase = "call" /\ exec'[e].call = run.call
      /\ exec'[e].used = [k \in Keys |-> 0] /\ exec'[e] \in Execs
  <2>1. exec'[e] = [NoExec EXCEPT !.phase = "call", !.call = run.call]
    BY <1>0, <1>1
  <2>2. exec'[e] = [phase |-> "call", call |-> run.call, input |-> "none", left |-> {}, n |-> 0,
                    used |-> [k \in Keys |-> 0]]
    BY <2>1 DEF NoExec
  <2>3. run.call \in Keys /\ run.call \in 0 .. Calls
    BY <1>0 DEF Keys, ConstantsOK
  <2>4. [k \in Keys |-> 0] \in [Keys -> Nat]
    OBVIOUS
  <2>5. exec'[e] \in Execs
    BY <2>2, <2>3, <2>4 DEF Execs, Phases
  <2>6. exec'[e].phase = "call" /\ exec'[e].call = run.call /\ exec'[e].used = [k \in Keys |-> 0]
    BY <2>2
  <2> QED BY <2>5, <2>6
<1>3. CallTypes'
  <2>1. exec' \in [Epochs -> Execs]
    BY <1>0, <1>1, <1>2
  <2> QED BY <1>0, <1>1, <2>1 DEF CallInv, CallTypes
<1>4. \A k \in Keys : KeyOK(k)'
  BY <1>1 DEF CallInv, KeyOK
<1>5. ExecOK(e)'
  <2>1. run.call \in Keys /\ \A k \in Keys : exec'[e].used[k] = 0
    BY <1>0, <1>2
  <2> QED BY <1>2, <2>1 DEF ExecOK, Past
<1>6. ASSUME NEW u \in Epochs, u # e PROVE ExecOK(u)'
  <2>1. exec'[u] = exec[u] /\ ~Fence(u)'
    BY <1>0, <1>1, <1>6 DEF Fence
  <2>2. Quiet(u)
    BY <1>1, <2>1 DEF Quiet
  <2> QED BY <2>1, <2>2, QuietKeeps
<1>7. \A u \in Epochs : ExecOK(u)'
  <2>1. ASSUME NEW u \in Epochs PROVE ExecOK(u)'
    <3>1. CASE u = e
      BY <1>5, <3>1
    <3> QED BY <1>6, <3>1
  <2> QED BY <2>1
<1> QED BY <1>3, <1>4, <1>7 DEF CallInv

LEMMA ChangeRouteStep ==
  ASSUME ConstantsOK, CallInv, NEW r \in Routes, ChangeRoute(r) PROVE CallInv'
BY DEF ChangeRoute, CallInv, CallTypes, KeyOK, ExecOK, Fence

LEMMA CallNext == ASSUME ConstantsOK, CallInv, [Next]_vars PROVE CallInv'
<1>1. CASE UNCHANGED vars
  BY <1>1 DEF vars, CallInv, CallTypes, KeyOK, ExecOK, Fence
<1>2. CASE Next
  BY <1>2, LookAtInputStep, FreezeInputStep, BeginCallStep, AskOutcomeStep, BeginSubmissionStep,
     ScheduleRecoveryStep, RecoveryDueStep, SendStep, AnswerStep, SaveResultStep, RunSteps,
     ClaimStep, ChangeRouteStep DEF Next
<1> QED BY <1>1, <1>2

\* The owner that adds a submission found the outcome unknown.
LEMMA KnownKept == ASSUME ConstantsOK, CallInv, [Next]_vars PROVE ~RepeatsKnown
<1> SUFFICES ASSUME NEW k \in Keys, op[k].known = "current", op'[k].submissions # op[k].submissions
             PROVE  FALSE
  BY DEF RepeatsKnown
<1>0. op \in [Keys -> Ops] /\ exec \in [Epochs -> Execs]
  BY DEF CallInv, CallTypes
<1>1. \A e \in Epochs : exec[e].phase = "routes" => exec[e].call \in Keys
  BY DEF CallInv, ExecOK, Past
<1>2. ASSUME NEW e \in Epochs, NEW r \in Routes, BeginSubmission(e, r) PROVE FALSE
  <2>1. Fence(e) /\ exec[e].phase = "routes" /\ exec[e].call = k
    BY <1>0, <1>1, <1>2 DEF BeginSubmission, At, Ops
  <2> QED BY <2>1 DEF CallInv, ExecOK
<1>3. ASSUME NEW e \in Epochs, Answer(e) PROVE FALSE
  BY <1>0, <1>3 DEF Answer, Observed, Ops
<1>4. ASSUME NEW e \in Epochs, BeginCall(e) PROVE FALSE
  BY <1>0, <1>4 DEF BeginCall, Ops
<1>5. ASSUME NEW e \in Epochs, ScheduleRecovery(e) \/ SaveResult(e) PROVE FALSE
  BY <1>0, <1>5 DEF ScheduleRecovery, SaveResult, Ops
<1>6. ASSUME NEW j \in Keys, RecoveryDue(j) PROVE FALSE
  BY <1>0, <1>6 DEF RecoveryDue, Ops
<1> QED BY <1>2, <1>3, <1>4, <1>5, <1>6 DEF Next, vars, LookAtInput, FreezeInput, AskOutcome,
     RoutesExhausted, Send, Checkpoint, Interrupt, Claim, ChangeRoute

-----------------------------------------------------------------------------
(* The spending of a run.  A send that leaves was counted before, by an    *)
(* execution that has not sent it yet; a call gets more than its base only *)
(* once it was given one of the few recoveries; and what is counted is     *)
(* compared with the ceiling in the same transaction.                      *)

Reserved(k) == {e \in Epochs : exec[e].phase = "reserved" /\ exec[e].call = k}
Recovered == {k \in Keys : op[k].recovery # "no"}

Counted(k) ==
  /\ sent[k].times + Cardinality(Reserved(k)) <= op[k].submissions
  /\ op[k].submissions <= IF op[k].recovery = "no" THEN Most ELSE Most + 1

SpendInv ==
  /\ IsFiniteSet(Submissions) /\ Spent <= Ceiling
  /\ Cardinality(Recovered) <= RecoveryLimit
  /\ \A k \in Keys : Counted(k)

LEMMA MaxOfTwo ==
  ASSUME NEW a \in Int, NEW b \in Int
  PROVE  Max({a, b}) = IF a >= b THEN a ELSE b
<1> DEFINE m == IF a >= b THEN a ELSE b
<1>1. m \in {a, b} /\ \A y \in {a, b} : m >= y
  OBVIOUS
<1>2. \A x \in {a, b} : (\A y \in {a, b} : x >= y) => x = m
  OBVIOUS
<1> QED BY <1>1, <1>2 DEF Max

LEMMA MinOfTwo ==
  ASSUME NEW a \in Int, NEW b \in Int
  PROVE  Min({a, b}) = IF a <= b THEN a ELSE b
<1> DEFINE m == IF a <= b THEN a ELSE b
<1>1. m \in {a, b} /\ \A y \in {a, b} : m <= y
  OBVIOUS
<1>2. \A x \in {a, b} : (\A y \in {a, b} : x <= y) => x = m
  OBVIOUS
<1> QED BY <1>1, <1>2 DEF Min

LEMMA BaseBound ==
  ASSUME ConstantsOK, CallTypes
  PROVE  Base \in Nat /\ Base <= Most /\ Most \in Nat
<1>1. /\ Cardinality(eligible) \in Nat /\ Cardinality(Routes) \in Nat /\ BaseSends \in Nat
      /\ Cardinality(eligible) <= Cardinality(Routes)
  BY FS_Subset, FS_CardinalityType DEF ConstantsOK, CallTypes
<1>2. Most = IF BaseSends >= Cardinality(Routes) THEN BaseSends ELSE Cardinality(Routes)
  BY <1>1, MaxOfTwo DEF Most
<1> QED BY <1>1, <1>2 DEF Base

\* How often a call may be sent, whatever routes are eligible at the moment.
LEMMA LimitBound ==
  ASSUME ConstantsOK, CallTypes, NEW k \in Keys
  PROVE  /\ Most \in Nat /\ Limit(k) \in Nat
         /\ Limit(k) <= IF op[k].recovery = "no" THEN Most ELSE Most + 1
<1>3. Base \in Nat /\ Base <= Most /\ Most \in Nat
  BY BaseBound
<1>4. CASE op[k].recovery = "no"
  BY <1>3, <1>4 DEF Limit
<1>5. CASE op[k].recovery # "no"
  <2> DEFINE least == Min({Base + 1, op[k].allowed})
  <2>1. op[k].allowed \in Nat
    BY DEF CallTypes, Ops
  <2>2. least = IF Base + 1 <= op[k].allowed THEN Base + 1 ELSE op[k].allowed
    BY <1>3, <2>1, MinOfTwo
  <2>3. least \in Nat /\ least <= Base + 1
    BY <1>3, <2>1, <2>2
  <2>4. Limit(k) = Max({Base, least})
    BY <1>5 DEF Limit
  <2> HIDE DEF least
  <2>5. Limit(k) = IF Base >= least THEN Base ELSE least
    BY <1>3, <2>3, <2>4, MaxOfTwo
  <2> QED BY <1>3, <1>5, <2>3, <2>5
<1> QED BY <1>3, <1>4, <1>5

LEMMA ReservedFinite ==
  ASSUME ConstantsOK, NEW k \in Keys
  PROVE  /\ IsFiniteSet(Reserved(k)) /\ Cardinality(Reserved(k)) \in Nat
         /\ IsFiniteSet(Epochs)
<1>1. IsFiniteSet(Epochs)
  BY FS_Interval DEF Epochs, ConstantsOK
<1>2. Reserved(k) \in SUBSET Epochs
  BY DEF Reserved
<1> QED BY <1>1, <1>2, FS_Subset, FS_CardinalityType

LEMMA KeysFinite ==
  ASSUME ConstantsOK
  PROVE  IsFiniteSet(Keys) /\ IsFiniteSet(Recovered) /\ Cardinality(Recovered) \in Nat
<1>1. IsFiniteSet(Keys)
  BY FS_Interval DEF Keys, ConstantsOK
<1>2. Recovered \in SUBSET Keys
  BY DEF Recovered
<1> QED BY <1>1, <1>2, FS_Subset, FS_CardinalityType

LEMMA SpendInit == ASSUME ConstantsOK, Init PROVE SpendInv
<1>0. /\ \A k \in Keys : op[k] = NoOp /\ sent[k].times = 0
      /\ \A e \in Epochs : exec[e].phase # "reserved"
  BY DEF Init, NoExec
<1>1. Submissions = {}
  <2>1. \A k \in Keys : {k} \X (1 .. op[k].submissions) = {}
    BY <1>0 DEF NoOp
  <2> QED BY <2>1 DEF Submissions
<1>2. IsFiniteSet(Submissions) /\ Spent <= Ceiling
  BY <1>1, FS_EmptySet DEF Spent, ConstantsOK
<1>3. Recovered = {} /\ Cardinality(Recovered) <= RecoveryLimit
  <2>1. Recovered = {}
    BY <1>0 DEF Recovered, NoOp
  <2> QED BY <2>1, FS_EmptySet DEF ConstantsOK
<1>4. ASSUME NEW k \in Keys PROVE Counted(k)
  <2>1. Reserved(k) = {} /\ Cardinality(Reserved(k)) = 0
    BY <1>0, FS_EmptySet DEF Reserved
  <2>2. Most \in Nat
    BY LimitBound, CallInit DEF CallInv
  <2> QED BY <1>0, <2>1, <2>2 DEF Counted, NoOp
<1> QED BY <1>2, <1>3, <1>4 DEF SpendInv

\* A step that counts, recovers and sends nothing.
Calm ==
  /\ \A k \in Keys : /\ sent'[k].times = sent[k].times
                     /\ op'[k].submissions = op[k].submissions
                     /\ op'[k].recovery = "no" <=> op[k].recovery = "no"
  /\ \A e \in Epochs : exec'[e].phase = "reserved" => exec'[e] = exec[e]

LEMMA CalmSubmissions ==
  ASSUME \A k \in Keys : op'[k].submissions = op[k].submissions
  PROVE  Submissions' = Submissions /\ Spent' = Spent
BY DEF Submissions, Spent

LEMMA ReservedFewer ==
  ASSUME ConstantsOK, NEW k \in Keys,
         \A e \in Epochs : exec'[e].phase = "reserved" => exec'[e] = exec[e]
  PROVE  Cardinality(Reserved(k))' <= Cardinality(Reserved(k))
         /\ Cardinality(Reserved(k))' \in Nat
<1>1. Reserved(k)' \in SUBSET Reserved(k)
  BY DEF Reserved
<1> QED BY <1>1, ReservedFinite, FS_Subset, FS_CardinalityType

LEMMA CalmKeeps == ASSUME ConstantsOK, CallInv, SpendInv, Calm PROVE SpendInv'
<1>1. IsFiniteSet(Submissions') /\ Spent' <= Ceiling
  BY CalmSubmissions DEF SpendInv, Calm
<1>2. Recovered' = Recovered
  BY DEF Recovered, Calm
<1>3. ASSUME NEW k \in Keys PROVE Counted(k)'
  <2>1. Cardinality(Reserved(k))' <= Cardinality(Reserved(k)) /\ Cardinality(Reserved(k))' \in Nat
    BY ReservedFewer DEF Calm
  <2>2. op[k].submissions \in Nat /\ sent[k].times \in Nat /\ Cardinality(Reserved(k)) \in Nat
    BY ReservedFinite DEF CallInv, CallTypes, Ops
  <2>3. Counted(k) /\ Most' = Most
    BY DEF SpendInv, Most
  <2> QED BY <2>1, <2>2, <2>3 DEF Counted, Calm
<1> QED BY <1>1, <1>2, <1>3 DEF SpendInv

\* The execution of e goes to a place where nothing is about to leave.
Moves(e) ==
  /\ \A u \in Epochs : u # e => exec'[u] = exec[u]
  /\ exec'[e].phase # "reserved"

LEMMA GoMoves ==
  ASSUME CallTypes, NEW e \in Epochs, NEW phase, phase # "reserved",
         \/ Go(e, phase)
         \/ \E x : exec' = [exec EXCEPT ![e].phase = phase, ![e].input = x]
         \/ \E left : exec' = [exec EXCEPT ![e].phase = phase, ![e].left = left]
  PROVE  Moves(e)
<1>1. exec \in [Epochs -> Execs] /\ exec[e] \in Execs
  BY DEF CallTypes
<1> QED BY <1>1 DEF Moves, Go, Execs

LEMMA RestMoves ==
  ASSUME CallTypes, NEW e \in Epochs,
         \/ Leave(e)
         \/ \E result : NextCall(e, result)
         \/ \E state : GiveUp(e, state)
  PROVE  Moves(e)
<1>1. exec \in [Epochs -> Execs]
  BY DEF CallTypes
<1>2. ASSUME NEW phase \in {"call", "gone"}, NEW call, NEW used, Rest(e, phase, call, used)
      PROVE  Moves(e)
  BY <1>1, <1>2 DEF Rest, Moves, NoExec
<1> QED BY <1>2 DEF Leave, NextCall, GiveUp

LEMMA MovesCalm ==
  ASSUME NEW e \in Epochs, Moves(e),
         \A k \in Keys : /\ sent'[k].times = sent[k].times
                         /\ op'[k].submissions = op[k].submissions
                         /\ op'[k].recovery = "no" <=> op[k].recovery = "no"
  PROVE  Calm
BY DEF Moves, Calm

\* What an execution does up to its sends, and with their answers.
LEMMA WorkCalm ==
  ASSUME ConstantsOK, CallInv, NEW e \in Epochs,
         \/ LookAtInput(e) \/ FreezeInput(e) \/ BeginCall(e) \/ AskOutcome(e)
         \/ RoutesExhausted(e) \/ Answer(e) \/ SaveResult(e) \/ Interrupt(e)
  PROVE  Calm
<1>0. CallTypes /\ op \in [Keys -> Ops]
  BY DEF CallInv, CallTypes
<1>1. CASE LookAtInput(e)
  <2>1. Moves(e)
    BY <1>0, <1>1, GoMoves DEF LookAtInput
  <2> QED BY <1>1, <2>1, MovesCalm DEF LookAtInput
<1>2. CASE FreezeInput(e)
  <2>1. Moves(e)
    BY <1>0, <1>2, GoMoves, RestMoves DEF FreezeInput
  <2> QED BY <1>2, <2>1, MovesCalm DEF FreezeInput
<1>3. CASE BeginCall(e)
  <2>1. Moves(e)
    <3>1. CASE Fence(e)
      BY <1>0, <1>3, <3>1, GoMoves, RestMoves DEF BeginCall
    <3>2. CASE ~Fence(e)
      BY <1>0, <1>3, <3>2, RestMoves DEF BeginCall
    <3> QED BY <3>1, <3>2
  <2>2. \A k \in Keys : op'[k].submissions = op[k].submissions /\ op'[k].recovery = op[k].recovery
    BY <1>0, <1>3 DEF BeginCall, Ops
  <2> QED BY <1>3, <2>1, <2>2, MovesCalm DEF BeginCall
<1>4. CASE AskOutcome(e)
  <2>1. Moves(e)
    BY <1>0, <1>4, GoMoves, RestMoves DEF AskOutcome
  <2> QED BY <1>4, <2>1, MovesCalm DEF AskOutcome
<1>5. CASE RoutesExhausted(e)
  <2>1. Moves(e)
    BY <1>0, <1>5, RestMoves DEF RoutesExhausted
  <2> QED BY <1>5, <2>1, MovesCalm DEF RoutesExhausted
<1>6. CASE Answer(e)
  <2>1. Moves(e)
    BY <1>0, <1>6, GoMoves, RestMoves DEF Answer
  <2>2. \A k \in Keys : op'[k].submissions = op[k].submissions /\ op'[k].recovery = op[k].recovery
    BY <1>0, <1>6 DEF Answer, Observed, Ops
  <2> QED BY <1>6, <2>1, <2>2, MovesCalm DEF Answer
<1>7. CASE SaveResult(e)
  <2>1. Moves(e)
    BY <1>0, <1>7, RestMoves DEF SaveResult
  <2>2. \A k \in Keys : op'[k].submissions = op[k].submissions /\ op'[k].recovery = op[k].recovery
    BY <1>0, <1>7 DEF SaveResult, Ops
  <2> QED BY <1>7, <2>1, <2>2, MovesCalm DEF SaveResult
<1>8. CASE Interrupt(e)
  <2>1. Moves(e)
    BY <1>0, <1>8, RestMoves DEF Interrupt
  <2> QED BY <1>8, <2>1, MovesCalm DEF Interrupt
<1> QED BY <1>1, <1>2, <1>3, <1>4, <1>5, <1>6, <1>7, <1>8

\* What the run, its claims, its recoveries and its suppliers do.
LEMMA RunCalm ==
  ASSUME ConstantsOK, CallInv,
         \/ \E e \in Epochs : Checkpoint(e)
         \/ \E k \in Keys : RecoveryDue(k)
         \/ Claim
         \/ \E r \in Routes : ChangeRoute(r)
         \/ UNCHANGED vars
  PROVE  Calm
<1>0. op \in [Keys -> Ops] /\ exec \in [Epochs -> Execs]
  BY DEF CallInv, CallTypes
<1>1. CASE \E k \in Keys : RecoveryDue(k)
  BY <1>0, <1>1 DEF RecoveryDue, Calm, Ops
<1>2. CASE Claim
  <2>1. run.epoch + 1 \in Epochs
    BY <1>2 DEF Claim, CallInv, CallTypes, Epochs, ConstantsOK
  <2>2. Moves(run.epoch + 1)
    BY <1>0, <1>2, <2>1 DEF Claim, Moves, NoExec
  <2> QED BY <1>2, <2>1, <2>2, MovesCalm DEF Claim
<1> QED BY <1>1, <1>2 DEF Checkpoint, ChangeRoute, vars, Calm

\* A send that was counted, and refused if the ceiling was reached.
LEMMA SubmissionKeeps ==
  ASSUME ConstantsOK, CallInv, SpendInv, NEW e \in Epochs, NEW r \in Routes,
         BeginSubmission(e, r)
  PROVE  SpendInv'
<1>k. PICK k \in Keys : k = exec[e].call
  BY DEF CallInv, ExecOK, BeginSubmission, At, Past
<1> DEFINE n == op[k].submissions
<1>0. /\ CallTypes /\ op \in [Keys -> Ops] /\ exec \in [Epochs -> Execs] /\ k = exec[e].call
      /\ exec[e].phase = "routes" /\ exec[e] \in Execs
  BY <1>k DEF CallInv, CallTypes, ExecOK, BeginSubmission, At, Past
<1>1. UNCHANGED <<eligible, frozen, sent>>
  BY DEF BeginSubmission
<1>2. CASE op' = op /\ Moves(e)
  BY <1>1, <1>2, MovesCalm, CalmKeeps
<1>3. CASE /\ Affordable /\ op[k].recovery # "waiting" /\ n < Limit(k)
           /\ op' = [op EXCEPT ![k].submissions = @ + 1, ![k].known = "no"]
           /\ exec' = [exec EXCEPT ![e].phase = "reserved", ![e].left = @ \ {r},
                                    ![e].n = n + 1]
  <2>1. /\ n \in Nat /\ op'[k].submissions = n + 1
        /\ \A j \in Keys : /\ op'[j].recovery = op[j].recovery
                           /\ j # k => op'[j].submissions = op[j].submissions
    BY <1>0, <1>3 DEF Ops
  <2>2. Submissions' = Submissions \cup {<<k, n + 1>>} /\ <<k, n + 1>> \notin Submissions
    <3> HIDE DEF n
    <3>1. \A j \in Keys, i \in Nat : <<j, i>> \in Submissions <=> i \in 1 .. op[j].submissions
      BY DEF Submissions
    <3>2. \A s \in Submissions : \E j \in Keys, i \in Nat : s = <<j, i>> /\ i \in 1 .. op[j].submissions
      BY <1>0 DEF Submissions, Ops
    <3>3. \A s \in Submissions' : \E j \in Keys, i \in Nat : s = <<j, i>> /\ i \in 1 .. op'[j].submissions
      BY DEF Submissions
    <3>4. \A j \in Keys, i \in Nat : <<j, i>> \in Submissions' <=> i \in 1 .. op'[j].submissions
      BY DEF Submissions
    <3>5. 1 .. (n + 1) = 1 .. n \cup {n + 1} /\ n + 1 \notin 1 .. n /\ n + 1 \in Nat
      BY <2>1
    <3>6. n = op[k].submissions
      BY DEF n
    <3> QED BY <1>0, <2>1, <3>1, <3>2, <3>3, <3>4, <3>5, <3>6
  <2>3. IsFiniteSet(Submissions') /\ Spent' <= Ceiling
    <3>1. IsFiniteSet(Submissions) /\ Spent \in Nat /\ Spent < Ceiling
      BY <1>3, FS_CardinalityType DEF SpendInv, Affordable, Spent
    <3> HIDE DEF n
    <3>2. IsFiniteSet(Submissions') /\ Spent' = Spent + 1
      BY <2>2, <3>1, FS_AddElement DEF Spent
    <3> QED BY <3>1, <3>2 DEF ConstantsOK
  <2>4. Recovered' = Recovered
    BY <2>1 DEF Recovered
  <2>5. ASSUME NEW j \in Keys, j # k PROVE Counted(j)'
    <3>1. Reserved(j)' = Reserved(j)
      BY <1>0, <1>3, <2>5 DEF Reserved, Execs
    <3> QED BY <1>1, <2>1, <2>5, <3>1 DEF SpendInv, Counted, Most
  <2>6. Counted(k)'
    <3>1. Reserved(k)' = Reserved(k) \cup {e} /\ e \notin Reserved(k)
      BY <1>0, <1>3 DEF Reserved, Execs
    <3>2. /\ Cardinality(Reserved(k))' = Cardinality(Reserved(k)) + 1
          /\ Cardinality(Reserved(k)) \in Nat /\ sent[k].times \in Nat
      BY <1>0, <3>1, ReservedFinite, FS_AddElement DEF CallTypes
    <3>3. n + 1 <= IF op[k].recovery = "no" THEN Most ELSE Most + 1
      BY <1>0, <1>3, <2>1, LimitBound
    <3>4. Counted(k)
      BY <1>0 DEF SpendInv
    <3> QED BY <1>0, <1>1, <2>1, <3>2, <3>3, <3>4 DEF Counted, Most
  <2> QED BY <2>3, <2>4, <2>5, <2>6 DEF SpendInv
<1>4. ASSUME op' = op, \/ Leave(e)
                       \/ \E state : GiveUp(e, state)
                       \/ Go(e, "recover")
                       \/ exec' = [exec EXCEPT ![e].left = @ \ {r}]
      PROVE  SpendInv'
  <2>1. CASE exec' = [exec EXCEPT ![e].left = @ \ {r}]
    BY <1>0, <1>2, <1>4, <2>1 DEF Moves, Execs
  <2> QED BY <1>0, <1>2, <1>4, <2>1, GoMoves, RestMoves
<1> HIDE DEF n
<1>5. n = op[k].submissions /\ k = exec[e].call
  BY <1>k DEF n
<1>6. CASE ~Fence(e) \/ ~Affordable \/ r \notin eligible \/ op[k].recovery = "waiting"
  BY <1>4, <1>5, <1>6 DEF BeginSubmission
<1>7. CASE Fence(e) /\ Affordable /\ r \in eligible /\ op[k].recovery # "waiting"
  <2>1. CASE n < Limit(k)
    BY <1>3, <1>5, <1>7, <2>1 DEF BeginSubmission
  <2>2. CASE ~(n < Limit(k))
    BY <1>4, <1>5, <1>7, <2>2 DEF BeginSubmission
  <2> QED BY <2>1, <2>2
<1> QED BY <1>6, <1>7

\* A recovery that was given while there were fewer than the few.
LEMMA RecoveryKeeps ==
  ASSUME ConstantsOK, CallInv, SpendInv, NEW e \in Epochs, ScheduleRecovery(e)
  PROVE  SpendInv'
<1>k. PICK k \in Keys : k = exec[e].call
  BY DEF CallInv, ExecOK, ScheduleRecovery, At, Past
<1>0. CallTypes /\ op \in [Keys -> Ops] /\ k = exec[e].call /\ UNCHANGED <<eligible, frozen, sent>>
  BY <1>k DEF CallInv, CallTypes, ExecOK, ScheduleRecovery, At, Past
<1>1. Moves(e)
  BY <1>0, RestMoves DEF ScheduleRecovery
<1>2. CASE op' = op
  BY <1>0, <1>1, <1>2, MovesCalm, CalmKeeps
<1>3. CASE op' # op
  <2>1. /\ op' = [op EXCEPT ![k].recovery = "waiting", ![k].allowed = Base + 1]
        /\ op[k].recovery = "no" /\ Cardinality(Recovered) < RecoveryLimit
    BY <1>k, <1>3 DEF ScheduleRecovery, Recovered
  <2>2. \A j \in Keys : /\ op'[j].submissions = op[j].submissions
                        /\ op'[j].recovery = IF j = k THEN "waiting" ELSE op[j].recovery
    BY <1>0, <2>1 DEF Ops
  <2>3. IsFiniteSet(Submissions') /\ Spent' <= Ceiling
    BY <2>2, CalmSubmissions DEF SpendInv
  <2>4. Cardinality(Recovered)' <= RecoveryLimit
    <3>1. Recovered' = Recovered \cup {k} /\ k \notin Recovered
      BY <1>0, <2>1, <2>2 DEF Recovered
    <3>2. Cardinality(Recovered)' = Cardinality(Recovered) + 1
      BY <3>1, KeysFinite, FS_AddElement
    <3> QED BY <2>1, <3>2, KeysFinite DEF ConstantsOK
  <2>5. ASSUME NEW j \in Keys PROVE Counted(j)'
    <3>1. Cardinality(Reserved(j))' <= Cardinality(Reserved(j)) /\ Cardinality(Reserved(j))' \in Nat
      BY <1>1, ReservedFewer DEF Moves
    <3>2. /\ op[j].submissions \in Nat /\ sent[j].times \in Nat
          /\ Cardinality(Reserved(j)) \in Nat /\ Most \in Nat
      BY <1>0, ReservedFinite, LimitBound DEF CallTypes, Ops
    <3>3. Counted(j) /\ Most' = Most /\ sent' = sent
      BY <1>0 DEF SpendInv, Most
    <3>4. op'[j].submissions = op[j].submissions /\ (op[j].recovery # "no" => op'[j].recovery # "no")
      BY <2>2
    <3> QED BY <3>1, <3>2, <3>3, <3>4 DEF Counted
  <2> QED BY <2>3, <2>4, <2>5 DEF SpendInv
<1> QED BY <1>2, <1>3

\* What leaves was reserved by the execution that sends it.
LEMMA SendKeeps ==
  ASSUME ConstantsOK, CallInv, SpendInv, NEW e \in Epochs, Send(e)
  PROVE  SpendInv'
<1>k. PICK k \in Keys : k = exec[e].call
  BY DEF CallInv, ExecOK, Send, At, Past
<1>0. /\ CallTypes /\ exec \in [Epochs -> Execs] /\ k = exec[e].call /\ exec[e].phase = "reserved"
      /\ sent \in [Keys -> [times : Nat, inputs : SUBSET Inputs]]
      /\ UNCHANGED <<run, eligible, frozen, op>>
  BY <1>k DEF CallInv, CallTypes, ExecOK, Send, At, Past
<1>1. /\ sent'[k].times = sent[k].times + 1
      /\ \A j \in Keys : j # k => sent'[j] = sent[j]
  BY <1>0 DEF Send
<1>2. exec' = [exec EXCEPT ![e].phase = "sent"] /\ exec[e] \in Execs
  BY <1>0 DEF Send, Go
<1>3. IsFiniteSet(Submissions') /\ Spent' <= Ceiling
  BY <1>0, CalmSubmissions DEF SpendInv
<1>4. Recovered' = Recovered
  BY <1>0 DEF Recovered
<1>5. ASSUME NEW j \in Keys, j # k PROVE Counted(j)'
  <2>1. Reserved(j)' = Reserved(j)
    BY <1>0, <1>2, <1>5 DEF Reserved, Execs
  <2> QED BY <1>0, <1>1, <1>5, <2>1 DEF SpendInv, Counted, Most
<1>6. Counted(k)'
  <2>1. Reserved(k)' = Reserved(k) \ {e} /\ e \in Reserved(k)
    BY <1>0, <1>2 DEF Reserved, Execs
  <2>2. /\ Cardinality(Reserved(k))' = Cardinality(Reserved(k)) - 1
        /\ Cardinality(Reserved(k)) \in Nat /\ sent[k].times \in Nat
    BY <1>0, <2>1, ReservedFinite, FS_RemoveElement
  <2>3. op[k].submissions \in Nat /\ Counted(k) /\ Most' = Most
    BY <1>0 DEF CallTypes, Ops, SpendInv, Most
  <2> QED BY <1>0, <1>1, <2>2, <2>3 DEF Counted
<1> QED BY <1>3, <1>4, <1>5, <1>6 DEF SpendInv

LEMMA SpendNext == ASSUME ConstantsOK, CallInv, SpendInv, [Next]_vars PROVE SpendInv'
<1>1. CASE Next
  BY <1>1, WorkCalm, RunCalm, CalmKeeps, SubmissionKeeps, RecoveryKeeps, SendKeeps DEF Next
<1>2. CASE UNCHANGED vars
  BY <1>2, RunCalm, CalmKeeps
<1> QED BY <1>1, <1>2

LEMMA SpendSafe == ASSUME ConstantsOK, CallInv, SpendInv PROVE SpendBounded
<1>1. ASSUME NEW k \in Keys
      PROVE  /\ sent[k].times <= op[k].submissions /\ op[k].submissions <= Most + 1
             /\ op[k].submissions > Most => k \in Recovered
  <2>1. /\ op[k].submissions \in Nat /\ sent[k].times \in Nat
        /\ Cardinality(Reserved(k)) \in Nat /\ Most \in Nat
    BY ReservedFinite, LimitBound DEF CallInv, CallTypes, Ops
  <2> QED BY <2>1 DEF SpendInv, Counted, Recovered
<1>2. Cardinality({k \in Keys : op[k].submissions > Most}) <= RecoveryLimit
  <2> DEFINE extra == {k \in Keys : op[k].submissions > Most}
  <2>1. extra \in SUBSET Recovered
    BY <1>1
  <2>2. Cardinality(extra) <= Cardinality(Recovered) /\ Cardinality(extra) \in Nat
    BY <2>1, KeysFinite, FS_Subset, FS_CardinalityType
  <2> HIDE DEF extra
  <2>3. Cardinality(extra) <= RecoveryLimit
    BY <2>2, KeysFinite DEF SpendInv, ConstantsOK
  <2> QED BY <2>3 DEF extra
<1> QED BY <1>1, <1>2 DEF SpendBounded, SpendInv

(* All that leaves for a call carries its frozen input, no execution meets *)
(* a ledger that contradicts it, and all that go past a call have used one *)
(* result: investigator/model_input.go:22-51, store/artifacts.go:481-585.  *)
THEOREM InputsAndResultsAgree == ASSUME ConstantsOK PROVE Spec => []OneInputOneResult
<1>1. Init => CallInv
  BY CallInit
<1>2. CallInv /\ [Next]_vars => CallInv'
  BY CallNext
<1>3. CallInv => OneInputOneResult
  BY DEF CallInv, OneInputOneResult, KeyOK, ExecOK
<1> QED BY <1>1, <1>2, <1>3, PTL DEF Spec

(* An outcome that the owner of the run recorded is never paid for again,  *)
(* by no execution and on no route: investigator/model_call.go:178-216.    *)
THEOREM KnownIsFinal == ASSUME ConstantsOK PROVE Spec => KnownOutcomeFinal
<1>1. Init => CallInv
  BY CallInit
<1>2. CallInv /\ [Next]_vars => CallInv'
  BY CallNext
<1>3. CallInv /\ [Next]_vars => [~RepeatsKnown]_vars
  BY KnownKept
<1> QED BY <1>1, <1>2, <1>3, PTL DEF Spec, KnownOutcomeFinal

(* Whatever executions, recoveries and suppliers do, the run is never      *)
(* counted more sends than its ceiling, nothing leaves that was not        *)
(* counted, and only a few calls get their one extra send:                 *)
(* store/artifacts.go:448-563, store/model_recovery.go:29-107.             *)
THEOREM SpendingIsBounded == ASSUME ConstantsOK PROVE Spec => []SpendBounded
<1>1. Init => CallInv /\ SpendInv
  BY CallInit, SpendInit
<1>2. CallInv /\ SpendInv /\ [Next]_vars => CallInv' /\ SpendInv'
  BY CallNext, SpendNext
<1>3. CallInv /\ SpendInv => SpendBounded
  BY SpendSafe
<1> QED BY <1>1, <1>2, <1>3, PTL DEF Spec

-----------------------------------------------------------------------------
(* The bounds of the types.                                                *)

Amounts == 0 .. Most + 1

\* What is recorded of sends is the number of one.
LedgerFew == \A k \in Keys : op[k].result \in Amounts /\ op[k].allowed \in Amounts
ExecFew(e) == exec[e].n \in Amounts /\ \A k \in Keys : exec[e].used[k] \in Amounts
Few == LedgerFew /\ \A e \in Epochs : ExecFew(e)

LEMMA AmountsKnown ==
  ASSUME ConstantsOK, CallTypes
  PROVE  Most \in Nat /\ 0 \in Amounts /\ Most' = Most /\ Amounts' = Amounts
<1>1. Most \in Nat
  BY BaseBound
<1> QED BY <1>1 DEF Amounts, Most

LEMMA FewInit == ASSUME ConstantsOK, Init PROVE Few
<1>1. 0 \in Amounts
  BY AmountsKnown, CallInit DEF CallInv
<1>2. /\ \A k \in Keys : op[k] = NoOp
      /\ \A e \in Epochs : exec[e].n = 0 /\ \A k \in Keys : exec[e].used[k] = 0
  BY DEF Init, NoExec
<1> QED BY <1>1, <1>2 DEF Few, LedgerFew, ExecFew, NoOp

\* An execution goes on with amounts that it has, or with one more.
LEMMA FewExec ==
  ASSUME ConstantsOK, CallTypes, Few, NEW e \in Epochs, NEW n \in Amounts,
         \/ exec' = exec
         \/ \E phase : Go(e, phase)
         \/ \E phase, call, used : /\ Rest(e, phase, call, used)
                                   /\ \A k \in Keys : used[k] \in {exec[e].used[k], n}
  PROVE  \A d \in Epochs : ExecFew(d)'
<1> USE DEF Few, ExecFew
<1>1. exec \in [Epochs -> Execs] /\ exec[e] \in Execs /\ 0 \in Amounts /\ Amounts' = Amounts
  BY AmountsKnown DEF CallTypes
<1>2. CASE exec' = exec
  BY <1>1, <1>2
<1>3. CASE \E phase : Go(e, phase)
  BY <1>1, <1>3 DEF Go, Execs
<1>4. ASSUME NEW phase, NEW call, NEW used, Rest(e, phase, call, used),
             \A k \in Keys : used[k] \in {exec[e].used[k], n}
      PROVE  \A d \in Epochs : exec'[d].n \in Amounts /\ \A k \in Keys : exec'[d].used[k] \in Amounts
  BY <1>1, <1>4 DEF Rest, NoExec
<1> QED BY <1>1, <1>2, <1>3, <1>4

LEMMA FewLeave ==
  ASSUME ConstantsOK, CallTypes, Few, NEW e \in Epochs, NEW n \in Amounts,
         Leave(e) \/ (\E state : GiveUp(e, state)) \/ NextCall(e, n)
  PROVE  \A d \in Epochs : ExecFew(d)'
<1>1. exec[e].used \in [Keys -> Nat]
  BY DEF CallTypes, Execs
<1>2. CASE Leave(e) \/ (\E state : GiveUp(e, state))
  BY <1>2, FewExec DEF Leave, GiveUp
<1>3. CASE NextCall(e, n)
  <2> DEFINE used == [exec[e].used EXCEPT ![exec[e].call] = n]
  <2>1. \A k \in Keys : used[k] \in {exec[e].used[k], n}
    BY <1>1
  <2>2. \E phase, call : Rest(e, phase, call, used)
    BY <1>3 DEF NextCall
  <2> HIDE DEF used
  <2> QED BY <2>1, <2>2, FewExec
<1> QED BY <1>2, <1>3

LEMMA WorkFew ==
  ASSUME ConstantsOK, CallInv, Few, NEW e \in Epochs,
         \/ LookAtInput(e) \/ FreezeInput(e) \/ BeginCall(e) \/ AskOutcome(e)
         \/ \E r \in Routes : BeginSubmission(e, r)
         \/ RoutesExhausted(e) \/ ScheduleRecovery(e) \/ Send(e) \/ Answer(e)
         \/ SaveResult(e) \/ Checkpoint(e) \/ Interrupt(e)
  PROVE  Few'
<1>0. /\ CallTypes /\ exec \in [Epochs -> Execs] /\ exec[e] \in Execs /\ op \in [Keys -> Ops]
      /\ Most \in Nat /\ 0 \in Amounts /\ Amounts' = Amounts
      /\ ExecFew(e) /\ exec[e].n \in Amounts
  BY AmountsKnown DEF CallInv, CallTypes, Few, ExecFew
<1>1. ASSUME exec[e].phase \in Past \cup {"call"} PROVE exec[e].call \in Keys
  BY <1>1 DEF CallInv, ExecOK
<1>2. CASE LookAtInput(e)
  <2>1. \E phase, input : exec' = [exec EXCEPT ![e].phase = phase, ![e].input = input]
    BY <1>2 DEF LookAtInput
  <2>2. exec'[e].n = exec[e].n /\ exec'[e].used = exec[e].used
    BY <1>0, <2>1 DEF Execs
  <2>3. \A d \in Epochs : ExecFew(d)'
    BY <1>0, <2>1, <2>2 DEF Few, ExecFew
  <2>4. op' = op
    BY <1>2 DEF LookAtInput
  <2> QED BY <1>0, <2>3, <2>4 DEF Few, LedgerFew
<1>3. CASE FreezeInput(e)
  <2>1. \A d \in Epochs : ExecFew(d)'
    BY <1>0, <1>3, FewExec, FewLeave DEF FreezeInput
  <2> QED BY <1>0, <1>3, <2>1 DEF FreezeInput, Few, LedgerFew
<1>4. CASE BeginCall(e)
  <2>1. exec[e].call \in Keys
    BY <1>1, <1>4 DEF BeginCall, At, Past
  <2> DEFINE k == exec[e].call
             row == IF op[k].args = "none" THEN [op[k] EXCEPT !.args = exec[e].input] ELSE op[k]
  <2>2. row \in Ops /\ row.result = op[k].result /\ row.allowed = op[k].allowed
    BY <1>0, <2>1 DEF Ops, Execs
  <2>3. row.result \in Amounts
    BY <2>1, <2>2 DEF Few, LedgerFew
  <2>4. op' = op \/ op' = [op EXCEPT ![k] = row]
    BY <1>4 DEF BeginCall
  <2>5. LedgerFew'
    BY <1>0, <2>2, <2>4 DEF Few, LedgerFew
  <2>6. Leave(e) \/ Go(e, "conflict") \/ NextCall(e, row.result) \/ Go(e, "ask")
    BY <1>4 DEF BeginCall
  <2> HIDE DEF row
  <2>7. \A d \in Epochs : ExecFew(d)'
    BY <1>0, <2>3, <2>6, FewExec, FewLeave
  <2> QED BY <2>5, <2>7 DEF Few
<1>5. CASE AskOutcome(e)
  <2>1. op' = op
    BY <1>5 DEF AskOutcome
  <2>2. CASE NextCall(e, 0) \/ GiveUp(e, "ended")
    BY <1>0, <2>1, <2>2, FewLeave DEF Few, LedgerFew
  <2>3. CASE exec' = [exec EXCEPT ![e].phase = "routes", ![e].left = eligible]
    BY <1>0, <2>1, <2>3 DEF Few, LedgerFew, ExecFew, Execs
  <2> QED BY <1>5, <2>2, <2>3 DEF AskOutcome
<1>6. ASSUME NEW r \in Routes, BeginSubmission(e, r) PROVE Few'
  <2>1. exec[e].call \in Keys
    BY <1>1, <1>6 DEF BeginSubmission, At, Past
  <2>2. PICK k \in Keys : k = exec[e].call
    BY <2>1
  <2>3. CASE op' = op /\ \/ Leave(e) \/ (\E state : GiveUp(e, state)) \/ Go(e, "recover")
    BY <1>0, <2>3, FewLeave, FewExec DEF Few, LedgerFew
  <2>4. CASE op' = op /\ exec' = [exec EXCEPT ![e].left = @ \ {r}]
    BY <1>0, <2>4 DEF Few, LedgerFew, ExecFew, Execs
  <2>5. CASE /\ op[k].submissions < Limit(k)
             /\ op' = [op EXCEPT ![k].submissions = @ + 1, ![k].known = "no"]
             /\ exec' = [exec EXCEPT ![e].phase = "reserved", ![e].left = @ \ {r},
                                      ![e].n = op[k].submissions + 1]
    <3>1. op[k].submissions \in Nat
      BY <1>0 DEF Ops
    <3>2. op[k].submissions + 1 \in Amounts
      BY <1>0, <2>5, <3>1, LimitBound DEF Amounts
    <3>3. LedgerFew'
      BY <1>0, <2>5 DEF Few, LedgerFew, Ops
    <3>4. \A d \in Epochs : ExecFew(d)'
      BY <1>0, <2>5, <3>2 DEF Few, ExecFew, Execs
    <3> QED BY <3>3, <3>4 DEF Few
  <2> QED BY <1>6, <2>2, <2>3, <2>4, <2>5 DEF BeginSubmission
<1>7. CASE RoutesExhausted(e) \/ Interrupt(e)
  BY <1>0, <1>7, FewLeave DEF RoutesExhausted, Interrupt, Few, LedgerFew
<1>8. CASE ScheduleRecovery(e)
  <2>1. PICK k \in Keys : k = exec[e].call
    BY <1>1, <1>8 DEF ScheduleRecovery, At, Past
  <2>2. \A d \in Epochs : ExecFew(d)'
    BY <1>0, <1>8, FewLeave DEF ScheduleRecovery
  <2>3. Base + 1 \in Amounts
    <3>1. Base \in Nat /\ Base <= Most
      BY <1>0, BaseBound
    <3> QED BY <1>0, <3>1 DEF Amounts
  <2>4. LedgerFew'
    BY <1>0, <1>8, <2>1, <2>3 DEF ScheduleRecovery, Few, LedgerFew, Ops
  <2> QED BY <2>2, <2>4 DEF Few
<1>9. CASE Send(e) \/ Checkpoint(e)
  BY <1>0, <1>9, FewExec DEF Send, Checkpoint, Few, LedgerFew
<1>10. CASE Answer(e)
  <2>1. PICK k \in Keys : k = exec[e].call
    BY <1>1, <1>10 DEF Answer, At, Past
  <2>2. \A d \in Epochs : ExecFew(d)'
    BY <1>0, <1>10, FewExec, FewLeave DEF Answer
  <2>3. LedgerFew'
    BY <1>0, <1>10, <2>1 DEF Answer, Observed, Few, LedgerFew, Ops
  <2> QED BY <2>2, <2>3 DEF Few
<1>11. CASE SaveResult(e)
  <2>1. PICK k \in Keys : k = exec[e].call
    BY <1>1, <1>11 DEF SaveResult, At, Past
  <2>2. \A d \in Epochs : ExecFew(d)'
    BY <1>0, <1>11, FewLeave DEF SaveResult
  <2>3. LedgerFew'
    BY <1>0, <1>11, <2>1 DEF SaveResult, Few, LedgerFew, Ops
  <2> QED BY <2>2, <2>3 DEF Few
<1> QED BY <1>2, <1>3, <1>4, <1>5, <1>6, <1>7, <1>8, <1>9, <1>10, <1>11

LEMMA FewNext == ASSUME ConstantsOK, CallInv, Few, [Next]_vars PROVE Few'
<1>0. /\ CallTypes /\ exec \in [Epochs -> Execs] /\ op \in [Keys -> Ops]
      /\ 0 \in Amounts /\ Amounts' = Amounts
  BY AmountsKnown DEF CallInv, CallTypes
<1>1. CASE Claim
  <2>1. run.epoch + 1 \in Epochs
    BY <1>1 DEF Claim, CallInv, CallTypes, Epochs, ConstantsOK
  <2> QED BY <1>0, <1>1, <2>1 DEF Claim, NoExec, Few, LedgerFew, ExecFew
<1>2. CASE (\E k \in Keys : RecoveryDue(k)) \/ (\E r \in Routes : ChangeRoute(r)) \/ UNCHANGED vars
  BY <1>0, <1>2 DEF RecoveryDue, ChangeRoute, vars, Few, LedgerFew, ExecFew, Ops
<1> QED BY <1>1, <1>2, WorkFew DEF Next

LEMMA FewTyped == ASSUME ConstantsOK, CallInv, SpendInv, Few PROVE TypeOK
<1>1. /\ CallTypes /\ Most \in Nat
      /\ \A k \in Keys : sent[k].times <= op[k].submissions /\ op[k].submissions <= Most + 1
  BY AmountsKnown, SpendSafe DEF CallInv, SpendBounded
<1>2. op \in [Keys -> [args : Inputs \cup {"none"}, submissions : 0 .. Most + 1,
                       result : 0 .. Most + 1, known : {"no", "current", "late"},
                       recovery : {"no", "waiting", "due"}, allowed : 0 .. Most + 1]]
  <2>1. ASSUME NEW k \in Keys PROVE op[k].submissions \in 0 .. Most + 1
    BY <1>1 DEF CallTypes, Ops
  <2> QED BY <1>1, <2>1 DEF CallTypes, Ops, Few, LedgerFew, Amounts
<1>3. sent \in [Keys -> [times : 0 .. Most + 1, inputs : SUBSET Inputs]]
  <2>1. ASSUME NEW k \in Keys PROVE sent[k].times \in 0 .. Most + 1
    BY <1>1 DEF CallTypes, Ops
  <2> QED BY <1>1, <2>1 DEF CallTypes
<1>4. exec \in [Epochs -> [phase : Phases, call : 0 .. Calls, input : Inputs \cup {"none"},
                           left : SUBSET Routes, n : 0 .. Most + 1,
                           used : [Keys -> 0 .. Most + 1]]]
  <2>1. ASSUME NEW e \in Epochs PROVE exec[e].used \in [Keys -> 0 .. Most + 1]
    BY <1>1 DEF CallTypes, Execs, Few, ExecFew, Amounts
  <2> QED BY <1>1, <2>1 DEF CallTypes, Execs, Few, ExecFew, Amounts
<1>5. Keys \subseteq 0 .. Calls
  BY DEF Keys, ConstantsOK
<1> QED BY <1>1, <1>2, <1>3, <1>4, <1>5 DEF TypeOK, CallTypes, Phases

\* Types with the bounds of what is counted: whatever is recorded of the sends of a
\* call, its result included, is the number of a send that the call may have made,
\* also when routes come and go between the count and the limit
\* (store/artifacts.go:448-563).
THEOREM CallsTypeCorrect == ASSUME ConstantsOK PROVE Spec => []TypeOK
<1>1. Init => CallInv /\ SpendInv /\ Few
  BY CallInit, SpendInit, FewInit
<1>2. CallInv /\ SpendInv /\ Few /\ [Next]_vars => CallInv' /\ SpendInv' /\ Few'
  BY CallNext, SpendNext, FewNext
<1>3. CallInv /\ SpendInv /\ Few => TypeOK
  BY FewTyped
<1> QED BY <1>1, <1>2, <1>3, PTL DEF Spec
=============================================================================

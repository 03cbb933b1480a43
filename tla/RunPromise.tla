----------------------------- MODULE RunPromise -----------------------------
(***************************************************************************)
(* What the control plane promises about a run, with no broker, lease,     *)
(* retry or worker in sight: one execution at a time is entitled to the    *)
(* run, only that execution saves work or commits the result, a run that   *)
(* is being stopped can only end as canceled, and an end is final.         *)
(***************************************************************************)
EXTENDS Naturals

CONSTANT Runs

VARIABLES
  phase,        \* where run r stands
  executions,   \* how many executions of r have been started
  saved,        \* the execution that last saved work (0: none)
  result        \* the execution that committed the result (0: none)

vars == <<phase, executions, saved, result>>

Ends == {"succeeded", "failed", "canceled"}

Init ==
  /\ phase = [r \in Runs |-> "absent"]
  /\ executions = [r \in Runs |-> 0]
  /\ saved = [r \in Runs |-> 0]
  /\ result = [r \in Runs |-> 0]

\* How far run r may move in one step without starting an execution.
Moves ==
  {<<"absent", "open">>,
   <<"executing", "open">>,         \* the execution gives the run up
   <<"open", "stopping">>, <<"executing", "stopping">>,
   <<"open", "failed">>, <<"executing", "failed">>,
   <<"stopping", "canceled">>}

Move(r) ==
  /\ <<phase[r], phase'[r]>> \in Moves
  /\ executions'[r] = executions[r] /\ saved'[r] = saved[r] /\ result'[r] = result[r]

\* A new execution takes the run, from the queue or from a lost execution.
Start(r) ==
  /\ phase[r] \in {"open", "executing"} /\ phase'[r] = "executing"
  /\ executions'[r] = executions[r] + 1
  /\ saved'[r] = saved[r] /\ result'[r] = result[r]

\* The current execution saves work.
Save(r) ==
  /\ phase[r] = "executing" /\ phase'[r] = "executing"
  /\ saved'[r] = executions[r]
  /\ executions'[r] = executions[r] /\ result'[r] = result[r]

\* The current execution commits the result.
Succeed(r) ==
  /\ phase[r] = "executing" /\ phase'[r] = "succeeded"
  /\ result'[r] = executions[r]
  /\ executions'[r] = executions[r] /\ saved'[r] = saved[r]

Rest(r) ==
  /\ phase'[r] = phase[r] /\ executions'[r] = executions[r]
  /\ saved'[r] = saved[r] /\ result'[r] = result[r]

\* One control transaction may move several runs, each by a step of its own.
Next ==
  \A r \in Runs : Rest(r) \/ Move(r) \/ Start(r) \/ Save(r) \/ Succeed(r)

Spec == Init /\ [][Next]_vars
=============================================================================

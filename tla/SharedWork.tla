----------------------------- MODULE SharedWork -----------------------------
(***************************************************************************)
(* Work that several askers share.  It starts for somebody, may be joined  *)
(* while it goes on, and when it ends it ends for all who still ask for it.*)
(* An asker may give the work up at once or first only announce that it    *)
(* will: the work is stopped exactly when somebody lets go of it and       *)
(* nobody needs it any longer.                                             *)
(***************************************************************************)
CONSTANTS Works, Askers

VARIABLES
  state,    \* state of work w
  demand,   \* who needs work w
  leaving   \* who no longer needs w, but has not let go of it

vars == <<state, demand, leaving>>

Init ==
  /\ state = [w \in Works |-> "none"]
  /\ demand = [w \in Works |-> {}]
  /\ leaving = [w \in Works |-> {}]

Goes(w) == state[w] = "working" /\ state'[w] = "working"

Rest(w) == state'[w] = state[w] /\ demand'[w] = demand[w] /\ leaving'[w] = leaving[w]

Start(w) ==
  /\ state[w] = "none" /\ state'[w] = "working"
  /\ demand'[w] # {} /\ demand'[w] \subseteq Askers /\ leaving'[w] = {}

Join(w) ==
  /\ Goes(w) /\ leaving'[w] = leaving[w]
  /\ demand[w] \subseteq demand'[w] /\ demand'[w] \subseteq Askers

\* One asker announces that it leaves.
Withdraw(w) ==
  /\ Goes(w)
  /\ \E a \in demand[w] :
       demand'[w] = demand[w] \ {a} /\ leaving'[w] = leaving[w] \cup {a}

\* One asker lets go, and somebody else needs the work.
Leave(w) ==
  /\ Goes(w) /\ demand'[w] # {}
  /\ \/ \E a \in demand[w] : demand'[w] = demand[w] \ {a} /\ leaving'[w] = leaving[w]
     \/ \E a \in leaving[w] : leaving'[w] = leaving[w] \ {a} /\ demand'[w] = demand[w]

\* One asker lets go, and nobody else needs the work.
Abandon(w) ==
  /\ state[w] = "working" /\ state'[w] = "stopping"
  /\ \/ \E a \in Askers : demand[w] = {a}
     \/ demand[w] = {} /\ leaving[w] # {}
  /\ demand'[w] = {} /\ leaving'[w] = {}

End(w) ==
  /\ state[w] = "working" /\ state'[w] = "over"
  /\ demand'[w] = {} /\ leaving'[w] = {}

Stopped(w) ==
  /\ state[w] = "stopping" /\ state'[w] = "over"
  /\ demand[w] = {} /\ demand'[w] = {} /\ leaving'[w] = {}

\* One transaction may end one work and start or join others.
Next ==
  \A w \in Works :
    \/ Rest(w) \/ Start(w) \/ Join(w) \/ Withdraw(w) \/ Leave(w)
    \/ Abandon(w) \/ End(w) \/ Stopped(w)

Spec == Init /\ [][Next]_vars
=============================================================================

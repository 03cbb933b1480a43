---------------------------- MODULE MCAdmission ----------------------------
(* Small instances of what orders and bounds the work of visitors: two     *)
(* tabs and two questions, three submissions, two turns; two preparations  *)
(* for one place, two slots of one process; two sessions of one address.   *)
EXTENDS Admission, TLC

\* The tabs stand for the slots and the sessions of the other cases, too, the
\* questions for its preparations: one small group of symmetries is enough.
CONSTANTS a, b, p, q, home

Preparations == [r \in Runs |-> "prepare"]
OneProcess == [w \in TaskSlots |-> home]

\* Each dimension has a rate of its own.
OneAddress == [s \in Sessions |-> home]
Bursts == "session" :> 1 @@ "ip" :> 2 @@ "all" :> 3
Rates == "session" :> 3 @@ "ip" :> 2 @@ "all" :> 1

Alike == Permutations(Tabs) \cup Permutations(Questions)
=============================================================================

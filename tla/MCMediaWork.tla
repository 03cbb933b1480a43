---------------------------- MODULE MCMediaWork ----------------------------
(* Small instances of what works on files and slots: a frame and the video *)
(* of the first of two runs; two exports, first with room for both, then   *)
(* for one place and one unit of disk; three windows for two workers, and  *)
(* an execution after a crash; three calls for at most two slots.          *)
EXTENDS MediaWork, TLC

CONSTANTS e1, e2, a1, v1, r1, r2, h1, h2, h3

\* Two visitors, one of whom asks for two formats.
Formats == {<<"s1", "q1", "md">>, <<"s1", "q1", "zip">>, <<"s2", "q2", "md">>}

FirstMakes == [a \in Assets |-> r1]
FirstIsFrame == a1 :> TRUE @@ v1 :> FALSE

Alike == Permutations({e1, e2}) \cup Permutations({h1, h2, h3})
=============================================================================

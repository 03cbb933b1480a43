-------------------------- MODULE MCRequestSharing --------------------------
(* Small instances of RequestSharing.                                      *)
EXTENDS RequestSharing, TLC

CONSTANTS v1, v2, s1, s2

OneVideo == s1 :> v1
TwoVideos == s1 :> v1 @@ s2 :> v2

AnyRequest == Permutations(Requests)

\* Runs are numbered in the order they are created: their identities are
\* random, so that any other order is the same instance.
InOrder == \A r \in Runs : NoJob(r) => \A later \in Runs : later > r => NoJob(later)

\* A bound: the runs that exist and the questions that wait for one, or did.
Together ==
  Cardinality({r \in Runs : ~NoJob(r)}) + Cardinality({r \in Runs : awaited[r]})
    + Cardinality({r \in Runs : leaving[r]}) <= 5
Bounded == InOrder /\ Together
=============================================================================

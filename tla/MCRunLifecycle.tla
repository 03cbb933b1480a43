--------------------------- MODULE MCRunLifecycle ---------------------------
(* Small instances of RunLifecycle: an article run, and a question with    *)
(* the restore it waits for.                                               *)
EXTENDS RunLifecycle, TLC

CONSTANTS r1, r2, w1, w2, p1

OneArticle == r1 :> "article"

\* Two slots of one process share lease_owner, so that only the epoch tells
\* their claims apart.
SameProcess == w1 :> p1 @@ w2 :> p1
OneSlot == w1 :> p1

RestoredQuestion == r1 :> "answer" @@ r2 :> "restore"

\* Bound of the question: its restore is delivered and claimed once.
RestoreOnce == generation[r2] <= 1 /\ epoch[r2] <= 1

AnySlot == Permutations({w1, w2})
=============================================================================

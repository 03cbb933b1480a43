---------------------------- MODULE MCModelWork ----------------------------
(* Small instances of what spends calls to models: two parts of a          *)
(* transcript, of which one or both may fit an input, and two calls of the *)
(* loop; two calls of two sends each under a ceiling of three, one         *)
(* supplier, two executions; one call over two suppliers, three            *)
(* executions; the check of a model with up to three calls; two reviews,   *)
(* or the questions of two articles.                                       *)
EXTENDS ModelWork

CONSTANTS t1, t2, r1, r2, x, y

OneModel == [t \in Checks |-> "model"]
OwnArticle == [t \in Jobs |-> t]
=============================================================================

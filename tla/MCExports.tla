----------------------------- MODULE MCExports -----------------------------
(* An instance of Exports with one export. *)
EXTENDS Exports, TLC

CONSTANTS e1, d1   \* model values

OneAsk == {<<"s1", "q1", "zip">>}
=============================================================================

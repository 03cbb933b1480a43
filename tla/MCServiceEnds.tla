--------------------------- MODULE MCServiceEnds ---------------------------
(* Small instances of what must end: two requests for one video; one       *)
(* export with a retry and two connections for one place, with crashes of  *)
(* both sides; the check of a model; a frame and a video of one of two     *)
(* runs, with a removal that fails or is interrupted; three windows for    *)
(* two workers.                                                            *)
EXTENDS ServiceEnds, TLC

CONSTANTS v1, s1, p1, a1, v2, r1

OneVideo == s1 :> v1
OneAsk == {<<"s1", "q1", "zip">>}
OneModel == p1 :> "model"
FirstMakes == a1 :> r1 @@ v2 :> r1
FirstIsFrame == a1 :> TRUE @@ v2 :> FALSE
=============================================================================

------------------------- MODULE MCInferredDispatch -------------------------
(* Three requests for two contents, of which one needs no inference; the     *)
(* ceiling holds two reservations, or one dear call.                         *)
EXTENDS InferredDispatch

CONSTANTS q1, q2, q3, a, b, nothing, wholeFile

MCRequests == {q1, q2, q3}
OneSummary == {q1}
MCContents == {a, b}
OneWithSites == {a}
MCUnchecked == {nothing, wholeFile}
MCUsage == {1, 3}
=============================================================================

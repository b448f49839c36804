--------------------------- MODULE MCFindingSweep ---------------------------
(* A source file with findings of two families, and a .env file with a       *)
(* secret.                                                                   *)
EXTENDS FindingSweep

CONSTANTS p, e

OneSource  == {p}
OneSidecar == {e}
ThreeKeys  == {<<p, "syntax">>, <<p, "other">>, <<e, "secret">>}
=============================================================================

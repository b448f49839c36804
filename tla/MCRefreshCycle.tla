--------------------------- MODULE MCRefreshCycle ---------------------------
(* Two analyze processes and two hooks around one file.                     *)
EXTENDS RefreshCycle

CONSTANTS p1, p2, h1, h2

MCProcs == {p1, p2}
MCHooks == {h1, h2}
=============================================================================

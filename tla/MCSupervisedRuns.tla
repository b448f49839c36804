-------------------------- MODULE MCSupervisedRuns --------------------------
(* Two starts, and ids for a follow-up of each: the first child to be at its  *)
(* limit finds a refresh queued and an id left for it.  Two calls overlap;    *)
(* two faults: a server may be restarted and a child or a write be lost.      *)
EXTENDS SupervisedRuns, TLC

CONSTANTS r1, r2, f1, f2

MCAsked == {r1, r2}
MCRuns  == MCAsked \cup {f1, f2}
==============================================================================

--------------------------- MODULE MCWriterActor ---------------------------
(* Two runs, one child with two candidate parents: the smallest graph in    *)
(* which a row and an edge can name different parents.                       *)
EXTENDS WriterActor, TLC

CONSTANTS r1, r2, c1, p1, p2

Config(clustering, emission) == [clustering |-> clustering, emission |-> emission]

NoEmission         == {Config(TRUE, FALSE), Config(FALSE, FALSE)}
EmissionClustering == {Config(TRUE, TRUE)}
SoundConfigs       == NoEmission \cup EmissionClustering
EmissionOnly       == {Config(FALSE, TRUE)}

MCChildren == {c1}
MCParents  == {p1, p2}
MCRuns     == {r1, r2}
Symmetry   == Permutations(MCParents) \cup Permutations(MCRuns)
=============================================================================

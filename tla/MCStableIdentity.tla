-------------------------- MODULE MCStableIdentity --------------------------
EXTENDS StableIdentity, TLC

CONSTANTS x, y, r1, r2

ThreeLocators == {1, 2, 3}
TwoBodies     == {x, y}
OneSigned     == {x}
TwoRuns       == {r1, r2}

(* The first run found one entity, or two that cannot be told apart. *)
FirstTrees == {<<x, None, None>>, <<x, x, None>>}

RunSymmetry == Permutations(Runs)
=============================================================================

-------------------------- MODULE MCIncrementalIndex --------------------------
(* Two files: t breaks the resolver on one of its contents, f never does.    *)
EXTENDS IncrementalIndex, Sequences

CONSTANTS t, f, a, b

MCContents == {a, b}
TwoFiles   == {t, f}
OneTrouble == {<<t, a>>}

(* The harmless file comes last in the walk, where it is poisoned. *)
Walk   == <<t, f>>
Places == [x \in Files |-> CHOOSE i \in DOMAIN Walk : Walk[i] = x]
=============================================================================

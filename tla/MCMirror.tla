------------------------------ MODULE MCMirror ------------------------------
(* Mirror on small trees. *)
EXTENDS Mirror
CONSTANTS root, a, b, c, d, e

\* Three notes at the root; two folders with one or two note names each.
Flat == {root}
TwoFiles == {a, b}
ThreeFiles == {a, b, c}
Folders == {d, e}
Tree3 == {root, d, e}
OneName == {a}

Everything == Locs

Numbered == CHOOSE f \in [Files -> 1..Cardinality(Files)] :
              \A p, q \in Files : f[p] = f[q] => p = q
=============================================================================

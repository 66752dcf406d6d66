------------------------------- MODULE MCPush -------------------------------
(* Push on small trees. *)
EXTENDS Push, TLC
CONSTANTS root, a, b, d, e

\* Two files at the root; two folders with one file name each.
TwoFiles == {a, b}
Flat == {root}
Folders == {d, e}
Tree3 == {root, d, e}
OneName == {a}

KeepAll == Locs
KeepNotB == Locs \ {<<root, b>>}
KeepNotEA == Locs \ {<<e, a>>}

Numbered == CHOOSE f \in [Files -> 1..Cardinality(Files)] :
              \A p, q \in Files : f[p] = f[q] => p = q
=============================================================================

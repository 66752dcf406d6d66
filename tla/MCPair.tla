------------------------------- MODULE MCPair -------------------------------
(* Pair with two clients of the control socket. *)
EXTENDS Pair, TLC
CONSTANTS c1, c2

One == {c1}
Two == {c1, c2}
AnyClient == Permutations(Two)
=============================================================================

---------------------------- MODULE MCRunChannel -----------------------------
(* One browser tab with two connections, an old one and a new one. *)
EXTENDS RunChannel, TLC

CONSTANTS a, a1, a2

OneTab == {a1, a2}
Owner == [s \in Socket |-> a]
Symmetry == Permutations({a1, a2})
=============================================================================

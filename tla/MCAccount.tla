----------------------------- MODULE MCAccount -----------------------------
(* Instances of Account for TLC. *)
EXTENDS AccountProperties, TLC

Symmetry == Permutations(Requests)
=============================================================================

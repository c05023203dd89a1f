----------------------------- MODULE MCIdentity -----------------------------
(* Instances of Identity for TLC. *)
EXTENDS IdentityProperties, TLC

Symmetry == Permutations(Requests) \cup Permutations(Handles)
=============================================================================

--------------------------- MODULE MCKeyRotation ---------------------------
(* KeyRotation on a few replicas. *)
EXTENDS KeyRotation, TLC

Symmetry == Permutations(Replica)
=============================================================================

-------------------------- MODULE MCReconciliation --------------------------
(* Reconciliation on a few replicas and tenants. *)
EXTENDS Reconciliation, TLC

Symmetry == Permutations(Replica) \cup Permutations(Tenant)
=============================================================================

-------------------------- MODULE MCTenantRegistry --------------------------
(* TenantRegistry with a few goroutines, tenants and stacks. *)
EXTENDS TenantRegistry, TLC

Symmetry == Permutations(Admin) \cup Permutations(Req) \cup Permutations(Tenant)
=============================================================================

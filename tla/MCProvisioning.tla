--------------------------- MODULE MCProvisioning ---------------------------
(* One tenant under every cache's lag and two events (MCProvisioning.cfg), *)
(* and two tenants that may ask for the same name (MCNameClash.cfg).       *)
EXTENDS Provisioning, TLC

TenantSymmetry == Permutations(Tenant)
=============================================================================

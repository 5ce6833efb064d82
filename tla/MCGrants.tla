------------------------------ MODULE MCGrants ------------------------------
(* One project and one membership, tenant-wide or scoped to another name.  *)
EXTENDS Grants
=============================================================================

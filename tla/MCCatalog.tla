----------------------------- MODULE MCCatalog -----------------------------
(***************************************************************************)
(* The catalog on two workspaces.                                          *)
(***************************************************************************)
EXTENDS Catalog, TLC

CONSTANTS c1, c2, n1, n2

MCCluster == {c1, c2}
MCNamespace == {n1, n2}
MCPathOf == c1 :> "x1" @@ c2 :> "x2"
=============================================================================

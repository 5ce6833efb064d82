--------------------------- MODULE MCInstallation ---------------------------
(***************************************************************************)
(* Two pods of two releases; the newer release names a server identity.    *)
(***************************************************************************)
EXTENDS Installation

CONSTANTS i1, i2, v1, v2

MCReleaseOf == (i1 :> v1) @@ (i2 :> v2)

=============================================================================

-------------------------- MODULE MCMembershipAPI --------------------------
(* Two tenants, the first of which can get a second workspace, and two     *)
(* callers, one of them in a group.                                        *)
EXTENDS MembershipAPI, TLC

CONSTANTS t1, t2, w1, w1b, w2, alice, bob, team

MCOwner == (w1 :> t1) @@ (w1b :> t1) @@ (w2 :> t2)

MCIdentity == (alice :> {alice}) @@ (bob :> {bob, team})

MCFirstAdmin == (t1 :> alice) @@ (t2 :> bob)

(* The two workspaces of the first tenant are alike. *)
WorkspaceSymmetry == Permutations({w1, w1b})
=============================================================================

----------------------------- MODULE MCClients -----------------------------
(***************************************************************************)
(* The command line: what it remembers (Session), and what it and the      *)
(* request APIs ask for (SelfService).  A login in the browser shares      *)
(* nothing with other commands before it has its token, the commands of an *)
(* administrator use a kubeconfig, and the requests of others race with    *)
(* one of these at a time, so four parts are explored apart.               *)
(*                                                                         *)
(* Session: two terminals, two issuers and two servers; two projects of    *)
(* one user have names that a dash joins to the same one.  SelfService:    *)
(* one tenant, made or not; a seed of an admin and of a viewer of a        *)
(* project, and another that changes both roles.                           *)
(***************************************************************************)
EXTENDS Session, SelfService, TLC

CONSTANTS s1, s2, i1, i2, alice, bob, acme, shop
VARIABLE focus

P1 == [tenant |-> <<"a">>, project |-> <<"b", "c">>]
P2 == [tenant |-> <<"a", "b">>, project |-> <<"c">>]

MCReach == s1 :> (i1 :> {P1} @@ i2 :> {P1, P2}) @@ s2 :> (i1 :> {P1} @@ i2 :> {})

MCSeeds == {[admins |-> <<alice>>, views |-> <<bob>>, project |-> shop],
            [admins |-> <<bob>>, views |-> <<alice>>, project |-> TenantWide]}
MCRemembered == {[tenant |-> acme, project |-> shop]}

NothingStored == file["tokens"] = Empty("tokens") /\ file["context"] = Empty("context")

MCInit ==
  /\ focus \in {"login", "commands", "admin", "self-service"}
  /\ SessionInit /\ (focus # "commands" => NothingStored)
  /\ TenancyInit /\ (focus \in {"login", "commands"} => made = 0)

MCNext ==
  /\ UNCHANGED focus
  /\ \/ /\ \E p \in Terminal :
             \/ focus = "login" /\ (LoginNext(p) \/ Step(p))
             \/ focus = "commands" /\ CommandNext(p)
        /\ UNCHANGED tenancyVars
     \/ focus = "commands" /\ (\E t \in Token : Age(t)) /\ UNCHANGED tenancyVars
     \/ /\ \E p \in Command :
             /\ focus = "self-service" => \A q \in Command \ {p} : job[q] = Resting
             /\ focus \in {"admin", "self-service"} /\ (Commands(p) \/ Requests(p))
        /\ UNCHANGED sessionVars
     \/ focus \in {"admin", "self-service"} /\ Operator /\ UNCHANGED sessionVars
     \/ focus = "self-service" /\ (MirrorTenancy \/ \E u \in Caller : SelfRequests(u)) /\ UNCHANGED sessionVars

MCSpec == MCInit /\ [][MCNext]_<<sessionVars, tenancyVars, focus>>

TerminalSymmetry == Permutations(Terminal) \cup Permutations(Command)
=============================================================================

--------------------------- MODULE MCMarketplace ----------------------------
(***************************************************************************)
(* One record and one export, in the workspace an external producer brings *)
(* or in the one the operator makes; and, apart from that, the controller  *)
(* of a producer with a database of a consumer.                            *)
(***************************************************************************)
EXTENDS Marketplace, DatabaseController, TLC

CONSTANTS p1, c1, c2, x1, x2
VARIABLE focus

MCPathOf == (c1 :> x1) @@ (c2 :> x2)
MCHome == p1 :> c2
MCExport == {[cluster |-> c1, name |-> "db"], [cluster |-> c2, name |-> "db"]}
MCEndpointOf == "postgres" :> "5432" @@ "mysql" :> "3306"

MCInit == Init /\ DatabaseInit /\ focus \in {"marketplace", "databases"}

MCNext ==
    /\ UNCHANGED focus
    /\ \/ focus = "marketplace" /\ Next /\ UNCHANGED databaseVars
       \/ focus = "databases" /\ DatabaseNext /\ UNCHANGED vars

MCSpec == MCInit /\ [][MCNext]_<<vars, databaseVars, focus>> /\ Fairness /\ DatabaseFairness
=============================================================================

---------------------------- MODULE MCTranslator ----------------------------
(***************************************************************************)
(* The translator on two clusters: two bindings that can overlap in c1 and *)
(* one in c2, so that forgetting a cluster has a neighbour to spare.       *)
(*                                                                         *)
(* It is driven by any calls at all, as the providers of several shards    *)
(* may make them, or by the provider of a single shard, whose two          *)
(* informers share c1; the binding of c2 is not annotated.                 *)
(***************************************************************************)
EXTENDS ShardProvider

CONSTANTS c1, c2, e1, e2, alice

MCBindingKey == {[cluster |-> c1, name |-> "b1"], [cluster |-> c1, name |-> "b2"],
                 [cluster |-> c2, name |-> "b1"]}

MCBinding == {[annotation |-> c1, namespaced |-> FALSE, name |-> "b2"],
              [annotation |-> c1, namespaced |-> TRUE, name |-> "b1"],
              [annotation |-> Unannotated, namespaced |-> FALSE, name |-> "b1"]}

MCInitialBinding == {[exists |-> TRUE, subjects |-> {alice}]}

MCEndpointFor == [c \in LogicalCluster |-> IF c = c1 THEN e1 ELSE e2]

MCNext ==
    \/ mode = "multi-shard" /\ Next /\ UNCHANGED shardVars
    \/ mode = "single-shard" /\ ShardNext
    \/ mode = "single-shard" /\ Translate

MCSpec == ShardInit /\ [][MCNext]_allVars /\ ShardFairness
=============================================================================

-------------------------- MODULE MCAccessProvider --------------------------
(* One cluster with a ClusterRoleBinding and a RoleBinding, that can leave *)
(* and rejoin; subjects are a user, and a service account written without  *)
(* a namespace, which only the RoleBinding can resolve.                    *)
EXTENDS AccessProvider

CONSTANTS c1, e1

MCBindingKey == {[cluster |-> c1, namespace |-> "", name |-> "crb"],
                 [cluster |-> c1, namespace |-> "ns", name |-> "rb"]}

MCRBACSubject == {[kind |-> "User", name |-> "alice", namespace |-> ""],
                  [kind |-> "ServiceAccount", name |-> "builder", namespace |-> ""]}

MCInitialObject == {[exists |-> TRUE, subjects |-> MCRBACSubject]}

MCSubject == {GraphSubject("User", "alice"),
              ServiceAccountUser("ns", "builder"), ServiceAccountUser("", "builder")}

MCEndpointFor == [c \in {c1} |-> e1]
=============================================================================

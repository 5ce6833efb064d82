---------------------------- MODULE AccessGraph ----------------------------
(***************************************************************************)
(* The in-memory permission map of the access virtual workspace            *)
(* (access/pkg/graph).  Every operation below runs under the graph's own   *)
(* RWMutex, so each is one atomic step; a reader (ClustersFor) may run     *)
(* between any two of them.                                                *)
(*                                                                         *)
(* access[s] = {} stands for a subject that has no entry in the code's     *)
(* map: the code deletes an entry as soon as its set is empty.             *)
(***************************************************************************)
CONSTANTS
    Subject,         \* users and groups a binding can name
    LogicalCluster,  \* kcp logical clusters
    Endpoint,        \* front-proxy URLs
    NoEndpoint       \* a cluster with no entry in the endpoints map

ASSUME NoEndpointAssumption == NoEndpoint \notin Endpoint

VARIABLES
    access,     \* access[s]: the clusters subject s can see
    endpoints   \* endpoints[c]: the URL served for c, or NoEndpoint

graphVars == <<access, endpoints>>

GraphTypeOK ==
    /\ access \in [Subject -> SUBSET LogicalCluster]
    /\ endpoints \in [LogicalCluster -> Endpoint \cup {NoEndpoint}]

GraphInit ==
    /\ access = [s \in Subject |-> {}]
    /\ endpoints = [c \in LogicalCluster |-> NoEndpoint]

(* anyAccessLocked, over a given access map. *)
AnyAccess(acc, c) == \E s \in Subject : c \in acc[s]

Grant(s, c, e) ==
    /\ access' = [access EXCEPT ![s] = @ \cup {c}]
    /\ endpoints' = [endpoints EXCEPT ![c] = e]

(* Moves a URL; a cluster nobody can see stays unknown. *)
SetEndpoint(c, e) ==
    /\ endpoints' = [endpoints EXCEPT
                        ![c] = IF @ = NoEndpoint THEN NoEndpoint ELSE e]
    /\ access' = access

(* Returns early for a subject without an entry; otherwise drops the edge, *)
(* and the endpoint with the last edge into the cluster.                   *)
Revoke(s, c) ==
    IF access[s] = {}
    THEN UNCHANGED graphVars
    ELSE /\ access' = [access EXCEPT ![s] = @ \ {c}]
         /\ endpoints' = IF AnyAccess(access', c)
                         THEN endpoints
                         ELSE [endpoints EXCEPT ![c] = NoEndpoint]

Forget(c) ==
    /\ access' = [s \in Subject |-> access[s] \ {c}]
    /\ endpoints' = [endpoints EXCEPT ![c] = NoEndpoint]

(* The answer of a self review: the identity is its user subject together  *)
(* with its group subjects, and each visible cluster comes with its URL.   *)
ClustersFor(identity) ==
    {[cluster |-> c, endpoint |-> endpoints[c]] :
        c \in UNION {access[s] : s \in identity}}
=============================================================================

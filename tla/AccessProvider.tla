--------------------------- MODULE AccessProvider ---------------------------
(***************************************************************************)
(* The multi-shard RBAC access provider (access/pkg/rbacprovider:          *)
(* multicluster.go, provider.go) driving the translator: logical clusters  *)
(* join and leave the fleet, each joined cluster has an informer cache     *)
(* that follows its bindings, and one worker per controller (bindings of   *)
(* cluster scope, bindings of namespace scope) reads a binding from the    *)
(* cache and hands it to the translator.  The read and the translator call *)
(* are separate steps: everything else can happen in between.              *)
(*                                                                         *)
(* The API servers, discovery and the informer machinery are not part of   *)
(* the repository; they are modelled from what the code relies on.         *)
(***************************************************************************)
EXTENDS Translator, Naturals

CONSTANTS
    RBACSubject,   \* subjects as written in a binding
    InitialObject, \* what a binding may be when the provider starts
    EndpointFor,   \* EndpointFor[c]: EndpointBaseURL plus the cluster name
    MaxChanges     \* bound on how often bindings or the fleet change

Controller == {"clusterrolebinding", "rolebinding"}

(* A key's namespace says which controller reconciles it; the namespace is *)
(* also the default one of service accounts named in it.                   *)
ControllerOf(k) == IF k.namespace = "" THEN "clusterrolebinding" ELSE "rolebinding"

None == [exists |-> FALSE, subjects |-> {}]

VARIABLES
    source,      \* source[k]: the binding as its API server has it
    fleet,       \* the clusters that accept the APIExport
    engaged,     \* Provider.engaged: the clusters discovery has announced
    cached,      \* cached[k]: the binding as its cluster's informer has it
    queue,       \* the controllers' work queues
    worker,      \* worker[ctl]: the reconcile in progress, with what it read
    forgetting,  \* clusters whose OnDelete waits for the translator
    ready,       \* Graph.ready
    changes,     \* how often the environment has changed (bound)
    raced        \* history: clusters that left while a reconcile of one of
                 \* their bindings was in progress

envVars == <<source, fleet, changes>>
providerVars == <<engaged, cached, queue, worker, forgetting, ready, raced>>
allVars == <<vars, envVars, providerVars>>

Object == [exists : BOOLEAN, subjects : SUBSET RBACSubject]

Work == [busy : BOOLEAN, key : BindingKey, obj : Object]

ProviderTypeOK ==
    /\ TypeOK
    /\ source \in [BindingKey -> Object]
    /\ cached \in [BindingKey -> Object]
    /\ fleet \subseteq LogicalCluster /\ engaged \subseteq LogicalCluster
    /\ forgetting \subseteq LogicalCluster /\ raced \subseteq LogicalCluster
    /\ queue \subseteq BindingKey
    /\ worker \in [Controller -> Work]
    /\ ready \in BOOLEAN
    /\ changes \in 0..MaxChanges

-----------------------------------------------------------------------------
(* graph.User and graph.Group. *)
GraphSubject(kind, name) ==
    [kind |-> kind, serviceAccount |-> FALSE, namespace |-> "", name |-> name]

(* The user "system:serviceaccount:<namespace>:<name>"; with an empty      *)
(* namespace it is a name nobody can authenticate as.                      *)
ServiceAccountUser(namespace, name) ==
    [kind |-> "User", serviceAccount |-> TRUE, namespace |-> namespace, name |-> name]

(* translateSubject: the set of graph subjects one RBAC subject stands     *)
(* for, empty when it is skipped.                                          *)
TranslateSubject(rs, defaultNamespace) ==
    LET namespace == IF rs.namespace = "" THEN defaultNamespace ELSE rs.namespace
    IN  CASE rs.kind \in {"User", "Group"} -> {GraphSubject(rs.kind, rs.name)}
          [] rs.kind = "ServiceAccount" /\ namespace # "" ->
                {ServiceAccountUser(namespace, rs.name)}
          [] OTHER -> {}

TranslateSubjects(rss, defaultNamespace) ==
    UNION {TranslateSubject(rs, defaultNamespace) : rs \in rss}

(* The subjects a binding object contributes under its key. *)
SubjectsOf(k, obj) == TranslateSubjects(obj.subjects, k.namespace)

ASSUME SubjectAssumption ==
    \A k \in BindingKey, rs \in RBACSubject : TranslateSubject(rs, k.namespace) \subseteq Subject
ASSUME EndpointForAssumption == EndpointFor \in [LogicalCluster -> Endpoint]
ASSUME ObjectAssumption == InitialObject \subseteq Object /\ MaxChanges \in Nat

ProviderInit ==
    /\ Init
    /\ source \in [BindingKey -> InitialObject]
    /\ fleet = LogicalCluster
    /\ engaged = {}
    /\ cached = [k \in BindingKey |-> None]
    /\ queue = {}
    /\ worker = [ctl \in Controller |->
                    [busy |-> FALSE, key |-> CHOOSE k \in BindingKey : TRUE, obj |-> None]]
    /\ forgetting = {}
    /\ ready = FALSE
    /\ changes = 0
    /\ raced = {}

-----------------------------------------------------------------------------
(* Environment: a binding is written or deleted, a workspace starts or     *)
(* stops accepting the export.                                             *)
WriteBinding(k, obj) ==
    /\ changes < MaxChanges
    /\ obj # source[k]
    /\ source' = [source EXCEPT ![k] = obj]
    /\ changes' = changes + 1
    /\ UNCHANGED <<vars, fleet, providerVars>>

ChangeFleet(c) ==
    /\ changes < MaxChanges
    /\ fleet' = IF c \in fleet THEN fleet \ {c} ELSE fleet \cup {c}
    /\ changes' = changes + 1
    /\ UNCHANGED <<vars, source, providerVars>>

(* clusterLifecycle.OnAdd; the cluster's informers start from nothing. *)
OnAdd(c) ==
    /\ c \in fleet \ engaged
    /\ c \notin forgetting
    /\ engaged' = engaged \cup {c}
    /\ cached' = [k \in BindingKey |-> IF k.cluster = c THEN None ELSE cached[k]]
    /\ UNCHANGED <<vars, envVars, queue, worker, forgetting, ready, raced>>

(* An informer delivers the current state of one binding, which puts its   *)
(* key on the queue of its controller.                                     *)
Deliver(k) ==
    /\ k.cluster \in engaged
    /\ cached[k] # source[k]
    /\ cached' = [cached EXCEPT ![k] = source[k]]
    /\ queue' = queue \cup {k}
    /\ UNCHANGED <<vars, envVars, engaged, worker, forgetting, ready, raced>>

(* A mutant of OnDelete: the cluster's bindings are not forgotten.         *)
MutOnDeleteForgetsNothing(c) ==
    /\ c \in engaged \ fleet
    /\ engaged' = engaged \ {c}
    /\ UNCHANGED <<vars, envVars, cached, queue, worker, forgetting, ready, raced>>

(* clusterLifecycle.OnDelete up to ForgetCluster: the cluster leaves       *)
(* `engaged` and can no longer be read from.                               *)
OnDelete(c) ==
    /\ c \in engaged \ fleet
    /\ engaged' = engaged \ {c}
    /\ forgetting' = forgetting \cup {c}
    /\ raced' = raced \cup {d \in {c} : \E ctl \in Controller :
                                worker[ctl].busy /\ worker[ctl].key.cluster = d}
    /\ UNCHANGED <<vars, envVars, cached, queue, worker, ready>>

(* OnDelete gets Translator.mu. *)
ForgetCluster(c) ==
    /\ c \in forgetting
    /\ ForgetBegin(c)
    /\ forgetting' = forgetting \ {c}
    /\ UNCHANGED <<envVars, engaged, cached, queue, worker, ready, raced>>

(* A mutant of ReconcileRead: the worker gives up on a binding that it     *)
(* does not find, as for a cluster that has left.                          *)
MutIgnoreNotFound(k) ==
    LET ctl == ControllerOf(k) IN
    /\ k \in queue
    /\ ~worker[ctl].busy
    /\ queue' = queue \ {k}
    /\ worker' = IF k.cluster \in engaged /\ cached[k].exists
                 THEN [worker EXCEPT ![ctl] = [busy |-> TRUE, key |-> k, obj |-> cached[k]]]
                 ELSE worker
    /\ UNCHANGED <<vars, envVars, engaged, cached, forgetting, ready, raced>>

(* reconcileCRB and reconcileRB up to the read.  GetCluster fails for a    *)
(* cluster that has left, and the request is given up.                     *)
ReconcileRead(k) ==
    LET ctl == ControllerOf(k) IN
    /\ k \in queue
    /\ ~worker[ctl].busy
    /\ queue' = queue \ {k}
    /\ worker' = IF k.cluster \in engaged
                 THEN [worker EXCEPT ![ctl] = [busy |-> TRUE, key |-> k, obj |-> cached[k]]]
                 ELSE worker
    /\ UNCHANGED <<vars, envVars, engaged, cached, forgetting, ready, raced>>

(* The translator call of the reconcile: Remove for a binding that was not *)
(* found, Apply otherwise.  Removing an unknown key does nothing.          *)
ReconcileTranslate(ctl) ==
    LET k == worker[ctl].key
        obj == worker[ctl].obj
    IN  /\ worker[ctl].busy
        /\ \/ /\ obj.exists
              /\ ApplyBegin(k, SubjectsOf(k, obj), EndpointFor[k.cluster])
           \/ /\ ~obj.exists
              /\ RemoveBegin(k)
           \/ /\ ~obj.exists
              /\ Idle /\ ~bindings[k].known
              /\ UNCHANGED vars
        /\ worker' = [worker EXCEPT ![ctl].busy = FALSE, ![ctl].obj = None]
        /\ UNCHANGED <<envVars, engaged, cached, queue, forgetting, ready, raced>>

(* The readiness runnable waits for the discovery cache of the local       *)
(* manager and for nothing else: neither for the clusters to be announced  *)
(* nor for their informers or queues.                                      *)
SetReady ==
    /\ ~ready
    /\ ready' = TRUE
    /\ UNCHANGED <<vars, envVars, engaged, cached, queue, worker, forgetting, raced>>

TranslatorStep ==
    /\ Proceed
    /\ UNCHANGED <<envVars, providerVars>>

ProviderNext ==
    \/ \E k \in BindingKey, S \in SUBSET RBACSubject :
            WriteBinding(k, [exists |-> TRUE, subjects |-> S])
    \/ \E k \in BindingKey : WriteBinding(k, None)
    \/ \E c \in LogicalCluster :
            ChangeFleet(c) \/ OnAdd(c) \/ OnDelete(c) \/ ForgetCluster(c)
    \/ \E k \in BindingKey : Deliver(k) \/ ReconcileRead(k)
    \/ \E ctl \in Controller : ReconcileTranslate(ctl)
    \/ SetReady
    \/ TranslatorStep

(* Discovery and informers deliver, workers take what is queued, a mutex   *)
(* that is released infinitely often is eventually obtained (Go mutexes    *)
(* are starvation free), and its holder runs on.                           *)
ProviderFairness ==
    /\ \A c \in LogicalCluster : WF_allVars(OnAdd(c)) /\ WF_allVars(OnDelete(c))
    /\ \A c \in LogicalCluster : SF_allVars(ForgetCluster(c))
    /\ \A k \in BindingKey : WF_allVars(Deliver(k)) /\ SF_allVars(ReconcileRead(k))
    /\ \A ctl \in Controller : SF_allVars(ReconcileTranslate(ctl))
    /\ WF_allVars(TranslatorStep)

ProviderSpec == ProviderInit /\ [][ProviderNext]_allVars /\ ProviderFairness

-----------------------------------------------------------------------------
(* The bindings of the fleet, as the graph should show them. *)
TrueEdge(s, c) ==
    /\ c \in fleet
    /\ \E k \in BindingKey : k.cluster = c /\ source[k].exists
                               /\ s \in SubjectsOf(k, source[k])

(* Once bindings and fleet stop changing, the graph converges to them:     *)
(* every binding of every cluster of the fleet is shown, and a cluster     *)
(* that left is gone, unless a reconcile of one of its bindings was in     *)
(* progress when it left.                                                  *)
Converges ==
    <>[](\A c \in LogicalCluster \ raced, s \in Subject :
            c \in access[s] <=> TrueEdge(s, c))

(* A cluster that left the fleet is not shown once ForgetCluster is done,  *)
(* as long as no reconcile of it was in progress when it left.             *)
ForgottenStaysForgotten ==
    Idle => \A c \in LogicalCluster \ (engaged \cup forgetting \cup raced), s \in Subject :
                c \notin access[s]

(* No binding, however its service accounts are written and defaulted,     *)
(* puts an identity into the graph that can never authenticate.            *)
OnlyRealIdentities ==
    \A s \in Subject, n \in {rs.name : rs \in RBACSubject} :
        s = ServiceAccountUser("", n) => access[s] = {}

(* What holds of the graph at every moment: nothing of a cluster that is   *)
(* gone is shown, and no identity that nobody has (OnDelete,               *)
(* translateSubject).                                                      *)
ProviderInv == ProviderTypeOK /\ ForgottenStaysForgotten /\ OnlyRealIdentities
=============================================================================

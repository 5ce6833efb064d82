--------------------------- MODULE ShardProvider ---------------------------
(***************************************************************************)
(* The RBAC access provider against a single shard                         *)
(* (access/pkg/rbacprovider: provider.go, informers.go) and the self       *)
(* review it serves (access/pkg/virtual/scar): two informers, one for the  *)
(* bindings of cluster scope and one for those of namespace scope, fill a  *)
(* store each and queue what they saw for a handler goroutine of their     *)
(* own; the handlers compete for the translator.  A restarted server       *)
(* starts over from whatever the bindings are by then, which is an initial *)
(* state.                                                                  *)
(*                                                                         *)
(* client-go and the shard are modelled from what the code relies on.      *)
(***************************************************************************)
EXTENDS Translator, SequencesExt

CONSTANTS
    Binding,           \* a binding of the shard: the cluster it is annotated
                       \* with, whether it has a namespace, and its name
    Unannotated,       \* the annotation of an object that has none
    FallbackCluster,   \* the cluster such an object is taken to be in
    InitialBinding,    \* what a binding may be when the server starts
    EndpointFor,       \* EndpointFor[c]: EndpointBaseURL plus the cluster name
    MaxEvents          \* bound on changes of bindings and on resyncs

Informer == {"clusterrolebindings", "rolebindings"}

InformerOf(b) == IF b.namespaced THEN "rolebindings" ELSE "clusterrolebindings"

(* clusterOf *)
ClusterOf(b) == IF b.annotation = Unannotated THEN FallbackCluster ELSE b.annotation

KeyOf(b) == [cluster |-> ClusterOf(b), name |-> b.name]

ASSUME ShardAssumption ==
    /\ \A b \in Binding : KeyOf(b) \in BindingKey
    \* an informer's store has one place for a namespace and name
    /\ \A b, d \in Binding : InformerOf(b) = InformerOf(d) /\ b.name = d.name => b = d

Missing == [exists |-> FALSE, subjects |-> {}]

VARIABLES
    mode,       \* what Start found configured
    source,     \* source[b]: the binding as the shard has it
    store,      \* store[b]: the binding as its informer has it
    synced,     \* the informers whose HasSynced is true
    pending,    \* pending[i]: what informer i has for its handler
    ready,      \* Graph.ready
    happened    \* how many events there were (bound)

shardVars == <<mode, source, store, synced, pending, ready, happened>>
allVars == <<vars, shardVars>>

Event(type, b, obj) == [type |-> type, binding |-> b, object |-> obj]

(* Start goes by the fields that are set; a stub has nothing to wait for.  *)
Mode == {"multi-shard", "single-shard", "stub"}

(* Run and Provider.Start: a graph and a translator that know nothing. *)
ShardInit ==
    /\ Init
    /\ mode \in Mode
    /\ source \in [Binding -> IF mode = "single-shard" THEN InitialBinding ELSE {Missing}]
    /\ store = [b \in Binding |-> Missing]
    /\ synced = {}
    /\ pending = [i \in Informer |-> <<>>]
    /\ ready = (mode = "stub")
    /\ happened = 0

-----------------------------------------------------------------------------
WriteBinding(b, obj) ==
    /\ mode = "single-shard"
    /\ happened < MaxEvents
    /\ obj # source[b]
    /\ source' = [source EXCEPT ![b] = obj]
    /\ happened' = happened + 1
    /\ UNCHANGED <<vars, mode, store, synced, pending, ready>>

(* The first list: everything there is, in the order of a map. *)
List(i) ==
    /\ mode = "single-shard"
    /\ i \notin synced
    /\ LET Of == {b \in Binding : InformerOf(b) = i}
           Present == {b \in Of : source[b].exists}
       IN  /\ store' = [b \in Binding |-> IF b \in Of THEN source[b] ELSE store[b]]
           /\ \E order \in SetToSeqs(Present) :
                pending' = [pending EXCEPT
                    ![i] = [n \in DOMAIN order |-> Event("set", order[n], source[order[n]])]]
    /\ synced' = synced \cup {i}
    /\ UNCHANGED <<vars, mode, source, ready, happened>>

(* A watch event or, after a broken watch, what a new list is found to     *)
(* differ in: then a deletion is reported as a tombstone.                  *)
Watch(b) ==
    LET i == InformerOf(b) IN
    /\ i \in synced
    /\ store[b] # source[b]
    /\ store' = [store EXCEPT ![b] = source[b]]
    /\ \E type \in IF source[b].exists THEN {"set"} ELSE {"delete", "tombstone"} :
         pending' = [pending EXCEPT
            ![i] = Append(@, Event(type, b, IF source[b].exists THEN source[b] ELSE store[b]))]
    /\ UNCHANGED <<vars, mode, source, synced, ready, happened>>

(* defaultResyncPeriod: what is in the store is handed out once more. *)
Resync(i) ==
    /\ i \in synced
    /\ happened < MaxEvents
    /\ happened' = happened + 1
    /\ \E order \in SetToSeqs({b \in Binding : InformerOf(b) = i /\ store[b].exists}) :
         pending' = [pending EXCEPT
            ![i] = @ \o [n \in DOMAIN order |-> Event("set", order[n], store[order[n]])]]
    /\ UNCHANGED <<vars, mode, source, store, synced, ready>>

(* A mutant of DeletedOf: a tombstone is not recognised as a deletion. *)
MutTombstoneIgnored(event) == event.type = "delete"

(* typedFromEvent: a tombstone always means deleted. *)
DeletedOf(event) == event.type \in {"delete", "tombstone"}

(* onCRB and onRB, which hold their handler until the translator is done   *)
(* with the event; removing what it does not know is nothing.              *)
Handle(i) ==
    LET event == Head(pending[i])
        k == KeyOf(event.binding)
    IN  /\ pending[i] # <<>>
        /\ Idle
        /\ \/ /\ ~DeletedOf(event)
              /\ ApplyBegin(k, event.object.subjects, EndpointFor[k.cluster])
           \/ /\ DeletedOf(event)
              /\ IF bindings[k].known THEN RemoveBegin(k) ELSE UNCHANGED vars
        /\ pending' = [pending EXCEPT ![i] = Tail(@)]
        /\ UNCHANGED <<mode, source, store, synced, ready, happened>>

(* HasSynced says that the stores are filled: the handlers may not have    *)
(* run for any of it.                                                      *)
SetReady ==
    /\ ~ready
    /\ synced = Informer
    /\ ready' = TRUE
    /\ UNCHANGED <<vars, mode, source, store, synced, pending, happened>>

Translate == Proceed /\ UNCHANGED shardVars

ShardNext ==
    \/ \E b \in Binding, S \in SUBSET Subject :
            WriteBinding(b, [exists |-> TRUE, subjects |-> S])
    \/ \E b \in Binding : WriteBinding(b, Missing) \/ Watch(b)
    \/ \E i \in Informer : List(i) \/ Resync(i) \/ Handle(i)
    \/ SetReady

(* Informers list and watch, and both handlers get their turn at the       *)
(* translator's mutex, which Go hands out without starving anybody.        *)
ShardFairness ==
    /\ \A i \in Informer : WF_allVars(List(i)) /\ SF_allVars(Handle(i))
    /\ \A b \in Binding : WF_allVars(Watch(b))
    /\ WF_allVars(SetReady)
    /\ WF_allVars(Translate)

-----------------------------------------------------------------------------
(* REST.Create for a caller with a user name and groups: nothing but an    *)
(* error before the graph is ready, else what the caller's subjects see.   *)
Create(identity) ==
    IF ready THEN [reason |-> "", clusters |-> ClustersFor(identity)]
             ELSE [reason |-> "ServiceUnavailable", clusters |-> {}]

(* The clusters in which some binding of the shard names the identity. *)
Named(identity) ==
    {c \in LogicalCluster : \E b \in Binding :
        ClusterOf(b) = c /\ source[b].subjects \cap identity # {}}

(* Whatever order the two informers report in, however often they repeat   *)
(* themselves or report a deletion as a tombstone: once the bindings are   *)
(* left alone, every caller's review is answered, with exactly the         *)
(* clusters whose bindings name the caller, at their URLs.                 *)
ShardConverges ==
    <>[](mode = "single-shard" =>
            \A identity \in SUBSET Subject :
                Create(identity) =
                    [reason |-> "", clusters |-> {[cluster |-> c, endpoint |-> EndpointFor[c]] :
                                                    c \in Named(identity)}])
=============================================================================

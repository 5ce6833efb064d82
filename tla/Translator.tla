----------------------------- MODULE Translator -----------------------------
(***************************************************************************)
(* The translator of the RBAC access provider                              *)
(* (access/pkg/rbacprovider/translator.go): it turns binding events into   *)
(* Grant/Revoke/SetEndpoint/Forget calls on the graph, counting for every  *)
(* (subject, cluster) edge which bindings support it.                      *)
(*                                                                         *)
(* apply, remove and ForgetCluster hold Translator.mu from beginning to    *)
(* end, so at most one of them is in progress: `op` is that call.  The     *)
(* graph has a lock of its own that is taken per graph call, so readers of *)
(* the graph see every intermediate state of `op`.  Go iterates maps in    *)
(* any order, hence the nondeterministic choice of the next subject or     *)
(* key.                                                                    *)
(***************************************************************************)
EXTENDS AccessGraph

CONSTANT
    BindingKey   \* a binding's key: its cluster and its name there, which
                 \* stands for (namespace, name); the namespace of a
                 \* ClusterRoleBinding is empty

ASSUME BindingKeyAssumption == \A k \in BindingKey : k.cluster \in LogicalCluster

VARIABLES
    bindings,   \* bindings[k]: the state recorded for key k
    refs,       \* refs[s][c]: the keys that support the edge (s, c)
    op          \* the call that holds Translator.mu

translatorVars == <<bindings, refs, op>>
vars == <<access, endpoints, bindings, refs, op>>

(* bindingState; an absent key is `known = FALSE` with the zero value the  *)
(* code reads from the map in that case.                                   *)
BindingState == [known : BOOLEAN,
                 subjects : SUBSET Subject,
                 endpoint : Endpoint \cup {NoEndpoint}]

Absent == [known |-> FALSE, subjects |-> {}, endpoint |-> NoEndpoint]

OpKind == {"idle", "apply", "remove", "forget"}

(* key, drop: the subjects of key that still lose their reference; add:    *)
(* the ones that still gain it; move: apply ends with a SetEndpoint;       *)
(* cluster: what ForgetCluster is forgetting.                              *)
Op == [kind : OpKind, key : BindingKey, cluster : LogicalCluster,
       drop : SUBSET Subject, add : SUBSET Subject, move : BOOLEAN]

TypeOK ==
    /\ GraphTypeOK
    /\ bindings \in [BindingKey -> BindingState]
    /\ refs \in [Subject -> [LogicalCluster -> SUBSET BindingKey]]
    /\ op \in Op

Idle == op.kind = "idle"

Release == op' = [op EXCEPT !.kind = "idle", !.move = FALSE]

TranslatorInit ==
    /\ bindings = [k \in BindingKey |-> Absent]
    /\ refs = [s \in Subject |-> [c \in LogicalCluster |-> {}]]
    /\ \E k \in BindingKey :
         op = [kind |-> "idle", key |-> k, cluster |-> k.cluster,
               drop |-> {}, add |-> {}, move |-> FALSE]

Init == GraphInit /\ TranslatorInit

-----------------------------------------------------------------------------
(* A mutant of ApplyBegin: remove followed by add, without a difference.   *)
MutApplyReplaces(k, subjects, endpoint) ==
    /\ Idle
    /\ bindings' = [bindings EXCEPT
            ![k] = [known |-> TRUE, subjects |-> subjects, endpoint |-> endpoint]]
    /\ op' = [kind |-> "apply", key |-> k, cluster |-> k.cluster,
              drop |-> bindings[k].subjects, add |-> subjects,
              move |-> bindings[k].known /\ bindings[k].endpoint # endpoint]
    /\ UNCHANGED <<access, endpoints, refs>>

(* apply: record the new state first, then bring the counts in line.       *)
ApplyBegin(k, subjects, endpoint) ==
    /\ Idle
    /\ bindings' = [bindings EXCEPT
            ![k] = [known |-> TRUE, subjects |-> subjects, endpoint |-> endpoint]]
    /\ op' = [kind |-> "apply", key |-> k, cluster |-> k.cluster,
              drop |-> bindings[k].subjects \ subjects,
              add |-> subjects \ bindings[k].subjects,
              move |-> bindings[k].known /\ bindings[k].endpoint # endpoint]
    /\ UNCHANGED <<access, endpoints, refs>>

(* A mutant of DecrementRef: it revokes without looking at the references  *)
(* of other bindings.                                                      *)
MutDecrementRevokes(s) ==
    LET c == op.key.cluster IN
    /\ s \in op.drop
    /\ op' = [op EXCEPT !.drop = @ \ {s}]
    /\ refs' = [refs EXCEPT ![s][c] = @ \ {op.key}]
    /\ Revoke(s, c)
    /\ UNCHANGED bindings

(* decrementRef, with the Revoke it calls when the last reference goes. A  *)
(* pair without references is left alone.                                  *)
DecrementRef(s) ==
    LET c == op.key.cluster IN
    /\ s \in op.drop
    /\ op' = [op EXCEPT !.drop = @ \ {s}]
    /\ refs' = [refs EXCEPT ![s][c] = @ \ {op.key}]
    /\ IF refs[s][c] # {} /\ refs[s][c] \subseteq {op.key}
       THEN Revoke(s, c)
       ELSE UNCHANGED graphVars
    /\ UNCHANGED bindings

(* incrementRef, with the Grant it calls for the first reference.  apply   *)
(* drops all the old subjects before it adds a new one.                    *)
IncrementRef(s) ==
    LET c == op.key.cluster IN
    /\ op.kind = "apply"
    /\ op.drop = {}
    /\ s \in op.add
    /\ op' = [op EXCEPT !.add = @ \ {s}]
    /\ refs' = [refs EXCEPT ![s][c] = @ \cup {op.key}]
    /\ IF refs[s][c] = {}
       THEN Grant(s, c, bindings[op.key].endpoint)
       ELSE UNCHANGED graphVars
    /\ UNCHANGED bindings

ApplyEnd ==
    /\ op.kind = "apply"
    /\ op.drop = {} /\ op.add = {}
    /\ IF op.move
       THEN SetEndpoint(op.key.cluster, bindings[op.key].endpoint)
       ELSE UNCHANGED graphVars
    /\ Release
    /\ UNCHANGED <<bindings, refs>>

(* removeLocked up to its loop; an unknown key is a no-op in the code.     *)
RemoveBegin(k) ==
    /\ Idle
    /\ bindings[k].known
    /\ bindings' = [bindings EXCEPT ![k] = Absent]
    /\ op' = [kind |-> "remove", key |-> k, cluster |-> k.cluster,
              drop |-> bindings[k].subjects, add |-> {}, move |-> FALSE]
    /\ UNCHANGED <<access, endpoints, refs>>

RemoveEnd ==
    /\ op.kind = "remove"
    /\ op.drop = {}
    /\ Release
    /\ UNCHANGED <<access, endpoints, bindings, refs>>

(* ForgetCluster: removeLocked for every known key of the cluster, then    *)
(* Graph.Forget.                                                           *)
ForgetBegin(c) ==
    /\ Idle
    /\ op' = [op EXCEPT !.kind = "forget", !.cluster = c,
                        !.drop = {}, !.add = {}, !.move = FALSE]
    /\ UNCHANGED <<access, endpoints, bindings, refs>>

KnownIn(c) == {k \in BindingKey : k.cluster = c /\ bindings[k].known}

(* A mutant of ForgetNext: the binding is dropped, its references stay.    *)
MutForgetKeepsRefs(k) ==
    /\ op.kind = "forget"
    /\ op.drop = {}
    /\ k \in KnownIn(op.cluster)
    /\ bindings' = [bindings EXCEPT ![k] = Absent]
    /\ op' = [op EXCEPT !.key = k, !.drop = {}]
    /\ UNCHANGED <<access, endpoints, refs>>

ForgetNext(k) ==
    /\ op.kind = "forget"
    /\ op.drop = {}
    /\ k \in KnownIn(op.cluster)
    /\ bindings' = [bindings EXCEPT ![k] = Absent]
    /\ op' = [op EXCEPT !.key = k, !.drop = bindings[k].subjects]
    /\ UNCHANGED <<access, endpoints, refs>>

ForgetEnd ==
    /\ op.kind = "forget"
    /\ op.drop = {}
    /\ KnownIn(op.cluster) = {}
    /\ Forget(op.cluster)
    /\ Release
    /\ UNCHANGED <<bindings, refs>>

(* What the holder of Translator.mu does next. *)
Proceed ==
    \/ \E s \in Subject : DecrementRef(s) \/ IncrementRef(s)
    \/ ApplyEnd
    \/ RemoveEnd
    \/ \E k \in BindingKey : ForgetNext(k)
    \/ ForgetEnd

Next ==
    \/ \E k \in BindingKey, S \in SUBSET Subject, e \in Endpoint : ApplyBegin(k, S, e)
    \/ \E k \in BindingKey : RemoveBegin(k)
    \/ \E c \in LogicalCluster : ForgetBegin(c)
    \/ Proceed

(* The goroutine that holds the mutex runs on: nothing in these calls      *)
(* blocks on anything but the graph's lock, which is never held for long.  *)
Spec == Init /\ [][Next]_vars /\ WF_vars(Proceed)

-----------------------------------------------------------------------------
(* Some recorded binding of cluster c names subject s. *)
Supported(s, c) ==
    \E k \in BindingKey : k.cluster = c /\ s \in bindings[k].subjects

(* Between two translator calls the graph shows a cluster to a subject     *)
(* exactly when a recorded binding in that cluster names the subject: no   *)
(* overlap of bindings, update or forget leaks or loses an edge.           *)
QuiescentExact ==
    Idle => \A s \in Subject, c \in LogicalCluster :
                c \in access[s] <=> Supported(s, c)

(* What a reader of the graph can observe while a call is in progress: an  *)
(* edge appears only if the recorded bindings support it, and disappears   *)
(* only if they do not.  So a subject named before and after an update     *)
(* (or by a second binding) never loses sight of the cluster in between.   *)
NoFlicker ==
    [][\A s \in Subject, c \in LogicalCluster :
          /\ c \in access'[s] \ access[s] => Supported(s, c)'
          /\ c \in access[s] \ access'[s] => ~Supported(s, c)']_vars

(* Every row a reader gets carries a URL, and no URL is kept for a cluster *)
(* that nobody can see ("Snapshot does not accumulate entries").           *)
EndpointsMatchAccess ==
    \A c \in LogicalCluster : endpoints[c] # NoEndpoint <=> AnyAccess(access, c)

(* References are exactly the recorded subjects, up to what the call in    *)
(* progress has not done yet.                                              *)
RefsExact ==
    \A s \in Subject, k \in BindingKey, c \in LogicalCluster :
        k \in refs[s][c] <=>
            /\ k.cluster = c
            /\ \/ s \in bindings[k].subjects /\ ~(k = op.key /\ s \in op.add)
               \/ k = op.key /\ s \in op.drop

EdgesAreRefs ==
    \A s \in Subject, c \in LogicalCluster : c \in access[s] <=> refs[s][c] # {}

(* The call in progress only drops what is no longer recorded, only adds   *)
(* what is, and leaves nothing pending behind when it releases the lock.   *)
OpConsistent ==
    /\ op.drop \cap bindings[op.key].subjects = {}
    /\ op.add \subseteq bindings[op.key].subjects
    /\ op.kind # "apply" => op.add = {}
    /\ Idle => op.drop = {}
    /\ op.kind = "apply" => bindings[op.key].known
    /\ \A k \in BindingKey : bindings[k].known
                                <=> bindings[k].endpoint # NoEndpoint
    /\ \A k \in BindingKey : ~bindings[k].known => bindings[k].subjects = {}

(* The inductive invariant behind the safety properties. *)
IInv ==
    /\ TypeOK
    /\ OpConsistent
    /\ RefsExact
    /\ EdgesAreRefs
    /\ EndpointsMatchAccess

(* The promise made to readers of the graph, with the recorded bindings as *)
(* the truth the view follows.                                             *)
Edges == {e \in Subject \X LogicalCluster : Supported(e[1], e[2])}
Shown == {e \in Subject \X LogicalCluster : e[2] \in access[e[1]]}

View == INSTANCE AccessView WITH Edge <- Subject \X LogicalCluster,
                                 named <- Edges, shown <- Shown

(* The translator and the graph implement the abstract view: readers see   *)
(* the view move edge by edge towards the recorded bindings, never away.   *)
ImplementsView == View!Spec
=============================================================================

-------------------------- MODULE TranslatorProofs --------------------------
(***************************************************************************)
(* Proofs about the translator and the graph, for any sets of subjects,    *)
(* clusters, URLs and binding keys, and about the provider that drives     *)
(* them.  The inductive invariant IInv relates four pieces of state: the   *)
(* recorded bindings, the reference sets, the graph's edges and its URLs,  *)
(* up to what the call in progress has left                                *)
(* to do.                                                                  *)
(***************************************************************************)
EXTENDS AccessProvider, TLAPS

USE NoEndpointAssumption, BindingKeyAssumption

(* The fields of the call in progress have their types. *)
LEMMA OpFields ==
    ASSUME TypeOK
    PROVE  /\ op.kind \in OpKind
           /\ op.key \in BindingKey
           /\ op.key.cluster \in LogicalCluster
           /\ op.cluster \in LogicalCluster
           /\ op.drop \subseteq Subject
           /\ op.add \subseteq Subject
           /\ op.move \in BOOLEAN
BY DEF TypeOK, Op

(* Starting to apply a binding preserves the invariant. *)
LEMMA ApplyBeginInv ==
    ASSUME IInv, NEW k \in BindingKey, NEW S \in SUBSET Subject, NEW e \in Endpoint,
           ApplyBegin(k, S, e)
    PROVE  IInv'
<1> USE DEF IInv, ApplyBegin
<1>1. TypeOK'
  BY OpFields DEF TypeOK, GraphTypeOK, BindingState, Op, OpKind, Idle
<1>2. OpConsistent'
  BY OpFields DEF TypeOK, BindingState, OpConsistent, Idle
<1>3. RefsExact'
  BY OpFields DEF TypeOK, BindingState, OpConsistent, RefsExact, Idle
<1>4. EdgesAreRefs'
  BY DEF EdgesAreRefs
<1>5. EndpointsMatchAccess'
  BY DEF EndpointsMatchAccess, AnyAccess
<1> QED BY <1>1, <1>2, <1>3, <1>4, <1>5

(* Dropping one reference preserves it: the edge goes with the last one.   *)
LEMMA DecrementInv ==
    ASSUME IInv, NEW s \in Subject, DecrementRef(s)
    PROVE  IInv'
<1> USE DEF IInv
<1> DEFINE c == op.key.cluster
<1>0. c \in LogicalCluster /\ op.key \in BindingKey /\ s \in op.drop
  BY OpFields DEF DecrementRef
<1>1. TypeOK'
  <2>1. access' \in [Subject -> SUBSET LogicalCluster]
    BY <1>0 DEF TypeOK, GraphTypeOK, DecrementRef, Revoke, graphVars
  <2>2. endpoints' \in [LogicalCluster -> Endpoint \cup {NoEndpoint}]
    BY <1>0 DEF TypeOK, GraphTypeOK, DecrementRef, Revoke, graphVars
  <2>3. refs' \in [Subject -> [LogicalCluster -> SUBSET BindingKey]]
    BY <1>0 DEF TypeOK, DecrementRef
  <2>4. op' \in Op /\ bindings' = bindings
    BY OpFields DEF TypeOK, Op, DecrementRef
  <2> QED BY <2>1, <2>2, <2>3, <2>4 DEF TypeOK, GraphTypeOK
<1>2. OpConsistent'
  BY OpFields DEF TypeOK, Op, BindingState, OpConsistent, Idle, DecrementRef
<1>3. RefsExact'
  BY <1>0, OpFields DEF TypeOK, Op, OpConsistent, RefsExact, DecrementRef
<1>4. op.key \in refs[s][c]
  BY <1>0 DEF RefsExact
<1>5. CASE refs[s][c] \subseteq {op.key}
  <2>1. refs' = [refs EXCEPT ![s][c] = {}]
    BY <1>5, <1>0 DEF DecrementRef, TypeOK
  <2>2. access' = [access EXCEPT ![s] = @ \ {c}]
    BY <1>4, <1>5, <1>0 DEF DecrementRef, Revoke, EdgesAreRefs, TypeOK, GraphTypeOK
  <2>3. endpoints' = IF AnyAccess(access', c) THEN endpoints
                     ELSE [endpoints EXCEPT ![c] = NoEndpoint]
    BY <1>4, <1>5, <1>0 DEF DecrementRef, Revoke, EdgesAreRefs, TypeOK, GraphTypeOK
  <2>4. EdgesAreRefs'
    BY <2>1, <2>2, <1>0 DEF EdgesAreRefs, TypeOK, GraphTypeOK
  <2>5. EndpointsMatchAccess'
    BY <2>2, <2>3, <1>0, <1>4 DEF EndpointsMatchAccess, AnyAccess, EdgesAreRefs, TypeOK, GraphTypeOK
  <2> QED BY <1>1, <1>2, <1>3, <2>4, <2>5
<1>6. CASE ~(refs[s][c] \subseteq {op.key})
  <2>1. EdgesAreRefs'
    BY <1>6, <1>0 DEF DecrementRef, EdgesAreRefs, TypeOK, GraphTypeOK, graphVars
  <2>2. EndpointsMatchAccess'
    BY <1>6 DEF DecrementRef, EndpointsMatchAccess, AnyAccess, graphVars
  <2> QED BY <1>1, <1>2, <1>3, <2>1, <2>2
<1> QED BY <1>5, <1>6

(* Adding one reference preserves it: the edge comes with the first one.   *)
LEMMA IncrementInv ==
    ASSUME IInv, NEW s \in Subject, IncrementRef(s)
    PROVE  IInv'
<1> USE DEF IInv
<1> DEFINE c == op.key.cluster
<1>0. /\ c \in LogicalCluster /\ op.key \in BindingKey /\ s \in op.add
      /\ bindings[op.key].endpoint \in Endpoint
  BY OpFields DEF IncrementRef, OpConsistent, TypeOK, BindingState
<1>1. TypeOK'
  <2>1. access' \in [Subject -> SUBSET LogicalCluster]
    BY <1>0 DEF TypeOK, GraphTypeOK, IncrementRef, Grant, graphVars
  <2>2. endpoints' \in [LogicalCluster -> Endpoint \cup {NoEndpoint}]
    BY <1>0 DEF TypeOK, GraphTypeOK, IncrementRef, Grant, graphVars
  <2>3. refs' \in [Subject -> [LogicalCluster -> SUBSET BindingKey]]
    BY <1>0 DEF TypeOK, IncrementRef
  <2>4. op' \in Op /\ bindings' = bindings
    BY OpFields DEF TypeOK, Op, IncrementRef
  <2> QED BY <2>1, <2>2, <2>3, <2>4 DEF TypeOK, GraphTypeOK
<1>2. OpConsistent'
  BY OpFields DEF TypeOK, Op, BindingState, OpConsistent, Idle, IncrementRef
<1>3. RefsExact'
  BY <1>0, OpFields DEF TypeOK, Op, OpConsistent, RefsExact, IncrementRef
<1>4. refs' = [refs EXCEPT ![s][c] = @ \cup {op.key}]
  BY DEF IncrementRef
<1>5. CASE refs[s][c] = {}
  <2>1. /\ access' = [access EXCEPT ![s] = @ \cup {c}]
        /\ endpoints' = [endpoints EXCEPT ![c] = bindings[op.key].endpoint]
    BY <1>5 DEF IncrementRef, Grant
  <2>2. EdgesAreRefs'
    BY <1>0, <1>4, <2>1 DEF EdgesAreRefs, TypeOK, GraphTypeOK
  <2>3. EndpointsMatchAccess'
    BY <1>0, <2>1 DEF EndpointsMatchAccess, AnyAccess, TypeOK, GraphTypeOK
  <2> QED BY <1>1, <1>2, <1>3, <2>2, <2>3
<1>6. CASE refs[s][c] # {}
  <2>1. access' = access /\ endpoints' = endpoints
    BY <1>6 DEF IncrementRef, graphVars
  <2>2. EdgesAreRefs'
    BY <1>0, <1>4, <1>6, <2>1 DEF EdgesAreRefs, TypeOK, GraphTypeOK
  <2>3. EndpointsMatchAccess'
    BY <2>1 DEF EndpointsMatchAccess, AnyAccess
  <2> QED BY <1>1, <1>2, <1>3, <2>2, <2>3
<1> QED BY <1>5, <1>6

(* Finishing an apply preserves it; only a URL can move. *)
LEMMA ApplyEndInv ==
    ASSUME IInv, ApplyEnd
    PROVE  IInv'
<1> USE DEF IInv
<1>0. op.key.cluster \in LogicalCluster /\ bindings[op.key].endpoint \in Endpoint
  BY OpFields DEF ApplyEnd, OpConsistent, TypeOK, BindingState
<1>1. TypeOK'
  BY <1>0, OpFields DEF TypeOK, GraphTypeOK, Op, OpKind, ApplyEnd, Release, SetEndpoint, graphVars
<1>2. OpConsistent'
  BY OpFields DEF TypeOK, Op, OpConsistent, Idle, ApplyEnd, Release
<1>3. RefsExact'
  BY OpFields DEF TypeOK, Op, RefsExact, ApplyEnd, Release
<1>4. EdgesAreRefs'
  BY DEF ApplyEnd, SetEndpoint, EdgesAreRefs, graphVars
<1>5. EndpointsMatchAccess'
  BY <1>0 DEF ApplyEnd, SetEndpoint, EndpointsMatchAccess, AnyAccess, TypeOK, GraphTypeOK, graphVars
<1> QED BY <1>1, <1>2, <1>3, <1>4, <1>5

(* Removing a binding preserves it: its subjects become pending drops. *)
LEMMA RemoveInv ==
    ASSUME IInv, NEW k \in BindingKey, RemoveBegin(k)
    PROVE  IInv'
<1> USE DEF IInv, RemoveBegin
<1>1. TypeOK'
  BY OpFields DEF TypeOK, GraphTypeOK, BindingState, Op, OpKind, Absent
<1>2. OpConsistent'
  BY OpFields DEF TypeOK, BindingState, OpConsistent, Idle, Absent
<1>3. RefsExact'
  <2>1. op.drop = {} /\ op.add = {}
    BY DEF OpConsistent, Idle
  <2>2. /\ op'.key = k /\ op'.drop = bindings[k].subjects /\ op'.add = {}
        /\ \A j \in BindingKey : bindings'[j].subjects =
                IF j = k THEN {} ELSE bindings[j].subjects
    BY DEF TypeOK, Absent
  <2> QED BY <2>1, <2>2 DEF RefsExact
<1>4. EdgesAreRefs'
  BY DEF EdgesAreRefs
<1>5. EndpointsMatchAccess'
  BY DEF EndpointsMatchAccess, AnyAccess
<1> QED BY <1>1, <1>2, <1>3, <1>4, <1>5

(* Returning from remove preserves it. *)
LEMMA RemoveEndInv ==
    ASSUME IInv, RemoveEnd
    PROVE  IInv'
<1> USE DEF IInv, RemoveEnd, Release
<1>1. TypeOK'
  BY OpFields DEF TypeOK, GraphTypeOK, Op, OpKind
<1>2. OpConsistent' /\ RefsExact'
  BY OpFields DEF TypeOK, Op, OpConsistent, RefsExact, Idle
<1>3. EdgesAreRefs' /\ EndpointsMatchAccess'
  BY DEF EdgesAreRefs, EndpointsMatchAccess, AnyAccess
<1> QED BY <1>1, <1>2, <1>3

(* Starting to forget a cluster preserves it. *)
LEMMA ForgetBeginInv ==
    ASSUME IInv, NEW c \in LogicalCluster, ForgetBegin(c)
    PROVE  IInv'
<1> USE DEF IInv, ForgetBegin
<1>1. TypeOK'
  BY OpFields DEF TypeOK, GraphTypeOK, Op, OpKind
<1>2. OpConsistent' /\ RefsExact'
  BY OpFields DEF TypeOK, Op, OpConsistent, RefsExact, Idle
<1>3. EdgesAreRefs' /\ EndpointsMatchAccess'
  BY DEF EdgesAreRefs, EndpointsMatchAccess, AnyAccess
<1> QED BY <1>1, <1>2, <1>3

(* Forgetting the next binding preserves it. *)
LEMMA ForgetNextInv ==
    ASSUME IInv, NEW k \in BindingKey, ForgetNext(k)
    PROVE  IInv'
<1> USE DEF IInv, ForgetNext, KnownIn
<1>1. TypeOK'
  BY OpFields DEF TypeOK, GraphTypeOK, BindingState, Op, OpKind, Absent
<1>2. OpConsistent'
  BY OpFields DEF TypeOK, Op, BindingState, OpConsistent, Idle, Absent
<1>3. RefsExact'
  BY OpFields DEF TypeOK, Op, BindingState, OpConsistent, RefsExact, Absent
<1>4. EdgesAreRefs' /\ EndpointsMatchAccess'
  BY DEF EdgesAreRefs, EndpointsMatchAccess, AnyAccess
<1> QED BY <1>1, <1>2, <1>3, <1>4

(* When ForgetCluster reaches Graph.Forget no edge into the cluster is     *)
(* left: dropping the references one by one has already removed them all.  *)
LEMMA NothingLeftToForget ==
    ASSUME IInv, ForgetEnd
    PROVE  /\ \A s \in Subject : op.cluster \notin access[s]
           /\ access' = access /\ endpoints' = endpoints
<1> USE DEF IInv, ForgetEnd
<1>1. \A s \in Subject : refs[s][op.cluster] = {}
  <2>1. SUFFICES ASSUME NEW s \in Subject, NEW k \in refs[s][op.cluster] PROVE FALSE
    OBVIOUS
  <2>2. k \in BindingKey /\ op.cluster \in LogicalCluster
    BY <2>1, OpFields DEF TypeOK
  <2>3. k.cluster = op.cluster /\ s \in bindings[k].subjects
    BY <2>1, <2>2 DEF RefsExact
  <2>4. bindings[k].known
    BY <2>2, <2>3 DEF OpConsistent
  <2> QED BY <2>2, <2>3, <2>4 DEF KnownIn
<1>2. \A s \in Subject : op.cluster \notin access[s]
  BY <1>1, OpFields DEF EdgesAreRefs
<1>3. access' = access
  BY <1>2 DEF Forget, TypeOK, GraphTypeOK
<1>4. endpoints[op.cluster] = NoEndpoint
  BY <1>2, OpFields DEF EndpointsMatchAccess, AnyAccess
<1>5. endpoints' = endpoints
  BY <1>4, OpFields DEF Forget, TypeOK, GraphTypeOK
<1> QED BY <1>2, <1>3, <1>5

(* Finishing ForgetCluster preserves it. *)
LEMMA ForgetEndInv ==
    ASSUME IInv, ForgetEnd
    PROVE  IInv'
<1> USE DEF IInv
<1>0. access' = access /\ endpoints' = endpoints
  BY NothingLeftToForget
<1>1. TypeOK'
  BY <1>0, OpFields DEF TypeOK, GraphTypeOK, Op, OpKind, ForgetEnd, Release
<1>2. OpConsistent' /\ RefsExact'
  BY OpFields DEF TypeOK, Op, OpConsistent, RefsExact, Idle, ForgetEnd, Release
<1>3. EdgesAreRefs' /\ EndpointsMatchAccess'
  BY <1>0 DEF EdgesAreRefs, EndpointsMatchAccess, AnyAccess, ForgetEnd
<1> QED BY <1>1, <1>2, <1>3

(* The initial state satisfies the invariant. *)
LEMMA InitInv == Init => IInv
<1> SUFFICES ASSUME Init PROVE IInv
  OBVIOUS
<1> USE DEF Init, GraphInit, TranslatorInit
<1>1. TypeOK
  BY DEF TypeOK, GraphTypeOK, BindingState, Op, OpKind, Absent
<1>2. OpConsistent /\ RefsExact
  BY DEF OpConsistent, RefsExact, Absent, Idle
<1>3. EdgesAreRefs /\ EndpointsMatchAccess
  BY DEF EdgesAreRefs, EndpointsMatchAccess, AnyAccess
<1> QED BY <1>1, <1>2, <1>3 DEF IInv

(* Every step, stuttering included, preserves the invariant. *)
LEMMA StepInv == IInv /\ [Next]_vars => IInv'
<1> SUFFICES ASSUME IInv, [Next]_vars PROVE IInv'
  OBVIOUS
<1>1. CASE UNCHANGED vars
  BY <1>1 DEF vars, IInv, TypeOK, GraphTypeOK, OpConsistent, Idle, RefsExact,
              EdgesAreRefs, EndpointsMatchAccess, AnyAccess
<1>2. CASE \E k \in BindingKey, S \in SUBSET Subject, e \in Endpoint : ApplyBegin(k, S, e)
  BY <1>2, ApplyBeginInv
<1>3. CASE \E k \in BindingKey : RemoveBegin(k)
  BY <1>3, RemoveInv
<1>4. CASE \E c \in LogicalCluster : ForgetBegin(c)
  BY <1>4, ForgetBeginInv
<1>5. CASE Proceed
  BY <1>5, DecrementInv, IncrementInv, ApplyEndInv, RemoveEndInv, ForgetNextInv,
     ForgetEndInv DEF Proceed
<1> QED BY <1>1, <1>2, <1>3, <1>4, <1>5 DEF Next

(* The translator's state is always consistent: types, references, edges   *)
(* and URLs agree up to the call in progress.                              *)
THEOREM Consistency == Spec => []IInv
BY InitInv, StepInv, PTL DEF Spec

(* An edge is in the graph while no call is in progress exactly when a     *)
(* recorded binding supports it.                                           *)
THEOREM Exactness == Spec => []QuiescentExact
<1>1. IInv => QuiescentExact
  <2> SUFFICES ASSUME IInv, Idle, NEW s \in Subject, NEW c \in LogicalCluster
               PROVE  c \in access[s] <=> Supported(s, c)
    BY DEF QuiescentExact
  <2>1. op.drop = {} /\ op.add = {}
    BY DEF IInv, OpConsistent, Idle
  <2>2. refs[s][c] \subseteq BindingKey
    BY DEF IInv, TypeOK
  <2> QED BY <2>1, <2>2 DEF IInv, EdgesAreRefs, RefsExact, Supported
<1> QED BY <1>1, Consistency, PTL

(* A reader only ever sees the view move towards the recorded bindings,    *)
(* whatever the interleaving of its reads with a call in progress.         *)
LEMMA StepTowardsBindings ==
    ASSUME IInv, Next, NEW s \in Subject, NEW c \in LogicalCluster
    PROVE  /\ c \in access'[s] \ access[s] => Supported(s, c)'
           /\ c \in access[s] \ access'[s] => ~Supported(s, c)'
<1>1. CASE access' = access
  BY <1>1
<1>2. ASSUME NEW t \in Subject, DecrementRef(t)
      PROVE  /\ c \notin access'[s] \ access[s]
             /\ c \in access[s] \ access'[s] => ~Supported(s, c)'
  <2>1. c \notin access'[s] \ access[s]
    BY <1>2 DEF DecrementRef, Revoke, graphVars, IInv, TypeOK, GraphTypeOK
  <2>2. ASSUME c \in access[s] \ access'[s] PROVE ~Supported(s, c)'
    <3>1. s = t /\ c = op.key.cluster /\ refs[s][c] \subseteq {op.key}
      BY <1>2, <2>2 DEF DecrementRef, Revoke, graphVars, IInv, TypeOK, GraphTypeOK
    <3>2. bindings' = bindings /\ s \in op.drop
      BY <1>2, <3>1 DEF DecrementRef
    <3>3. ASSUME NEW k \in BindingKey, k.cluster = c, s \in bindings[k].subjects
          PROVE  FALSE
      <4>1. k # op.key
        BY <3>2, <3>3 DEF IInv, OpConsistent
      <4>2. k \in refs[s][c]
        BY <3>3, <4>1 DEF IInv, RefsExact
      <4> QED BY <3>1, <4>1, <4>2
    <3> QED BY <3>2, <3>3 DEF Supported
  <2> QED BY <2>1, <2>2
<1>3. ASSUME NEW t \in Subject, IncrementRef(t)
      PROVE  /\ c \in access'[s] \ access[s] => Supported(s, c)'
             /\ c \notin access[s] \ access'[s]
  <2>1. c \notin access[s] \ access'[s]
    BY <1>3 DEF IncrementRef, Grant, graphVars, IInv, TypeOK, GraphTypeOK
  <2>2. ASSUME c \in access'[s] \ access[s] PROVE Supported(s, c)'
    <3>1. s = t /\ c = op.key.cluster
      BY <1>3, <2>2 DEF IncrementRef, Grant, graphVars, IInv, TypeOK, GraphTypeOK
    <3>2. bindings' = bindings /\ s \in bindings[op.key].subjects /\ op.key \in BindingKey
      BY <1>3, <3>1, OpFields DEF IncrementRef, IInv, OpConsistent
    <3> QED BY <3>1, <3>2 DEF Supported
  <2> QED BY <2>1, <2>2
<1>4. ForgetEnd => access' = access
  BY NothingLeftToForget
<1> QED
  BY <1>1, <1>2, <1>3, <1>4 DEF Next, Proceed, ApplyBegin, RemoveBegin, ForgetBegin,
     ApplyEnd, SetEndpoint, graphVars, RemoveEnd, ForgetNext

(* No call in progress makes an edge flicker for a reader of the graph. *)
THEOREM ReadersSeeNoFlicker == Spec => NoFlicker
<1>1. IInv /\ [Next]_vars =>
        [\A s \in Subject, c \in LogicalCluster :
          /\ c \in access'[s] \ access[s] => Supported(s, c)'
          /\ c \in access[s] \ access'[s] => ~Supported(s, c)']_vars
  BY StepTowardsBindings
<1> QED BY <1>1, Consistency, PTL DEF Spec, NoFlicker

(* The translator and the graph implement the abstract access view (its    *)
(* safety part): initial states correspond, and each step observes a       *)
(* binding, shows or hides one edge in the direction of the bindings, or   *)
(* changes nothing a reader or the abstraction can tell.                   *)
THEOREM Refinement == Spec => View!SafeSpec
<1>1. Init => View!Init
  BY DEF Init, GraphInit, TranslatorInit, Absent, View!Init, Edges, Shown, Supported
<1>2. ASSUME IInv, [Next]_vars PROVE [View!Next]_<<Edges, Shown>>
  <2>1. CASE bindings' = bindings /\ access' = access
    <3>1. Edges' = Edges /\ Shown' = Shown
      BY <2>1 DEF Edges, Shown, Supported
    <3> QED BY <3>1
  <2>2. CASE access' = access
    <3>1. Shown' = Shown
      BY <2>2 DEF Shown
    <3>2. Edges' \in SUBSET (Subject \X LogicalCluster)
      BY DEF Edges
    <3> QED BY <3>1, <3>2 DEF View!Next, View!Observe
  <2>3. ASSUME NEW t \in Subject, DecrementRef(t) \/ IncrementRef(t), access' # access
        PROVE  View!Next
    <3> DEFINE c == op.key.cluster
               e == <<t, c>>
    <3>1. c \in LogicalCluster /\ e \in Subject \X LogicalCluster
      BY <1>2, OpFields DEF IInv
    <3>2. Edges' = Edges
      <4>1. bindings' = bindings
        BY <2>3 DEF DecrementRef, IncrementRef
      <4> QED BY <4>1 DEF Edges, Supported
    <3>3. Next
      BY <2>3 DEF Next, Proceed
    <3>4. \/ access' = [access EXCEPT ![t] = @ \ {c}]
          \/ access' = [access EXCEPT ![t] = @ \cup {c}]
      BY <2>3 DEF DecrementRef, IncrementRef, Revoke, Grant, graphVars
    <3>5. CASE access' = [access EXCEPT ![t] = @ \ {c}]
      <4>1. c \in access[t] /\ c \notin access'[t]
        BY <2>3, <3>5, <1>2 DEF IInv, TypeOK, GraphTypeOK
      <4>2. Shown' = Shown \ {e}
        BY <3>5, <3>1, <1>2 DEF Shown, IInv, TypeOK, GraphTypeOK
      <4>3. e \in Shown \ Edges
        BY <4>1, <3>1, <3>2, <3>3, <1>2, StepTowardsBindings DEF Shown, Edges
      <4> QED BY <4>2, <4>3, <3>1, <3>2 DEF View!Next, View!Hide
    <3>6. CASE access' = [access EXCEPT ![t] = @ \cup {c}]
      <4>1. c \notin access[t] /\ c \in access'[t]
        BY <2>3, <3>6, <1>2 DEF IInv, TypeOK, GraphTypeOK
      <4>2. Shown' = Shown \cup {e}
        BY <3>6, <3>1, <1>2 DEF Shown, IInv, TypeOK, GraphTypeOK
      <4>3. e \in Edges \ Shown
        BY <4>1, <3>1, <3>2, <3>3, <1>2, StepTowardsBindings DEF Shown, Edges
      <4> QED BY <4>2, <4>3, <3>1, <3>2 DEF View!Next, View!Show
    <3> QED BY <3>4, <3>5, <3>6
  <2>4. ForgetEnd => access' = access
    BY <1>2, NothingLeftToForget
  <2> QED
    BY <1>2, <2>1, <2>2, <2>3, <2>4 DEF vars, Next, Proceed, ApplyBegin, RemoveBegin,
       ForgetBegin, ApplyEnd, SetEndpoint, graphVars, RemoveEnd, ForgetNext
<1> QED BY <1>1, <1>2, Consistency, PTL DEF Spec, View!SafeSpec, View!viewVars

(* Every visible cluster has a URL and every URL a viewer. *)
THEOREM EndpointsFollowAccess == Spec => []EndpointsMatchAccess
BY Consistency, PTL DEF IInv

-----------------------------------------------------------------------------
(* The provider that drives the translator (multicluster.go, provider.go). *)

(* A service account without a namespace, which nobody can log in as.      *)
Nobody == {s \in Subject : \E n \in {rs.name : rs \in RBACSubject} : s = ServiceAccountUser("", n)}

(* No reconcile is in progress for a cluster that has left, unless it was  *)
(* when the cluster left.                                                  *)
LeftAlone ==
    \A c \in LogicalCluster \ (engaged \cup raced), ctl \in Controller :
        worker[ctl].busy => worker[ctl].key.cluster # c

(* Once it is forgotten nothing of it is recorded.                         *)
NothingRecorded ==
    \A c \in LogicalCluster \ (engaged \cup forgetting \cup raced) :
        (op.kind = "forget" /\ op.cluster = c) \/ KnownIn(c) = {}

NamesSomebody ==
    /\ \A k \in BindingKey : bindings[k].subjects \cap Nobody = {}
    /\ op.add \cap Nobody = {}
    /\ \A s \in Nobody : access[s] = {}

PInv == IInv /\ ProviderTypeOK /\ LeftAlone /\ NothingRecorded /\ NamesSomebody

(* The subjects that a binding is taken to name.                           *)
LEMMA SubjectFacts ==
    ASSUME NEW k \in BindingKey, NEW obj \in Object
    PROVE  SubjectsOf(k, obj) \subseteq Subject /\ SubjectsOf(k, obj) \cap Nobody = {}
<1> DEFINE named(rs) == TranslateSubject(rs, k.namespace)
<1>1. obj.subjects \subseteq RBACSubject
  BY DEF Object
<1>2. \A rs \in RBACSubject : named(rs) \subseteq Subject
  BY SubjectAssumption
<1>3. ASSUME NEW rs \in RBACSubject, NEW n, ServiceAccountUser("", n) \in named(rs)
      PROVE  FALSE
  <2>1. \A kind, name : GraphSubject(kind, name) # ServiceAccountUser("", n)
    BY DEF GraphSubject, ServiceAccountUser
  <2>2. \A ns, name : ns # "" => ServiceAccountUser(ns, name) # ServiceAccountUser("", n)
    BY DEF ServiceAccountUser
  <2>3. CASE rs.kind \in {"User", "Group"}
    BY <1>3, <2>1, <2>3 DEF TranslateSubject
  <2>4. CASE rs.kind \notin {"User", "Group"}
    <3> DEFINE ns == IF rs.namespace = "" THEN k.namespace ELSE rs.namespace
    <3>1. ns # "" /\ ServiceAccountUser("", n) = ServiceAccountUser(ns, rs.name)
      BY <1>3, <2>4 DEF TranslateSubject
    <3> HIDE DEF ns
    <3> QED BY <3>1, <2>2
  <2> QED BY <2>3, <2>4
<1>4. SubjectsOf(k, obj) = UNION {named(rs) : rs \in obj.subjects}
  BY DEF SubjectsOf, TranslateSubjects
<1> HIDE DEF named
<1> QED BY <1>1, <1>2, <1>3, <1>4 DEF Nobody

LEMMA NoneFacts == None \in Object /\ ~None.exists
BY DEF None, Object

LEMMA ProviderInitially == ProviderInit => PInv
<1> SUFFICES ASSUME ProviderInit PROVE PInv
  OBVIOUS
<1> USE DEF ProviderInit
<1>1. IInv /\ BindingKey # {}
  BY InitInv DEF Init, TranslatorInit
<1>2. \A ctl \in Controller : worker[ctl] \in Work /\ ~worker[ctl].busy
  <2>1. (CHOOSE k \in BindingKey : TRUE) \in BindingKey
    BY <1>1
  <2> QED BY <2>1, NoneFacts DEF Work
<1>3. ProviderTypeOK
  <2>1. source \in [BindingKey -> Object] /\ changes \in 0..MaxChanges
    BY ObjectAssumption
  <2>2. worker \in [Controller -> Work]
    BY <1>2
  <2> QED BY <1>1, <2>1, <2>2, NoneFacts DEF ProviderTypeOK, IInv
<1>4. LeftAlone
  BY <1>2 DEF LeftAlone
<1>5. /\ \A k \in BindingKey : ~bindings[k].known /\ bindings[k].subjects = {}
      /\ \A s \in Subject : access[s] = {}
      /\ op.add = {}
  BY DEF Init, TranslatorInit, GraphInit, Absent
<1>6. NothingRecorded /\ NamesSomebody
  BY <1>5 DEF NothingRecorded, NamesSomebody, KnownIn, Nobody
<1> QED BY <1>1, <1>3, <1>4, <1>6 DEF PInv

(* What a provider's step may do to the translator and its worker.         *)
LEMMA ProviderStepIsTranslators == ASSUME PInv, ProviderNext PROVE [Next]_vars
<1>1. ASSUME NEW ctl \in Controller, ReconcileTranslate(ctl) PROVE [Next]_vars
  <2> DEFINE k == worker[ctl].key
             obj == worker[ctl].obj
  <2>1. k \in BindingKey /\ obj \in Object /\ k.cluster \in LogicalCluster
    BY DEF PInv, ProviderTypeOK, Work
  <2>2. SubjectsOf(k, obj) \in SUBSET Subject /\ EndpointFor[k.cluster] \in Endpoint
    BY <2>1, SubjectFacts, EndpointForAssumption
  <2> HIDE DEF k, obj
  <2>3. ApplyBegin(k, SubjectsOf(k, obj), EndpointFor[k.cluster]) => Next
    BY <2>1, <2>2 DEF Next
  <2>4. RemoveBegin(k) => Next
    BY <2>1 DEF Next
  <2> QED BY <1>1, <2>3, <2>4 DEF ReconcileTranslate, k, obj
<1>2. ASSUME NEW c \in LogicalCluster, ForgetCluster(c) PROVE Next
  BY <1>2 DEF ForgetCluster, Next
<1>3. TranslatorStep => Next
  BY DEF TranslatorStep, Next
<1> QED BY <1>1, <1>2, <1>3
        DEF ProviderNext, WriteBinding, ChangeFleet, OnAdd, OnDelete, Deliver, ReconcileRead,
            SetReady

LEMMA ProviderTypesKept == ASSUME PInv, ProviderNext PROVE ProviderTypeOK'
<1> USE DEF ProviderTypeOK, PInv
<1>1. TypeOK'
  BY ProviderStepIsTranslators, StepInv DEF IInv
<1>2. \A ctl \in Controller : worker[ctl].key \in BindingKey
  BY DEF Work
<1>3. ASSUME changes < MaxChanges, changes' = changes + 1 PROVE changes' \in 0..MaxChanges
  BY <1>3, ObjectAssumption
<1>4. ASSUME NEW k \in BindingKey, NEW obj \in Object, WriteBinding(k, obj) PROVE ProviderTypeOK'
  BY <1>1, <1>3, <1>4 DEF WriteBinding, providerVars
<1>5. ASSUME NEW k \in BindingKey PROVE ControllerOf(k) \in Controller
  BY DEF ControllerOf, Controller
<1>6. ASSUME NEW c \in LogicalCluster,
             ChangeFleet(c) \/ OnAdd(c) \/ OnDelete(c) \/ ForgetCluster(c)
      PROVE  ProviderTypeOK'
  <2>1. CASE ChangeFleet(c)
    BY <1>1, <1>3, <2>1 DEF ChangeFleet, providerVars
  <2>2. CASE OnAdd(c)
    BY <1>1, <2>2, NoneFacts DEF OnAdd, envVars
  <2>3. CASE OnDelete(c)
    BY <1>1, <2>3 DEF OnDelete, envVars
  <2>4. CASE ForgetCluster(c)
    BY <1>1, <2>4 DEF ForgetCluster, envVars
  <2> QED BY <1>6, <2>1, <2>2, <2>3, <2>4
<1>7. ASSUME NEW k \in BindingKey, Deliver(k) PROVE ProviderTypeOK'
  BY <1>1, <1>7 DEF Deliver, envVars
<1>8. ASSUME NEW k \in BindingKey, ReconcileRead(k) PROVE ProviderTypeOK'
  <2> DEFINE w == [busy |-> TRUE, key |-> k, obj |-> cached[k]]
  <2>1. w \in Work
    BY DEF Work
  <2>2. worker' \in {worker, [worker EXCEPT ![ControllerOf(k)] = w]}
    BY <1>8 DEF ReconcileRead
  <2>3. worker' \in [Controller -> Work]
    BY <1>5, <2>1, <2>2
  <2> QED BY <1>1, <1>8, <2>3 DEF ReconcileRead, envVars
<1>9. ASSUME NEW ctl \in Controller, ReconcileTranslate(ctl) PROVE ProviderTypeOK'
  <2>1. [worker EXCEPT ![ctl].busy = FALSE, ![ctl].obj = None] \in [Controller -> Work]
    BY NoneFacts DEF Work
  <2> QED BY <1>1, <1>9, <2>1 DEF ReconcileTranslate, envVars
<1>10. CASE SetReady
  BY <1>1, <1>10 DEF SetReady, envVars
<1>11. CASE TranslatorStep
  BY <1>1, <1>11 DEF TranslatorStep, envVars, providerVars
<1>12. ASSUME NEW S \in SUBSET RBACSubject PROVE [exists |-> TRUE, subjects |-> S] \in Object
  BY DEF Object
<1> QED BY <1>4, <1>6, <1>7, <1>8, <1>9, <1>10, <1>11, <1>12, NoneFacts DEF ProviderNext

LEMMA LeftAloneKept == ASSUME PInv, ProviderNext PROVE LeftAlone'
<1> USE DEF LeftAlone
<1>1. LeftAlone /\ worker \in [Controller -> Work]
  BY DEF PInv, ProviderTypeOK
<1>2. CASE UNCHANGED <<worker, engaged, raced>>
  BY <1>1, <1>2
<1>3. ASSUME NEW c \in LogicalCluster, OnAdd(c) PROVE LeftAlone'
  BY <1>1, <1>3 DEF OnAdd
<1>4. ASSUME NEW c \in LogicalCluster, OnDelete(c) PROVE LeftAlone'
  <2> SUFFICES ASSUME NEW d \in LogicalCluster, d \notin engaged', d \notin raced',
                      NEW ctl \in Controller, worker[ctl].busy
               PROVE  worker[ctl].key.cluster # d
    BY <1>4 DEF OnDelete
  <2>1. CASE d = c
    BY <1>4, <2>1 DEF OnDelete
  <2>2. CASE d # c
    BY <1>1, <1>4, <2>2 DEF OnDelete
  <2> QED BY <2>1, <2>2
<1>5. ASSUME NEW k \in BindingKey, ReconcileRead(k) PROVE LeftAlone'
  <2>1. CASE k.cluster \in engaged
    <3> DEFINE w == [busy |-> TRUE, key |-> k, obj |-> cached[k]]
    <3>1. worker' = [worker EXCEPT ![ControllerOf(k)] = w] /\ UNCHANGED <<engaged, raced>>
      BY <1>5, <2>1 DEF ReconcileRead
    <3>2. w.key = k
      OBVIOUS
    <3> HIDE DEF w
    <3> QED BY <1>1, <2>1, <3>1, <3>2
  <2>2. CASE k.cluster \notin engaged
    BY <1>1, <1>5, <2>2 DEF ReconcileRead
  <2> QED BY <2>1, <2>2
<1>6. ASSUME NEW ctl \in Controller, ReconcileTranslate(ctl) PROVE LeftAlone'
  <2>1. \A d \in Controller : worker'[d].busy => worker'[d] = worker[d]
    BY <1>1, <1>6 DEF ReconcileTranslate, Work
  <2> QED BY <1>1, <1>6, <2>1 DEF ReconcileTranslate
<1> QED BY <1>2, <1>3, <1>4, <1>5, <1>6
        DEF ProviderNext, WriteBinding, ChangeFleet, ForgetCluster, Deliver, SetReady,
            TranslatorStep, providerVars

(* A binding is recorded only for a cluster that may still be shown, and   *)
(* what is being forgotten is until nothing of it is recorded.             *)
LEMMA NothingRecordedKept == ASSUME PInv, ProviderNext PROVE NothingRecorded'
<1> USE DEF NothingRecorded, KnownIn
<1>1. /\ NothingRecorded /\ LeftAlone /\ op \in Op /\ bindings \in [BindingKey -> BindingState]
      /\ worker \in [Controller -> Work]
  BY DEF PInv, IInv, TypeOK, ProviderTypeOK
<1>2. CASE UNCHANGED <<op, bindings, engaged, forgetting, raced>>
  BY <1>1, <1>2
<1>3. ASSUME NEW c \in LogicalCluster, OnAdd(c) \/ OnDelete(c) PROVE NothingRecorded'
  BY <1>1, <1>3 DEF OnAdd, OnDelete, vars
<1>4. ASSUME NEW c \in LogicalCluster, ForgetCluster(c) PROVE NothingRecorded'
  <2>1. op'.kind = "forget" /\ op'.cluster = c /\ UNCHANGED <<bindings, engaged, raced>>
    BY <1>1, <1>4 DEF ForgetCluster, ForgetBegin, Op
  <2> QED BY <1>1, <1>4, <2>1 DEF ForgetCluster, ForgetBegin, Idle
<1>5. ASSUME NEW ctl \in Controller, ReconcileTranslate(ctl) PROVE NothingRecorded'
  <2> DEFINE k == worker[ctl].key
  <2>1. /\ k \in BindingKey /\ worker[ctl].busy /\ UNCHANGED <<engaged, forgetting, raced>>
        /\ k.cluster \in LogicalCluster
    BY <1>1, <1>5 DEF ReconcileTranslate, envVars, Work
  <2>2. k.cluster \in engaged \cup raced
    BY <1>1, <2>1 DEF LeftAlone
  <2>3. Idle
    BY <1>5 DEF ReconcileTranslate, ApplyBegin, RemoveBegin
  <2>4. \A j \in BindingKey : j # k => bindings'[j] = bindings[j]
    BY <1>1, <1>5 DEF ReconcileTranslate, ApplyBegin, RemoveBegin, vars
  <2> HIDE DEF k
  <2> QED BY <1>1, <2>1, <2>2, <2>3, <2>4 DEF Idle
<1>6. CASE TranslatorStep
  <2>1. UNCHANGED <<engaged, forgetting, raced>> /\ Proceed
    BY <1>6 DEF TranslatorStep, providerVars
  <2>2. \A k \in BindingKey : bindings'[k].known => bindings[k].known
    BY <1>1, <2>1
    DEF Proceed, DecrementRef, IncrementRef, ApplyEnd, RemoveEnd, ForgetNext, ForgetEnd, Absent
  <2>3. \/ op'.kind = op.kind /\ op'.cluster = op.cluster
        \/ op.kind # "forget"
        \/ KnownIn(op.cluster) = {}
    BY <1>1, <2>1
    DEF Proceed, DecrementRef, IncrementRef, ApplyEnd, RemoveEnd, ForgetNext, ForgetEnd, Op
  <2> QED BY <1>1, <2>1, <2>2, <2>3
<1> QED BY <1>2, <1>3, <1>4, <1>5, <1>6
        DEF ProviderNext, WriteBinding, ChangeFleet, Deliver, ReconcileRead, SetReady,
            providerVars, vars

LEMMA NamesSomebodyKept == ASSUME PInv, ProviderNext PROVE NamesSomebody'
<1> USE DEF NamesSomebody
<1>1. /\ NamesSomebody /\ op \in Op /\ bindings \in [BindingKey -> BindingState]
      /\ access \in [Subject -> SUBSET LogicalCluster]
  BY DEF PInv, IInv, TypeOK, GraphTypeOK
<1>2. CASE UNCHANGED vars
  BY <1>1, <1>2 DEF vars
<1>3. ASSUME NEW c \in LogicalCluster, ForgetCluster(c) PROVE NamesSomebody'
  <2>1. op'.add = {} /\ UNCHANGED <<access, bindings>>
    BY <1>1, <1>3 DEF ForgetCluster, ForgetBegin, Op
  <2> QED BY <1>1, <2>1
<1>4. ASSUME NEW ctl \in Controller, ReconcileTranslate(ctl) PROVE NamesSomebody'
  <2> DEFINE k == worker[ctl].key
             S == SubjectsOf(k, worker[ctl].obj)
  <2>1. k \in BindingKey /\ worker[ctl].obj \in Object
    BY DEF PInv, ProviderTypeOK, Work
  <2>2. S \cap Nobody = {}
    BY <2>1, SubjectFacts
  <2> HIDE DEF k, S
  <2>3. CASE ApplyBegin(k, S, EndpointFor[k.cluster])
    <3>1. /\ op'.add \subseteq S /\ UNCHANGED access /\ bindings'[k].subjects = S
          /\ \A j \in BindingKey : j # k => bindings'[j] = bindings[j]
      BY <1>1, <2>1, <2>3 DEF ApplyBegin
    <3> QED BY <1>1, <2>2, <3>1
  <2>4. CASE RemoveBegin(k)
    <3>1. /\ op'.add = {} /\ UNCHANGED access /\ bindings'[k].subjects = {}
          /\ \A j \in BindingKey : j # k => bindings'[j] = bindings[j]
      BY <1>1, <2>1, <2>4 DEF RemoveBegin, Absent
    <3> QED BY <1>1, <3>1
  <2> QED BY <1>2, <1>4, <2>3, <2>4 DEF ReconcileTranslate, k, S
<1>5. CASE TranslatorStep
  <2>1. Proceed
    BY <1>5 DEF TranslatorStep
  <2>2. /\ op'.add \subseteq op.add
        /\ \A k \in BindingKey : bindings'[k].subjects \subseteq bindings[k].subjects
    <3>1. ASSUME NEW s \in Subject, DecrementRef(s) \/ IncrementRef(s)
          PROVE  op'.add \subseteq op.add /\ UNCHANGED bindings
      BY <1>1, <3>1 DEF DecrementRef, IncrementRef, Op
    <3>2. CASE ApplyEnd \/ RemoveEnd \/ ForgetEnd
      BY <1>1, <3>2 DEF ApplyEnd, RemoveEnd, ForgetEnd, Release, Op
    <3>3. ASSUME NEW k \in BindingKey, ForgetNext(k)
          PROVE  /\ op'.add = op.add /\ bindings'[k].subjects = {}
                 /\ \A j \in BindingKey : j # k => bindings'[j] = bindings[j]
      BY <1>1, <3>3 DEF ForgetNext, Absent, Op
    <3> QED BY <2>1, <3>1, <3>2, <3>3 DEF Proceed
  <2>3. ASSUME NEW s \in Nobody PROVE access'[s] = {}
    <3>1. s \in Subject /\ access[s] = {} /\ s \notin op.add
      BY <1>1 DEF Nobody
    <3> QED BY <1>1, <2>1, <3>1
        DEF Proceed, DecrementRef, IncrementRef, ApplyEnd, RemoveEnd, ForgetNext, ForgetEnd,
            Grant, Revoke, SetEndpoint, Forget, graphVars
  <2> QED BY <1>1, <2>2, <2>3
<1> QED BY <1>2, <1>3, <1>4, <1>5
        DEF ProviderNext, WriteBinding, ChangeFleet, OnAdd, OnDelete, Deliver, ReconcileRead,
            SetReady, TranslatorStep, providerVars

LEMMA ProviderInvKept == ASSUME PInv, [ProviderNext]_allVars PROVE PInv'
<1>1. CASE ProviderNext
  <2>1. IInv'
    BY <1>1, ProviderStepIsTranslators, StepInv DEF PInv
  <2> QED BY <1>1, <2>1, ProviderTypesKept, LeftAloneKept, NothingRecordedKept, NamesSomebodyKept
          DEF PInv
<1>2. CASE UNCHANGED allVars
  <2>1. UNCHANGED vars /\ UNCHANGED <<source, fleet, changes>>
        /\ UNCHANGED <<engaged, cached, queue, worker, forgetting, ready, raced>>
    BY <1>2 DEF allVars, envVars, providerVars
  <2>2. IInv' /\ UNCHANGED <<op, bindings, access>>
    BY <2>1, StepInv DEF PInv, vars
  <2> QED BY <2>1, <2>2
          DEF PInv, IInv, ProviderTypeOK, LeftAlone, NothingRecorded, NamesSomebody, KnownIn
<1> QED BY <1>1, <1>2

THEOREM ProviderConsistency == ProviderSpec => []PInv
BY ProviderInitially, ProviderInvKept, PTL DEF ProviderSpec

(* The provider, with its clusters that come and go, its stale reads and   *)
(* its two workers, only ever does to the translator what the translator's *)
(* specification allows: what is proved of that holds of the provider.     *)
THEOREM ProviderImplementsTranslator == ProviderSpec => Init /\ [][Next]_vars
<1>1. ProviderInit => Init
  BY DEF ProviderInit
<1>2. ASSUME PInv, [ProviderNext]_allVars PROVE [Next]_vars
  BY <1>2, ProviderStepIsTranslators DEF allVars
<1> QED BY <1>1, <1>2, ProviderConsistency, PTL DEF ProviderSpec

(* Between two translator calls the graph shows nothing of a cluster that  *)
(* has left and is forgotten, unless a reconcile of it was under way when  *)
(* it left, and never an identity that nobody has.                         *)
THEOREM ForgottenAndReal == ProviderSpec => []ProviderInv
<1>1. ASSUME PInv PROVE ForgottenStaysForgotten
  <2> SUFFICES ASSUME Idle, NEW c \in LogicalCluster, c \notin engaged \cup forgetting \cup raced,
                      NEW s \in Subject, c \in access[s]
               PROVE  FALSE
    BY DEF ForgottenStaysForgotten
  <2>1. KnownIn(c) = {}
    BY <1>1 DEF PInv, NothingRecorded, Idle
  <2>2. PICK k \in BindingKey : k \in refs[s][c]
    BY <1>1 DEF PInv, IInv, EdgesAreRefs, TypeOK
  <2>3. k.cluster = c /\ s \in bindings[k].subjects
    BY <1>1, <2>2 DEF PInv, IInv, RefsExact, OpConsistent, Idle
  <2> QED BY <1>1, <2>1, <2>2, <2>3 DEF PInv, IInv, OpConsistent, KnownIn
<1>2. ASSUME PInv PROVE OnlyRealIdentities
  BY <1>2 DEF PInv, NamesSomebody, Nobody, OnlyRealIdentities
<1>3. PInv => ProviderInv
  BY <1>1, <1>2 DEF ProviderInv, PInv
<1> QED BY <1>3, ProviderConsistency, PTL
=============================================================================

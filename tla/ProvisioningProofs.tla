-------------------------- MODULE ProvisioningProofs -------------------------
(***************************************************************************)
(* What the tenancy operator promises of a tenant's workspace, for any     *)
(* tenants, names, naming strategy, lag of the two caches and number of    *)
(* events: Ready is the truth, a workspace is deleted for its own tenant   *)
(* only, the finalizer holds until it is gone, and a tenant marked as      *)
(* seeded has been seeded.                                                 *)
(***************************************************************************)
EXTENDS Provisioning, TLAPS

LivePhase == {"addFinalizer", "ensure", "writeStatus", "seed", "mark"}
DeletePhase == {"deleteWorkspace", "removeFinalizer"}

Busy(t) == worker.tenant = t /\ worker.at # "idle"

(* Nothing will be provisioned for t any more: the cache has its deletion, *)
(* and no reconcile that began before is still under way.                  *)
Withdrawn(t) ==
    cache[t].life \in {"deleting", "gone"} /\ ~(worker.tenant = t /\ worker.at \in LivePhase)

(* A copy that counts as current is. *)
CopiesTrue ==
    /\ \A t \in current : cache[t] = obj[t]
    /\ worker.fresh => worker.at # "idle" /\ worker.copy = obj[worker.tenant]

(* The cache is behind the object, never ahead of it. *)
LifeOrder ==
    \A t \in Tenant : /\ cache[t].life = "deleting" => obj[t].life \in {"deleting", "gone"}
                      /\ cache[t].life = "gone" => obj[t].life = "gone"

(* An object whose deletion is still to be handled, or is being handled,   *)
(* is there: only the last step of that removes it.                        *)
Held ==
    /\ \A t \in Tenant : cache[t].life = "deleting" /\ (t \in queue \/ Busy(t))
                            => obj[t].life = "deleting"
    /\ worker.at \in DeletePhase =>
          /\ cache[worker.tenant].life = "deleting" /\ worker.copy.life = "deleting"
          /\ worker.fresh => worker.tenant \in current \ queue

Owned(w) == w.life = "none" <=> w.owner = NoOwner

(* A cached workspace that is still there has the owner it had, and one    *)
(* cached as ready still is, unless its tenant is withdrawn.               *)
SeenAt(n) ==
    /\ Owned(ws[n]) /\ Owned(wsCache[n])
    /\ wsCache[n].life # "none" /\ ws[n].life # "none" => ws[n].owner = wsCache[n].owner
    /\ wsCache[n].life = "ready" => ws[n] = wsCache[n] \/ Withdrawn(wsCache[n].owner)

Seen == \A n \in WorkspaceName : SeenAt(n)

Ready(t) == [life |-> "ready", owner |-> t]

(* t has the ready workspace n and the cache knows, or t is withdrawn and  *)
(* the cache knows whether n is still there.                               *)
Served(t, n) ==
    /\ ws[n].owner = t => wsCache[n].owner = t
    /\ (ws[n] = Ready(t) /\ wsCache[n] = Ready(t)) \/ Withdrawn(t)

StatusTrue(s, t) ==
    s.phase = "Ready" => s.workspace \in WorkspaceName /\ Served(t, s.workspace)

(* Every copy of a status is true, however old, and so is the one that is  *)
(* about to be written.                                                    *)
Statuses ==
    /\ \A t \in Tenant : StatusTrue(obj[t].status, t) /\ StatusTrue(cache[t].status, t)
    /\ StatusTrue(worker.copy.status, worker.tenant)
    /\ StatusTrue(worker.status, worker.tenant)
    /\ worker.at = "removeFinalizer" /\ worker.copy.status.phase = "Ready"
          => ws[worker.copy.status.workspace].owner # worker.tenant

(* No copy is marked as seeded before the tenant is. *)
Marked ==
    /\ \A t \in Tenant : obj[t].seeded \/ cache[t].seeded => t \in grant \cup revoked
    /\ worker.copy.seeded \/ worker.at = "mark" => worker.tenant \in grant \cup revoked

Inv == TypeOK /\ CopiesTrue /\ LifeOrder /\ Held /\ Seen /\ Statuses /\ Marked

-----------------------------------------------------------------------------
(* Types.                                                                  *)

LEMMA ObjectFacts ==
    /\ NewStatus \in Status
    /\ \A title \in Title \cup {NoTitle}, life \in {"absent", "live", "gone"} :
          NewObject(title, life) \in Object
    /\ Gone \in Object
    /\ \A o \in Object : /\ [o EXCEPT !.finalizer = TRUE] \in Object
                         /\ [o EXCEPT !.seeded = TRUE] \in Object
                         /\ [o EXCEPT !.life = "deleting"] \in Object
    /\ \A o \in Object, title \in Title \cup {NoTitle} : [o EXCEPT !.title = title] \in Object
    /\ \A o \in Object, s \in Status : [o EXCEPT !.status = s] \in Object
  <1>1. NewStatus \in Status
    BY DEF NewStatus, Status, Phase
  <1> QED
    BY <1>1 DEF NewObject, Gone, Object

LEMMA WorkspaceFacts ==
    /\ NoWS \in Workspace
    /\ \A t \in Tenant : [life |-> "new", owner |-> t] \in Workspace
    /\ \A w \in Workspace : /\ [w EXCEPT !.life = "ready"] \in Workspace
                            /\ [w EXCEPT !.life = "deleting"] \in Workspace
  BY DEF NoWS, Workspace

(* A candidate is a name, and there are at most two. *)
LEMMA ProposeFacts ==
    ASSUME NEW title \in Title \cup {NoTitle}, NEW t \in Tenant
    PROVE  /\ Len(Propose(title, t)) \in 1..2
           /\ \A i \in 1..Len(Propose(title, t)) : Propose(title, t)[i] \in WorkspaceName
  BY DEF Propose, WorkspaceName

LEMMA StatusFacts ==
    /\ \A n \in WorkspaceName, p \in Phase : [phase |-> p, workspace |-> n] \in Status
    /\ [phase |-> "Error", workspace |-> NoWorkspace] \in Status
  BY DEF Status, Phase

LEMMA WorkerFacts ==
    /\ \A t \in Tenant : IdleWorker(t) \in Worker
    /\ \A w \in Worker : [w EXCEPT !.fresh = FALSE] \in Worker
    /\ \A w \in Worker, step \in Step : [w EXCEPT !.at = step] \in Worker
    /\ \A w \in Worker, step \in Step, o \in Object :
          [w EXCEPT !.copy = o, !.at = step] \in Worker
    /\ \A w \in Worker, step \in Step, o \in Object :
          [w EXCEPT !.at = step, !.copy = o] \in Worker
    /\ \A w \in Worker, s \in Status :
          [w EXCEPT !.at = "writeStatus", !.status = s] \in Worker
    /\ \A w \in Worker, i \in 1..3 : [w EXCEPT !.try = i] \in Worker
    /\ \A t \in Tenant, step \in Step, o \in Object, b \in BOOLEAN :
          [IdleWorker(t) EXCEPT !.at = step, !.copy = o, !.fresh = b] \in Worker
  <1>1. NewObject(NoTitle, "absent") \in Object /\ NewStatus \in Status
    BY ObjectFacts
  <1>2. \A t \in Tenant : IdleWorker(t) \in Worker
    BY <1>1 DEF IdleWorker, Worker, Step
  <1>3. \A w \in Worker : [w EXCEPT !.fresh = FALSE] \in Worker
    BY DEF Worker
  <1>4. \A w \in Worker, step \in Step : [w EXCEPT !.at = step] \in Worker
    BY DEF Worker
  <1>5. ASSUME NEW w \in Worker, NEW step \in Step, NEW o \in Object
        PROVE  /\ [w EXCEPT !.copy = o, !.at = step] \in Worker
               /\ [w EXCEPT !.at = step, !.copy = o] \in Worker
               /\ \A b \in BOOLEAN : [w EXCEPT !.at = step, !.copy = o, !.fresh = b] \in Worker
    BY DEF Worker
  <1>6. \A w \in Worker, s \in Status :
           [w EXCEPT !.at = "writeStatus", !.status = s] \in Worker
    BY DEF Worker, Step
  <1>7. \A w \in Worker, i \in 1..3 : [w EXCEPT !.try = i] \in Worker
    BY DEF Worker
  <1> QED
    BY <1>2, <1>3, <1>4, <1>5, <1>6, <1>7, Zenon

LEMMA Initially == Init => Inv
  <1> SUFFICES ASSUME Init PROVE Inv
    OBVIOUS
  <1>1. PICK t \in Tenant : worker = IdleWorker(t)
    BY DEF Init
  <1>2. NewObject(NoTitle, "absent") \in Object
    BY ObjectFacts
  <1>3. NoWS \in Workspace
    BY WorkspaceFacts
  <1>4. TypeOK
    <2>1. obj \in [Tenant -> Object] /\ cache \in [Tenant -> Object]
      BY <1>2 DEF Init
    <2>2. ws \in [WorkspaceName -> Workspace] /\ wsCache \in [WorkspaceName -> Workspace]
      BY <1>3 DEF Init
    <2>3. worker \in Worker /\ events \in 0..MaxEvents
      <3>1. IdleWorker(t) \in Worker
        BY WorkerFacts, Zenon
      <3>2. events = 0
        BY DEF Init
      <3> QED
        BY <1>1, <3>1, <3>2, EventsAssumption
    <2> QED
      BY <2>1, <2>2, <2>3 DEF Init, TypeOK
  <1>5. \A u \in Tenant : /\ obj[u] = NewObject(NoTitle, "absent")
                          /\ cache[u] = NewObject(NoTitle, "absent")
    BY DEF Init
  <1>6. CopiesTrue /\ LifeOrder /\ Held
    BY <1>1, <1>5 DEF Init, CopiesTrue, LifeOrder, Held, Busy, DeletePhase, IdleWorker, NewObject
  <1>7. Seen
    BY DEF Init, Seen, SeenAt, Owned, NoWS
  <1>8. Statuses
    <2>1. /\ worker.copy.status.phase = "" /\ worker.status.phase = ""
          /\ worker.at = "idle"
      BY <1>1 DEF IdleWorker, NewObject, NewStatus
    <2>2. \A u \in Tenant : obj[u].status.phase = "" /\ cache[u].status.phase = ""
      <3>1. NewObject(NoTitle, "absent").status.phase = ""
        BY DEF NewObject, NewStatus
      <3> QED
        BY <1>5, <3>1
    <2> QED
      BY <2>1, <2>2 DEF Statuses, StatusTrue
  <1>9. Marked
    BY <1>1, <1>5 DEF Marked, IdleWorker, NewObject
  <1> QED
    BY <1>4, <1>6, <1>7, <1>8, <1>9 DEF Inv

-----------------------------------------------------------------------------
(* What the steps do to the objects and to the cache of them.              *)

(* Either the cache has everything, or nothing that it counts as current   *)
(* has changed.                                                            *)
CacheStep ==
    \/ cache' = obj'
    \/ /\ cache' = cache /\ current' \subseteq current
       /\ \A t \in current' : obj'[t] = obj[t]

(* Nothing comes to the queue that was not at work, or all is cached.      *)
QueueStep ==
    \/ cache' = obj'
    \/ queue' \subseteq queue \cup {t \in Tenant : Busy(t)}

ObjectTypeOK ==
    /\ obj \in [Tenant -> Object] /\ cache \in [Tenant -> Object]
    /\ current \subseteq Tenant /\ queue \subseteq Tenant

LEMMA VersionStep ==
    ASSUME ObjectTypeOK, NEW t \in Tenant, NEW o \in Object, NEW again \in SUBSET Tenant,
           NewVersion(t, o, again)
    PROVE  /\ ObjectTypeOK' /\ CacheStep
           /\ obj' = [obj EXCEPT ![t] = o]
           /\ current \ {t} \subseteq current' /\ queue' \subseteq queue \cup again \cup {t}
           /\ cache' = obj' \/ (queue' = queue \cup again /\ current' = current \ {t})
  <1>1. obj' = [obj EXCEPT ![t] = o] /\ obj' \in [Tenant -> Object]
    BY DEF ObjectTypeOK, NewVersion
  <1>2. CASE "tenants" \in Lagging
    <2>1. current' = current \ {t} /\ queue' = queue \cup again /\ cache' = cache
      BY <1>2 DEF NewVersion, Enqueue
    <2>2. \A u \in current' : obj'[u] = obj[u]
      BY <1>1, <2>1 DEF ObjectTypeOK
    <2> QED
      BY <1>1, <2>1, <2>2 DEF ObjectTypeOK, CacheStep
  <1>3. CASE "tenants" \notin Lagging
    <2>1. /\ current' = current /\ queue' = queue \cup (again \cup {t})
          /\ cache' = obj'
      BY <1>3 DEF NewVersion, Enqueue
    <2> QED
      BY <1>1, <2>1 DEF ObjectTypeOK, CacheStep
  <1> QED
    BY <1>2, <1>3

(* A new version: written by a user, or by the worker, which adds what it  *)
(* has done or takes the finalizer away.                                   *)
UserVersion(t) ==
    /\ obj[t].life \in {"absent", "live"} /\ obj'[t].life \in {"live", "deleting", "gone"}
    /\ obj'[t].status \in {obj[t].status, NewStatus}
    /\ obj'[t].seeded => obj[t].seeded

WorkerVersion(t) ==
    /\ t = worker.tenant /\ worker.at \in LivePhase
    /\ obj'[t].life = obj[t].life
    /\ obj'[t].status \in {obj[t].status, worker.status}
    /\ obj'[t].seeded => obj[t].seeded \/ worker.at = "mark"

LastVersion(t) ==
    /\ t = worker.tenant /\ worker.at = "removeFinalizer" /\ worker.fresh
    /\ obj'[t] = Gone /\ worker' = IdleWorker(t)
    /\ cache' = obj' \/ queue' = queue

Versions ==
    \A t \in Tenant : \/ obj'[t] = obj[t] 
                      \/ UserVersion(t) \/ WorkerVersion(t) \/ LastVersion(t)

LEMMA GoneFacts ==
    Gone.life = "gone" /\ Gone.status = NewStatus /\ ~Gone.seeded /\ NewStatus.phase = ""
  BY DEF Gone, NewObject, NewStatus

(* What a user's write changes. *)
LEMMA UserWrites ==
    ASSUME TypeOK, NEW t \in Tenant, NEW title \in Title \cup {NoTitle},
           CreateTenant(t, title) \/ RenameTenant(t, title) \/ DeleteTenant(t)
    PROVE  /\ ObjectTypeOK' /\ CacheStep /\ QueueStep /\ UserVersion(t)
           /\ obj' = [obj EXCEPT ![t] = obj'[t]]
           /\ worker' \in {worker, [worker EXCEPT !.fresh = FALSE]}
           /\ worker.tenant = t => ~worker'.fresh
           /\ current \ {t} \subseteq current' /\ queue' \subseteq queue \cup {t}
           /\ events' \in 0..MaxEvents
           /\ UNCHANGED <<ws, wsCache, grant, revoked>>
  <1>1. ObjectTypeOK /\ worker \in Worker /\ obj[t] \in Object
    BY DEF TypeOK, ObjectTypeOK
  <1>2. ASSUME NEW o \in Object, WriteByUser(t, o), obj[t].life \in {"absent", "live"},
               o.life \in {"live", "deleting", "gone"},
               o.status \in {obj[t].status, NewStatus}, o.seeded => obj[t].seeded
        PROVE  /\ ObjectTypeOK' /\ CacheStep /\ QueueStep /\ UserVersion(t)
               /\ obj' = [obj EXCEPT ![t] = obj'[t]]
               /\ worker' \in {worker, [worker EXCEPT !.fresh = FALSE]}
               /\ worker.tenant = t => ~worker'.fresh
               /\ current \ {t} \subseteq current' /\ queue' \subseteq queue \cup {t}
               /\ UNCHANGED <<ws, wsCache, grant, revoked>>
    <2>1. /\ ObjectTypeOK' /\ CacheStep
          /\ obj' = [obj EXCEPT ![t] = o]
          /\ current \ {t} \subseteq current' /\ queue' \subseteq queue \cup {t}
          /\ cache' = obj' \/ (queue' = queue \cup {} /\ current' = current \ {t})
      <3>1. NewVersion(t, o, {}) /\ {} \in SUBSET Tenant
        BY <1>2 DEF WriteByUser
      <3>2. queue \cup {} \cup {t} = queue \cup {t}
        OBVIOUS
      <3> QED
        BY <1>1, <1>2, <3>1, <3>2, VersionStep
    <2>2. obj'[t] = o
      BY <1>1, <2>1 DEF ObjectTypeOK
    <2>3. UserVersion(t)
      BY <1>2, <2>2 DEF UserVersion
    <2>4. /\ worker' \in {worker, [worker EXCEPT !.fresh = FALSE]}
          /\ worker.tenant = t => ~worker'.fresh
      BY <1>1, <1>2 DEF WriteByUser, Worker
    <2>5. QueueStep
      BY <2>1 DEF QueueStep
    <2>6. obj' = [obj EXCEPT ![t] = obj'[t]]
      BY <2>1, <2>2
    <2>7. UNCHANGED <<ws, wsCache, grant, revoked>>
      BY <1>2 DEF WriteByUser
    <2> QED
      BY <2>1, <2>3, <2>4, <2>5, <2>6, <2>7
  <1>3. CASE CreateTenant(t, title)
    <2>1. /\ NewObject(title, "live") \in Object
          /\ NewObject(title, "live").life = "live"
          /\ NewObject(title, "live").status = NewStatus
          /\ ~NewObject(title, "live").seeded
      BY ObjectFacts DEF NewObject
    <2>2. events' \in 0..MaxEvents
      BY <1>3 DEF CreateTenant, TypeOK
    <2> QED
      BY <1>2, <1>3, <2>1, <2>2 DEF CreateTenant
  <1>4. events' \in 0..MaxEvents \/ ~Event
    BY EventsAssumption DEF TypeOK, Event
  <1>5. CASE RenameTenant(t, title)
    <2> DEFINE o == [obj[t] EXCEPT !.title = title]
    <2>1. o \in Object /\ o.life = "live" /\ o.status = obj[t].status /\ o.seeded = obj[t].seeded
      BY <1>1, <1>5, ObjectFacts DEF Object, RenameTenant
    <2> QED
      BY <1>2, <1>4, <1>5, <2>1 DEF RenameTenant
  <1>6. CASE DeleteTenant(t)
    <2> DEFINE d == [obj[t] EXCEPT !.life = "deleting"]
    <2>1. d \in Object /\ d.life = "deleting" /\ d.status = obj[t].status
             /\ d.seeded = obj[t].seeded
      BY <1>1, ObjectFacts DEF Object
    <2>2. CASE obj[t].finalizer
      BY <1>2, <1>4, <1>6, <2>1, <2>2 DEF DeleteTenant
    <2>3. CASE ~obj[t].finalizer
      BY <1>2, <1>4, <1>6, <2>3, ObjectFacts, GoneFacts DEF DeleteTenant
    <2> QED
      BY <2>2, <2>3
  <1> QED
    BY <1>3, <1>5, <1>6

(* What a write of the worker changes, and a call that writes nothing.     *)
LEMMA WorkerWrites ==
    ASSUME TypeOK, NEW o \in Object, NEW again \in {{}, {worker.tenant}},
           NewVersion(worker.tenant, o, again), worker.at \in LivePhase,
           o.life = obj[worker.tenant].life,
           o.status \in {obj[worker.tenant].status, worker.status},
           o.seeded => obj[worker.tenant].seeded \/ worker.at = "mark"
    PROVE  /\ ObjectTypeOK' /\ CacheStep /\ QueueStep /\ Versions
           /\ obj'[worker.tenant] = o
  <1> DEFINE t == worker.tenant
  <1>1. t \in Tenant /\ ObjectTypeOK
    BY DEF TypeOK, ObjectTypeOK, Worker
  <1>2. again \in SUBSET Tenant
    BY <1>1
  <1>3. /\ ObjectTypeOK' /\ CacheStep
        /\ obj' = [obj EXCEPT ![t] = o]
        /\ cache' = obj' \/ (queue' = queue \cup again /\ current' = current \ {t})
    BY <1>1, <1>2, VersionStep
  <1>4. obj'[t] = o /\ \A u \in Tenant \ {t} : obj'[u] = obj[u]
    BY <1>1, <1>3 DEF ObjectTypeOK
  <1>5. WorkerVersion(t)
    BY <1>4 DEF WorkerVersion
  <1>6. Busy(t)
    BY DEF Busy, LivePhase
  <1> QED
    BY <1>1, <1>3, <1>4, <1>5, <1>6 DEF Versions, QueueStep

LEMMA NoWrite ==
    ASSUME TypeOK, UNCHANGED <<obj, cache, current>>,
           \/ UNCHANGED queue
           \/ worker.at # "idle" /\ Enqueue({worker.tenant})
           \/ worker.at # "idle" /\ Enqueue({})
           \/ \E t \in queue : queue' = queue \ {t}
    PROVE  ObjectTypeOK' /\ CacheStep /\ QueueStep /\ Versions
  <1>1. worker.tenant \in Tenant
    BY DEF TypeOK, Worker
  <1>2. worker.at # "idle" => Busy(worker.tenant)
    BY DEF Busy
  <1> QED
    BY <1>1, <1>2 DEF TypeOK, ObjectTypeOK, CacheStep, QueueStep, Versions, Enqueue

LEMMA AddFinalizerSide ==
    ASSUME TypeOK, CopiesTrue, AddFinalizer
    PROVE  ObjectTypeOK' /\ CacheStep /\ QueueStep /\ Versions /\ worker' \in Worker /\ CopiesTrue'
  <1> DEFINE t == worker.tenant
             new == [worker.copy EXCEPT !.finalizer = TRUE]
  <1>1. worker \in Worker /\ t \in Tenant /\ worker.copy \in Object /\ worker.at = "addFinalizer"
    BY DEF TypeOK, Worker, AddFinalizer, At
  <1>2. CASE worker.fresh
    <2>1. /\ NewVersion(t, new, {}) /\ worker' = [worker EXCEPT !.copy = new, !.at = "ensure"]
      BY <1>2 DEF AddFinalizer
    <2>2. worker.copy = obj[t]
      BY <1>2 DEF CopiesTrue
    <2>3. /\ new \in Object /\ new.life = obj[t].life /\ new.status = obj[t].status
          /\ new.seeded = obj[t].seeded
      BY <1>1, <2>2, ObjectFacts, ZenonT(30) DEF Object
    <2>4. ObjectTypeOK' /\ CacheStep /\ QueueStep /\ Versions /\ obj'[t] = new
      BY <1>1, <2>1, <2>3, WorkerWrites DEF LivePhase
    <2>5. worker' \in Worker
      BY <1>1, <2>1, <2>3, WorkerFacts DEF Step
    <2>6. worker'.tenant = t /\ worker'.copy = new /\ worker'.at = "ensure"
      BY <1>1, <2>1 DEF Worker
    <2>7. \A u \in current' : cache'[u] = obj'[u]
      BY <2>4 DEF CacheStep, CopiesTrue
    <2> QED
      BY <2>4, <2>5, <2>6, <2>7 DEF CopiesTrue
  <1>3. CASE ~worker.fresh
    <2>1. worker' = IdleWorker(t) /\ Enqueue({t}) /\ UNCHANGED <<obj, cache, current>>
      BY <1>3 DEF AddFinalizer, ReturnAgain, Return
    <2>2. ObjectTypeOK' /\ CacheStep /\ QueueStep /\ Versions
      BY <1>1, <2>1, NoWrite
    <2>3. worker' \in Worker /\ ~worker'.fresh
      BY <1>1, <2>1, WorkerFacts DEF IdleWorker
    <2> QED
      BY <2>1, <2>2, <2>3 DEF CopiesTrue
  <1> QED
    BY <1>2, <1>3

LEMMA WriteStatusSide ==
    ASSUME TypeOK, CopiesTrue, WriteStatus
    PROVE  ObjectTypeOK' /\ CacheStep /\ QueueStep /\ Versions /\ worker' \in Worker /\ CopiesTrue'
  <1> DEFINE t == worker.tenant
             new == [worker.copy EXCEPT !.status = worker.status]
             write == worker.copy.status # worker.status
             goOn == worker.status.phase = "Ready" /\ ~(write /\ obj[t].life = "gone")
             again == ComeBack(goOn, t)
  <1>1. /\ worker \in Worker /\ t \in Tenant /\ worker.copy \in Object
        /\ worker.status \in Status /\ worker.at = "writeStatus"
    BY DEF TypeOK, Worker, WriteStatus, At
  <1>2. again \in {{}, {t}}
    BY DEF ComeBack
  <1>3. new \in Object /\ new.status = worker.status
    BY <1>1, ObjectFacts DEF Object
  <1>4. /\ ObjectTypeOK' /\ CacheStep /\ QueueStep /\ Versions
        /\ worker.fresh => obj'[t] = new
    <2>1. CASE write /\ worker.fresh
      <3>1. NewVersion(t, new, again)
        BY <2>1 DEF WriteStatus
      <3>2. worker.copy = obj[t]
        BY <2>1 DEF CopiesTrue
      <3>3. new.life = obj[t].life /\ new.seeded = obj[t].seeded
        BY <1>1, <3>2 DEF Object
      <3> QED
        BY <1>1, <1>2, <1>3, <3>1, <3>3, WorkerWrites DEF LivePhase
    <2>2. CASE ~(write /\ worker.fresh)
      <3>1. Enqueue(again) /\ UNCHANGED <<obj, cache, current>>
        BY <2>2 DEF WriteStatus
      <3>2. ObjectTypeOK' /\ CacheStep /\ QueueStep /\ Versions
        BY <1>1, <1>2, <3>1, NoWrite
      <3>3. worker.fresh => new = worker.copy /\ worker.copy = obj[t]
        BY <1>1, <2>2 DEF Object, CopiesTrue
      <3> QED
        BY <3>1, <3>2, <3>3
    <2> QED
      BY <2>1, <2>2
  <1>5. /\ worker' \in Worker
        /\ worker'.fresh => /\ worker.fresh /\ worker'.at = "seed"
                            /\ worker'.copy = new /\ worker'.tenant = t
    <2>1. CASE goOn
      <3>1. worker' = [worker EXCEPT !.at = "seed", !.copy = new]
        BY <2>1 DEF WriteStatus
      <3> QED
        <4>1. worker' \in Worker
          BY <1>1, <1>3, <3>1, WorkerFacts DEF Step
        <4>2. /\ worker'.at = "seed" /\ worker'.copy = new /\ worker'.tenant = t
              /\ worker'.fresh = worker.fresh
          BY <1>1, <3>1 DEF Worker
        <4> QED
          BY <4>1, <4>2
    <2>2. CASE ~goOn
      <3>1. worker' = IdleWorker(t)
        BY <2>2 DEF WriteStatus, Return
      <3> QED
        BY <1>1, <3>1, WorkerFacts DEF IdleWorker
    <2> QED
      BY <2>1, <2>2
  <1>6. \A u \in current' : cache'[u] = obj'[u]
    BY <1>4 DEF CacheStep, CopiesTrue
  <1> QED
    BY <1>4, <1>5, <1>6 DEF CopiesTrue

LEMMA MarkSeededSide ==
    ASSUME TypeOK, CopiesTrue, MarkSeeded
    PROVE  ObjectTypeOK' /\ CacheStep /\ QueueStep /\ Versions /\ worker' \in Worker /\ CopiesTrue'
  <1> DEFINE t == worker.tenant
             new == [obj[t] EXCEPT !.seeded = TRUE]
  <1>1. worker \in Worker /\ t \in Tenant /\ obj[t] \in Object /\ worker.at = "mark"
    BY DEF TypeOK, Worker, MarkSeeded, At
  <1>2. worker' = IdleWorker(t)
    BY DEF MarkSeeded, ReturnAgain, Return
  <1>3. ObjectTypeOK' /\ CacheStep /\ QueueStep /\ Versions
    <2>1. CASE obj[t].life # "gone"
      <3>1. NewVersion(t, new, {})
        BY <2>1 DEF MarkSeeded
      <3>2. new \in Object /\ new.life = obj[t].life /\ new.status = obj[t].status
        BY <1>1, ObjectFacts DEF Object
      <3> QED
        BY <1>1, <3>1, <3>2, WorkerWrites DEF LivePhase
    <2>2. CASE obj[t].life = "gone"
      <3>1. Enqueue({t}) /\ UNCHANGED <<obj, cache, current>>
        BY <2>2 DEF MarkSeeded, ReturnAgain
      <3> QED
        BY <1>1, <3>1, NoWrite
    <2> QED
      BY <2>1, <2>2
  <1>4. worker' \in Worker /\ ~worker'.fresh
    BY <1>1, <1>2, WorkerFacts DEF IdleWorker
  <1>5. \A u \in current' : cache'[u] = obj'[u]
    BY <1>3 DEF CacheStep, CopiesTrue
  <1> QED
    BY <1>3, <1>4, <1>5 DEF CopiesTrue

LEMMA RemoveFinalizerSide ==
    ASSUME TypeOK, CopiesTrue, RemoveFinalizer
    PROVE  ObjectTypeOK' /\ CacheStep /\ QueueStep /\ Versions /\ worker' \in Worker /\ CopiesTrue'
  <1> DEFINE t == worker.tenant
  <1>1. worker \in Worker /\ t \in Tenant /\ worker.at = "removeFinalizer" /\ ObjectTypeOK
    BY DEF TypeOK, Worker, RemoveFinalizer, At, ObjectTypeOK
  <1>2. worker' = IdleWorker(t)
    BY DEF RemoveFinalizer, ReturnAgain, ReturnQuietly, Return
  <1>3. ObjectTypeOK' /\ CacheStep /\ QueueStep /\ Versions
    <2>1. CASE NewVersion(t, Gone, {}) /\ worker.fresh
      <3>1. /\ ObjectTypeOK' /\ CacheStep /\ obj' = [obj EXCEPT ![t] = Gone]
            /\ cache' = obj' \/ (queue' = queue \cup {} /\ current' = current \ {t})
        <4>1. Gone \in Object /\ {} \in SUBSET Tenant
          BY ObjectFacts
        <4> QED
          BY <1>1, <2>1, <4>1, VersionStep
      <3>2. obj'[t] = Gone /\ \A u \in Tenant \ {t} : obj'[u] = obj[u]
        BY <1>1, <3>1 DEF ObjectTypeOK
      <3>3. LastVersion(t)
        BY <1>1, <1>2, <2>1, <3>1, <3>2 DEF LastVersion
      <3> QED
        BY <3>1, <3>2, <3>3 DEF Versions, QueueStep
    <2>2. CASE ~(NewVersion(t, Gone, {}) /\ worker.fresh)
      <3>1. (Enqueue({t}) \/ UNCHANGED queue) /\ UNCHANGED <<obj, cache, current>>
        BY <2>2 DEF RemoveFinalizer, ReturnAgain, ReturnQuietly
      <3> QED
        BY <1>1, <3>1, NoWrite
    <2> QED
      BY <2>1, <2>2
  <1>4. worker' \in Worker /\ ~worker'.fresh
    BY <1>1, <1>2, WorkerFacts DEF IdleWorker
  <1>5. \A u \in current' : cache'[u] = obj'[u]
    BY <1>3 DEF CacheStep, CopiesTrue
  <1> QED
    BY <1>3, <1>4, <1>5 DEF CopiesTrue

LEMMA UserSide ==
    ASSUME TypeOK, CopiesTrue, NEW t \in Tenant, NEW title \in Title \cup {NoTitle},
           CreateTenant(t, title) \/ RenameTenant(t, title) \/ DeleteTenant(t)
    PROVE  ObjectTypeOK' /\ CacheStep /\ QueueStep /\ Versions /\ worker' \in Worker /\ CopiesTrue'
  <1>1. /\ ObjectTypeOK' /\ CacheStep /\ QueueStep /\ UserVersion(t)
        /\ obj' = [obj EXCEPT ![t] = obj'[t]]
        /\ worker' \in {worker, [worker EXCEPT !.fresh = FALSE]}
        /\ worker.tenant = t => ~worker'.fresh
    BY UserWrites
  <1>2. worker \in Worker /\ obj \in [Tenant -> Object]
    BY DEF TypeOK
  <1>3. \A u \in Tenant \ {t} : obj'[u] = obj[u]
    BY <1>1, <1>2
  <1>4. Versions
    BY <1>1, <1>3 DEF Versions
  <1>5. worker' \in Worker
    BY <1>1, <1>2, WorkerFacts
  <1>6. worker'.fresh => worker' = worker /\ worker.tenant # t
    BY <1>1, <1>2 DEF Worker
  <1>7. worker.tenant \in Tenant
    BY <1>2 DEF Worker
  <1>8. \A u \in current' : cache'[u] = obj'[u]
    BY <1>1 DEF CacheStep, CopiesTrue
  <1> QED
    BY <1>1, <1>3, <1>4, <1>5, <1>6, <1>7, <1>8 DEF CopiesTrue

LEMMA ReconcileSide ==
    ASSUME TypeOK, CopiesTrue, NEW t \in Tenant, Reconcile(t)
    PROVE  /\ ObjectTypeOK' /\ CacheStep /\ QueueStep /\ Versions
           /\ worker' \in Worker /\ CopiesTrue'
           /\ worker'.tenant = t /\ worker'.status = NewStatus
           /\ \/ worker' = IdleWorker(t)
              \/ /\ worker'.at \in {"ensure", "addFinalizer", "deleteWorkspace"}
                 /\ worker'.copy = cache[t] /\ (worker'.fresh => t \in current)
                 /\ IF worker'.at = "deleteWorkspace" THEN cache[t].life = "deleting"
                                                      ELSE cache[t].life = "live"
  <1> DEFINE c == cache[t]
             step == CASE c.life = "deleting" -> "deleteWorkspace"
                       [] c.life = "live" /\ c.finalizer -> "ensure"
                       [] OTHER -> "addFinalizer"
             fresh == t \in current
  <1>1. c \in Object /\ UNCHANGED <<obj, cache, current>> /\ t \in queue /\ queue' = queue \ {t}
    BY DEF TypeOK, Reconcile
  <1>2. ObjectTypeOK' /\ CacheStep /\ QueueStep /\ Versions
    BY <1>1, NoWrite
  <1>3. CASE c.life \in {"absent", "gone"}
    <2>1. worker' = IdleWorker(t)
      BY <1>3 DEF Reconcile
    <2>2. worker' \in Worker /\ ~worker'.fresh /\ worker'.tenant = t /\ worker'.status = NewStatus
      BY <2>1, WorkerFacts DEF IdleWorker
    <2> QED
      BY <1>1, <1>2, <2>1, <2>2 DEF CopiesTrue
  <1>4. CASE c.life \notin {"absent", "gone"}
    <2>1. worker' = [IdleWorker(t) EXCEPT !.at = step, !.copy = c, !.fresh = fresh]
      BY <1>4 DEF Reconcile
    <2>2. c.life \in {"live", "deleting"}
      BY <1>1, <1>4 DEF Object
    <2>3. /\ step \in {"ensure", "addFinalizer", "deleteWorkspace"}
          /\ IF step = "deleteWorkspace" THEN c.life = "deleting" ELSE c.life = "live"
      BY <2>2
    <2>4. step \in Step /\ fresh \in BOOLEAN
      BY <2>3 DEF Step
    <2>5. worker' \in Worker
      BY <1>1, <2>1, <2>4, WorkerFacts
    <2>6. /\ worker'.tenant = t /\ worker'.copy = c /\ worker'.at = step
          /\ worker'.fresh = fresh /\ worker'.status = NewStatus
      BY <2>1 DEF IdleWorker
    <2>7. worker'.fresh => c = obj[t] /\ step # "idle" /\ t \in current
      BY <2>3, <2>6 DEF CopiesTrue
    <2> HIDE DEF step, fresh
    <2> QED
      BY <1>1, <1>2, <2>3, <2>5, <2>6, <2>7 DEF CopiesTrue
  <1> QED
    BY <1>3, <1>4

(* The steps of the worker that leave the objects alone.                   *)
LEMMA EnsureSide ==
    ASSUME TypeOK, CopiesTrue, EnsureCandidate \/ EnsureExhausted
    PROVE  /\ ObjectTypeOK' /\ CacheStep /\ QueueStep /\ Versions
           /\ worker' \in Worker /\ CopiesTrue'
           /\ worker'.tenant = worker.tenant /\ worker'.copy = worker.copy
           /\ worker'.at \in {"ensure", "writeStatus"} /\ worker'.fresh = worker.fresh
           /\ worker'.status = worker.status \/ worker'.status.phase = "Error"
              \/ EnsureCandidate
  <1> DEFINE t == worker.tenant
             names == Propose(worker.copy.title, t)
             n == names[worker.try]
  <1>1. /\ worker \in Worker /\ t \in Tenant /\ worker.copy.title \in Title \cup {NoTitle}
        /\ worker.try \in 1..3
    BY DEF TypeOK, Worker, Object
  <1>2. worker.at = "ensure" /\ UNCHANGED <<obj, cache, current, queue>>
    BY DEF EnsureCandidate, EnsureExhausted, At
  <1>3. ObjectTypeOK' /\ CacheStep /\ QueueStep /\ Versions
    BY <1>2, NoWrite
  <1>4. ASSUME NEW s \in Status, worker' = [worker EXCEPT !.at = "writeStatus", !.status = s]
        PROVE  /\ worker' \in Worker /\ worker'.tenant = t /\ worker'.copy = worker.copy
               /\ worker'.at = "writeStatus" /\ worker'.fresh = worker.fresh
               /\ worker'.status = s
    BY <1>1, <1>4, WorkerFacts, ZenonT(30) DEF Worker
  <1>5. CASE EnsureExhausted
    <2>1. worker' = [worker EXCEPT !.at = "writeStatus",
                                   !.status = [phase |-> "Error", workspace |-> NoWorkspace]]
      BY <1>5 DEF EnsureExhausted, EnsureFailed
    <2>2. /\ worker' \in Worker /\ worker'.tenant = t /\ worker'.copy = worker.copy
          /\ worker'.at = "writeStatus" /\ worker'.fresh = worker.fresh
          /\ worker'.status = [phase |-> "Error", workspace |-> NoWorkspace]
      BY <1>4, <2>1, StatusFacts
    <2>3. worker'.status.phase = "Error"
      BY <2>2
    <2> QED
      BY <1>2, <1>3, <2>2, <2>3 DEF CopiesTrue
  <1>6. CASE EnsureCandidate
    <2>1. worker.try \in 1..Len(names) /\ n \in WorkspaceName /\ Len(names) \in 1..2
      BY <1>1, <1>6, ProposeFacts DEF EnsureCandidate
    <2>2. CASE worker' = [worker EXCEPT !.try = @ + 1]
      <3>1. PICK i \in 1..3 : i = worker.try + 1
        BY <1>1, <2>1
      <3>2. worker' = [worker EXCEPT !.try = i]
        BY <1>1, <2>2, <3>1 DEF Worker
      <3>3. worker' \in Worker
        BY <1>1, <3>2, WorkerFacts
      <3>4. /\ worker'.tenant = t /\ worker'.copy = worker.copy /\ worker'.at = "ensure"
            /\ worker'.fresh = worker.fresh
        BY <1>1, <1>2, <3>2 DEF Worker
      <3> QED
        BY <1>2, <1>3, <1>6, <3>3, <3>4 DEF CopiesTrue
    <2>3. CASE \E isReady \in BOOLEAN : Settle(n, isReady)
      <3>1. PICK p \in Phase : worker' = [worker EXCEPT !.at = "writeStatus",
                                     !.status = [phase |-> p, workspace |-> n]]
        BY <2>3 DEF Settle, Phase
      <3> QED
        BY <1>2, <1>3, <1>4, <1>6, <2>1, <3>1, StatusFacts DEF CopiesTrue
    <2> QED
      BY <1>6, <2>2, <2>3 DEF EnsureCandidate
  <1> QED
    BY <1>5, <1>6

LEMMA QuietSide ==
    ASSUME TypeOK, CopiesTrue, SeedFirstAdmin \/ DeleteWorkspace \/ CallFails
    PROVE  /\ ObjectTypeOK' /\ CacheStep /\ QueueStep /\ Versions
           /\ worker' \in Worker /\ CopiesTrue'
           /\ \/ worker' = IdleWorker(worker.tenant)
              \/ worker' = [worker EXCEPT !.at = "mark"] /\ SeedFirstAdmin
              \/ worker' = [worker EXCEPT !.at = "removeFinalizer"] /\ DeleteWorkspace
              \/ EnsureFailed /\ worker.at = "ensure"
  <1> DEFINE t == worker.tenant
  <1>1. worker \in Worker /\ t \in Tenant
    BY DEF TypeOK, Worker
  <1>2. /\ UNCHANGED <<obj, cache, current>>
        /\ UNCHANGED queue \/ (worker.at # "idle" /\ Enqueue({t}))
        /\ worker.at # "idle"
    BY DEF SeedFirstAdmin, DeleteWorkspace, CallFails, ReturnQuietly, ReturnAgain, At
  <1>3. ObjectTypeOK' /\ CacheStep /\ QueueStep /\ Versions
    BY <1>2, NoWrite
  <1>4. \/ worker' = IdleWorker(t)
        \/ worker' = [worker EXCEPT !.at = "mark"] /\ SeedFirstAdmin
        \/ worker' = [worker EXCEPT !.at = "removeFinalizer"] /\ DeleteWorkspace
        \/ EnsureFailed /\ worker.at = "ensure"
    BY DEF SeedFirstAdmin, DeleteWorkspace, CallFails, ReturnQuietly, ReturnAgain, Return, Goto, At
  <1>5. CASE worker' = IdleWorker(t)
    <2>1. worker' \in Worker /\ ~worker'.fresh
      BY <1>1, <1>5, WorkerFacts DEF IdleWorker
    <2> QED
      BY <1>2, <1>3, <1>4, <2>1 DEF CopiesTrue
  <1>6. ASSUME NEW step \in {"mark", "removeFinalizer"}, worker' = [worker EXCEPT !.at = step]
        PROVE  worker' \in Worker /\ CopiesTrue'
    <2>1. worker' \in Worker
      BY <1>1, <1>6, WorkerFacts DEF Step
    <2>2. /\ worker'.at = step /\ worker'.tenant = t /\ worker'.copy = worker.copy
          /\ worker'.fresh = worker.fresh
      BY <1>1, <1>6 DEF Worker
    <2> QED
      BY <1>2, <2>1, <2>2 DEF CopiesTrue
  <1>7. CASE EnsureFailed
    <2>1. worker' = [worker EXCEPT !.at = "writeStatus",
                                   !.status = [phase |-> "Error", workspace |-> NoWorkspace]]
      BY <1>7 DEF EnsureFailed
    <2>2. worker' \in Worker
      BY <1>1, <2>1, WorkerFacts, StatusFacts
    <2>3. /\ worker'.at = "writeStatus" /\ worker'.tenant = t /\ worker'.copy = worker.copy
          /\ worker'.fresh = worker.fresh
      BY <1>1, <2>1 DEF Worker
    <2> QED
      BY <1>2, <1>3, <1>4, <2>2, <2>3 DEF CopiesTrue
  <1> QED
    BY <1>3, <1>4, <1>5, <1>6, <1>7

(* Every step.                                                             *)
LEMMA ObjectSide ==
    ASSUME TypeOK, CopiesTrue, Next
    PROVE  ObjectTypeOK' /\ CacheStep /\ QueueStep /\ Versions /\ worker' \in Worker /\ CopiesTrue'
  <1>1. worker \in Worker /\ worker.tenant \in Tenant
    BY DEF TypeOK, Worker
  <1>2. CASE UNCHANGED <<obj, cache, current, queue, worker>>
    <2>1. ObjectTypeOK' /\ CacheStep /\ QueueStep /\ Versions
      BY <1>2, NoWrite
    <2> QED
      BY <1>1, <1>2, <2>1 DEF CopiesTrue
  <1>3. CASE WatchTenants
    <2>1. /\ obj' = obj /\ cache' = obj /\ current' = Tenant /\ worker' = worker
          /\ queue' \subseteq Tenant
      BY <1>3 DEF WatchTenants, TypeOK
    <2> QED
      BY <1>1, <2>1 DEF TypeOK, CopiesTrue, ObjectTypeOK, CacheStep, QueueStep, Versions
  <1>4. CASE Crash
    <2>1. /\ obj' = obj /\ cache' = obj /\ current' = Tenant /\ queue' \subseteq Tenant
          /\ worker' = IdleWorker(worker.tenant)
      BY <1>4 DEF Crash
    <2>2. worker' \in Worker /\ ~worker'.fresh
      BY <1>1, <2>1, WorkerFacts DEF IdleWorker
    <2> QED
      BY <2>1, <2>2 DEF TypeOK, CopiesTrue, ObjectTypeOK, CacheStep, QueueStep, Versions
  <1>5. CASE \E n \in WorkspaceName : WorkspaceReady(n) \/ WorkspaceGone(n)
    BY <1>2, <1>5 DEF WorkspaceReady, WorkspaceGone
  <1>6. CASE WatchWorkspaces
    BY <1>2, <1>6 DEF WatchWorkspaces
  <1>7. CASE \E t \in Tenant : RevokeFirstAdmin(t)
    BY <1>2, <1>7 DEF RevokeFirstAdmin
  <1>8. NoTitle \in Title \cup {NoTitle}
    OBVIOUS
  <1> QED
    BY <1>3, <1>4, <1>5, <1>6, <1>7, <1>8, UserSide, ReconcileSide, EnsureSide, QuietSide,
       AddFinalizerSide, WriteStatusSide, MarkSeededSide, RemoveFinalizerSide
    DEF Next, Call

-----------------------------------------------------------------------------
(* What the steps do to the worker: it returns, goes on with what it has,  *)
(* or takes an object from the queue.                                      *)
Returns == worker' = IdleWorker(worker.tenant)

Continues ==
    /\ worker'.tenant = worker.tenant /\ (worker'.fresh => worker.fresh)
    /\ worker'.at # "idle" => worker.at # "idle"
    /\ worker'.at \in LivePhase => worker.at \in LivePhase
    /\ worker'.at \in DeletePhase => worker.at \in DeletePhase /\ worker'.copy = worker.copy
    /\ worker'.at = "mark" => worker.at = "mark" \/ SeedFirstAdmin
    /\ worker'.at = "removeFinalizer" => worker.at = "removeFinalizer" \/ DeleteWorkspace
    /\ worker'.copy.status \in {worker.copy.status, worker.status}
    /\ worker'.copy.seeded => worker.copy.seeded
    /\ worker'.status = worker.status \/ worker'.status.phase = "Error" \/ EnsureCandidate

Begins ==
    LET t == worker'.tenant IN
    /\ t \in queue /\ queue' = queue \ {t}
    /\ UNCHANGED <<obj, cache, current, ws, wsCache, grant, bounded>>
    /\ worker'.copy = cache[t] /\ (worker'.fresh => t \in current)
    /\ worker'.status = NewStatus
    /\ worker'.at \in {"ensure", "addFinalizer", "deleteWorkspace"}
    /\ IF worker'.at = "deleteWorkspace" THEN cache[t].life = "deleting"
                                         ELSE cache[t].life = "live"

LEMMA IdleFacts ==
    ASSUME NEW t
    PROVE  /\ IdleWorker(t).tenant = t /\ IdleWorker(t).at = "idle" /\ ~IdleWorker(t).fresh
           /\ IdleWorker(t).copy.status = NewStatus /\ IdleWorker(t).status = NewStatus
           /\ ~IdleWorker(t).copy.seeded /\ NewStatus.phase = ""
  BY DEF IdleWorker, NewObject, NewStatus

LEMMA WorkerStep ==
    ASSUME TypeOK, CopiesTrue, Next
    PROVE  Returns \/ Continues \/ (Begins /\ worker'.tenant \in Tenant)
           \/ (\E t \in Tenant : worker' = IdleWorker(t) /\ t \in queue)
  <1>1. worker \in Worker /\ worker.copy \in Object
    BY DEF TypeOK, Worker
  <1>2. UNCHANGED worker => Continues
    BY DEF Continues
  <1>3. worker' = [worker EXCEPT !.fresh = FALSE] => Continues
    BY <1>1 DEF Continues, Worker
  <1>4. ASSUME NEW t \in Tenant, Reconcile(t)
        PROVE  \/ worker' = IdleWorker(t) /\ t \in queue
               \/ Begins /\ worker'.tenant \in Tenant
    BY <1>4, ReconcileSide DEF Begins, Reconcile
  <1>5. CASE AddFinalizer
    <2>1. CASE worker.fresh
      <3>1. worker' = [worker EXCEPT !.copy = [worker.copy EXCEPT !.finalizer = TRUE],
                                     !.at = "ensure"]
        BY <1>5, <2>1 DEF AddFinalizer
      <3>2. /\ worker'.tenant = worker.tenant /\ worker'.fresh = worker.fresh
            /\ worker'.at = "ensure" /\ worker'.status = worker.status
            /\ worker'.copy = [worker.copy EXCEPT !.finalizer = TRUE]
        BY <1>1, <3>1 DEF Worker
      <3>3. worker'.copy.status = worker.copy.status /\ worker'.copy.seeded = worker.copy.seeded
        BY <1>1, <3>2 DEF Object
      <3> QED
        BY <1>5, <3>2, <3>3 DEF Continues, AddFinalizer, At, LivePhase, DeletePhase
    <2> QED
      BY <1>5, <2>1 DEF AddFinalizer, ReturnAgain, Return, Returns
  <1>6. CASE WriteStatus
    <2>1. CASE worker' = [worker EXCEPT !.at = "seed",
                                        !.copy = [worker.copy EXCEPT !.status = worker.status]]
      <3>1. /\ worker'.tenant = worker.tenant /\ worker'.fresh = worker.fresh
            /\ worker'.at = "seed" /\ worker'.status = worker.status
            /\ worker'.copy = [worker.copy EXCEPT !.status = worker.status]
        BY <1>1, <2>1 DEF Worker
      <3>2. worker'.copy.status = worker.status /\ worker'.copy.seeded = worker.copy.seeded
        BY <1>1, <3>1 DEF Object
      <3> QED
        BY <1>6, <3>1, <3>2 DEF Continues, WriteStatus, At, LivePhase, DeletePhase
    <2> QED
      BY <1>6, <2>1 DEF WriteStatus, Return, Returns
  <1>7. CASE MarkSeeded \/ RemoveFinalizer \/ Crash
    BY <1>7 DEF MarkSeeded, RemoveFinalizer, Crash, ReturnAgain, ReturnQuietly, Return, Returns
  <1>8. CASE EnsureCandidate \/ EnsureExhausted
    <2>1. worker.at = "ensure"
      BY <1>8 DEF EnsureCandidate, EnsureExhausted, At
    <2> QED
      BY <1>8, <2>1, EnsureSide DEF Continues, LivePhase, DeletePhase
  <1>9. CASE SeedFirstAdmin \/ DeleteWorkspace \/ CallFails
    <2>1. CASE worker' = [worker EXCEPT !.at = "mark"] /\ SeedFirstAdmin
      <3>1. /\ worker'.at = "mark" /\ worker'.tenant = worker.tenant
            /\ worker'.copy = worker.copy /\ worker'.fresh = worker.fresh
            /\ worker'.status = worker.status
        BY <1>1, <2>1 DEF Worker
      <3>2. worker.at = "seed"
        BY <2>1 DEF SeedFirstAdmin, At
      <3> QED
        BY <2>1, <3>1, <3>2 DEF Continues, LivePhase, DeletePhase
    <2>2. CASE worker' = [worker EXCEPT !.at = "removeFinalizer"] /\ DeleteWorkspace
      <3>1. /\ worker'.at = "removeFinalizer" /\ worker'.tenant = worker.tenant
            /\ worker'.copy = worker.copy /\ worker'.fresh = worker.fresh
            /\ worker'.status = worker.status
        BY <1>1, <2>2 DEF Worker
      <3>2. worker.at = "deleteWorkspace"
        BY <2>2 DEF DeleteWorkspace, At
      <3> QED
        BY <2>2, <3>1, <3>2 DEF Continues, LivePhase, DeletePhase
    <2>3. CASE EnsureFailed /\ worker.at = "ensure"
      <3>1. worker' = [worker EXCEPT !.at = "writeStatus",
                                     !.status = [phase |-> "Error", workspace |-> NoWorkspace]]
        BY <2>3 DEF EnsureFailed
      <3>2. /\ worker'.at = "writeStatus" /\ worker'.tenant = worker.tenant
            /\ worker'.copy = worker.copy /\ worker'.fresh = worker.fresh
            /\ worker'.status.phase = "Error"
        BY <1>1, <3>1 DEF Worker
      <3> QED
        BY <2>3, <3>2 DEF Continues, LivePhase, DeletePhase
    <2> QED
      BY <1>9, <2>1, <2>2, <2>3, QuietSide DEF Returns
  <1> QED
    BY <1>2, <1>3, <1>4, <1>5, <1>6, <1>7, <1>8, <1>9, UserWrites
    DEF Next, Call, RevokeFirstAdmin, WorkspaceReady, WorkspaceGone, WatchTenants, WatchWorkspaces

-----------------------------------------------------------------------------
(* Deletion only goes forward.                                             *)
LEMMA LifeAges ==
    ASSUME TypeOK, CopiesTrue, LifeOrder, Versions, CacheStep, NEW t \in Tenant
    PROVE  /\ obj[t].life = "deleting" => obj'[t].life \in {"deleting", "gone"}
           /\ obj[t].life = "gone" => obj'[t].life = "gone"
           /\ cache[t].life = "deleting" => cache'[t].life \in {"deleting", "gone"}
           /\ cache[t].life = "gone" => cache'[t].life = "gone"
           /\ cache'[t].life = "deleting" => obj'[t].life \in {"deleting", "gone"}
           /\ cache'[t].life = "gone" => obj'[t].life = "gone"
  <1>1. /\ obj[t].life = "deleting" => obj'[t].life \in {"deleting", "gone"}
        /\ obj[t].life = "gone" => obj'[t].life = "gone"
    BY GoneFacts DEF Versions, UserVersion, WorkerVersion, LastVersion
  <1>2. cache' = obj' \/ cache' = cache
    BY DEF CacheStep
  <1> QED
    BY <1>1, <1>2 DEF LifeOrder

LEMMA OrderKept == ASSUME Inv, Next PROVE LifeOrder'
  <1>1. TypeOK /\ CopiesTrue /\ LifeOrder
    BY DEF Inv
  <1>2. Versions /\ CacheStep
    BY <1>1, ObjectSide
  <1> QED
    BY <1>1, <1>2, LifeAges DEF LifeOrder

LEMMA WithdrawnKept ==
    ASSUME Inv, Next, NEW t \in Tenant, Withdrawn(t)
    PROVE  Withdrawn(t)'
  <1>1. TypeOK /\ CopiesTrue /\ LifeOrder
    BY DEF Inv
  <1>2. Versions /\ CacheStep
    BY <1>1, ObjectSide
  <1>3. cache'[t].life \in {"deleting", "gone"}
    BY <1>1, <1>2, LifeAges DEF Withdrawn
  <1>4. ~(worker'.tenant = t /\ worker'.at \in LivePhase)
    BY <1>1, WorkerStep, IdleFacts DEF Withdrawn, Returns, Continues, Begins, LivePhase
  <1> QED
    BY <1>3, <1>4 DEF Withdrawn

(* Nobody but the worker changes an object that is being deleted.          *)
LEMMA DeletionUndisturbed ==
    ASSUME TypeOK, Next, worker.at \in DeletePhase, worker'.at \in DeletePhase,
           obj[worker.tenant].life = "deleting", worker.tenant \in current \ queue
    PROVE  worker.tenant \in current' \ queue'
  <1>1. ASSUME NEW t \in Tenant, NEW title \in Title \cup {NoTitle},
               CreateTenant(t, title) \/ RenameTenant(t, title) \/ DeleteTenant(t)
        PROVE  worker.tenant \in current' \ queue'
    <2>1. current \ {t} \subseteq current' /\ queue' \subseteq queue \cup {t}
      BY <1>1, UserWrites
    <2>2. worker.tenant # t
      BY <1>1 DEF CreateTenant, RenameTenant, DeleteTenant
    <2> QED
      BY <2>1, <2>2
  <1>2. ASSUME NEW t \in Tenant, Reconcile(t) PROVE FALSE
    BY <1>2 DEF Reconcile, At, DeletePhase
  <1>3. CASE WatchTenants
    BY <1>3 DEF WatchTenants, TypeOK
  <1>4. CASE Crash \/ CallFails
    BY <1>4, IdleFacts DEF Crash, CallFails, At, ReturnAgain, Return, DeletePhase
  <1>5. CASE Call
    <2>1. CASE DeleteWorkspace
      BY <2>1, IdleFacts DEF DeleteWorkspace, ReturnAgain, Return, DeletePhase
    <2>2. CASE RemoveFinalizer
      BY <2>2, IdleFacts DEF RemoveFinalizer, ReturnAgain, ReturnQuietly, Return, DeletePhase
    <2> QED
      BY <1>5, <2>1, <2>2
      DEF Call, AddFinalizer, EnsureCandidate, EnsureExhausted, WriteStatus, SeedFirstAdmin,
          MarkSeeded, At, DeletePhase
  <1>6. NoTitle \in Title \cup {NoTitle}
    OBVIOUS
  <1> QED
    BY <1>1, <1>2, <1>3, <1>4, <1>5, <1>6
    DEF Next, RevokeFirstAdmin, WorkspaceReady, WorkspaceGone, WatchWorkspaces

LEMMA HeldKept == ASSUME Inv, Next PROVE Held'
  <1>1. TypeOK /\ CopiesTrue /\ LifeOrder /\ Held
    BY DEF Inv
  <1>2. Versions /\ CacheStep /\ QueueStep /\ CopiesTrue'
    BY <1>1, ObjectSide
  <1>3. worker.tenant \in Tenant
    BY <1>1 DEF TypeOK, Worker
  (* Who is queued or at work was so before.                               *)
  <1>4. ASSUME NEW t \in Tenant, Busy(t)'
        PROVE  Busy(t) \/ t \in queue
    BY <1>1, <1>4, WorkerStep, IdleFacts DEF Busy, Returns, Continues, Begins
  <1>5. ASSUME NEW t \in Tenant, cache'[t].life = "deleting", t \in queue' \/ Busy(t)'
        PROVE  obj'[t].life = "deleting"
    <2>1. CASE cache' = obj'
      BY <1>5, <2>1
    <2>2. CASE cache' # obj'
      <3>1. cache' = cache /\ (t \in queue \/ Busy(t))
        BY <1>2, <1>4, <1>5, <2>2 DEF CacheStep, QueueStep
      <3>2. obj[t].life = "deleting"
        BY <1>1, <1>5, <3>1 DEF Held
      <3>3. CASE LastVersion(t)
        <4>1. queue' = queue /\ ~Busy(t)' /\ worker.fresh /\ worker.tenant = t
              /\ worker.at \in DeletePhase
          BY <2>2, <3>3, IdleFacts DEF LastVersion, Busy, DeletePhase
        <4> QED
          BY <1>1, <1>5, <4>1 DEF Held
      <3> QED
        BY <1>2, <3>2, <3>3 DEF Versions, UserVersion, WorkerVersion
    <2> QED
      BY <2>1, <2>2
  <1>6. ASSUME worker'.at \in DeletePhase
        PROVE  /\ cache'[worker'.tenant].life = "deleting" /\ worker'.copy.life = "deleting"
               /\ worker'.fresh => worker'.tenant \in current' \ queue'
    <2>1. CASE Begins /\ worker'.tenant \in Tenant
      <3>1. worker'.at = "deleteWorkspace"
        BY <1>6, <2>1 DEF Begins, DeletePhase
      <3>2. cache'[worker'.tenant].life = "deleting" /\ worker'.copy.life = "deleting"
        BY <2>1, <3>1 DEF Begins
      <3> QED
        BY <2>1, <3>2 DEF Begins
    <2>2. CASE Continues
      <3> DEFINE t == worker.tenant
      <3>1. worker'.tenant = t /\ worker.at \in DeletePhase /\ worker'.copy = worker.copy
        BY <1>6, <2>2 DEF Continues
      <3>2. cache[t].life = "deleting" /\ worker.copy.life = "deleting" /\ Busy(t)
        BY <1>1, <3>1 DEF Held, Busy, DeletePhase
      <3>3. obj[t].life = "deleting"
        BY <1>1, <1>3, <3>2 DEF Held
      <3>4. ~LastVersion(t)
        BY <1>6, IdleFacts DEF LastVersion, DeletePhase
      <3>5. obj'[t].life = "deleting"
        BY <1>2, <1>3, <3>1, <3>3, <3>4
        DEF Versions, UserVersion, WorkerVersion, LivePhase, DeletePhase
      <3>6. cache'[t].life = "deleting"
        BY <1>2, <3>2, <3>5 DEF CacheStep
      <3>7. worker'.fresh => t \in current \ queue
        BY <1>1, <2>2, <3>1 DEF Continues, Held
      <3>8. worker'.fresh => t \in current' \ queue'
        BY <1>1, <1>6, <3>1, <3>3, <3>7, DeletionUndisturbed
      <3> QED
        BY <3>1, <3>2, <3>6, <3>8
    <2> QED
      BY <1>1, <1>6, <2>1, <2>2, WorkerStep, IdleFacts DEF Returns, DeletePhase
  <1> QED
    BY <1>5, <1>6 DEF Held

-----------------------------------------------------------------------------
(* What the steps do to the workspaces and to the cache of them.           *)
WorkspacesTypeOK ==
    ws \in [WorkspaceName -> Workspace] /\ wsCache \in [WorkspaceName -> Workspace]

Created(n) ==
    /\ worker.at = "ensure" /\ ws[n].life = "none" /\ wsCache[n].life = "none"
    /\ ws'[n] = [life |-> "new", owner |-> worker.tenant]

BecameReady(n) == ws[n].life = "new" /\ ws'[n] = [ws[n] EXCEPT !.life = "ready"]

Disappeared(n) == ws[n].life = "deleting" /\ ws'[n] = NoWS

Deleted(n) ==
    /\ worker.at = "deleteWorkspace" /\ Ours(wsCache[n], worker.tenant)
    /\ ws[n].life # "none" /\ ws'[n] = [ws[n] EXCEPT !.life = "deleting"]

WorkspaceChange(n) ==
    /\ wsCache'[n] \in {wsCache[n], ws'[n]}
    /\ ws'[n] = ws[n] \/ Created(n) \/ BecameReady(n) \/ Disappeared(n) \/ Deleted(n)

LEMMA SetWorkspaceFacts ==
    ASSUME WorkspacesTypeOK, NEW n \in WorkspaceName, NEW w \in Workspace, SetWorkspace(n, w)
    PROVE  /\ WorkspacesTypeOK' /\ ws'[n] = w
           /\ \A m \in WorkspaceName : /\ m # n => ws'[m] = ws[m]
                                       /\ wsCache'[m] \in {wsCache[m], ws'[m]}
  BY DEF WorkspacesTypeOK, SetWorkspace

LEMMA WorkspaceStep ==
    ASSUME TypeOK, Next
    PROVE  WorkspacesTypeOK' /\ \A n \in WorkspaceName : WorkspaceChange(n)
  <1>1. WorkspacesTypeOK /\ worker \in Worker /\ worker.tenant \in Tenant
    BY DEF TypeOK, WorkspacesTypeOK, Worker
  <1>2. CASE UNCHANGED <<ws, wsCache>>
    BY <1>1, <1>2 DEF WorkspacesTypeOK, WorkspaceChange
  <1>3. CASE WatchWorkspaces \/ Crash
    BY <1>1, <1>3 DEF WatchWorkspaces, Crash, WorkspacesTypeOK, WorkspaceChange
  <1>4. ASSUME NEW n \in WorkspaceName, WorkspaceReady(n) \/ WorkspaceGone(n)
        PROVE  WorkspacesTypeOK' /\ \A m \in WorkspaceName : WorkspaceChange(m)
    <2>1. ws[n] \in Workspace
      BY <1>1 DEF WorkspacesTypeOK
    <2>2. CASE WorkspaceReady(n)
      BY <1>1, <2>1, <2>2, SetWorkspaceFacts, WorkspaceFacts
      DEF WorkspaceReady, WorkspaceChange, BecameReady
    <2>3. CASE WorkspaceGone(n)
      BY <1>1, <2>3, SetWorkspaceFacts, WorkspaceFacts
      DEF WorkspaceGone, WorkspaceChange, Disappeared
    <2> QED
      BY <1>4, <2>2, <2>3
  <1>5. CASE EnsureCandidate
    <2> DEFINE t == worker.tenant
               names == Propose(worker.copy.title, t)
               n == names[worker.try]
    <2>1. CASE SetWorkspace(n, [life |-> "new", owner |-> t])
               /\ wsCache[n].life = "none" /\ ws[n].life = "none"
      <3>1. worker.copy.title \in Title \cup {NoTitle} /\ worker.try \in 1..3
        BY <1>1 DEF Worker, Object
      <3>2. n \in WorkspaceName
        <4>1. worker.try \in 1..Len(names)
          BY <1>5, <3>1 DEF EnsureCandidate
        <4> QED
          BY <1>1, <3>1, <4>1, ProposeFacts
      <3> DEFINE new == [life |-> "new", owner |-> t]
      <3>3. new \in Workspace
        BY <1>1, WorkspaceFacts
      <3>4. /\ WorkspacesTypeOK' /\ ws'[n] = new
            /\ \A m \in WorkspaceName : /\ m # n => ws'[m] = ws[m]
                                        /\ wsCache'[m] \in {wsCache[m], ws'[m]}
        BY <1>1, <2>1, <3>2, <3>3, SetWorkspaceFacts
      <3>5. Created(n)
        BY <1>5, <2>1, <3>4 DEF Created, EnsureCandidate, At
      <3> QED
        BY <3>4, <3>5 DEF WorkspaceChange
    <2> QED
      BY <1>2, <1>5, <2>1 DEF EnsureCandidate
  <1>6. CASE DeleteWorkspace
    <2> DEFINE t == worker.tenant
               n == worker.copy.status.workspace
    <2>1. CASE /\ SetWorkspace(n, [ws[n] EXCEPT !.life = "deleting"])
               /\ ~NothingToDelete(n, t) /\ ws[n].life # "none"
      <3>1. n \in WorkspaceName
        BY <1>1, <2>1 DEF NothingToDelete, Worker, Object, Status
      <3> DEFINE w == [ws[n] EXCEPT !.life = "deleting"]
      <3>2. w \in Workspace
        BY <1>1, <3>1, WorkspaceFacts DEF WorkspacesTypeOK
      <3>3. /\ WorkspacesTypeOK' /\ ws'[n] = w
            /\ \A m \in WorkspaceName : /\ m # n => ws'[m] = ws[m]
                                        /\ wsCache'[m] \in {wsCache[m], ws'[m]}
        BY <1>1, <2>1, <3>1, <3>2, SetWorkspaceFacts
      <3>4. Deleted(n)
        BY <1>6, <2>1, <3>3 DEF Deleted, DeleteWorkspace, NothingToDelete, At
      <3> QED
        BY <3>3, <3>4 DEF WorkspaceChange
    <2> QED
      BY <1>2, <1>6, <2>1 DEF DeleteWorkspace
  <1> QED
    BY <1>2, <1>3, <1>4, <1>5, <1>6
    DEF Next, Call, CreateTenant, RenameTenant, DeleteTenant, WriteByUser, RevokeFirstAdmin,
        Reconcile, WatchTenants, CallFails, AddFinalizer, EnsureExhausted, WriteStatus,
        SeedFirstAdmin, MarkSeeded, RemoveFinalizer

(* Who deletes a workspace is withdrawn.                                   *)
LEMMA DeleterWithdrawn ==
    ASSUME TypeOK, Held, worker.at = "deleteWorkspace"
    PROVE  Withdrawn(worker.tenant)
  BY DEF Held, Withdrawn, DeletePhase, LivePhase

LEMMA SeenKept == ASSUME Inv, Next PROVE Seen'
  <1> SUFFICES ASSUME NEW n \in WorkspaceName PROVE SeenAt(n)'
    BY DEF Seen
  <1>1. TypeOK /\ Held /\ Seen /\ worker.tenant \in Tenant
    BY DEF Inv, TypeOK, Worker
  <1>2. WorkspaceChange(n)
    BY <1>1, WorkspaceStep
  <1>3. ws[n] \in Workspace /\ wsCache[n] \in Workspace
    BY <1>1 DEF TypeOK
  <1>4. SeenAt(n)
    BY <1>1 DEF Seen
  <1>5. /\ Owned(ws'[n])
        /\ ws'[n].life # "none" /\ ws[n].life # "none" => ws'[n].owner = ws[n].owner
    BY <1>1, <1>2, <1>3, <1>4, AbsentAssumption
    DEF WorkspaceChange, Created, BecameReady, Disappeared, Deleted, SeenAt, Owned, Workspace, NoWS
  <1>6. CASE wsCache'[n] = ws'[n]
    BY <1>5, <1>6 DEF SeenAt, Owned
  <1>7. CASE wsCache'[n] = wsCache[n]
    <2>1. wsCache[n].life # "none" /\ ws'[n].life # "none" => ws'[n].owner = wsCache[n].owner
      <3>1. wsCache[n].life # "none" /\ ws'[n].life # "none" => ws[n].life # "none"
        BY <1>2 DEF WorkspaceChange, Created, BecameReady, Disappeared, Deleted
      <3> QED
        BY <1>4, <1>5, <3>1 DEF SeenAt
    <2>2. ASSUME wsCache[n].life = "ready", ws'[n] # wsCache[n]
          PROVE  Withdrawn(wsCache[n].owner)
      <3>1. CASE Deleted(n)
        <4>1. wsCache[n].owner = worker.tenant /\ worker.at = "deleteWorkspace"
          BY <3>1 DEF Deleted, Ours
        <4> QED
          BY <1>1, <4>1, DeleterWithdrawn
      <3> QED
        BY <1>2, <1>4, <2>2, <3>1 DEF WorkspaceChange, Created, BecameReady, Disappeared, SeenAt
    <2>3. ASSUME wsCache[n].life = "ready", ws'[n] # wsCache[n]
          PROVE  Withdrawn(wsCache[n].owner)'
      <3>1. PICK t \in Tenant : t = wsCache[n].owner
        BY <1>3, <1>4, <2>3 DEF SeenAt, Owned, Workspace
      <3>2. Withdrawn(t)'
        BY <2>2, <2>3, <3>1, WithdrawnKept
      <3> QED
        BY <1>7, <3>1, <3>2 DEF Withdrawn
    <2> QED
      BY <1>4, <1>5, <1>7, <2>1, <2>3 DEF SeenAt, Owned
  <1> QED
    BY <1>2, <1>6, <1>7 DEF WorkspaceChange

(* What a tenant has been given it keeps, and a true status stays true.    *)
LEMMA ServedKept ==
    ASSUME Inv, Next, NEW t \in Tenant, NEW n \in WorkspaceName, Served(t, n)
    PROVE  Served(t, n)'
  <1>1. TypeOK /\ Held /\ worker.tenant \in Tenant /\ t # NoOwner
    BY AbsentAssumption DEF Inv, TypeOK, Worker
  <1>2. WorkspaceChange(n)
    BY <1>1, WorkspaceStep
  <1>3. ws[n] \in Workspace /\ wsCache[n] \in Workspace
    BY <1>1 DEF TypeOK
  <1>4. ASSUME Created(n) PROVE worker.tenant # t
    <2>1. worker.at \in LivePhase /\ ws[n].life = "none"
      BY <1>4 DEF Created, LivePhase
    <2>2. ws[n] # Ready(t)
      BY <2>1 DEF Ready
    <2> QED
      BY <2>1, <2>2 DEF Served, Withdrawn
  <1>5. ws'[n].owner = t => wsCache'[n].owner = t
    <2>1. ws'[n].owner = t => ws[n].owner = t
      BY <1>1, <1>2, <1>3, <1>4
      DEF WorkspaceChange, Created, BecameReady, Disappeared, Deleted, Workspace, NoWS
    <2> QED
      BY <1>2, <2>1 DEF WorkspaceChange, Served
  <1>6. (ws'[n] = Ready(t) /\ wsCache'[n] = Ready(t)) \/ Withdrawn(t)
    <2>1. ASSUME Deleted(n), wsCache[n] = Ready(t) PROVE Withdrawn(t)
      <3>1. worker.tenant = t /\ worker.at = "deleteWorkspace"
        BY <2>1 DEF Deleted, Ours, Ready
      <3> QED
        BY <1>1, <3>1, DeleterWithdrawn
    <2>2. ws[n] = Ready(t) => ~(Created(n) \/ BecameReady(n) \/ Disappeared(n))
      BY DEF Created, BecameReady, Disappeared, Ready
    <2> QED
      BY <1>2, <2>1, <2>2 DEF WorkspaceChange, Served
  <1>7. Withdrawn(t) => Withdrawn(t)'
    BY WithdrawnKept
  <1>8. (ws'[n] = Ready(t) /\ wsCache'[n] = Ready(t)) \/ Withdrawn(t)'
    BY <1>6, <1>7
  <1> QED
    BY <1>5, <1>8 DEF Served, Ready

LEMMA TrueStays ==
    ASSUME Inv, Next, NEW t \in Tenant, NEW s, StatusTrue(s, t)
    PROVE  StatusTrue(s, t)'
  <1>1. CASE s.phase = "Ready"
    <2>1. s.workspace \in WorkspaceName /\ Served(t, s.workspace)
      BY <1>1 DEF StatusTrue
    <2>2. Served(t, s.workspace)'
      BY <2>1, ServedKept
    <2> QED
      BY <2>1, <2>2 DEF StatusTrue
  <1> QED
    BY <1>1 DEF StatusTrue

(* What ensureWorkspace settles on is true.                                *)
LEMMA SettledIsTrue ==
    ASSUME TypeOK, Seen, EnsureCandidate
    PROVE  worker'.status = worker.status \/ StatusTrue(worker'.status, worker.tenant)
  <1> DEFINE t == worker.tenant
             names == Propose(worker.copy.title, t)
             n == names[worker.try]
             seen == wsCache[n]
  <1>1. /\ worker \in Worker /\ t \in Tenant /\ worker.copy.title \in Title \cup {NoTitle}
        /\ worker.try \in 1..3
    BY DEF TypeOK, Worker, Object
  <1>2. n \in WorkspaceName
    <2>1. worker.try \in 1..Len(names)
      BY <1>1 DEF EnsureCandidate
    <2> QED
      BY <1>1, <2>1, ProposeFacts
  <1>3. CASE worker' = [worker EXCEPT !.try = @ + 1]
    BY <1>1, <1>3 DEF Worker
  <1>4. CASE Settle(n, FALSE)
    <2>1. worker' = [worker EXCEPT !.at = "writeStatus",
                                   !.status = [phase |-> "Pending", workspace |-> n]]
      BY <1>4 DEF Settle
    <2>2. worker'.status = [phase |-> "Pending", workspace |-> n]
      BY <1>1, <2>1 DEF Worker
    <2> QED
      BY <2>2 DEF StatusTrue
  <1>5. CASE Ours(seen, t) /\ Settle(n, seen.life = "ready")
    <2>1. worker' = [worker EXCEPT !.at = "writeStatus",
                         !.status = [phase |-> IF seen.life = "ready" THEN "Ready" ELSE "Pending",
                                     workspace |-> n]]
      BY <1>5 DEF Settle
    <2>2. worker'.status = [phase |-> IF seen.life = "ready" THEN "Ready" ELSE "Pending",
                            workspace |-> n]
      BY <1>1, <2>1 DEF Worker
    <2>3. seen.owner = t /\ seen \in Workspace
      BY <1>2, <1>5 DEF Ours, TypeOK
    <2>4. seen.life = "ready" => seen = Ready(t)
      BY <2>3 DEF Ready, Workspace
    <2>5. seen.life = "ready" => ws[n] = seen \/ Withdrawn(t)
      BY <1>2, <2>3 DEF Seen, SeenAt
    <2>6. seen.life = "ready" => Served(t, n)
      BY <2>3, <2>4, <2>5 DEF Served
    <2> QED
      BY <1>2, <2>2, <2>6 DEF StatusTrue
  <1> QED
    BY <1>3, <1>4, <1>5 DEF EnsureCandidate

(* Before the finalizer goes, the workspace of a Ready tenant is gone.     *)
LEMMA NothingLeft ==
    ASSUME TypeOK, Seen, Statuses, DeleteWorkspace, worker'.at = "removeFinalizer",
           worker.copy.status.phase = "Ready"
    PROVE  ws[worker.copy.status.workspace].owner # worker.tenant
  <1> DEFINE t == worker.tenant
             n == worker.copy.status.workspace
  <1>1. NothingToDelete(n, t)
    BY IdleFacts DEF DeleteWorkspace, ReturnAgain, Return
  <1>2. n \in WorkspaceName /\ Served(t, n)
    BY DEF Statuses, StatusTrue
  <1>3. n # NoWorkspace
    BY <1>2, AbsentAssumption
  <1>4. t \in Tenant /\ t # NoOwner
    BY AbsentAssumption DEF TypeOK, Worker
  <1>5. wsCache[n].owner # t
    BY <1>1, <1>2, <1>3, <1>4 DEF NothingToDelete, Ours, Seen, SeenAt, Owned
  <1> QED
    BY <1>2, <1>5 DEF Served

LEMMA StatusesKept == ASSUME Inv, Next PROVE Statuses'
  <1>1. TypeOK /\ CopiesTrue /\ Seen /\ Statuses /\ worker.tenant \in Tenant
    BY DEF Inv, TypeOK, Worker
  <1>2. Versions /\ CacheStep /\ worker' \in Worker
    BY <1>1, ObjectSide
  <1>3. \A t : StatusTrue(NewStatus, t)
    BY IdleFacts DEF StatusTrue
  <1>4. StatusTrue(worker.status, worker.tenant) /\ StatusTrue(worker.copy.status, worker.tenant)
    BY <1>1 DEF Statuses
  <1>5. ASSUME NEW t \in Tenant
        PROVE  (StatusTrue(obj[t].status, t) /\ StatusTrue(cache[t].status, t))'
    <2>1. StatusTrue(obj[t].status, t) /\ StatusTrue(cache[t].status, t)
      BY <1>1 DEF Statuses
    <2>2. ASSUME NEW s, s = obj'[t].status PROVE StatusTrue(s, t)'
      <3>1. StatusTrue(s, t)
        BY <1>2, <1>3, <1>4, <2>1, <2>2, GoneFacts
        DEF Versions, UserVersion, WorkerVersion, LastVersion
      <3> QED
        BY <3>1, TrueStays
    <2>3. ASSUME NEW s, s = cache'[t].status PROVE StatusTrue(s, t)'
      <3>1. CASE cache' = obj'
        BY <2>2, <2>3, <3>1
      <3>2. CASE cache' = cache
        <4>1. StatusTrue(s, t)
          BY <2>1, <2>3, <3>2
        <4> QED
          BY <4>1, TrueStays
      <3> QED
        BY <1>2, <3>1, <3>2 DEF CacheStep
    <2> QED
      BY <2>2, <2>3 DEF StatusTrue, Served
  <1>6. ASSUME NEW t \in Tenant, NEW s, t = worker'.tenant, s = worker'.copy.status
        PROVE  StatusTrue(s, t)'
    <2>1. StatusTrue(s, t)
      <3>1. CASE Continues
        BY <1>4, <1>6, <3>1 DEF Continues
      <3>2. CASE Begins
        BY <1>1, <1>6, <3>2 DEF Begins, Statuses
      <3>3. ASSUME NEW u, worker' = IdleWorker(u) PROVE StatusTrue(s, t)
        <4>1. s = NewStatus
          BY <1>6, <3>3, IdleFacts
        <4> QED
          BY <1>3, <4>1
      <3> QED
        BY <1>1, <3>1, <3>2, <3>3, WorkerStep DEF Returns
    <2> QED
      BY <2>1, TrueStays
  <1>7. ASSUME NEW t \in Tenant, NEW s, t = worker'.tenant, s = worker'.status
        PROVE  StatusTrue(s, t)'
    <2>1. StatusTrue(s, t)
      <3>1. CASE Continues
        <4>1. t = worker.tenant
          BY <1>7, <3>1 DEF Continues
        <4>2. CASE EnsureCandidate
          BY <1>1, <1>4, <1>7, <4>1, <4>2, SettledIsTrue
        <4>3. CASE worker'.status.phase = "Error"
          BY <1>7, <4>3 DEF StatusTrue
        <4> QED
          BY <1>4, <1>7, <3>1, <4>1, <4>2, <4>3 DEF Continues
      <3>2. CASE Begins
        BY <1>3, <1>7, <3>2 DEF Begins
      <3> QED
        BY <1>1, <1>3, <1>7, <3>1, <3>2, WorkerStep, IdleFacts, ZenonT(30) DEF Returns
    <2> QED
      BY <2>1, TrueStays
  <1>8. ASSUME worker'.at = "removeFinalizer", worker'.copy.status.phase = "Ready"
        PROVE  ws'[worker'.copy.status.workspace].owner # worker'.tenant
    <2> DEFINE t == worker.tenant
               n == worker.copy.status.workspace
    <2>1. Continues
      BY <1>1, <1>8, WorkerStep, IdleFacts DEF Returns, Begins
    <2>2. /\ worker'.tenant = t /\ worker'.copy = worker.copy /\ worker.at \in DeletePhase
          /\ worker.at = "removeFinalizer" \/ DeleteWorkspace
      BY <1>8, <2>1 DEF Continues, DeletePhase
    <2>3. n \in WorkspaceName /\ ws[n].owner # t
      <3>1. worker.copy.status.phase = "Ready" /\ n \in WorkspaceName
        BY <1>4, <1>8, <2>2 DEF StatusTrue
      <3>2. CASE worker.at = "removeFinalizer"
        BY <1>1, <3>1, <3>2 DEF Statuses
      <3>3. CASE DeleteWorkspace
        BY <1>1, <1>8, <3>1, <3>3, NothingLeft
      <3> QED
        BY <2>2, <3>1, <3>2, <3>3
    <2>4. WorkspaceChange(n) /\ ws[n] \in Workspace /\ t # NoOwner
      BY <1>1, <2>3, WorkspaceStep, AbsentAssumption DEF TypeOK
    <2>5. ws'[n].owner # t
      BY <2>2, <2>3, <2>4, SMTT(30)
      DEF WorkspaceChange, Created, BecameReady, Disappeared, Deleted, Workspace, NoWS, DeletePhase
    <2> QED
      BY <2>2, <2>5
  <1>9. worker'.tenant \in Tenant
    BY <1>2 DEF Worker
  <1>10. (StatusTrue(worker.copy.status, worker.tenant)
            /\ StatusTrue(worker.status, worker.tenant))'
    BY <1>6, <1>7, <1>9 DEF StatusTrue, Served, Ready, Withdrawn
  <1> QED
    BY <1>5, <1>8, <1>10 DEF Statuses

-----------------------------------------------------------------------------
(* The first admin.                                                        *)
LEMMA GrantsRemembered ==
    ASSUME TypeOK, Next
    PROVE  /\ grant' \subseteq Tenant /\ revoked' \subseteq Tenant /\ events' \in 0..MaxEvents
           /\ grant \cup revoked \subseteq grant' \cup revoked'
           /\ SeedFirstAdmin /\ worker'.at = "mark" => worker.tenant \in grant'
  <1>1. /\ grant \subseteq Tenant /\ revoked \subseteq Tenant /\ events \in 0..MaxEvents
        /\ worker.tenant \in Tenant
    BY DEF TypeOK, Worker
  <1>2. Event => events' \in 0..MaxEvents
    BY <1>1, EventsAssumption DEF Event
  <1>3. CASE SeedFirstAdmin
    BY <1>1, <1>3, IdleFacts DEF SeedFirstAdmin, ReturnQuietly, Return, bounded
  <1>4. ASSUME NEW t \in Tenant, RevokeFirstAdmin(t)
        PROVE  /\ grant' \subseteq Tenant /\ revoked' \subseteq Tenant /\ events' \in 0..MaxEvents
               /\ grant \cup revoked \subseteq grant' \cup revoked'
    BY <1>1, <1>2, <1>4 DEF RevokeFirstAdmin
  <1>5. ASSUME UNCHANGED grant, UNCHANGED revoked, events' \in 0..MaxEvents
        PROVE  /\ grant' \subseteq Tenant /\ revoked' \subseteq Tenant
               /\ grant \cup revoked \subseteq grant' \cup revoked'
    BY <1>1, <1>5
  <1> QED
    BY <1>1, <1>2, <1>3, <1>4, <1>5
    DEF Next, Call, CreateTenant, RenameTenant, DeleteTenant, WriteByUser, Reconcile,
        WorkspaceReady, WorkspaceGone, WatchTenants, WatchWorkspaces, CallFails, Crash,
        AddFinalizer, EnsureCandidate, EnsureExhausted, WriteStatus, MarkSeeded, DeleteWorkspace,
        RemoveFinalizer, bounded

LEMMA MarkedKept == ASSUME Inv, Next PROVE Marked'
  <1>1. TypeOK /\ CopiesTrue /\ Marked /\ worker.tenant \in Tenant
    BY DEF Inv, TypeOK, Worker
  <1>2. Versions /\ CacheStep
    BY <1>1, ObjectSide
  <1>3. /\ grant \cup revoked \subseteq grant' \cup revoked'
        /\ SeedFirstAdmin /\ worker'.at = "mark" => worker.tenant \in grant'
    BY <1>1, GrantsRemembered
  <1>4. ASSUME NEW t \in Tenant, obj'[t].seeded PROVE t \in grant \cup revoked
    BY <1>1, <1>2, <1>4, GoneFacts DEF Marked, Versions, UserVersion, WorkerVersion, LastVersion
  <1>5. ASSUME NEW t \in Tenant, cache'[t].seeded PROVE t \in grant \cup revoked
    BY <1>1, <1>2, <1>4, <1>5 DEF Marked, CacheStep
  <1>6. ASSUME worker'.copy.seeded \/ worker'.at = "mark"
        PROVE  worker'.tenant \in grant' \cup revoked'
    <2>1. CASE Continues
      BY <1>1, <1>3, <1>6, <2>1 DEF Continues, Marked
    <2>2. CASE Begins /\ worker'.tenant \in Tenant
      BY <1>1, <1>3, <1>6, <2>2 DEF Begins, Marked
    <2> QED
      BY <1>1, <1>6, <2>1, <2>2, WorkerStep, IdleFacts DEF Returns
  <1> QED
    BY <1>3, <1>4, <1>5, <1>6 DEF Marked

LEMMA InvKept == ASSUME Inv, [Next]_vars PROVE Inv'
  <1>1. CASE Next
    <2>1. TypeOK /\ CopiesTrue
      BY DEF Inv
    <2>2. ObjectTypeOK' /\ worker' \in Worker /\ CopiesTrue'
      BY <1>1, <2>1, ObjectSide
    <2>3. WorkspacesTypeOK'
      BY <1>1, <2>1, WorkspaceStep
    <2>4. grant' \subseteq Tenant /\ revoked' \subseteq Tenant /\ events' \in 0..MaxEvents
      BY <1>1, <2>1, GrantsRemembered
    <2>5. TypeOK'
      BY <2>2, <2>3, <2>4 DEF TypeOK, ObjectTypeOK, WorkspacesTypeOK
    <2> QED
      BY <1>1, <2>2, <2>5, OrderKept, HeldKept, SeenKept, StatusesKept, MarkedKept DEF Inv
  <1>2. CASE UNCHANGED vars
    BY <1>2
    DEF vars, bounded, Inv, TypeOK, CopiesTrue, LifeOrder, Held, Busy, Seen, SeenAt, Withdrawn,
        Statuses, StatusTrue, Served, Marked
  <1> QED
    BY <1>1, <1>2

(* The invariant holds in every state the operator reaches (tenant.go,     *)
(* workspaces.go), whatever the users, kcp and the watches do between any  *)
(* two of its calls.                                                       *)
THEOREM AlwaysInv == SafeSpec => []Inv
  BY Initially, InvKept, PTL DEF SafeSpec

-----------------------------------------------------------------------------
(* Every variable keeps its type, and a tenant marked as seeded has had    *)
(* its first admin (seedFirstAdmin), whichever call fails in between.      *)
THEOREM MarkedTenantsAreSeeded == SafeSpec => []ProvisioningInv
  <1>1. Inv => ProvisioningInv
    BY DEF Inv, Marked, ProvisioningInv, MarkImpliesGranted
  <1> QED
    BY <1>1, AlwaysInv, PTL

(* A status says Ready only while the workspace it names is the tenant's   *)
(* own and ready (updateTenantStatus), from caches however old.            *)
THEOREM ReadyIsAlwaysTrue == SafeSpec => []ReadyIsTrue
  <1>1. ASSUME Inv, NEW t \in Tenant, obj[t].life = "live", obj[t].status.phase = "Ready"
        PROVE  /\ ws[obj[t].status.workspace].owner = t
               /\ ws[obj[t].status.workspace].life = "ready"
    <2>1. Served(t, obj[t].status.workspace)
      BY <1>1 DEF Inv, Statuses, StatusTrue
    <2>2. ~Withdrawn(t)
      BY <1>1 DEF Inv, LifeOrder, Withdrawn
    <2> QED
      BY <2>1, <2>2 DEF Served, Ready
  <1>2. Inv => ReadyIsTrue
    BY <1>1 DEF ReadyIsTrue
  <1> QED
    BY <1>2, AlwaysInv, PTL

(* deleteWorkspace deletes a workspace only for the tenant that owns it    *)
(* and that is being deleted itself.                                       *)
THEOREM OnlyItsOwnIsDeleted == SafeSpec => DeletesOnlyItsOwn
  <1>1. ASSUME Inv, Next, NEW n \in WorkspaceName,
               ws[n].life # "deleting", ws'[n].life = "deleting"
        PROVE  obj[ws[n].owner].life = "deleting"
    <2>1. WorkspaceChange(n) /\ worker.tenant \in Tenant /\ ws[n] \in Workspace
      BY <1>1, WorkspaceStep DEF Inv, TypeOK, Worker
    <2>2. Deleted(n)
      BY <1>1, <2>1
      DEF WorkspaceChange, Created, BecameReady, Disappeared, NoWS, Workspace
    <2>3. ws[n].owner = worker.tenant
      BY <1>1, <2>2 DEF Deleted, Ours, Inv, Seen, SeenAt
    <2>4. cache[worker.tenant].life = "deleting" /\ Busy(worker.tenant)
      BY <1>1, <2>2 DEF Deleted, Inv, Held, DeletePhase, Busy
    <2> QED
      BY <1>1, <2>1, <2>3, <2>4 DEF Inv, Held
  <1>2. Inv /\ [Next]_vars =>
           [\A n \in WorkspaceName :
               ws[n].life # "deleting" /\ ws'[n].life = "deleting"
                 => obj[ws[n].owner].life = "deleting"]_vars
    BY <1>1
  <1> QED
    BY <1>2, AlwaysInv, PTL DEF SafeSpec, DeletesOnlyItsOwn

(* The finalizer of a tenant that has been Ready goes only when kcp has    *)
(* removed its workspace (deleteWorkspace before RemoveFinalizer).         *)
THEOREM FinalizerAlwaysHolds == SafeSpec => FinalizerHolds
  <1>1. ASSUME Inv, Next, NEW t \in Tenant, obj[t].life = "deleting",
               obj[t].status.phase = "Ready", obj'[t].life = "gone"
        PROVE  ws[obj[t].status.workspace].owner # t
    <2>1. Versions
      BY <1>1, ObjectSide DEF Inv
    <2>2. LastVersion(t)
      BY <1>1, <2>1 DEF Versions, UserVersion, WorkerVersion
    <2>3. worker.copy = obj[t] /\ t = worker.tenant /\ worker.at = "removeFinalizer"
      BY <1>1, <2>2 DEF LastVersion, Inv, CopiesTrue
    <2> QED
      BY <1>1, <2>3 DEF Inv, Statuses
  <1>2. Inv /\ [Next]_vars =>
           [\A t \in Tenant :
               /\ obj[t].life = "deleting" /\ obj[t].status.phase = "Ready"
               /\ obj'[t].life = "gone"
               => ws[obj[t].status.workspace].owner # t]_vars
    BY <1>1
  <1> QED
    BY <1>2, AlwaysInv, PTL DEF SafeSpec, FinalizerHolds
=============================================================================

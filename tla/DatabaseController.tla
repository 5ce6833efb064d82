-------------------------- MODULE DatabaseController -------------------------
(***************************************************************************)
(* The database controller of the producer quickstart                      *)
(* (producer-quickstart/internal/controller): it follows the Databases of  *)
(* a workspace that enabled the export and moves the status of each from   *)
(* Pending to Ready, once for every generation of its spec.  It reads from *)
(* a cache, writes against the resource version it has read, and is told   *)
(* only of creations, deletions and new generations.                       *)
(*                                                                         *)
(* A copy of an object stands for its resource version: no two states of   *)
(* an object are equal, as each incarnation has a uid, each edit a         *)
(* generation and each status more than the one before.                    *)
(***************************************************************************)
EXTENDS Naturals

CONSTANTS
    Database,     \* names of databases, in one workspace
    Engine,
    EndpointOf,   \* EndpointOf[e]: where a database with engine e answers
    NoEngine,
    MaxChanges    \* bound on what consumers do, failures and restarts

VARIABLES
    db, dbCache,  \* the Databases of the workspace, and the informer's copies
    enabled,      \* whether the workspace binds the export
    dbQueue,      \* the controller's queue
    waiting,      \* the keys that RequeueAfter brings back
    worker,       \* the reconcile in progress
    changes,
    asked,        \* history: the engine of every generation there was
    unseen        \* history: the uids of databases that took the place of
                  \* another while the watch was broken, and went unnoticed

databaseVars == <<db, dbCache, enabled, dbQueue, waiting, worker, changes, asked, unseen>>
consumerVars == <<db, enabled, changes, asked>>
controllerVars == <<dbCache, dbQueue, waiting, worker, unseen>>

NoStatus == [phase |-> "", observed |-> 0, endpoint |-> NoEngine, ready |-> "", readyAt |-> 0]
NoDatabase == [life |-> "none", uid |-> 0, generation |-> 0, engine |-> NoEngine, status |-> NoStatus]

IdleWorker == [busy |-> FALSE]

DatabaseInit ==
    /\ db = [d \in Database |-> NoDatabase] /\ dbCache = db
    /\ enabled = TRUE
    /\ dbQueue = {} /\ waiting = {} /\ worker = IdleWorker
    /\ changes = 0 /\ asked = {} /\ unseen = {}

-----------------------------------------------------------------------------
Change == changes < MaxChanges /\ changes' = changes + 1

(* Consumers write their databases (external). *)
WriteDatabase(d, o) ==
    /\ Change
    /\ db' = [db EXCEPT ![d] = o]
    /\ asked' = asked \cup {[uid |-> o.uid, generation |-> o.generation, engine |-> o.engine]}
    /\ UNCHANGED <<enabled, controllerVars>>

CreateDatabase(d, engine) ==
    /\ db[d].life = "none"
    /\ WriteDatabase(d, [life |-> "live", uid |-> changes + 1, generation |-> 1,
                         engine |-> engine, status |-> NoStatus])

EditDatabase(d, engine) ==
    /\ db[d].life = "live" /\ db[d].engine # engine
    /\ WriteDatabase(d, [db[d] EXCEPT !.engine = engine, !.generation = @ + 1])

(* With a finalizer of somebody else's a deleted database stays a while.   *)
DeleteDatabase(d) ==
    /\ db[d].life = "live"
    /\ \/ WriteDatabase(d, NoDatabase)
       \/ WriteDatabase(d, [db[d] EXCEPT !.life = "deleting", !.generation = @ + 1])

FinalizerRemoved(d) == db[d].life = "deleting" /\ WriteDatabase(d, NoDatabase)

(* GenerationChangedPredicate: creations and deletions, and of updates the *)
(* ones with another generation.                                           *)
Passes(old, new) == old.life = "none" \/ new.life = "none" \/ old.generation # new.generation

(* The informer is told of every event, or finds out by a new list what is *)
(* different; then a database with the name of a deleted one is an update. *)
Observe(d, queued) ==
    /\ enabled
    /\ dbCache[d] # db[d]
    /\ dbCache' = [dbCache EXCEPT ![d] = db[d]]
    /\ dbQueue' = IF queued THEN dbQueue \cup {d} ELSE dbQueue
    /\ UNCHANGED <<consumerVars, waiting, worker>>

Watch(d) ==
    /\ Observe(d, Passes(dbCache[d], db[d]) \/ dbCache[d].uid # db[d].uid)
    /\ UNCHANGED unseen

Relist(d) ==
    /\ Observe(d, Passes(dbCache[d], db[d]))
    /\ unseen' = IF ~Passes(dbCache[d], db[d]) /\ dbCache[d].uid # db[d].uid
                 THEN unseen \cup {db[d].uid} ELSE unseen

(* The export is disabled and enabled again: a workspace that comes back   *)
(* is listed from nothing.                                                 *)
Disable ==
    /\ enabled /\ Change
    /\ enabled' = FALSE
    /\ dbCache' = [d \in Database |-> NoDatabase]
    /\ UNCHANGED <<db, asked, dbQueue, waiting, worker, unseen>>

Enable ==
    /\ ~enabled /\ Change
    /\ enabled' = TRUE
    /\ UNCHANGED <<db, asked, controllerVars>>

-----------------------------------------------------------------------------
endpointFor(o) == EndpointOf[o.engine]

(* A mutant of Current: any Ready is final. *)
MutCurrent(o) == o.status.phase = "Ready"

(* The status describes this generation and is final. *)
Current(o) == o.status.observed = o.generation /\ o.status.phase = "Ready"

(* A mutant of Acknowledged: whatever generation the Pending was for. *)
MutAcknowledged(o) == o.status.phase = "Pending"

(* The first pass for this generation has been made. *)
Acknowledged(o) == o.status.observed = o.generation /\ o.status.phase = "Pending"

(* The status that a pass writes, with the condition of setReady.          *)
PendingStatus(o) == [phase |-> "Pending", observed |-> o.generation, endpoint |-> NoEngine,
                     ready |-> "False", readyAt |-> o.generation]
ReadyStatus(o) == [o.status EXCEPT !.phase = "Ready", !.endpoint = endpointFor(o),
                                   !.ready = "True", !.readyAt = o.generation]

(* Reconcile up to its write.  A workspace that has left is given up on.   *)
Reconcile(d) ==
    LET o == dbCache[d] IN
    /\ ~worker.busy
    /\ d \in dbQueue
    /\ dbQueue' = dbQueue \ {d}
    /\ worker' = IF ~enabled \/ o.life # "live" \/ Current(o) THEN IdleWorker
                 ELSE [busy |-> TRUE, key |-> d, copy |-> o,
                       status |-> IF Acknowledged(o) THEN ReadyStatus(o) ELSE PendingStatus(o)]
    /\ UNCHANGED <<consumerVars, dbCache, waiting, unseen>>

(* Status().Update.  A conflict, an object that is gone and any other      *)
(* error are retried, among them one that hides a write that was made; the *)
(* first pass asks to be called again.                                     *)
Written ==
    LET d == worker.key IN
    /\ db[d] = worker.copy
    /\ db' = [db EXCEPT ![d].status = worker.status]

Retried == dbQueue' = dbQueue \cup {worker.key} /\ UNCHANGED waiting

UpdateStatus ==
    /\ worker.busy
    /\ worker' = IdleWorker
    /\ \/ /\ Written
          /\ waiting' = IF worker.status.phase = "Pending" THEN waiting \cup {worker.key} ELSE waiting
          /\ UNCHANGED dbQueue
       \/ db[worker.key] # worker.copy /\ Retried /\ UNCHANGED db
    /\ UNCHANGED <<enabled, changes, asked, dbCache, unseen>>

UpdateFails ==
    /\ worker.busy
    /\ Change
    /\ worker' = IdleWorker
    /\ Retried
    /\ Written \/ UNCHANGED db
    /\ UNCHANGED <<enabled, asked, dbCache, unseen>>

(* provisioningDelay is over. *)
Requeue(d) ==
    /\ d \in waiting
    /\ waiting' = waiting \ {d}
    /\ dbQueue' = dbQueue \cup {d}
    /\ UNCHANGED <<consumerVars, dbCache, worker, unseen>>

(* The producer's process starts over, and lists everything. *)
RestartProducer ==
    /\ Change
    /\ dbCache' = [d \in Database |-> NoDatabase]
    /\ dbQueue' = {} /\ waiting' = {} /\ worker' = IdleWorker /\ unseen' = {}
    /\ UNCHANGED <<db, enabled, asked>>

DatabaseNext ==
    \/ \E d \in Database : \/ \E e \in Engine : CreateDatabase(d, e) \/ EditDatabase(d, e)
                           \/ DeleteDatabase(d) \/ FinalizerRemoved(d)
                           \/ Watch(d) \/ Relist(d) \/ Reconcile(d) \/ Requeue(d)
    \/ Disable \/ Enable \/ UpdateStatus \/ UpdateFails \/ RestartProducer

(* Watches deliver, queued keys are taken in turn, calls return and delays *)
(* end.                                                                    *)
DatabaseFairness ==
    /\ \A d \in Database : /\ WF_databaseVars(Watch(d)) /\ WF_databaseVars(Requeue(d))
                           /\ SF_databaseVars(Reconcile(d))
    /\ WF_databaseVars(UpdateStatus)

-----------------------------------------------------------------------------
(* database_types.go: observedGeneration is there "so a reader can tell a  *)
(* stale Ready from a current one".  A Ready status tells the endpoint of  *)
(* the spec of the generation that it claims to describe, however stale    *)
(* the copy it was made from.                                              *)
ReadyIsOfItsGeneration ==
    \A d \in Database : db[d].status.phase = "Ready" =>
        /\ db[d].status.readyAt = db[d].status.observed
        /\ \E a \in asked : /\ a.uid = db[d].uid /\ a.generation = db[d].status.observed
                            /\ db[d].status.endpoint = EndpointOf[a.engine]

(* Whatever conflicts, fails or restarts, a database in an enabled         *)
(* workspace becomes Ready for the spec it has in the end, unless it took  *)
(* the place of a deleted one behind a broken watch.                       *)
DatabasesGetReady ==
    <>[](\A d \in Database :
            enabled /\ db[d].life = "live" /\ db[d].uid \notin unseen =>
                /\ Current(db[d])
                /\ db[d].status.endpoint = EndpointOf[db[d].engine])
=============================================================================

---------------------------- MODULE Provisioning ----------------------------
(***************************************************************************)
(* How the tenancy operator turns Tenant objects into kcp workspaces and   *)
(* back (tenancy/pkg/operator: tenant.go, workspaces.go; the candidates of *)
(* tenancy/pkg/naming), and how it seeds a tenant's first admin.           *)
(*                                                                         *)
(* One worker runs reconcileTenant for one object at a time.  Each call to *)
(* an API server is a step of its own, so users, kcp and the watches that  *)
(* feed the informer caches act between any two of them.  Reads come from  *)
(* the caches; writes go to the server and fail with a conflict when the   *)
(* worker's copy is not the current version.                               *)
(***************************************************************************)
EXTENDS Naturals, Sequences

CONSTANTS
    Tenant,           \* Tenant objects, named by their UID
    Title,            \* display names, up to what slugification keeps
    NoTitle, NoOwner, \* absent parts of a workspace name
    NoWorkspace,      \* an empty status.workspace
    Strategy,         \* the naming strategy: "slug" or "uid"
    Lagging,          \* the caches that may lag: "tenants", "workspaces"
    MaxEvents         \* bound on renames, deletions, revocations, failing
                      \* calls and restarts together

(* A workspace name: a slug, a UID-derived suffix, or both. *)
WorkspaceName == [slug : Title \cup {NoTitle}, uid : Tenant \cup {NoOwner}]

ASSUME StrategyAssumption == Strategy \in {"slug", "uid"}
ASSUME AbsentAssumption == NoOwner \notin Tenant /\ NoWorkspace \notin WorkspaceName
ASSUME EventsAssumption == MaxEvents \in Nat

(* naming.Strategy.Propose: candidates, most preferred first. *)
Propose(title, uid) ==
    IF Strategy = "uid" \/ title = NoTitle
    THEN <<[slug |-> NoTitle, uid |-> uid]>>
    ELSE <<[slug |-> title, uid |-> NoOwner], [slug |-> title, uid |-> uid]>>

VARIABLES
    obj,        \* obj[t]: the Tenant object at its API server
    cache,      \* cache[t]: the informer's copy of it
    current,    \* the tenants whose cached copy is the current version
    ws,         \* ws[n]: the Workspace object n of the provisioning parent
    wsCache,    \* wsCache[n]: the informer's copy of it
    grant,      \* the tenants whose first admin holds an admin Membership
    queue,      \* the controller's work queue
    worker,     \* the reconcile in progress
    events,     \* how many of the bounded events have happened
    revoked     \* history: the tenants whose first admin was revoked

bounded == <<events, revoked>>
vars == <<obj, cache, current, ws, wsCache, grant, queue, worker, bounded>>

Phase == {"", "Pending", "Ready", "Error"}

Status == [phase : Phase, workspace : WorkspaceName \cup {NoWorkspace}]

NewStatus == [phase |-> "", workspace |-> NoWorkspace]

(* life: not created yet, live, being deleted (deletionTimestamp set and a *)
(* finalizer left), gone.                                                  *)
Object == [life : {"absent", "live", "deleting", "gone"}, title : Title \cup {NoTitle},
           finalizer : BOOLEAN, seeded : BOOLEAN, status : Status]

Workspace == [life : {"none", "new", "ready", "deleting"}, owner : Tenant \cup {NoOwner}]

NoWS == [life |-> "none", owner |-> NoOwner]

Step == {"idle", "addFinalizer", "ensure", "writeStatus", "seed", "mark",
         "deleteWorkspace", "removeFinalizer"}

(* at: the next call; tenant, copy: the object being reconciled as the     *)
(* worker holds it; fresh: copy is the current version; try: the candidate *)
(* to try; status: what is about to be written.                            *)
Worker == [at : Step, tenant : Tenant, copy : Object, fresh : BOOLEAN,
           try : 1..3, status : Status]

TypeOK ==
    /\ obj \in [Tenant -> Object] /\ cache \in [Tenant -> Object]
    /\ current \subseteq Tenant
    /\ ws \in [WorkspaceName -> Workspace] /\ wsCache \in [WorkspaceName -> Workspace]
    /\ grant \subseteq Tenant /\ queue \subseteq Tenant
    /\ worker \in Worker
    /\ events \in 0..MaxEvents /\ revoked \subseteq Tenant

NewObject(title, life) ==
    [life |-> life, title |-> title, finalizer |-> FALSE, seeded |-> FALSE,
     status |-> NewStatus]

Gone == NewObject(NoTitle, "gone")

IdleWorker(t) ==
    [at |-> "idle", tenant |-> t, copy |-> NewObject(NoTitle, "absent"), fresh |-> FALSE,
     try |-> 1, status |-> NewStatus]

Init ==
    /\ obj = [t \in Tenant |-> NewObject(NoTitle, "absent")]
    /\ cache = obj
    /\ current = Tenant
    /\ ws = [n \in WorkspaceName |-> NoWS]
    /\ wsCache = ws
    /\ grant = {}
    /\ queue = {}
    /\ \E t \in Tenant : worker = IdleWorker(t)
    /\ events = 0 /\ revoked = {}

-----------------------------------------------------------------------------
Event == events < MaxEvents /\ events' = events + 1

Enqueue(ts) == queue' = queue \cup ts

(* A new version of t's object, with `again` to queue: a cache without lag *)
(* sees the version at once, which queues t, too.                          *)
NewVersion(t, o, again) ==
    /\ obj' = [obj EXCEPT ![t] = o]
    /\ IF "tenants" \in Lagging
       THEN current' = current \ {t} /\ Enqueue(again) /\ UNCHANGED cache
       ELSE cache' = obj' /\ Enqueue(again \cup {t}) /\ UNCHANGED current

(* A write to t's object by somebody else: the worker's copy is stale. *)
WriteByUser(t, o) ==
    /\ NewVersion(t, o, {})
    /\ worker' = IF worker.tenant = t THEN [worker EXCEPT !.fresh = FALSE] ELSE worker
    /\ UNCHANGED <<ws, wsCache, grant, revoked>>

CreateTenant(t, title) ==
    /\ obj[t].life = "absent"
    /\ WriteByUser(t, NewObject(title, "live"))
    /\ UNCHANGED events

(* spec.displayName is an ordinary field, so it can be edited. *)
RenameTenant(t, title) ==
    /\ obj[t].life = "live" /\ title # obj[t].title
    /\ Event
    /\ WriteByUser(t, [obj[t] EXCEPT !.title = title])

(* Without a finalizer the object goes at once. *)
DeleteTenant(t) ==
    /\ obj[t].life = "live"
    /\ Event
    /\ WriteByUser(t, IF obj[t].finalizer THEN [obj[t] EXCEPT !.life = "deleting"] ELSE Gone)

(* Somebody who administers the tenant revokes the first admin's grant. *)
RevokeFirstAdmin(t) ==
    /\ t \in grant
    /\ Event
    /\ grant' = grant \ {t}
    /\ revoked' = revoked \cup {t}
    /\ UNCHANGED <<obj, cache, current, ws, wsCache, queue, worker>>

(* kcp: a workspace becomes ready, or a deleted one disappears.  Without   *)
(* lag the cache sees each change of a workspace at once.                  *)
SetWorkspace(n, w) ==
    /\ ws' = [ws EXCEPT ![n] = w]
    /\ wsCache' = IF "workspaces" \in Lagging THEN wsCache ELSE ws'

WorkspaceReady(n) ==
    /\ ws[n].life = "new"
    /\ SetWorkspace(n, [ws[n] EXCEPT !.life = "ready"])
    /\ UNCHANGED <<obj, cache, current, grant, queue, worker, bounded>>

WorkspaceGone(n) ==
    /\ ws[n].life = "deleting"
    /\ SetWorkspace(n, NoWS)
    /\ UNCHANGED <<obj, cache, current, grant, queue, worker, bounded>>

(* Watches.  Each informer is one ordered stream, so a cache is always a   *)
(* snapshot of some earlier moment; the one of Tenants queues what has     *)
(* changed, and nothing watches Workspaces.                                *)
WatchTenants ==
    /\ current # Tenant
    /\ cache' = obj
    /\ current' = Tenant
    /\ queue' = queue \cup (Tenant \ current)
    /\ UNCHANGED <<obj, ws, wsCache, grant, worker, bounded>>

WatchWorkspaces ==
    /\ wsCache # ws
    /\ wsCache' = ws
    /\ UNCHANGED <<obj, cache, current, ws, grant, queue, worker, bounded>>

-----------------------------------------------------------------------------
(* The reconcile returns. *)
Return == worker' = IdleWorker(worker.tenant)

(* It returns with nothing written.  A request to requeue and an error     *)
(* both put the object back on the queue with a delay.                     *)
ReturnQuietly == Return /\ UNCHANGED <<obj, cache, current, queue>>
ReturnAgain == Return /\ Enqueue({worker.tenant}) /\ UNCHANGED <<obj, cache, current>>

At(step) == worker.at = step

Goto(step) == worker' = [worker EXCEPT !.at = step]

(* The first reads of reconcileTenant and the branch on what they found. *)
Reconcile(t) ==
    LET c == cache[t] IN
    /\ At("idle")
    /\ t \in queue
    /\ queue' = queue \ {t}
    /\ worker' = IF c.life \in {"absent", "gone"}
                 THEN IdleWorker(t)
                 ELSE [IdleWorker(t) EXCEPT
                          !.at = CASE c.life = "deleting" -> "deleteWorkspace"
                                   [] c.life = "live" /\ c.finalizer -> "ensure"
                                   [] OTHER -> "addFinalizer",
                          !.copy = c, !.fresh = t \in current]
    /\ UNCHANGED <<obj, cache, current, ws, wsCache, grant, bounded>>

(* A conflict is requeued, like the error when the object is gone. *)
AddFinalizer ==
    LET new == [worker.copy EXCEPT !.finalizer = TRUE] IN
    /\ At("addFinalizer")
    /\ \/ /\ worker.fresh
          /\ NewVersion(worker.tenant, new, {})
          /\ worker' = [worker EXCEPT !.copy = new, !.at = "ensure"]
       \/ /\ ~worker.fresh
          /\ ReturnAgain
    /\ UNCHANGED <<ws, wsCache, grant, bounded>>

(* The owner label of a workspace, as the cache has it. *)
MutAnyOwner(w, t) == w.life # "none"
Ours(w, t) == w.life # "none" /\ w.owner = t

(* ensureWorkspace settles on a workspace: what reconcileTenant will write *)
(* is Ready only if the workspace is.                                      *)
MutSettleReady(n, isReady) ==   \* Ready as soon as the workspace is created
    worker' = [worker EXCEPT !.at = "writeStatus",
                             !.status = [phase |-> "Ready", workspace |-> n]]

Settle(n, isReady) ==
    worker' = [worker EXCEPT !.at = "writeStatus",
                             !.status = [phase |-> IF isReady THEN "Ready" ELSE "Pending",
                                         workspace |-> n]]

(* ensureWorkspace fails: the error status carries no workspace. *)
EnsureFailed ==
    worker' = [worker EXCEPT !.at = "writeStatus",
                             !.status = [phase |-> "Error", workspace |-> NoWorkspace]]

(* One round of ensureWorkspace's loop over the candidates. *)
EnsureCandidate ==
    LET t == worker.tenant
        names == Propose(worker.copy.title, t)
        n == names[worker.try]
        seen == wsCache[n]
    IN  /\ At("ensure")
        /\ worker.try <= Len(names)
        /\ \/ /\ seen.life = "none" /\ ws[n].life = "none"
              /\ SetWorkspace(n, [life |-> "new", owner |-> t])
              /\ Settle(n, FALSE)
           \/ /\ seen.life = "none" /\ ws[n].life # "none"     \* AlreadyExists
              /\ worker' = [worker EXCEPT !.try = @ + 1]
              /\ UNCHANGED <<ws, wsCache>>
           \/ /\ Ours(seen, t)                               \* adopted
              /\ Settle(n, seen.life = "ready")
              /\ UNCHANGED <<ws, wsCache>>
           \/ /\ seen.life # "none" /\ ~Ours(seen, t)        \* somebody else's
              /\ worker' = [worker EXCEPT !.try = @ + 1]
              /\ UNCHANGED <<ws, wsCache>>
        /\ UNCHANGED <<obj, cache, current, grant, queue, bounded>>

(* Every candidate is taken. *)
EnsureExhausted ==
    /\ At("ensure")
    /\ worker.try > Len(Propose(worker.copy.title, worker.tenant))
    /\ EnsureFailed
    /\ UNCHANGED <<obj, cache, current, ws, wsCache, grant, queue, bounded>>

(* A call to the API server fails. *)
CallFails ==
    /\ Event
    /\ \/ At("ensure") /\ EnsureFailed /\ UNCHANGED <<obj, cache, current, queue>>
       \/ worker.at \notin {"idle", "ensure"} /\ ReturnAgain
    /\ UNCHANGED <<ws, wsCache, grant, revoked>>

(* A reconcile that does not get as far as the first admin comes back: it  *)
(* failed, or it waits for the workspace and nothing else would wake it.   *)
MutNoWait(goOn, t) == {}
ComeBack(goOn, t) == IF goOn THEN {} ELSE {t}

(* updateTenantStatus and what reconcileTenant does after it: an equal     *)
(* status is not written, a conflict is ignored, an object that is gone is *)
(* an error, and only a ready workspace leads on to the first admin.       *)
WriteStatus ==
    LET t == worker.tenant
        new == [worker.copy EXCEPT !.status = worker.status]
        write == worker.copy.status # worker.status
        goOn == worker.status.phase = "Ready" /\ ~(write /\ obj[t].life = "gone")
        again == ComeBack(goOn, t)
    IN  /\ At("writeStatus")
        /\ IF write /\ worker.fresh
           THEN NewVersion(t, new, again)
           ELSE Enqueue(again) /\ UNCHANGED <<obj, cache, current>>
        /\ IF goOn
           THEN worker' = [worker EXCEPT !.at = "seed", !.copy = new]
           ELSE Return
        /\ UNCHANGED <<ws, wsCache, grant, bounded>>

(* seedFirstAdmin: create the Membership, or make an existing one admin.   *)
MutSeedIgnoresFailure ==   \* goes on to the mark whether or not Create worked
    /\ At("seed")
    /\ IF worker.copy.seeded THEN ReturnQuietly
       ELSE Goto("mark") /\ UNCHANGED <<obj, cache, current, queue>>
    /\ UNCHANGED <<grant, ws, wsCache, bounded>>

SeedFirstAdmin ==
    /\ At("seed")
    /\ IF worker.copy.seeded
       THEN ReturnQuietly /\ UNCHANGED grant
       ELSE /\ grant' = grant \cup {worker.tenant}
            /\ Goto("mark")
            /\ UNCHANGED <<obj, cache, current, queue>>
    /\ UNCHANGED <<ws, wsCache, bounded>>

(* The annotation is a merge patch, so it applies to whatever version the  *)
(* server has; it fails only when the object is gone.                      *)
MarkSeeded ==
    LET t == worker.tenant IN
    /\ At("mark")
    /\ \/ /\ obj[t].life # "gone"
          /\ NewVersion(t, [obj[t] EXCEPT !.seeded = TRUE], {})
          /\ Return
       \/ /\ obj[t].life = "gone"
          /\ ReturnAgain
    /\ UNCHANGED <<ws, wsCache, grant, bounded>>

(* deleteWorkspace reports that nothing is left to wait for: no workspace  *)
(* recorded, none found, or not ours.                                      *)
MutDeletionInFlight(n, t) ==   \* done once the workspace is being deleted
    n = NoWorkspace \/ ~Ours(wsCache[n], t) \/ wsCache[n].life = "deleting"

NothingToDelete(n, t) == n = NoWorkspace \/ ~Ours(wsCache[n], t)

DeleteWorkspace ==
    LET t == worker.tenant
        n == worker.copy.status.workspace
    IN  /\ At("deleteWorkspace")
        /\ IF NothingToDelete(n, t)
           THEN /\ Goto("removeFinalizer")
                /\ UNCHANGED <<obj, cache, current, queue, ws, wsCache>>
           ELSE /\ IF wsCache[n].life # "deleting" /\ ws[n].life # "none"
                   THEN SetWorkspace(n, [ws[n] EXCEPT !.life = "deleting"])
                   ELSE UNCHANGED <<ws, wsCache>>
                /\ ReturnAgain
        /\ UNCHANGED <<grant, bounded>>

(* With its last finalizer gone the object is removed.  A conflict is      *)
(* returned and retried; NotFound is not.                                  *)
RemoveFinalizer ==
    LET t == worker.tenant IN
    /\ At("removeFinalizer")
    /\ \/ /\ worker.copy.finalizer /\ worker.fresh
          /\ NewVersion(t, Gone, {})
          /\ Return
       \/ /\ worker.copy.finalizer /\ ~worker.fresh /\ obj[t].life # "gone"
          /\ ReturnAgain
       \/ /\ worker.copy.finalizer => ~worker.fresh /\ obj[t].life = "gone"
          /\ ReturnQuietly
    /\ UNCHANGED <<ws, wsCache, grant, bounded>>

(* The operator restarts: it relists everything and queues it again. *)
Crash ==
    /\ Event
    /\ worker' = IdleWorker(worker.tenant)
    /\ cache' = obj /\ current' = Tenant
    /\ wsCache' = ws
    /\ queue' = {t \in Tenant : obj[t].life \in {"live", "deleting"}}
    /\ UNCHANGED <<obj, ws, grant, revoked>>

Call == \/ AddFinalizer \/ EnsureCandidate \/ EnsureExhausted \/ WriteStatus
        \/ SeedFirstAdmin \/ MarkSeeded \/ DeleteWorkspace \/ RemoveFinalizer

Next ==
    \/ \E t \in Tenant, title \in Title \cup {NoTitle} :
            CreateTenant(t, title) \/ RenameTenant(t, title)
    \/ \E t \in Tenant : DeleteTenant(t) \/ RevokeFirstAdmin(t) \/ Reconcile(t)
    \/ \E n \in WorkspaceName : WorkspaceReady(n) \/ WorkspaceGone(n)
    \/ WatchTenants
    \/ WatchWorkspaces
    \/ Call
    \/ CallFails
    \/ Crash

(* Watches deliver, kcp works on workspaces, the controller takes every    *)
(* queued object in turn and its calls return.  Users owe nothing.         *)
Fairness ==
    /\ WF_vars(WatchTenants) /\ WF_vars(WatchWorkspaces)
    /\ \A t \in Tenant : SF_vars(Reconcile(t))
    /\ \A n \in WorkspaceName : WF_vars(WorkspaceReady(n)) /\ WF_vars(WorkspaceGone(n))
    /\ WF_vars(Call)

SafeSpec == Init /\ [][Next]_vars

Spec == SafeSpec /\ Fairness

-----------------------------------------------------------------------------
(* A workspace is only ever deleted on behalf of the tenant it belongs to, *)
(* however stale the caches are and whoever else wanted its name: the      *)
(* delete goes by name, so what protects a neighbour is the owner label of *)
(* a cached copy.                                                          *)
DeletesOnlyItsOwn ==
    [][\A n \in WorkspaceName :
          ws[n].life # "deleting" /\ ws'[n].life = "deleting"
            => obj[ws[n].owner].life = "deleting"]_vars

(* A status says Ready only while the workspace it names is the tenant's   *)
(* own and has become ready, until the tenant itself is being deleted.     *)
ReadyIsTrue ==
    \A t \in Tenant : obj[t].life = "live" /\ obj[t].status.phase = "Ready"
        => /\ ws[obj[t].status.workspace].owner = t
           /\ ws[obj[t].status.workspace].life = "ready"

(* A tenant that has been Ready is held by its finalizer until kcp has     *)
(* really removed the workspace its status names, however far the caches   *)
(* lag: deleteWorkspace is done only when the workspace is not found.      *)
FinalizerHolds ==
    [][\A t \in Tenant :
          /\ obj[t].life = "deleting" /\ obj[t].status.phase = "Ready"
          /\ obj'[t].life = "gone"
          => ws[obj[t].status.workspace].owner # t]_vars

(* A tenant marked as seeded has its first admin until somebody revokes    *)
(* the grant: no failure, crash or stale copy leaves a tenant that nobody  *)
(* administers and that will never be seeded.                              *)
MarkImpliesGranted ==
    \A t \in Tenant : obj[t].seeded => t \in grant \cup revoked

(* A tenant that is neither deleted nor renamed gets its workspace and its *)
(* first admin, whatever names are taken and whichever calls fail.         *)
GetsReady ==
    \A t \in Tenant : obj[t].life = "live" ~>
        \/ obj[t].life # "live"
        \/ obj[t].status.phase = "Ready" /\ obj[t].seeded

(* A deleted tenant goes. *)
GetsDeleted == \A t \in Tenant : obj[t].life = "deleting" ~> obj[t].life = "gone"

(* operator.go: "finalizer marks objects whose materialized side effects   *)
(* must be removed before the object may go."                              *)
NoOrphanedWorkspace ==
    \A t \in Tenant, n \in WorkspaceName :
        obj[t].life = "gone" => ~(ws[n].owner = t /\ ws[n].life # "none")

(* A tenant that is marked as seeded has an admin (seedFirstAdmin), and no *)
(* variable leaves its type.                                               *)
ProvisioningInv == TypeOK /\ MarkImpliesGranted

(* The operator gets done with every tenant (reconcileTenant): what is to  *)
(* be there becomes ready and what is deleted goes.                        *)
TenantsSettle == GetsReady /\ GetsDeleted
=============================================================================

---------------------------- MODULE Marketplace -----------------------------
(***************************************************************************)
(* The marketplace operator (marketplace/pkg/operator).  The producer      *)
(* controller turns Producer records into workspaces, or notes which       *)
(* workspace a producer brought; the publish controller grants `bind` on   *)
(* every published APIExport of a registered workspace and revokes it when *)
(* the export is no longer published.  Each has one worker.  Each call to  *)
(* an API server is a step; reads come from informer caches.               *)
(*                                                                         *)
(* A workspace that the operator makes gets its logical cluster and is     *)
(* ready in one step: nothing is published from it before that.            *)
(***************************************************************************)
EXTENDS Naturals, FiniteSets

CONSTANTS
    Producer,           \* Producer records
    Cluster,            \* logical clusters that bind marketplace-publish
    Path, PathOf,       \* PathOf[c]: the kcp.io/path of c's LogicalCluster
    Brought,            \* the paths that external producers bring
    Home,               \* Home[p]: the cluster of the workspace named after p
    Export,             \* APIExports: [cluster, name]
    NoPath, NoCluster,  \* empty strings
    MaxExports,         \* bound on the exports that are ever created
    MaxEvents           \* bound on edits, deletions, failures and restarts

ASSUME PathAssumption == PathOf \in [Cluster -> Path] /\ NoPath \notin Path /\ Brought \subseteq Path
ASSUME ClusterAssumption == /\ Home \in [Producer -> Cluster] /\ NoCluster \notin Cluster
                            /\ \A e \in Export : e.cluster \in Cluster
ASSUME SomeAssumption == Producer # {} /\ Export # {} /\ MaxEvents \in Nat

VARIABLES
    prod, prodCache,      \* Producer records and the informer's copies
    ws, wsCache,          \* ws[p]: the workspace named after p
    export, exportCache,  \* APIExports
    role, roleCache,      \* the exports with a ClusterRole for `bind`
    crb,                  \* the exports with a ClusterRoleBinding for it
    queue,                \* both controllers' queues
    registrar,            \* the worker of the producer controller
    publisher,            \* the worker of the publish controller
    events,               \* how many bounded events have happened
    named,                \* history: clusters whose path a record has named
    offered,              \* history: exports that were published
    edited,               \* history: records whose spec was edited
    lost                  \* history: exports whose deletion the operator was not
                          \* there to see, or whose grant was not yet cached
                          \* when it should have been revoked

objects == <<prod, ws, export>>
caches == <<prodCache, wsCache, exportCache, roleCache>>
grants == <<role, crb>>
history == <<named, offered, edited, lost>>
vars == <<objects, caches, grants, queue, registrar, publisher, events, history>>

Phase == {"", "Pending", "Ready", "Error"}

(* workspace: whether status.workspace is set; it is the record's name. *)
Status == [phase : Phase, workspace : BOOLEAN, path : Path \cup {NoPath},
           cluster : Cluster \cup {NoCluster}]

NewStatus == [phase |-> "", workspace |-> FALSE, path |-> NoPath, cluster |-> NoCluster]

NoSpec == [mode |-> "provisioned", path |-> NoPath]

(* The path is ignored for mode provisioned. *)
RecordSpec == [mode : {"external"}, path : Brought \cup {NoPath}] \cup {NoSpec}

Record == [life : {"absent", "live", "deleting", "gone"}, spec : RecordSpec,
           finalizer : BOOLEAN, status : Status]

NewRecord(spec, life) ==
    [life |-> life, spec |-> spec, finalizer |-> FALSE, status |-> NewStatus]

Gone == NewRecord(NoSpec, "gone")

Workspace == [life : {"none", "new", "ready", "deleting"}, ours : BOOLEAN]
NoWorkspace == [life |-> "none", ours |-> FALSE]

(* An export that is being deleted has somebody else's finalizer. *)
ExportState == {"absent", "private", "published", "deleting"}

Registrar == [at : {"idle", "addFinalizer", "ensure", "status", "deleteWorkspace",
                    "removeFinalizer"},
              key : Producer, copy : Record, status : Status]

Publisher == [at : {"idle", "resolve", "learn", "createRole", "createBinding",
                    "revoke", "deleteBinding", "deleteRole"},
              key : Export, owner : Producer, copy : Record]

Anyone == CHOOSE p \in Producer : TRUE

IdleRegistrar == [at |-> "idle", key |-> Anyone, copy |-> Gone, status |-> NewStatus]
IdlePublisher == [at |-> "idle", key |-> CHOOSE e \in Export : TRUE,
                  owner |-> Anyone, copy |-> Gone]

TypeOK ==
    /\ prod \in [Producer -> Record] /\ prodCache \in [Producer -> Record]
    /\ ws \in [Producer -> Workspace] /\ wsCache \in [Producer -> Workspace]
    /\ export \in [Export -> ExportState] /\ exportCache \in [Export -> ExportState]
    /\ role \subseteq Export /\ roleCache \subseteq Export /\ crb \subseteq Export
    /\ queue \subseteq Producer \cup Export
    /\ registrar \in Registrar /\ publisher \in Publisher
    /\ events \in 0..MaxEvents
    /\ named \subseteq Cluster /\ edited \subseteq Producer
    /\ offered \subseteq Export /\ lost \subseteq Export

Init ==
    /\ prod = [p \in Producer |-> NewRecord(NoSpec, "absent")] /\ prodCache = prod
    /\ ws = [p \in Producer |-> NoWorkspace] /\ wsCache = ws
    /\ export = [e \in Export |-> "absent"] /\ exportCache = export
    /\ role = {} /\ roleCache = {} /\ crb = {} /\ queue = {}
    /\ registrar = IdleRegistrar /\ publisher = IdlePublisher
    /\ events = 0 /\ named = {} /\ offered = {} /\ edited = {} /\ lost = {}

-----------------------------------------------------------------------------
Event == events < MaxEvents /\ events' = events + 1

(* The cluster a spec registers. *)
Names(p, spec, c) ==
    IF spec.mode = "external" THEN spec.path = PathOf[c] ELSE PathOf[Home[p]] = PathOf[c]

(* Platform admins register, edit and remove producers. *)
WriteSpec(p, o) ==
    /\ prod' = [prod EXCEPT ![p] = o]
    /\ named' = named \cup {c \in Cluster : Names(p, o.spec, c)}
    /\ UNCHANGED <<ws, export, caches, grants, queue, registrar, publisher, offered, lost>>

CreateProducer(p, spec) ==
    /\ prod[p].life = "absent"
    /\ WriteSpec(p, NewRecord(spec, "live"))
    /\ UNCHANGED <<events, edited>>

EditProducer(p, spec) ==
    /\ prod[p].life = "live" /\ prod[p].spec # spec
    /\ Event
    /\ WriteSpec(p, [prod[p] EXCEPT !.spec = spec])
    /\ edited' = edited \cup {p}

DeleteProducer(p) ==
    /\ prod[p].life = "live"
    /\ Event
    /\ prod' = [prod EXCEPT ![p] = IF @.finalizer THEN [@ EXCEPT !.life = "deleting"] ELSE Gone]
    /\ UNCHANGED <<ws, export, caches, grants, queue, registrar, publisher, history>>

(* Producers create, annotate and delete exports, in a workspace that is   *)
(* there.                                                                  *)
WriteExport(e, s) ==
    /\ \A p \in Producer : Home[p] = e.cluster => ws[p].life = "ready"
    /\ export' = [export EXCEPT ![e] = s]
    /\ offered' = IF s = "published" THEN offered \cup {e} ELSE offered
    /\ UNCHANGED <<prod, ws, caches, grants, queue, registrar, publisher, named, edited, lost>>

CreateExport(e) ==
    /\ export[e] = "absent" /\ Cardinality(offered \cup {e}) <= MaxExports
    /\ IF e \in offered THEN Event ELSE UNCHANGED events
    /\ WriteExport(e, "published")

AnnotateExport(e, s) ==
    /\ {export[e], s} = {"private", "published"}
    /\ Event
    /\ WriteExport(e, s)

DeleteExport(e, s) ==
    /\ export[e] \in {"private", "published"} /\ s \in {"absent", "deleting"}
    /\ Event
    /\ WriteExport(e, s)

ExportGone(e) == export[e] = "deleting" /\ WriteExport(e, "absent") /\ UNCHANGED events

(* kcp: a workspace becomes ready; a deleted one goes, with all in it.     *)
(* Somebody else may take the name.                                        *)
SetWorkspace(p, w) == ws' = [ws EXCEPT ![p] = w]

WorkspaceReady(p) ==
    /\ ws[p].life = "new"
    /\ SetWorkspace(p, [ws[p] EXCEPT !.life = "ready"])
    /\ UNCHANGED <<prod, export, caches, grants, queue, registrar, publisher, events, history>>

WorkspaceGone(p) ==
    LET inside == {e \in Export : e.cluster = Home[p]}
        empty(f) == [e \in Export |-> IF e \in inside THEN "absent" ELSE f[e]]
    IN  /\ ws[p].life = "deleting"
        /\ SetWorkspace(p, NoWorkspace)
        /\ export' = empty(export) /\ exportCache' = empty(exportCache)
        /\ role' = role \ inside /\ crb' = crb \ inside /\ roleCache' = roleCache \ inside
        /\ queue' = queue \ inside
        /\ publisher' = IF publisher.key \in inside THEN IdlePublisher ELSE publisher
        /\ UNCHANGED <<prod, prodCache, wsCache, registrar, events, history>>

TakeName(p) ==
    /\ ws[p].life = "none"
    /\ Event
    /\ SetWorkspace(p, [life |-> "ready", ours |-> FALSE])
    /\ UNCHANGED <<prod, export, caches, grants, queue, registrar, publisher, history>>

(* The informers catch up; those of records and exports queue what changed. *)
WatchProducers ==
    /\ prodCache # prod /\ prodCache' = prod
    /\ queue' = queue \cup {p \in Producer : prodCache[p] # prod[p]}
    /\ UNCHANGED <<objects, wsCache, exportCache, roleCache, grants, registrar, publisher, events, history>>

WatchExports ==
    /\ exportCache # export /\ exportCache' = export
    /\ queue' = queue \cup {e \in Export : exportCache[e] # export[e]}
    /\ UNCHANGED <<objects, prodCache, wsCache, roleCache, grants, registrar, publisher, events, history>>

WatchWorkspaces ==
    /\ wsCache # ws /\ wsCache' = ws
    /\ UNCHANGED <<objects, prodCache, exportCache, roleCache, grants, queue, registrar, publisher, events, history>>

WatchRoles ==
    /\ roleCache # role /\ roleCache' = role
    /\ UNCHANGED <<objects, prodCache, wsCache, exportCache, grants, queue, registrar, publisher, events, history>>

(* Every informer queues all it holds once in ten hours. *)
Known == {p \in Producer : prodCache[p].life \in {"live", "deleting"}}
            \cup {e \in Export : exportCache[e] # "absent"}

Resync ==
    /\ registrar.at = "idle" /\ publisher.at = "idle"
    /\ ~(Known \subseteq queue)
    /\ queue' = queue \cup Known
    /\ UNCHANGED <<objects, caches, grants, registrar, publisher, events, history>>

-----------------------------------------------------------------------------
(* The producer controller. *)
Doing(step) == registrar.at = step

Done == registrar' = IdleRegistrar /\ UNCHANGED queue
Again == registrar' = IdleRegistrar /\ queue' = queue \cup {registrar.key}

(* The status of an external producer.  Its cluster is what publishing has *)
(* taught the record.                                                      *)
ExternalStatus(o) ==
    IF o.spec.path = NoPath THEN [NewStatus EXCEPT !.phase = "Error"]
    ELSE [NewStatus EXCEPT !.path = o.spec.path, !.cluster = o.status.cluster,
                           !.phase = IF o.status.cluster = NoCluster THEN "Pending" ELSE "Ready"]

(* The switch on the mode, for a copy that has the finalizer. *)
Route(p, o) ==
    registrar' = [at |-> IF o.spec.mode = "external" THEN "status" ELSE "ensure",
                  key |-> p, copy |-> o,
                  status |-> IF o.spec.mode = "external" THEN ExternalStatus(o) ELSE NewStatus]

ReconcileProducer(p) ==
    LET o == prodCache[p] IN
    /\ Doing("idle")
    /\ p \in queue
    /\ queue' = queue \ {p}
    /\ CASE o.life \in {"absent", "gone"} -> UNCHANGED registrar
         [] o.life = "deleting" ->
              registrar' = [at |-> IF o.spec.mode = "provisioned" THEN "deleteWorkspace"
                                                                  ELSE "removeFinalizer",
                            key |-> p, copy |-> o, status |-> NewStatus]
         [] o.life = "live" /\ o.finalizer -> Route(p, o)
         [] OTHER -> registrar' = [at |-> "addFinalizer", key |-> p, copy |-> o, status |-> NewStatus]
    /\ UNCHANGED <<objects, caches, grants, publisher, events, history>>

(* A conflict and an error are both retried. *)
AddFinalizer ==
    LET p == registrar.key
        new == [registrar.copy EXCEPT !.finalizer = TRUE]
    IN  /\ Doing("addFinalizer")
        /\ \/ /\ prod[p] = registrar.copy
              /\ prod' = [prod EXCEPT ![p] = new]
              /\ Route(p, new)
              /\ UNCHANGED queue
           \/ prod[p] # registrar.copy /\ Again /\ UNCHANGED prod
        /\ UNCHANGED <<ws, export, caches, grants, publisher, events, history>>

Settle(status) == registrar' = [registrar EXCEPT !.at = "status", !.status = status]

(* What is written about a workspace of the record's name. *)
ProvisionedStatus(p, isReady) ==
    [phase |-> IF isReady THEN "Ready" ELSE "Pending", workspace |-> TRUE,
     path |-> PathOf[Home[p]], cluster |-> IF isReady THEN Home[p] ELSE NoCluster]

EnsureFailed == Settle([NewStatus EXCEPT !.phase = "Error"])

(* A name that somebody else holds is an error, unless the cache has not   *)
(* seen it: AlreadyExists is taken for an own, earlier creation.           *)
EnsureWorkspace ==
    LET p == registrar.key
        seen == wsCache[p]
    IN  /\ Doing("ensure")
        /\ \/ /\ seen.life = "none"
              /\ IF ws[p].life = "none" THEN SetWorkspace(p, [life |-> "new", ours |-> TRUE])
                                        ELSE UNCHANGED ws
              /\ Settle(ProvisionedStatus(p, FALSE))
           \/ /\ seen.life # "none" /\ seen.ours
              /\ Settle(ProvisionedStatus(p, seen.life # "new"))
              /\ UNCHANGED ws
           \/ /\ seen.life # "none" /\ ~seen.ours
              /\ EnsureFailed
              /\ UNCHANGED ws
        /\ UNCHANGED <<prod, export, caches, grants, queue, publisher, events, history>>

(* updateProviderStatus: an equal status is not written, a conflict is     *)
(* dropped, an object that is gone is an error.  Only a workspace that is  *)
(* not ready is waited for.                                                *)
WriteStatus ==
    LET p == registrar.key
        w == registrar.copy.status # registrar.status
        waits == registrar.copy.spec.mode = "provisioned" /\ registrar.status.phase = "Pending"
    IN  /\ Doing("status")
        /\ prod' = IF w /\ prod[p] = registrar.copy
                   THEN [prod EXCEPT ![p].status = registrar.status] ELSE prod
        /\ IF waits \/ (w /\ prod[p].life = "gone") THEN Again ELSE Done
        /\ UNCHANGED <<ws, export, caches, grants, publisher, events, history>>

(* deleteWorkspace waits until the workspace is not found, or not ours. *)
DeleteWorkspace ==
    LET p == registrar.key IN
    /\ Doing("deleteWorkspace")
    /\ IF registrar.copy.status.workspace /\ wsCache[p].life # "none" /\ wsCache[p].ours
       THEN /\ IF wsCache[p].life # "deleting" /\ ws[p].life # "none"
               THEN SetWorkspace(p, [ws[p] EXCEPT !.life = "deleting"])
               ELSE UNCHANGED ws
            /\ Again
       ELSE /\ registrar' = [registrar EXCEPT !.at = "removeFinalizer"]
            /\ UNCHANGED <<ws, queue>>
    /\ UNCHANGED <<prod, export, caches, grants, publisher, events, history>>

RemoveFinalizer ==
    LET p == registrar.key IN
    /\ Doing("removeFinalizer")
    /\ \/ prod[p] = registrar.copy /\ prod' = [prod EXCEPT ![p] = Gone] /\ Done
       \/ prod[p] # registrar.copy /\ prod[p].life # "gone" /\ Again /\ UNCHANGED prod
       \/ prod[p].life = "gone" /\ Done /\ UNCHANGED prod
    /\ UNCHANGED <<ws, export, caches, grants, publisher, events, history>>

-----------------------------------------------------------------------------
(* The publish controller. *)
At(step) == publisher.at = step

Goto(step) == publisher' = [publisher EXCEPT !.at = step] /\ UNCHANGED queue
Finish == publisher' = IdlePublisher /\ UNCHANGED queue
Retry == publisher' = IdlePublisher /\ queue' = queue \cup {publisher.key}

MutPublishedUntilGone(s) == s \in {"published", "deleting"}

(* offering.Published, and not on its way out. *)
Published(s) == s = "published"

ReconcileExport(e) ==
    /\ At("idle")
    /\ e \in queue
    /\ queue' = queue \ {e}
    /\ publisher' = [IdlePublisher EXCEPT !.key = e,
                        !.at = IF Published(exportCache[e]) THEN "resolve" ELSE "revoke"]
    /\ UNCHANGED <<objects, caches, grants, registrar, events, history>>

MutMatchingAny(c) == {p \in Producer : prodCache[p].life \in {"live", "deleting"}}

(* The records that name the path of cluster c; the list has any order. *)
Matching(c) == {p \in Producer : /\ prodCache[p].life \in {"live", "deleting"}
                                 /\ prodCache[p].status.path = PathOf[c]}

(* resolveProducerFor: the first record that names this path decides.  No  *)
(* record, or one that belongs to another cluster: look again later.       *)
ResolveProducer ==
    LET c == publisher.key.cluster IN
    /\ At("resolve")
    /\ \/ Matching(c) = {} /\ Retry
       \/ \E p \in Matching(c) :
            LET known == prodCache[p].status.cluster IN
            \/ known = c /\ Goto("createRole")
            \/ known \notin {c, NoCluster} /\ Retry
            \/ /\ known = NoCluster
               /\ publisher' = [publisher EXCEPT !.at = "learn", !.owner = p, !.copy = prodCache[p]]
               /\ UNCHANGED queue
    /\ UNCHANGED <<objects, caches, grants, registrar, events, history>>

(* The record learns its cluster.  A conflict is ignored. *)
LearnCluster ==
    LET p == publisher.owner
        learned == [publisher.copy.status EXCEPT !.cluster = publisher.key.cluster, !.phase = "Ready"]
    IN  /\ At("learn")
        /\ prod' = IF prod[p] = publisher.copy THEN [prod EXCEPT ![p].status = learned] ELSE prod
        /\ IF prod[p].life = "gone" THEN Retry
           ELSE publisher' = [IdlePublisher EXCEPT !.key = publisher.key, !.at = "createRole"]
                /\ UNCHANGED queue
        /\ UNCHANGED <<ws, export, caches, grants, registrar, events, history>>

(* ensureBindGrant: AlreadyExists is no error. *)
CreateRole ==
    /\ At("createRole")
    /\ role' = role \cup {publisher.key}
    /\ Goto("createBinding")
    /\ UNCHANGED <<objects, caches, crb, registrar, events, history>>

CreateBinding ==
    /\ At("createBinding")
    /\ crb' = crb \cup {publisher.key}
    /\ Finish
    /\ UNCHANGED <<objects, caches, role, registrar, events, history>>

(* removeBindGrant: the cached role tells whether there is a grant.  *)
LookForGrant ==
    /\ At("revoke")
    /\ IF publisher.key \in roleCache THEN Goto("deleteBinding") ELSE Finish
    /\ lost' = IF publisher.key \in role \ roleCache THEN lost \cup {publisher.key} ELSE lost
    /\ UNCHANGED <<objects, caches, grants, registrar, events, named, offered, edited>>

DeleteBinding ==
    /\ At("deleteBinding")
    /\ crb' = crb \ {publisher.key}
    /\ Goto("deleteRole")
    /\ UNCHANGED <<objects, caches, role, registrar, events, history>>

DeleteRole ==
    /\ At("deleteRole")
    /\ role' = role \ {publisher.key}
    /\ Finish
    /\ UNCHANGED <<objects, caches, crb, registrar, events, history>>

-----------------------------------------------------------------------------
(* A call fails: an error of ensureWorkspace becomes the status, all       *)
(* others are retried.                                                     *)
RegistrarFails ==
    /\ Event
    /\ \/ Doing("ensure") /\ EnsureFailed /\ UNCHANGED queue
       \/ registrar.at \notin {"idle", "ensure"} /\ Again
    /\ UNCHANGED <<objects, caches, grants, publisher, history>>

PublisherFails ==
    /\ Event
    /\ publisher.at # "idle" /\ Retry
    /\ UNCHANGED <<objects, caches, grants, registrar, history>>

(* The operator restarts and lists everything again. *)
Restart ==
    /\ Event
    /\ registrar' = IdleRegistrar /\ publisher' = IdlePublisher
    /\ prodCache' = prod /\ wsCache' = ws /\ exportCache' = export /\ roleCache' = role
    /\ queue' = {p \in Producer : prod[p].life \in {"live", "deleting"}}
                    \cup {e \in Export : export[e] # "absent"}
    /\ lost' = lost \cup {e \in role : export[e] = "absent"}
    /\ UNCHANGED <<objects, grants, named, offered, edited>>

RegistrarCall == \/ AddFinalizer \/ EnsureWorkspace \/ WriteStatus
                 \/ DeleteWorkspace \/ RemoveFinalizer

PublisherCall == \/ ResolveProducer \/ LearnCluster \/ CreateRole \/ CreateBinding
                 \/ LookForGrant \/ DeleteBinding \/ DeleteRole

Next ==
    \/ \E p \in Producer, spec \in RecordSpec : CreateProducer(p, spec) \/ EditProducer(p, spec)
    \/ \E p \in Producer : \/ DeleteProducer(p) \/ TakeName(p) \/ WorkspaceReady(p)
                           \/ WorkspaceGone(p) \/ ReconcileProducer(p)
    \/ \E e \in Export : \/ CreateExport(e) \/ ExportGone(e) \/ ReconcileExport(e)
                         \/ \E s \in ExportState : AnnotateExport(e, s) \/ DeleteExport(e, s)
    \/ WatchProducers \/ WatchExports \/ WatchWorkspaces \/ WatchRoles \/ Resync
    \/ RegistrarCall \/ RegistrarFails
    \/ PublisherCall \/ PublisherFails
    \/ Restart

(* Watches deliver, kcp works on workspaces, queued keys are taken in turn *)
(* and calls return.                                                       *)
Fairness ==
    /\ WF_vars(WatchProducers) /\ WF_vars(WatchExports)
    /\ WF_vars(WatchWorkspaces) /\ WF_vars(WatchRoles) /\ SF_vars(Resync)
    /\ \A p \in Producer : /\ WF_vars(WorkspaceReady(p)) /\ WF_vars(WorkspaceGone(p))
                           /\ SF_vars(ReconcileProducer(p))
    /\ \A e \in Export : SF_vars(ReconcileExport(e))
    /\ WF_vars(RegistrarCall) /\ WF_vars(PublisherCall)

Spec == Init /\ [][Next]_vars /\ Fairness

-----------------------------------------------------------------------------
(* Whoever may bind can be found again: removeBindGrant takes the role for *)
(* the sign of a grant, so a binding must never be there without its role, *)
(* wherever a grant or a revocation stops.                                 *)
BindingHasRole == crb \subseteq role

(* `bind` is granted only on exports that their producer published, in a   *)
(* workspace that an admin registered: neither a path nor an annotation    *)
(* alone opens an export to everybody.                                     *)
OnlyRegisteredBind == \A e \in crb : e \in offered /\ e.cluster \in named

(* The one record whose spec names cluster c, and always has. *)
Registered(p, c) ==
    /\ prod[p].life = "live" /\ p \notin edited /\ Names(p, prod[p].spec, c)
    /\ prod[p].spec.mode = "provisioned" => ws[p].ours
    /\ \A q \in Producer \ {p} : prod[q].status.path # PathOf[c]

(* A published export of a registered producer ends up on the catalog and  *)
(* can be bound, whichever of record, workspace and export came first and  *)
(* whatever failed: the record knows the cluster and the grant is there.   *)
PublishedGetsListed ==
    <>[](\A e \in Export, p \in Producer :
            export[e] = "published" /\ Registered(p, e.cluster)
              => e \in crb /\ prod[p].status.cluster = e.cluster)

(* An export that is no longer published cannot be bound, unless its grant *)
(* was too new to be in the cache when it should have been revoked, or it  *)
(* was deleted while the operator was down.                                *)
UnpublishedGetsRevoked ==
    <>[](\A e \in Export \ lost : export[e] # "published" => e \notin crb)

(* A deleted record goes, with its workspace. *)
ProducerGetsDeleted == \A p \in Producer : prod[p].life = "deleting" ~> prod[p].life = "gone"

(* publish.go: "an offering off the catalog is an offering nobody new can  *)
(* enable."  An export is on the catalog when it is published and a record *)
(* has its cluster.                                                        *)
OffCatalogCannotBind ==
    <>[](\A e \in crb : /\ export[e] = "published"
                        /\ \E p \in Producer : prod[p].status.cluster = e.cluster)

(* `bind` is never granted on what nobody published or registered, nor in  *)
(* a way that could not be revoked (ensureBindGrant, removeBindGrant).     *)
MarketplaceInv == TypeOK /\ BindingHasRole /\ OnlyRegisteredBind

(* The operator gets done with records and exports: what is published can  *)
(* be bound, what is not cannot, and a deleted record goes.                *)
MarketplaceSettles == PublishedGetsListed /\ UnpublishedGetsRevoked /\ ProducerGetsDeleted
=============================================================================

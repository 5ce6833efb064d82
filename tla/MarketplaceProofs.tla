-------------------------- MODULE MarketplaceProofs --------------------------
(***************************************************************************)
(* No grant of `bind` without its role, on what nobody published or in a   *)
(* workspace nobody registered, for any records, exports and events.  And  *)
(* a Ready database of the producer quickstart tells the endpoint of the   *)
(* generation it claims to describe, for any databases, engines, edits and *)
(* failures.                                                               *)
(*                                                                         *)
(* The third part is the command line a user manages both with: whatever   *)
(* terminals run side by side and wherever they are interrupted, the two   *)
(* files keep what commands left in them, a command acts where it says,    *)
(* and a login ends.                                                       *)
(***************************************************************************)
EXTENDS Marketplace, DatabaseController, Session, SequenceTheorems, TLAPS

SafeSpec == Init /\ [][Next]_vars

-----------------------------------------------------------------------------
(* Types.                                                                  *)

LEMMA StatusFacts ==
    /\ NewStatus \in Status
    /\ \A ph \in Phase : [NewStatus EXCEPT !.phase = ph] \in Status
    /\ \A s \in Status, c \in Cluster : [s EXCEPT !.cluster = c, !.phase = "Ready"] \in Status
    /\ \A p \in Producer, r \in BOOLEAN : ProvisionedStatus(p, r) \in Status
  BY PathAssumption, ClusterAssumption DEF NewStatus, Status, Phase, ProvisionedStatus

LEMMA RecordFacts ==
    /\ Gone \in Record
    /\ \A spec \in RecordSpec, life \in {"absent", "live", "deleting", "gone"} :
          NewRecord(spec, life) \in Record
    /\ \A o \in Record : /\ [o EXCEPT !.finalizer = TRUE] \in Record
                         /\ [o EXCEPT !.life = "deleting"] \in Record
                         /\ \A spec \in RecordSpec : [o EXCEPT !.spec = spec] \in Record
                         /\ \A s \in Status : [o EXCEPT !.status = s] \in Record
  BY StatusFacts DEF Gone, NewRecord, Record, RecordSpec, NoSpec

LEMMA ExternalFacts ==
    \A o \in Record : o.spec.mode = "external" => ExternalStatus(o) \in Status
  <1> SUFFICES ASSUME NEW o \in Record, o.spec.mode = "external" PROVE ExternalStatus(o) \in Status
    OBVIOUS
  <1>1. o.spec.path \in Path \cup {NoPath} /\ o.status.cluster \in Cluster \cup {NoCluster}
    BY PathAssumption DEF Record, RecordSpec, NoSpec, Status
  <1> QED
    BY <1>1 DEF ExternalStatus, NewStatus, Status, Phase

LEMMA IdleFacts ==
    /\ Anyone \in Producer
    /\ IdleRegistrar \in Registrar /\ IdlePublisher \in Publisher
  <1>1. Anyone \in Producer /\ (CHOOSE e \in Export : TRUE) \in Export
    BY SomeAssumption DEF Anyone
  <1> QED
    BY <1>1, StatusFacts, RecordFacts DEF IdleRegistrar, IdlePublisher, Registrar, Publisher

LEMMA TypesInitially == Init => TypeOK
  <1> SUFFICES ASSUME Init PROVE TypeOK
    OBVIOUS
  <1>1. NewRecord(NoSpec, "absent") \in Record
    BY RecordFacts DEF RecordSpec
  <1> QED
    BY <1>1, IdleFacts, SomeAssumption
    DEF Init, TypeOK, NoWorkspace, Workspace, ExportState

(* Users and kcp. *)
LEMMA WriteSpecTypes ==
    ASSUME TypeOK, NEW p \in Producer, NEW o \in Record, WriteSpec(p, o),
           events' \in 0..MaxEvents, edited' \subseteq Producer
    PROVE  TypeOK'
  BY DEF TypeOK, WriteSpec, caches, grants

LEMMA ProducerTypes ==
    ASSUME TypeOK, NEW p \in Producer, NEW spec \in RecordSpec,
           \/ CreateProducer(p, spec) \/ EditProducer(p, spec)
           \/ DeleteProducer(p) \/ TakeName(p) \/ WorkspaceReady(p)
    PROVE  TypeOK'
  <1>1. CASE CreateProducer(p, spec)
    BY <1>1, WriteSpecTypes, RecordFacts DEF CreateProducer, TypeOK
  <1>2. CASE EditProducer(p, spec)
    <2>1. events' \in 0..MaxEvents /\ edited' \subseteq Producer /\ prod[p] \in Record
      BY <1>2, SomeAssumption DEF EditProducer, Event, TypeOK
    <2> QED
      BY <1>2, <2>1, WriteSpecTypes, RecordFacts DEF EditProducer
  <1>3. CASE DeleteProducer(p)
    <2>1. events' \in 0..MaxEvents
      BY <1>3, SomeAssumption DEF DeleteProducer, Event, TypeOK
    <2>2. prod[p] \in Record
      BY DEF TypeOK
    <2>3. (IF prod[p].finalizer THEN [prod[p] EXCEPT !.life = "deleting"] ELSE Gone) \in Record
      BY <2>2, RecordFacts
    <2>4. prod' \in [Producer -> Record]
      BY <1>3, <2>3 DEF DeleteProducer, TypeOK
    <2> QED
      BY <1>3, <2>1, <2>4 DEF DeleteProducer, TypeOK, caches, grants, history
  <1>4. CASE TakeName(p)
    <2>1. ws' \in [Producer -> Workspace] /\ events' \in 0..MaxEvents
      BY <1>4, SomeAssumption DEF TakeName, SetWorkspace, Event, TypeOK, Workspace
    <2> QED
      BY <1>4, <2>1 DEF TakeName, TypeOK, caches, grants, history
  <1>5. CASE WorkspaceReady(p)
    <2>1. ws' \in [Producer -> Workspace]
      BY <1>5 DEF WorkspaceReady, SetWorkspace, TypeOK, Workspace
    <2> QED
      BY <1>5, <2>1 DEF WorkspaceReady, TypeOK, caches, grants, history
  <1> QED
    BY <1>1, <1>2, <1>3, <1>4, <1>5

LEMMA WorkspaceGoneTypes ==
    ASSUME TypeOK, NEW p \in Producer, WorkspaceGone(p)
    PROVE  TypeOK'
  <1>1. ws' \in [Producer -> Workspace]
    BY DEF WorkspaceGone, SetWorkspace, TypeOK, Workspace, NoWorkspace
  <1>2. export' \in [Export -> ExportState] /\ exportCache' \in [Export -> ExportState]
    BY DEF WorkspaceGone, TypeOK, ExportState
  <1>3. publisher' \in Publisher
    BY IdleFacts DEF WorkspaceGone, TypeOK
  <1> QED
    BY <1>1, <1>2, <1>3 DEF WorkspaceGone, TypeOK, history

LEMMA WriteExportTypes ==
    ASSUME TypeOK, NEW e \in Export, NEW s \in ExportState, WriteExport(e, s),
           events' \in 0..MaxEvents
    PROVE  TypeOK'
  BY DEF TypeOK, WriteExport, caches, grants

LEMMA ExportTypes ==
    ASSUME TypeOK, NEW e \in Export, NEW s \in ExportState,
           CreateExport(e) \/ ExportGone(e) \/ AnnotateExport(e, s) \/ DeleteExport(e, s)
    PROVE  TypeOK'
  <1>1. events' \in 0..MaxEvents
    BY SomeAssumption DEF CreateExport, ExportGone, AnnotateExport, DeleteExport, Event, TypeOK
  <1>2. \E z \in ExportState : WriteExport(e, z)
    BY DEF CreateExport, ExportGone, AnnotateExport, DeleteExport, ExportState
  <1> QED
    BY <1>1, <1>2, WriteExportTypes

LEMMA WatchTypes ==
    ASSUME TypeOK, WatchProducers \/ WatchExports \/ WatchWorkspaces \/ WatchRoles \/ Resync
    PROVE  TypeOK'
  BY DEF TypeOK, WatchProducers, WatchExports, WatchWorkspaces, WatchRoles, Resync, Known,
         objects, grants, caches, history

LEMMA RestartTypes == ASSUME TypeOK, Restart PROVE TypeOK'
  BY IdleFacts, SomeAssumption DEF TypeOK, Restart, Event, objects, grants

(* The producer controller. *)
LEMMA RouteTypes ==
    ASSUME NEW p \in Producer, NEW o \in Record, Route(p, o)
    PROVE  registrar' \in Registrar
  <1>1. (IF o.spec.mode = "external" THEN ExternalStatus(o) ELSE NewStatus) \in Status
    BY StatusFacts, ExternalFacts
  <1> QED
    BY <1>1 DEF Route, Registrar

LEMMA ReconcileProducerTypes ==
    ASSUME TypeOK, NEW p \in Producer, ReconcileProducer(p)
    PROVE  TypeOK'
  <1>1. prodCache[p] \in Record /\ registrar \in Registrar
    BY DEF TypeOK
  <1>2. \A at \in {"addFinalizer", "deleteWorkspace", "removeFinalizer"} :
          [at |-> at, key |-> p, copy |-> prodCache[p], status |-> NewStatus] \in Registrar
    BY <1>1, StatusFacts DEF Registrar
  <1>3. registrar' \in Registrar
    <2>1. CASE prodCache[p].life \in {"absent", "gone"}
      BY <2>1, <1>1 DEF ReconcileProducer
    <2>2. CASE prodCache[p].life = "deleting"
      BY <2>2, <1>2 DEF ReconcileProducer
    <2>3. CASE prodCache[p].life = "live" /\ prodCache[p].finalizer
      BY <2>3, <1>1, RouteTypes DEF ReconcileProducer
    <2>4. CASE prodCache[p].life = "live" /\ ~prodCache[p].finalizer
      BY <2>4, <1>2 DEF ReconcileProducer
    <2> QED
      BY <2>1, <2>2, <2>3, <2>4, <1>1 DEF Record
  <1>4. queue' \subseteq Producer \cup Export
    BY DEF ReconcileProducer, TypeOK
  <1> QED
    BY <1>3, <1>4 DEF ReconcileProducer, TypeOK, objects, caches, grants, history

LEMMA SettleTypes ==
    ASSUME registrar \in Registrar, NEW s \in Status, Settle(s)
    PROVE  registrar' \in Registrar
  BY DEF Settle, Registrar

LEMMA RegistrarTypes ==
    ASSUME TypeOK, RegistrarCall \/ RegistrarFails
    PROVE  TypeOK'
  <1>1. /\ registrar \in Registrar /\ registrar.key \in Producer
        /\ registrar.copy \in Record /\ registrar.status \in Status
        /\ prod[registrar.key] \in Record
    BY DEF TypeOK, Registrar
  <1>2. ASSUME Done \/ Again
        PROVE  registrar' \in Registrar /\ queue' \subseteq Producer \cup Export
    BY <1>1, <1>2, IdleFacts DEF Done, Again, TypeOK
  <1>3. CASE AddFinalizer
    <2>1. [registrar.copy EXCEPT !.finalizer = TRUE] \in Record
      BY <1>1, RecordFacts
    <2>2. prod' \in [Producer -> Record]
      BY <1>3, <2>1 DEF AddFinalizer, TypeOK
    <2>3. registrar' \in Registrar /\ queue' \subseteq Producer \cup Export
      BY <1>3, <1>1, <1>2, <2>1, RouteTypes DEF AddFinalizer, TypeOK
    <2> QED
      BY <1>3, <2>2, <2>3 DEF AddFinalizer, TypeOK, caches, grants, history
  <1>4. CASE EnsureWorkspace
    <2>1. ws' \in [Producer -> Workspace]
      <3>1. [life |-> "new", ours |-> TRUE] \in Workspace /\ ws \in [Producer -> Workspace]
        BY DEF Workspace, TypeOK
      <3> QED
        BY <1>4, <1>1, <3>1 DEF EnsureWorkspace, SetWorkspace
    <2>2. \E s \in Status : Settle(s)
      BY <1>4, <1>1, StatusFacts DEF EnsureWorkspace, EnsureFailed, Phase
    <2>3. registrar' \in Registrar
      BY <1>1, <2>2, SettleTypes
    <2> QED
      BY <1>4, <2>1, <2>3 DEF EnsureWorkspace, TypeOK, caches, grants, history
  <1>5. CASE WriteStatus
    <2>1. [prod[registrar.key] EXCEPT !.status = registrar.status] \in Record
      BY <1>1, RecordFacts
    <2>2. prod' \in [Producer -> Record]
      BY <1>5, <2>1 DEF WriteStatus, TypeOK
    <2>3. registrar' \in Registrar /\ queue' \subseteq Producer \cup Export
      BY <1>5, <1>2 DEF WriteStatus
    <2> QED
      BY <1>5, <2>2, <2>3 DEF WriteStatus, TypeOK, caches, grants, history
  <1>6. CASE DeleteWorkspace
    <2>1. ws' \in [Producer -> Workspace]
      BY <1>6, <1>1 DEF DeleteWorkspace, SetWorkspace, TypeOK, Workspace
    <2>2. [registrar EXCEPT !.at = "removeFinalizer"] \in Registrar
      BY <1>1 DEF Registrar
    <2>3. registrar' \in Registrar /\ queue' \subseteq Producer \cup Export
      BY <1>6, <1>2, <2>2 DEF DeleteWorkspace, TypeOK
    <2> QED
      BY <1>6, <2>1, <2>3 DEF DeleteWorkspace, TypeOK, caches, grants, history
  <1>7. CASE RemoveFinalizer
    <2>1. prod' \in [Producer -> Record]
      BY <1>7, RecordFacts DEF RemoveFinalizer, TypeOK
    <2>2. registrar' \in Registrar /\ queue' \subseteq Producer \cup Export
      BY <1>7, <1>2 DEF RemoveFinalizer
    <2> QED
      BY <1>7, <2>1, <2>2 DEF RemoveFinalizer, TypeOK, caches, grants, history
  <1>8. CASE RegistrarFails
    <2>1. registrar' \in Registrar /\ queue' \subseteq Producer \cup Export
      BY <1>8, <1>1, <1>2, StatusFacts, SettleTypes
      DEF RegistrarFails, EnsureFailed, Phase, TypeOK
    <2>2. events' \in 0..MaxEvents
      BY <1>8, SomeAssumption DEF RegistrarFails, Event, TypeOK
    <2> QED
      BY <1>8, <2>1, <2>2 DEF RegistrarFails, TypeOK, objects, caches, grants, history
  <1> QED
    BY <1>3, <1>4, <1>5, <1>6, <1>7, <1>8 DEF RegistrarCall

(* The publish controller. *)
LEMMA PublisherMoves ==
    ASSUME TypeOK,
           \/ Finish \/ Retry
           \/ \E at \in {"createRole", "createBinding", "deleteBinding", "deleteRole"} : Goto(at)
    PROVE  publisher' \in Publisher /\ queue' \subseteq Producer \cup Export
  BY IdleFacts DEF Finish, Retry, Goto, TypeOK, Publisher

LEMMA ReconcileExportTypes ==
    ASSUME TypeOK, NEW e \in Export, ReconcileExport(e)
    PROVE  TypeOK'
  <1>1. publisher' \in Publisher
    BY IdleFacts DEF ReconcileExport, Publisher
  <1> QED
    BY <1>1 DEF ReconcileExport, TypeOK, objects, caches, grants, history

LEMMA PublisherTypes ==
    ASSUME TypeOK, PublisherCall \/ PublisherFails
    PROVE  TypeOK'
  <1>1. /\ publisher \in Publisher /\ publisher.key \in Export /\ publisher.owner \in Producer
        /\ publisher.copy \in Record /\ publisher.key.cluster \in Cluster
    BY ClusterAssumption DEF TypeOK, Publisher
  <1>2. CASE ResolveProducer
    <2>1. ASSUME NEW p \in Producer,
                 publisher' = [publisher EXCEPT !.at = "learn", !.owner = p, !.copy = prodCache[p]]
          PROVE  publisher' \in Publisher
      BY <1>1, <2>1 DEF TypeOK, Publisher
    <2>2. publisher' \in Publisher /\ queue' \subseteq Producer \cup Export
      BY <1>2, <2>1, PublisherMoves DEF ResolveProducer, Matching, TypeOK
    <2> QED
      BY <1>2, <2>2 DEF ResolveProducer, TypeOK, objects, caches, grants, history
  <1>3. CASE LearnCluster
    <2>1. publisher' \in Publisher /\ queue' \subseteq Producer \cup Export
      <3>1. [IdlePublisher EXCEPT !.key = publisher.key, !.at = "createRole"] \in Publisher
        BY <1>1, IdleFacts DEF Publisher
      <3> QED
        BY <1>3, <3>1, PublisherMoves DEF LearnCluster, TypeOK
    <2>2. [publisher.copy.status EXCEPT !.cluster = publisher.key.cluster, !.phase = "Ready"] \in Status
      BY <1>1, StatusFacts DEF Record
    <2>3. \A s \in Status : [prod[publisher.owner] EXCEPT !.status = s] \in Record
      BY <1>1, RecordFacts DEF TypeOK
    <2>4. prod' \in [Producer -> Record]
      BY <1>3, <2>2, <2>3 DEF LearnCluster, TypeOK
    <2> QED
      BY <1>3, <2>1, <2>4 DEF LearnCluster, TypeOK, caches, grants, history
  <1>4. CASE CreateRole
    BY <1>1, <1>4, PublisherMoves DEF CreateRole, TypeOK, objects, caches, history
  <1>5. CASE CreateBinding
    BY <1>1, <1>5, PublisherMoves DEF CreateBinding, TypeOK, objects, caches, history
  <1>6. CASE LookForGrant
    BY <1>1, <1>6, PublisherMoves DEF LookForGrant, TypeOK, objects, caches, grants
  <1>7. CASE DeleteBinding
    BY <1>1, <1>7, PublisherMoves DEF DeleteBinding, TypeOK, objects, caches, history
  <1>8. CASE DeleteRole
    BY <1>1, <1>8, PublisherMoves DEF DeleteRole, TypeOK, objects, caches, history
  <1>9. CASE PublisherFails
    <2>1. events' \in 0..MaxEvents
      BY <1>9, SomeAssumption DEF PublisherFails, Event, TypeOK
    <2> QED
      BY <1>9, <2>1, PublisherMoves DEF PublisherFails, TypeOK, objects, caches, grants, history
  <1> QED
    BY <1>2, <1>3, <1>4, <1>5, <1>6, <1>7, <1>8, <1>9 DEF PublisherCall

LEMMA TypesStay == TypeOK /\ [Next]_vars => TypeOK'
  <1> SUFFICES ASSUME TypeOK, [Next]_vars PROVE TypeOK'
    OBVIOUS
  <1>1. CASE UNCHANGED vars
    BY <1>1 DEF TypeOK, vars, objects, caches, grants, history
  <1>2. NoSpec \in RecordSpec /\ "absent" \in ExportState
    BY DEF RecordSpec, ExportState
  <1>3. CASE Next
    BY <1>2, <1>3, ProducerTypes, WorkspaceGoneTypes, ExportTypes, WatchTypes, RestartTypes,
       ReconcileProducerTypes, RegistrarTypes, ReconcileExportTypes, PublisherTypes DEF Next
  <1> QED
    BY <1>1, <1>3
-----------------------------------------------------------------------------
(* The invariant.  A grant is made by four steps of the publisher after    *)
(* two reads of its caches, and each has to carry over what the read saw.  *)

(* What a record's spec registers, and the path its status claims, were    *)
(* named by an admin: also in a copy, however old.                         *)
PathNamed(path) == \A c \in Cluster : path = PathOf[c] => c \in named

SpecNamed(p, o) ==
    o.life \in {"live", "deleting"} => \A c \in Cluster : Names(p, o.spec, c) => c \in named

RecordNamed(p, o) == SpecNamed(p, o) /\ PathNamed(o.status.path)

RecordsNamed == \A p \in Producer : RecordNamed(p, prod[p]) /\ RecordNamed(p, prodCache[p])

RegistrarNamed ==
    /\ RecordNamed(registrar.key, registrar.copy) /\ PathNamed(registrar.status.path)
    /\ registrar.at # "idle" => registrar.copy.life \in {"live", "deleting"}
    /\ registrar.at = "ensure" => registrar.copy.spec.mode # "external"

PublisherNamed ==
    /\ RecordNamed(publisher.owner, publisher.copy)
    /\ publisher.at \in {"learn", "createRole", "createBinding"} => publisher.key.cluster \in named

NamedInv == RecordsNamed /\ RegistrarNamed /\ PublisherNamed

(* What the publisher is about to grant has been published. *)
OfferedInv ==
    /\ \A e \in Export : export[e] = "published" \/ exportCache[e] = "published" => e \in offered
    /\ publisher.at \in {"resolve", "learn", "createRole", "createBinding"} =>
          publisher.key \in offered

(* The role is made before the binding and removed after it. *)
GrantsInOrder ==
    /\ publisher.at = "createBinding" => publisher.key \in role
    /\ publisher.at = "deleteRole" => publisher.key \notin crb

MInv == TypeOK /\ NamedInv /\ OfferedInv /\ GrantsInOrder /\ BindingHasRole /\ OnlyRegisteredBind

LEMMA GoneIsNamed ==
    \A p \in Producer : RecordNamed(p, Gone) /\ PathNamed(NoPath)
  BY PathAssumption DEF RecordNamed, SpecNamed, PathNamed, Gone, NewRecord, NewStatus

LEMMA Initially == Init => MInv
  <1> SUFFICES ASSUME Init PROVE MInv
    OBVIOUS
  <1>1. TypeOK
    BY TypesInitially
  <1>2. \A p \in Producer : RecordNamed(p, NewRecord(NoSpec, "absent"))
    BY PathAssumption DEF RecordNamed, SpecNamed, PathNamed, NewRecord, NewStatus
  <1>3. NamedInv
    BY <1>2, GoneIsNamed, IdleFacts
    DEF Init, NamedInv, RecordsNamed, RegistrarNamed, PublisherNamed, IdleRegistrar,
        IdlePublisher, NewStatus
  <1>4. OfferedInv /\ GrantsInOrder /\ BindingHasRole /\ OnlyRegisteredBind
    BY DEF Init, OfferedInv, GrantsInOrder, BindingHasRole, OnlyRegisteredBind, IdlePublisher
  <1> QED
    BY <1>1, <1>3, <1>4 DEF MInv

(* What was named stays named. *)
LEMMA NamedGrows ==
    ASSUME named \subseteq named'
    PROVE  \A p \in Producer, o \in Record : RecordNamed(p, o) => RecordNamed(p, o)'
  BY DEF RecordNamed, SpecNamed, PathNamed

(* The steps of one actor leave the parts of the others alone. *)
LEMMA PublisherAlone ==
    ASSUME MInv, UNCHANGED <<publisher, grants, export, exportCache>>, named \subseteq named',
           offered \subseteq offered'
    PROVE  PublisherNamed' /\ OfferedInv' /\ GrantsInOrder' /\ BindingHasRole' /\ OnlyRegisteredBind'
  <1>1. publisher.owner \in Producer /\ publisher.copy \in Record
    BY DEF MInv, TypeOK, Publisher
  <1>2. PublisherNamed'
    BY <1>1, NamedGrows DEF MInv, NamedInv, PublisherNamed
  <1> QED
    BY <1>2 DEF MInv, OfferedInv, GrantsInOrder, BindingHasRole, OnlyRegisteredBind, grants

LEMMA RegistrarAlone ==
    ASSUME MInv, UNCHANGED registrar, named \subseteq named'
    PROVE  RegistrarNamed'
  <1>1. registrar.key \in Producer /\ registrar.copy \in Record
    BY DEF MInv, TypeOK, Registrar
  <1>2. PathNamed(registrar.status.path)'
    BY DEF MInv, NamedInv, RegistrarNamed, PathNamed
  <1> QED
    BY <1>1, <1>2, NamedGrows DEF MInv, NamedInv, RegistrarNamed

LEMMA RecordsAlone ==
    ASSUME MInv, UNCHANGED <<prod, prodCache>>, named \subseteq named'
    PROVE  RecordsNamed'
  <1>1. \A p \in Producer : prod[p] \in Record /\ prodCache[p] \in Record
    BY DEF MInv, TypeOK
  <1> QED
    BY <1>1, NamedGrows DEF MInv, NamedInv, RecordsNamed

(* An admin who writes a spec names its path; the status stays as it is.   *)
LEMMA WriteSpecNames ==
    ASSUME MInv, NEW p \in Producer, NEW o \in Record, WriteSpec(p, o), PathNamed(o.status.path)
    PROVE  NamedInv' /\ OfferedInv' /\ GrantsInOrder' /\ BindingHasRole' /\ OnlyRegisteredBind'
  <1>1. named \subseteq named' /\ named' = named \cup {c \in Cluster : Names(p, o.spec, c)}
    BY DEF WriteSpec
  <1>2. RecordNamed(p, o)'
    BY <1>1 DEF RecordNamed, SpecNamed, PathNamed, Names
  <1>3. \A q \in Producer : prod[q] \in Record /\ prodCache[q] \in Record
    BY DEF MInv, TypeOK
  <1>4. RecordsNamed'
    <2> SUFFICES ASSUME NEW q \in Producer
                 PROVE  RecordNamed(q, prod[q])' /\ RecordNamed(q, prodCache[q])'
      BY DEF RecordsNamed
    <2>1. RecordNamed(q, prodCache[q])'
      BY <1>1, <1>3, NamedGrows DEF WriteSpec, caches, MInv, NamedInv, RecordsNamed
    <2>2. CASE q = p
      BY <1>2, <2>1, <2>2 DEF WriteSpec, MInv, TypeOK
    <2>3. CASE q # p
      <3>1. prod'[q] = prod[q]
        BY <2>3 DEF WriteSpec, MInv, TypeOK
      <3> QED
        BY <3>1, <2>1, <1>1, <1>3, NamedGrows DEF MInv, NamedInv, RecordsNamed
    <2> QED
      BY <2>2, <2>3
  <1>5. RegistrarNamed'
    BY <1>1, RegistrarAlone DEF WriteSpec
  <1> QED
    BY <1>1, <1>4, <1>5, PublisherAlone DEF WriteSpec, caches, grants, NamedInv

LEMMA DeleteProducerKeeps ==
    ASSUME MInv, NEW p \in Producer, DeleteProducer(p)
    PROVE  NamedInv' /\ OfferedInv' /\ GrantsInOrder' /\ BindingHasRole' /\ OnlyRegisteredBind'
  <1>1. UNCHANGED <<named, offered>>
    BY DEF DeleteProducer, history
  <1>2. RecordNamed(p, [prod[p] EXCEPT !.life = "deleting"])
    <2>1. prod[p] \in Record /\ RecordNamed(p, prod[p]) /\ prod[p].life = "live"
      BY DEF DeleteProducer, MInv, TypeOK, NamedInv, RecordsNamed
    <2> QED
      BY <2>1 DEF RecordNamed, SpecNamed, Record
  <1>3. RecordsNamed'
    <2>1. \A q \in Producer : prod'[q] \in {prod[q], Gone} \/ (q = p /\ prod'[q] = [prod[p] EXCEPT !.life = "deleting"])
      BY DEF DeleteProducer, MInv, TypeOK
    <2>2. \A q \in Producer : RecordNamed(q, prod'[q]) /\ RecordNamed(q, prodCache[q])
      BY <2>1, <1>2, GoneIsNamed DEF MInv, NamedInv, RecordsNamed
    <2> QED
      BY <2>2, <1>1 DEF DeleteProducer, caches, RecordsNamed, RecordNamed, SpecNamed, PathNamed
  <1>4. RegistrarNamed'
    BY <1>1, RegistrarAlone DEF DeleteProducer
  <1> QED
    BY <1>1, <1>3, <1>4, PublisherAlone DEF DeleteProducer, caches, grants, NamedInv

(* kcp's steps; with a workspace everything in it goes. *)
LEMMA KcpKeeps ==
    ASSUME MInv, NEW p \in Producer, TakeName(p) \/ WorkspaceReady(p)
    PROVE  NamedInv' /\ OfferedInv' /\ GrantsInOrder' /\ BindingHasRole' /\ OnlyRegisteredBind'
  BY RecordsAlone, RegistrarAlone, PublisherAlone
  DEF TakeName, WorkspaceReady, caches, grants, history, NamedInv

LEMMA WorkspaceGoneKeeps ==
    ASSUME MInv, NEW p \in Producer, WorkspaceGone(p)
    PROVE  NamedInv' /\ OfferedInv' /\ GrantsInOrder' /\ BindingHasRole' /\ OnlyRegisteredBind'
  <1>1. UNCHANGED <<prod, prodCache, registrar, named, offered>>
    BY DEF WorkspaceGone, history
  <1>2. RecordsNamed' /\ RegistrarNamed'
    BY <1>1, RecordsAlone, RegistrarAlone
  <1>3. publisher' = IdlePublisher \/ (publisher' = publisher /\ publisher.key.cluster # Home[p])
    BY DEF WorkspaceGone, MInv, TypeOK, Publisher
  <1>4. PublisherNamed'
    <2>1. CASE publisher' = IdlePublisher
      <3>1. RecordNamed(Anyone, Gone)'
        BY <1>1, GoneIsNamed, IdleFacts DEF RecordNamed, SpecNamed, PathNamed
      <3> QED
        BY <2>1, <3>1 DEF PublisherNamed, IdlePublisher
    <2>2. CASE publisher' = publisher
      BY <2>2, <1>1 DEF MInv, NamedInv, PublisherNamed, RecordNamed, SpecNamed, PathNamed
    <2> QED
      BY <1>3, <2>1, <2>2
  <1>5. OfferedInv'
    BY <1>1, <1>3 DEF WorkspaceGone, MInv, TypeOK, OfferedInv, IdlePublisher
  <1>6. GrantsInOrder'
    BY <1>3 DEF WorkspaceGone, MInv, TypeOK, Publisher, GrantsInOrder, IdlePublisher
  <1>7. BindingHasRole' /\ OnlyRegisteredBind'
    BY <1>1 DEF WorkspaceGone, MInv, BindingHasRole, OnlyRegisteredBind
  <1> QED
    BY <1>2, <1>4, <1>5, <1>6, <1>7 DEF NamedInv

(* A published export is recorded as offered. *)
LEMMA WriteExportKeeps ==
    ASSUME MInv, NEW e \in Export, NEW s \in ExportState, WriteExport(e, s)
    PROVE  NamedInv' /\ OfferedInv' /\ GrantsInOrder' /\ BindingHasRole' /\ OnlyRegisteredBind'
  <1>1. UNCHANGED <<prod, prodCache, registrar, publisher, role, crb, named, exportCache>>
    BY DEF WriteExport, caches, grants
  <1>2. NamedInv'
    BY <1>1, RecordsAlone, RegistrarAlone
    DEF NamedInv, MInv, PublisherNamed, RecordNamed, SpecNamed, PathNamed
  <1>3. offered \subseteq offered' /\ (s = "published" => e \in offered')
    BY DEF WriteExport
  <1>4. OfferedInv'
    BY <1>1, <1>3 DEF WriteExport, MInv, TypeOK, OfferedInv
  <1> QED
    BY <1>1, <1>2, <1>3, <1>4 DEF MInv, GrantsInOrder, BindingHasRole, OnlyRegisteredBind

(* A cache holds what the objects were. *)
LEMMA WatchKeeps ==
    ASSUME MInv, WatchProducers \/ WatchExports \/ WatchWorkspaces \/ WatchRoles \/ Resync
    PROVE  NamedInv' /\ OfferedInv' /\ GrantsInOrder' /\ BindingHasRole' /\ OnlyRegisteredBind'
  <1>1. UNCHANGED <<prod, export, registrar, publisher, role, crb, named, offered>>
    BY DEF WatchProducers, WatchExports, WatchWorkspaces, WatchRoles, Resync, objects, caches,
           grants, history
  <1>2. prodCache' \in {prod, prodCache} /\ exportCache' \in {export, exportCache}
    BY DEF WatchProducers, WatchExports, WatchWorkspaces, WatchRoles, Resync, caches
  <1>3. NamedInv'
    BY <1>1, <1>2, RegistrarAlone
    DEF NamedInv, MInv, RecordsNamed, PublisherNamed, RecordNamed, SpecNamed, PathNamed
  <1>4. OfferedInv'
    BY <1>1, <1>2 DEF MInv, OfferedInv
  <1> QED
    BY <1>1, <1>3, <1>4 DEF MInv, GrantsInOrder, BindingHasRole, OnlyRegisteredBind

LEMMA RestartKeeps ==
    ASSUME MInv, Restart
    PROVE  NamedInv' /\ OfferedInv' /\ GrantsInOrder' /\ BindingHasRole' /\ OnlyRegisteredBind'
  <1>1. UNCHANGED <<prod, export, role, crb, named, offered>>
    BY DEF Restart, objects, grants
  <1>2. /\ prodCache' = prod /\ exportCache' = export
        /\ registrar' = IdleRegistrar /\ publisher' = IdlePublisher
    BY DEF Restart
  <1>3. RecordNamed(Anyone, Gone)' /\ PathNamed(NoPath)'
    BY <1>1, GoneIsNamed, IdleFacts DEF RecordNamed, SpecNamed, PathNamed
  <1>4. RegistrarNamed' /\ PublisherNamed'
    BY <1>2, <1>3 DEF RegistrarNamed, PublisherNamed, IdleRegistrar, IdlePublisher, NewStatus
  <1>5. RecordsNamed'
    BY <1>1, <1>2 DEF MInv, NamedInv, RecordsNamed, RecordNamed, SpecNamed, PathNamed
  <1>6. OfferedInv' /\ GrantsInOrder'
    BY <1>1, <1>2 DEF MInv, OfferedInv, GrantsInOrder, IdlePublisher
  <1> QED
    BY <1>1, <1>4, <1>5, <1>6 DEF NamedInv, MInv, BindingHasRole, OnlyRegisteredBind

(* The producer controller: a status claims a path only from a spec that   *)
(* an admin wrote, or the path of the workspace named after the record,    *)
(* which a spec of mode provisioned names.                                 *)
LEMMA RouteNames ==
    ASSUME NEW p \in Producer, NEW o \in Record, o.life \in {"live", "deleting"},
           RecordNamed(p, o), Route(p, o), UNCHANGED named
    PROVE  RegistrarNamed'
  <1>1. CASE o.spec.mode = "external"
    <2>1. ExternalStatus(o).path \in {NoPath, o.spec.path}
      BY DEF ExternalStatus, NewStatus
    <2>2. PathNamed(ExternalStatus(o).path)
      BY <1>1, <2>1, PathAssumption DEF PathNamed, RecordNamed, SpecNamed, Names
    <2> QED
      BY <1>1, <2>2 DEF Route, RegistrarNamed, RecordNamed, SpecNamed, PathNamed
  <1>2. CASE o.spec.mode # "external"
    BY <1>2, PathAssumption DEF Route, RegistrarNamed, RecordNamed, SpecNamed, PathNamed, NewStatus
  <1> QED
    BY <1>1, <1>2

LEMMA RegistrarRests ==
    ASSUME MInv, registrar' = IdleRegistrar, UNCHANGED named
    PROVE  RegistrarNamed'
  <1>1. RecordNamed(Anyone, Gone)' /\ PathNamed(NoPath)'
    BY GoneIsNamed, IdleFacts DEF RecordNamed, SpecNamed, PathNamed
  <1> QED
    BY <1>1 DEF RegistrarNamed, IdleRegistrar, NewStatus

LEMMA RegistrarSettles ==
    ASSUME MInv, NEW s \in Status, Settle(s), registrar.at # "idle", PathNamed(s.path), UNCHANGED named
    PROVE  RegistrarNamed'
  <1>1. registrar \in Registrar
    BY DEF MInv, TypeOK
  <1> QED
    BY <1>1 DEF Settle, Registrar, MInv, NamedInv, RegistrarNamed, RecordNamed, SpecNamed, PathNamed

LEMMA RecordWritten ==
    ASSUME MInv, NEW p \in Producer, NEW o \in Record, RecordNamed(p, o),
           prod' = [prod EXCEPT ![p] = o], UNCHANGED <<prodCache, named>>
    PROVE  RecordsNamed'
  <1>1. \A q \in Producer : prod'[q] \in {prod[q], Gone} \/ (q = p /\ prod'[q] = o)
    BY DEF MInv, TypeOK
  <1>2. \A q \in Producer : RecordNamed(q, prod'[q]) /\ RecordNamed(q, prodCache[q])
    BY <1>1, GoneIsNamed DEF MInv, NamedInv, RecordsNamed
  <1> QED
    BY <1>2 DEF RecordsNamed, RecordNamed, SpecNamed, PathNamed

LEMMA ReconcileProducerKeeps ==
    ASSUME MInv, NEW p \in Producer, ReconcileProducer(p)
    PROVE  RecordsNamed' /\ RegistrarNamed'
  <1>1. UNCHANGED <<prod, prodCache, named>>
    BY DEF ReconcileProducer, objects, caches, history
  <1>2. prodCache[p] \in Record /\ RecordNamed(p, prodCache[p])
    BY DEF MInv, TypeOK, NamedInv, RecordsNamed
  <1>3. ASSUME NEW at \in {"addFinalizer", "deleteWorkspace", "removeFinalizer"},
               prodCache[p].life \in {"live", "deleting"},
               registrar' = [at |-> at, key |-> p, copy |-> prodCache[p], status |-> NewStatus]
        PROVE  RegistrarNamed'
    BY <1>1, <1>2, <1>3, PathAssumption
    DEF RegistrarNamed, RecordNamed, SpecNamed, PathNamed, NewStatus
  <1>4. RegistrarNamed'
    <2>1. CASE prodCache[p].life \in {"absent", "gone"}
      BY <1>1, <2>1, RegistrarAlone DEF ReconcileProducer
    <2>2. CASE prodCache[p].life = "deleting"
      BY <2>2, <1>3 DEF ReconcileProducer
    <2>3. CASE prodCache[p].life = "live" /\ prodCache[p].finalizer
      BY <2>3, <1>1, <1>2, RouteNames DEF ReconcileProducer
    <2>4. CASE prodCache[p].life = "live" /\ ~prodCache[p].finalizer
      BY <2>4, <1>3 DEF ReconcileProducer
    <2> QED
      BY <2>1, <2>2, <2>3, <2>4, <1>2 DEF Record
  <1> QED
    BY <1>1, <1>4, RecordsAlone

LEMMA RegistrarCallKeeps ==
    ASSUME MInv, RegistrarCall \/ RegistrarFails
    PROVE  RecordsNamed' /\ RegistrarNamed'
  <1>1. /\ registrar \in Registrar /\ registrar.key \in Producer /\ registrar.copy \in Record
        /\ registrar.status \in Status /\ RegistrarNamed /\ prod[registrar.key] \in Record
        /\ RecordNamed(registrar.key, prod[registrar.key])
    BY DEF MInv, TypeOK, Registrar, NamedInv, RecordsNamed
  <1>2. UNCHANGED <<prodCache, named>>
    BY DEF RegistrarCall, RegistrarFails, AddFinalizer, EnsureWorkspace, WriteStatus,
           DeleteWorkspace, RemoveFinalizer, caches, history
  <1>3. ASSUME Done \/ Again PROVE RegistrarNamed'
    BY <1>2, <1>3, RegistrarRests DEF Done, Again
  <1>4. CASE AddFinalizer
    <2> DEFINE new == [registrar.copy EXCEPT !.finalizer = TRUE]
    <2>1. CASE prod[registrar.key] = registrar.copy /\ prod' = [prod EXCEPT ![registrar.key] = new]
               /\ Route(registrar.key, new)
      <3>1. /\ new \in Record /\ new.life = registrar.copy.life /\ new.spec = registrar.copy.spec
            /\ new.status = registrar.copy.status
        BY <1>1 DEF Record
      <3>2. RecordNamed(registrar.key, new)
        BY <1>1, <3>1 DEF RegistrarNamed, RecordNamed, SpecNamed
      <3>3. RecordsNamed'
        BY <1>1, <1>2, <2>1, <3>1, <3>2, RecordWritten
      <3>4. new.life \in {"live", "deleting"}
        BY <1>1, <1>4, <3>1 DEF AddFinalizer, Doing, RegistrarNamed
      <3> QED
        BY <1>1, <1>2, <2>1, <3>1, <3>2, <3>3, <3>4, RouteNames
    <2>2. CASE Again /\ UNCHANGED prod
      BY <1>2, <1>3, <2>2, RecordsAlone
    <2> QED
      BY <1>4, <2>1, <2>2 DEF AddFinalizer
  <1>5. CASE EnsureWorkspace
    <2>1. registrar.copy.life \in {"live", "deleting"} /\ registrar.copy.spec.mode # "external"
          /\ registrar.at = "ensure"
      BY <1>1, <1>5 DEF EnsureWorkspace, Doing, RegistrarNamed
    <2>2. PathNamed(PathOf[Home[registrar.key]])
      BY <1>1, <2>1 DEF RegistrarNamed, RecordNamed, SpecNamed, PathNamed, Names
    <2>3. \A r \in BOOLEAN : PathNamed(ProvisionedStatus(registrar.key, r).path)
      BY <2>2 DEF ProvisionedStatus
    <2>4. PathNamed([NewStatus EXCEPT !.phase = "Error"].path)
      BY PathAssumption DEF PathNamed, NewStatus
    <2>5. \E s \in Status : Settle(s) /\ PathNamed(s.path)
      BY <1>1, <1>5, <2>3, <2>4, StatusFacts DEF EnsureWorkspace, EnsureFailed, Phase
    <2> QED
      BY <1>2, <1>5, <2>1, <2>5, RegistrarSettles, RecordsAlone DEF EnsureWorkspace
  <1>6. CASE WriteStatus
    <2>1. RegistrarNamed'
      BY <1>3, <1>6 DEF WriteStatus
    <2>2. CASE UNCHANGED prod
      BY <1>2, <2>1, <2>2, RecordsAlone
    <2>3. CASE prod' = [prod EXCEPT ![registrar.key].status = registrar.status]
      <3> DEFINE new == [prod[registrar.key] EXCEPT !.status = registrar.status]
      <3>1. new \in Record /\ RecordNamed(registrar.key, new)
        BY <1>1 DEF RegistrarNamed, RecordNamed, SpecNamed, Record
      <3>2. prod' = [prod EXCEPT ![registrar.key] = new]
        BY <2>3
      <3> QED
        BY <1>1, <1>2, <2>1, <3>1, <3>2, RecordWritten
    <2> QED
      BY <1>6, <2>2, <2>3 DEF WriteStatus
  <1>7. CASE DeleteWorkspace
    <2>1. registrar' = [registrar EXCEPT !.at = "removeFinalizer"] => RegistrarNamed'
      BY <1>1, <1>2, <1>7
      DEF DeleteWorkspace, Doing, RegistrarNamed, RecordNamed, SpecNamed, PathNamed, Registrar
    <2> QED
      BY <1>2, <1>3, <1>7, <2>1, RecordsAlone DEF DeleteWorkspace
  <1>8. CASE RemoveFinalizer
    <2>1. RegistrarNamed'
      BY <1>3, <1>8 DEF RemoveFinalizer
    <2>2. UNCHANGED prod \/ prod' = [prod EXCEPT ![registrar.key] = Gone]
      BY <1>8 DEF RemoveFinalizer
    <2> QED
      BY <1>1, <1>2, <2>1, <2>2, RecordsAlone, RecordWritten, RecordFacts, GoneIsNamed
  <1>9. CASE RegistrarFails
    <2>1. PathNamed([NewStatus EXCEPT !.phase = "Error"].path)
      BY PathAssumption DEF PathNamed, NewStatus
    <2>2. [NewStatus EXCEPT !.phase = "Error"] \in Status
      BY StatusFacts DEF Phase
    <2>3. RegistrarNamed'
      BY <1>2, <1>3, <1>9, <2>1, <2>2, RegistrarSettles DEF RegistrarFails, EnsureFailed, Doing
    <2> QED
      BY <1>2, <1>9, <2>3, RecordsAlone DEF RegistrarFails, objects
  <1> QED
    BY <1>4, <1>5, <1>6, <1>7, <1>8, <1>9 DEF RegistrarCall

LEMMA RegistrarKeeps ==
    ASSUME MInv, RegistrarCall \/ RegistrarFails \/ \E p \in Producer : ReconcileProducer(p)
    PROVE  NamedInv' /\ OfferedInv' /\ GrantsInOrder' /\ BindingHasRole' /\ OnlyRegisteredBind'
  <1>1. UNCHANGED <<publisher, grants, export, exportCache, named, offered>>
    BY DEF ReconcileProducer, RegistrarCall, RegistrarFails, AddFinalizer, EnsureWorkspace,
           WriteStatus, DeleteWorkspace, RemoveFinalizer, objects, caches, history
  <1> QED
    BY <1>1, PublisherAlone, RegistrarCallKeeps, ReconcileProducerKeeps DEF NamedInv

(* The publish controller. *)
LEMMA PublisherRests ==
    ASSUME MInv, publisher' = IdlePublisher \/ \E e \in Export, at \in {"resolve", "revoke"} :
                   publisher' = [IdlePublisher EXCEPT !.key = e, !.at = at],
           UNCHANGED named
    PROVE  PublisherNamed'
  <1>1. RecordNamed(Anyone, Gone)'
    BY GoneIsNamed, IdleFacts DEF RecordNamed, SpecNamed, PathNamed
  <1>2. /\ publisher'.owner = Anyone /\ publisher'.copy = Gone
        /\ publisher'.at \in {"idle", "resolve", "revoke"}
    <2>1. CASE publisher' = IdlePublisher
      BY <2>1 DEF IdlePublisher
    <2>2. ASSUME NEW e \in Export, NEW at \in {"resolve", "revoke"},
                 publisher' = [IdlePublisher EXCEPT !.key = e, !.at = at]
          PROVE  publisher'.owner = Anyone /\ publisher'.copy = Gone /\ publisher'.at = at
      BY <2>2 DEF IdlePublisher
    <2> QED
      BY <2>1, <2>2
  <1> QED
    BY <1>1, <1>2 DEF PublisherNamed

LEMMA ReconcileExportKeeps ==
    ASSUME MInv, NEW e \in Export, ReconcileExport(e)
    PROVE  NamedInv' /\ OfferedInv' /\ GrantsInOrder' /\ BindingHasRole' /\ OnlyRegisteredBind'
  <1>1. UNCHANGED <<objects, caches, grants, registrar, history>>
    BY DEF ReconcileExport
  <1>2. /\ publisher'.key = e
        /\ publisher'.at = IF exportCache[e] = "published" THEN "resolve" ELSE "revoke"
        /\ publisher' = [IdlePublisher EXCEPT !.key = e, !.at = publisher'.at]
    BY DEF ReconcileExport, Published, IdlePublisher
  <1>3. NamedInv'
    BY <1>1, <1>2, PublisherRests, RecordsAlone, RegistrarAlone
    DEF NamedInv, objects, caches, history
  <1>4. OfferedInv' /\ GrantsInOrder'
    BY <1>1, <1>2 DEF MInv, OfferedInv, GrantsInOrder, objects, caches, history
  <1> QED
    BY <1>1, <1>3, <1>4 DEF MInv, BindingHasRole, OnlyRegisteredBind, grants, history

(* The records, and so what the publisher reads of them, name only paths   *)
(* that were named; the cluster of the path it looks up is one of those.   *)
LEMMA ResolveKeeps ==
    ASSUME MInv, ResolveProducer
    PROVE  NamedInv' /\ OfferedInv' /\ GrantsInOrder' /\ BindingHasRole' /\ OnlyRegisteredBind'
  <1>1. UNCHANGED <<objects, caches, grants, registrar, history>>
    BY DEF ResolveProducer
  <1>2. /\ publisher \in Publisher /\ publisher.key \in Export /\ publisher.key.cluster \in Cluster
        /\ publisher.at = "resolve" /\ publisher.key \in offered /\ PublisherNamed
    BY ClusterAssumption DEF MInv, TypeOK, Publisher, ResolveProducer, At, OfferedInv, NamedInv
  <1>3. CASE Retry
    BY <1>1, <1>3, PublisherRests, RecordsAlone, RegistrarAlone
    DEF Retry, NamedInv, OfferedInv, GrantsInOrder, BindingHasRole, OnlyRegisteredBind, MInv,
        IdlePublisher, objects, caches, grants, history
  <1>4. ASSUME NEW p \in Matching(publisher.key.cluster),
               \/ Goto("createRole")
               \/ publisher' = [publisher EXCEPT !.at = "learn", !.owner = p, !.copy = prodCache[p]]
        PROVE  NamedInv' /\ OfferedInv' /\ GrantsInOrder' /\ BindingHasRole' /\ OnlyRegisteredBind'
    <2>1. p \in Producer /\ RecordNamed(p, prodCache[p]) /\ publisher.key.cluster \in named
      BY <1>2, <1>4 DEF Matching, MInv, NamedInv, RecordsNamed, RecordNamed, PathNamed
    <2>2. /\ publisher'.key = publisher.key /\ publisher'.at \in {"learn", "createRole"}
          /\ \/ publisher'.owner = publisher.owner /\ publisher'.copy = publisher.copy
             \/ publisher'.owner = p /\ publisher'.copy = prodCache[p]
      BY <1>2, <1>4 DEF Goto, Publisher
    <2>3. RecordNamed(publisher'.owner, publisher'.copy)
      BY <1>2, <2>1, <2>2 DEF PublisherNamed
    <2>4. PublisherNamed'
      BY <1>1, <2>1, <2>2, <2>3
      DEF PublisherNamed, RecordNamed, SpecNamed, PathNamed, history
    <2>5. OfferedInv' /\ GrantsInOrder'
      BY <1>1, <1>2, <2>2 DEF MInv, OfferedInv, GrantsInOrder, objects, caches, history
    <2> QED
      BY <1>1, <2>4, <2>5, RecordsAlone, RegistrarAlone
      DEF NamedInv, MInv, BindingHasRole, OnlyRegisteredBind, objects, caches, grants, history
  <1> QED
    BY <1>3, <1>4 DEF ResolveProducer

LEMMA LearnKeeps ==
    ASSUME MInv, LearnCluster
    PROVE  NamedInv' /\ OfferedInv' /\ GrantsInOrder' /\ BindingHasRole' /\ OnlyRegisteredBind'
  <1>1. UNCHANGED <<ws, export, caches, grants, registrar, history>>
    BY DEF LearnCluster
  <1>2. /\ publisher \in Publisher /\ publisher.owner \in Producer /\ publisher.key \in Export
        /\ publisher.copy \in Record /\ publisher.key.cluster \in Cluster
        /\ RecordNamed(publisher.owner, publisher.copy)
        /\ publisher.key.cluster \in named /\ publisher.key \in offered
    BY ClusterAssumption
    DEF MInv, TypeOK, Publisher, LearnCluster, At, OfferedInv, NamedInv, PublisherNamed
  <1> DEFINE s == [publisher.copy.status EXCEPT !.cluster = publisher.key.cluster, !.phase = "Ready"]
             new == [publisher.copy EXCEPT !.status = s]
  <1>3. s \in Status /\ s.path = publisher.copy.status.path
    BY <1>2, StatusFacts DEF Record, Status
  <1>4. new \in Record /\ RecordNamed(publisher.owner, new)
    BY <1>2, <1>3 DEF Record, RecordNamed, SpecNamed
  <1>5. UNCHANGED prod \/ prod' = [prod EXCEPT ![publisher.owner] = new]
    BY DEF LearnCluster
  <1>6. RecordsNamed'
    BY <1>1, <1>2, <1>4, <1>5, RecordsAlone, RecordWritten DEF caches, history
  <1>7. PublisherNamed' /\ OfferedInv' /\ GrantsInOrder'
    <2>1. CASE publisher' = IdlePublisher
      BY <1>1, <2>1, PublisherRests
      DEF MInv, OfferedInv, GrantsInOrder, IdlePublisher, caches, history
    <2>2. CASE publisher' = [IdlePublisher EXCEPT !.key = publisher.key, !.at = "createRole"]
      <3>1. RecordNamed(Anyone, Gone)'
        BY <1>1, GoneIsNamed, IdleFacts DEF RecordNamed, SpecNamed, PathNamed, history
      <3>2. /\ publisher'.key = publisher.key /\ publisher'.at = "createRole"
            /\ publisher'.owner = Anyone /\ publisher'.copy = Gone
        BY <2>2 DEF IdlePublisher
      <3> QED
        BY <1>1, <1>2, <3>1, <3>2
        DEF MInv, PublisherNamed, OfferedInv, GrantsInOrder, caches, history
    <2> QED
      BY <2>1, <2>2 DEF LearnCluster, Retry
  <1> QED
    BY <1>1, <1>6, <1>7, RegistrarAlone
    DEF NamedInv, MInv, BindingHasRole, OnlyRegisteredBind, grants, history

(* Making and revoking a grant, in the order that keeps the role. *)
LEMMA GrantStepsKeep ==
    ASSUME MInv, \/ CreateRole \/ CreateBinding \/ LookForGrant \/ DeleteBinding \/ DeleteRole
                 \/ PublisherFails
    PROVE  NamedInv' /\ OfferedInv' /\ GrantsInOrder' /\ BindingHasRole' /\ OnlyRegisteredBind'
  <1>1. UNCHANGED <<objects, caches, registrar, named, offered>>
    BY DEF CreateRole, CreateBinding, LookForGrant, DeleteBinding, DeleteRole, PublisherFails, history
  <1>2. publisher \in Publisher /\ publisher.key \in Export /\ PublisherNamed /\ OfferedInv
    BY DEF MInv, TypeOK, Publisher, NamedInv
  <1>3. \/ publisher' = IdlePublisher
        \/ /\ publisher'.key = publisher.key /\ publisher'.owner = publisher.owner
           /\ publisher'.copy = publisher.copy
           /\ \/ publisher.at = "createRole" /\ publisher'.at = "createBinding"
              \/ publisher'.at \in {"deleteBinding", "deleteRole"}
    BY <1>2 DEF CreateRole, CreateBinding, LookForGrant, DeleteBinding, DeleteRole, PublisherFails,
                At, Goto, Finish, Retry, Publisher
  <1>4. NamedInv' /\ OfferedInv'
    <2>1. CASE publisher' = IdlePublisher
      BY <1>1, <1>2, <2>1, PublisherRests, RecordsAlone, RegistrarAlone
      DEF NamedInv, OfferedInv, IdlePublisher, objects, caches
    <2>2. CASE publisher' # IdlePublisher
      BY <1>1, <1>2, <1>3, <2>2, RecordsAlone, RegistrarAlone
      DEF NamedInv, OfferedInv, PublisherNamed, RecordNamed, SpecNamed, PathNamed, objects, caches
    <2> QED
      BY <2>1, <2>2
  <1>5. GrantsInOrder' /\ BindingHasRole' /\ OnlyRegisteredBind'
    <2>1. CASE CreateRole
      BY <1>1, <1>2, <2>1
      DEF CreateRole, At, Goto, Publisher, MInv, GrantsInOrder, BindingHasRole, OnlyRegisteredBind
    <2>2. CASE CreateBinding
      BY <1>1, <1>2, <2>2
      DEF CreateBinding, At, Finish, IdlePublisher, MInv, GrantsInOrder, BindingHasRole,
          OnlyRegisteredBind, OfferedInv, PublisherNamed
    <2>3. CASE LookForGrant
      BY <1>1, <1>2, <2>3
      DEF LookForGrant, At, Goto, Finish, IdlePublisher, Publisher, MInv, GrantsInOrder,
          BindingHasRole, OnlyRegisteredBind, grants
    <2>4. CASE DeleteBinding
      BY <1>1, <1>2, <2>4
      DEF DeleteBinding, At, Goto, Publisher, MInv, GrantsInOrder, BindingHasRole, OnlyRegisteredBind
    <2>5. CASE DeleteRole
      BY <1>1, <1>2, <2>5
      DEF DeleteRole, At, Finish, IdlePublisher, MInv, GrantsInOrder, BindingHasRole, OnlyRegisteredBind
    <2>6. CASE PublisherFails
      BY <1>1, <1>2, <2>6
      DEF PublisherFails, Retry, IdlePublisher, MInv, GrantsInOrder, BindingHasRole,
          OnlyRegisteredBind, grants
    <2> QED
      BY <2>1, <2>2, <2>3, <2>4, <2>5, <2>6
  <1> QED
    BY <1>4, <1>5

-----------------------------------------------------------------------------
LEMMA NextKeeps == MInv /\ [Next]_vars => MInv'
  <1> SUFFICES ASSUME MInv, [Next]_vars PROVE MInv'
    OBVIOUS
  <1>1. TypeOK'
    BY TypesStay DEF MInv
  <1> DEFINE Rest == NamedInv /\ OfferedInv /\ GrantsInOrder /\ BindingHasRole /\ OnlyRegisteredBind
  <1>2. CASE UNCHANGED vars
    <2>1. Rest'
      BY <1>2, RecordsAlone, RegistrarAlone, PublisherAlone
      DEF vars, objects, caches, history, NamedInv
    <2> QED
      BY <1>1, <2>1 DEF MInv
  <1>3. ASSUME NEW p \in Producer, NEW spec \in RecordSpec,
               CreateProducer(p, spec) \/ EditProducer(p, spec)
        PROVE  Rest'
    <2>1. CASE CreateProducer(p, spec)
      <3>1. NewRecord(spec, "live") \in Record /\ PathNamed(NewRecord(spec, "live").status.path)
        BY RecordFacts, PathAssumption DEF PathNamed, NewRecord, NewStatus
      <3> QED
        BY <2>1, <3>1, WriteSpecNames DEF CreateProducer
    <2>2. CASE EditProducer(p, spec)
      <3>1. prod[p] \in Record /\ PathNamed(prod[p].status.path)
        BY DEF MInv, TypeOK, NamedInv, RecordsNamed, RecordNamed
      <3>2. /\ [prod[p] EXCEPT !.spec = spec] \in Record
            /\ [prod[p] EXCEPT !.spec = spec].status = prod[p].status
        BY <3>1, RecordFacts DEF Record
      <3> QED
        BY <2>2, <3>1, <3>2, WriteSpecNames DEF EditProducer
    <2> QED
      BY <1>3, <2>1, <2>2
  <1>4. ASSUME NEW p \in Producer,
               \/ DeleteProducer(p) \/ TakeName(p) \/ WorkspaceReady(p) \/ WorkspaceGone(p)
               \/ ReconcileProducer(p)
        PROVE  Rest'
    BY <1>4, DeleteProducerKeeps, KcpKeeps, WorkspaceGoneKeeps, RegistrarKeeps
  <1>5. ASSUME NEW e \in Export,
               \/ CreateExport(e) \/ ExportGone(e) \/ ReconcileExport(e)
               \/ \E s \in ExportState : AnnotateExport(e, s) \/ DeleteExport(e, s)
        PROVE  Rest'
    <2>1. CASE ReconcileExport(e)
      BY <2>1, ReconcileExportKeeps
    <2>2. CASE ~ReconcileExport(e)
      <3>1. \E s \in ExportState : WriteExport(e, s)
        BY <1>5, <2>2 DEF CreateExport, ExportGone, AnnotateExport, DeleteExport, ExportState
      <3> QED
        BY <3>1, WriteExportKeeps
    <2> QED
      BY <2>1, <2>2
  <1>6. ASSUME WatchProducers \/ WatchExports \/ WatchWorkspaces \/ WatchRoles \/ Resync PROVE Rest'
    BY <1>6, WatchKeeps
  <1>7. ASSUME RegistrarCall \/ RegistrarFails PROVE Rest'
    BY <1>7, RegistrarKeeps
  <1>8. ASSUME PublisherCall \/ PublisherFails PROVE Rest'
    BY <1>8, ResolveKeeps, LearnKeeps, GrantStepsKeep DEF PublisherCall
  <1>9. ASSUME Restart PROVE Rest'
    BY <1>9, RestartKeeps
  <1>10. CASE Next
    <2>1. Rest'
      BY <1>3, <1>4, <1>5, <1>6, <1>7, <1>8, <1>9, <1>10 DEF Next
    <2> QED
      BY <1>1, <2>1 DEF MInv
  <1> QED
    BY <1>2, <1>10

(* However records, workspaces and exports come, change and go, and        *)
(* wherever the operator stops: whoever may bind an export may do so by a  *)
(* binding whose role can be found, on an export that was published from a *)
(* workspace some admin registered (publish.go, ensureBindGrant and        *)
(* removeBindGrant).                                                       *)
THEOREM NothingElseIsOpened == SafeSpec => []MarketplaceInv
  <1>1. MInv => MarketplaceInv
    BY DEF MInv, MarketplaceInv
  <1> QED
    BY Initially, NextKeeps, <1>1, PTL DEF SafeSpec

-----------------------------------------------------------------------------
(* The database controller.                                                *)
DatabaseSafe == DatabaseInit /\ [][DatabaseNext]_databaseVars

-----------------------------------------------------------------------------
Endpoint == {NoEngine} \cup {EndpointOf[e] : e \in Engine}
DatabaseStatus == [phase : {"", "Pending", "Ready"}, observed : Nat, endpoint : Endpoint,
           ready : {"", "False", "True"}, readyAt : Nat]
Object == [life : {"none", "live", "deleting"}, uid : Nat, generation : Nat,
           engine : Engine \cup {NoEngine}, status : DatabaseStatus]

DatabaseTypeOK ==
    /\ db \in [Database -> Object] /\ dbCache \in [Database -> Object]
    /\ dbQueue \subseteq Database
    /\ changes \in Nat
    /\ worker.busy => worker.key \in Database /\ worker.copy \in Object

(* What is asked of an object, at its generation. *)
Request(o) == [uid |-> o.uid, generation |-> o.generation, engine |-> o.engine]

(* The endpoint of a Ready status is the one of its generation. *)
TellsItsGeneration(o) ==
    o.status.phase = "Ready" =>
        /\ o.status.readyAt = o.status.observed
        /\ \E a \in asked : /\ a.uid = o.uid /\ a.generation = o.status.observed
                            /\ o.status.endpoint = EndpointOf[a.engine]

(* A copy of an object, however old, has a spec that somebody wrote. *)
Genuine(o) ==
    /\ o.life # "none" => o.engine \in Engine /\ Request(o) \in asked
    /\ TellsItsGeneration(o)

AllGenuine == \A d \in Database : Genuine(db[d]) /\ Genuine(dbCache[d])

(* What the reconcile in progress is about to write it has made of a copy. *)
WorkerInv ==
    worker.busy =>
        /\ Genuine(worker.copy)
        /\ worker.copy.life = "live"
        /\ \/ worker.status = PendingStatus(worker.copy)
           \/ Acknowledged(worker.copy) /\ worker.status = ReadyStatus(worker.copy)

DatabaseInv == DatabaseTypeOK /\ AllGenuine /\ WorkerInv

-----------------------------------------------------------------------------
LEMMA NoDatabaseFacts ==
    NoStatus \in DatabaseStatus /\ NoDatabase \in Object /\ Genuine(NoDatabase)
  <1>1. NoStatus \in DatabaseStatus /\ NoStatus.phase = ""
    BY DEF NoStatus, DatabaseStatus, Endpoint
  <1> QED
    BY <1>1 DEF NoDatabase, Object, Genuine, TellsItsGeneration

LEMMA ObjectFacts ==
    /\ \A o \in Object, s \in DatabaseStatus : [o EXCEPT !.status = s] \in Object
    /\ \A o \in Object, n \in Nat, e \in Engine :
          [o EXCEPT !.engine = e, !.generation = n] \in Object
    /\ \A o \in Object, n \in Nat :
          [o EXCEPT !.life = "deleting", !.generation = n] \in Object
    /\ \A n \in Nat, e \in Engine :
          [life |-> "live", uid |-> n, generation |-> 1, engine |-> e, status |-> NoStatus]
             \in Object
  BY NoDatabaseFacts DEF Object

LEMMA DatabaseStatusFacts ==
    ASSUME NEW o \in Object, o.engine \in Engine
    PROVE  /\ PendingStatus(o) \in DatabaseStatus /\ ReadyStatus(o) \in DatabaseStatus
           /\ ReadyStatus(o).observed = o.status.observed
           /\ ReadyStatus(o).readyAt = o.generation
           /\ ReadyStatus(o).endpoint = EndpointOf[o.engine]
  <1>1. o.generation \in Nat /\ o.status \in DatabaseStatus
    BY DEF Object
  <1>2. NoEngine \in Endpoint /\ EndpointOf[o.engine] \in Endpoint
    BY DEF Endpoint
  <1> QED
    BY <1>1, <1>2 DEF PendingStatus, ReadyStatus, endpointFor, DatabaseStatus

LEMMA DatabaseInitially == DatabaseInit => DatabaseInv
  BY NoDatabaseFacts
  DEF DatabaseInit, DatabaseInv, DatabaseTypeOK, AllGenuine, WorkerInv, IdleWorker

(* A step of the consumers puts one object in the place of another, which  *)
(* is new, or has the status of the one before.                            *)
LEMMA WriteStep ==
    ASSUME DatabaseInv, NEW d \in Database, NEW o \in Object, WriteDatabase(d, o),
           o.life # "none" => o.engine \in Engine, TellsItsGeneration(o)
    PROVE  DatabaseInv'
  <1>1. /\ db' = [db EXCEPT ![d] = o] /\ asked' = asked \cup {Request(o)}
        /\ UNCHANGED <<dbCache, dbQueue, worker>>
        /\ changes' \in Nat
    BY DEF WriteDatabase, Change, Request, controllerVars, DatabaseInv, DatabaseTypeOK
  <1>2. DatabaseTypeOK'
    BY <1>1 DEF DatabaseInv, DatabaseTypeOK
  <1>3. AllGenuine'
    <2> SUFFICES ASSUME NEW e \in Database PROVE (Genuine(db[e]) /\ Genuine(dbCache[e]))'
      BY DEF AllGenuine
    <2>1. Genuine(db[e]) /\ Genuine(dbCache[e])
      BY DEF DatabaseInv, AllGenuine
    <2>2. Genuine(dbCache[e])'
      BY <1>1, <2>1 DEF Genuine, TellsItsGeneration
    <2>3. CASE e = d
      <3>1. db'[e] = o
        BY <1>1, <2>3 DEF DatabaseInv, DatabaseTypeOK
      <3> QED
        BY <1>1, <2>2, <3>1 DEF Genuine, TellsItsGeneration
    <2>4. CASE e # d
      <3>1. db'[e] = db[e]
        BY <1>1, <2>4 DEF DatabaseInv, DatabaseTypeOK
      <3> QED
        BY <1>1, <2>1, <2>2, <3>1 DEF Genuine, TellsItsGeneration
    <2> QED
      BY <2>3, <2>4
  <1>4. WorkerInv'
    BY <1>1 DEF DatabaseInv, WorkerInv, Genuine, TellsItsGeneration, PendingStatus,
                Acknowledged, ReadyStatus, endpointFor
  <1> QED
    BY <1>2, <1>3, <1>4 DEF DatabaseInv

LEMMA ConsumerStep ==
    ASSUME DatabaseInv, NEW d \in Database, NEW e \in Engine,
           \/ CreateDatabase(d, e) \/ EditDatabase(d, e)
           \/ DeleteDatabase(d) \/ FinalizerRemoved(d)
    PROVE  DatabaseInv'
  <1>1. db[d] \in Object /\ Genuine(db[d]) /\ changes \in Nat
    BY DEF DatabaseInv, DatabaseTypeOK, AllGenuine
  <1>2. PICK n \in Nat : n = db[d].generation + 1
    BY <1>1 DEF Object
  <1>3. CASE CreateDatabase(d, e)
    <2> DEFINE o == [life |-> "live", uid |-> changes + 1, generation |-> 1,
                     engine |-> e, status |-> NoStatus]
    <2>1. changes + 1 \in Nat
      BY <1>1
    <2>2. o \in Object /\ TellsItsGeneration(o)
      BY <2>1, ObjectFacts DEF NoStatus, TellsItsGeneration
    <2> QED
      BY <1>3, <2>2, WriteStep DEF CreateDatabase
  <1>4. CASE EditDatabase(d, e)
    <2> DEFINE o == [db[d] EXCEPT !.engine = e, !.generation = n]
    <2>1. /\ o \in Object /\ o.engine \in Engine
          /\ o.status = db[d].status /\ o.uid = db[d].uid
      BY <1>1, ObjectFacts DEF Object
    <2>2. TellsItsGeneration(o)
      BY <1>1, <2>1 DEF Genuine, TellsItsGeneration
    <2>3. WriteDatabase(d, o)
      BY <1>4, <1>2 DEF EditDatabase
    <2> QED
      BY <2>1, <2>2, <2>3, WriteStep
  <1>5. CASE WriteDatabase(d, NoDatabase)
    BY <1>5, NoDatabaseFacts, WriteStep DEF NoDatabase, Genuine
  <1>6. CASE DeleteDatabase(d) /\ ~WriteDatabase(d, NoDatabase)
    <2> DEFINE o == [db[d] EXCEPT !.life = "deleting", !.generation = n]
    <2>1. WriteDatabase(d, o) /\ db[d].life = "live"
      BY <1>6, <1>2 DEF DeleteDatabase
    <2>2. /\ o \in Object /\ o.engine = db[d].engine /\ o.status = db[d].status
          /\ o.uid = db[d].uid
      BY <1>1, <1>2, ObjectFacts DEF Object
    <2>3. TellsItsGeneration(o) /\ o.engine \in Engine
      BY <1>1, <2>1, <2>2 DEF Genuine, TellsItsGeneration
    <2> QED
      BY <2>1, <2>2, <2>3, WriteStep
  <1> QED
    BY <1>3, <1>4, <1>5, <1>6 DEF FinalizerRemoved

(* What the informer does leaves copies of objects in the cache. *)
LEMMA CacheStep ==
    ASSUME DatabaseInv, dbCache' \in [Database -> Object], dbQueue' \subseteq Database,
           \A d \in Database : dbCache'[d] \in {dbCache[d], db[d], NoDatabase},
           UNCHANGED <<db, asked>>, changes' \in Nat,
           UNCHANGED worker \/ worker' = IdleWorker
    PROVE  DatabaseInv'
  <1>1. DatabaseTypeOK'
    BY DEF DatabaseInv, DatabaseTypeOK, IdleWorker
  <1>2. AllGenuine'
    <2> SUFFICES ASSUME NEW d \in Database PROVE (Genuine(db[d]) /\ Genuine(dbCache[d]))'
      BY DEF AllGenuine
    <2>1. Genuine(db[d]) /\ Genuine(dbCache'[d])
      BY NoDatabaseFacts DEF DatabaseInv, AllGenuine
    <2> QED
      BY <2>1 DEF Genuine, TellsItsGeneration
  <1>3. WorkerInv'
    BY DEF DatabaseInv, WorkerInv, IdleWorker, Genuine, TellsItsGeneration
  <1> QED
    BY <1>1, <1>2, <1>3 DEF DatabaseInv

LEMMA InformerStep ==
    ASSUME DatabaseInv,
           \/ \E d \in Database : Watch(d) \/ Relist(d) \/ Requeue(d)
           \/ Disable \/ Enable \/ RestartProducer
    PROVE  DatabaseInv'
  <1> USE DEF DatabaseInv, DatabaseTypeOK
  <1>1. ASSUME NEW d \in Database, NEW q, Observe(d, q), UNCHANGED consumerVars, UNCHANGED worker
        PROVE  DatabaseInv'
    <2>1. /\ dbCache' = [dbCache EXCEPT ![d] = db[d]] /\ dbQueue' \subseteq Database
          /\ UNCHANGED <<db, asked, changes>>
      BY <1>1 DEF Observe, consumerVars
    <2> QED
      BY <1>1, <2>1, CacheStep
  <1>2. ASSUME NEW d \in Database, Watch(d) \/ Relist(d) PROVE DatabaseInv'
    BY <1>1, <1>2 DEF Watch, Relist, Observe
  <1>3. ASSUME NEW d \in Database, Requeue(d) PROVE DatabaseInv'
    BY <1>3, CacheStep DEF Requeue, consumerVars
  <1>4. CASE Disable \/ RestartProducer
    BY <1>4, NoDatabaseFacts, CacheStep DEF Disable, RestartProducer, Change
  <1>5. CASE Enable
    BY <1>5, CacheStep DEF Enable, Change, controllerVars
  <1> QED
    BY <1>2, <1>3, <1>4, <1>5

(* A reconcile makes its status of the copy it has read. *)
LEMMA ReconcileStep ==
    ASSUME DatabaseInv, NEW d \in Database, Reconcile(d)
    PROVE  DatabaseInv'
  <1> DEFINE o == dbCache[d]
  <1>1. o \in Object /\ Genuine(o) /\ UNCHANGED <<db, dbCache, asked, changes>>
    BY DEF Reconcile, consumerVars, DatabaseInv, DatabaseTypeOK, AllGenuine
  <1>2. dbQueue' \subseteq Database
    BY DEF Reconcile, DatabaseInv, DatabaseTypeOK
  <1>3. CASE worker' = IdleWorker
    BY <1>1, <1>2, <1>3, CacheStep DEF DatabaseInv, DatabaseTypeOK
  <1>4. CASE worker' # IdleWorker
    <2>1. /\ o.life = "live"
          /\ worker' = [busy |-> TRUE, key |-> d, copy |-> o,
                        status |-> IF Acknowledged(o) THEN ReadyStatus(o) ELSE PendingStatus(o)]
      BY <1>4 DEF Reconcile
    <2>2. DatabaseTypeOK' /\ AllGenuine'
      BY <1>1, <1>2, <2>1
      DEF DatabaseInv, DatabaseTypeOK, AllGenuine, Genuine, TellsItsGeneration
    <2>3. WorkerInv'
      BY <1>1, <2>1 DEF WorkerInv, Genuine, TellsItsGeneration
    <2> QED
      BY <2>2, <2>3 DEF DatabaseInv
  <1> QED
    BY <1>3, <1>4

(* The status lands on the very object it was made from.                   *)
LEMMA WrittenStatus ==
    ASSUME DatabaseInv, worker.busy
    PROVE  LET o == [worker.copy EXCEPT !.status = worker.status]
           IN  o \in Object /\ Genuine(o)
  <1> DEFINE c == worker.copy
             o == [c EXCEPT !.status = worker.status]
  <1>1. c \in Object /\ c.engine \in Engine /\ Request(c) \in asked /\ TellsItsGeneration(c)
    BY DEF DatabaseInv, DatabaseTypeOK, WorkerInv, Genuine
  <1>2. CASE worker.status = PendingStatus(c)
    <2>1. worker.status \in DatabaseStatus /\ worker.status.phase = "Pending"
      BY <1>1, <1>2, DatabaseStatusFacts DEF PendingStatus
    <2> QED
      BY <1>1, <2>1 DEF Object, Genuine, TellsItsGeneration, Request
  <1>3. CASE Acknowledged(c) /\ worker.status = ReadyStatus(c)
    <2>1. /\ worker.status \in DatabaseStatus /\ worker.status.observed = c.generation
          /\ worker.status.readyAt = c.generation
          /\ worker.status.endpoint = EndpointOf[c.engine]
      BY <1>1, <1>3, DatabaseStatusFacts DEF Acknowledged
    <2>2. /\ o \in Object /\ o.status = worker.status /\ o.uid = c.uid
          /\ o.engine = c.engine /\ Request(o) = Request(c)
      BY <1>1, <2>1 DEF Object, Request
    <2>3. Request(c).uid = c.uid /\ Request(c).generation = c.generation
          /\ Request(c).engine = c.engine
      BY DEF Request
    <2> QED
      BY <1>1, <2>1, <2>2, <2>3 DEF Genuine, TellsItsGeneration
  <1> QED
    BY <1>2, <1>3 DEF DatabaseInv, WorkerInv

LEMMA UpdateStep ==
    ASSUME DatabaseInv, UpdateStatus \/ UpdateFails
    PROVE  DatabaseInv'
  <1> DEFINE d == worker.key
             o == [worker.copy EXCEPT !.status = worker.status]
  <1>1. /\ worker.busy /\ d \in Database /\ worker.copy \in Object
        /\ worker' = IdleWorker /\ UNCHANGED <<dbCache, asked>> /\ changes' \in Nat
    BY DEF UpdateStatus, UpdateFails, Change, DatabaseInv, DatabaseTypeOK
  <1>2. dbQueue' \subseteq Database
    BY <1>1 DEF UpdateStatus, UpdateFails, Retried, DatabaseInv, DatabaseTypeOK
  <1>3. CASE UNCHANGED db
    BY <1>1, <1>2, <1>3, CacheStep DEF DatabaseInv, DatabaseTypeOK
  <1>4. CASE Written
    <2>1. db' = [db EXCEPT ![d] = o]
      BY <1>1, <1>4 DEF Written, DatabaseInv, DatabaseTypeOK
    <2>2. o \in Object /\ Genuine(o)
      BY <1>1, WrittenStatus
    <2>3. DatabaseTypeOK' /\ WorkerInv'
      BY <1>1, <1>2, <2>1, <2>2 DEF DatabaseInv, DatabaseTypeOK, WorkerInv, IdleWorker
    <2>4. AllGenuine'
      <3> SUFFICES ASSUME NEW e \in Database PROVE (Genuine(db[e]) /\ Genuine(dbCache[e]))'
        BY DEF AllGenuine
      <3>1. db'[e] \in {db[e], o}
        BY <2>1 DEF DatabaseInv, DatabaseTypeOK
      <3>2. Genuine(db'[e]) /\ Genuine(dbCache[e])
        BY <2>2, <3>1 DEF DatabaseInv, AllGenuine
      <3> QED
        BY <1>1, <3>2 DEF Genuine, TellsItsGeneration
    <2> QED
      BY <2>3, <2>4 DEF DatabaseInv
  <1> QED
    BY <1>3, <1>4 DEF UpdateStatus, UpdateFails

LEMMA DatabaseStays == DatabaseInv /\ [DatabaseNext]_databaseVars => DatabaseInv'
  <1> SUFFICES ASSUME DatabaseInv, [DatabaseNext]_databaseVars PROVE DatabaseInv'
    OBVIOUS
  <1>1. CASE UNCHANGED databaseVars
    BY <1>1, CacheStep DEF databaseVars, DatabaseInv, DatabaseTypeOK
  <1>2. ASSUME NEW d \in Database, NEW e \in Engine, CreateDatabase(d, e) \/ EditDatabase(d, e)
        PROVE  DatabaseInv'
    BY <1>2, ConsumerStep
  <1>3. ASSUME NEW d \in Database, DeleteDatabase(d) \/ FinalizerRemoved(d) PROVE DatabaseInv'
    <2>1. db[d].life # "none" /\ Genuine(db[d])
      BY <1>3 DEF DeleteDatabase, FinalizerRemoved, DatabaseInv, AllGenuine
    <2>2. PICK e \in Engine : e = db[d].engine
      BY <2>1 DEF Genuine
    <2> QED
      BY <1>3, <2>2, ConsumerStep
  <1> QED
    BY <1>1, <1>2, <1>3, InformerStep, ReconcileStep, UpdateStep DEF DatabaseNext

(* Whatever is edited, deleted, made again, fails or restarts meanwhile, a *)
(* Ready status tells the endpoint of the spec of the generation that it   *)
(* says it describes (database_controller.go, Reconcile).                  *)
THEOREM ReadyTellsItsGeneration == DatabaseSafe => []ReadyIsOfItsGeneration
  <1>1. DatabaseInv => ReadyIsOfItsGeneration
    BY DEF DatabaseInv, AllGenuine, Genuine, TellsItsGeneration, ReadyIsOfItsGeneration
  <1> QED
    BY DatabaseInitially, DatabaseStays, <1>1, PTL DEF DatabaseSafe
-----------------------------------------------------------------------------
(* The command line: the two files, the commands and what they keep.       *)
Files == {"tokens", "context"}
Content(f) == IF f = "tokens" THEN TokenFile ELSE ContextFile

(* The values of a command's fields. *)
CommandStep == {"idle", "browser", "exchange", "failed", "timed out", "exchanged", "read", "truncate",
                "write", "credential", "review", "offering", "workspace"}
CommandKind == {"none", "login", "logout", "use", "kubeconfig", "enable"}
Fate == {"whole", "overwrites", "unlinked"}
Ages == [Token -> {"fresh", "closing", "expired"}]
SeenFiles == {Torn} \cup ((TokenFile \cup {Torn}) \X Ages)
On == {"none"} \cup Files
Taken == {"none", "fresh"}
AnyServer == Server \cup {NoServer}
AnyIssuer == Issuer \cup {NoIssuer}
AnyToken == Token \cup {NoToken}
AnySelection == Selection \cup {NoSelection}
AnyContent == TokenFile \cup ContextFile \cup {Torn}

CommandRecord ==
    [kind : CommandKind, step : CommandStep, on : On, issuer : AnyIssuer, server : AnyServer,
     token : AnyToken, taken : Taken, read : AnyContent, fate : Fate, choice : AnySelection,
     seen : SeenFiles, results : Seq(BOOLEAN), stuck : Nat, redirects : Nat]

SessionTypeOK ==
    /\ file \in [Files -> TokenFile \cup ContextFile \cup {Torn}]
    /\ \A f \in Files : file[f] \in Content(f) \cup {Torn}
    /\ meant \in [Files -> TokenFile \cup ContextFile]
    /\ \A f \in Files : meant[f] \in Content(f)
    /\ run \in [Terminal -> CommandRecord]
    /\ age \in Ages
    /\ commands \in 0 .. MaxCommands

(* What a terminal would get at an earlier moment, as anyCachedToken does. *)
CredentialIn(tokens, ages, i) ==
    LET cache == IF tokens = Torn THEN Empty("tokens") ELSE tokens
        usable(t) == t # NoToken /\ ages[t] = "fresh"
        found == {j \in Issuer : usable(cache[j])}
    IN  IF i = NoIssuer
        THEN IF \E j \in found : found = {j} THEN cache[CHOOSE j \in found : TRUE] ELSE NoToken
        ELSE IF usable(cache[i]) THEN cache[i] ELSE NoToken

(* Of the redirects that came some wait in the channel or for room in it;  *)
(* one was taken once the login has gone on.                               *)
Counted(r) ==
    /\ Len(r.results) <= 1 /\ (r.stuck > 0 => Len(r.results) = 1)
    /\ r.step \in {"browser", "timed out"} => Len(r.results) + r.stuck <= r.redirects
    /\ r.step \in {"exchange", "failed", "exchanged"} => 1 + Len(r.results) + r.stuck <= r.redirects

(* What a command knows at each of its steps.                              *)
CommandOK(r) ==
    /\ r.step \in {"read", "truncate", "write"} => r.on \in Files
    /\ r.step \in {"truncate", "write"} => r.read \in Content(r.on)
    /\ r.step # "write" => r.fate = "whole"
    /\ r.step \in {"credential", "review"} => r.server \in Server
    /\ r.step \in {"review", "offering", "workspace"} => r.token \in Token /\ r.taken = "fresh"
    /\ r.step = "review" => r.token = CredentialIn(r.seen[1], r.seen[2], r.issuer)
    /\ Counted(r)

(* A token in use was fresh within the last 30 seconds.                    *)
InTime(r) ==
    r.step \in {"review", "offering", "workspace"} => age[r.token] # "expired"

Rewrites(p, f) == run[p].on = f /\ run[p].step \in {"truncate", "write"}

(* One terminal at a time rewrites an undisturbed file, and starts from    *)
(* what the commands before it left.                                       *)
OneWriter(f) ==
    f \notin disturbed =>
        /\ \A p, q \in Terminal : Rewrites(p, f) /\ Rewrites(q, f) => p = q
        /\ \A p \in Terminal : Rewrites(p, f) => run[p].read = meant[f] /\ run[p].fate = "whole"
        /\ (\A p \in Terminal : run[p].on # f \/ run[p].step # "write") => file[f] = meant[f]

(* The inductive invariant. *)
SessionIInv ==
    /\ SessionTypeOK
    /\ \A p \in Terminal : CommandOK(run[p]) /\ InTime(run[p])
    /\ \A f \in Files : OneWriter(f)

LEMMA EmptyFacts ==
    /\ Empty("tokens") \in TokenFile /\ Empty("context") \in ContextFile
    /\ \A f \in Files : Empty(f) \in Content(f)
  BY DEF Empty, TokenFile, ContextFile, Content, Files

LEMMA CommandWords ==
    /\ "browser" \in CommandStep /\ "exchange" \in CommandStep /\ "failed" \in CommandStep
    /\ "timed out" \in CommandStep /\ "exchanged" \in CommandStep /\ "read" \in CommandStep
    /\ "truncate" \in CommandStep /\ "write" \in CommandStep /\ "credential" \in CommandStep
    /\ "review" \in CommandStep /\ "offering" \in CommandStep /\ "workspace" \in CommandStep
    /\ "idle" \in CommandStep
    /\ "none" \in CommandKind /\ "login" \in CommandKind /\ "logout" \in CommandKind
    /\ "use" \in CommandKind /\ "kubeconfig" \in CommandKind /\ "enable" \in CommandKind
    /\ "none" \in On /\ "tokens" \in On /\ "context" \in On
    /\ "tokens" \in Files /\ "context" \in Files
    /\ "none" \in Taken /\ "fresh" \in Taken
    /\ "whole" \in Fate /\ "overwrites" \in Fate /\ "unlinked" \in Fate
    /\ Server \subseteq AnyServer /\ NoServer \in AnyServer
    /\ Issuer \subseteq AnyIssuer /\ NoIssuer \in AnyIssuer
    /\ Token \subseteq AnyToken /\ NoToken \in AnyToken
    /\ NoSelection \in AnySelection /\ Torn \in SeenFiles /\ Torn \in AnyContent
    /\ TokenFile \subseteq AnyContent /\ ContextFile \subseteq AnyContent
  BY DEF CommandStep, CommandKind, On, Taken, Fate, Files, AnyServer, AnyIssuer, AnyToken,
         AnySelection, SeenFiles, AnyContent

LEMMA IdleCommand ==
    /\ Idle \in CommandRecord
    /\ Idle.step = "idle" /\ Idle.on = "none" /\ Idle.fate = "whole"
    /\ Idle.results = <<>> /\ Idle.stuck = 0 /\ Idle.redirects = 0
    /\ Idle.choice = NoSelection /\ Idle.server = NoServer
    /\ CommandOK(Idle) /\ InTime(Idle)
  <1>1. Idle \in CommandRecord
    BY DEF Idle, CommandRecord, CommandStep, Files, CommandKind, On, Taken, Fate, AnyServer, AnyIssuer,
           AnyToken, AnySelection, SeenFiles, AnyContent
  <1>2. Len(Idle.results) = 0
    BY DEF Idle
  <1> QED
    BY <1>1, <1>2 DEF Idle, CommandOK, Counted, InTime

LEMMA LoadFacts ==
    ASSUME SessionTypeOK, NEW f \in Files
    PROVE  Load(f) \in Content(f) /\ (file[f] # Torn => Load(f) = file[f])
  BY EmptyFacts DEF Load, SessionTypeOK

LEMMA CredentialFacts ==
    ASSUME SessionTypeOK, NEW i \in Issuer \cup {NoIssuer}
    PROVE  /\ Credential(i) = CredentialIn(file["tokens"], age, i)
           /\ Credential(i) # NoToken => Credential(i) \in Token /\ age[Credential(i)] = "fresh"
  <1>1. Load("tokens") = IF file["tokens"] = Torn THEN Empty("tokens") ELSE file["tokens"]
    BY DEF Load
  <1>2. Credential(i) = CredentialIn(file["tokens"], age, i)
    BY <1>1 DEF Credential, CachedToken, AnyCachedToken, Usable, CredentialIn
  <1>3. Load("tokens") \in [Issuer -> Token \cup {NoToken}]
    BY LoadFacts DEF Files, Content, TokenFile
  <1>4. CASE i = NoIssuer
    <2> DEFINE found == {j \in Issuer : Usable(Load("tokens")[j])}
    <2>1. CASE \E j \in found : found = {j}
      <3>1. PICK j \in found : found = {j}
        BY <2>1
      <3>2. (CHOOSE k \in found : TRUE) \in found
        BY <3>1
      <3>3. Credential(i) = Load("tokens")[CHOOSE k \in found : TRUE]
        BY <1>4, <2>1 DEF Credential, AnyCachedToken
      <3> QED
        BY <1>2, <1>3, <3>2, <3>3 DEF Usable
    <2>2. CASE ~\E j \in found : found = {j}
      BY <1>2, <1>4, <2>2 DEF Credential, AnyCachedToken
    <2> QED
      BY <2>1, <2>2
  <1>5. CASE i # NoIssuer
    BY <1>2, <1>3, <1>5 DEF Credential, CachedToken, Usable
  <1> QED
    BY <1>4, <1>5

LEMMA SessionStart == SessionInit => SessionIInv /\ ActsWhereSaid
  <1> SUFFICES ASSUME SessionInit PROVE SessionIInv /\ ActsWhereSaid
    OBVIOUS
  <1>1. PICK known \in SUBSET Issuer, s \in Server \cup {NoServer} :
          \E choice \in {NoSelection} \cup
            (IF s = NoServer THEN {} ELSE {Selected(s, x) : x \in UNION {Reach[s][i] : i \in Issuer}}) :
         file = [f \in {"tokens", "context"} |->
           IF f = "tokens"
           THEN [i \in Issuer |-> IF i \in known THEN [issuer |-> i, login |-> 0] ELSE NoToken]
           ELSE [server |-> s, selection |-> choice]]
    BY DEF SessionInit
  <1>2. PICK choice \in {NoSelection} \cup
            (IF s = NoServer THEN {} ELSE {Selected(s, x) : x \in UNION {Reach[s][i] : i \in Issuer}}) :
         file = [f \in {"tokens", "context"} |->
           IF f = "tokens"
           THEN [i \in Issuer |-> IF i \in known THEN [issuer |-> i, login |-> 0] ELSE NoToken]
           ELSE [server |-> s, selection |-> choice]]
    BY <1>1
  <1>3. choice \in Selection \cup {NoSelection}
    <2>1. CASE s # NoServer /\ choice # NoSelection
      <3>1. PICK x \in UNION {Reach[s][i] : i \in Issuer} : choice = Selected(s, x)
        BY <2>1
      <3>2. s \in Server /\ x \in UNION {Reach[t][i] : t \in Server, i \in Issuer}
        BY <2>1, <3>1
      <3> QED
        BY <3>1, <3>2 DEF Selection
    <2> QED
      BY <2>1
  <1>4. [i \in Issuer |-> IF i \in known THEN [issuer |-> i, login |-> 0] ELSE NoToken] \in TokenFile
    BY SessionAssumption DEF TokenFile, Token
  <1>5. [server |-> s, selection |-> choice] \in ContextFile
    BY <1>3 DEF ContextFile
  <1>6. /\ file \in [Files -> TokenFile \cup ContextFile]
        /\ \A f \in Files : file[f] \in Content(f)
        /\ meant = file
    BY <1>2, <1>4, <1>5 DEF Files, Content, SessionInit
  <1>7. SessionTypeOK
    <2>1. /\ run \in [Terminal -> CommandRecord] /\ age \in Ages
          /\ commands \in 0 .. MaxCommands
      BY IdleCommand, SessionAssumption DEF SessionInit, Ages
    <2> QED
      BY <1>6, <2>1 DEF SessionTypeOK
  <1>8. \A p \in Terminal : run[p] = Idle
    BY DEF SessionInit
  <1>9. \A p \in Terminal : CommandOK(run[p]) /\ InTime(run[p])
    BY <1>8, IdleCommand
  <1>10. \A f \in Files : OneWriter(f)
    BY <1>6, <1>8, IdleCommand DEF OneWriter, Rewrites
  <1>11. ActsWhereSaid
    BY DEF SessionInit, ActsWhereSaid
  <1> QED
    BY <1>7, <1>9, <1>10, <1>11 DEF SessionIInv

(* A step of one terminal that writes no file, and begins to write none.   *)
LEMMA QuietStep ==
    ASSUME SessionIInv, NEW p \in Terminal, NEW r \in CommandRecord,
           run' = [run EXCEPT ![p] = r], UNCHANGED <<file, meant, age>>,
           commands' \in 0 .. MaxCommands,
           r.step \notin {"truncate", "write"}, CommandOK(r), InTime(r),
           disturbed \subseteq disturbed',
           run[p].step = "write" => run[p].on \in disturbed'
    PROVE  SessionIInv'
  <1>1. /\ run' \in [Terminal -> CommandRecord] /\ run'[p] = r
        /\ \A q \in Terminal : q # p => run'[q] = run[q]
    BY DEF SessionIInv, SessionTypeOK
  <1>2. SessionTypeOK'
    BY <1>1 DEF SessionIInv, SessionTypeOK
  <1>3. ASSUME NEW q \in Terminal PROVE (CommandOK(run[q]) /\ InTime(run[q]))'
    <2>1. CASE q = p
      BY <1>1, <2>1 DEF CommandOK, Counted, InTime
    <2>2. CASE q # p
      BY <1>1, <2>2 DEF SessionIInv, CommandOK, Counted, InTime
    <2> QED
      BY <2>1, <2>2
  <1>4. ASSUME NEW f \in Files PROVE OneWriter(f)'
    <2> SUFFICES ASSUME f \notin disturbed' PROVE OneWriter(f)'
      BY DEF OneWriter
    <2>1. OneWriter(f) /\ f \notin disturbed
      BY DEF SessionIInv
    <2>2. \A q \in Terminal : Rewrites(q, f)' => Rewrites(q, f) /\ run'[q] = run[q]
      BY <1>1 DEF Rewrites
    <2>3. ASSUME NEW q \in Terminal, run[q].on = f, run[q].step = "write"
          PROVE  run'[q] = run[q]
      BY <1>1, <2>3
    <2> QED
      BY <2>1, <2>2, <2>3 DEF OneWriter
  <1> QED
    BY <1>2, <1>3, <1>4 DEF SessionIInv

-----------------------------------------------------------------------------
(* Commands. *)
LEMMA StartStep ==
    ASSUME SessionIInv, NEW p \in Terminal, NEW r \in CommandRecord, Start(p, r),
           r.step \notin {"truncate", "write"}, CommandOK(r), InTime(r)
    PROVE  SessionIInv'
  <1>1. commands' \in 0 .. MaxCommands
    BY SessionAssumption DEF Start, SessionIInv, SessionTypeOK
  <1>2. run[p].step # "write"
    BY IdleCommand DEF Start
  <1> QED
    BY <1>1, <1>2, QuietStep DEF Start, Set

LEMMA NewLogin ==
    ASSUME SessionIInv, NEW p \in Terminal, NEW i \in Issuer, NEW s \in AnyServer,
           Login(p, i, s) \/ PasswordLogin(p, i, s)
    PROVE  SessionIInv'
  <1> DEFINE t == [issuer |-> i, login |-> commands']
             browser == [Idle EXCEPT !.kind = "login", !.step = "browser", !.issuer = i, !.server = s, !.token = t]
             reader == [Idle EXCEPT !.kind = "login", !.step = "read", !.on = "tokens",
                                    !.issuer = i, !.server = s, !.token = t]
  <1>1. t \in Token
    BY SessionAssumption DEF Login, PasswordLogin, Start, SessionIInv, SessionTypeOK, Token
  <1> HIDE DEF t
  <1>2. browser \in CommandRecord /\ reader \in CommandRecord
    <2>1. browser \in CommandRecord
      BY <1>1, CommandWords, IdleCommand DEF CommandRecord
    <2>2. reader \in CommandRecord
      BY <1>1, CommandWords, IdleCommand DEF CommandRecord
    <2> QED
      BY <2>1, <2>2
  <1>3. /\ browser.step = "browser" /\ browser.fate = "whole" /\ browser.results = <<>>
        /\ browser.stuck = 0 /\ browser.redirects = 0
    BY <1>1, IdleCommand DEF CommandRecord
  <1>4. /\ reader.step = "read" /\ reader.on = "tokens" /\ reader.fate = "whole"
        /\ reader.results = <<>> /\ reader.stuck = 0
    BY <1>1, IdleCommand DEF CommandRecord
  <1> HIDE DEF browser, reader
  <1>5. /\ CommandOK(browser) /\ InTime(browser)
        /\ CommandOK(reader) /\ InTime(reader)
    BY <1>3, <1>4 DEF CommandOK, Counted, InTime, Files
  <1>6. CASE Login(p, i, s)
    <2>1. Start(p, browser)
      BY <1>6 DEF Login, browser, t
    <2> QED
      BY <1>2, <1>3, <1>5, <2>1, StartStep
  <1>7. CASE PasswordLogin(p, i, s)
    <2>1. Start(p, reader)
      BY <1>7 DEF PasswordLogin, reader, t
    <2> QED
      BY <1>2, <1>4, <1>5, <2>1, StartStep
  <1> QED
    BY <1>6, <1>7

LEMMA NewCommand ==
    ASSUME SessionIInv, NEW p \in Terminal, NEW i \in AnyIssuer,
           \/ Logout(p, i)
           \/ Use(p, i) \/ Kubeconfig(p, i)
           \/ ClearSelection(p)
           \/ MarketplaceDefaults(p)
    PROVE  SessionIInv'
  <1> DEFINE s == Load("context").server
             c == AnyCachedToken
             logout == [Idle EXCEPT !.kind = "logout", !.step = "read", !.on = "tokens", !.issuer = i]
             use == [Idle EXCEPT !.kind = "use", !.step = "credential", !.on = "context",
                                 !.issuer = i, !.server = s]
             clear == [Idle EXCEPT !.kind = "use", !.step = "read", !.on = "context"]
             kubeconfig == [Idle EXCEPT !.kind = "kubeconfig", !.step = "credential", !.issuer = i,
                                        !.server = s]
             enable == [Idle EXCEPT !.kind = "enable", !.step = "offering", !.taken = "fresh",
                                    !.server = s, !.token = c]
  <1>1. s \in AnyServer /\ (s # NoServer => s \in Server)
    <2>1. Load("context") \in ContextFile
      BY LoadFacts DEF SessionIInv, Files, Content
    <2> QED
      BY <2>1 DEF ContextFile, AnyServer
  <1>2. c \in AnyToken /\ (c # NoToken => c \in Token /\ age[c] = "fresh")
    <2>1. c = Credential(NoIssuer)
      BY DEF Credential
    <2> QED
      BY <2>1, CredentialFacts DEF SessionIInv, AnyToken
  <1> HIDE DEF s, c
  <1>3. CASE Logout(p, i)
    <2>1. logout \in CommandRecord /\ logout.step = "read" /\ logout.on = "tokens"
          /\ logout.fate = "whole" /\ logout.results = <<>> /\ logout.stuck = 0
      BY CommandWords, IdleCommand DEF CommandRecord
    <2> HIDE DEF logout
    <2>2. CommandOK(logout) /\ InTime(logout)
      BY <2>1 DEF CommandOK, Counted, InTime, Files
    <2>3. Start(p, logout)
      BY <1>3 DEF Logout, logout
    <2> QED
      BY <2>1, <2>2, <2>3, StartStep
  <1>4. CASE Use(p, i)
    <2>1. use \in CommandRecord /\ use.step = "credential" /\ use.server = s
          /\ use.fate = "whole" /\ use.results = <<>> /\ use.stuck = 0
      BY <1>1, CommandWords, IdleCommand DEF CommandRecord
    <2> HIDE DEF use
    <2>2. CommandOK(use) /\ InTime(use)
      BY <1>1, <1>4, <2>1 DEF CommandOK, Counted, InTime, Use, s
    <2>3. Start(p, use)
      BY <1>4 DEF Use, use, s
    <2> QED
      BY <2>1, <2>2, <2>3, StartStep
  <1>5. CASE Kubeconfig(p, i)
    <2>1. kubeconfig \in CommandRecord /\ kubeconfig.step = "credential" /\ kubeconfig.server = s
          /\ kubeconfig.fate = "whole" /\ kubeconfig.results = <<>> /\ kubeconfig.stuck = 0
      BY <1>1, CommandWords, IdleCommand DEF CommandRecord
    <2> HIDE DEF kubeconfig
    <2>2. CommandOK(kubeconfig) /\ InTime(kubeconfig)
      BY <1>1, <1>5, <2>1 DEF CommandOK, Counted, InTime, Kubeconfig, s
    <2>3. Start(p, kubeconfig)
      BY <1>5 DEF Kubeconfig, kubeconfig, s
    <2> QED
      BY <2>1, <2>2, <2>3, StartStep
  <1>6. CASE ClearSelection(p)
    <2>1. clear \in CommandRecord /\ clear.step = "read" /\ clear.on = "context"
          /\ clear.fate = "whole" /\ clear.results = <<>> /\ clear.stuck = 0
      BY CommandWords, IdleCommand DEF CommandRecord
    <2> HIDE DEF clear
    <2>2. CommandOK(clear) /\ InTime(clear)
      BY <2>1 DEF CommandOK, Counted, InTime, Files
    <2>3. Start(p, clear)
      BY <1>6 DEF ClearSelection, clear
    <2> QED
      BY <2>1, <2>2, <2>3, StartStep
  <1>7. CASE MarketplaceDefaults(p)
    <2>1. enable \in CommandRecord /\ enable.step = "offering" /\ enable.token = c
          /\ enable.taken = "fresh"
          /\ enable.fate = "whole" /\ enable.results = <<>> /\ enable.stuck = 0
      BY <1>1, <1>2, CommandWords, IdleCommand DEF CommandRecord
    <2> HIDE DEF enable
    <2>2. c # NoToken
      BY <1>7 DEF MarketplaceDefaults, c
    <2>3. CommandOK(enable) /\ InTime(enable)
      BY <1>2, <2>1, <2>2 DEF CommandOK, Counted, InTime
    <2>4. Start(p, enable)
      BY <1>7 DEF MarketplaceDefaults, enable, s, c
    <2> QED
      BY <2>1, <2>3, <2>4, StartStep
  <1> QED
    BY <1>3, <1>4, <1>5, <1>6, <1>7

-----------------------------------------------------------------------------
(* The browser. *)
LEMMA BrowserSteps ==
    ASSUME SessionIInv, NEW p \in Terminal,
           \/ \E ok \in BOOLEAN : Redirect(p, ok)
           \/ Browser(p)
    PROVE  SessionIInv'
  <1> DEFINE r == run[p]
  <1>1. r \in CommandRecord /\ CommandOK(r) /\ commands \in 0 .. MaxCommands
    BY DEF SessionIInv, SessionTypeOK
  <1>2. /\ r.results \in Seq(BOOLEAN) /\ r.stuck \in Nat /\ r.redirects \in Nat
        /\ r.server \in AnyServer /\ r.issuer \in AnyIssuer /\ r.token \in AnyToken
    BY <1>1 DEF CommandRecord
  <1> HIDE DEF r
  <1>10. Counted(r)
    BY <1>1 DEF CommandOK
  <1>11. Len(r.results) \in Nat /\ (Len(r.results) = 0 <=> r.results = <<>>)
    BY <1>2, EmptySeq
  <1>12. PICK l \in Nat, k \in Nat, m \in Nat : l = Len(r.results) /\ k = r.stuck /\ m = r.redirects
    BY <1>2, <1>11
  <1>13. l <= 1 /\ (k > 0 => l = 1)
    BY <1>2, <1>10, <1>11, <1>12 DEF Counted
  <1>15. l \in {0, 1} /\ (k = 0 \/ l = 1)
    BY <1>13
  <1>16. r.step \in {"browser", "timed out"} => l + k <= m
    BY <1>2, <1>10, <1>11, <1>12 DEF Counted
  <1>17. r.step \in {"exchange", "failed", "exchanged"} => 1 + l + k <= m
    BY <1>2, <1>10, <1>11, <1>12 DEF Counted
  <1>3. ASSUME NEW n \in CommandRecord, run' = [run EXCEPT ![p] = n],
               UNCHANGED <<file, meant, age, commands, disturbed>>,
               r.step # "write", n.step \in {"browser", "exchange", "failed", "timed out", "exchanged", "idle"},
               n.fate = r.fate, Counted(n)
        PROVE  SessionIInv'
    <2>1. CommandOK(n) /\ InTime(n)
      BY <1>1, <1>3 DEF CommandOK, InTime
    <2> QED
      BY <1>1, <1>3, <2>1, QuietStep DEF r
  <1>14. ASSUME NEW n, NEW j \in Nat, NEW i \in Nat, NEW o \in Nat,
                Len(n.results) = j, n.stuck = i, n.redirects = o,
                j <= 1, i > 0 => j = 1,
                n.step \in {"browser", "timed out"} => j + i <= o,
                n.step \in {"exchange", "failed", "exchanged"} => 1 + j + i <= o
         PROVE  Counted(n)
    BY <1>14 DEF Counted
  <1>4. ASSUME NEW ok \in BOOLEAN, Redirect(p, ok) PROVE SessionIInv'
    <2> DEFINE awaits == r.step = "browser" /\ r.results = <<>>
               more == IF awaits \/ Len(r.results) < Room THEN Append(r.results, ok) ELSE r.results
               stuck == IF awaits \/ Len(r.results) < Room THEN r.stuck ELSE r.stuck + 1
               n == [r EXCEPT !.redirects = r.redirects + 1, !.results = more, !.stuck = stuck]
    <2>1. more \in Seq(BOOLEAN) /\ Len(more) = 1 /\ stuck = (IF l = 0 THEN k ELSE k + 1)
      <3>1. CASE l = 0
        BY <1>2, <1>11, <1>12, <3>1 DEF Room
      <3>2. CASE l = 1
        <4>1. ~(r.step = "browser" /\ r.results = <<>>) /\ ~(Len(r.results) < Room)
          BY <1>11, <1>12, <3>2 DEF Room
        <4>2. more = r.results /\ stuck = r.stuck + 1
          BY <4>1
        <4> HIDE DEF more, stuck
        <4>3. stuck = k + 1
          BY <1>12, <4>2
        <4>4. Len(more) = 1
          BY <1>12, <3>2, <4>2
        <4> QED
          BY <1>2, <3>2, <4>2, <4>3, <4>4
      <3> QED
        BY <1>15, <3>1, <3>2
    <2>2. r.step \in {"browser", "exchange"} /\ run' = [run EXCEPT ![p] = n]
          /\ UNCHANGED <<file, meant, age, commands, disturbed>>
      BY <1>4 DEF Redirect, Set, r
    <2> HIDE DEF more, stuck
    <2>3. stuck \in Nat /\ r.redirects + 1 \in Nat
      BY <1>12, <2>1
    <2>4. /\ n \in CommandRecord /\ n.step = r.step /\ n.fate = r.fate /\ n.results = more
          /\ n.stuck = stuck /\ n.redirects = r.redirects + 1
      BY <1>1, <2>1, <2>3 DEF CommandRecord
    <2> HIDE DEF n
    <2>5. PICK i \in Nat, o \in Nat : i = stuck /\ o = m + 1
      BY <2>3
    <2>6. /\ n.step \in {"browser", "timed out"} => 1 + i <= o
          /\ n.step \in {"exchange", "failed", "exchanged"} => 1 + 1 + i <= o
      <3>1. i = IF l = 0 THEN k ELSE k + 1
        BY <2>1, <2>5
      <3>2. i = 0 \/ l = 1
        BY <1>15, <3>1
      <3>3. ASSUME l + k <= m PROVE 1 + i <= o
        BY <1>15, <2>5, <3>1, <3>3
      <3>4. ASSUME 1 + l + k <= m PROVE 1 + 1 + i <= o
        BY <1>15, <2>5, <3>1, <3>4
      <3> QED
        BY <1>16, <1>17, <2>2, <2>4, <3>3, <3>4
    <2>7. Counted(n)
      <3>1. Len(n.results) = 1 /\ n.stuck = i /\ n.redirects = o
        BY <1>12, <2>1, <2>4, <2>5
      <3>2. Len(n.results) <= 1 /\ (n.stuck > 0 => Len(n.results) = 1)
        BY <3>1
      <3>3. n.step \in {"browser", "timed out"} => Len(n.results) + n.stuck <= n.redirects
        BY <2>6, <3>1
      <3>4. n.step \in {"exchange", "failed", "exchanged"} => 1 + Len(n.results) + n.stuck <= n.redirects
        BY <2>6, <3>1
      <3> QED
        BY <3>2, <3>3, <3>4 DEF Counted
    <2> QED
      BY <1>3, <2>2, <2>4, <2>7
  <1>5. CASE BrowserLogin(p)
    <2> DEFINE next == IF Head(r.results) THEN "exchange" ELSE "failed"
               more == IF r.stuck > 0 THEN Append(Tail(r.results), FALSE) ELSE Tail(r.results)
               stuck == IF r.stuck > 0 THEN r.stuck - 1 ELSE 0
               n == [r EXCEPT !.step = next, !.results = more, !.stuck = stuck]
    <2>1. r.step = "browser" /\ r.results # <<>> /\ run' = [run EXCEPT ![p] = n]
          /\ UNCHANGED <<file, meant, age, commands, disturbed>>
      BY <1>5 DEF BrowserLogin, Set, r
    <2>2. l = 1
      BY <1>11, <1>12, <1>15, <2>1
    <2>3. Tail(r.results) \in Seq(BOOLEAN) /\ Len(Tail(r.results)) = 0
      <3>1. Tail(r.results) \in Seq(BOOLEAN) /\ Len(Tail(r.results)) = Len(r.results) - 1
        BY <1>2, <2>1, HeadTailProperties
      <3> QED
        BY <1>12, <2>2, <3>1
    <2>4. /\ Append(Tail(r.results), FALSE) \in Seq(BOOLEAN)
          /\ Len(Append(Tail(r.results), FALSE)) = 1
      BY <2>3
    <2>5. /\ more \in Seq(BOOLEAN) /\ Len(more) = (IF k > 0 THEN 1 ELSE 0)
          /\ stuck = (IF k > 0 THEN k - 1 ELSE 0)
      BY <1>12, <2>3, <2>4
    <2>6. next \in CommandStep /\ next \in {"exchange", "failed"}
      BY CommandWords
    <2> HIDE DEF more, stuck, next
    <2>7. PICK j \in Nat, i \in Nat : j = Len(more) /\ i = stuck
      <3>1. Len(more) \in Nat
        BY <2>5
      <3>2. stuck \in Nat
        BY <1>12, <2>5
      <3> QED
        BY <3>1, <3>2
    <2>8. /\ n \in CommandRecord /\ n.step = next /\ n.fate = r.fate /\ n.results = more
          /\ n.stuck = stuck /\ n.redirects = r.redirects
      BY <1>1, <2>5, <2>6, <2>7 DEF CommandRecord
    <2> HIDE DEF n
    <2>9. j <= 1 /\ (i > 0 => j = 1) /\ 1 + j + i <= m
      <3>1. l + k <= m
        BY <1>16, <2>1
      <3> QED
        BY <1>15, <2>2, <2>5, <2>7, <3>1
    <2>10. Counted(n)
      BY <1>12, <1>14, <2>6, <2>7, <2>8, <2>9
    <2> QED
      BY <1>3, <2>1, <2>6, <2>8, <2>10
  <1>6. ASSUME NEW step \in {"timed out", "failed", "exchanged"}, Go(p, step),
               r.step = IF step = "timed out" THEN "browser" ELSE "exchange",
               UNCHANGED <<file, meant, age, commands, disturbed>>
        PROVE  SessionIInv'
    <2> DEFINE n == [r EXCEPT !.step = step]
    <2>1. step \in CommandStep
      BY CommandWords
    <2>2. /\ n \in CommandRecord /\ n.step = step /\ n.fate = r.fate /\ n.results = r.results
          /\ n.stuck = r.stuck /\ n.redirects = r.redirects
      BY <1>1, <2>1 DEF CommandRecord
    <2>3. run' = [run EXCEPT ![p] = n]
      BY <1>6 DEF Go, Set, r
    <2> HIDE DEF n
    <2>4. Counted(n)
      BY <1>1, <1>6, <2>2 DEF CommandOK, Counted
    <2> QED
      BY <1>3, <1>6, <2>2, <2>3, <2>4
  <1>7. CASE TimedOut(p)
    BY <1>6, <1>7 DEF TimedOut, r
  <1>8. CASE Exchange(p)
    BY <1>6, <1>8 DEF Exchange, r
  <1>9. CASE Shutdown(p)
    <2> DEFINE n == [Idle EXCEPT !.kind = "login", !.step = "read", !.on = "tokens",
                                 !.issuer = r.issuer, !.server = r.server, !.token = r.token]
    <2>1. /\ n \in CommandRecord /\ n.step = "read" /\ n.on = "tokens" /\ n.fate = "whole"
          /\ n.results = <<>> /\ n.stuck = 0
      BY <1>2, CommandWords, IdleCommand DEF CommandRecord
    <2>2. /\ \/ run' = run \/ run' = [run EXCEPT ![p] = Idle] \/ run' = [run EXCEPT ![p] = n]
          /\ r.step \in {"failed", "timed out", "exchanged"}
          /\ UNCHANGED <<file, meant, age, commands, disturbed>>
      BY <1>9 DEF Shutdown, Set, r
    <2> HIDE DEF n
    <2>3. CommandOK(n) /\ InTime(n)
      BY <2>1 DEF CommandOK, Counted, InTime, Files
    <2>4. CASE run' = run
      <3>1. run' = [run EXCEPT ![p] = r] /\ r.step \notin {"truncate", "write"} /\ InTime(r)
        BY <2>2, <2>4 DEF r, SessionIInv, SessionTypeOK, InTime
      <3> QED
        BY <1>1, <2>2, <3>1, QuietStep DEF r
    <2>5. CASE run' = [run EXCEPT ![p] = Idle]
      BY <1>1, <2>2, <2>5, IdleCommand, QuietStep DEF r
    <2>6. CASE run' = [run EXCEPT ![p] = n]
      BY <1>1, <2>1, <2>2, <2>3, <2>6, QuietStep DEF r
    <2> QED
      BY <2>2, <2>4, <2>5, <2>6
  <1> QED
    BY <1>4, <1>5, <1>7, <1>8, <1>9 DEF Browser

-----------------------------------------------------------------------------
(* Requests. *)
LEMMA QuitStep ==
    ASSUME SessionIInv, NEW p \in Terminal, Quit(p), UNCHANGED <<file, meant, age, commands>>,
           disturbed \subseteq disturbed', run[p].step = "write" => run[p].on \in disturbed'
    PROVE  SessionIInv'
  BY IdleCommand, QuietStep DEF Quit, Set, SessionIInv, SessionTypeOK

LEMMA RequestSteps ==
    ASSUME SessionIInv, NEW p \in Terminal,
           \/ RestConfig(p) \/ Choose(p) \/ WriteKubeconfig(p) \/ GetOffering(p) \/ CurrentWorkspace(p)
           \/ Interrupt(p)
    PROVE  SessionIInv'
  <1> DEFINE r == run[p]
  <1>1. r \in CommandRecord /\ CommandOK(r) /\ commands \in 0 .. MaxCommands /\ InTime(r)
    BY DEF SessionIInv, SessionTypeOK
  <1>2. /\ r.server \in AnyServer /\ r.issuer \in AnyIssuer /\ r.token \in AnyToken
    BY <1>1 DEF CommandRecord
  <1> HIDE DEF r
  <1>3. CASE RestConfig(p)
    <2> DEFINE t == Credential(r.issuer)
               f == <<file["tokens"], age>>
               n == [r EXCEPT !.step = "review", !.token = t, !.taken = age[t], !.seen = f]
    <2>1. /\ r.step = "credential" /\ UNCHANGED <<file, meant, age, commands, disturbed>>
          /\ IF t = NoToken THEN Quit(p) ELSE run' = [run EXCEPT ![p] = n]
      BY <1>3 DEF RestConfig, Set, r
    <2>2. CASE t = NoToken
      BY <2>1, <2>2, QuitStep DEF r
    <2>3. CASE t # NoToken
      <3>1. t = CredentialIn(file["tokens"], age, r.issuer) /\ t \in Token /\ age[t] = "fresh"
        BY <1>2, <2>3, CredentialFacts DEF SessionIInv, AnyIssuer
      <3>2. file["tokens"] \in TokenFile \cup {Torn} /\ age \in Ages
        BY DEF SessionIInv, SessionTypeOK, Files, Content
      <3>3. f \in SeenFiles /\ f[1] = file["tokens"] /\ f[2] = age
        BY <3>2 DEF SeenFiles
      <3> HIDE DEF t, f
      <3>4. /\ n \in CommandRecord /\ n.step = "review" /\ n.token = t /\ n.taken = "fresh" /\ n.seen = f
            /\ n.server = r.server /\ n.issuer = r.issuer /\ n.fate = r.fate
            /\ n.results = r.results /\ n.stuck = r.stuck
        BY <1>1, <3>1, <3>3, CommandWords DEF CommandRecord
      <3> HIDE DEF n
      <3>5. CommandOK(n) /\ InTime(n)
        BY <1>1, <2>1, <3>1, <3>3, <3>4 DEF CommandOK, Counted, InTime
      <3> QED
        BY <1>1, <2>1, <2>3, <3>4, <3>5, QuietStep DEF r
    <2> QED
      BY <2>2, <2>3
  <1>4. CASE Choose(p)
    <2>1. r.step = "review" /\ UNCHANGED <<file, meant, age, commands, disturbed>>
      BY <1>4 DEF Choose, r
    <2>2. CASE Quit(p)
      BY <2>1, <2>2, QuitStep DEF r
    <2>3. ASSUME NEW place \in Answer(r),
                 Set(p, [Idle EXCEPT !.kind = "use", !.step = "read", !.on = "context",
                                     !.choice = Selected(r.server, place)])
          PROVE  SessionIInv'
      <3> DEFINE n == [Idle EXCEPT !.kind = "use", !.step = "read", !.on = "context",
                                   !.choice = Selected(r.server, place)]
      <3>1. r.server \in Server /\ r.token.issuer \in Issuer
        BY <1>1, <2>1 DEF CommandOK, Token
      <3>2. Selected(r.server, place) \in AnySelection
        <4>1. place \in UNION {Reach[s][i] : s \in Server, i \in Issuer}
          BY <3>1 DEF Answer
        <4> QED
          BY <3>1, <4>1 DEF Selection, AnySelection
      <3>3. /\ n \in CommandRecord /\ n.step = "read" /\ n.on = "context" /\ n.fate = "whole"
            /\ n.results = <<>> /\ n.stuck = 0
        BY <3>2, CommandWords, IdleCommand DEF CommandRecord
      <3>4. run' = [run EXCEPT ![p] = n]
        BY <2>3 DEF Set
      <3> HIDE DEF n
      <3>5. CommandOK(n) /\ InTime(n)
        BY <3>3 DEF CommandOK, Counted, InTime, Files
      <3> QED
        BY <1>1, <2>1, <3>3, <3>4, <3>5, QuietStep DEF r
    <2> QED
      BY <1>4, <2>2, <2>3 DEF Choose, r
  <1>5. CASE WriteKubeconfig(p)
    BY <1>5, QuitStep DEF WriteKubeconfig
  <1>6. CASE GetOffering(p)
    <2> DEFINE n == [r EXCEPT !.step = "workspace"]
    <2>1. r.step = "offering" /\ UNCHANGED <<file, meant, age, commands, disturbed>>
      BY <1>6 DEF GetOffering, r
    <2>2. CASE Quit(p)
      BY <2>1, <2>2, QuitStep DEF r
    <2>3. CASE Go(p, "workspace")
      <3>1. /\ n \in CommandRecord /\ n.step = "workspace" /\ n.token = r.token /\ n.taken = r.taken
            /\ n.fate = r.fate /\ n.results = r.results /\ n.stuck = r.stuck
        BY <1>1, CommandWords DEF CommandRecord
      <3>2. run' = [run EXCEPT ![p] = n]
        BY <2>3 DEF Go, Set, r
      <3> HIDE DEF n
      <3>3. CommandOK(n) /\ InTime(n)
        BY <1>1, <2>1, <3>1 DEF CommandOK, Counted, InTime
      <3> QED
        BY <1>1, <2>1, <3>1, <3>2, <3>3, QuietStep DEF r
    <2> QED
      BY <1>6, <2>2, <2>3 DEF GetOffering
  <1>7. CASE CurrentWorkspace(p)
    BY <1>7, QuitStep DEF CurrentWorkspace
  <1>8. CASE Interrupt(p)
    BY <1>8, QuitStep DEF Interrupt
  <1> QED
    BY <1>3, <1>4, <1>5, <1>6, <1>7, <1>8

-----------------------------------------------------------------------------
(* Files. *)
(* What a command writes is a whole file.                                  *)
LEMMA MutateFacts ==
    ASSUME NEW r \in CommandRecord, r.on \in Files, NEW content \in Content(r.on)
    PROVE  Mutate(r, content) \in Content(r.on)
  <1>1. /\ r.server \in AnyServer /\ r.token \in AnyToken /\ r.choice \in AnySelection
    BY DEF CommandRecord
  <1>2. CASE r.on = "tokens"
    <2>1. content \in [Issuer -> AnyToken]
      BY <1>2 DEF Content, TokenFile, AnyToken
    <2>2. StoreToken(r, content) \in [Issuer -> AnyToken]
      BY <1>1, <2>1, CommandWords DEF StoreToken
    <2>3. Mutate(r, content) = StoreToken(r, content)
      BY <1>2 DEF Mutate
    <2> QED
      BY <1>2, <2>2, <2>3 DEF Content, TokenFile, AnyToken
  <1>3. CASE r.on = "context"
    <2>1. content \in [server : AnyServer, selection : AnySelection]
      BY <1>3 DEF Content, ContextFile, AnyServer, AnySelection
    <2>2. /\ StoreServer(r, content) \in [server : AnyServer, selection : AnySelection]
          /\ WriteSelection(r, content) \in [server : AnyServer, selection : AnySelection]
      BY <1>1, <2>1 DEF StoreServer, WriteSelection
    <2>3. Mutate(r, content) \in [server : AnyServer, selection : AnySelection]
      BY <1>3, <2>2 DEF Mutate
    <2> QED
      BY <1>3, <2>3 DEF Content, ContextFile, AnyServer, AnySelection
  <1> QED
    BY <1>2, <1>3 DEF Files

LEMMA ReadStep == ASSUME SessionIInv, NEW p \in Terminal, ReadFile(p) PROVE SessionIInv'
  <1> DEFINE r == run[p]
             n == [r EXCEPT !.step = "truncate", !.read = Load(r.on)]
  <1>1. r \in CommandRecord /\ CommandOK(r)
    BY DEF SessionIInv, SessionTypeOK
  <1>2. /\ r.step = "read" /\ run' = [run EXCEPT ![p] = n]
        /\ UNCHANGED <<file, meant, age, commands>>
        /\ disturbed' = IF \E q \in Terminal : Rewrites(q, r.on) THEN disturbed \cup {r.on} ELSE disturbed
    BY DEF ReadFile, Set, Rewrites
  <1>3. r.on \in Files
    BY <1>1, <1>2 DEF CommandOK
  <1>4. Load(r.on) \in Content(r.on) /\ Load(r.on) \in AnyContent
        /\ (file[r.on] # Torn => Load(r.on) = file[r.on])
    BY <1>3, LoadFacts, CommandWords DEF SessionIInv, Content
  <1>5. /\ n \in CommandRecord /\ n.step = "truncate" /\ n.on = r.on /\ n.read = Load(r.on)
        /\ n.fate = r.fate /\ n.results = r.results /\ n.stuck = r.stuck
    BY <1>1, <1>4, CommandWords DEF CommandRecord
  <1> HIDE DEF n
  <1>6. /\ run' \in [Terminal -> CommandRecord] /\ run'[p] = n
        /\ \A q \in Terminal : q # p => run'[q] = run[q]
    BY <1>2, <1>5 DEF SessionIInv, SessionTypeOK
  <1>7. SessionTypeOK'
    BY <1>2, <1>6 DEF SessionIInv, SessionTypeOK
  <1>8. ASSUME NEW q \in Terminal PROVE (CommandOK(run[q]) /\ InTime(run[q]))'
    <2>1. CASE q = p
      BY <1>1, <1>2, <1>3, <1>4, <1>5, <1>6, <2>1 DEF CommandOK, Counted, InTime
    <2>2. CASE q # p
      BY <1>2, <1>6, <2>2 DEF SessionIInv, CommandOK, Counted, InTime
    <2> QED
      BY <2>1, <2>2
  <1>9. ASSUME NEW f \in Files PROVE OneWriter(f)'
    <2> SUFFICES ASSUME f \notin disturbed' PROVE OneWriter(f)'
      BY DEF OneWriter
    <2>1. OneWriter(f) /\ f \notin disturbed
      BY <1>2 DEF SessionIInv
    <2>2. CASE f # r.on
      <3>1. \A q \in Terminal : Rewrites(q, f)' => Rewrites(q, f) /\ run'[q] = run[q]
        BY <1>5, <1>6, <2>2 DEF Rewrites
      <3> QED
        BY <1>2, <1>5, <1>6, <2>1, <2>2, <3>1 DEF OneWriter
    <2>3. CASE f = r.on
      <3>1. \A q \in Terminal : ~Rewrites(q, f)
        BY <1>2, <2>3
      <3>2. file[f] = meant[f]
        BY <2>1, <3>1 DEF OneWriter, Rewrites
      <3>3. Load(f) = meant[f]
        BY <1>3, <1>4, <2>3, <3>2, SessionAssumption DEF SessionIInv, SessionTypeOK, Content
      <3>4. \A q \in Terminal : Rewrites(q, f)' => q = p
        BY <1>6, <3>1 DEF Rewrites
      <3>5. n.fate = "whole"
        BY <1>1, <1>2, <1>5 DEF CommandOK
      <3> QED
        BY <1>2, <1>5, <1>6, <2>3, <3>2, <3>3, <3>4, <3>5 DEF OneWriter
    <2> QED
      BY <2>2, <2>3
  <1> QED
    BY <1>7, <1>8, <1>9 DEF SessionIInv

LEMMA TruncateStep == ASSUME SessionIInv, NEW p \in Terminal, Truncate(p) PROVE SessionIInv'
  <1> DEFINE r == run[p]
             n == [r EXCEPT !.step = "write"]
  <1>1. r \in CommandRecord /\ CommandOK(r)
    BY DEF SessionIInv, SessionTypeOK
  <1>2. /\ r.step = "truncate" /\ run' = [run EXCEPT ![p] = n]
        /\ UNCHANGED <<meant, age, commands, disturbed>>
        /\ file' = [file EXCEPT ![r.on] = Torn]
    BY DEF Truncate, Go, Set
  <1>3. r.on \in Files /\ r.read \in Content(r.on)
    BY <1>1, <1>2 DEF CommandOK
  <1>4. /\ n \in CommandRecord /\ n.step = "write" /\ n.on = r.on /\ n.read = r.read
        /\ n.fate = r.fate /\ n.results = r.results /\ n.stuck = r.stuck
    BY <1>1, CommandWords DEF CommandRecord
  <1> HIDE DEF n
  <1>5. /\ run' \in [Terminal -> CommandRecord] /\ run'[p] = n
        /\ \A q \in Terminal : q # p => run'[q] = run[q]
    BY <1>2, <1>4 DEF SessionIInv, SessionTypeOK
  <1>6. /\ file' \in [Files -> TokenFile \cup ContextFile \cup {Torn}] /\ file'[r.on] = Torn
        /\ \A f \in Files : f # r.on => file'[f] = file[f]
    BY <1>2, <1>3 DEF SessionIInv, SessionTypeOK
  <1>7. SessionTypeOK'
    BY <1>2, <1>5, <1>6 DEF SessionIInv, SessionTypeOK
  <1>8. ASSUME NEW q \in Terminal PROVE (CommandOK(run[q]) /\ InTime(run[q]))'
    <2>1. CASE q = p
      BY <1>1, <1>2, <1>3, <1>4, <1>5, <2>1 DEF CommandOK, Counted, InTime
    <2>2. CASE q # p
      BY <1>2, <1>5, <2>2 DEF SessionIInv, CommandOK, Counted, InTime
    <2> QED
      BY <2>1, <2>2
  <1>9. ASSUME NEW f \in Files PROVE OneWriter(f)'
    <2> SUFFICES ASSUME f \notin disturbed' PROVE OneWriter(f)'
      BY DEF OneWriter
    <2>1. OneWriter(f) /\ f \notin disturbed
      BY <1>2 DEF SessionIInv
    <2>2. \A q \in Terminal : Rewrites(q, f)' <=> Rewrites(q, f)
      BY <1>2, <1>4, <1>5 DEF Rewrites
    <2>3. \A q \in Terminal : run'[q].read = run[q].read /\ run'[q].fate = run[q].fate
      BY <1>4, <1>5
    <2>4. \A q, o \in Terminal : Rewrites(q, f)' /\ Rewrites(o, f)' => q = o
      BY <2>1, <2>2 DEF OneWriter
    <2>5. \A q \in Terminal : Rewrites(q, f)' => run'[q].read = meant'[f] /\ run'[q].fate = "whole"
      BY <1>2, <2>1, <2>2, <2>3 DEF OneWriter
    <2>6. (\A q \in Terminal : run'[q].on # f \/ run'[q].step # "write") => file'[f] = meant'[f]
      BY <1>2, <1>4, <1>5, <1>6, <2>1 DEF OneWriter
    <2> QED
      BY <2>4, <2>5, <2>6 DEF OneWriter
  <1> QED
    BY <1>7, <1>8, <1>9 DEF SessionIInv

(* Another may change the fate of a write, and nothing else of it.         *)
LEMMA FateFacts ==
    ASSUME NEW r \in CommandRecord, NEW fate \in Fate
    PROVE  LET n == [r EXCEPT !.fate = fate]
           IN  /\ n \in CommandRecord /\ n.fate = fate
               /\ n.step = r.step /\ n.on = r.on /\ n.read = r.read /\ n.server = r.server
               /\ n.token = r.token /\ n.taken = r.taken /\ n.seen = r.seen /\ n.issuer = r.issuer
               /\ n.results = r.results /\ n.stuck = r.stuck /\ n.redirects = r.redirects
  BY SMTT(30) DEF CommandRecord

LEMMA CommandsAlike ==
    ASSUME NEW r, NEW n, CommandOK(r), r.step = "write",
           n.step = r.step, n.on = r.on, n.read = r.read, n.server = r.server, n.token = r.token,
           n.taken = r.taken, n.seen = r.seen, n.issuer = r.issuer,
           n.results = r.results, n.stuck = r.stuck, n.redirects = r.redirects
    PROVE  CommandOK(n)
  <1>1. Counted(n)
    BY DEF CommandOK, Counted
  <1> QED
    BY <1>1 DEF CommandOK

LEMMA WriteFileStep == ASSUME SessionIInv, NEW p \in Terminal, WriteFile(p) PROVE SessionIInv'
  <1> DEFINE r == run[p]
             again == [Idle EXCEPT !.kind = "login", !.step = "read", !.on = "context", !.server = r.server]
             n == IF r.kind = "login" /\ r.on = "tokens" /\ r.server # NoServer THEN again ELSE Idle
             joins(q) == run[q].on = r.on /\ run[q].step = "write" /\ r.fate # "unlinked" /\ run[q].fate = "whole"
             late(q) == [run[q] EXCEPT !.fate = "overwrites"]
  <1>1. r \in CommandRecord /\ CommandOK(r) /\ r.server \in AnyServer /\ r.fate \in Fate
    BY DEF SessionIInv, SessionTypeOK, CommandRecord
  <1>2. /\ r.step = "write" /\ UNCHANGED <<age, commands, disturbed>>
        /\ run' = [q \in Terminal |-> IF q = p THEN n ELSE IF joins(q) THEN late(q) ELSE run[q]]
    BY DEF WriteFile
  <1>3. r.on \in Files /\ r.read \in Content(r.on) /\ meant[r.on] \in Content(r.on)
        /\ file[r.on] \in Content(r.on) \cup {Torn}
    BY <1>1, <1>2 DEF CommandOK, SessionIInv, SessionTypeOK
  <1>4. again \in CommandRecord /\ again.step = "read" /\ again.on = "context" /\ again.fate = "whole"
        /\ again.results = <<>> /\ again.stuck = 0
    BY <1>1, CommandWords, IdleCommand DEF CommandRecord
  <1> HIDE DEF again
  <1>5. n \in CommandRecord /\ n.step \in {"read", "idle"} /\ (n.step = "read" => n.on = "context")
        /\ n.fate = "whole" /\ CommandOK(n) /\ InTime(n)
    <2>1. CommandOK(again) /\ InTime(again)
      BY <1>4 DEF CommandOK, Counted, InTime, Files
    <2> QED
      BY <1>4, <2>1, IdleCommand
  <1> HIDE DEF n
  <1>6. ASSUME NEW q \in Terminal
        PROVE  /\ late(q) \in CommandRecord /\ late(q).fate = "overwrites"
               /\ late(q).step = run[q].step /\ late(q).on = run[q].on /\ late(q).read = run[q].read
               /\ late(q).server = run[q].server /\ late(q).token = run[q].token
               /\ late(q).taken = run[q].taken /\ late(q).seen = run[q].seen
               /\ late(q).issuer = run[q].issuer /\ late(q).results = run[q].results
               /\ late(q).stuck = run[q].stuck /\ late(q).redirects = run[q].redirects
    <2>1. run[q] \in CommandRecord
      BY DEF SessionIInv, SessionTypeOK
    <2>2. "overwrites" \in Fate
      BY CommandWords
    <2> QED
      BY <2>1, <2>2, FateFacts
  <1> HIDE DEF late
  <1>7. /\ run' \in [Terminal -> CommandRecord] /\ run'[p] = n
        /\ \A q \in Terminal : q # p => run'[q] = IF joins(q) THEN late(q) ELSE run[q]
    BY <1>2, <1>5, <1>6 DEF SessionIInv, SessionTypeOK
  <1>8. PICK content \in CASE r.fate = "whole" -> {Mutate(r, r.read)}
                           [] r.fate = "overwrites" -> {Mutate(r, r.read), Torn}
                           [] r.fate = "unlinked" -> {file[r.on]} :
          file' = [file EXCEPT ![r.on] = content]
    BY DEF WriteFile
  <1>9. content \in Content(r.on) \cup {Torn} /\ (r.fate = "whole" => content = Mutate(r, r.read))
    <2>1. Mutate(r, r.read) \in Content(r.on)
      BY <1>1, <1>3, MutateFacts
    <2>2. CASE r.fate = "whole"
      BY <1>8, <2>1, <2>2
    <2>3. CASE r.fate = "overwrites"
      BY <1>8, <2>1, <2>3
    <2>4. CASE r.fate = "unlinked"
      BY <1>3, <1>8, <2>4
    <2> QED
      BY <1>1, <2>2, <2>3, <2>4 DEF Fate
  <1>10. /\ file' \in [Files -> TokenFile \cup ContextFile \cup {Torn}] /\ file'[r.on] = content
         /\ \A f \in Files : f # r.on => file'[f] = file[f]
    BY <1>3, <1>8, <1>9 DEF SessionIInv, SessionTypeOK, Content
  <1>11. meant' = [meant EXCEPT ![r.on] = Mutate(r, meant[r.on])]
    BY <1>3 DEF WriteFile, Mutate, StoreToken, StoreServer, WriteSelection, SessionIInv, SessionTypeOK
  <1>12. Mutate(r, meant[r.on]) \in Content(r.on)
    BY <1>1, <1>3, MutateFacts
  <1>13. /\ meant' \in [Files -> TokenFile \cup ContextFile] /\ meant'[r.on] = Mutate(r, meant[r.on])
         /\ \A f \in Files : f # r.on => meant'[f] = meant[f]
    BY <1>3, <1>11, <1>12 DEF SessionIInv, SessionTypeOK, Content
  <1>14. SessionTypeOK'
    BY <1>2, <1>3, <1>7, <1>9, <1>10, <1>12, <1>13 DEF SessionIInv, SessionTypeOK
  <1>15. ASSUME NEW q \in Terminal PROVE (CommandOK(run[q]) /\ InTime(run[q]))'
    <2>1. CASE q = p
      BY <1>2, <1>5, <1>7, <2>1 DEF CommandOK, Counted, InTime
    <2>2. CASE q # p /\ ~joins(q)
      BY <1>2, <1>7, <2>2 DEF SessionIInv, CommandOK, Counted, InTime
    <2>3. CASE q # p /\ joins(q)
      <3>1. run'[q] = late(q) /\ CommandOK(run[q]) /\ InTime(run[q])
        BY <1>7, <2>3 DEF SessionIInv
      <3>2. InTime(run[q])'
        BY <1>2, <1>6, <3>1 DEF InTime
      <3>3. CommandOK(late(q))
        <4> DEFINE m == late(q)
        <4>1. /\ m.step = run[q].step /\ m.on = run[q].on /\ m.read = run[q].read
              /\ m.server = run[q].server /\ m.token = run[q].token
              /\ m.taken = run[q].taken /\ m.seen = run[q].seen
              /\ m.issuer = run[q].issuer /\ m.results = run[q].results
              /\ m.stuck = run[q].stuck /\ m.redirects = run[q].redirects
          BY <1>6
        <4> HIDE DEF m
        <4>2. CommandOK(m)
          BY <2>3, <3>1, <4>1, CommandsAlike
        <4> QED
          BY <4>2 DEF m
      <3>4. CommandOK(run[q])' <=> CommandOK(run'[q])
        BY DEF CommandOK, Counted
      <3> QED
        BY <3>1, <3>2, <3>3, <3>4
    <2> QED
      BY <2>1, <2>2, <2>3
  <1>16. \A q \in Terminal : q # p => run'[q].on = run[q].on /\ run'[q].step = run[q].step
    BY <1>6, <1>7
  <1>17. ASSUME NEW f \in Files PROVE OneWriter(f)'
    <2> SUFFICES ASSUME f \notin disturbed' PROVE OneWriter(f)'
      BY DEF OneWriter
    <2>1. OneWriter(f) /\ f \notin disturbed
      BY <1>2 DEF SessionIInv
    <2>2. \A q \in Terminal : Rewrites(q, f)' => q # p /\ Rewrites(q, f)
      BY <1>5, <1>7, <1>16 DEF Rewrites
    <2>3. CASE f # r.on
      <3>1. \A q \in Terminal : Rewrites(q, f)' => run'[q] = run[q]
        BY <1>7, <2>2, <2>3 DEF Rewrites
      <3>2. (\A q \in Terminal : run'[q].on # f \/ run'[q].step # "write") =>
              \A q \in Terminal : run[q].on # f \/ run[q].step # "write"
        BY <1>16, <2>3
      <3> QED
        BY <1>10, <1>13, <2>1, <2>2, <2>3, <3>1, <3>2 DEF OneWriter
    <2>4. CASE f = r.on
      <3>1. Rewrites(p, f)
        BY <1>2, <2>4 DEF Rewrites
      <3>2. \A q \in Terminal : ~Rewrites(q, f)'
        BY <2>1, <2>2, <3>1 DEF OneWriter
      <3>3. r.read = meant[f] /\ r.fate = "whole"
        BY <2>1, <3>1 DEF OneWriter
      <3>4. file'[f] = meant'[f]
        BY <1>9, <1>10, <1>13, <2>4, <3>3
      <3> QED
        BY <3>2, <3>4 DEF OneWriter
    <2> QED
      BY <2>3, <2>4
  <1> QED
    BY <1>14, <1>15, <1>17 DEF SessionIInv

(* Removing the token cache while another writes it disturbs it.           *)
LEMMA LogoutAllStep == ASSUME SessionIInv, NEW p \in Terminal, LogoutAll(p) PROVE SessionIInv'
  <1> DEFINE gone(q) == run[q].on = "tokens" /\ run[q].step = "write"
             removed(q) == [run[q] EXCEPT !.fate = "unlinked"]
  <1>1. /\ run' = [q \in Terminal |-> IF gone(q) THEN removed(q) ELSE run[q]]
        /\ file' = [file EXCEPT !["tokens"] = Empty("tokens")]
        /\ meant' = [meant EXCEPT !["tokens"] = Empty("tokens")]
        /\ disturbed' = IF \E q \in Terminal : Rewrites(q, "tokens") THEN disturbed \cup {"tokens"} ELSE disturbed
        /\ UNCHANGED age
    BY DEF LogoutAll, Rewrites
  <1>2. commands' \in 0 .. MaxCommands
    BY SessionAssumption DEF LogoutAll, SessionIInv, SessionTypeOK
  <1>3. ASSUME NEW q \in Terminal
        PROVE  /\ removed(q) \in CommandRecord
               /\ removed(q).step = run[q].step /\ removed(q).on = run[q].on /\ removed(q).read = run[q].read
               /\ removed(q).server = run[q].server /\ removed(q).token = run[q].token
               /\ removed(q).taken = run[q].taken /\ removed(q).seen = run[q].seen
               /\ removed(q).issuer = run[q].issuer /\ removed(q).results = run[q].results
               /\ removed(q).stuck = run[q].stuck /\ removed(q).redirects = run[q].redirects
    <2>1. run[q] \in CommandRecord
      BY DEF SessionIInv, SessionTypeOK
    <2>2. "unlinked" \in Fate
      BY CommandWords
    <2> QED
      BY <2>1, <2>2, FateFacts
  <1> HIDE DEF removed
  <1>4. /\ run' \in [Terminal -> CommandRecord]
        /\ \A q \in Terminal : run'[q] = IF gone(q) THEN removed(q) ELSE run[q]
    BY <1>1, <1>3 DEF SessionIInv, SessionTypeOK
  <1>5. /\ file' \in [Files -> TokenFile \cup ContextFile \cup {Torn}] /\ meant' \in [Files -> TokenFile \cup ContextFile]
        /\ file'["tokens"] = Empty("tokens") /\ meant'["tokens"] = Empty("tokens")
        /\ \A f \in Files : f # "tokens" => file'[f] = file[f] /\ meant'[f] = meant[f]
    BY <1>1, EmptyFacts, CommandWords DEF SessionIInv, SessionTypeOK
  <1>6. SessionTypeOK'
    <2>1. \A f \in Files : file'[f] \in Content(f) \cup {Torn} /\ meant'[f] \in Content(f)
      BY <1>5, EmptyFacts DEF SessionIInv, SessionTypeOK
    <2> QED
      BY <1>1, <1>2, <1>4, <1>5, <2>1 DEF SessionIInv, SessionTypeOK
  <1>7. ASSUME NEW q \in Terminal PROVE (CommandOK(run[q]) /\ InTime(run[q]))'
    <2>1. CASE gone(q)
      BY <1>1, <1>3, <1>4, <2>1 DEF SessionIInv, CommandOK, Counted, InTime
    <2>2. CASE ~gone(q)
      BY <1>1, <1>4, <2>2 DEF SessionIInv, CommandOK, Counted, InTime
    <2> QED
      BY <2>1, <2>2
  <1>8. \A q \in Terminal : run'[q].on = run[q].on /\ run'[q].step = run[q].step
    BY <1>3, <1>4
  <1>9. ASSUME NEW f \in Files PROVE OneWriter(f)'
    <2> SUFFICES ASSUME f \notin disturbed' PROVE OneWriter(f)'
      BY DEF OneWriter
    <2>1. OneWriter(f) /\ f \notin disturbed
      BY <1>1 DEF SessionIInv
    <2>2. \A q \in Terminal : Rewrites(q, f)' <=> Rewrites(q, f)
      BY <1>8 DEF Rewrites
    <2>3. CASE f = "tokens"
      <3>1. \A q \in Terminal : ~Rewrites(q, f)'
        BY <1>1, <2>2, <2>3
      <3> QED
        BY <1>5, <2>3, <3>1 DEF OneWriter
    <2>4. CASE f # "tokens"
      <3>1. \A q \in Terminal : Rewrites(q, f) => run'[q] = run[q]
        BY <1>4, <2>4 DEF Rewrites
      <3> QED
        BY <1>5, <1>8, <2>1, <2>2, <2>4, <3>1 DEF OneWriter
    <2> QED
      BY <2>3, <2>4
  <1> QED
    BY <1>6, <1>7, <1>9 DEF SessionIInv

-----------------------------------------------------------------------------
(* Time. *)
LEMMA AgeStep == ASSUME SessionIInv, NEW t \in Token, Age(t) PROVE SessionIInv'
  <1>1. /\ UNCHANGED <<file, run, meant, commands, disturbed>>
        /\ \/ age' = [age EXCEPT ![t] = "closing"]
           \/ /\ age' = [age EXCEPT ![t] = "expired"]
              /\ \A p \in Terminal : run[p].token = t => run[p].taken # "fresh"
    BY DEF Age
  <1>2. age \in [Token -> {"fresh", "closing", "expired"}]
    BY DEF SessionIInv, SessionTypeOK, Ages
  <1>3. age' \in Ages
    BY <1>1, <1>2 DEF Ages
  <1>4. SessionTypeOK'
    BY <1>1, <1>3 DEF SessionIInv, SessionTypeOK
  <1>5. ASSUME NEW q \in Terminal PROVE (CommandOK(run[q]) /\ InTime(run[q]))'
    <2>1. CommandOK(run[q])'
      BY <1>1 DEF SessionIInv, CommandOK, Counted
    <2>2. InTime(run[q])'
      <3> SUFFICES ASSUME run[q].step \in {"review", "offering", "workspace"}
                   PROVE  age'[run[q].token] # "expired"
        BY <1>1 DEF InTime
      <3>1. run[q].token \in Token /\ run[q].taken = "fresh" /\ age[run[q].token] # "expired"
        BY DEF SessionIInv, CommandOK, InTime
      <3> QED
        BY <1>1, <1>2, <3>1
    <2> QED
      BY <2>1, <2>2
  <1>6. \A f \in Files : OneWriter(f)'
    BY <1>1 DEF SessionIInv, OneWriter, Rewrites
  <1> QED
    BY <1>4, <1>5, <1>6 DEF SessionIInv

LEMMA SessionStep == SessionIInv /\ [SessionNext]_sessionVars => SessionIInv'
  <1> SUFFICES ASSUME SessionIInv, [SessionNext]_sessionVars PROVE SessionIInv'
    OBVIOUS
  <1>1. CASE UNCHANGED sessionVars
    <2>1. UNCHANGED <<file, meant, run, age, commands, disturbed>>
      BY <1>1 DEF sessionVars
    <2>2. SessionTypeOK'
      BY <2>1 DEF SessionIInv, SessionTypeOK
    <2>3. \A p \in Terminal : (CommandOK(run[p]) /\ InTime(run[p]))'
      BY <2>1 DEF SessionIInv, CommandOK, Counted, InTime
    <2>4. \A f \in Files : OneWriter(f)'
      BY <2>1 DEF SessionIInv, OneWriter, Rewrites
    <2> QED
      BY <2>2, <2>3, <2>4 DEF SessionIInv
  <1>2. ASSUME NEW p \in Terminal, LoginNext(p) PROVE SessionIInv'
    BY <1>2, NewLogin, BrowserSteps, RequestSteps DEF LoginNext, AnyServer
  <1>3. ASSUME NEW p \in Terminal, CommandNext(p) PROVE SessionIInv'
    BY <1>3, NewLogin, NewCommand, LogoutAllStep, ReadStep, TruncateStep, WriteFileStep, RequestSteps
       DEF CommandNext, Step, AnyServer, AnyIssuer
  <1> QED
    BY <1>1, <1>2, <1>3, AgeStep DEF SessionNext

(* Bindings and kubeconfigs.                                               *)
LEMMA ActsStep == SessionIInv /\ ActsWhereSaid /\ [SessionNext]_sessionVars => ActsWhereSaid'
  <1> SUFFICES ASSUME SessionIInv, ActsWhereSaid, [SessionNext]_sessionVars PROVE ActsWhereSaid'
    OBVIOUS
  <1> DEFINE placed(b) == \E s \in Server : b.at = Selected(s, b.said).url
             places(k) == Reach[k.server][k.token.issuer]
             reaches(k) == k.steady /\ (\A x, y \in places(k) : ContextName(x) = ContextName(y) => x = y) =>
                             {k.contexts[n] : n \in DOMAIN k.contexts} = {Selected(k.server, x).url : x \in places(k)}
  <1>1. ActsWhereSaid <=> (\A b \in bindings : placed(b)) /\ (\A k \in kubeconfigs : reaches(k))
    BY DEF ActsWhereSaid
  <1>2. ActsWhereSaid' <=> (\A b \in bindings' : placed(b)) /\ (\A k \in kubeconfigs' : reaches(k))
    BY DEF ActsWhereSaid
  <1>3. ASSUME NEW p \in Terminal, CurrentWorkspace(p) PROVE ActsWhereSaid'
    <2> DEFINE s == Load("context").selection
               b == [at |-> s.url, said |-> s.place]
    <2>1. kubeconfigs' = kubeconfigs /\ bindings' = IF s = NoSelection THEN bindings ELSE bindings \cup {b}
      BY <1>3 DEF CurrentWorkspace
    <2>2. s # NoSelection => placed(b)
      <3> SUFFICES ASSUME s # NoSelection PROVE placed(b)
        OBVIOUS
      <3>1. s \in Selection
        BY LoadFacts DEF SessionIInv, Files, Content, ContextFile
      <3>2. PICK v \in Server, place \in UNION {Reach[w][i] : w \in Server, i \in Issuer} : s = Selected(v, place)
        BY <3>1 DEF Selection
      <3>3. s.place = place /\ s.url = Selected(v, place).url
        BY <3>2 DEF Selected
      <3> QED
        BY <3>3
    <2> HIDE DEF b, placed, reaches
    <2> QED
      BY <1>1, <1>2, <2>1, <2>2
  <1>5. CASE UNCHANGED <<bindings, kubeconfigs>>
    BY <1>1, <1>2, <1>5
  <1>4. ASSUME NEW p \in Terminal, WriteKubeconfig(p) PROVE ActsWhereSaid'
    <2> DEFINE r == run[p]
               t == Credential(r.issuer)
               names == {ContextName(place) : place \in Answer(r)}
               k(pick) == [token |-> t, server |-> r.server, steady |-> r.seen = <<file["tokens"], age>>,
                           contexts |-> [n \in names |-> Selected(r.server, pick[n]).url]]
    <2>1. bindings' = bindings /\ r.step = "review"
      BY <1>4 DEF WriteKubeconfig
    <2>2. /\ r.token = CredentialIn(r.seen[1], r.seen[2], r.issuer) /\ r.issuer \in AnyIssuer
      BY <2>1 DEF SessionIInv, SessionTypeOK, CommandOK, CommandRecord
    <2>3. t = CredentialIn(file["tokens"], age, r.issuer)
      BY <2>2, CredentialFacts DEF SessionIInv, AnyIssuer
    <2>4. ASSUME NEW pick \in [names -> Answer(r)], \A n \in names : ContextName(pick[n]) = n
          PROVE  reaches(k(pick))
      <3> DEFINE key == k(pick)
      <3>1. /\ key.token = t /\ key.server = r.server /\ key.steady = (r.seen = <<file["tokens"], age>>)
            /\ key.contexts = [n \in names |-> Selected(r.server, pick[n]).url]
        OBVIOUS
      <3> HIDE DEF key
      <3> SUFFICES ASSUME key.steady, \A x, y \in places(key) : ContextName(x) = ContextName(y) => x = y
                   PROVE  {key.contexts[n] : n \in DOMAIN key.contexts}
                            = {Selected(key.server, x).url : x \in places(key)}
        BY DEF key
      <3>2. t = r.token
        <4>1. r.seen = <<file["tokens"], age>>
          BY <3>1
        <4>2. r.seen[1] = file["tokens"] /\ r.seen[2] = age
          BY <4>1
        <4> HIDE DEF r, t
        <4> QED
          BY <2>2, <2>3, <4>2
      <3>3. places(key) = Answer(r)
        BY <3>1, <3>2 DEF Answer
      <3>4. \A x \in Answer(r) : ContextName(x) \in names /\ pick[ContextName(x)] = x
        BY <2>4, <3>3
      <3>5. \A n \in names : pick[n] \in Answer(r)
        OBVIOUS
      <3> HIDE DEF places, names
      <3>6. {key.contexts[n] : n \in DOMAIN key.contexts} = {Selected(r.server, pick[n]).url : n \in names}
        BY <3>1
      <3> QED
        BY <3>1, <3>3, <3>4, <3>5, <3>6
    <2>5. kubeconfigs' = kubeconfigs \/
            \E pick \in [names -> Answer(r)] :
              /\ \A n \in names : ContextName(pick[n]) = n
              /\ kubeconfigs' = kubeconfigs \cup {k(pick)}
      BY <1>4 DEF WriteKubeconfig
    <2>6. CASE kubeconfigs' = kubeconfigs
      BY <1>5, <2>1, <2>6
    <2>7. ASSUME NEW pick \in [names -> Answer(r)], \A n \in names : ContextName(pick[n]) = n,
                 kubeconfigs' = kubeconfigs \cup {k(pick)}
          PROVE  ActsWhereSaid'
      <3> DEFINE key == k(pick)
      <3>1. reaches(key) /\ kubeconfigs' = kubeconfigs \cup {key}
        BY <2>4, <2>7
      <3> HIDE DEF key, placed, reaches
      <3> QED
        BY <1>1, <1>2, <2>1, <3>1
    <2> HIDE DEF k, names
    <2> QED
      BY <2>5, <2>6, <2>7
  <1>6. CASE UNCHANGED sessionVars
    BY <1>5, <1>6 DEF sessionVars
  <1>7. ASSUME NEW p \in Terminal, LoginNext(p) PROVE UNCHANGED <<bindings, kubeconfigs>>
    BY <1>7 DEF LoginNext, Login, Start, Redirect, Browser, BrowserLogin, TimedOut, Exchange, Shutdown, Interrupt
  <1>8. ASSUME NEW p \in Terminal, CommandNext(p) PROVE ActsWhereSaid'
    <2>1. CASE \E i \in Issuer : Logout(p, i) \/ \E s \in Server \cup {NoServer} : PasswordLogin(p, i, s)
      BY <1>5, <2>1 DEF Logout, PasswordLogin, Start
    <2>2. CASE \E i \in Issuer \cup {NoIssuer} : Use(p, i) \/ Kubeconfig(p, i)
      BY <1>5, <2>2 DEF Use, Kubeconfig, Start
    <2>3. CASE ClearSelection(p) \/ MarketplaceDefaults(p) \/ LogoutAll(p) \/ Interrupt(p)
      BY <1>5, <2>3 DEF ClearSelection, MarketplaceDefaults, LogoutAll, Interrupt, Start
    <2>4. CASE ReadFile(p) \/ Truncate(p) \/ WriteFile(p) \/ RestConfig(p) \/ Choose(p) \/ GetOffering(p)
      BY <1>5, <2>4 DEF ReadFile, Truncate, WriteFile, RestConfig, Choose, GetOffering
    <2> QED
      BY <1>3, <1>4, <1>8, <2>1, <2>2, <2>3, <2>4 DEF CommandNext, Step
  <1>9. ASSUME NEW t \in Token, Age(t) PROVE UNCHANGED <<bindings, kubeconfigs>>
    BY <1>9 DEF Age
  <1> QED
    BY <1>5, <1>6, <1>7, <1>8, <1>9 DEF SessionNext

(* However terminals run side by side and wherever a command is            *)
(* interrupted, a file no two of them rewrote at a time and none left half *)
(* written holds what the commands left in it (context.go:117-124,         *)
(* login.go:62-65).                                                        *)
THEOREM FilesRememberWhatCommandsLeft == SessionSpec => []RemembersLast
  <1>1. SessionIInv => RemembersLast
    BY DEF SessionIInv, OneWriter, RemembersLast, Files
  <1> QED
    BY <1>1, SessionStart, SessionStep, PTL DEF SessionSpec

(* A binding is made in the workspace of the project it is reported to be  *)
(* in, and a kubeconfig reaches what its credential's user was listed      *)
(* (main.go:139-150, review.go:253-300), for any reach of any users.       *)
THEOREM CommandsActWhereTheySay == SessionSpec => []ActsWhereSaid
  BY SessionStart, SessionStep, ActsStep, PTL DEF SessionSpec

(* No request presents an expired token, and a login hangs only of a third *)
(* redirect, or a second as it times out (login.go:110-122, login.go:430-  *)
(* 481).                                                                   *)
THEOREM LoginsEndAndTokensAreInTime == SessionSpec => []SessionInv
  <1>1. SessionIInv => SessionInv
    <2> SUFFICES ASSUME SessionIInv PROVE SessionInv
      OBVIOUS
    <2>1. NeverPresentsExpired
      BY DEF SessionIInv, InTime, NeverPresentsExpired
    <2>2. ASSUME NEW p \in Terminal, run[p].step \in {"failed", "timed out", "exchanged"}, run[p].stuck > 0
          PROVE  run[p].redirects > IF run[p].step = "timed out" THEN 1 ELSE 2
      <3> DEFINE r == run[p]
      <3>1. PICK l \in Nat : l = Len(r.results)
        BY DEF SessionIInv, SessionTypeOK, CommandRecord
      <3>2. PICK k \in Nat : k = r.stuck
        BY DEF SessionIInv, SessionTypeOK, CommandRecord
      <3>3. PICK m \in Nat : m = r.redirects
        BY DEF SessionIInv, SessionTypeOK, CommandRecord
      <3>4. Counted(r)
        BY DEF SessionIInv, CommandOK
      <3> HIDE DEF r
      <3>5. l = 1 /\ k > 0
        BY <2>2, <3>1, <3>2, <3>4 DEF Counted, r
      <3>6. CASE r.step = "timed out"
        <4>1. l + k <= m
          BY <3>1, <3>2, <3>3, <3>4, <3>6 DEF Counted
        <4>2. m > 1
          BY <3>5, <4>1
        <4> QED
          BY <3>3, <3>6, <4>2 DEF r
      <3>7. CASE r.step \in {"failed", "exchanged"}
        <4>1. 1 + l + k <= m
          BY <3>1, <3>2, <3>3, <3>4, <3>7 DEF Counted
        <4>2. m > 2
          BY <3>5, <4>1
        <4> QED
          BY <3>3, <3>7, <4>2 DEF r
      <3> QED
        BY <2>2, <3>6, <3>7 DEF r
    <2> QED
      BY <2>1, <2>2 DEF SessionInv, NoLoginHangs
  <1> QED
    BY <1>1, SessionStart, SessionStep, PTL DEF SessionSpec
=============================================================================

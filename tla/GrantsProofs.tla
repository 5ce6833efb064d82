---------------------------- MODULE GrantsProofs -----------------------------
(***************************************************************************)
(* No project has a role binding that nobody asked for, and none of a      *)
(* membership that is gone where the revocation could look, for any        *)
(* members, projects, roles and scopes, with caches however old and with   *)
(* any failures and restarts of the two controllers.                       *)
(***************************************************************************)
EXTENDS Grants, TLAPS

MW == worker["membership"]
PW == worker["project"]

ServePhase == {"addFinalizer", "apply", "create", "status"}
RevokePhase == {"revoke", "removeFinalizer"}

Ended == {"deleting", "gone"}

Serving(m) == MW.key = m /\ MW.at \in ServePhase
Revoking(m) == MW.key = m /\ MW.at \in RevokePhase

(* A binding that a worker has yet to apply or to delete.                  *)
HasTask(w, p, m) == \E t \in w.todo : t.project = p /\ t.member = m

Typed == TypeOK /\ MW.key \in Member

(* The cache knows of a deletion only after it.                            *)
CacheBehind == \A m \in Member : memCache[m].life \in Ended => mem[m].life \in Ended

AskedFor(m, o) == o.life \in {"live", "deleting"} => AskedBy(m, o) \subseteq asked

(* Everything that will be bound, by whichever controller, was asked for.  *)
WorkAsked ==
    /\ \A m \in Member : AskedFor(m, mem[m]) /\ AskedFor(m, memCache[m])
    /\ \A ctl \in Controller : worker[ctl].todo \subseteq asked
    /\ \A ctl \in Controller : worker[ctl].at = "create" => worker[ctl].task \in worker[ctl].todo

(* The membership controller works for one membership at a time.           *)
OwnTasks ==
    /\ \A t \in MW.todo : t.member = MW.key
    /\ MW.at = "removeFinalizer" => MW.todo = {}

(* Nothing will bind m in p any more.                                      *)
Sealed(p, m) == memCache[m].life \in Ended /\ ~Serving(m) /\ ~HasTask(PW, p, m)

(* While a membership is revoked what it has left in a project is on the   *)
(* list of what is to be deleted; once it is gone nothing is left.         *)
Revocation ==
    \A p \in Project, m \in Member : <<p, m>> \notin missed =>
        /\ Revoking(m) =>
              /\ Sealed(p, m)
              /\ binding[p][m] = None \/ (MW.at = "revoke" /\ HasTask(MW, p, m))
        /\ mem[m].life = "gone" => Sealed(p, m) /\ binding[p][m] = None

Inv == /\ Typed /\ CacheBehind /\ WorkAsked /\ OwnTasks /\ OnlyAskedRoles
       /\ Revocation

-----------------------------------------------------------------------------
(* Types.                                                                  *)

LEMMA MembershipFacts ==
    /\ NewMembership \in Membership /\ Gone \in Membership
    /\ NewMembership.life = "absent" /\ Gone.life = "gone"
    /\ \A o \in Membership : /\ [o EXCEPT !.finalizer = TRUE] \in Membership
                             /\ [o EXCEPT !.life = "deleting"] \in Membership
    /\ \A o \in Membership, s \in Scope :
          [o EXCEPT !.life = "live", !.scope = s] \in Membership
    /\ \A o \in Membership, r \in Role, s \in Scope :
          [o EXCEPT !.role = r, !.scope = s] \in Membership
    /\ \A o \in Membership, ph \in Phase : [o EXCEPT !.phase = ph] \in Membership
  <1>1. (CHOOSE r \in Role : TRUE) \in Role /\ (CHOOSE s \in Scope : TRUE) \in Scope
    BY SomeAssumption
  <1>2. NewMembership \in Membership /\ NewMembership.life = "absent"
    BY <1>1 DEF NewMembership, Membership, Phase
  <1> QED
    BY <1>2 DEF Gone, Membership

LEMMA IdleFacts ==
    /\ IdleWorker \in Worker /\ IdleWorker.key \in Member
    /\ IdleWorker.at = "idle" /\ IdleWorker.todo = {}
    /\ IdleWorker.task \in Task
  <1>1. /\ (CHOOSE m \in Member : TRUE) \in Member
        /\ (CHOOSE p \in Project : TRUE) \in Project
    BY SomeAssumption
  <1>2. NewMembership.role \in Role
    BY MembershipFacts DEF Membership
  <1> DEFINE t == [project |-> CHOOSE p \in Project : TRUE,
                   member |-> CHOOSE m \in Member : TRUE, role |-> NewMembership.role]
  <1>3. t \in Task
    BY <1>1, <1>2 DEF Task
  <1>4. IdleWorker = [at |-> "idle", key |-> CHOOSE m \in Member : TRUE, copy |-> NewMembership,
                      todo |-> {}, task |-> t, phase |-> ""]
    BY DEF IdleWorker
  <1> HIDE DEF t
  <1> QED
    BY <1>1, <1>3, <1>4, MembershipFacts DEF Worker, Phase

(* A worker in place of another.                                           *)
LEMMA WorkerFacts ==
    ASSUME NEW w \in Worker
    PROVE  /\ \A step \in {"status", "apply"}, o \in Membership :
                 [w EXCEPT !.copy = o, !.at = step] \in Worker
           /\ \A step \in {"status", "apply"}, todo \in SUBSET Task :
                 [w EXCEPT !.todo = todo, !.task = IdleWorker.task, !.at = step] \in Worker
           /\ \A t \in Task : [w EXCEPT !.at = "create", !.task = t] \in Worker
           /\ \A todo \in SUBSET Task : [w EXCEPT !.todo = todo] \in Worker
           /\ [w EXCEPT !.at = "removeFinalizer"] \in Worker
           /\ [w EXCEPT !.at = "status", !.todo = {}, !.task = IdleWorker.task, !.phase = "Error"]
                 \in Worker
           /\ \A step \in {"revoke", "status", "apply", "addFinalizer"}, k \in Member,
                 o \in Membership, todo \in SUBSET Task, ph \in Phase :
                 [w EXCEPT !.at = step, !.key = k, !.copy = o, !.todo = todo, !.phase = ph]
                    \in Worker
           /\ \A k \in Project, todo \in SUBSET Task :
                 [w EXCEPT !.at = "apply", !.key = k, !.todo = todo] \in Worker
  <1>1. IdleWorker.task \in Task
    BY IdleFacts
  <1>2. ASSUME NEW step \in {"status", "apply"}, NEW o \in Membership
        PROVE  [w EXCEPT !.copy = o, !.at = step] \in Worker
    BY DEF Worker
  <1>3. ASSUME NEW step \in {"status", "apply"}, NEW todo \in SUBSET Task
        PROVE  [w EXCEPT !.todo = todo, !.task = IdleWorker.task, !.at = step] \in Worker
    BY <1>1 DEF Worker
  <1>4. \A t \in Task : [w EXCEPT !.at = "create", !.task = t] \in Worker
    BY DEF Worker
  <1>5. \A todo \in SUBSET Task : [w EXCEPT !.todo = todo] \in Worker
    BY DEF Worker
  <1>6. [w EXCEPT !.at = "removeFinalizer"] \in Worker
    BY DEF Worker
  <1>7. [w EXCEPT !.at = "status", !.todo = {}, !.task = IdleWorker.task, !.phase = "Error"]
           \in Worker
    BY <1>1 DEF Worker, Phase
  <1>8. ASSUME NEW step \in {"revoke", "status", "apply", "addFinalizer"}, NEW k \in Member,
               NEW o \in Membership, NEW todo \in SUBSET Task, NEW ph \in Phase
        PROVE  [w EXCEPT !.at = step, !.key = k, !.copy = o, !.todo = todo, !.phase = ph]
                  \in Worker
    BY DEF Worker
  <1>9. \A k \in Project, todo \in SUBSET Task :
           [w EXCEPT !.at = "apply", !.key = k, !.todo = todo] \in Worker
    BY DEF Worker
  <1> QED
    BY <1>2, <1>3, <1>4, <1>5, <1>6, <1>7, <1>8, <1>9

(* A grant asks for tasks, and so do the lists of what is to be bound.     *)
LEMMA TaskFacts ==
    ASSUME NEW m \in Member, NEW o \in Membership
    PROVE  /\ AskedBy(m, o) \subseteq Task /\ Tasks(m, o) \subseteq AskedBy(m, o)
           /\ \A t \in Tasks(m, o) : t.member = m
           /\ \A p \in Targets(o) : \E t \in Tasks(m, o) : t.project = p /\ t.member = m
  <1>1. o.role \in Role
    BY DEF Membership
  <1>2. AskedBy(m, o) \subseteq Task
    BY <1>1 DEF AskedBy, Task
  <1>3. Tasks(m, o) \subseteq AskedBy(m, o)
    BY DEF AskedBy, Tasks, Targets
  <1>4. \A t \in Tasks(m, o) : t.member = m
    BY DEF Tasks
  <1>5. ASSUME NEW p \in Targets(o) PROVE \E t \in Tasks(m, o) : t.project = p /\ t.member = m
    <2> DEFINE t == [project |-> p, member |-> m, role |-> o.role]
    <2>1. t \in Tasks(m, o)
      BY DEF Tasks
    <2> QED
      BY <2>1
  <1> QED
    BY <1>2, <1>3, <1>4, <1>5

LEMMA SameAsked ==
    ASSUME NEW m, NEW a, NEW b, a.role = b.role, a.scope = b.scope
    PROVE  AskedBy(m, a) = AskedBy(m, b)
  BY DEF AskedBy

LEMMA PulledFacts ==
    ASSUME Typed, NEW p \in Project
    PROVE  /\ Pulled(p) \subseteq Task
           /\ \A t \in Pulled(p) : /\ memCache[t.member].life = "live" /\ t.member \in Member
                                   /\ t \in AskedBy(t.member, memCache[t.member])
  <1>1. \A m \in Member : memCache[m].role \in Role
    BY DEF Typed, TypeOK, Membership
  <1> QED
    BY <1>1 DEF Pulled, Task, AskedBy

(* A binding in place of another.                                          *)
LEMMA BindFacts ==
    ASSUME Typed, NEW p \in Project, NEW m \in Member, NEW r \in Role \cup {None}, Bind(p, m, r)
    PROVE  /\ binding' \in [Project -> [Member -> Role \cup {None}]]
           /\ bindCache' \in [Project -> [Member -> Role \cup {None}]]
           /\ binding'[p][m] = r
           /\ \A q \in Project, n \in Member : q # p \/ n # m => binding'[q][n] = binding[q][n]
  BY DEF Bind, Typed, TypeOK

LEMMA Initially == Init => Inv
  <1> SUFFICES ASSUME Init PROVE Inv
    OBVIOUS
  <1>1. worker = [ctl \in Controller |-> IdleWorker] /\ MW = IdleWorker /\ PW = IdleWorker
    BY DEF Init, MW, PW, Controller
  <1>2. /\ \A m \in Member : mem[m] = NewMembership /\ memCache[m] = NewMembership
        /\ \A p \in Project, m \in Member : binding[p][m] = None
    BY DEF Init, NoBindings
  <1>3. TypeOK
    <2>1. mem \in [Member -> Membership] /\ memCache \in [Member -> Membership]
      BY MembershipFacts DEF Init
    <2>2. proj \in [Project -> ProjectObject] /\ projCache \in [Project -> ProjectObject]
      BY DEF Init, ProjectObject, Phase
    <2>3. NoBindings \in [Project -> [Member -> Role \cup {None}]]
      BY DEF NoBindings
    <2>4. worker \in [Controller -> Worker] /\ 0 \in 0..MaxEvents
      BY <1>1, IdleFacts, SomeAssumption
    <2> QED
      BY <2>1, <2>2, <2>3, <2>4 DEF Init, TypeOK
  <1>4. Typed /\ OwnTasks
    BY <1>1, <1>3, IdleFacts DEF Typed, OwnTasks
  <1>5. CacheBehind
    BY <1>2, MembershipFacts DEF CacheBehind, Ended
  <1>6. WorkAsked
    BY <1>1, <1>2, MembershipFacts, IdleFacts DEF WorkAsked, AskedFor
  <1>7. OnlyAskedRoles
    BY <1>2 DEF OnlyAskedRoles
  <1>8. Revocation
    BY <1>1, <1>2, MembershipFacts, IdleFacts DEF Revocation, Revoking, RevokePhase
  <1> QED
    BY <1>4, <1>5, <1>6, <1>7, <1>8 DEF Inv

-----------------------------------------------------------------------------
(* What a step may do, as far as the invariant can tell.                   *)

(* A membership is written by a user, or by the worker, which leaves what  *)
(* it asks for alone, or loses its finalizer.                              *)
MemStep(m) ==
    \/ /\ mem'[m].life = mem[m].life
       /\ AskedBy(m, mem'[m]) = AskedBy(m, mem[m]) \/ AskedBy(m, mem'[m]) \subseteq asked'
    \/ /\ mem[m].life = "absent" /\ mem'[m].life = "live"
       /\ AskedBy(m, mem'[m]) \subseteq asked'
    \/ /\ mem[m].life = "live" /\ mem'[m].life = "deleting"
       /\ AskedBy(m, mem'[m]) = AskedBy(m, mem[m])
    \/ /\ mem'[m].life = "gone"
       /\ \/ Project \X {m} \subseteq missed'
          \/ /\ MW.at = "removeFinalizer" /\ MW.key = m /\ MW'.at = "idle"
             /\ UNCHANGED <<memCache, binding, missed>> /\ PW' = PW

(* A binding is deleted, or made for a task of a worker.                   *)
BindStep(p, m) ==
    \/ binding'[p][m] \in {binding[p][m], None}
    \/ \E ctl \in Controller :
          /\ worker[ctl].at \in {"apply", "create"}
          /\ \E t \in worker[ctl].todo :
                t.project = p /\ t.member = m /\ binding'[p][m] = t.role

(* The worker goes on: a task is done with once it is bound or deleted.    *)
GoesOn(ctl) ==
    LET old == worker[ctl]
        new == worker'[ctl]
    IN  /\ new.key = old.key /\ new.todo \subseteq old.todo
        /\ new.at \in {"apply", "create", "status"} => old.at \in ServePhase
        /\ new.at \in RevokePhase => old.at = "revoke"
        /\ new.at \notin {"addFinalizer", "idle"}
        /\ new.at = "create" => new.task \in new.todo
        /\ new.at = "removeFinalizer" => new.todo = {}
        /\ old.at = "revoke" =>
              \A t \in old.todo \ new.todo : binding'[t.project][t.member] = None

BeginsMember ==
    LET m == MW'.key
        o == memCache[m]
    IN  /\ m \in Member /\ UNCHANGED <<mem, memCache, binding>> /\ PW' = PW
        /\ MW.at = "idle" /\ MW'.todo = Tasks(m, o)
        /\ \/ /\ MW'.at = "revoke" /\ o.life = "deleting"
              /\ \A p \in Project : <<p, m>> \notin missed' =>
                    p \in Targets(o) /\ ~HasTask(PW, p, m)
           \/ MW'.at \in {"addFinalizer", "apply", "status"} /\ o.life = "live"

BeginsProject ==
    /\ UNCHANGED <<mem, memCache, binding, missed>> /\ MW' = MW
    /\ PW'.at = "apply" /\ \E p \in Project : PW'.todo = Pulled(p)

WorkerStep(ctl) ==
    \/ worker'[ctl] \in {worker[ctl], IdleWorker}
    \/ GoesOn(ctl)
    \/ ctl = "membership" /\ BeginsMember
    \/ ctl = "project" /\ BeginsProject

StepOK ==
    /\ Typed' /\ memCache' \in {memCache, mem}
    /\ asked \subseteq asked' /\ missed \subseteq missed'
    /\ \A m \in Member : MemStep(m)
    /\ \A ctl \in Controller : WorkerStep(ctl)
    /\ \A p \in Project, m \in Member : BindStep(p, m)

(* A step of one controller: the other one's worker stays.                 *)
LEMMA WorkerPut ==
    ASSUME Typed, NEW ctl \in Controller, NEW w \in Worker, worker' = [worker EXCEPT ![ctl] = w],
           ctl = "membership" => w.key \in Member
    PROVE  /\ worker' \in [Controller -> Worker] /\ worker'[ctl] = w /\ MW'.key \in Member
           /\ \A c \in Controller : c # ctl => worker'[c] = worker[c]
  BY DEF Typed, TypeOK, MW, Controller

LEMMA EventFacts == ASSUME Typed, Event PROVE events' \in 0..MaxEvents
  BY SomeAssumption DEF Typed, TypeOK, Event

(* The users' steps.                                                       *)
LEMMA MemberWrite ==
    ASSUME Typed, NEW m \in Member, NEW o \in Membership, mem' = [mem EXCEPT ![m] = o],
           MemStep(m), asked \subseteq asked', missed \subseteq missed',
           asked' \subseteq Task, missed' \subseteq Project \X Member, events' \in 0..MaxEvents,
           UNCHANGED <<proj, ws, caches, bindings, queue, worker>>
    PROVE  StepOK
  <1>1. Typed'
    BY DEF Typed, TypeOK, caches, bindings, MW
  <1>2. \A n \in Member : MemStep(n)
    <2> SUFFICES ASSUME NEW n \in Member, n # m PROVE MemStep(n)
      OBVIOUS
    <2>1. mem'[n] = mem[n]
      BY DEF Typed, TypeOK
    <2> QED
      BY <2>1 DEF MemStep
  <1> QED
    BY <1>1, <1>2 DEF StepOK, WorkerStep, BindStep, caches, bindings

LEMMA UserStep ==
    ASSUME Typed, NEW m \in Member, NEW r \in Role, NEW s \in Scope,
           CreateMembership(m, s) \/ EditMembership(m, r, s) \/ DeleteMembership(m)
    PROVE  StepOK
  <1>1. mem[m] \in Membership /\ mem \in [Member -> Membership]
    BY DEF Typed, TypeOK
  <1>2. ASSUME NEW o \in Membership, WriteMembership(m, o), UNCHANGED missed,
               events' \in 0..MaxEvents,
               o.life = mem[m].life \/ (mem[m].life = "absent" /\ o.life = "live")
        PROVE  StepOK
    <2>1. /\ mem' = [mem EXCEPT ![m] = o] /\ mem'[m] = o
          /\ asked' = asked \cup AskedBy(m, o)
          /\ UNCHANGED <<proj, ws, caches, bindings, queue, worker>>
      BY <1>1, <1>2 DEF WriteMembership
    <2>2. AskedBy(m, o) \subseteq Task
      BY TaskFacts
    <2>3. MemStep(m)
      BY <1>2, <2>1 DEF MemStep
    <2> QED
      BY <1>2, <2>1, <2>2, <2>3, MemberWrite DEF Typed, TypeOK
  <1>3. CASE CreateMembership(m, s)
    <2> DEFINE o == [mem[m] EXCEPT !.life = "live", !.scope = s]
    <2>1. o \in Membership /\ o.life = "live"
      BY <1>1, MembershipFacts DEF Membership
    <2> QED
      BY <1>2, <1>3, <2>1 DEF CreateMembership, Typed, TypeOK
  <1>4. CASE EditMembership(m, r, s)
    <2> DEFINE o == [mem[m] EXCEPT !.role = r, !.scope = s]
    <2>1. o \in Membership /\ o.life = mem[m].life
      BY <1>1, MembershipFacts DEF Membership
    <2> QED
      BY <1>2, <1>4, <2>1, EventFacts DEF EditMembership
  <1>5. CASE DeleteMembership(m)
    <2>1. /\ asked' = asked /\ events' = events
          /\ UNCHANGED <<proj, ws, caches, bindings, queue, worker>>
      BY <1>5 DEF DeleteMembership
    <2>2. asked' \subseteq Task /\ events' \in 0..MaxEvents /\ missed \subseteq Project \X Member
      BY <2>1 DEF Typed, TypeOK
    <2>3. CASE mem[m].finalizer
      <3> DEFINE o == [mem[m] EXCEPT !.life = "deleting"]
      <3>1. o \in Membership /\ o.life = "deleting" /\ AskedBy(m, o) = AskedBy(m, mem[m])
        <4>1. o \in Membership
          BY <1>1, MembershipFacts
        <4>2. o.life = "deleting" /\ o.role = mem[m].role /\ o.scope = mem[m].scope
          BY <1>1 DEF Membership
        <4> QED
          BY <4>1, <4>2, SameAsked
      <3>2. mem' = [mem EXCEPT ![m] = o] /\ UNCHANGED missed
        BY <1>1, <1>5, <2>3 DEF DeleteMembership
      <3>3. mem'[m] = o /\ mem[m].life = "live"
        BY <1>1, <1>5, <3>2 DEF DeleteMembership
      <3>4. MemStep(m)
        BY <3>1, <3>3 DEF MemStep
      <3> HIDE DEF o
      <3> QED
        BY <2>1, <2>2, <3>1, <3>2, <3>4, MemberWrite
    <2>4. CASE ~mem[m].finalizer
      <3>1. mem' = [mem EXCEPT ![m] = Gone] /\ missed' = missed \cup (Project \X {m})
        BY <1>5, <2>4 DEF DeleteMembership
      <3>2. mem'[m] = Gone
        BY <1>1, <3>1
      <3>3. MemStep(m)
        BY <3>1, <3>2, MembershipFacts DEF MemStep
      <3>4. missed' \subseteq Project \X Member
        BY <2>2, <3>1
      <3> QED
        BY <2>1, <2>2, <3>1, <3>3, <3>4, MembershipFacts, MemberWrite
    <2> QED
      BY <2>3, <2>4
  <1> QED
    BY <1>3, <1>4, <1>5

(* Steps that leave memberships, workers and history alone.                *)
LEMMA ElsewhereStep ==
    ASSUME Typed,
           \/ \E p \in Project : CreateProject(p) \/ DeleteProject(p)
           \/ Provision \/ Watch \/ Resync
    PROVE  StepOK
  <1>1. UNCHANGED <<mem, worker, history>> /\ memCache' \in {memCache, mem}
    BY DEF CreateProject, DeleteProject, Provision, WorkspaceReady, WorkspaceGone, ProjectGone,
           Watch, WatchMemberships, WatchProjects, WatchBindings, Resync, objects, caches, bindings
  <1>2. /\ binding' \in [Project -> [Member -> Role \cup {None}]]
        /\ bindCache' \in [Project -> [Member -> Role \cup {None}]]
        /\ \A p \in Project, m \in Member : binding'[p][m] \in {binding[p][m], None}
    <2>1. CASE \E p \in Project : WorkspaceGone(p)
      BY <2>1 DEF WorkspaceGone, NoBindings, Typed, TypeOK
    <2>2. CASE UNCHANGED binding /\ bindCache' \in {binding, bindCache}
      BY <2>2 DEF Typed, TypeOK
    <2> QED
      BY <2>1, <2>2
      DEF CreateProject, DeleteProject, Provision, WorkspaceReady, ProjectGone, Watch,
          WatchMemberships, WatchProjects, WatchBindings, Resync, objects, caches, bindings
  <1>3. /\ proj' \in [Project -> ProjectObject] /\ projCache' \in [Project -> ProjectObject]
        /\ ws' \in [Project -> {"none", "new", "ready", "gone"}]
    <2>1. \A p \in Project, life \in {"live", "deleting", "gone"} :
             [proj EXCEPT ![p].life = life] \in [Project -> ProjectObject]
      BY DEF Typed, TypeOK, ProjectObject
    <2>2. /\ projCache \in [Project -> ProjectObject] /\ proj \in [Project -> ProjectObject]
          /\ ws \in [Project -> {"none", "new", "ready", "gone"}]
      BY DEF Typed, TypeOK
    <2>3. CASE \E p \in Project : CreateProject(p)
      BY <2>1, <2>2, <2>3, ZenonT(30) DEF CreateProject, caches
    <2>4. CASE \E p \in Project : DeleteProject(p)
      BY <2>1, <2>2, <2>4 DEF DeleteProject, caches
    <2>5. CASE Provision
      BY <2>1, <2>2, <2>5
      DEF Provision, WorkspaceReady, WorkspaceGone, ProjectGone, caches
    <2>6. CASE Watch \/ Resync
      BY <2>6
      DEF Watch, WatchMemberships, WatchProjects, WatchBindings, Resync, Typed, TypeOK, caches,
          objects
    <2> QED
      BY <2>3, <2>4, <2>5, <2>6
  <1>4. queue' \subseteq Member \cup Project
    BY DEF CreateProject, DeleteProject, Provision, WorkspaceReady, WorkspaceGone, ProjectGone,
           Watch, WatchMemberships, WatchProjects, WatchBindings, Resync, Typed, TypeOK
  <1>5. Typed'
    BY <1>1, <1>2, <1>3, <1>4 DEF Typed, TypeOK, MW, history
  <1> QED
    BY <1>1, <1>2, <1>5 DEF StepOK, WorkerStep, MemStep, BindStep, history

(* A call of one controller that returns or fails.                         *)
LEMMA ReturnStep ==
    ASSUME Typed, NEW ctl \in Controller, Return(ctl),
           UNCHANGED <<objects, caches, bindings, asked, missed>>,
           queue' \subseteq Member \cup Project, events' \in 0..MaxEvents
    PROVE  StepOK
  <1>1. /\ worker' \in [Controller -> Worker] /\ worker'[ctl] = IdleWorker /\ MW'.key \in Member
        /\ \A c \in Controller : c # ctl => worker'[c] = worker[c]
    BY IdleFacts, WorkerPut DEF Return
  <1>2. Typed'
    BY <1>1 DEF Typed, TypeOK, objects, caches, bindings
  <1> QED
    BY <1>1, <1>2 DEF StepOK, WorkerStep, MemStep, BindStep, objects, caches, bindings

(* Requeueing what a worker had keeps the queue's type.                    *)
LEMMA KeyFacts ==
    ASSUME Typed, NEW ctl \in Controller
    PROVE  /\ worker[ctl] \in Worker /\ worker[ctl].todo \subseteq Task
           /\ queue \cup {worker[ctl].key} \subseteq Member \cup Project
           /\ queue \subseteq Member \cup Project /\ events \in 0..MaxEvents
  <1>1. worker[ctl] \in Worker
    BY DEF Typed, TypeOK
  <1> QED
    BY <1>1 DEF Typed, TypeOK, Worker

(* A worker that goes on, with bindings that may have changed.             *)
LEMMA GoOnStep ==
    ASSUME Typed, NEW ctl \in Controller, NEW w \in Worker, worker' = [worker EXCEPT ![ctl] = w],
           w.key = worker[ctl].key, GoesOn(ctl),
           UNCHANGED <<objects, caches, asked, missed>>,
           binding' \in [Project -> [Member -> Role \cup {None}]],
           bindCache' \in [Project -> [Member -> Role \cup {None}]],
           \A p \in Project, m \in Member : BindStep(p, m),
           queue' \subseteq Member \cup Project, events' \in 0..MaxEvents
    PROVE  StepOK
  <1>1. /\ worker' \in [Controller -> Worker] /\ worker'[ctl] = w /\ MW'.key \in Member
        /\ \A c \in Controller : c # ctl => worker'[c] = worker[c]
    BY WorkerPut DEF Typed, MW
  <1>2. Typed'
    BY <1>1 DEF Typed, TypeOK, objects, caches
  <1> QED
    BY <1>1, <1>2 DEF StepOK, WorkerStep, MemStep, objects, caches

(* One binding is applied or deleted for a task.                           *)
LEMMA BindForTask ==
    ASSUME Typed, NEW ctl \in Controller, NEW t \in worker[ctl].todo, NEW r \in {t.role, None},
           r = None \/ worker[ctl].at \in {"apply", "create"}, Bind(t.project, t.member, r)
    PROVE  /\ binding' \in [Project -> [Member -> Role \cup {None}]]
           /\ bindCache' \in [Project -> [Member -> Role \cup {None}]]
           /\ binding'[t.project][t.member] = r
           /\ \A p \in Project, m \in Member : BindStep(p, m)
  <1>1. t.project \in Project /\ t.member \in Member /\ t.role \in Role
    BY KeyFacts DEF Task
  <1>2. /\ binding' \in [Project -> [Member -> Role \cup {None}]]
        /\ bindCache' \in [Project -> [Member -> Role \cup {None}]]
        /\ binding'[t.project][t.member] = r
        /\ \A q \in Project, n \in Member :
              q # t.project \/ n # t.member => binding'[q][n] = binding[q][n]
    BY <1>1, BindFacts
  <1>3. ASSUME NEW p \in Project, NEW m \in Member PROVE BindStep(p, m)
    <2>1. CASE p = t.project /\ m = t.member
      BY <1>2, <2>1 DEF BindStep
    <2>2. CASE p # t.project \/ m # t.member
      BY <1>2, <2>2 DEF BindStep
    <2> QED
      BY <2>1, <2>2
  <1> QED
    BY <1>2, <1>3

LEMMA NoBind ==
    ASSUME Typed, UNCHANGED bindings
    PROVE  /\ binding' \in [Project -> [Member -> Role \cup {None}]]
           /\ bindCache' \in [Project -> [Member -> Role \cup {None}]]
           /\ \A p \in Project, m \in Member : BindStep(p, m)
  BY DEF bindings, BindStep, Typed, TypeOK

LEMMA AppliedStep ==
    ASSUME Typed, NEW ctl \in Controller, NEW t \in worker[ctl].todo, Applied(ctl, t),
           worker[ctl].at \in {"apply", "create"},
           UNCHANGED <<objects, caches, queue, history>>,
           binding' \in [Project -> [Member -> Role \cup {None}]],
           bindCache' \in [Project -> [Member -> Role \cup {None}]],
           \A p \in Project, m \in Member : BindStep(p, m)
    PROVE  StepOK
  <1> DEFINE rest == worker[ctl].todo \ {t}
             next(step) == [worker[ctl] EXCEPT !.todo = rest, !.task = IdleWorker.task, !.at = step]
  <1>1. /\ worker[ctl] \in Worker /\ rest \in SUBSET Task
        /\ queue' \subseteq Member \cup Project /\ events' \in 0..MaxEvents
    BY KeyFacts DEF history
  <1>2. ASSUME NEW step \in {"apply", "status"}, worker' = [worker EXCEPT ![ctl] = next(step)]
        PROVE  StepOK
    <2>1. next(step) \in Worker
      BY <1>1, WorkerFacts
    <2>2. /\ next(step).key = worker[ctl].key /\ next(step).todo = rest
          /\ next(step).at = step
      BY <1>1 DEF Worker
    <2>3. worker'[ctl] = next(step)
      BY <1>2 DEF Typed, TypeOK
    <2> HIDE DEF next
    <2>4. GoesOn(ctl)
      BY <2>2, <2>3 DEF GoesOn, ServePhase, RevokePhase
    <2> QED
      BY <1>1, <1>2, <2>1, <2>2, <2>4, GoOnStep DEF history
  <1>3. CASE worker' = [worker EXCEPT ![ctl] = IdleWorker]
    <2>1. /\ worker' \in [Controller -> Worker] /\ worker'[ctl] = IdleWorker /\ MW'.key \in Member
          /\ \A c \in Controller : c # ctl => worker'[c] = worker[c]
      BY <1>3, IdleFacts, WorkerPut
    <2>2. Typed'
      BY <1>1, <2>1 DEF Typed, TypeOK, objects, caches, history
    <2> QED
      BY <2>1, <2>2 DEF StepOK, WorkerStep, MemStep, objects, caches, history
  <1> QED
    BY <1>2, <1>3 DEF Applied

LEMMA ApplyFailedStep ==
    ASSUME Typed, NEW ctl \in Controller, ApplyFailed(ctl),
           worker[ctl].at \in {"apply", "create"},
           UNCHANGED <<objects, caches, bindings, asked, missed>>, events' \in 0..MaxEvents
    PROVE  StepOK
  <1> DEFINE w == [worker[ctl] EXCEPT !.at = "status", !.todo = {}, !.task = IdleWorker.task,
                                      !.phase = "Error"]
  <1>1. worker[ctl] \in Worker
    BY KeyFacts
  <1>2. CASE worker' = [worker EXCEPT ![ctl] = w] /\ UNCHANGED queue
    <2>1. w \in Worker
      BY <1>1, WorkerFacts
    <2>2. w.key = worker[ctl].key /\ w.todo = {} /\ w.at = "status"
      BY <1>1 DEF Worker
    <2>3. worker'[ctl] = w
      BY <1>2 DEF Typed, TypeOK
    <2> HIDE DEF w
    <2>4. GoesOn(ctl)
      BY <2>2, <2>3 DEF GoesOn, ServePhase, RevokePhase
    <2> QED
      BY <1>2, <2>1, <2>2, <2>4, KeyFacts, NoBind, GoOnStep
  <1>3. CASE ReturnAgain(ctl)
    BY <1>3, KeyFacts, ReturnStep DEF ReturnAgain
  <1> QED
    BY <1>2, <1>3 DEF ApplyFailed

LEMMA ApplyRBACStep ==
    ASSUME Typed, NEW ctl \in Controller, ApplyRBAC(ctl)
    PROVE  StepOK
  <1>1. worker[ctl].at = "apply" /\ UNCHANGED <<objects, caches, history>>
    BY DEF ApplyRBAC, At
  <1>2. CASE ReturnAgain(ctl) /\ UNCHANGED bindings
    BY <1>1, <1>2, KeyFacts, ReturnStep DEF ReturnAgain, history
  <1>3. ASSUME NEW t \in worker[ctl].todo, Applied(ctl, t), UNCHANGED queue,
               Bind(t.project, t.member, t.role) \/ UNCHANGED bindings
        PROVE  StepOK
    <2>1. /\ binding' \in [Project -> [Member -> Role \cup {None}]]
          /\ bindCache' \in [Project -> [Member -> Role \cup {None}]]
          /\ \A p \in Project, m \in Member : BindStep(p, m)
      BY <1>1, <1>3, BindForTask, NoBind
    <2> QED
      BY <1>1, <1>3, <2>1, AppliedStep
  <1>4. ASSUME NEW t \in worker[ctl].todo, Bind(t.project, t.member, None), UNCHANGED queue,
               worker' = [worker EXCEPT ![ctl] = [@ EXCEPT !.at = "create", !.task = t]]
        PROVE  StepOK
    <2> DEFINE w == [worker[ctl] EXCEPT !.at = "create", !.task = t]
    <2>1. /\ binding' \in [Project -> [Member -> Role \cup {None}]]
          /\ bindCache' \in [Project -> [Member -> Role \cup {None}]]
          /\ \A p \in Project, m \in Member : BindStep(p, m)
      BY <1>4, BindForTask
    <2>2. worker[ctl] \in Worker /\ t \in Task
      BY KeyFacts
    <2>3. w \in Worker
      BY <2>2, WorkerFacts
    <2>4. w.key = worker[ctl].key /\ w.todo = worker[ctl].todo /\ w.at = "create" /\ w.task = t
      BY <2>2 DEF Worker
    <2>5. worker' = [worker EXCEPT ![ctl] = w] /\ worker'[ctl] = w
      BY <1>4 DEF Typed, TypeOK
    <2> HIDE DEF w
    <2>6. GoesOn(ctl)
      BY <1>1, <2>4, <2>5 DEF GoesOn, ServePhase, RevokePhase
    <2> QED
      BY <1>1, <1>4, <2>1, <2>3, <2>4, <2>5, <2>6, KeyFacts, GoOnStep DEF history
  <1> QED
    BY <1>2, <1>3, <1>4 DEF ApplyRBAC

LEMMA CreateReplacementStep ==
    ASSUME Typed, WorkAsked, NEW ctl \in Controller, CreateReplacement(ctl)
    PROVE  StepOK
  <1> DEFINE t == worker[ctl].task
  <1>1. /\ worker[ctl].at = "create" /\ t \in worker[ctl].todo
        /\ UNCHANGED <<objects, caches, history>> /\ events \in 0..MaxEvents
    BY KeyFacts DEF CreateReplacement, At, WorkAsked
  <1>2. CASE Bind(t.project, t.member, t.role) /\ Applied(ctl, t) /\ UNCHANGED queue
    BY <1>1, <1>2, BindForTask, AppliedStep
  <1>3. CASE ApplyFailed(ctl) /\ UNCHANGED bindings
    BY <1>1, <1>3, ApplyFailedStep DEF history
  <1> QED
    BY <1>2, <1>3 DEF CreateReplacement

LEMMA RevokeStep == ASSUME Typed, Revoke PROVE StepOK
  <1> DEFINE ctl == "membership"
  <1>1. /\ ctl \in Controller /\ worker[ctl].at = "revoke" /\ worker[ctl] \in Worker
        /\ UNCHANGED <<objects, caches, history>>
    BY KeyFacts DEF Revoke, At, Controller
  <1>2. ASSUME NEW t \in worker[ctl].todo, Bind(t.project, t.member, None), UNCHANGED queue,
               worker' = [worker EXCEPT ![ctl].todo = @ \ {t}]
        PROVE  StepOK
    <2> DEFINE rest == worker[ctl].todo \ {t}
               w == [worker[ctl] EXCEPT !.todo = rest]
    <2>1. /\ binding' \in [Project -> [Member -> Role \cup {None}]]
          /\ bindCache' \in [Project -> [Member -> Role \cup {None}]]
          /\ binding'[t.project][t.member] = None
          /\ \A p \in Project, m \in Member : BindStep(p, m)
      BY <1>1, <1>2, BindForTask
    <2>2. rest \in SUBSET Task
      BY <1>1, KeyFacts
    <2>3. w \in Worker
      BY <1>1, <2>2, WorkerFacts
    <2>4. w.key = worker[ctl].key /\ w.todo = rest /\ w.at = "revoke"
      BY <1>1 DEF Worker
    <2>5. worker' = [worker EXCEPT ![ctl] = w] /\ worker'[ctl] = w
      BY <1>1, <1>2 DEF Typed, TypeOK
    <2>6. worker[ctl].todo \ rest \subseteq {t} /\ rest \subseteq worker[ctl].todo
      OBVIOUS
    <2> HIDE DEF w, rest
    <2>7. GoesOn(ctl)
      BY <1>1, <2>1, <2>4, <2>5, <2>6, <2>2 DEF GoesOn, ServePhase, RevokePhase
    <2> QED
      BY <1>1, <1>2, <2>1, <2>3, <2>4, <2>5, <2>7, KeyFacts, GoOnStep DEF history
  <1>3. CASE ReturnAgain(ctl) /\ UNCHANGED bindings
    BY <1>1, <1>3, KeyFacts, ReturnStep DEF ReturnAgain, history
  <1>4. CASE worker[ctl].todo = {} /\ Goto(ctl, "removeFinalizer") /\ UNCHANGED <<bindings, queue>>
    <2> DEFINE w == [worker[ctl] EXCEPT !.at = "removeFinalizer"]
    <2>1. w \in Worker
      BY <1>1, WorkerFacts
    <2>2. w.key = worker[ctl].key /\ w.todo = {} /\ w.at = "removeFinalizer"
      BY <1>1, <1>4 DEF Worker
    <2>3. worker' = [worker EXCEPT ![ctl] = w] /\ worker'[ctl] = w
      BY <1>1, <1>4 DEF Goto, Typed, TypeOK
    <2> HIDE DEF w
    <2>4. GoesOn(ctl)
      BY <1>1, <1>4, <2>2, <2>3 DEF GoesOn, ServePhase, RevokePhase
    <2> QED
      BY <1>1, <1>4, <2>1, <2>2, <2>3, <2>4, KeyFacts, NoBind, GoOnStep DEF history
  <1> QED
    BY <1>2, <1>3, <1>4 DEF Revoke

LEMMA MemPut ==
    ASSUME Typed, NEW m \in Member, NEW o \in Membership, mem' = [mem EXCEPT ![m] = o], MemStep(m)
    PROVE  mem' \in [Member -> Membership] /\ \A n \in Member : MemStep(n)
  <1>1. mem' \in [Member -> Membership] /\ \A n \in Member : n # m => mem'[n] = mem[n]
    BY DEF Typed, TypeOK
  <1> QED
    BY <1>1 DEF MemStep

LEMMA MemSame == UNCHANGED mem => \A m \in Member : MemStep(m)
  BY DEF MemStep

LEMMA ReconcileMembershipStep ==
    ASSUME Typed, NEW m \in Member, ReconcileMembership(m)
    PROVE  StepOK
  <1> DEFINE o == memCache[m]
             start(step, todo, phase) ==
                [MW EXCEPT !.at = step, !.key = m, !.copy = o, !.todo = todo, !.phase = phase]
             put(w) == worker' = [worker EXCEPT !["membership"] = w]
  <1>1. /\ o \in Membership /\ MW \in Worker /\ MW.at = "idle" /\ "membership" \in Controller
        /\ UNCHANGED <<objects, caches, bindings, events, asked>>
        /\ queue' \subseteq Member \cup Project /\ events' \in 0..MaxEvents
        /\ missed \subseteq Project \X Member
    BY DEF ReconcileMembership, Typed, TypeOK, MW, At, caches, Controller
  <1>2. ASSUME UNCHANGED worker, UNCHANGED missed PROVE StepOK
    <2>1. Typed'
      BY <1>1, <1>2 DEF Typed, TypeOK, MW, objects, caches, bindings
    <2> QED
      BY <1>1, <1>2, <2>1 DEF StepOK, WorkerStep, MemStep, BindStep, objects, caches, bindings
  <1>3. ASSUME NEW step \in {"revoke", "status", "apply", "addFinalizer"}, NEW ph \in Phase,
               put(start(step, Tasks(m, o), ph)),
               missed \subseteq missed', missed' \subseteq Project \X Member,
               \/ /\ step = "revoke" /\ o.life = "deleting"
                  /\ \A p \in Project : <<p, m>> \notin missed' =>
                        p \in Targets(o) /\ ~HasTask(PW, p, m)
               \/ step \in {"addFinalizer", "apply", "status"} /\ o.life = "live"
        PROVE  StepOK
    <2> DEFINE w == start(step, Tasks(m, o), ph)
    <2>1. Tasks(m, o) \in SUBSET Task
      BY <1>1, TaskFacts
    <2>2. w \in Worker
      BY <1>1, <2>1, WorkerFacts
    <2>3. w.key = m /\ w.todo = Tasks(m, o) /\ w.at = step
      BY <1>1 DEF Worker
    <2>4. put(w)
      BY <1>3
    <2> HIDE DEF w
    <2>5. /\ worker' \in [Controller -> Worker] /\ worker'["membership"] = w /\ MW'.key \in Member
          /\ \A c \in Controller : c # "membership" => worker'[c] = worker[c]
      BY <1>1, <2>2, <2>3, <2>4, WorkerPut
    <2>6. Typed'
      BY <1>1, <1>3, <2>5 DEF Typed, TypeOK, objects, caches, bindings
    <2>7. MW' = w /\ PW' = PW
      BY <2>5 DEF MW, PW, Controller
    <2>8. BeginsMember
      BY <1>1, <1>3, <2>3, <2>7 DEF BeginsMember, objects, caches, bindings
    <2> QED
      BY <1>1, <1>3, <2>5, <2>6, <2>8
      DEF StepOK, WorkerStep, MemStep, BindStep, objects, caches, bindings
  <1>4. CASE o.life \in {"absent", "gone"}
    BY <1>1, <1>2, <1>4 DEF ReconcileMembership, Membership
  <1>5. CASE o.life = "deleting"
    <2>1. /\ put(start("revoke", Tasks(m, o), ""))
          /\ missed' = missed \cup
                {pm \in Project \X {m} :
                    \/ pm[1] \notin Targets(o)
                    \/ \E t \in worker["project"].todo : t.project = pm[1] /\ t.member = m}
      BY <1>5 DEF ReconcileMembership, MW
    <2>2. missed \subseteq missed' /\ missed' \subseteq Project \X Member
      BY <1>1, <2>1
    <2>3. ASSUME NEW p \in Project, <<p, m>> \notin missed'
          PROVE  p \in Targets(o) /\ ~HasTask(PW, p, m)
      <3>1. <<p, m>> \in Project \X {m} /\ <<p, m>>[1] = p
        OBVIOUS
      <3> HIDE DEF o
      <3> QED
        BY <2>1, <2>3, <3>1 DEF HasTask, PW
    <2> HIDE DEF start, put
    <2> QED
      BY <1>3, <1>5, <2>1, <2>2, <2>3 DEF Phase
  <1>6. CASE o.life = "live"
    <2>1. PICK step \in {"addFinalizer", "apply", "status"}, ph \in Phase :
             put(start(step, Tasks(m, o), ph))
      <3> DEFINE step == IF o.finalizer THEN IF Targets(o) = {} THEN "status" ELSE "apply"
                         ELSE "addFinalizer"
                 ph == CASE ScopeMissing(o) -> "Error"
                         [] Targets(o) = {} /\ ~ScopeMissing(o) -> "Pending"
                         [] OTHER -> "Ready"
      <3>1. put(start(step, Tasks(m, o), ph))
        BY <1>6 DEF ReconcileMembership, MW
      <3>2. step \in {"addFinalizer", "apply", "status"}
        OBVIOUS
      <3>3. ph \in Phase
        BY DEF Phase
      <3> HIDE DEF start, put, step, ph
      <3> QED
        BY <3>1, <3>2, <3>3
    <2>2. UNCHANGED missed
      BY <1>6 DEF ReconcileMembership
    <2> HIDE DEF start, put
    <2> QED
      BY <1>1, <1>3, <1>6, <2>1, <2>2
  <1> QED
    BY <1>1, <1>4, <1>5, <1>6 DEF Membership

LEMMA AddFinalizerStep == ASSUME Typed, AddFinalizer PROVE StepOK
  <1> DEFINE k == MW.key
             new == [MW.copy EXCEPT !.finalizer = TRUE]
  <1>1. /\ MW \in Worker /\ MW.at = "addFinalizer" /\ MW.copy \in Membership /\ k \in Member
        /\ "membership" \in Controller
        /\ UNCHANGED <<proj, ws, caches, bindings, history>>
        /\ queue \subseteq Member \cup Project
    BY DEF AddFinalizer, Typed, TypeOK, MW, At, Controller, Worker
  <1>2. CASE mem[k] = MW.copy
    <2> DEFINE step == IF MW.todo = {} THEN "status" ELSE "apply"
               w == [MW EXCEPT !.copy = new, !.at = step]
    <2>1. /\ mem' = [mem EXCEPT ![k] = new] /\ UNCHANGED queue
          /\ worker' = [worker EXCEPT !["membership"] = w]
      BY <1>2 DEF AddFinalizer, MW
    <2>2. new \in Membership
      BY <1>1, MembershipFacts
    <2>3. new.life = mem[k].life /\ AskedBy(k, new) = AskedBy(k, mem[k])
      <3>1. new.life = mem[k].life /\ new.role = mem[k].role /\ new.scope = mem[k].scope
        BY <1>1, <1>2 DEF Membership
      <3> QED
        BY <3>1, SameAsked
    <2>4. step \in {"status", "apply"}
      OBVIOUS
    <2>5. w \in Worker
      BY <1>1, <2>2, <2>4, WorkerFacts
    <2>6. w.key = k /\ w.todo = MW.todo /\ w.at = step
      BY <1>1 DEF Worker
    <2> HIDE DEF w, step, new
    <2>7. mem'[k] = new
      BY <1>1, <2>1 DEF Typed, TypeOK
    <2>8. MemStep(k)
      BY <2>3, <2>7 DEF MemStep
    <2>9. mem' \in [Member -> Membership] /\ \A n \in Member : MemStep(n)
      BY <1>1, <2>1, <2>2, <2>8, MemPut
    <2>10. /\ worker' \in [Controller -> Worker] /\ worker'["membership"] = w /\ MW'.key \in Member
           /\ \A c \in Controller : c # "membership" => worker'[c] = worker[c]
      BY <1>1, <2>1, <2>5, <2>6, WorkerPut
    <2>11. GoesOn("membership")
      BY <1>1, <2>4, <2>6, <2>10 DEF GoesOn, ServePhase, RevokePhase, MW
    <2>12. Typed'
      BY <1>1, <2>1, <2>9, <2>10 DEF Typed, TypeOK, caches, bindings, history
    <2> QED
      BY <1>1, <2>9, <2>10, <2>11, <2>12 DEF StepOK, WorkerStep, BindStep, caches, bindings, history
  <1>3. CASE mem[k] # MW.copy
    <2>1. ReturnAgain("membership") /\ UNCHANGED mem
      BY <1>3 DEF AddFinalizer, MW
    <2> QED
      BY <1>1, <2>1, KeyFacts, ReturnStep DEF ReturnAgain, history, objects
  <1> QED
    BY <1>2, <1>3

(* The worker of memberships returns, and may have written its membership. *)
LEMMA WrittenStep ==
    ASSUME Typed, NEW o \in Membership, mem' = [mem EXCEPT ![MW.key] = o], MemStep(MW.key),
           Return("membership"), queue' \subseteq Member \cup Project,
           UNCHANGED <<proj, ws, caches, bindings, history>>
    PROVE  StepOK
  <1>1. "membership" \in Controller /\ MW.key \in Member
    BY DEF Controller, Typed
  <1>2. mem' \in [Member -> Membership] /\ \A n \in Member : MemStep(n)
    BY <1>1, MemPut
  <1>3. /\ worker' \in [Controller -> Worker] /\ worker'["membership"] = IdleWorker
        /\ MW'.key \in Member
        /\ \A c \in Controller : c # "membership" => worker'[c] = worker[c]
    BY <1>1, IdleFacts, WorkerPut DEF Return
  <1>4. Typed'
    BY <1>2, <1>3 DEF Typed, TypeOK, caches, bindings, history
  <1> QED
    BY <1>2, <1>3, <1>4 DEF StepOK, WorkerStep, BindStep, caches, bindings, history

LEMMA RemoveFinalizerStep == ASSUME Typed, RemoveFinalizer PROVE StepOK
  <1> DEFINE k == MW.key
  <1>1. /\ MW.at = "removeFinalizer" /\ k \in Member /\ "membership" \in Controller
        /\ UNCHANGED <<proj, ws, caches, bindings, history>>
        /\ queue \subseteq Member \cup Project /\ Return("membership")
        /\ queue' \in {queue, queue \cup {k}}
    BY DEF RemoveFinalizer, Typed, TypeOK, MW, At, Controller, ReturnDone, ReturnAgain
  <1>2. CASE mem' = [mem EXCEPT ![k] = Gone]
    <2>1. mem'[k] = Gone
      BY <1>1, <1>2 DEF Typed, TypeOK
    <2>2. MW'.at = "idle" /\ PW' = PW
      BY <1>1, IdleFacts DEF Return, MW, PW, Controller, Typed, TypeOK
    <2>3. MemStep(k)
      BY <1>1, <2>1, <2>2, MembershipFacts DEF MemStep, caches, bindings, history
    <2> QED
      BY <1>1, <1>2, <2>3, MembershipFacts, WrittenStep
  <1>3. CASE UNCHANGED mem
    BY <1>1, <1>3, KeyFacts, ReturnStep DEF history, objects
  <1> QED
    BY <1>2, <1>3 DEF RemoveFinalizer, MW

LEMMA WriteStatusStep == ASSUME Typed, WriteStatus PROVE StepOK
  <1> DEFINE k == MW.key
             o == [mem[k] EXCEPT !.phase = MW.phase]
  <1>1. /\ k \in Member /\ "membership" \in Controller /\ mem[k] \in Membership /\ MW.phase \in Phase
        /\ UNCHANGED <<proj, ws, caches, bindings, history>>
        /\ queue \subseteq Member \cup Project /\ Return("membership")
        /\ queue' \in {queue, queue \cup {k}}
    BY DEF WriteStatus, Typed, TypeOK, MW, Controller, ReturnDone, ReturnAgain, Worker
  <1>2. CASE mem' = [mem EXCEPT ![k] = o]
    <2>1. o \in Membership
      BY <1>1, MembershipFacts
    <2>2. o.life = mem[k].life /\ o.role = mem[k].role /\ o.scope = mem[k].scope
      BY <1>1 DEF Membership
    <2>3. AskedBy(k, o) = AskedBy(k, mem[k])
      BY <2>2, SameAsked
    <2>4. mem'[k] = o
      BY <1>1, <1>2 DEF Typed, TypeOK
    <2>5. MemStep(k)
      BY <2>2, <2>3, <2>4 DEF MemStep
    <2> QED
      BY <1>1, <1>2, <2>1, <2>5, WrittenStep
  <1>3. CASE UNCHANGED mem
    BY <1>1, <1>3, KeyFacts, ReturnStep DEF history, objects
  <1> QED
    BY <1>1, <1>2, <1>3 DEF WriteStatus, MW, Typed, TypeOK

LEMMA ReconcileProjectStep ==
    ASSUME Typed, NEW p \in Project, NEW failed \in BOOLEAN, ReconcileProject(p, failed)
    PROVE  StepOK
  <1> DEFINE w == [PW EXCEPT !.at = "apply", !.key = p, !.todo = Pulled(p)]
  <1>1. /\ UNCHANGED <<mem, ws, caches, bindings, asked, missed>>
        /\ events' \in 0..MaxEvents /\ queue' \in {queue, queue \ {p}}
        /\ PW \in Worker /\ "project" \in Controller
    BY EventFacts DEF ReconcileProject, Typed, TypeOK, PW, Controller
  <1>2. proj' \in [Project -> ProjectObject]
    <2>1. \A phase \in Phase : [proj EXCEPT ![p].phase = phase] \in [Project -> ProjectObject]
      BY DEF Typed, TypeOK, ProjectObject
    <2>2. \A b : (CASE failed -> "Error" [] ~failed /\ b -> "Ready" [] OTHER -> "Pending") \in Phase
      BY DEF Phase
    <2>3. \/ proj' = proj
          \/ proj' = [proj EXCEPT ![p].phase =
                        CASE failed -> "Error"
                          [] ~failed /\ ws[p] = "ready" -> "Ready"
                          [] OTHER -> "Pending"]
      BY DEF ReconcileProject
    <2>4. proj \in [Project -> ProjectObject]
      BY DEF Typed, TypeOK
    <2> QED
      BY <2>1, <2>2, <2>3, <2>4
  <1>3. CASE UNCHANGED worker
    <2>1. Typed'
      BY <1>1, <1>2, <1>3 DEF Typed, TypeOK, MW, caches, bindings
    <2> QED
      BY <1>1, <1>3, <2>1 DEF StepOK, WorkerStep, MemStep, BindStep, caches, bindings
  <1>4. CASE worker' = [worker EXCEPT !["project"] = w]
    <2>1. Pulled(p) \in SUBSET Task
      BY PulledFacts
    <2>2. w \in Worker
      BY <1>1, <2>1, WorkerFacts
    <2>3. w.todo = Pulled(p) /\ w.at = "apply"
      BY <1>1 DEF Worker
    <2> HIDE DEF w
    <2>4. /\ worker' \in [Controller -> Worker] /\ worker'["project"] = w /\ MW'.key \in Member
          /\ \A c \in Controller : c # "project" => worker'[c] = worker[c]
      BY <1>1, <1>4, <2>2, WorkerPut
    <2>5. MW' = MW /\ PW' = w
      BY <2>4 DEF MW, PW, Controller
    <2>6. BeginsProject
      BY <1>1, <2>3, <2>5 DEF BeginsProject, caches, bindings
    <2>7. Typed'
      BY <1>1, <1>2, <2>4 DEF Typed, TypeOK, caches, bindings
    <2> QED
      BY <1>1, <2>4, <2>6, <2>7 DEF StepOK, WorkerStep, MemStep, BindStep, caches, bindings
  <1> QED
    BY <1>3, <1>4 DEF ReconcileProject, PW

LEMMA CallFailsStep == ASSUME Typed, NEW ctl \in Controller, CallFails(ctl) PROVE StepOK
  <1>1. events' \in 0..MaxEvents
    BY EventFacts DEF CallFails
  <1>2. CASE worker[ctl].at \in {"apply", "create"} /\ ApplyFailed(ctl)
    BY <1>1, <1>2, ApplyFailedStep DEF CallFails
  <1>3. CASE ReturnAgain(ctl)
    BY <1>1, <1>3, KeyFacts, ReturnStep DEF CallFails, ReturnAgain
  <1> QED
    BY <1>2, <1>3 DEF CallFails

LEMMA RestartStep == ASSUME Typed, Restart PROVE StepOK
  <1>1. /\ worker' = [ctl \in Controller |-> IdleWorker] /\ events' \in 0..MaxEvents
        /\ memCache' = mem /\ projCache' = proj /\ bindCache' = binding
        /\ queue' \subseteq Member \cup Project
        /\ UNCHANGED <<mem, proj, ws, binding, asked, missed>>
    BY EventFacts DEF Restart, objects
  <1>2. worker' \in [Controller -> Worker] /\ MW' = IdleWorker
    BY <1>1, IdleFacts DEF MW, Controller
  <1>3. Typed'
    BY <1>1, <1>2, IdleFacts DEF Typed, TypeOK
  <1> QED
    BY <1>1, <1>3 DEF StepOK, WorkerStep, MemStep, BindStep

LEMMA EveryStep == ASSUME Typed, WorkAsked, Next PROVE StepOK
  <1>1. CASE \E m \in Member, s \in Scope :
                CreateMembership(m, s) \/ \E r \in Role : EditMembership(m, r, s)
    <2>1. (CHOOSE r \in Role : TRUE) \in Role
      BY SomeAssumption
    <2> QED
      BY <1>1, <2>1, UserStep
  <1>2. ASSUME NEW m \in Member, DeleteMembership(m) PROVE StepOK
    <2>1. (CHOOSE r \in Role : TRUE) \in Role /\ (CHOOSE s \in Scope : TRUE) \in Scope
      BY SomeAssumption
    <2> QED
      BY <1>2, <2>1, UserStep
  <1>3. ASSUME NEW ctl \in Controller, Call(ctl) PROVE StepOK
    BY <1>3, ApplyRBACStep, CreateReplacementStep, AddFinalizerStep, RevokeStep,
       RemoveFinalizerStep, WriteStatusStep DEF Call
  <1> QED
    BY <1>1, <1>2, <1>3, ReconcileMembershipStep, ReconcileProjectStep, CallFailsStep, RestartStep,
       ElsewhereStep DEF Next

-----------------------------------------------------------------------------
(* Such steps preserve the invariant.                                      *)

LEMMA CacheBehindKept == ASSUME Typed, CacheBehind, StepOK PROVE CacheBehind'
  <1> SUFFICES ASSUME NEW m \in Member, memCache'[m].life \in Ended PROVE mem'[m].life \in Ended
    BY DEF CacheBehind
  <1>1. mem[m].life \in Ended
    BY DEF StepOK, CacheBehind
  <1>2. MemStep(m)
    BY DEF StepOK
  <1> QED
    BY <1>1, <1>2 DEF MemStep, Ended

LEMMA WorkAskedKept == ASSUME Typed, WorkAsked, StepOK PROVE WorkAsked'
  <1>1. asked \subseteq asked' /\ memCache' \in {memCache, mem}
    BY DEF StepOK
  <1>2. ASSUME NEW m \in Member PROVE AskedFor(m, mem[m])' /\ AskedFor(m, memCache[m])'
    <2>1. AskedFor(m, mem[m]) /\ AskedFor(m, memCache[m])
      BY DEF WorkAsked
    <2>2. MemStep(m)
      BY DEF StepOK
    <2>3. AskedFor(m, mem[m])'
      BY <1>1, <2>1, <2>2 DEF MemStep, AskedFor
    <2> QED
      BY <1>1, <2>1, <2>3 DEF AskedFor
  <1>3. ASSUME NEW ctl \in Controller
        PROVE  /\ worker'[ctl].todo \subseteq asked'
               /\ worker'[ctl].at = "create" => worker'[ctl].task \in worker'[ctl].todo
    <2>1. /\ worker[ctl].todo \subseteq asked
          /\ worker[ctl].at = "create" => worker[ctl].task \in worker[ctl].todo
      BY DEF WorkAsked
    <2>2. CASE worker'[ctl] \in {worker[ctl], IdleWorker}
      BY <1>1, <2>1, <2>2, IdleFacts
    <2>3. CASE GoesOn(ctl)
      BY <1>1, <2>1, <2>3 DEF GoesOn
    <2>4. CASE ctl = "membership" /\ BeginsMember
      <3> DEFINE m == MW'.key
      <3>1. /\ m \in Member /\ MW'.todo = Tasks(m, memCache[m]) /\ worker'[ctl] = MW'
            /\ MW'.at # "create" /\ memCache[m].life \in {"live", "deleting"}
        BY <2>4 DEF BeginsMember, MW
      <3>2. memCache[m] \in Membership
        BY <3>1 DEF Typed, TypeOK
      <3>3. Tasks(m, memCache[m]) \subseteq AskedBy(m, memCache[m])
        BY <3>1, <3>2, TaskFacts
      <3>4. AskedBy(m, memCache[m]) \subseteq asked
        BY <3>1 DEF WorkAsked, AskedFor
      <3> HIDE DEF m
      <3> QED
        BY <1>1, <3>1, <3>3, <3>4
    <2>5. CASE ctl = "project" /\ BeginsProject
      <3>1. PICK p \in Project : PW'.todo = Pulled(p)
        BY <2>5 DEF BeginsProject
      <3>2. worker'[ctl] = PW' /\ PW'.at = "apply"
        BY <2>5 DEF BeginsProject, PW
      <3>3. Pulled(p) \subseteq asked
        BY PulledFacts DEF WorkAsked, AskedFor
      <3> QED
        BY <1>1, <3>1, <3>2, <3>3
    <2> QED
      BY <2>2, <2>3, <2>4, <2>5 DEF StepOK, WorkerStep
  <1> QED
    BY <1>2, <1>3 DEF WorkAsked

LEMMA OwnTasksKept == ASSUME Typed, OwnTasks, StepOK PROVE OwnTasks'
  <1>1. WorkerStep("membership") /\ MW = worker["membership"] /\ MW' = worker'["membership"]
    BY DEF StepOK, Controller, MW
  <1>2. CASE MW' \in {MW, IdleWorker}
    BY <1>2, IdleFacts DEF OwnTasks
  <1>3. CASE GoesOn("membership")
    BY <1>1, <1>3 DEF GoesOn, OwnTasks
  <1>4. CASE BeginsMember
    <2> DEFINE m == MW'.key
    <2>1. m \in Member /\ MW'.todo = Tasks(m, memCache[m]) /\ MW'.at # "removeFinalizer"
      BY <1>4 DEF BeginsMember
    <2>2. memCache[m] \in Membership
      BY <2>1 DEF Typed, TypeOK
    <2>3. \A t \in Tasks(m, memCache[m]) : t.member = m
      BY <2>1, <2>2, TaskFacts
    <2> QED
      BY <2>1, <2>3 DEF OwnTasks
  <1> QED
    BY <1>1, <1>2, <1>3, <1>4 DEF WorkerStep

LEMMA OnlyAskedKept == ASSUME Typed, WorkAsked, OnlyAskedRoles, StepOK PROVE OnlyAskedRoles'
  <1> SUFFICES ASSUME NEW p \in Project, NEW m \in Member, binding'[p][m] # None
               PROVE  [project |-> p, member |-> m, role |-> binding'[p][m]] \in asked'
    BY DEF OnlyAskedRoles
  <1>1. asked \subseteq asked' /\ BindStep(p, m)
    BY DEF StepOK
  <1>2. CASE binding'[p][m] = binding[p][m]
    BY <1>1, <1>2 DEF OnlyAskedRoles
  <1>3. ASSUME NEW ctl \in Controller, NEW t \in worker[ctl].todo,
               t.project = p, t.member = m, binding'[p][m] = t.role
        PROVE  t \in asked' /\ t = [project |-> p, member |-> m, role |-> binding'[p][m]]
    <2>1. t \in asked /\ asked \subseteq Task
      BY DEF WorkAsked, Typed, TypeOK
    <2> QED
      BY <1>1, <1>3, <2>1 DEF Task
  <1> QED
    BY <1>1, <1>2, <1>3 DEF BindStep

(* What is sealed stays sealed, and nothing is bound there.                *)
LEMMA SealedKept ==
    ASSUME Typed, CacheBehind, OwnTasks, StepOK,
           NEW p \in Project, NEW m \in Member, Sealed(p, m)
    PROVE  Sealed(p, m)' /\ binding'[p][m] \in {binding[p][m], None}
  <1>1. /\ MW = worker["membership"] /\ MW' = worker'["membership"]
        /\ PW = worker["project"] /\ PW' = worker'["project"]
        /\ WorkerStep("membership") /\ WorkerStep("project")
    BY DEF StepOK, Controller, MW, PW
  <1>2. memCache[m].life \in Ended /\ ~Serving(m) /\ ~HasTask(PW, p, m)
    BY DEF Sealed
  <1>3. memCache'[m].life \in Ended
    BY <1>2 DEF StepOK, CacheBehind
  <1>4. ~Serving(m)'
    <2>1. CASE MW' \in {MW, IdleWorker}
      BY <1>2, <2>1, IdleFacts DEF Serving, ServePhase
    <2>2. CASE GoesOn("membership")
      BY <1>1, <1>2, <2>2 DEF GoesOn, Serving, ServePhase
    <2>3. CASE BeginsMember
      BY <1>2, <2>3 DEF BeginsMember, Serving, ServePhase, Ended
    <2> QED
      BY <1>1, <2>1, <2>2, <2>3 DEF WorkerStep
  <1>5. ~HasTask(PW', p, m)
    <2>1. CASE PW' \in {PW, IdleWorker}
      BY <1>2, <2>1, IdleFacts DEF HasTask
    <2>2. CASE GoesOn("project")
      BY <1>1, <1>2, <2>2 DEF GoesOn, HasTask
    <2>3. CASE BeginsProject
      BY <1>2, <2>3, PulledFacts DEF BeginsProject, HasTask, Ended
    <2> QED
      BY <1>1, <2>1, <2>2, <2>3 DEF WorkerStep
  <1>6. binding'[p][m] \in {binding[p][m], None}
    <2>1. ASSUME NEW t \in MW.todo, MW.at \in {"apply", "create"}, t.member = m PROVE FALSE
      BY <1>2, <2>1 DEF OwnTasks, Serving, ServePhase
    <2>2. ASSUME NEW t \in PW.todo, t.project = p, t.member = m PROVE FALSE
      BY <1>2, <2>2 DEF HasTask
    <2>3. BindStep(p, m)
      BY DEF StepOK
    <2> QED
      BY <1>1, <2>1, <2>2, <2>3 DEF BindStep, Controller
  <1> QED
    BY <1>3, <1>4, <1>5, <1>6 DEF Sealed

LEMMA RevocationKept ==
    ASSUME Typed, CacheBehind, OwnTasks, Revocation, StepOK PROVE Revocation'
  <1> SUFFICES ASSUME NEW p \in Project, NEW m \in Member, <<p, m>> \notin missed'
               PROVE  /\ Revoking(m)' =>
                            /\ Sealed(p, m)'
                            /\ binding'[p][m] = None \/ (MW'.at = "revoke" /\ HasTask(MW', p, m))
                      /\ mem'[m].life = "gone" => Sealed(p, m)' /\ binding'[p][m] = None
    BY DEF Revocation
  <1>1. /\ MW = worker["membership"] /\ MW' = worker'["membership"]
        /\ WorkerStep("membership") /\ MemStep(m) /\ <<p, m>> \notin missed
    BY DEF StepOK, Controller, MW
  <1>2. /\ Revoking(m) =>
              /\ Sealed(p, m)
              /\ binding[p][m] = None \/ (MW.at = "revoke" /\ HasTask(MW, p, m))
        /\ mem[m].life = "gone" => Sealed(p, m) /\ binding[p][m] = None
    BY <1>1 DEF Revocation
  <1>3. ASSUME Revoking(m)'
        PROVE  /\ Sealed(p, m)'
               /\ binding'[p][m] = None \/ (MW'.at = "revoke" /\ HasTask(MW', p, m))
    <2>1. MW'.key = m /\ MW'.at \in RevokePhase
      BY <1>3 DEF Revoking
    <2>2. CASE MW' = MW
      <3>1. Revoking(m)
        BY <2>1, <2>2 DEF Revoking
      <3> QED
        BY <1>2, <2>2, <3>1, SealedKept
    <2>3. CASE GoesOn("membership")
      <3>1. Revoking(m) /\ MW.at = "revoke"
        BY <1>1, <2>1, <2>3 DEF GoesOn, Revoking, RevokePhase
      <3>2. Sealed(p, m)' /\ binding'[p][m] \in {binding[p][m], None}
        BY <1>2, <3>1, SealedKept
      <3>3. CASE HasTask(MW, p, m)
        <4>1. PICK t \in MW.todo : t.project = p /\ t.member = m
          BY <3>3 DEF HasTask
        <4>2. CASE t \in MW'.todo
          <5>1. MW'.at = "revoke"
            BY <1>1, <2>1, <2>3, <4>2 DEF GoesOn, RevokePhase
          <5> QED
            BY <3>2, <4>1, <4>2, <5>1 DEF HasTask
        <4>3. CASE t \notin MW'.todo
          BY <1>1, <2>3, <3>1, <3>2, <4>1, <4>3 DEF GoesOn
        <4> QED
          BY <4>2, <4>3
      <3> QED
        BY <1>2, <3>1, <3>2, <3>3
    <2>4. CASE BeginsMember
      <3>1. /\ MW'.at = "revoke" /\ memCache[m].life = "deleting" /\ UNCHANGED memCache
            /\ p \in Targets(memCache[m]) /\ ~HasTask(PW, p, m) /\ PW' = PW
            /\ MW'.todo = Tasks(m, memCache[m])
        BY <2>1, <2>4 DEF BeginsMember, RevokePhase
      <3>2. memCache[m] \in Membership
        BY DEF Typed, TypeOK
      <3>3. HasTask(MW', p, m)
        BY <3>1, <3>2, TaskFacts DEF HasTask
      <3>4. Sealed(p, m)'
        BY <2>1, <3>1 DEF Sealed, Serving, ServePhase, Ended
      <3> QED
        BY <3>1, <3>3, <3>4
    <2> QED
      BY <1>1, <2>1, <2>2, <2>3, <2>4, IdleFacts DEF WorkerStep, RevokePhase
  <1>4. ASSUME mem'[m].life = "gone" PROVE Sealed(p, m)' /\ binding'[p][m] = None
    <2>1. CASE mem[m].life = "gone"
      BY <1>2, <2>1, SealedKept
    <2>2. CASE /\ MW.at = "removeFinalizer" /\ MW.key = m /\ MW'.at = "idle"
               /\ UNCHANGED <<memCache, binding, missed>> /\ PW' = PW
      <3>1. Sealed(p, m) /\ binding[p][m] = None
        BY <1>2, <2>2 DEF Revoking, RevokePhase
      <3> QED
        BY <2>2, <3>1, SealedKept
    <2>3. <<p, m>> \in Project \X {m}
      OBVIOUS
    <2> QED
      BY <1>1, <1>4, <2>1, <2>2, <2>3 DEF MemStep
  <1> QED
    BY <1>3, <1>4

LEMMA InvKept == ASSUME Inv, [Next]_vars PROVE Inv'
  <1>1. CASE Next
    <2>1. StepOK /\ Typed'
      BY <1>1, EveryStep DEF Inv, StepOK
    <2> QED
      BY <2>1, CacheBehindKept, WorkAskedKept, OwnTasksKept, OnlyAskedKept, RevocationKept DEF Inv
  <1>2. CASE UNCHANGED vars
    <2>1. /\ UNCHANGED <<mem, memCache, proj, projCache, ws, binding, bindCache>>
          /\ UNCHANGED <<queue, worker, events, asked, missed>> /\ MW' = MW /\ PW' = PW
      BY <1>2 DEF vars, objects, caches, bindings, history, MW, PW
    <2>2. Typed' /\ CacheBehind' /\ WorkAsked' /\ OwnTasks' /\ OnlyAskedRoles'
      BY <2>1 DEF Inv, Typed, TypeOK, CacheBehind, WorkAsked, AskedFor, OwnTasks, OnlyAskedRoles
    <2>3. Revocation'
      BY <2>1 DEF Inv, Revocation, Revoking, Sealed, Serving
    <2> QED
      BY <2>2, <2>3 DEF Inv
  <1> QED
    BY <1>1, <1>2

(* The invariant holds in every state that the two controllers, the users  *)
(* and the failures can reach together.                                    *)
THEOREM AlwaysInv == SafeSpec => []Inv
  BY Initially, InvKept, PTL DEF SafeSpec

(* No workspace binds a role that nobody asked for there, and a membership *)
(* that is gone stays revoked wherever its revocation could look, with     *)
(* caches however stale: reconcileMembership, reconcileProject, applyRBAC. *)
THEOREM GrantsAreAskedForAndRevoked == SafeSpec => []GrantsInv
  <1>1. Inv => GrantsInv
    BY DEF Inv, GrantsInv, Typed, RevokedStaysRevoked, Revocation
  <1> QED
    BY <1>1, AlwaysInv, PTL
=============================================================================

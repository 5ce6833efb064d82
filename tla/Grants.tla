------------------------------- MODULE Grants -------------------------------
(***************************************************************************)
(* How the tenancy operator turns the Memberships of one tenant into role  *)
(* bindings in its project workspaces (tenancy/pkg/operator: membership.go *)
(* and the second half of project.go).  Two controllers write the same     *)
(* bindings: the membership controller pushes a grant into every project   *)
(* it covers, the project controller pulls every grant that covers a       *)
(* project into it.  Each call to an API server is a step; reads come from *)
(* informer caches, which are snapshots of an earlier moment.              *)
(*                                                                         *)
(* What provisioning does to a project's workspace is the subject of       *)
(* Provisioning and appears here as its outcome.  A copy of an object is   *)
(* current when it equals the object: an edit that was undone is no edit.  *)
(***************************************************************************)
EXTENDS Naturals, FiniteSets

CONSTANTS
    Member,      \* Membership objects
    Project,     \* Project objects, which stand for their workspaces, too
    Role,        \* roles of a Membership
    None,        \* no role: there is no binding
    AllProjects, \* the scope of a tenant-wide grant
    Scope,       \* the scopes users ask for: AllProjects or a project's name
    Lagging,     \* whether the cache of role bindings may lag
    MaxEvents    \* bound on edits, failures and restarts

ASSUME ScopeAssumption == AllProjects \notin Project
ASSUME RoleAssumption == None \notin Role
ASSUME SomeAssumption == /\ Member # {} /\ Project # {} /\ Role # {} /\ Scope # {}
                         /\ MaxEvents \in Nat

VARIABLES
    mem, memCache,     \* Memberships and the informer's copies
    proj, projCache,   \* Projects and the informer's copies
    ws,                \* ws[p]: the workspace of p as kcp has it
    binding, bindCache,\* binding[p][m]: the role bound for m in p's workspace
    queue,             \* the work queues: memberships and projects
    worker,            \* worker[ctl]: the reconcile in progress
    events,            \* how many bounded events have happened
    asked,             \* history: every (project, membership, role) that some
                       \* version of the membership asked for
    missed             \* history: the (project, membership) pairs that the
                       \* revocation of the membership could not cover

objects == <<mem, proj, ws>>
caches == <<memCache, projCache>>
bindings == <<binding, bindCache>>
history == <<events, asked, missed>>
vars == <<objects, caches, bindings, queue, worker, history>>

Phase == {"", "Pending", "Ready", "Error"}

Membership == [life : {"absent", "live", "deleting", "gone"}, role : Role,
               scope : Scope, finalizer : BOOLEAN, phase : Phase]

ProjectObject == [life : {"absent", "live", "deleting", "gone"}, phase : Phase]

(* One applyRBAC call: bind `role` for membership m in p's workspace. *)
Task == [project : Project, member : Member, role : Role]

Controller == {"membership", "project"}

(* key: what is reconciled; copy: the membership as it was read; todo: the *)
(* bindings still to apply or to delete; task: the one being replaced;     *)
(* phase: the status about to be written.                                  *)
Worker == [at : {"idle", "addFinalizer", "apply", "create", "revoke", "status",
                 "removeFinalizer"},
           key : Member \cup Project, copy : Membership, todo : SUBSET Task,
           task : Task, phase : Phase]

TypeOK ==
    /\ mem \in [Member -> Membership] /\ memCache \in [Member -> Membership]
    /\ proj \in [Project -> ProjectObject] /\ projCache \in [Project -> ProjectObject]
    /\ ws \in [Project -> {"none", "new", "ready", "gone"}]
    /\ binding \in [Project -> [Member -> Role \cup {None}]]
    /\ bindCache \in [Project -> [Member -> Role \cup {None}]]
    /\ queue \subseteq Member \cup Project
    /\ worker \in [Controller -> Worker]
    /\ events \in 0..MaxEvents
    /\ asked \subseteq Task /\ missed \subseteq Project \X Member

Covers(scope, p) == scope \in {AllProjects, p}

AskedBy(m, o) == {[project |-> p, member |-> m, role |-> o.role] :
                    p \in {q \in Project : Covers(o.scope, q)}}

NoBindings == [p \in Project |-> [m \in Member |-> None]]

NewMembership == [life |-> "absent", role |-> CHOOSE r \in Role : TRUE,
                  scope |-> CHOOSE s \in Scope : TRUE, finalizer |-> FALSE, phase |-> ""]

Gone == [NewMembership EXCEPT !.life = "gone"]

(* A worker between two reconciles keeps nothing. *)
IdleWorker ==
    LET m == CHOOSE m \in Member : TRUE
        p == CHOOSE p \in Project : TRUE
    IN  [at |-> "idle", key |-> m, copy |-> NewMembership, todo |-> {},
         task |-> [project |-> p, member |-> m, role |-> NewMembership.role], phase |-> ""]

Init ==
    /\ mem = [m \in Member |-> NewMembership]
    /\ memCache = mem
    /\ proj = [p \in Project |-> [life |-> "absent", phase |-> ""]]
    /\ projCache = proj
    /\ ws = [p \in Project |-> "none"]
    /\ binding = NoBindings /\ bindCache = NoBindings
    /\ queue = {}
    /\ worker = [ctl \in Controller |-> IdleWorker]
    /\ events = 0 /\ asked = {} /\ missed = {}

-----------------------------------------------------------------------------
Event == events < MaxEvents /\ events' = events + 1

(* Users create, edit and delete Memberships and Projects. *)
WriteMembership(m, o) ==
    /\ mem' = [mem EXCEPT ![m] = o]
    /\ asked' = asked \cup AskedBy(m, o)
    /\ UNCHANGED <<proj, ws, caches, bindings, queue, worker>>

(* Roles are interchangeable, so a new grant may as well ask for the one   *)
(* that the record starts with.                                            *)
CreateMembership(m, s) ==
    /\ mem[m].life = "absent"
    /\ WriteMembership(m, [mem[m] EXCEPT !.life = "live", !.scope = s])
    /\ UNCHANGED <<events, missed>>

(* One field at a time: an edit of both is two that nobody sees between. *)
EditMembership(m, r, s) ==
    /\ mem[m].life \in {"live", "deleting"} /\ (r = mem[m].role) # (s = mem[m].scope)
    /\ Event
    /\ WriteMembership(m, [mem[m] EXCEPT !.role = r, !.scope = s])
    /\ UNCHANGED missed

(* Without a finalizer the object goes at once, and nothing is revoked. *)
DeleteMembership(m) ==
    /\ mem[m].life = "live"
    /\ \/ /\ mem[m].finalizer
          /\ mem' = [mem EXCEPT ![m].life = "deleting"]
          /\ UNCHANGED missed
       \/ /\ ~mem[m].finalizer
          /\ mem' = [mem EXCEPT ![m] = Gone]
          /\ missed' = missed \cup (Project \X {m})
    /\ UNCHANGED <<proj, ws, caches, bindings, queue, worker, events, asked>>

CreateProject(p) ==
    /\ proj[p].life = "absent"
    /\ proj' = [proj EXCEPT ![p].life = "live"]
    /\ ws' = [ws EXCEPT ![p] = "new"]
    /\ UNCHANGED <<mem, caches, bindings, queue, worker, history>>

DeleteProject(p) ==
    /\ proj[p].life = "live"
    /\ proj' = [proj EXCEPT ![p].life = "deleting"]
    /\ UNCHANGED <<mem, ws, caches, bindings, queue, worker, history>>

(* Provisioning: the workspace becomes ready; that of a deleted project    *)
(* goes, with the bindings in it, before the project does.                 *)
WorkspaceReady(p) ==
    /\ ws[p] = "new"
    /\ ws' = [ws EXCEPT ![p] = "ready"]
    /\ UNCHANGED <<mem, proj, caches, bindings, queue, worker, history>>

WorkspaceGone(p) ==
    /\ proj[p].life = "deleting" /\ ws[p] # "gone"
    /\ ws' = [ws EXCEPT ![p] = "gone"]
    /\ binding' = [binding EXCEPT ![p] = NoBindings[p]]
    /\ bindCache' = [bindCache EXCEPT ![p] = NoBindings[p]]
    /\ UNCHANGED <<mem, proj, caches, queue, worker, history>>

ProjectGone(p) ==
    /\ proj[p].life = "deleting" /\ ws[p] = "gone"
    /\ proj' = [proj EXCEPT ![p].life = "gone"]
    /\ UNCHANGED <<mem, ws, caches, bindings, queue, worker, history>>

(* The informers catch up and queue what has changed. *)
WatchMemberships ==
    /\ memCache # mem
    /\ memCache' = mem
    /\ queue' = queue \cup {m \in Member : memCache[m] # mem[m]}
    /\ UNCHANGED <<objects, projCache, bindings, worker, history>>

WatchProjects ==
    /\ projCache # proj
    /\ projCache' = proj
    /\ queue' = queue \cup {p \in Project : projCache[p] # proj[p]}
    /\ UNCHANGED <<objects, memCache, bindings, worker, history>>

WatchBindings ==
    /\ bindCache # binding
    /\ bindCache' = binding
    /\ UNCHANGED <<objects, caches, binding, queue, worker, history>>

(* Every informer queues all it holds once per resync period, which is ten *)
(* hours: whatever was queued is long done.                                *)
Resync ==
    /\ queue = {} /\ \A ctl \in Controller : worker[ctl].at = "idle"
    /\ queue' = {m \in Member : memCache[m].life \in {"live", "deleting"}}
                    \cup {p \in Project : projCache[p].life \in {"live", "deleting"}}
    /\ queue' # {}
    /\ UNCHANGED <<objects, caches, bindings, worker, history>>

-----------------------------------------------------------------------------
At(ctl, step) == worker[ctl].at = step

Goto(ctl, step) == worker' = [worker EXCEPT ![ctl].at = step]

(* A reconcile returns; after an error or a request to requeue its key     *)
(* comes back.                                                             *)
Return(ctl) == worker' = [worker EXCEPT ![ctl] = IdleWorker]

ReturnDone(ctl) == Return(ctl) /\ UNCHANGED queue

ReturnAgain(ctl) == Return(ctl) /\ queue' = queue \cup {worker[ctl].key}

IsReady(o) == o.life \in {"live", "deleting"} /\ o.phase = "Ready"

(* targetClusters: the ready projects a grant covers, from the cache; the  *)
(* project of a scoped grant may be missing.                               *)
Targets(o) == {p \in Project : Covers(o.scope, p) /\ IsReady(projCache[p])}

ScopeMissing(o) ==
    /\ o.scope # AllProjects
    /\ o.scope \in Project => projCache[o.scope].life \notin {"live", "deleting"}

Tasks(m, o) == {[project |-> p, member |-> m, role |-> o.role] : p \in Targets(o)}

(* reconcileMembership up to its first write. *)
ReconcileMembership(m) ==
    LET o == memCache[m]
        start(step, todo, phase) ==
            worker' = [worker EXCEPT !["membership"] =
                [@ EXCEPT !.at = step, !.key = m, !.copy = o, !.todo = todo, !.phase = phase]]
    IN  /\ At("membership", "idle")
        /\ m \in queue
        /\ queue' = queue \ {m}
        /\ \/ /\ o.life \in {"absent", "gone"}
              /\ UNCHANGED <<worker, missed>>
           \/ /\ o.life = "deleting"
              /\ start("revoke", Tasks(m, o), "")
              /\ missed' = missed \cup
                    {pm \in Project \X {m} :
                        \/ pm[1] \notin Targets(o)
                        \/ \E t \in worker["project"].todo : t.project = pm[1] /\ t.member = m}
           \/ /\ o.life = "live"
              /\ start(IF o.finalizer
                         THEN IF Targets(o) = {} THEN "status" ELSE "apply"
                         ELSE "addFinalizer",
                       Tasks(m, o),
                       CASE ScopeMissing(o) -> "Error"
                         [] Targets(o) = {} /\ ~ScopeMissing(o) -> "Pending"
                         [] OTHER -> "Ready")
              /\ UNCHANGED missed
        /\ UNCHANGED <<objects, caches, bindings, events, asked>>

(* A copy that is not current is a conflict, an object that is gone an     *)
(* error: both are retried.                                                *)
AddFinalizer ==
    LET w == worker["membership"]
        new == [w.copy EXCEPT !.finalizer = TRUE]
    IN  /\ At("membership", "addFinalizer")
        /\ \/ /\ mem[w.key] = w.copy
              /\ mem' = [mem EXCEPT ![w.key] = new]
              /\ worker' = [worker EXCEPT !["membership"] =
                    [@ EXCEPT !.copy = new, !.at = IF w.todo = {} THEN "status" ELSE "apply"]]
              /\ UNCHANGED queue
           \/ /\ mem[w.key] # w.copy
              /\ ReturnAgain("membership")
              /\ UNCHANGED mem
        /\ UNCHANGED <<proj, ws, caches, bindings, history>>

MutPulledDeleting(p) ==   \* does not skip what is being deleted
    {[project |-> p, member |-> m, role |-> memCache[m].role] :
        m \in {n \in Member : /\ memCache[n].life \in {"live", "deleting"}
                              /\ Covers(memCache[n].scope, p)}}

Pulled(p) ==
    {[project |-> p, member |-> m, role |-> memCache[m].role] :
        m \in {n \in Member : memCache[n].life = "live" /\ Covers(memCache[n].scope, p)}}

(* reconcileProject: provisioning has found the workspace ready, not ready *)
(* yet or failed, and the status says so unless the cached copy was stale. *)
(* With a ready workspace, applyMembershipsTo lists the cached grants.     *)
ReconcileProject(p, failed) ==
    LET o == projCache[p]
        phase == CASE failed -> "Error"
                   [] ~failed /\ ws[p] = "ready" -> "Ready"
                   [] OTHER -> "Pending"
    IN  /\ At("project", "idle")
        /\ p \in queue
        /\ failed => Event
        /\ ~failed => UNCHANGED events
        /\ \/ /\ o.life # "live" /\ ~failed
              /\ queue' = queue \ {p}
              /\ UNCHANGED <<proj, worker>>
           \/ /\ o.life = "live"
              /\ proj' = IF o = proj[p] THEN [proj EXCEPT ![p].phase = phase] ELSE proj
              /\ IF phase = "Ready"
                 THEN /\ queue' = queue \ {p}
                      /\ worker' = IF Pulled(p) = {} THEN worker
                                   ELSE [worker EXCEPT !["project"] =
                                            [@ EXCEPT !.at = "apply", !.key = p, !.todo = Pulled(p)]]
                 ELSE UNCHANGED <<queue, worker>>
        /\ UNCHANGED <<mem, ws, caches, bindings, asked, missed>>

-----------------------------------------------------------------------------
Bind(p, m, r) ==
    /\ binding' = [binding EXCEPT ![p][m] = r]
    /\ bindCache' = IF Lagging THEN bindCache ELSE binding'

(* One grant is in place; the next one, or the end of the loop. *)
Applied(ctl, t) ==
    LET rest == worker[ctl].todo \ {t}
        next(step) == [worker[ctl] EXCEPT !.todo = rest, !.task = IdleWorker.task, !.at = step]
    IN  worker' = [worker EXCEPT ![ctl] =
                      CASE rest # {} -> next("apply")
                        [] rest = {} /\ ctl = "membership" -> next("status")
                        [] OTHER -> IdleWorker]

(* applyRBAC failed: the membership's status says so, the project is tried *)
(* again.                                                                  *)
ApplyFailed(ctl) ==
    \/ /\ ctl = "membership"
       /\ worker' = [worker EXCEPT ![ctl] =
              [@ EXCEPT !.at = "status", !.todo = {}, !.task = IdleWorker.task, !.phase = "Error"]]
       /\ UNCHANGED queue
    \/ /\ ctl = "project"
       /\ ReturnAgain(ctl)

(* The existing binding is the desired one. *)
MutMatchesAny(seen, role) == TRUE
Matches(seen, role) == seen = role

(* applyRBAC up to its first write.  AlreadyExists is no error here; a     *)
(* different role means that the binding is replaced, starting with its    *)
(* deletion.  A workspace that cannot be reached ends the reconcile.       *)
ApplyRBAC(ctl) ==
    /\ At(ctl, "apply")
    /\ \E t \in worker[ctl].todo :
         LET seen == bindCache[t.project][t.member]
             there == binding[t.project][t.member]
         IN  \/ /\ ws[t.project] # "ready"
                /\ ReturnAgain(ctl)
                /\ UNCHANGED bindings
             \/ /\ ws[t.project] = "ready"
                /\ seen = None
                /\ IF there = None THEN Bind(t.project, t.member, t.role) ELSE UNCHANGED bindings
                /\ Applied(ctl, t)
                /\ UNCHANGED queue
             \/ /\ ws[t.project] = "ready"
                /\ seen # None /\ Matches(seen, t.role)
                /\ Applied(ctl, t)
                /\ UNCHANGED <<bindings, queue>>
             \/ /\ ws[t.project] = "ready"
                /\ seen # None /\ ~Matches(seen, t.role)
                /\ Bind(t.project, t.member, None)
                /\ worker' = [worker EXCEPT ![ctl] = [@ EXCEPT !.at = "create", !.task = t]]
                /\ UNCHANGED queue
    /\ UNCHANGED <<objects, caches, history>>

(* The second half of a replacement; here AlreadyExists is an error. *)
CreateReplacement(ctl) ==
    LET t == worker[ctl].task IN
    /\ At(ctl, "create")
    /\ \/ /\ ws[t.project] = "ready" /\ binding[t.project][t.member] = None
          /\ Bind(t.project, t.member, t.role)
          /\ Applied(ctl, t)
          /\ UNCHANGED queue
       \/ /\ ws[t.project] # "ready" \/ binding[t.project][t.member] # None
          /\ ApplyFailed(ctl)
          /\ UNCHANGED bindings
    /\ UNCHANGED <<objects, caches, history>>

(* The bindings of a membership that is being deleted, one by one. *)
Revoke ==
    /\ At("membership", "revoke")
    /\ \/ \E t \in worker["membership"].todo :
            \/ /\ ws[t.project] = "ready"
               /\ Bind(t.project, t.member, None)
               /\ worker' = [worker EXCEPT !["membership"].todo = @ \ {t}]
               /\ UNCHANGED queue
            \/ /\ ws[t.project] # "ready"
               /\ ReturnAgain("membership")
               /\ UNCHANGED bindings
       \/ /\ worker["membership"].todo = {}
          /\ Goto("membership", "removeFinalizer")
          /\ UNCHANGED <<bindings, queue>>
    /\ UNCHANGED <<objects, caches, history>>

RemoveFinalizer ==
    LET w == worker["membership"] IN
    /\ At("membership", "removeFinalizer")
    /\ \/ /\ mem[w.key] = w.copy
          /\ mem' = [mem EXCEPT ![w.key] = Gone]
          /\ ReturnDone("membership")
       \/ /\ mem[w.key] # w.copy
          /\ IF mem[w.key].life = "gone" THEN ReturnDone("membership") ELSE ReturnAgain("membership")
          /\ UNCHANGED mem
    /\ UNCHANGED <<proj, ws, caches, bindings, history>>

(* updateMembershipStatus: an equal status is not written, a conflict is   *)
(* dropped, an object that is gone is an error.                            *)
WriteStatus ==
    LET w == worker["membership"]
        write == w.copy.phase # w.phase
    IN  /\ At("membership", "status")
        /\ mem' = IF write /\ mem[w.key] = w.copy
                  THEN [mem EXCEPT ![w.key].phase = w.phase]
                  ELSE mem
        /\ IF w.phase = "Ready" /\ ~(write /\ mem[w.key].life = "gone")
           THEN ReturnDone("membership")
           ELSE ReturnAgain("membership")
        /\ UNCHANGED <<proj, ws, caches, bindings, history>>

(* A call fails, or the operator restarts and lists everything again. *)
CallFails(ctl) ==
    /\ Event
    /\ \/ worker[ctl].at \in {"apply", "create"} /\ ApplyFailed(ctl)
       \/ worker[ctl].at \in {"addFinalizer", "revoke", "status", "removeFinalizer"}
            /\ ReturnAgain(ctl)
    /\ UNCHANGED <<objects, caches, bindings, asked, missed>>

Restart ==
    /\ Event
    /\ worker' = [ctl \in Controller |-> IdleWorker]
    /\ memCache' = mem /\ projCache' = proj /\ bindCache' = binding
    /\ queue' = {m \in Member : mem[m].life \in {"live", "deleting"}}
                    \cup {p \in Project : proj[p].life \in {"live", "deleting"}}
    /\ UNCHANGED <<objects, binding, asked, missed>>

Provision ==
    \E p \in Project : WorkspaceReady(p) \/ WorkspaceGone(p) \/ ProjectGone(p)

Watch == WatchMemberships \/ WatchProjects \/ WatchBindings

Call(ctl) ==
    \/ ApplyRBAC(ctl)
    \/ CreateReplacement(ctl)
    \/ ctl = "membership" /\ (AddFinalizer \/ Revoke \/ RemoveFinalizer \/ WriteStatus)

Next ==
    \/ \E m \in Member, s \in Scope :
            CreateMembership(m, s) \/ \E r \in Role : EditMembership(m, r, s)
    \/ \E m \in Member : DeleteMembership(m) \/ ReconcileMembership(m)
    \/ \E p \in Project : CreateProject(p) \/ DeleteProject(p)
                            \/ ReconcileProject(p, FALSE) \/ ReconcileProject(p, TRUE)
    \/ Provision
    \/ Watch
    \/ Resync
    \/ \E ctl \in Controller : Call(ctl) \/ CallFails(ctl)
    \/ Restart

SafeSpec == Init /\ [][Next]_vars

(* Watches deliver, informers resync, provisioning goes on, queued keys    *)
(* are taken in turn and calls return.                                     *)
Fairness ==
    /\ WF_vars(WatchMemberships) /\ WF_vars(WatchProjects) /\ WF_vars(WatchBindings)
    /\ WF_vars(Resync) /\ WF_vars(Provision)
    /\ \A p \in Project : SF_vars(ReconcileProject(p, FALSE))
    /\ \A m \in Member : SF_vars(ReconcileMembership(m))
    /\ \A ctl \in Controller : WF_vars(Call(ctl))

Spec == SafeSpec /\ Fairness

-----------------------------------------------------------------------------
(* No workspace ever binds a role that no version of the membership asked  *)
(* for there, whichever controller wrote it and however stale its copy     *)
(* was: a grant scoped to one project never shows up in another.           *)
OnlyAskedRoles ==
    \A p \in Project, m \in Member : binding[p][m] # None =>
        [project |-> p, member |-> m, role |-> binding[p][m]] \in asked

(* A membership that is gone has no binding left in any project that was a *)
(* ready target when the revocation looked and into which no pull of the   *)
(* grant was under way: no later pull, retry or restart brings it back.    *)
RevokedStaysRevoked ==
    \A p \in Project, m \in Member :
        mem[m].life = "gone" /\ <<p, m>> \notin missed => binding[p][m] = None

(* Once users stop, every live grant is bound with its present role in     *)
(* every ready project it covers, the ones created later included.         *)
GrantsConverge ==
    <>[](\A m \in Member, p \in Project :
            /\ mem[m].life = "live" /\ Covers(mem[m].scope, p)
            /\ proj[p].life = "live" /\ proj[p].phase = "Ready"
            => binding[p][m] = mem[m].role)

(* The finalizer does not hold a deleted membership for ever, not even     *)
(* when a project it covers is being torn down.                            *)
RevocationCompletes ==
    \A m \in Member : mem[m].life = "deleting" ~> mem[m].life = "gone"

(* types.go: "deleting the Membership removes that RBAC again." *)
RevokedGrantGone ==
    \A p \in Project, m \in Member : mem[m].life = "gone" => binding[p][m] = None

(* No workspace has a grant that nobody asked for or that was revoked      *)
(* (pullMemberships, reconcileMembership).                                 *)
GrantsInv == TypeOK /\ OnlyAskedRoles /\ RevokedStaysRevoked

(* The operator gets done with every membership: a live one is bound       *)
(* everywhere, a deleted one goes.                                         *)
GrantsSettle == GrantsConverge /\ RevocationCompletes
=============================================================================

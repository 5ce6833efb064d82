----------------------------- MODULE SelfService -----------------------------
(***************************************************************************)
(* How tenants, projects and grants come to be asked for: the tenancy      *)
(* commands of administrators (tenancy/pkg/cli), which make their requests *)
(* one after the other and can be interrupted between any two, and the     *)
(* request APIs of the virtual workspace (selftenantrequest and            *)
(* selfprojectrequest), which act on a caller's behalf by a directory that *)
(* lags.  Tenants are deleted and made again meanwhile, in a new workspace.*)
(***************************************************************************)
EXTENDS Naturals, Sequences, FiniteSets

CONSTANTS
  Command,     \* terminals of administrators
  User,        \* subjects, who also call the request APIs
  Tenant, Project,
  TenantWide,  \* the empty spec.project
  Nobody,      \* no first admin
  NoTenant, NoGrant,
  Seeds,       \* what seed is asked for: [admins, views, project]
  Remembered,  \* what use may have selected: [tenant, project]
  Caller,      \* the users who call the request APIs
  Offered,     \* those for whom self-service tenants are enabled
  MaxRequests, \* bound: commands, and requests for tenants
  MaxClusters  \* bound: workspaces of tenants that are made

TenantCluster == 1..MaxClusters
Role == {"view", "edit", "admin"}
\* A grant's name is derived from whom it is for and what it covers.
GrantKey == [cluster : TenantCluster, subject : User, project : Project \cup {TenantWide}]

\* What the API server keeps.
TenantRecord == [admin : User \cup {Nobody}, cluster : 0..MaxClusters, seeded : BOOLEAN, leaving : BOOLEAN]
GrantRecord == [role : Role, version : Nat]

ASSUME SelfServiceAssumption ==
  /\ MaxRequests \in Nat /\ MaxClusters \in Nat \ {0}
  /\ Offered \subseteq Caller /\ Caller \subseteq User /\ Nobody \notin User /\ TenantWide \notin Project
  /\ NoTenant \notin TenantRecord /\ NoGrant \notin GrantRecord
  /\ \A s \in Seeds : /\ s.admins \in Seq(User) /\ s.views \in Seq(User)
                      /\ s.project \in Project \cup {TenantWide}
  /\ Remembered \subseteq [tenant : Tenant, project : Project]

VARIABLES
  tenants,   \* [Tenant -> [admin, cluster, seeded, leaving] or NoTenant]
  projects,  \* {[cluster, name, ready, by]}
  grants,    \* [GrantKey -> [role, version] or NoGrant]
  mirror,    \* the directory: the clusters of tenants, and the roles of grants
  job,       \* [Command \cup Caller -> what it is doing]
  made,      \* how many clusters were made
  requests,
  admins     \* history: {<<user, cluster>>} who was a tenant-wide admin

tenancyVars == <<tenants, projects, grants, mirror, job, made, requests, admins>>

Resting == [kind |-> "none", step |-> "rest", tenant |-> NoTenant, admin |-> Nobody,
            cluster |-> 0, project |-> TenantWide, wait |-> TRUE, todo |-> <<>>, wants |-> {},
            read |-> NoGrant, undone |-> FALSE, raced |-> FALSE]

Entry(subject, project, role) == [subject |-> subject, project |-> project, role |-> role]
KeyOf(c, e) == [cluster |-> c, subject |-> e.subject, project |-> e.project]

\* What was asked for last of a grant is what it is to be.
Wants(todo) ==
  {todo[i] : i \in {i \in DOMAIN todo : \A j \in DOMAIN todo :
     j > i => [todo[j] EXCEPT !.role = "view"] # [todo[i] EXCEPT !.role = "view"]}}

\* Others whose work a write concerns: it undoes what they want, or races it.
Noticed(p, r, touches(_), undoes(_)) ==
  [q \in DOMAIN job |->
     IF q = p THEN r
     ELSE IF job[q].step = "rest" \/ ~touches(job[q]) THEN job[q]
     ELSE [job[q] EXCEPT !.raced = TRUE, !.undone = @ \/ undoes(job[q])]]

WritesGrant(p, r, key, grant) ==
  LET same(w, q) == q.cluster \in {0, key.cluster} /\ w.subject = key.subject /\ w.project = key.project
      touches(q) == \E w \in q.wants : same(w, q)
      undoes(q) == grant = NoGrant \/ \E w \in q.wants : same(w, q) /\ w.role # grant.role
  IN
  /\ grants' = [grants EXCEPT ![key] = grant]
  /\ admins' = IF grant # NoGrant /\ grant.role = "admin" /\ key.project = TenantWide
               THEN admins \cup {<<key.subject, key.cluster>>} ELSE admins
  /\ job' = Noticed(p, r, touches, undoes)

Becomes(p, r) == job' = [job EXCEPT ![p] = r]
Refused(p) == Becomes(p, [job[p] EXCEPT !.step = "refused"])
Live(c) == \E t \in Tenant : tenants[t] # NoTenant /\ tenants[t].cluster = c /\ c # 0

-----------------------------------------------------------------------------
\* Commands begin.
Begin(p, r) ==
  /\ job[p] = Resting /\ requests < MaxRequests /\ requests' = requests + 1
  /\ Becomes(p, r)
  /\ UNCHANGED <<tenants, projects, grants, mirror, made, admins>>

Seed(p, t, s, wait) ==
  LET todo == [i \in DOMAIN s.admins |-> Entry(s.admins[i], TenantWide, "admin")]
              \o [i \in DOMAIN s.views |-> Entry(s.views[i], s.project, "view")]
  IN Begin(p, [Resting EXCEPT !.kind = "seed", !.step = "create tenant", !.tenant = t,
                 !.admin = IF s.admins = <<>> THEN Nobody ELSE Head(s.admins),
                 !.project = s.project, !.wait = wait, !.todo = todo, !.wants = Wants(todo)])

CreateTenantCommand(p, t, first, wait) ==
  Begin(p, [Resting EXCEPT !.kind = "tenant", !.step = "create tenant", !.tenant = t,
              !.admin = first, !.wait = wait])

CreateProjectCommand(p, t, name, wait) ==
  Begin(p, [Resting EXCEPT !.kind = "project", !.step = "tenant client", !.tenant = t,
              !.project = name, !.wait = wait])

DeleteProjectCommand(p, t, name) ==
  Begin(p, [Resting EXCEPT !.kind = "delete project", !.step = "tenant client", !.tenant = t,
              !.project = name])

Grant(p, t, e) ==
  Begin(p, [Resting EXCEPT !.kind = "grant", !.step = "tenant client", !.tenant = t,
              !.todo = <<e>>, !.wants = {e}])

Revoke(p, t, e) ==
  Begin(p, [Resting EXCEPT !.kind = "revoke", !.step = "tenant client", !.tenant = t, !.todo = <<e>>])

\* membership add and remove act where the flags say or else where use did;
\* without either flag that is the selected project.
SelectionFor(tenant, project, current) ==
  IF tenant # NoTenant THEN [tenant |-> tenant, project |-> project]
  ELSE [tenant |-> current.tenant,
        project |-> IF project # TenantWide THEN project ELSE current.project]

MembershipCommand(p, tenant, project, subject, role) ==
  \E current \in Remembered :
    LET at == SelectionFor(tenant, project, current) IN
    Grant(p, at.tenant, Entry(subject, at.project, role))
      \/ Revoke(p, at.tenant, Entry(subject, at.project, role))

-----------------------------------------------------------------------------
\* Their requests.
NewTenant(first) == [admin |-> first, cluster |-> 0, seeded |-> FALSE, leaving |-> FALSE]

AfterTenant(r) ==
  [r EXCEPT !.step = IF r.wait THEN "wait for tenant" ELSE
                     IF r.kind = "seed" THEN "tenant client" ELSE "done"]

\* tenant create: a name that is taken is an error.  seed: it is what is wanted.
ExistingTenant(r) == IF r.kind = "seed" THEN AfterTenant(r) ELSE [r EXCEPT !.step = "refused"]

CreateTenant(p) ==
  LET r == job[p] IN
  /\ r.step = "create tenant"
  /\ IF tenants[r.tenant] = NoTenant
     THEN /\ tenants' = [tenants EXCEPT ![r.tenant] = NewTenant(r.admin)]
          /\ Becomes(p, AfterTenant(r))
     ELSE Becomes(p, ExistingTenant(r)) /\ UNCHANGED tenants
  /\ UNCHANGED <<projects, grants, mirror, made, requests, admins>>

WaitForTenant(p) ==
  LET r == job[p] IN
  /\ r.step = "wait for tenant"
  /\ tenants[r.tenant] # NoTenant /\ tenants[r.tenant].cluster # 0
  /\ Becomes(p, [r EXCEPT !.step = IF r.kind = "seed" THEN "tenant client" ELSE "done"])
  /\ UNCHANGED <<tenants, projects, grants, mirror, made, requests, admins>>

\* Two minutes pass, or the user has had enough.
GiveUp(p) ==
  /\ job[p].step \in {"wait for tenant", "wait for project"}
  /\ Becomes(p, [job[p] EXCEPT !.step = "gave up"])
  /\ UNCHANGED <<tenants, projects, grants, mirror, made, requests, admins>>

NextGrant(r) == [r EXCEPT !.step = IF r.todo = <<>> THEN "done" ELSE "create grant"]

\* Everything further goes to the workspace that the tenant reported here.
TenantClient(p) ==
  LET r == job[p]
      found == [r EXCEPT !.cluster = tenants[r.tenant].cluster]
  IN
  /\ r.step = "tenant client"
  /\ IF tenants[r.tenant] = NoTenant THEN Refused(p)
     ELSE IF found.cluster = 0 THEN Refused(p)
     ELSE CASE r.kind \in {"seed", "project"} /\ r.project # TenantWide ->
                 Becomes(p, [found EXCEPT !.step = "create project"])
            [] r.kind = "delete project" -> Becomes(p, [found EXCEPT !.step = "delete project"])
            [] r.kind = "revoke" -> Becomes(p, [found EXCEPT !.step = "delete grant"])
            [] OTHER -> Becomes(p, NextGrant(found))
  /\ UNCHANGED <<tenants, projects, grants, mirror, made, requests, admins>>

ProjectsNamed(c, name) == {x \in projects : x.cluster = c /\ x.name = name}
NewProject(c, name, by) == [cluster |-> c, name |-> name, ready |-> FALSE, by |-> by]

AfterProject(r) ==
  IF r.wait THEN [r EXCEPT !.step = "wait for project"]
  ELSE IF r.kind = "seed" THEN NextGrant(r) ELSE [r EXCEPT !.step = "done"]

CreateProject(p) ==
  LET r == job[p]
      there == ProjectsNamed(r.cluster, r.project) # {}
  IN
  /\ r.step = "create project"
  /\ projects' = IF Live(r.cluster) /\ ~there
                 THEN projects \cup {NewProject(r.cluster, r.project, Nobody)} ELSE projects
  /\ IF ~Live(r.cluster) \/ (there /\ r.kind # "seed") THEN Refused(p)
     ELSE Becomes(p, AfterProject(r))
  /\ UNCHANGED <<tenants, grants, mirror, made, requests, admins>>

WaitForProject(p) ==
  LET r == job[p] IN
  /\ r.step = "wait for project"
  /\ \E x \in ProjectsNamed(r.cluster, r.project) : x.ready
  /\ Becomes(p, IF r.kind = "seed" THEN NextGrant(r) ELSE [r EXCEPT !.step = "done"])
  /\ UNCHANGED <<tenants, projects, grants, mirror, made, requests, admins>>

DeleteProject(p) ==
  LET r == job[p] IN
  /\ r.step = "delete project"
  /\ projects' = projects \ ProjectsNamed(r.cluster, r.project)
  /\ IF ProjectsNamed(r.cluster, r.project) = {} THEN Refused(p)
     ELSE LET its(q) == q.tenant = r.tenant /\ q.project = r.project IN
          job' = Noticed(p, [r EXCEPT !.step = "done"], its, its)
  /\ UNCHANGED <<tenants, grants, mirror, made, requests, admins>>

Granted(r) == NextGrant([r EXCEPT !.todo = Tail(@), !.read = NoGrant])

\* upsertMembership: create it, or read it and change its role if it differs.
CreateGrant(p) ==
  LET r == job[p]
      key == KeyOf(r.cluster, Head(r.todo))
  IN
  /\ r.step = "create grant"
  /\ IF ~Live(r.cluster) THEN Refused(p) /\ UNCHANGED <<grants, admins>>
     ELSE IF grants[key] = NoGrant
     THEN WritesGrant(p, Granted(r), key, [role |-> Head(r.todo).role, version |-> 1])
     ELSE Becomes(p, [r EXCEPT !.step = "read grant"]) /\ UNCHANGED <<grants, admins>>
  /\ UNCHANGED <<tenants, projects, mirror, made, requests>>

\* Mutant: a grant that is there is good enough.
MutantSettled(r, grant) == grant # NoGrant
Settled(r, grant) == grant # NoGrant /\ grant.role = Head(r.todo).role

ReadGrant(p) ==
  LET r == job[p]
      grant == grants[KeyOf(r.cluster, Head(r.todo))]
  IN
  /\ r.step = "read grant"
  /\ IF grant = NoGrant THEN Refused(p)
     ELSE IF Settled(r, grant) THEN Becomes(p, Granted(r))
     ELSE Becomes(p, [r EXCEPT !.step = "update grant", !.read = grant])
  /\ UNCHANGED <<tenants, projects, grants, mirror, made, requests, admins>>

UpdateGrant(p) ==
  LET r == job[p]
      key == KeyOf(r.cluster, Head(r.todo))
  IN
  /\ r.step = "update grant"
  /\ IF grants[key] # r.read THEN Refused(p) /\ UNCHANGED <<grants, admins>>
     ELSE WritesGrant(p, Granted(r), key, [role |-> Head(r.todo).role, version |-> r.read.version + 1])
  /\ UNCHANGED <<tenants, projects, mirror, made, requests>>

DeleteGrant(p) ==
  LET r == job[p]
      key == KeyOf(r.cluster, Head(r.todo))
  IN
  /\ r.step = "delete grant"
  /\ IF grants[key] = NoGrant THEN Refused(p) /\ UNCHANGED <<grants, admins>>
     ELSE WritesGrant(p, [r EXCEPT !.step = "done"], key, NoGrant)
  /\ UNCHANGED <<tenants, projects, mirror, made, requests>>

\* Said, or interrupted: either way the terminal is free again.
End(p) ==
  /\ job[p] # Resting
  /\ Becomes(p, Resting)
  /\ UNCHANGED <<tenants, projects, grants, mirror, made, requests, admins>>

-----------------------------------------------------------------------------
DeleteTenant(p, t) ==
  LET its(q) == q.tenant = t IN
  /\ job[p] = Resting /\ requests < MaxRequests /\ requests' = requests + 1
  /\ tenants[t] # NoTenant /\ ~tenants[t].leaving
  /\ tenants' = [tenants EXCEPT ![t].leaving = TRUE]
  /\ job' = Noticed(p, job[p], its, its)
  /\ UNCHANGED <<projects, grants, mirror, made, admins>>

\* The tenant requested is the caller's own, and nothing if the name is taken.
SelfTenantRequest(u, t) ==
  /\ u \in Offered
  /\ requests < MaxRequests /\ requests' = requests + 1
  /\ tenants' = IF tenants[t] = NoTenant THEN [tenants EXCEPT ![t] = NewTenant(u)] ELSE tenants
  /\ UNCHANGED <<projects, grants, mirror, job, made, admins>>

\* Whom the directory knows as a tenant-wide admin of the workspace it knows.
Authorized(u, t) ==
  LET c == mirror.clusters[t] IN
  c # 0 /\ mirror.roles[KeyOf(c, Entry(u, TenantWide, ""))] = "admin"

SelfProjectRequest(u, t, name) ==
  /\ job[u] = Resting /\ Authorized(u, t)
  /\ Becomes(u, [Resting EXCEPT !.kind = "request", !.step = "write", !.tenant = t,
                   !.project = name, !.cluster = mirror.clusters[t]])
  /\ UNCHANGED <<tenants, projects, grants, mirror, made, requests, admins>>

Target(r) == r.cluster

WriteProject(u) ==
  LET r == job[u] IN
  /\ r.step = "write"
  /\ projects' = IF Live(Target(r)) /\ ProjectsNamed(Target(r), r.project) = {}
                 THEN projects \cup {NewProject(Target(r), r.project, u)} ELSE projects
  /\ Becomes(u, Resting)
  /\ UNCHANGED <<tenants, grants, mirror, made, requests, admins>>

-----------------------------------------------------------------------------
\* The operator: a workspace, then its first admin, once; and the removal.
Provision(t) ==
  /\ tenants[t] # NoTenant /\ tenants[t].cluster = 0 /\ ~tenants[t].leaving
  /\ made < MaxClusters /\ made' = made + 1
  /\ tenants' = [tenants EXCEPT ![t].cluster = made']
  /\ UNCHANGED <<projects, grants, mirror, job, requests, admins>>

SeedFirstAdmin(t) ==
  LET x == tenants[t]
      key == KeyOf(x.cluster, Entry(x.admin, TenantWide, ""))
      version == IF grants[key] = NoGrant THEN 1 ELSE grants[key].version + 1
  IN
  /\ x # NoTenant /\ x.cluster # 0 /\ ~x.leaving /\ ~x.seeded /\ x.admin # Nobody
  /\ tenants' = [tenants EXCEPT ![t].seeded = TRUE]
  /\ IF grants[key] # NoGrant /\ grants[key].role = "admin" THEN UNCHANGED <<grants, admins, job>>
     ELSE WritesGrant(Nobody, Resting, key, [role |-> "admin", version |-> version])
  /\ UNCHANGED <<projects, mirror, made, requests>>

ProjectReady(x) ==
  /\ x \in projects /\ ~x.ready
  /\ projects' = (projects \ {x}) \cup {[x EXCEPT !.ready = TRUE]}
  /\ UNCHANGED <<tenants, grants, mirror, job, made, requests, admins>>

RemoveTenant(t) ==
  LET its(q) == q.tenant = t IN
  /\ tenants[t] # NoTenant /\ tenants[t].leaving
  /\ tenants' = [tenants EXCEPT ![t] = NoTenant]
  /\ projects' = {x \in projects : x.cluster # tenants[t].cluster}
  /\ grants' = [k \in GrantKey |-> IF k.cluster = tenants[t].cluster THEN NoGrant ELSE grants[k]]
  /\ job' = Noticed(Nobody, Resting, its, its)
  /\ UNCHANGED <<mirror, made, requests, admins>>

\* The directory learns of one tenant, or of one workspace's grants.
MirrorTenancy ==
  /\ \/ \E t \in Tenant : mirror' = [mirror EXCEPT !.clusters[t] =
                            IF tenants[t] = NoTenant THEN 0 ELSE tenants[t].cluster]
     \/ \E c \in 1..made : mirror' = [mirror EXCEPT !.roles = [k \in GrantKey |->
                            IF k.cluster # c THEN @[k]
                            ELSE IF grants[k] = NoGrant THEN "none" ELSE grants[k].role]]
  /\ UNCHANGED <<tenants, projects, grants, job, made, requests, admins>>

-----------------------------------------------------------------------------
\* No tenant yet, or one whose first admin gave somebody else a role.
TenancyInit ==
  \E t \in Tenant, a, b \in User, role \in Role, there \in BOOLEAN :
    LET key(s) == KeyOf(1, Entry(s, TenantWide, "")) IN
    /\ a # b /\ (~there => role = "view")
    /\ tenants = [x \in Tenant |-> IF there /\ x = t
         THEN [admin |-> a, cluster |-> 1, seeded |-> TRUE, leaving |-> FALSE] ELSE NoTenant]
    /\ grants = [k \in GrantKey |-> CASE there /\ k = key(a) -> [role |-> "admin", version |-> 1]
                                 [] there /\ k = key(b) -> [role |-> role, version |-> 1]
                                 [] OTHER -> NoGrant]
    /\ admins = IF there THEN {<<a, 1>>} \cup (IF role = "admin" THEN {<<b, 1>>} ELSE {}) ELSE {}
    /\ made = IF there THEN 1 ELSE 0
    /\ projects = {} /\ requests = 0
    /\ mirror = [clusters |-> [x \in Tenant |-> 0], roles |-> [k \in GrantKey |-> "none"]]
    /\ job = [q \in Command \cup Caller |-> Resting]

Commands(p) ==
  \/ \E t \in Tenant :
       \/ \E s \in Seeds, wait \in BOOLEAN : Seed(p, t, s, wait)
       \/ \E first \in User \cup {Nobody}, wait \in BOOLEAN : CreateTenantCommand(p, t, first, wait)
       \/ \E name \in Project : DeleteProjectCommand(p, t, name)
                                \/ \E wait \in BOOLEAN : CreateProjectCommand(p, t, name, wait)
       \/ DeleteTenant(p, t)
       \/ \E u \in User, role \in Role, name \in Project \cup {TenantWide} :
            Grant(p, t, Entry(u, name, role)) \/ Revoke(p, t, Entry(u, name, role))
  \/ \E t \in Tenant \cup {NoTenant}, u \in User, role \in Role, name \in Project \cup {TenantWide} :
       MembershipCommand(p, t, name, u, role)

Requests(p) ==
  \/ CreateTenant(p) \/ WaitForTenant(p) \/ GiveUp(p) \/ TenantClient(p)
  \/ CreateProject(p) \/ WaitForProject(p) \/ DeleteProject(p)
  \/ CreateGrant(p) \/ ReadGrant(p) \/ UpdateGrant(p) \/ DeleteGrant(p) \/ End(p)

Operator ==
  \/ \E t \in Tenant : Provision(t) \/ SeedFirstAdmin(t) \/ RemoveTenant(t)
  \/ \E x \in projects : ProjectReady(x)

SelfRequests(u) ==
  \/ \E t \in Tenant : SelfTenantRequest(u, t) \/ \E name \in Project : SelfProjectRequest(u, t, name)
  \/ WriteProject(u)

TenancyNext ==
  \/ \E p \in Command : Commands(p) \/ Requests(p)
  \/ \E u \in Caller : SelfRequests(u)
  \/ Operator \/ MirrorTenancy

TenancySpec == TenancyInit /\ [][TenancyNext]_tenancyVars

-----------------------------------------------------------------------------
\* seed is idempotent (seed.go:36-40, membership.go:155-158): from whatever
\* earlier runs left, interrupted anywhere, one that ends well has made every
\* grant it was asked for, unless somebody else has changed that grant or
\* deleted what it is in; and one that waits is refused only if somebody else
\* wrote the same grants or deleted the tenant while it ran.
SeedIsIdempotent ==
  \A p \in Command :
    LET r == job[p] IN
    r.kind = "seed" =>
      /\ r.step = "done" /\ ~r.undone =>
           \A w \in r.wants : LET grant == grants[KeyOf(r.cluster, w)] IN
                                grant # NoGrant /\ grant.role = w.role
      /\ r.step = "refused" /\ r.wait => r.raced

\* A project made on a request is in a workspace of which its requester was a
\* tenant-wide admin (selfprojectrequest/storage.go:111-160), whatever became
\* of the tenant's name since the directory read it.
ProjectsByAdmins == \A x \in projects : x.by # Nobody => <<x.by, x.cluster>> \in admins

\* What the commands and requests of a tenant's users leave behind is what was
\* asked for, by somebody who may (seed.go, selfprojectrequest/storage.go).
SelfServiceInv == SeedIsIdempotent /\ ProjectsByAdmins
=============================================================================

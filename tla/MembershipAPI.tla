--------------------------- MODULE MembershipAPI ----------------------------
(***************************************************************************)
(* The membership virtual workspace (tenancy/pkg/virtual/membership, the   *)
(* writers of tenancy/pkg/server/projects.go): callers grant and revoke    *)
(* access in the tenants they administer.  A request is checked against    *)
(* the directory, which the mirrors of tenancy/pkg/provider keep behind    *)
(* the objects, and is then written to the tenant's workspace: two steps,  *)
(* with any number of other requests, mirror updates and operator actions  *)
(* in between.                                                             *)
(*                                                                         *)
(* A mirror reads an object and records it in one step.  Versions of one   *)
(* object are recorded in order by the single worker of its kind, so       *)
(* reading early and recording late is the same as reading late, but for a *)
(* cluster that leaves in between.                                         *)
(***************************************************************************)
EXTENDS TenancyDirectory, Naturals

CONSTANTS
    User,        \* callers
    Identity,    \* Identity[u]: the subjects u authenticates as
    FirstAdmin,  \* FirstAdmin[t]: the subject that tenant t starts with
    MaxRequests  \* bound on requests and on changes of tenants and projects

ASSUME UserAssumption ==
    /\ Identity \in [User -> SUBSET Subject] /\ FirstAdmin \in [Tenant -> Subject]
    /\ "admin" \in Role
ASSUME BoundAssumption == MaxRequests \in Nat

VARIABLES
    status,      \* status[t]: Tenant t as its API server has it
    exists,      \* exists[w]: the Projects in w
    grants,      \* grants[g]: the Membership object g
    life,        \* life[w]: whether workspace w is in the fleet, or has left it
    request,     \* request[u]: the checked request of u, not yet written
    requests,    \* how many bounded steps were taken
    wasAdmin,    \* history: wasAdmin[w]: who has been granted admin of all of w
    overlapped   \* history: workspaces where a request was checked while
                 \* another was pending or the directory was behind

apiVars == <<status, exists, grants, life, request, requests, wasAdmin, overlapped>>
vars == <<dirVars, apiVars>>

NoMembership == [role |-> NoRole, deleting |-> FALSE]

Membership == [role : Role, deleting : BOOLEAN] \cup {NoMembership}

Request == [kind : {"grant"}, grant : Grant, role : Role] \cup [kind : {"revoke"}, grant : Grant]

NoRequest == [kind |-> "none"]

TypeOK ==
    /\ DirTypeOK
    /\ status \in [Tenant -> TenantEntry]
    /\ exists \in [Workspace -> SUBSET Project]
    /\ grants \in [Grant -> Membership]
    /\ life \in [Workspace -> {"unused", "live", "gone"}]
    /\ request \in [User -> Request \cup {NoRequest}]
    /\ requests \in 0..MaxRequests
    /\ wasAdmin \in [Workspace -> SUBSET Subject]
    /\ overlapped \subseteq Workspace

fleet == {w \in Workspace : life[w] = "live"}

AdminGrant(w, s) == [cluster |-> w, subject |-> s, project |-> TenantWide]

(* The grant with which the operator seeds a tenant, once. *)
Seeded(g) == g = AdminGrant(g.cluster, FirstAdmin[Owner[g.cluster]])

(* Every tenant is provisioned and its first admin seeded. *)
Init ==
    /\ DirInit
    /\ status \in {st \in [Tenant -> TenantEntry] :
                    \A t \in Tenant : st[t].known /\ st[t].workspace # NoWorkspace
                                        /\ Owner[st[t].workspace] = t}
    /\ life = [w \in Workspace |-> IF status[Owner[w]].workspace = w THEN "live" ELSE "unused"]
    /\ exists = [w \in Workspace |-> {}]
    /\ grants = [g \in Grant |->
                    IF g.cluster \in fleet /\ Seeded(g)
                    THEN [role |-> "admin", deleting |-> FALSE] ELSE NoMembership]
    /\ request = [u \in User |-> NoRequest]
    /\ requests = 0
    /\ wasAdmin = [w \in Workspace |-> IF w \in fleet THEN {FirstAdmin[Owner[w]]} ELSE {}]
    /\ overlapped = {}

Bounded == requests < MaxRequests /\ requests' = requests + 1

-----------------------------------------------------------------------------
(* The platform: the operator reports a tenant's workspace or, with an     *)
(* error, none; a workspace is deleted with everything in it and another   *)
(* made in its place, which is not seeded again; a Tenant whose workspace  *)
(* is gone goes; projects come and go.                                     *)
ReportStatus(t, w) ==
    /\ status[t].known /\ status[t].workspace # w
    /\ w # NoWorkspace => w \in fleet /\ Owner[w] = t
    /\ Bounded
    /\ status' = [status EXCEPT ![t].workspace = w]
    /\ UNCHANGED <<dirVars, exists, grants, life, request, wasAdmin, overlapped>>

DeleteWorkspace(w) ==
    /\ w \in fleet
    /\ Bounded
    /\ life' = [life EXCEPT ![w] = "gone"]
    /\ grants' = [g \in Grant |-> IF g.cluster = w THEN NoMembership ELSE grants[g]]
    /\ exists' = [exists EXCEPT ![w] = {}]
    /\ UNCHANGED <<dirVars, status, request, wasAdmin, overlapped>>

CreateWorkspace(w) ==
    /\ life[w] = "unused"
    /\ status[Owner[w]].known
    /\ \A v \in fleet : Owner[v] # Owner[w]
    /\ life' = [life EXCEPT ![w] = "live"]
    /\ UNCHANGED <<dirVars, status, exists, grants, request, requests, wasAdmin, overlapped>>

DeleteTenant(t) ==
    /\ status[t].known
    /\ \A w \in fleet : Owner[w] # t
    /\ status' = [status EXCEPT ![t] = UnknownTenant]
    /\ UNCHANGED <<dirVars, exists, grants, life, request, requests, wasAdmin, overlapped>>

ChangeProject(w, p) ==
    /\ w \in fleet
    /\ Bounded
    /\ exists' = [exists EXCEPT ![w] = IF p \in @ THEN @ \ {p} ELSE @ \cup {p}]
    /\ UNCHANGED <<dirVars, status, grants, life, request, wasAdmin, overlapped>>

(* The operator's finalizer lets a deleted Membership go. *)
Finalize(g) ==
    /\ grants[g].deleting
    /\ grants' = [grants EXCEPT ![g] = NoMembership]
    /\ UNCHANGED <<dirVars, status, exists, life, request, requests, wasAdmin, overlapped>>

(* Requests are answered once both sides' discovery has synced, whatever   *)
(* the mirrors have recorded by then.                                      *)
Start ==
    /\ ~ready
    /\ SetReady
    /\ UNCHANGED apiVars

(* The mirrors.  One that finds no object removes the entry; a cluster     *)
(* that has left cannot be read and is forgotten as a whole.  A Membership *)
(* that is being deleted is recorded like any other.                       *)
MirrorTenant(t) ==
    /\ tenants[t] # status[t]
    /\ IF status[t].known THEN UpsertTenant(t, status[t].workspace) ELSE RemoveTenant(t)
    /\ UNCHANGED apiVars

MirrorProject(w, p) ==
    /\ w \in fleet
    /\ IF p \in exists[w] THEN UpsertProject(w, p) ELSE RemoveProject(w, p)
    /\ projects' # projects
    /\ UNCHANGED apiVars

MirrorMembership(g) ==
    /\ g.cluster \in fleet
    /\ memberships[g] # grants[g].role
    /\ UpsertMembership(g, grants[g].role)
    /\ UNCHANGED apiVars

MutForgetTenantToo(w) ==
    /\ w \notin fleet
    /\ tenants' = [tenants EXCEPT ![Owner[w]] = UnknownTenant]
    /\ byWorkspace' = Unindexed(Owner[w])
    /\ projects' = [projects EXCEPT ![w] = {}]
    /\ memberships' = [g \in Grant |-> IF g.cluster = w THEN NoRole ELSE memberships[g]]
    /\ UNCHANGED <<apiVars, ready>>

OnDelete(w) ==
    /\ w \notin fleet
    /\ ForgetCluster(w)
    /\ dirVars' # dirVars
    /\ UNCHANGED apiVars

-----------------------------------------------------------------------------
(* adminTenants: the caller's claims that carry tenant-wide admin. *)
AdminTenants(u) ==
    IF ~ready THEN {} ELSE
    {c \in ReviewFor(Identity[u]) : "admin" \in c.roles /\ c.cluster # NoWorkspace}

(* lastTenantAdmin, over the grants the directory has for workspace w. *)
MutLastOffByOne(w) == {g \in Grant : g.cluster = w /\ g.project = TenantWide
                                        /\ memberships[g] = "admin"} = {}

LastTenantAdmin(w) ==
    \A g, h \in {k \in Grant : k.cluster = w /\ k.project = TenantWide
                                 /\ memberships[k] = "admin"} : g = h

(* A change that would take admin from g is refused when g is the last. *)
Refused(g, role) ==
    /\ memberships[g] = "admin" /\ g.project = TenantWide
    /\ role # "admin"
    /\ LastTenantAdmin(g.cluster)

(* The directory and the objects agree on w and no write is under way. *)
Settled(w) ==
    /\ \A g \in Grant : g.cluster = w => memberships[g] = grants[g].role /\ ~grants[g].deleting
    /\ \A u \in User : request[u] # NoRequest => request[u].grant.cluster # w

Check(u, req) ==
    /\ request[u] = NoRequest
    /\ Bounded
    /\ request' = [request EXCEPT ![u] = req]
    /\ overlapped' = overlapped \cup {w \in {req.grant.cluster} : ~Settled(w)}
    /\ UNCHANGED <<dirVars, status, exists, grants, life, wasAdmin>>

(* Create up to its write; the grant may only name a project the caller    *)
(* can see in the claim.                                                   *)
CheckGrant(u, g, role) ==
    /\ \E c \in AdminTenants(u) : /\ c.cluster = g.cluster
                                  /\ g.project # TenantWide => g.project \in c.projects
    /\ ~Refused(g, role)
    /\ Check(u, [kind |-> "grant", grant |-> g, role |-> role])

(* Delete up to its write. *)
CheckRevoke(u, g) ==
    /\ \E c \in AdminTenants(u) : c.cluster = g.cluster
    /\ memberships[g] # NoRole
    /\ ~Refused(g, NoRole)
    /\ Check(u, [kind |-> "revoke", grant |-> g])

Granted(gs, w) == {s \in Subject : gs[AdminGrant(w, s)].role = "admin"}

Admins(gs, w) == {s \in Granted(gs, w) : ~gs[AdminGrant(w, s)].deleting}

(* membershipWriter: granting creates the object or brings an existing one *)
(* to the requested role, also one that is being deleted; revoking marks   *)
(* it for the operator's finalizer.                                        *)
Written(req) ==
    IF req.kind = "grant"
    THEN [grants EXCEPT ![req.grant].role = req.role]
    ELSE [grants EXCEPT ![req.grant].deleting = (grants[req.grant].role # NoRole)]

(* A write that fails, as every write to a workspace that has left does,   *)
(* is reported to the caller and not retried.                              *)
Write(u) ==
    LET w == request[u].grant.cluster IN
    /\ request[u] # NoRequest
    /\ \/ UNCHANGED grants
       \/ w \in fleet /\ grants' = Written(request[u])
    /\ request' = [request EXCEPT ![u] = NoRequest]
    /\ wasAdmin' = [wasAdmin EXCEPT ![w] = @ \cup Granted(grants', w)]
    /\ UNCHANGED <<dirVars, status, exists, life, requests, overlapped>>

Mirror ==
    \/ \E t \in Tenant : MirrorTenant(t)
    \/ \E w \in Workspace, p \in Project : MirrorProject(w, p)
    \/ \E g \in Grant : MirrorMembership(g)
    \/ \E w \in Workspace : OnDelete(w)

Next ==
    \/ \E t \in Tenant, w \in Workspace \cup {NoWorkspace} : ReportStatus(t, w)
    \/ \E w \in Workspace : DeleteWorkspace(w) \/ CreateWorkspace(w)
    \/ \E w \in Workspace, p \in Project : ChangeProject(w, p)
    \/ \E t \in Tenant : DeleteTenant(t)
    \/ \E g \in Grant : Finalize(g)
    \/ Start
    \/ Mirror
    \/ \E u \in User, g \in Grant : CheckRevoke(u, g) \/ \E r \in Role : CheckGrant(u, g, r)
    \/ \E u \in User : Write(u)

Spec == Init /\ [][Next]_vars

-----------------------------------------------------------------------------
(* Whoever gets a request past the check has been granted tenant-wide      *)
(* admin of the workspace it writes to: no role on a project, in another   *)
(* tenant or of a workspace that moved lets anybody change its grants.     *)
RequestsAreByAdmins ==
    \A u \in User : request[u] # NoRequest =>
        Identity[u] \cap wasAdmin[request[u].grant.cluster] # {}

(* While each request to a tenant is checked with the previous ones done   *)
(* and mirrored, a tenant that has an admin keeps one.                     *)
SettledKeepsAdmin ==
    \A w \in fleet \ overlapped : wasAdmin[w] # {} => Admins(grants, w) # {}

(* The mirrors drive the directory as its own specification says. *)
ImplementsDirectory == DirSpec

(* storage.go: "Refuse the one deletion that cannot be undone through this *)
(* API: removing the last tenant-wide admin leaves nobody who may grant    *)
(* anything, including the grant that would fix it."                       *)
TenantKeepsAnAdmin == \A w \in fleet : wasAdmin[w] # {} => Admins(grants, w) # {}

(* Only its admins write to a tenant, and no sequence of settled requests  *)
(* leaves it without one (authorize, lastTenantAdmin).                     *)
MembershipInv == TypeOK /\ RequestsAreByAdmins /\ SettledKeepsAdmin
=============================================================================

-------------------------- MODULE TenancyDirectory --------------------------
(***************************************************************************)
(* The in-memory index of the tenancy virtual workspace                    *)
(* (tenancy/pkg/directory): Tenants, mirrored from the platform tier, and  *)
(* Projects and Memberships, mirrored from inside each tenant's workspace, *)
(* joined on the workspace.  Every operation runs under the directory's    *)
(* lock and is one step.                                                   *)
(***************************************************************************)
CONSTANTS
    Tenant,      \* names of Tenant objects
    Workspace,   \* logical clusters of tenant workspaces
    Owner,       \* Owner[w]: the tenant that asked for w (its owner label)
    Subject,     \* users and groups a Membership can name
    Project,     \* names of Project objects
    TenantWide,  \* the empty spec.project
    Role,        \* roles, one of which is "admin"
    NoTenant, NoWorkspace, NoRole   \* absent values

ASSUME OwnerAssumption == Owner \in [Workspace -> Tenant]
ASSUME AbsentAssumption ==
    /\ NoTenant \notin Tenant /\ NoWorkspace \notin Workspace
    /\ NoRole \notin Role /\ TenantWide \notin Project

(* A Membership's name is derived from whom it is for and what it covers.  *)
Grant == [cluster : Workspace, subject : Subject, project : Project \cup {TenantWide}]

VARIABLES
    tenants,      \* tenants[t]: the mirrored Tenant t
    byWorkspace,  \* byWorkspace[w]: the tenant whose workspace is w
    projects,     \* projects[w]: the mirrored Projects of w
    memberships,  \* memberships[g]: the mirrored role of grant g
    ready         \* whether requests are answered

dirVars == <<tenants, byWorkspace, projects, memberships, ready>>

TenantEntry == [known : BOOLEAN, workspace : Workspace \cup {NoWorkspace}]

UnknownTenant == [known |-> FALSE, workspace |-> NoWorkspace]

DirTypeOK ==
    /\ tenants \in [Tenant -> TenantEntry]
    /\ byWorkspace \in [Workspace -> Tenant \cup {NoTenant}]
    /\ projects \in [Workspace -> SUBSET Project]
    /\ memberships \in [Grant -> Role \cup {NoRole}]
    /\ ready \in BOOLEAN

DirInit ==
    /\ tenants = [t \in Tenant |-> UnknownTenant]
    /\ byWorkspace = [w \in Workspace |-> NoTenant]
    /\ projects = [w \in Workspace |-> {}]
    /\ memberships = [g \in Grant |-> NoRole]
    /\ ready = FALSE

-----------------------------------------------------------------------------
SetReady ==
    /\ ready' = TRUE
    /\ UNCHANGED <<tenants, byWorkspace, projects, memberships>>

(* byWorkspace without the entry of t's recorded workspace. *)
Unindexed(t) ==
    IF tenants[t].workspace = NoWorkspace
    THEN byWorkspace
    ELSE [byWorkspace EXCEPT ![tenants[t].workspace] = NoTenant]

(* A workspace that changes loses its old entry first. *)
MutUpsertKeepsOld(t, w) ==
    /\ tenants' = [tenants EXCEPT ![t] = [known |-> TRUE, workspace |-> w]]
    /\ byWorkspace' = IF w = NoWorkspace THEN byWorkspace ELSE [byWorkspace EXCEPT ![w] = t]
    /\ UNCHANGED <<projects, memberships, ready>>

UpsertTenant(t, w) ==
    LET kept == IF tenants[t].workspace = w THEN byWorkspace ELSE Unindexed(t) IN
    /\ tenants' = [tenants EXCEPT ![t] = [known |-> TRUE, workspace |-> w]]
    /\ byWorkspace' = IF w = NoWorkspace THEN kept ELSE [kept EXCEPT ![w] = t]
    /\ UNCHANGED <<projects, memberships, ready>>

RemoveTenant(t) ==
    /\ tenants' = [tenants EXCEPT ![t] = UnknownTenant]
    /\ byWorkspace' = Unindexed(t)
    /\ UNCHANGED <<projects, memberships, ready>>

UpsertProject(w, p) ==
    /\ projects' = [projects EXCEPT ![w] = @ \cup {p}]
    /\ UNCHANGED <<tenants, byWorkspace, memberships, ready>>

RemoveProject(w, p) ==
    /\ projects' = [projects EXCEPT ![w] = @ \ {p}]
    /\ UNCHANGED <<tenants, byWorkspace, memberships, ready>>

UpsertMembership(g, r) ==
    /\ memberships' = [memberships EXCEPT ![g] = r]
    /\ UNCHANGED <<tenants, byWorkspace, projects, ready>>

RemoveMembership(g) == UpsertMembership(g, NoRole)

(* Tenants live in the platform workspace, so forgetting a tenant's        *)
(* workspace drops its Projects and Memberships and leaves the Tenant.     *)
ForgetCluster(w) ==
    /\ projects' = [projects EXCEPT ![w] = {}]
    /\ memberships' = [g \in Grant |-> IF g.cluster = w THEN NoRole ELSE memberships[g]]
    /\ UNCHANGED <<tenants, byWorkspace, ready>>

(* Forgetting the platform workspace drops every Tenant. *)
ForgetPlatform ==
    /\ tenants' = [t \in Tenant |-> UnknownTenant]
    /\ byWorkspace' = [w \in Workspace |->
                         IF \E t \in Tenant : tenants[t].workspace = w THEN NoTenant
                         ELSE byWorkspace[w]]
    /\ UNCHANGED <<projects, memberships, ready>>

-----------------------------------------------------------------------------
(* ReviewFor: the roles of an identity (a set of subjects) in workspace w, *)
(* tenant-wide or on one project.                                          *)
RolesOn(identity, w, project) ==
    {memberships[[cluster |-> w, subject |-> s, project |-> project]] : s \in identity}
        \ {NoRole}

Seen(identity) ==
    {w \in Workspace : \E p \in Project \cup {TenantWide} : RolesOn(identity, w, p) # {}}

(* One claim per seen workspace whose tenant is known.  The claim's        *)
(* cluster is the one recorded for that tenant.                            *)
MutClaimEveryRole(identity, w) ==
    [tenant |-> byWorkspace[w],
     cluster |-> tenants[byWorkspace[w]].workspace,
     roles |-> UNION {RolesOn(identity, v, TenantWide) : v \in Seen(identity)},
     projects |-> projects[w]]

Claim(identity, w) ==
    LET wide == RolesOn(identity, w, TenantWide) IN
    [tenant |-> byWorkspace[w],
     cluster |-> tenants[byWorkspace[w]].workspace,
     roles |-> wide,
     projects |-> {p \in projects[w] : wide \cup RolesOn(identity, w, p) # {}}]

ReviewFor(identity) ==
    {Claim(identity, w) : w \in {v \in Seen(identity) : byWorkspace[v] # NoTenant}}

-----------------------------------------------------------------------------
(* What the mirrors may do: a Tenant's status names a workspace of its own *)
(* or none.                                                                *)
DirNext ==
    \/ \E t \in Tenant, w \in Workspace : Owner[w] = t /\ UpsertTenant(t, w)
    \/ \E t \in Tenant : UpsertTenant(t, NoWorkspace) \/ RemoveTenant(t)
    \/ \E w \in Workspace, p \in Project : UpsertProject(w, p) \/ RemoveProject(w, p)
    \/ \E g \in Grant, r \in Role : UpsertMembership(g, r)
    \/ \E g \in Grant : RemoveMembership(g)
    \/ \E w \in Workspace : ForgetCluster(w)
    \/ ForgetPlatform
    \/ SetReady

DirSpec == DirInit /\ [][DirNext]_dirVars

-----------------------------------------------------------------------------
(* byWorkspace is the inverse of the recorded workspaces, through every    *)
(* move, loss and return of a workspace and every forgotten cluster.       *)
IndexExact ==
    \A w \in Workspace, t \in Tenant :
        byWorkspace[w] = t <=> tenants[t].workspace = w

(* A recorded workspace is one the tenant asked for. *)
OwnWorkspace ==
    \A t \in Tenant : tenants[t].workspace # NoWorkspace => Owner[tenants[t].workspace] = t

DirInv == DirTypeOK /\ IndexExact /\ OwnWorkspace

(* The roles of a claim were granted in the very workspace that the claim  *)
(* names, which is where the membership API will write with them: nobody's *)
(* role in one tenant ever counts in another.                              *)
RolesAreLocal ==
    \A identity \in SUBSET Subject : \A c \in ReviewFor(identity) :
        /\ c.cluster # NoWorkspace
        /\ c.roles = RolesOn(identity, c.cluster, TenantWide)
        /\ c.projects \subseteq projects[c.cluster]
=============================================================================

--------------------------- MODULE MembershipProofs --------------------------
(***************************************************************************)
(* The tenancy directory's index is exact for any number of tenants,       *)
(* workspaces, projects and memberships.  IndexExact alone is not          *)
(* inductive: recording a tenant's workspace overwrites whatever tenant    *)
(* was indexed there, which is harmless only because a workspace belongs   *)
(* to one tenant (OwnWorkspace).                                           *)
(*                                                                         *)
(* The mirrors implement the directory's specification, so that what is    *)
(* proved of the directory holds of the membership API; and only who was   *)
(* made an admin of a tenant gets a request for it past the check, for any *)
(* tenants, callers, requests and however far the mirrors are behind.  A   *)
(* tenant keeps its last admin as long as its requests do not overlap.     *)
(***************************************************************************)
EXTENDS MembershipAPI, TLAPS

(* The index does not look at projects or memberships, so an operation     *)
(* that touches only those keeps it exact.                                 *)
LEMMA ContentKeepsIndex ==
    ASSUME IndexExact, OwnWorkspace, UNCHANGED <<tenants, byWorkspace>>
    PROVE  IndexExact' /\ OwnWorkspace'
  BY DEF IndexExact, OwnWorkspace

(* Dropping a tenant's entry from byWorkspace (as UpsertTenant does when   *)
(* the workspace changes, and RemoveTenant always) leaves exactly the      *)
(* entries of the other tenants.                                           *)
LEMMA UnindexedExact ==
    ASSUME DirTypeOK, IndexExact, NEW t \in Tenant
    PROVE  /\ Unindexed(t) \in [Workspace -> Tenant \cup {NoTenant}]
           /\ \A w \in Workspace, u \in Tenant :
                  Unindexed(t)[w] = u <=> u # t /\ tenants[u].workspace = w
  <1>1. CASE tenants[t].workspace = NoWorkspace
    <2>1. Unindexed(t) = byWorkspace
      BY <1>1 DEF Unindexed
    <2>2. \A w \in Workspace : tenants[t].workspace # w
      BY <1>1, AbsentAssumption
    <2> QED
      BY <2>1, <2>2 DEF DirTypeOK, IndexExact
  <1>2. CASE tenants[t].workspace # NoWorkspace
    <2> DEFINE v == tenants[t].workspace
    <2>1. v \in Workspace
      BY <1>2 DEF DirTypeOK, TenantEntry
    <2>2. Unindexed(t) = [byWorkspace EXCEPT ![v] = NoTenant]
      BY <1>2 DEF Unindexed
    <2>3. \A u \in Tenant : tenants[u].workspace = v => u = t
      <3> SUFFICES ASSUME NEW u \in Tenant, tenants[u].workspace = v PROVE u = t
        OBVIOUS
      <3>1. byWorkspace[v] = u /\ byWorkspace[v] = t
        BY <2>1 DEF IndexExact
      <3> QED
        BY <3>1
    <2> HIDE DEF v
    <2>4. \A w \in Workspace, u \in Tenant :
              Unindexed(t)[w] = u <=> u # t /\ tenants[u].workspace = w
      <3> SUFFICES ASSUME NEW w \in Workspace, NEW u \in Tenant
                   PROVE  Unindexed(t)[w] = u <=> u # t /\ tenants[u].workspace = w
        OBVIOUS
      <3>1. CASE w = v
        <4>1. Unindexed(t)[w] = NoTenant
          BY <2>1, <2>2, <3>1 DEF DirTypeOK
        <4> QED
          BY <4>1, <3>1, <2>3, AbsentAssumption
      <3>2. CASE w # v
        <4>1. Unindexed(t)[w] = byWorkspace[w]
          BY <2>1, <2>2, <3>2 DEF DirTypeOK
        <4>2. u = t => tenants[u].workspace # w
          BY <3>2 DEF v
        <4> QED
          BY <4>1, <4>2 DEF IndexExact
      <3> QED
        BY <3>1, <3>2
    <2> QED
      BY <2>1, <2>2, <2>4 DEF DirTypeOK
  <1> QED
    BY <1>1, <1>2

(* UpsertTenant, with a workspace of the tenant's own or with none, keeps  *)
(* the index exact: a workspace that moves or is lost leaves no entry.     *)
LEMMA UpsertKeepsIndex ==
    ASSUME DirInv, NEW t \in Tenant, NEW w \in Workspace \cup {NoWorkspace},
           w # NoWorkspace => Owner[w] = t,
           UpsertTenant(t, w)
    PROVE  DirInv'
  <1> USE DEF DirInv
  <1> DEFINE kept == IF tenants[t].workspace = w THEN byWorkspace ELSE Unindexed(t)
  <1>1. kept \in [Workspace -> Tenant \cup {NoTenant}]
    BY UnindexedExact DEF DirTypeOK
  <1>2. \A v \in Workspace, u \in Tenant : u # t =>
            (kept[v] = u <=> tenants[u].workspace = v)
    BY UnindexedExact DEF IndexExact
  <1>3. \A v \in Workspace : v # w => kept[v] # t
    <2>1. CASE tenants[t].workspace = w
      BY <2>1 DEF IndexExact
    <2>2. CASE tenants[t].workspace # w
      BY <2>2, UnindexedExact
    <2> QED
      BY <2>1, <2>2
  <1>4. \A u \in Tenant : w \in Workspace /\ u # t => tenants[u].workspace # w
    BY AbsentAssumption DEF OwnWorkspace
  <1>5. /\ tenants' = [tenants EXCEPT ![t] = [known |-> TRUE, workspace |-> w]]
        /\ byWorkspace' = IF w = NoWorkspace THEN kept ELSE [kept EXCEPT ![w] = t]
        /\ UNCHANGED <<projects, memberships, ready>>
    BY DEF UpsertTenant
  <1> HIDE DEF kept
  <1>6. DirTypeOK'
    BY <1>1, <1>5 DEF DirTypeOK, TenantEntry
  <1>7. /\ tenants'[t].workspace = w
        /\ \A u \in Tenant : u # t => tenants'[u] = tenants[u]
    BY <1>5 DEF DirTypeOK
  <1>8. IndexExact'
    <2> SUFFICES ASSUME NEW v \in Workspace, NEW u \in Tenant
                 PROVE  byWorkspace'[v] = u <=> tenants'[u].workspace = v
      BY DEF IndexExact
    <2>1. CASE v = w
      <3>1. byWorkspace'[v] = t
        BY <1>1, <1>5, <2>1, AbsentAssumption
      <3> QED
        BY <3>1, <1>4, <1>7, <2>1
    <2>2. CASE v # w
      <3>1. byWorkspace'[v] = kept[v]
        BY <1>1, <1>5, <2>2
      <3> QED
        BY <3>1, <1>2, <1>3, <1>7, <2>2
    <2> QED
      BY <2>1, <2>2
  <1>9. OwnWorkspace'
    BY <1>7 DEF OwnWorkspace
  <1> QED
    BY <1>6, <1>8, <1>9

(* RemoveTenant keeps the index exact. *)
LEMMA RemoveKeepsIndex ==
    ASSUME DirInv, NEW t \in Tenant, RemoveTenant(t)
    PROVE  DirInv'
  <1> USE DEF DirInv
  <1>1. /\ tenants'[t] = UnknownTenant
        /\ \A u \in Tenant : u # t => tenants'[u] = tenants[u]
    BY DEF RemoveTenant, DirTypeOK
  <1>2. DirTypeOK'
    BY UnindexedExact DEF RemoveTenant, DirTypeOK, TenantEntry, UnknownTenant
  <1>3. \A w \in Workspace : UnknownTenant.workspace # w
    BY AbsentAssumption DEF UnknownTenant
  <1>4. IndexExact'
    BY <1>1, <1>3, UnindexedExact DEF IndexExact, RemoveTenant
  <1>5. OwnWorkspace'
    BY <1>1 DEF OwnWorkspace, UnknownTenant
  <1> QED
    BY <1>2, <1>4, <1>5

(* An empty directory satisfies DirInv. *)
LEMMA DirStart == DirInit => DirInv
  <1> SUFFICES ASSUME DirInit PROVE DirInv
    OBVIOUS
  <1>1. UnknownTenant \in TenantEntry /\ UnknownTenant.workspace = NoWorkspace
    BY DEF UnknownTenant, TenantEntry
  <1>2. DirTypeOK
    BY <1>1 DEF DirInit, DirTypeOK
  <1>3. /\ \A t \in Tenant : tenants[t].workspace = NoWorkspace
        /\ \A w \in Workspace : byWorkspace[w] = NoTenant
    BY <1>1 DEF DirInit
  <1> QED
    BY <1>2, <1>3, AbsentAssumption DEF DirInv, IndexExact, OwnWorkspace

(* Every operation of the directory keeps DirInv. *)
LEMMA DirStep ==
    ASSUME DirInv, [DirNext]_dirVars
    PROVE  DirInv'
  <1>1. ASSUME NEW t \in Tenant, NEW w \in Workspace, Owner[w] = t, UpsertTenant(t, w)
        PROVE  DirInv'
    BY <1>1, UpsertKeepsIndex
  <1>2. ASSUME NEW t \in Tenant, UpsertTenant(t, NoWorkspace)
        PROVE  DirInv'
    BY <1>2, UpsertKeepsIndex
  <1>3. ASSUME NEW t \in Tenant, RemoveTenant(t)
        PROVE  DirInv'
    BY <1>3, RemoveKeepsIndex
  <1>4. ASSUME NEW w \in Workspace, NEW p \in Project,
               UpsertProject(w, p) \/ RemoveProject(w, p)
        PROVE  DirInv'
    <2>1. DirTypeOK'
      BY <1>4 DEF DirInv, DirTypeOK, UpsertProject, RemoveProject
    <2>2. UNCHANGED <<tenants, byWorkspace>>
      BY <1>4 DEF UpsertProject, RemoveProject
    <2> QED
      BY <2>1, <2>2, ContentKeepsIndex DEF DirInv
  <1>5. ASSUME NEW g \in Grant, NEW r \in Role \cup {NoRole}, UpsertMembership(g, r)
        PROVE  DirInv'
    <2>1. DirTypeOK'
      BY <1>5 DEF DirInv, DirTypeOK, UpsertMembership
    <2>2. UNCHANGED <<tenants, byWorkspace>>
      BY <1>5 DEF UpsertMembership
    <2> QED
      BY <2>1, <2>2, ContentKeepsIndex DEF DirInv
  <1>6. ASSUME NEW g \in Grant, RemoveMembership(g)
        PROVE  DirInv'
    BY <1>5, <1>6 DEF RemoveMembership
  <1>7. ASSUME NEW w \in Workspace, ForgetCluster(w)
        PROVE  DirInv'
    <2>1. DirTypeOK'
      BY <1>7 DEF DirInv, DirTypeOK, ForgetCluster
    <2>2. UNCHANGED <<tenants, byWorkspace>>
      BY <1>7 DEF ForgetCluster
    <2> QED
      BY <2>1, <2>2, ContentKeepsIndex DEF DirInv
  <1>8. ASSUME ForgetPlatform
        PROVE  DirInv'
    <2>1. DirTypeOK'
      BY <1>8 DEF DirInv, DirTypeOK, ForgetPlatform, TenantEntry, UnknownTenant
    <2>2. \A w \in Workspace : byWorkspace'[w] = NoTenant
      BY <1>8 DEF DirInv, DirTypeOK, IndexExact, ForgetPlatform
    <2>3. \A t \in Tenant : tenants'[t].workspace = NoWorkspace
      BY <1>8 DEF ForgetPlatform, UnknownTenant
    <2> QED
      BY <2>1, <2>2, <2>3, AbsentAssumption DEF DirInv, IndexExact, OwnWorkspace
  <1>9. ASSUME SetReady
        PROVE  DirInv'
    <2>1. DirTypeOK'
      BY <1>9 DEF DirInv, DirTypeOK, SetReady
    <2> QED
      BY <2>1, <1>9, ContentKeepsIndex DEF DirInv, SetReady
  <1>10. CASE UNCHANGED dirVars
    BY <1>10 DEF DirInv, DirTypeOK, IndexExact, OwnWorkspace, dirVars
  <1> QED
    BY <1>1, <1>2, <1>3, <1>4, <1>5, <1>6, <1>7, <1>8, <1>9, <1>10 DEF DirNext

(* The directory's index is the exact inverse of the workspaces recorded   *)
(* for its tenants (tenancy/pkg/directory).                                *)
THEOREM DirectoryIndex == DirSpec => []IndexExact
  <1>1. DirInv => IndexExact
    BY DEF DirInv
  <1> QED
    BY <1>1, DirStart, DirStep, PTL DEF DirSpec

(* With an exact index a claim's cluster is the workspace it was seen in.  *)
LEMMA LocalClaims == DirInv => RolesAreLocal
  <1> SUFFICES ASSUME DirInv, NEW identity \in SUBSET Subject, NEW w \in Workspace,
                      byWorkspace[w] # NoTenant
               PROVE  LET c == Claim(identity, w) IN
                      /\ c.cluster # NoWorkspace
                      /\ c.roles = RolesOn(identity, c.cluster, TenantWide)
                      /\ c.projects \subseteq projects[c.cluster]
    BY DEF RolesAreLocal, ReviewFor, Seen
  <1>1. byWorkspace[w] \in Tenant
    BY DEF DirInv, DirTypeOK
  <1>2. Claim(identity, w).cluster = w
    BY <1>1 DEF DirInv, IndexExact, Claim
  <1>3. w # NoWorkspace
    BY AbsentAssumption
  <1> QED
    BY <1>2, <1>3 DEF Claim

(* ReviewFor never lets a role granted in one tenant's workspace count in  *)
(* another's: a claim's roles, projects and cluster are of one workspace.  *)
THEOREM ReviewIsLocal == DirSpec => []RolesAreLocal
  BY LocalClaims, DirStart, DirStep, PTL DEF DirSpec

-----------------------------------------------------------------------------
(* The API that reads the directory.                                       *)

(* A Membership object, or that there is none. *)
GrantObject == [role : Role \cup {NoRole}, deleting : BOOLEAN]

ApiTypeOK ==
    /\ status \in [Tenant -> TenantEntry]
    /\ grants \in [Grant -> GrantObject]
    /\ request \in [User -> Request \cup {NoRequest}]
    /\ wasAdmin \in [Workspace -> SUBSET Subject]

(* The operator reports a workspace of the tenant's own. *)
OwnStatus == \A t \in Tenant : status[t].workspace # NoWorkspace => Owner[status[t].workspace] = t

(* An admin grant, as it is or as it is mirrored, was made by a write that *)
(* is remembered, or seeded.                                               *)
AdminsRemembered ==
    \A g \in Grant : g.project = TenantWide /\ "admin" \in {grants[g].role, memberships[g]}
                        => g.subject \in wasAdmin[g.cluster]

MembersInv == DirInv /\ ApiTypeOK /\ OwnStatus /\ AdminsRemembered

-----------------------------------------------------------------------------
(* What a step does to the directory is an operation of the directory.     *)
LEMMA MirrorStep ==
    ASSUME ApiTypeOK, OwnStatus, Mirror \/ Start
    PROVE  DirNext /\ UNCHANGED apiVars
  <1>1. ASSUME NEW t \in Tenant, MirrorTenant(t) PROVE DirNext /\ UNCHANGED apiVars
    <2>1. status[t].workspace \in Workspace \cup {NoWorkspace}
      BY DEF ApiTypeOK, TenantEntry
    <2> QED
      BY <1>1, <2>1 DEF MirrorTenant, DirNext, OwnStatus
  <1>2. ASSUME NEW g \in Grant, MirrorMembership(g) PROVE DirNext /\ UNCHANGED apiVars
    <2>1. grants[g].role \in Role \cup {NoRole}
      BY DEF ApiTypeOK, GrantObject
    <2> QED
      BY <1>2, <2>1 DEF MirrorMembership, DirNext, RemoveMembership
  <1>3. ASSUME NEW w \in Workspace, NEW p \in Project, MirrorProject(w, p)
        PROVE  DirNext /\ UNCHANGED apiVars
    BY <1>3 DEF MirrorProject, DirNext
  <1>4. ASSUME NEW w \in Workspace, OnDelete(w) PROVE DirNext /\ UNCHANGED apiVars
    BY <1>4 DEF OnDelete, DirNext
  <1>5. ASSUME Start PROVE DirNext /\ UNCHANGED apiVars
    BY <1>5 DEF Start, DirNext
  <1> QED
    BY <1>1, <1>2, <1>3, <1>4, <1>5 DEF Mirror

(* Requests change an object one field at a time. *)
LEMMA MembershipFacts ==
    /\ NoMembership \in GrantObject /\ NoMembership.role # "admin"
    /\ \A m \in GrantObject, r \in Role : [m EXCEPT !.role = r] \in GrantObject
    /\ \A m \in GrantObject, b \in BOOLEAN : [m EXCEPT !.deleting = b] \in GrantObject
  BY UserAssumption, AbsentAssumption DEF GrantObject, NoMembership

(* The platform leaves the directory and the requests alone, reports       *)
(* workspaces of a tenant's own, and takes grants away or leaves them.     *)
Platform ==
    \/ \E t \in Tenant, w \in Workspace \cup {NoWorkspace} : ReportStatus(t, w)
    \/ \E w \in Workspace : DeleteWorkspace(w) \/ CreateWorkspace(w)
    \/ \E w \in Workspace, p \in Project : ChangeProject(w, p)
    \/ \E t \in Tenant : DeleteTenant(t)
    \/ \E g \in Grant : Finalize(g)

LEMMA PlatformStep ==
    ASSUME ApiTypeOK, OwnStatus, Platform
    PROVE  /\ UNCHANGED dirVars /\ UNCHANGED <<request, wasAdmin>>
           /\ ApiTypeOK' /\ OwnStatus'
           /\ \A g \in Grant : grants'[g] \in {grants[g], NoMembership}
  <1> USE DEF ApiTypeOK
  <1>1. ASSUME NEW t \in Tenant, NEW w \in Workspace \cup {NoWorkspace}, ReportStatus(t, w)
        PROVE  /\ UNCHANGED <<dirVars, request, wasAdmin, grants>>
               /\ status' \in [Tenant -> TenantEntry] /\ OwnStatus'
    <2>1. [status[t] EXCEPT !.workspace = w] \in TenantEntry
      BY DEF TenantEntry
    <2>2. /\ status' = [status EXCEPT ![t] = [status[t] EXCEPT !.workspace = w]]
          /\ UNCHANGED <<dirVars, request, wasAdmin, grants>>
          /\ w # NoWorkspace => Owner[w] = t
      BY <1>1 DEF ReportStatus
    <2>3. /\ status'[t].workspace = w
          /\ \A u \in Tenant : u # t => status'[u] = status[u]
      BY <2>2 DEF TenantEntry
    <2> QED
      BY <2>1, <2>2, <2>3 DEF OwnStatus
  <1>2. ASSUME NEW t \in Tenant, DeleteTenant(t)
        PROVE  /\ UNCHANGED <<dirVars, request, wasAdmin, grants>>
               /\ status' \in [Tenant -> TenantEntry] /\ OwnStatus'
    BY <1>2 DEF DeleteTenant, OwnStatus, UnknownTenant, TenantEntry
  <1>3. ASSUME \/ \E w \in Workspace : DeleteWorkspace(w) \/ CreateWorkspace(w)
               \/ \E w \in Workspace, p \in Project : ChangeProject(w, p)
               \/ \E g \in Grant : Finalize(g)
        PROVE  /\ UNCHANGED <<dirVars, request, wasAdmin, status>>
               /\ grants' \in [Grant -> GrantObject]
               /\ \A g \in Grant : grants'[g] \in {grants[g], NoMembership}
    BY <1>3, MembershipFacts
    DEF DeleteWorkspace, CreateWorkspace, ChangeProject, Finalize
  <1> QED
    BY <1>1, <1>2, <1>3 DEF Platform, OwnStatus

LEMMA MembersInitially == Init => MembersInv
  <1> SUFFICES ASSUME Init PROVE MembersInv
    OBVIOUS
  <1>1. DirInv
    BY DirStart DEF Init
  <1>2. ApiTypeOK
    <2>1. NoMembership \in GrantObject /\ [role |-> "admin", deleting |-> FALSE] \in GrantObject
      BY UserAssumption DEF GrantObject, NoMembership
    <2>2. \A w \in Workspace : FirstAdmin[Owner[w]] \in Subject
      BY UserAssumption, OwnerAssumption
    <2> QED
      BY <2>1, <2>2 DEF Init, ApiTypeOK
  <1>3. OwnStatus
    BY DEF Init, OwnStatus
  <1>4. AdminsRemembered
    <2> SUFFICES ASSUME NEW g \in Grant, g.project = TenantWide,
                        "admin" \in {grants[g].role, memberships[g]}
                 PROVE  g.subject \in wasAdmin[g.cluster]
      BY DEF AdminsRemembered
    <2>1. memberships[g] # "admin" /\ NoMembership.role # "admin"
      BY UserAssumption, AbsentAssumption DEF Init, DirInit, NoMembership
    <2>2. g.cluster \in fleet /\ Seeded(g)
      BY <2>1 DEF Init
    <2>3. g.cluster \in Workspace /\ g.subject = FirstAdmin[Owner[g.cluster]]
      BY <2>2 DEF Seeded, AdminGrant, Grant
    <2> QED
      BY <2>2, <2>3 DEF Init
  <1> QED
    BY <1>1, <1>2, <1>3, <1>4 DEF MembersInv

-----------------------------------------------------------------------------
(* A grant becomes an admin's only by a write. *)
LEMMA MirrorKeeps ==
    ASSUME MembersInv, Mirror \/ Start
    PROVE  MembersInv'
  <1>1. DirNext /\ UNCHANGED apiVars
    BY MirrorStep DEF MembersInv
  <1>2. DirInv'
    BY <1>1, DirStep DEF MembersInv
  <1>3. ApiTypeOK' /\ OwnStatus'
    BY <1>1 DEF MembersInv, ApiTypeOK, OwnStatus, apiVars
  <1>4. ASSUME NEW g \in Grant PROVE memberships'[g] \in {memberships[g], grants[g].role, NoRole}
    BY DEF Mirror, Start, SetReady, MirrorTenant, MirrorProject, MirrorMembership, OnDelete,
           UpsertTenant, RemoveTenant, UpsertProject, RemoveProject, UpsertMembership,
           ForgetCluster, MembersInv, DirInv, DirTypeOK
  <1>5. AdminsRemembered'
    BY <1>1, <1>4, UserAssumption, AbsentAssumption DEF MembersInv, AdminsRemembered, apiVars
  <1> QED
    BY <1>2, <1>3, <1>5 DEF MembersInv

LEMMA PlatformKeeps ==
    ASSUME MembersInv, Platform
    PROVE  MembersInv'
  <1>1. DirInv' /\ ApiTypeOK' /\ OwnStatus'
    BY PlatformStep, DirStep DEF MembersInv
  <1>2. AdminsRemembered'
    BY PlatformStep, MembershipFacts DEF MembersInv, AdminsRemembered, dirVars
  <1> QED
    BY <1>1, <1>2 DEF MembersInv

(* A check lets through whom the directory, and so some write, has made an *)
(* admin of the very workspace.                                            *)
LEMMA AdminTenantsWereMade ==
    ASSUME MembersInv, NEW u \in User, NEW c \in AdminTenants(u)
    PROVE  c.cluster \in Workspace /\ Identity[u] \cap wasAdmin[c.cluster] # {}
  <1>1. Identity[u] \in SUBSET Subject
    BY UserAssumption
  <1>2. c \in ReviewFor(Identity[u]) /\ "admin" \in c.roles /\ c.cluster # NoWorkspace
    BY DEF AdminTenants
  <1>3. c.roles = RolesOn(Identity[u], c.cluster, TenantWide)
    BY <1>1, <1>2, LocalClaims DEF MembersInv, RolesAreLocal
  <1>4. c.cluster \in Workspace
    <2>1. PICK w \in Workspace : byWorkspace[w] # NoTenant /\ c = Claim(Identity[u], w)
      BY <1>2 DEF ReviewFor, Seen
    <2>2. byWorkspace[w] \in Tenant
      BY <2>1 DEF MembersInv, DirInv, DirTypeOK
    <2> QED
      BY <1>2, <2>1, <2>2 DEF Claim, MembersInv, DirInv, DirTypeOK, TenantEntry
  <1>5. PICK s \in Identity[u] :
            memberships[[cluster |-> c.cluster, subject |-> s, project |-> TenantWide]] = "admin"
    BY <1>2, <1>3 DEF RolesOn
  <1>6. [cluster |-> c.cluster, subject |-> s, project |-> TenantWide] \in Grant
    BY <1>1, <1>4 DEF Grant
  <1>7. s \in wasAdmin[c.cluster]
    BY <1>5, <1>6 DEF MembersInv, AdminsRemembered
  <1> QED
    BY <1>4, <1>7

LEMMA CheckKeeps ==
    ASSUME MembersInv, RequestsAreByAdmins, NEW u \in User, NEW g \in Grant,
           CheckRevoke(u, g) \/ \E r \in Role : CheckGrant(u, g, r)
    PROVE  MembersInv' /\ RequestsAreByAdmins'
  <1> DEFINE req == request'[u]
  <1>1. /\ request' = [request EXCEPT ![u] = req] /\ req \in Request /\ req.grant = g
        /\ UNCHANGED dirVars /\ UNCHANGED <<status, grants, wasAdmin>>
    BY DEF CheckGrant, CheckRevoke, Check, Request, MembersInv, ApiTypeOK, dirVars
  <1>2. Identity[u] \cap wasAdmin[g.cluster] # {}
    BY AdminTenantsWereMade DEF CheckGrant, CheckRevoke
  <1>3. DirInv' /\ OwnStatus' /\ AdminsRemembered'
    BY <1>1, DirStep DEF MembersInv, OwnStatus, AdminsRemembered, dirVars
  <1>4. ApiTypeOK'
    BY <1>1 DEF MembersInv, ApiTypeOK
  <1>5. RequestsAreByAdmins'
    BY <1>1, <1>2 DEF RequestsAreByAdmins, MembersInv, ApiTypeOK
  <1> QED
    BY <1>3, <1>4, <1>5 DEF MembersInv

LEMMA WriteKeeps ==
    ASSUME MembersInv, RequestsAreByAdmins, NEW u \in User, Write(u)
    PROVE  MembersInv' /\ RequestsAreByAdmins'
  <1> DEFINE req == request[u]
             w == req.grant.cluster
  <1>1. req \in Request /\ req.grant \in Grant /\ w \in Workspace
    BY DEF Write, MembersInv, ApiTypeOK, Request, Grant
  <1>2. UNCHANGED dirVars /\ UNCHANGED status
        /\ request' = [request EXCEPT ![u] = NoRequest]
        /\ wasAdmin' = [wasAdmin EXCEPT ![w] = @ \cup Granted(grants', w)]
        /\ (UNCHANGED grants \/ grants' = Written(req))
    BY DEF Write, dirVars
  <1>3. /\ grants' \in [Grant -> GrantObject]
        /\ \A h \in Grant : h # req.grant => grants'[h] = grants[h]
    <2>1. CASE grants' = Written(req) /\ req.kind = "grant"
      <3>1. req.role \in Role
        BY <1>1, <2>1 DEF Request
      <3>2. grants' = [grants EXCEPT ![req.grant].role = req.role]
        BY <2>1 DEF Written
      <3> QED
        BY <1>1, <3>1, <3>2, MembershipFacts DEF MembersInv, ApiTypeOK
    <2>2. CASE grants' = Written(req) /\ req.kind # "grant"
      <3>1. grants' = [grants EXCEPT ![req.grant].deleting = (grants[req.grant].role # NoRole)]
        BY <2>2 DEF Written
      <3> QED
        BY <1>1, <3>1, MembershipFacts DEF MembersInv, ApiTypeOK
    <2> QED
      BY <1>2, <2>1, <2>2 DEF MembersInv, ApiTypeOK
  <1>4. /\ wasAdmin' \in [Workspace -> SUBSET Subject]
        /\ \A v \in Workspace : wasAdmin[v] \subseteq wasAdmin'[v]
        /\ Granted(grants', w) \subseteq wasAdmin'[w]
    BY <1>1, <1>2 DEF MembersInv, ApiTypeOK, Granted
  <1>5. DirInv' /\ OwnStatus' /\ ApiTypeOK'
    BY <1>2, <1>3, <1>4, DirStep DEF MembersInv, OwnStatus, ApiTypeOK, dirVars
  <1>6. AdminsRemembered'
    <2> SUFFICES ASSUME NEW g \in Grant, g.project = TenantWide,
                        "admin" \in {grants'[g].role, memberships'[g]}
                 PROVE  g.subject \in wasAdmin'[g.cluster]
      BY DEF AdminsRemembered
    <2>1. g.cluster \in Workspace /\ g.subject \in Subject /\ g = AdminGrant(g.cluster, g.subject)
      BY DEF Grant, AdminGrant
    <2>2. CASE "admin" \in {grants[g].role, memberships[g]}
      BY <1>4, <2>1, <2>2 DEF MembersInv, AdminsRemembered
    <2>3. CASE "admin" \notin {grants[g].role, memberships[g]}
      <3>1. grants'[g].role = "admin" /\ g = req.grant
        BY <1>2, <1>3, <2>3 DEF dirVars
      <3> QED
        BY <1>4, <2>1, <3>1 DEF Granted
    <2> QED
      BY <2>2, <2>3
  <1>7. RequestsAreByAdmins'
    <2> SUFFICES ASSUME NEW x \in User, request'[x] # NoRequest
                 PROVE  Identity[x] \cap wasAdmin'[request'[x].grant.cluster] # {}
      BY DEF RequestsAreByAdmins
    <2>1. request'[x] = request[x]
      BY <1>2 DEF MembersInv, ApiTypeOK
    <2>2. request[x].grant.cluster \in Workspace
      BY <2>1 DEF MembersInv, ApiTypeOK, Request, Grant
    <2> QED
      BY <1>4, <2>1, <2>2 DEF RequestsAreByAdmins
  <1> QED
    BY <1>5, <1>6, <1>7 DEF MembersInv

-----------------------------------------------------------------------------
LEMMA MembersStay ==
    ASSUME MembersInv /\ RequestsAreByAdmins, [Next]_vars
    PROVE  (MembersInv /\ RequestsAreByAdmins)' /\ [DirNext]_dirVars
  <1>1. CASE Mirror \/ Start
    <2>1. DirNext /\ UNCHANGED apiVars
      BY <1>1, MirrorStep DEF MembersInv
    <2> QED
      BY <1>1, <2>1, MirrorKeeps DEF RequestsAreByAdmins, apiVars
  <1>2. CASE Platform
    BY <1>2, PlatformStep, PlatformKeeps DEF RequestsAreByAdmins, MembersInv
  <1>3. ASSUME NEW u \in User, NEW g \in Grant,
               CheckRevoke(u, g) \/ \E r \in Role : CheckGrant(u, g, r)
        PROVE  (MembersInv /\ RequestsAreByAdmins)' /\ [DirNext]_dirVars
    BY <1>3, CheckKeeps DEF CheckGrant, CheckRevoke, Check
  <1>4. ASSUME NEW u \in User, Write(u)
        PROVE  (MembersInv /\ RequestsAreByAdmins)' /\ [DirNext]_dirVars
    BY <1>4, WriteKeeps DEF Write
  <1>5. CASE UNCHANGED vars
    BY <1>5, DirStep
    DEF vars, apiVars, dirVars, MembersInv, ApiTypeOK, OwnStatus, AdminsRemembered,
        RequestsAreByAdmins
  <1> QED
    BY <1>1, <1>2, <1>3, <1>4, <1>5 DEF Next, Platform

LEMMA MembersStart == Init => MembersInv /\ RequestsAreByAdmins /\ DirInit
  BY MembersInitially DEF Init, RequestsAreByAdmins

(* Every step of the mirrors, in whatever order and however late, is one   *)
(* that the directory's own specification allows (provider.go).            *)
THEOREM MirrorsImplementDirectory == Spec => ImplementsDirectory
  BY MembersStart, MembersStay, PTL DEF Spec, DirSpec, ImplementsDirectory

(* Therefore what is proved of every directory is so in this one: a claim  *)
(* that a request is checked against is of one workspace.                  *)
THEOREM ClaimsAreLocal == Spec => []RolesAreLocal
  BY MirrorsImplementDirectory, ReviewIsLocal DEF ImplementsDirectory

(* No role on a project, in another tenant or of a workspace that moved    *)
(* gets anybody's request to a tenant past the check (authorize).          *)
THEOREM OnlyAdminsWrite == Spec => []RequestsAreByAdmins
  BY MembersStart, MembersStay, PTL DEF Spec

-----------------------------------------------------------------------------
(* A tenant keeps its last admin while requests do not overlap.            *)

PendingAt(u, w) == request[u] # NoRequest /\ request[u].grant.cluster = w

AgreedOn(w) ==
    \A g \in Grant : g.cluster = w => memberships[g] = grants[g].role /\ ~grants[g].deleting

RoleAfter(req) == IF req.kind = "grant" THEN req.role ELSE NoRole

RefusedNow(u) == Refused(request[u].grant, RoleAfter(request[u]))

(* Where no requests overlapped, the check of a pending request still      *)
(* tells what its write will do.                                           *)
CarefulAt(w) ==
    w \in fleet \ overlapped => \A u \in User : PendingAt(u, w) =>
        /\ AgreedOn(w)
        /\ \A v \in User : PendingAt(v, w) => v = u
        /\ ~RefusedNow(u)

(* There is nothing in a workspace that is not there, and nobody was ever  *)
(* admin of one that was not made yet.                                     *)
EmptyAt(w) ==
    /\ w \notin fleet => \A g \in Grant : g.cluster = w => grants[g] = NoMembership
    /\ life[w] = "unused" => wasAdmin[w] = {}

KeepsAt(w) == w \in fleet \ overlapped /\ wasAdmin[w] # {} => Admins(grants, w) # {}

OkAt(w) == CarefulAt(w) /\ EmptyAt(w) /\ KeepsAt(w)

Others ==
    /\ exists \in [Workspace -> SUBSET Project]
    /\ life \in [Workspace -> {"unused", "live", "gone"}]
    /\ requests \in 0..MaxRequests
    /\ overlapped \subseteq Workspace
    /\ grants \in [Grant -> Membership]

KeepInv == MembersInv /\ RequestsAreByAdmins /\ Others /\ \A w \in Workspace : OkAt(w)

(* What a step leaves alone in a workspace; where directory and objects    *)
(* agree the mirrors have nothing to do.                                   *)
Untouched(w) ==
    /\ life'[w] = life[w] /\ wasAdmin'[w] = wasAdmin[w] /\ overlapped \subseteq overlapped'
    /\ \A g \in Grant : g.cluster = w => grants'[g] = grants[g]
    /\ \A g \in Grant : g.cluster = w /\ w \in fleet /\ AgreedOn(w) =>
                            memberships'[g] = memberships[g]
    /\ \A u \in User : PendingAt(u, w)' => PendingAt(u, w) /\ request'[u] = request[u]

LEMMA AdminGrantFacts ==
    ASSUME NEW w \in Workspace, NEW s \in Subject
    PROVE  /\ AdminGrant(w, s) \in Grant /\ AdminGrant(w, s).cluster = w
           /\ AdminGrant(w, s).project = TenantWide /\ AdminGrant(w, s).subject = s
  BY DEF AdminGrant, Grant

(* Who is an admin, by the objects in the workspace alone.                 *)
LEMMA AdminsFacts ==
    ASSUME NEW w \in Workspace, NEW s \in Subject, NEW gs
    PROVE  s \in Admins(gs, w) <=> /\ gs[AdminGrant(w, s)].role = "admin"
                                   /\ ~gs[AdminGrant(w, s)].deleting
  BY DEF Admins, Granted

LEMMA UntouchedStays ==
    ASSUME KeepInv, NEW w \in Workspace, Untouched(w)
    PROVE  OkAt(w)'
  <1> USE DEF Untouched
  <1>1. OkAt(w) /\ (w \in fleet' <=> w \in fleet)
    BY DEF KeepInv, fleet
  <1>2. CarefulAt(w)'
    <2> SUFFICES ASSUME w \in fleet, w \notin overlapped, NEW u \in User, PendingAt(u, w)'
                 PROVE  /\ AgreedOn(w)'
                        /\ \A v \in User : PendingAt(v, w)' => v = u
                        /\ ~RefusedNow(u)'
      BY <1>1 DEF CarefulAt
    <2>1. PendingAt(u, w) /\ request'[u] = request[u]
      OBVIOUS
    <2>2. AgreedOn(w) /\ ~RefusedNow(u)
      BY <1>1, <2>1 DEF OkAt, CarefulAt
    <2>3. request[u].grant \in Grant /\ request[u].grant.cluster = w
      BY <2>1 DEF PendingAt, KeepInv, MembersInv, ApiTypeOK, Request
    <2>4. \A h \in Grant : h.cluster = w => memberships'[h] = memberships[h]
      BY <2>2
    <2>5. AgreedOn(w)'
      BY <2>2, <2>4 DEF AgreedOn
    <2>6. \A v \in User : PendingAt(v, w)' => v = u
      BY <1>1, <2>1 DEF OkAt, CarefulAt
    <2>7. ~RefusedNow(u)'
      BY <2>1, <2>2, <2>3, <2>4 DEF RefusedNow, Refused, LastTenantAdmin, RoleAfter
    <2> QED
      BY <2>1, <2>5, <2>6, <2>7
  <1>3. EmptyAt(w)'
    BY <1>1 DEF OkAt, EmptyAt
  <1>4. KeepsAt(w)'
    <2>1. ASSUME NEW s \in Subject PROVE grants'[AdminGrant(w, s)] = grants[AdminGrant(w, s)]
      BY AdminGrantFacts
    <2>2. Admins(grants', w) = Admins(grants, w)
      BY <2>1 DEF Admins, Granted
    <2> QED
      BY <1>1, <2>2 DEF OkAt, KeepsAt
  <1> QED
    BY <1>2, <1>3, <1>4 DEF OkAt

LEMMA KeepInitially == Init => KeepInv
  <1> SUFFICES ASSUME Init PROVE KeepInv
    OBVIOUS
  <1>1. MembersInv /\ RequestsAreByAdmins
    BY MembersStart
  <1>2. Others
    <2>1. NoMembership \in Membership /\ [role |-> "admin", deleting |-> FALSE] \in Membership
      BY UserAssumption DEF Membership
    <2>2. grants \in [Grant -> Membership]
      BY <2>1 DEF Init
    <2>3. life \in [Workspace -> {"unused", "live", "gone"}]
      BY DEF Init
    <2> QED
      BY <2>2, <2>3, BoundAssumption DEF Init, Others
  <1>3. ASSUME NEW w \in Workspace PROVE OkAt(w)
    <2>1. CarefulAt(w) /\ EmptyAt(w)
      BY DEF Init, CarefulAt, PendingAt, EmptyAt, fleet
    <2>2. ASSUME w \in fleet PROVE Admins(grants, w) # {}
      <3> DEFINE s == FirstAdmin[Owner[w]]
      <3>1. s \in Subject
        BY UserAssumption, OwnerAssumption
      <3>2. AdminGrant(w, s) \in Grant /\ AdminGrant(w, s).cluster = w
        BY <3>1, AdminGrantFacts
      <3>3. Seeded(AdminGrant(w, s))
        BY <3>2 DEF Seeded
      <3>4. grants[AdminGrant(w, s)] = [role |-> "admin", deleting |-> FALSE]
        BY <2>2, <3>2, <3>3 DEF Init
      <3> HIDE DEF s
      <3> QED
        BY <3>1, <3>4, AdminsFacts
    <2> QED
      BY <2>1, <2>2 DEF OkAt, KeepsAt
  <1> QED
    BY <1>1, <1>2, <1>3 DEF KeepInv

LEMMA MirrorKeepsAdmins ==
    ASSUME KeepInv, Mirror \/ Start, NEW w \in Workspace
    PROVE  OkAt(w)'
  <1>1. UNCHANGED apiVars
    BY MirrorStep DEF KeepInv, MembersInv
  <1>2. ASSUME NEW g \in Grant, g.cluster = w, w \in fleet, AgreedOn(w)
        PROVE  memberships'[g] = memberships[g]
    <2>1. memberships[g] = grants[g].role /\ memberships \in [Grant -> Role \cup {NoRole}]
      BY <1>2 DEF AgreedOn, KeepInv, MembersInv, DirInv, DirTypeOK
    <2> QED
      BY <1>2, <2>1
      DEF Mirror, Start, SetReady, MirrorTenant, MirrorProject, MirrorMembership, OnDelete,
          UpsertTenant, RemoveTenant, UpsertProject, RemoveProject, UpsertMembership,
          ForgetCluster
  <1>3. Untouched(w)
    BY <1>1, <1>2 DEF Untouched, apiVars, PendingAt
  <1> QED
    BY <1>3, UntouchedStays

LEMMA PlatformKeepsAdmins ==
    ASSUME KeepInv, Platform, NEW w \in Workspace
    PROVE  OkAt(w)'
  <1>1. /\ UNCHANGED <<tenants, byWorkspace, projects, memberships, ready, request, wasAdmin>>
        /\ \A g \in Grant : grants'[g] \in {grants[g], NoMembership}
    BY PlatformStep DEF KeepInv, MembersInv, dirVars
  <1>2. UNCHANGED overlapped /\ life \in [Workspace -> {"unused", "live", "gone"}] /\ OkAt(w)
    BY DEF Platform, ReportStatus, DeleteWorkspace, CreateWorkspace, ChangeProject, DeleteTenant,
           Finalize, KeepInv, Others
  <1>3. ASSUME life'[w] = life[w], \A g \in Grant : g.cluster = w => grants'[g] = grants[g]
        PROVE  OkAt(w)'
    <2>1. Untouched(w)
      BY <1>1, <1>2, <1>3 DEF Untouched, PendingAt
    <2> QED
      BY <2>1, UntouchedStays
  <1>4. ASSUME NEW v \in Workspace, DeleteWorkspace(v) PROVE OkAt(w)'
    <2>1. CASE v # w
      BY <1>2, <1>3, <1>4, <2>1 DEF DeleteWorkspace
    <2>2. CASE v = w
      BY <1>2, <1>4, <2>2 DEF DeleteWorkspace, OkAt, CarefulAt, EmptyAt, KeepsAt, fleet
    <2> QED
      BY <2>1, <2>2
  <1>5. ASSUME NEW v \in Workspace, CreateWorkspace(v) PROVE OkAt(w)'
    <2>1. CASE v # w
      BY <1>2, <1>3, <1>5, <2>1 DEF CreateWorkspace
    <2>2. CASE v = w
      <3>1. wasAdmin[w] = {} /\ life'[w] = "live"
        BY <1>2, <1>5, <2>2 DEF CreateWorkspace, OkAt, EmptyAt
      <3>2. \A u \in User : ~PendingAt(u, w)'
        BY <1>1, <3>1 DEF PendingAt, KeepInv, RequestsAreByAdmins
      <3> QED
        BY <1>1, <3>1, <3>2 DEF OkAt, CarefulAt, EmptyAt, KeepsAt, fleet
    <2> QED
      BY <2>1, <2>2
  <1>6. ASSUME NEW g \in Grant, Finalize(g) PROVE OkAt(w)'
    <2>1. /\ grants[g].deleting /\ UNCHANGED life
          /\ \A h \in Grant : h # g => grants'[h] = grants[h]
      BY <1>6 DEF Finalize, KeepInv, Others
    <2>2. CASE g.cluster # w
      BY <1>3, <2>1, <2>2
    <2>3. CASE g.cluster = w
      <3>1. ~AgreedOn(w)
        BY <2>1, <2>3 DEF AgreedOn
      <3>2. CarefulAt(w)'
        BY <1>1, <1>2, <2>1, <3>1 DEF OkAt, CarefulAt, PendingAt, fleet
      <3>3. EmptyAt(w)'
        BY <1>1, <1>2, <2>1 DEF OkAt, EmptyAt, fleet
      <3>4. ASSUME NEW s \in Admins(grants, w) PROVE s \in Admins(grants', w)
        <4>1. s \in Subject
          BY DEF Admins, Granted
        <4>2. ~grants[AdminGrant(w, s)].deleting /\ AdminGrant(w, s) \in Grant
          BY <4>1, AdminsFacts, AdminGrantFacts
        <4>3. grants'[AdminGrant(w, s)] = grants[AdminGrant(w, s)]
          BY <2>1, <4>2
        <4> QED
          BY <4>1, <4>3, AdminsFacts
      <3>5. KeepsAt(w)'
        BY <1>1, <1>2, <2>1, <3>4 DEF OkAt, KeepsAt, fleet
      <3> QED
        BY <3>2, <3>3, <3>5 DEF OkAt
    <2> QED
      BY <2>2, <2>3
  <1>7. CASE \/ \E t \in Tenant, v \in Workspace \cup {NoWorkspace} : ReportStatus(t, v)
             \/ \E v \in Workspace, p \in Project : ChangeProject(v, p)
             \/ \E t \in Tenant : DeleteTenant(t)
    BY <1>3, <1>7 DEF ReportStatus, ChangeProject, DeleteTenant
  <1> QED
    BY <1>4, <1>5, <1>6, <1>7 DEF Platform

(* A check that finds anything else under way is remembered.               *)
LEMMA CheckKeepsAdmins ==
    ASSUME KeepInv, NEW u \in User, NEW g \in Grant, NEW w \in Workspace,
           CheckRevoke(u, g) \/ \E r \in Role : CheckGrant(u, g, r)
    PROVE  OkAt(w)'
  <1> DEFINE req == request'[u]
  <1>1. /\ req.grant = g /\ request[u] = NoRequest
        /\ \A v \in User : v # u => request'[v] = request[v]
        /\ ~Refused(g, RoleAfter(req))
        /\ overlapped' = overlapped \cup {v \in {g.cluster} : ~Settled(v)}
        /\ UNCHANGED dirVars /\ UNCHANGED <<grants, life, wasAdmin>>
    BY DEF CheckGrant, CheckRevoke, Check, RoleAfter, KeepInv, MembersInv, ApiTypeOK
  <1>2. UNCHANGED memberships /\ OkAt(w) /\ UNCHANGED fleet
    BY <1>1 DEF dirVars, KeepInv, fleet
  <1>3. CASE g.cluster # w
    <2>1. Untouched(w)
      BY <1>1, <1>2, <1>3 DEF Untouched, PendingAt
    <2> QED
      BY <2>1, UntouchedStays
  <1>4. CASE g.cluster = w
    <2>1. CASE w \in overlapped'
      BY <1>1, <1>2, <2>1 DEF OkAt, CarefulAt, EmptyAt, KeepsAt
    <2>2. CASE w \notin overlapped'
      <3>1. Settled(w)
        BY <1>1, <1>4, <2>2
      <3>2. AgreedOn(w)' /\ \A v \in User : PendingAt(v, w)' => v = u
        BY <1>1, <1>2, <3>1 DEF Settled, AgreedOn, PendingAt
      <3>3. ~RefusedNow(u)'
        BY <1>1, <1>2 DEF RefusedNow, Refused, RoleAfter, LastTenantAdmin
      <3>4. CarefulAt(w)'
        BY <3>2, <3>3 DEF CarefulAt
      <3> QED
        BY <1>1, <1>2, <3>4 DEF OkAt, EmptyAt, KeepsAt
    <2> QED
      BY <2>1, <2>2
  <1> QED
    BY <1>3, <1>4

(* The write of a request that was checked alone takes the last admin from *)
(* nobody: the check saw the objects as they still are.                    *)
LEMMA WrittenLeavesAnAdmin ==
    ASSUME KeepInv, NEW u \in User, NEW w \in Workspace, PendingAt(u, w),
           w \in fleet, w \notin overlapped, grants' = Written(request[u])
    PROVE  Admins(grants', w) # {}
  <1> DEFINE req == request[u]
             g == req.grant
  <1>1. req \in Request /\ g \in Grant /\ g.cluster = w
    BY DEF PendingAt, KeepInv, MembersInv, ApiTypeOK, Request
  <1>2. AgreedOn(w) /\ ~RefusedNow(u) /\ KeepsAt(w)
    BY DEF KeepInv, OkAt, CarefulAt
  <1>3. wasAdmin[w] # {}
    BY DEF PendingAt, KeepInv, RequestsAreByAdmins
  <1>4. PICK s \in Subject : /\ grants[AdminGrant(w, s)].role = "admin"
                             /\ ~grants[AdminGrant(w, s)].deleting
    BY <1>2, <1>3 DEF KeepsAt, Admins, Granted
  <1>5. \A h \in Grant : h # g => grants'[h] = grants[h]
    BY <1>1 DEF Written, KeepInv, Others
  <1>6. CASE AdminGrant(w, s) # g
    <2>1. grants'[AdminGrant(w, s)] = grants[AdminGrant(w, s)]
      BY <1>5, <1>6, AdminGrantFacts
    <2> QED
      BY <1>4, <2>1, AdminsFacts
  <1>7. CASE AdminGrant(w, s) = g /\ RoleAfter(req) = "admin"
    <2>1. req.kind = "grant" /\ req.role = "admin"
      BY <1>7, UserAssumption, AbsentAssumption DEF RoleAfter
    <2>2. grants' = [grants EXCEPT ![g].role = "admin"]
      BY <2>1 DEF Written
    <2>3. grants'[g].role = "admin" /\ grants'[g].deleting = grants[g].deleting
      <3>1. grants \in [Grant -> GrantObject]
        BY DEF KeepInv, MembersInv, ApiTypeOK
      <3> QED
        BY <1>1, <2>2, <3>1 DEF GrantObject
    <2> QED
      BY <1>4, <1>7, <2>3, AdminsFacts
  <1>8. CASE AdminGrant(w, s) = g /\ RoleAfter(req) # "admin"
    <2>1. memberships[g] = "admin" /\ g.project = TenantWide
      BY <1>1, <1>2, <1>4, <1>8, AdminGrantFacts DEF AgreedOn
    <2>2. ~LastTenantAdmin(w)
      BY <1>1, <1>2, <1>8, <2>1 DEF RefusedNow, Refused
    <2>3. PICK h \in Grant : /\ h.cluster = w /\ h.project = TenantWide
                             /\ memberships[h] = "admin" /\ h # g
      BY <2>2 DEF LastTenantAdmin
    <2>4. h.subject \in Subject /\ h = AdminGrant(w, h.subject)
      BY <2>3 DEF Grant, AdminGrant
    <2>5. grants'[h].role = "admin" /\ ~grants'[h].deleting
      BY <1>2, <1>5, <2>3 DEF AgreedOn
    <2> QED
      BY <2>4, <2>5, AdminsFacts
  <1> QED
    BY <1>6, <1>7, <1>8

LEMMA WriteKeepsAdmins ==
    ASSUME KeepInv, NEW u \in User, NEW w \in Workspace, Write(u)
    PROVE  OkAt(w)'
  <1> DEFINE v == request[u].grant.cluster
  <1>1. /\ request[u] # NoRequest /\ v \in Workspace /\ request[u].grant \in Grant
        /\ request' = [request EXCEPT ![u] = NoRequest]
        /\ wasAdmin' = [wasAdmin EXCEPT ![v] = @ \cup Granted(grants', v)]
        /\ UNCHANGED grants \/ (v \in fleet /\ grants' = Written(request[u]))
        /\ UNCHANGED dirVars /\ UNCHANGED <<life, overlapped>>
    BY DEF Write, KeepInv, MembersInv, ApiTypeOK, Request, Grant
  <1>2. UNCHANGED memberships /\ OkAt(w) /\ UNCHANGED fleet
    BY <1>1 DEF dirVars, KeepInv, fleet
  <1>3. \A x \in User : PendingAt(x, w)' => x # u /\ PendingAt(x, w) /\ request'[x] = request[x]
    BY <1>1 DEF PendingAt, KeepInv, MembersInv, ApiTypeOK
  <1>4. CASE v # w
    <2>1. \A h \in Grant : h.cluster = w => grants'[h] = grants[h]
      BY <1>1, <1>4 DEF Written, KeepInv, Others
    <2>2. wasAdmin'[w] = wasAdmin[w]
      BY <1>1, <1>4 DEF KeepInv, MembersInv, ApiTypeOK
    <2>3. Untouched(w)
      BY <1>1, <1>2, <1>3, <2>1, <2>2 DEF Untouched
    <2> QED
      BY <2>3, UntouchedStays
  <1>5. CASE v = w
    <2>1. PendingAt(u, w)
      BY <1>1, <1>5 DEF PendingAt
    <2>2. wasAdmin[w] # {}
      BY <1>1, <1>5 DEF KeepInv, RequestsAreByAdmins
    <2>3. CarefulAt(w)'
      BY <1>2, <1>1, <1>3, <2>1 DEF OkAt, CarefulAt
    <2>4. EmptyAt(w)'
      <3>1. life[w] # "unused"
        BY <1>2, <2>2 DEF OkAt, EmptyAt
      <3> QED
        BY <1>1, <1>2, <1>5, <3>1 DEF OkAt, EmptyAt
    <2>5. KeepsAt(w)'
      <3>1. UNCHANGED grants => KeepsAt(w)'
        BY <1>1, <1>2, <2>2 DEF OkAt, KeepsAt
      <3> QED
        BY <1>1, <1>2, <2>1, <3>1, WrittenLeavesAnAdmin DEF KeepsAt
    <2> QED
      BY <2>3, <2>4, <2>5 DEF OkAt
  <1> QED
    BY <1>4, <1>5

LEMMA OthersKept == ASSUME KeepInv, Next PROVE Others'
  <1> USE DEF Others
  <1>1. /\ Others /\ NoMembership \in Membership
        /\ \A m \in Membership, r \in Role : [m EXCEPT !.role = r] \in Membership
        /\ \A m \in Membership : [m EXCEPT !.deleting = (m.role # NoRole)] \in Membership
    <2> DEFINE held == [role : Role, deleting : BOOLEAN]
    <2>1. Membership = held \cup {NoMembership} /\ NoMembership = [role |-> NoRole, deleting |-> FALSE]
      BY DEF Membership, NoMembership
    <2>2. ASSUME NEW m \in held, NEW r \in Role
          PROVE  /\ [m EXCEPT !.role = r] \in held
                 /\ [m EXCEPT !.deleting = (m.role # NoRole)] \in held
      OBVIOUS
    <2>3. ASSUME NEW r \in Role PROVE [NoMembership EXCEPT !.role = r] \in held
      BY <2>1
    <2>4. [NoMembership EXCEPT !.deleting = (NoMembership.role # NoRole)] = NoMembership
      <3>1. (NoMembership.role # NoRole) = FALSE
        BY <2>1
      <3> DEFINE none == [role : {NoRole}, deleting : {FALSE}]
      <3>2. \A m \in none : [m EXCEPT !.deleting = FALSE] \in none
        OBVIOUS
      <3>3. ASSUME NEW m \in [role : {NoRole}, deleting : {FALSE}]
            PROVE  m = [role |-> NoRole, deleting |-> FALSE]
        BY Zenon
      <3>4. [role |-> NoRole, deleting |-> FALSE] \in none
        OBVIOUS
      <3>5. \A m \in none : m = [role |-> NoRole, deleting |-> FALSE]
        BY <3>3
      <3> HIDE DEF none
      <3> QED
        BY <2>1, <3>1, <3>2, <3>4, <3>5
    <2>5. Role # {}
      BY UserAssumption
    <2> HIDE DEF held
    <2> QED
      BY <2>1, <2>2, <2>3, <2>4, <2>5 DEF KeepInv
  <1>2. ASSUME Bounded PROVE requests' \in 0..MaxRequests
    BY <1>1, <1>2, BoundAssumption DEF Bounded
  <1>3. CASE Mirror \/ Start
    <2>1. UNCHANGED apiVars
      BY <1>3, MirrorStep DEF KeepInv, MembersInv
    <2> QED
      BY <1>1, <2>1 DEF apiVars
  <1>4. CASE Platform
    BY <1>1, <1>2, <1>4
    DEF Platform, ReportStatus, DeleteWorkspace, CreateWorkspace, ChangeProject, DeleteTenant,
        Finalize
  <1>5. ASSUME NEW u \in User, NEW g \in Grant,
               CheckRevoke(u, g) \/ \E r \in Role : CheckGrant(u, g, r)
        PROVE  Others'
    <2>1. g.cluster \in Workspace /\ request'[u].grant = g
      BY <1>5 DEF Grant, CheckRevoke, CheckGrant, Check, KeepInv, MembersInv, ApiTypeOK
    <2>2. overlapped' \subseteq overlapped \cup {g.cluster}
      BY <1>5, <2>1 DEF CheckRevoke, CheckGrant, Check
    <2> QED
      BY <1>1, <1>2, <1>5, <2>1, <2>2 DEF CheckRevoke, CheckGrant, Check
  <1>6. ASSUME NEW u \in User, Write(u) PROVE Others'
    <2> DEFINE req == request[u]
    <2>1. req \in Request /\ req.grant \in Grant
      BY <1>6 DEF Write, KeepInv, MembersInv, ApiTypeOK, Request
    <2>2. CASE grants' = Written(req) /\ req.kind = "grant"
      <3>1. grants' = [grants EXCEPT ![req.grant].role = req.role] /\ req.role \in Role
        BY <2>1, <2>2 DEF Written, Request
      <3>2. grants' \in [Grant -> Membership]
        BY <1>1, <2>1, <3>1
      <3> QED
        BY <1>1, <1>6, <3>2 DEF Write
    <2>3. CASE grants' = Written(req) /\ req.kind # "grant"
      <3>1. grants' = [grants EXCEPT ![req.grant].deleting = (grants[req.grant].role # NoRole)]
        BY <2>3 DEF Written
      <3>2. grants' \in [Grant -> Membership]
        BY <1>1, <2>1, <3>1
      <3> QED
        BY <1>1, <1>6, <3>2 DEF Write
    <2> QED
      BY <1>1, <1>6, <2>2, <2>3 DEF Write
  <1> QED
    BY <1>3, <1>4, <1>5, <1>6 DEF Next, Platform

LEMMA KeepInvKept == ASSUME KeepInv, [Next]_vars PROVE KeepInv'
  <1>1. (MembersInv /\ RequestsAreByAdmins)'
    BY MembersStay DEF KeepInv
  <1>2. CASE Next
    <2>1. ASSUME NEW w \in Workspace PROVE OkAt(w)'
      BY <1>2, MirrorKeepsAdmins, PlatformKeepsAdmins, CheckKeepsAdmins, WriteKeepsAdmins
      DEF Next, Platform
    <2> QED
      BY <1>1, <1>2, <2>1, OthersKept DEF KeepInv
  <1>3. CASE UNCHANGED vars
    <2>1. ASSUME NEW w \in Workspace PROVE Untouched(w)
      BY <1>3 DEF vars, apiVars, dirVars, Untouched, PendingAt
    <2>2. \A w \in Workspace : OkAt(w)'
      BY <2>1, UntouchedStays
    <2> QED
      BY <1>1, <1>3, <2>2 DEF KeepInv, Others, vars, apiVars
  <1> QED
    BY <1>2, <1>3

(* While requests to a tenant are checked one after the other, each with   *)
(* the previous ones done and mirrored, no sequence of them leaves it      *)
(* without an admin (lastTenantAdmin, authorize).                          *)
THEOREM AdminsStay == Spec => []MembershipInv
  <1>1. ASSUME KeepInv PROVE MembershipInv
    <2>1. TypeOK
      BY <1>1 DEF KeepInv, MembersInv, DirInv, ApiTypeOK, Others, TypeOK
    <2>2. SettledKeepsAdmin
      BY <1>1 DEF KeepInv, OkAt, KeepsAt, SettledKeepsAdmin, fleet
    <2> QED
      BY <1>1, <2>1, <2>2 DEF MembershipInv, KeepInv
  <1> QED
    BY <1>1, KeepInitially, KeepInvKept, PTL DEF Spec
=============================================================================

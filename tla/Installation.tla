---------------------------- MODULE Installation ----------------------------
(***************************************************************************)
(* The `init` commands of the four services.  Each runs as the init        *)
(* container of a pod: it creates the service's workspaces, applies the    *)
(* embedded manifests and RBAC there, and exits; a container that fails is *)
(* started again from the beginning, and during an upgrade the pods of two *)
(* releases run it at the same time.                                       *)
(*                                                                         *)
(* An object is abstracted to the release that wrote its content, and a    *)
(* resourceVersion to the set of installers whose last read of the object  *)
(* they work on is still the stored one.                                   *)
(***************************************************************************)
EXTENDS Integers, Sequences, FiniteSets, SequencesExt

CONSTANTS
  Installer,      \* pods with an init container
  Release,        \* versions of the manifests, flags included
  ReleaseOf,      \* [Installer -> Release]
  NamesServer,    \* the releases whose flags name a server user or group
  Retries,        \* attempts of RetryOnConflict
  Overlapping,    \* bound: the services two pods of which may be in Init at once
  MaxRuns,        \* bound: how often a pod starts its init container anew
  MaxFaults       \* bound: lost calls, timeouts and writes by kcp

ASSUME InstallationAssumption ==
  /\ ReleaseOf \in [Installer -> Release]
  /\ NamesServer \subseteq Release
  /\ "absent" \notin Release /\ "default" \notin Release
  /\ Overlapping \subseteq {"access", "tenancy", "marketplace", "mcp"}
  /\ Retries \in Nat \ {0} /\ MaxRuns \in Nat /\ MaxFaults \in Nat

Service == {"access", "tenancy", "marketplace", "mcp"}

Object == {"schema", "export", "instructions", "bind", "types", "slice",
           "account", "controllerRole", "serverRole", "serverBinding",
           "registryBinding", "locatorRole", "locatorBinding", "adminRole",
           "adminBinding", "parentBinding", "kubeconfig"}

\* "default" is the endpoint slice kcp makes by itself for every export.
Content == {"absent", "default"} \cup Release

VARIABLES
  service,    \* the service being installed
  content,    \* [Object -> Content]
  created,    \* workspace paths that exist
  ready,      \* those whose phase is Ready
  bindable,   \* the bind RBAC has reached the other shards
  served,     \* the registry serves the API it bound
  token,      \* kcp filled the ServiceAccount's token secret
  inst,       \* [Installer -> its progress]
  latest,     \* installers whose last read is the stored version
  solo,       \* installers whose latest run overlapped with no other
  runs,       \* starts so far
  faults      \* faults so far

installVars == <<service, content, created, ready, bindable, served, token,
                 inst, latest, solo, runs, faults>>

kcpVars == <<created, ready, bindable, served, token>>

-----------------------------------------------------------------------------
(* The programs: what each init command does, in order.                    *)

\* `back`: how many steps ago the list the step belongs to began.
Do(op, obj) == <<[op |-> op, obj |-> obj, back |-> 0]>>

DoAll(op, objs) == [k \in 1..Len(objs) |->
                     [op |-> op, obj |-> objs[k], back |-> k - 1]]

\* A path is its segments; the leaf is a single segment under the prefix.
JoinWorkspacePath(prefix, leaf) == Append(prefix, leaf)

\* root always exists; every segment below it is created and awaited.
CreateWorkspacePath(path) ==
  FlattenSeq([k \in 1..(Len(path) - 1) |->
    LET p == SubSeq(path, 1, k + 1) IN Do("createWorkspace", p) \o Do("awaitWorkspace", p)])

Prefix(svc) == <<"root", svc>>

If(cond, steps) == IF cond THEN steps ELSE <<>>

Grant(role, binding) == Do("role", role) \o Do("role", binding)

\* access: the asset lists of the two embedded directories, then the identity.
AccessAssets == DoAll("asset", <<"schema", "export", "bind", "slice">>)

AccessControllerAssets == DoAll("asset", <<"account", "controllerRole">>)

AccessBootstrap(r) ==
  Do("read", "preflight") \o AccessAssets \o AccessControllerAssets
    \o If(r \in NamesServer, DoAll("asset", <<"serverBinding">>))
    \o Do("slice", "slice") \o Do("read", "cluster")
    \o Do("token", "account") \o Do("secret", "kubeconfig")

AccessInit(r) ==
  CreateWorkspacePath(JoinWorkspacePath(Prefix("access"), "controllers"))
    \o AccessBootstrap(r)

\* tenancy
TenancyExportsOrder ==
  DoAll("manifest", <<"schema", "export", "bind", "types", "slice">>)

TenancyBootstrap(r) ==
  Do("read", "hash") \o Do("read", "cluster") \o TenancyExportsOrder
    \o If(r \in NamesServer, Grant("serverRole", "serverBinding"))

TenancyBindStore(r) ==
  DoAll("manifest", <<"registryBinding">>)
    \o If(r \in NamesServer, Grant("locatorRole", "locatorBinding"))
    \o Do("servable", "registryBinding")

TenancyBindTenantsParent == DoAll("manifest", <<"parentBinding">>)

\* Applied even when no administrator is named, so that leaving someone off
\* the list revokes them.
TenancyGrantPlatformAdmins == Grant("adminRole", "adminBinding")

TenancyInit(r) ==
  CreateWorkspacePath(JoinWorkspacePath(Prefix("tenancy"), "controllers"))
    \o TenancyBootstrap(r)
    \o CreateWorkspacePath(JoinWorkspacePath(Prefix("tenancy"), "store"))
    \o TenancyBindStore(r) \o TenancyGrantPlatformAdmins
    \o CreateWorkspacePath(JoinWorkspacePath(Prefix("tenancy"), "tenants"))
    \o TenancyBindTenantsParent \o Do("slice", "slice")

\* marketplace
MarketplaceExportsOrder ==
  DoAll("manifest", <<"schema", "export", "bind", "types", "slice">>)

MarketplaceBootstrap(r) ==
  Do("read", "hash") \o Do("read", "cluster") \o MarketplaceExportsOrder
    \o If(r \in NamesServer, Grant("serverRole", "serverBinding"))

MarketplaceBindCatalog ==
  DoAll("manifest", <<"registryBinding">>) \o Do("servable", "registryBinding")

MarketplaceBindProvidersParent == DoAll("manifest", <<"parentBinding">>)

MarketplaceGrantPlatformAdmins == Grant("adminRole", "adminBinding")

MarketplaceInit(r) ==
  CreateWorkspacePath(JoinWorkspacePath(Prefix("marketplace"), "controllers"))
    \o MarketplaceBootstrap(r)
    \o CreateWorkspacePath(JoinWorkspacePath(Prefix("marketplace"), "catalog"))
    \o MarketplaceBindCatalog \o MarketplaceGrantPlatformAdmins
    \o CreateWorkspacePath(JoinWorkspacePath(Prefix("marketplace"), "producers"))
    \o MarketplaceBindProvidersParent \o Do("slice", "slice")

\* mcp
McpAssets ==
  DoAll("manifest", <<"schema", "export", "instructions", "bind", "slice">>)

McpInit(r) ==
  CreateWorkspacePath(JoinWorkspacePath(Prefix("mcp"), "controllers"))
    \o McpAssets
    \o If(r \in NamesServer, Grant("serverRole", "serverBinding"))
    \o Do("read", "cluster") \o Do("slice", "slice")

\* What the init container of a pod executes.
ProgramOf ==
  [svc \in Service |-> [i \in Installer |->
    CASE svc = "access"      -> AccessInit(ReleaseOf[i])
      [] svc = "tenancy"     -> TenancyInit(ReleaseOf[i])
      [] svc = "marketplace" -> MarketplaceInit(ReleaseOf[i])
      [] svc = "mcp"         -> McpInit(ReleaseOf[i])]]

Program(i) == ProgramOf[service][i]

-----------------------------------------------------------------------------
(* Progress of one installer.                                              *)

Idle == [status |-> "idle", at |-> 1, phase |-> "create", tries |-> 0]

InstallInit ==
  /\ service \in Service
  /\ content = [o \in Object |-> "absent"]
  /\ created = {} /\ ready = {}
  /\ bindable = FALSE /\ served = FALSE /\ token = FALSE
  /\ inst = [i \in Installer |-> Idle]
  /\ latest = {} /\ solo = {}
  /\ runs = 0 /\ faults = 0

Running(i) == inst[i].status = "running"

Step(i) == Program(i)[inst[i].at]

At(i, op) == Running(i) /\ Step(i).op = op

Goto(i, phase) == inst' = [inst EXCEPT ![i].phase = phase]

Advance(i) ==
  inst' = [inst EXCEPT ![i] =
            IF @.at = Len(Program(i))
            THEN [Idle EXCEPT !.status = "done"]
            ELSE [Idle EXCEPT !.status = "running", !.at = inst[i].at + 1]]

\* The command returns an error and the process exits with a failure.
Fail(i) == inst' = [inst EXCEPT ![i] = [Idle EXCEPT !.status = "failed"]]

\* Storing an object gives it a new version.
Store(o, c) ==
  /\ content' = [content EXCEPT ![o] = c]
  /\ latest' = {j \in latest : Step(j).obj # o}

Write(i) == Store(Step(i).obj, ReleaseOf[i])

WritesNothing == UNCHANGED <<content, latest>>

\* A pod starts, or starts again: the kubelet restarts what failed, and a
\* pod that finished may be replaced by another of its release.
Start(i) ==
  /\ service \in Overlapping \/ \A j \in Installer \ {i} : inst[j].status \in {"idle", "done"}
  /\ \/ inst[i].status = "failed" /\ UNCHANGED runs
     \/ inst[i].status \in {"idle", "done"} /\ runs < MaxRuns /\ runs' = runs + 1
  /\ inst' = [inst EXCEPT ![i] = [Idle EXCEPT !.status = "running"]]
  /\ solo' = IF \E j \in Installer \ {i} : Running(j) THEN {} ELSE {i}
  /\ UNCHANGED <<service, content, kcpVars, latest, faults>>

-----------------------------------------------------------------------------
(* Workspaces.                                                             *)

\* AlreadyExists is as good as created.
CreateWorkspace(i) ==
  /\ At(i, "createWorkspace")
  /\ created' = created \cup {Step(i).obj}
  /\ Advance(i)
  /\ WritesNothing
  /\ UNCHANGED <<ready, bindable, served, token>>

WaitForWorkspaceReady(i) ==
  /\ At(i, "awaitWorkspace")
  /\ Step(i).obj \in ready
  /\ Advance(i)
  /\ WritesNothing
  /\ UNCHANGED kcpVars

-----------------------------------------------------------------------------
(* Manifests.                                                              *)

IsAPIBinding(o) == o \in {"registryBinding", "parentBinding"}

\* kcp admits an APIBinding where the bind RBAC is known.
Admitted(o) == IsAPIBinding(o) => bindable

\* kcp refuses to replace a schema, or a slice whose manifest leaves out the
\* path it was given; and RBAC it has put its own annotations on.
MayRefuseUpdate(o) == o \in {"schema", "slice", "bind"}
MustRefuseUpdate(o) == o \in {"schema", "slice"}

Conflict(i) ==
  /\ WritesNothing
  /\ IF inst[i].tries + 1 < Retries
     THEN inst' = [inst EXCEPT ![i].phase = "get", ![i].tries = @ + 1]
     ELSE Fail(i)

GetForUpdate(i) ==
  /\ inst[i].phase = "get"
  /\ Goto(i, "update")
  /\ latest' = latest \cup {i}
  /\ UNCHANGED content

\* Create; where it exists, read it and replace it under its version.  An
\* update kcp refuses leaves what is there, which counts as applied.
ApplyManifest(i) ==
  LET o == Step(i).obj IN
  /\ At(i, "manifest")
  /\ \/ /\ inst[i].phase = "create"
        /\ Admitted(o)
        /\ IF content[o] = "absent" THEN Write(i) /\ Advance(i)
                                    ELSE WritesNothing /\ Goto(i, "get")
     \/ GetForUpdate(i)
     \/ inst[i].phase = "update" /\ i \notin latest /\ Conflict(i)
     \/ /\ inst[i].phase = "update" /\ i \in latest
        /\ Advance(i)
        /\ \/ MayRefuseUpdate(o) /\ WritesNothing
           \/ ~MustRefuseUpdate(o) /\ Write(i)
  /\ UNCHANGED kcpVars

\* A Forbidden create of an APIBinding is retried: the grant is on its way.
\* Finding it created by then is the end of it, without an update.
RetryForbiddenBinding(i) ==
  LET o == Step(i).obj IN
  /\ At(i, "manifest")
  /\ IsAPIBinding(o)
  /\ \/ /\ inst[i].phase = "create" /\ ~Admitted(o)
        /\ Goto(i, "forbidden") /\ WritesNothing
     \/ /\ inst[i].phase = "forbidden" /\ Admitted(o)
        /\ Advance(i)
        /\ IF content[o] = "absent" THEN Write(i) ELSE WritesNothing
  /\ UNCHANGED kcpVars

\* A role, and the binding that holds exactly the subjects given: only the
\* rules, or the subjects, of the stored object are replaced, so kcp never
\* refuses.
RoleOrBinding(i) ==
  /\ At(i, "role")
  /\ \/ /\ inst[i].phase = "create"
        /\ IF content[Step(i).obj] = "absent" THEN Write(i) /\ Advance(i)
                                              ELSE WritesNothing /\ Goto(i, "get")
     \/ GetForUpdate(i)
     \/ inst[i].phase = "update" /\ i \notin latest /\ Conflict(i)
     \/ inst[i].phase = "update" /\ i \in latest /\ Write(i) /\ Advance(i)
  /\ UNCHANGED kcpVars

\* Where the registry is bound, wait until the API can be listed.
Servable(i) ==
  /\ At(i, "servable")
  /\ served
  /\ Advance(i)
  /\ WritesNothing
  /\ UNCHANGED kcpVars

\* The LogicalCluster, the identity hash, discovery: reads.
Read(i) ==
  /\ At(i, "read")
  /\ Advance(i)
  /\ WritesNothing
  /\ UNCHANGED kcpVars

\* Mutant: no URL is an error, and a slice gets them once something binds.
MutantInsistsOnURLs(i) ==
  /\ At(i, "slice")
  /\ content["registryBinding"] # "absent"
  /\ Advance(i)
  /\ WritesNothing
  /\ UNCHANGED kcpVars

\* The slice's URLs are waited for, and then reported or not.
ReportSlice(i) ==
  /\ At(i, "slice")
  /\ Advance(i)
  /\ WritesNothing
  /\ UNCHANGED kcpVars

-----------------------------------------------------------------------------
(* access applies its lists in its own way: from the first asset again     *)
(* after any error, until the time is up.                                  *)

Restart(i) ==
  inst' = [inst EXCEPT ![i] = [Idle EXCEPT !.status = "running",
                                           !.at = inst[i].at - Step(i).back]]

\* Mutant: what exists is as good as applied, for every kind.
MutantExistingKept(i) ==
  LET o == Step(i).obj IN
  /\ At(i, "asset")
  /\ Advance(i)
  /\ IF content[o] = "absent" THEN Write(i) ELSE WritesNothing
  /\ UNCHANGED kcpVars

\* Schemas are only created; anything else is read, and created or merged
\* into what is stored, whatever its version.  Merging leaves what kcp filled
\* in, so a slice is not refused.
AccessApplyResource(i) ==
  LET o == Step(i).obj IN
  /\ At(i, "asset")
  /\ \/ /\ inst[i].phase = "create" /\ o = "schema"
        /\ Advance(i)
        /\ IF content[o] = "absent" THEN Write(i) ELSE WritesNothing
     \/ /\ inst[i].phase = "create" /\ o # "schema"
        /\ Goto(i, IF content[o] = "absent" THEN "post" ELSE "patch")
        /\ WritesNothing
     \/ /\ inst[i].phase = "post"
        /\ IF content[o] = "absent" THEN Write(i) /\ Advance(i)
                                    ELSE WritesNothing /\ Restart(i)
     \/ inst[i].phase = "patch" /\ Write(i) /\ Advance(i)
  /\ UNCHANGED kcpVars

\* Mutant: the token secret is read once, as it is.
MutantTokenNotAwaited(i) ==
  /\ At(i, "token")
  /\ Advance(i)
  /\ WritesNothing
  /\ UNCHANGED kcpVars

AccessWaitForToken(i) ==
  /\ At(i, "token")
  /\ token
  /\ Advance(i)
  /\ WritesNothing
  /\ UNCHANGED kcpVars

\* The kubeconfig Secret: created, or updated once under the version read.
AccessKubeconfig(i) ==
  /\ At(i, "secret")
  /\ \/ /\ inst[i].phase = "create"
        /\ IF content["kubeconfig"] = "absent" THEN Write(i) /\ Advance(i)
                                               ELSE WritesNothing /\ Goto(i, "get")
     \/ GetForUpdate(i)
     \/ /\ inst[i].phase = "update"
        /\ IF i \in latest THEN Write(i) /\ Advance(i) ELSE WritesNothing /\ Fail(i)
  /\ UNCHANGED kcpVars

-----------------------------------------------------------------------------
(* The four commands.                                                      *)

AccessPreflight(i) == service = "access" /\ Step(i).obj = "preflight" /\ Read(i)
AccessExportsClusterRef(i) == service = "access" /\ Step(i).obj = "cluster" /\ Read(i)
AccessWaitForEndpointSlice(i) == service = "access" /\ ReportSlice(i)

TenancyIdentityHash(i) == service = "tenancy" /\ Step(i).obj = "hash" /\ Read(i)
TenancyLogicalClusterName(i) == service = "tenancy" /\ Step(i).obj = "cluster" /\ Read(i)
TenancyApplyManifests(i) ==
  service = "tenancy" /\ (ApplyManifest(i) \/ RetryForbiddenBinding(i))
TenancyApplyRoleAndBinding(i) == service = "tenancy" /\ RoleOrBinding(i)
TenancyWaitForTenantAPI(i) == service = "tenancy" /\ Servable(i)
TenancyWaitForEndpointSlice(i) == service = "tenancy" /\ ReportSlice(i)

MarketplaceIdentityHash(i) == service = "marketplace" /\ Step(i).obj = "hash" /\ Read(i)
MarketplaceLogicalClusterName(i) == service = "marketplace" /\ Step(i).obj = "cluster" /\ Read(i)
MarketplaceApplyManifests(i) ==
  service = "marketplace" /\ (ApplyManifest(i) \/ RetryForbiddenBinding(i))
MarketplaceApplyRoleAndBinding(i) == service = "marketplace" /\ RoleOrBinding(i)
MarketplaceWaitForProducerAPI(i) == service = "marketplace" /\ Servable(i)
MarketplaceWaitForEndpointSlice(i) == service = "marketplace" /\ ReportSlice(i)

\* mcp binds nothing, so nothing it creates is forbidden.
McpApplyManifest(i) == service = "mcp" /\ ApplyManifest(i)
McpApplyServerIdentity(i) == service = "mcp" /\ RoleOrBinding(i)
McpLogicalClusterOf(i) == service = "mcp" /\ Read(i)
McpSliceURLs(i) == service = "mcp" /\ ReportSlice(i)

InstallerStep(i) ==
  /\ Running(i)
  /\ \/ CreateWorkspace(i) \/ WaitForWorkspaceReady(i)
     \/ AccessPreflight(i) \/ AccessApplyResource(i) \/ AccessWaitForEndpointSlice(i)
     \/ AccessExportsClusterRef(i) \/ AccessWaitForToken(i) \/ AccessKubeconfig(i)
     \/ TenancyIdentityHash(i) \/ TenancyLogicalClusterName(i)
     \/ TenancyApplyManifests(i) \/ TenancyApplyRoleAndBinding(i)
     \/ TenancyWaitForTenantAPI(i) \/ TenancyWaitForEndpointSlice(i)
     \/ MarketplaceIdentityHash(i) \/ MarketplaceLogicalClusterName(i)
     \/ MarketplaceApplyManifests(i) \/ MarketplaceApplyRoleAndBinding(i)
     \/ MarketplaceWaitForProducerAPI(i) \/ MarketplaceWaitForEndpointSlice(i)
     \/ McpApplyManifest(i) \/ McpApplyServerIdentity(i)
     \/ McpLogicalClusterOf(i) \/ McpSliceURLs(i)
  /\ UNCHANGED <<service, solo, runs, faults>>

-----------------------------------------------------------------------------
(* What fails, and what kcp does meanwhile.                                *)

\* The next call would store the object.
Storing(i) ==
  LET o == Step(i).obj IN
  /\ Step(i).op \in {"manifest", "role", "asset", "secret"}
  /\ \/ content[o] = "absent" /\ Admitted(o)
        /\ inst[i].phase = (IF Step(i).op = "asset" /\ o # "schema" THEN "post" ELSE "create")
     \/ inst[i].phase = "update" /\ i \in latest /\ ~MayRefuseUpdate(o)
     \/ inst[i].phase = "patch"

\* A call fails, is lost, is done but its answer is lost, or takes too long.
Fault(i) ==
  /\ Running(i) /\ Step(i).op # "slice"
  /\ faults < MaxFaults /\ faults' = faults + 1
  /\ \/ Storing(i) /\ Write(i)
     \/ WritesNothing
  /\ \/ Step(i).op = "asset" /\ Restart(i)
     \/ Fail(i)
  /\ UNCHANGED <<service, kcpVars, solo, runs>>

WorkspaceBecomesReady(p) ==
  /\ p \in created \ ready
  /\ ready' = ready \cup {p}
  /\ UNCHANGED <<service, content, created, bindable, served, token, inst, latest, solo, runs, faults>>

ReplicateBindRBAC ==
  /\ content["bind"] # "absent" /\ ~bindable
  /\ bindable' = TRUE
  /\ UNCHANGED <<service, content, created, ready, served, token, inst, latest, solo, runs, faults>>

ServeBoundAPI ==
  /\ content["registryBinding"] # "absent" /\ ~served
  /\ served' = TRUE
  /\ UNCHANGED <<service, content, created, ready, bindable, token, inst, latest, solo, runs, faults>>

FillToken ==
  /\ content["account"] # "absent" /\ ~token
  /\ token' = TRUE
  /\ UNCHANGED <<service, content, created, ready, bindable, served, inst, latest, solo, runs, faults>>

\* kcp makes a default slice for an export, and keeps updating the slices.
WriteSlice ==
  /\ \/ content["export"] # "absent" /\ content["slice"] = "absent"
        /\ Store("slice", "default") /\ UNCHANGED faults
     \/ content["slice"] # "absent"
        /\ \E i \in latest : Step(i).obj = "slice"
        /\ faults < MaxFaults /\ faults' = faults + 1
        /\ Store("slice", content["slice"])
  /\ UNCHANGED <<service, kcpVars, inst, solo, runs>>

\* Every pod has finished, and the bounds are used up.
Finished ==
  /\ runs = MaxRuns
  /\ \A i \in Installer : inst[i].status \in {"idle", "done"}
  /\ UNCHANGED installVars

\* What kcp owes an installation: each happens once.
KcpFollowsUp ==
  \/ \E p \in created : WorkspaceBecomesReady(p)
  \/ ReplicateBindRBAC \/ ServeBoundAPI \/ FillToken

InstallNext ==
  \/ \E i \in Installer : Start(i) \/ InstallerStep(i) \/ Fault(i)
  \/ KcpFollowsUp \/ WriteSlice
  \/ Finished

Fairness ==
  /\ \A i \in Installer : WF_installVars(InstallerStep(i) \/ (inst[i].status = "failed" /\ Start(i)))
  /\ WF_installVars(KcpFollowsUp)

InstallSpec == InstallInit /\ [][InstallNext]_installVars /\ Fairness

-----------------------------------------------------------------------------
(* Properties.                                                             *)

TypeOK ==
  /\ service \in Service
  /\ content \in [Object -> Content]
  /\ ready \subseteq created
  /\ latest \subseteq Installer /\ solo \subseteq Installer
  /\ \A i \in Installer :
       /\ inst[i].status \in {"idle", "running", "failed", "done"}
       /\ inst[i].at \in 1..Len(Program(i))

AppliedBy(i) ==
  {s.obj : s \in {t \in Range(Program(i)) :
                   t.op \in {"manifest", "asset", "role", "secret"}}}

\* Objects a later run cannot bring to its own content.
Kept(o) == IF service = "access" THEN o = "schema" ELSE MayRefuseUpdate(o)

\* A run that finished and was overlapped by no other has left every object
\* of its release behind, and everything kcp lets it replace has that
\* release's content, the list of platform administrators and of server
\* identities included - however many earlier runs were cut short, and
\* whatever they left.
SoloRunWins ==
  /\ TypeOK
  /\ \A i \in solo : inst[i].status = "done" =>
       \A o \in AppliedBy(i) :
         IF Kept(o) THEN content[o] # "absent" ELSE content[o] = ReleaseOf[i]

\* What a finished run relies on is there, overlapped or not: a later pod of
\* the service finds its workspaces, its export, its bindings and, for
\* access, a kubeconfig made from a token kcp had filled in.
DoneMeansInstalled ==
  \A i \in Installer : inst[i].status = "done" =>
    /\ \A o \in AppliedBy(i) : content[o] # "absent"
    /\ \A s \in Range(Program(i)) :
         s.op = "awaitWorkspace" => s.obj \in ready
    /\ "registryBinding" \in AppliedBy(i) => bindable /\ served
    /\ "kubeconfig" \in AppliedBy(i) => token

\* An init container that was started gets done, and the pod past Init:
\* with the endpoint slice still empty, with a grant that takes its time to
\* replicate, and with another release installing at the same time.
InstallCompletes ==
  \A i \in Installer :
    inst[i].status \in {"running", "failed"} ~> inst[i].status = "done"
=============================================================================

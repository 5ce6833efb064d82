------------------------------ MODULE MCPServer ------------------------------
(***************************************************************************)
(* The MCP server: it serves any authenticated caller, learns from the     *)
(* access virtual workspace which workspaces the caller may use, keeps     *)
(* that answer for a while, and calls kcp as the caller.  A request is one *)
(* tool call: the server is stateless but for the cache of those answers.  *)
(***************************************************************************)
EXTENDS MCPOperator, Sequences

CONSTANTS
  Identity,      \* callers, as records with a name and a sequence of groups
  NoCredential,  \* a call that authenticates as nobody
  Invalid,       \* a call whose credentials are not accepted
  Request,
  OAuth,         \* TRUE iff an authorization server is configured
  Toolsets,      \* the groups of tools this server exposes
  Served,        \* kinds a workspace serves
  TTL,           \* how long an answer is used, in ticks
  MaxDelay,      \* bound: how long a review takes, in ticks
  MaxReplicas,   \* bound: the counts a scale asks for
  MaxChanges     \* bound: how often a right is given or taken

AllToolsets == {"core", "apis", "admin", "write"}

\* What the server refuses to start without.
Validate ==
  /\ Toolsets \subseteq AllToolsets /\ Toolsets # {}
  /\ TTL \in Nat \ {0}

ASSUME MCPServerAssumption ==
  /\ Validate
  /\ MaxDelay \in Nat /\ MaxReplicas \in Nat /\ MaxChanges \in Nat /\ OAuth \in BOOLEAN
ASSUME IdentityAssumption == Identity \subseteq [name : STRING, groups : Seq(STRING)]

VARIABLES
  rights,   \* [Identity -> SUBSET Workspace], what kcp lets a caller use
  age,      \* [Identity -> [Workspace -> ticks since that last changed]]
  cache,    \* keys to answers, each with the ticks it is still used for
  req,      \* [Request -> the request's progress or how it ended]
  count,    \* [Workspace -> the replicas of its object, or Absent]
  fresh,    \* [Workspace -> requests that hold the object's current version]
  changes   \* rights given and taken so far

srvVars == <<rights, age, cache, req, count, fresh, changes>>
vars == <<opVars, srvVars>>

Horizon == TTL + MaxDelay
Absent == -1
Sizes == 0 .. MaxReplicas

\* How a request can end; its slot is then free for the next one.
Ended == {"refused", "answered"}

Blank(phase) == [phase |-> phase, who |-> NoCredential, scope |-> {}, waited |-> 0,
                 workspace |-> "none", read |-> Absent, want |-> Absent]

SrvTypeOK ==
  /\ rights \in [Identity -> SUBSET Workspace]
  /\ age \in [Identity -> [Workspace -> 0 .. Horizon]]
  /\ \A k \in DOMAIN cache : cache[k].life \in 0 .. TTL /\ cache[k].list \subseteq Workspace
  /\ \A r \in Request :
       /\ req[r].phase \in Ended \cup {"asked", "told", "scoped", "scaling"}
       /\ req[r].waited \in 0 .. MaxDelay
  /\ count \in [Workspace -> Sizes \cup {Absent}]
  /\ fresh \in [Workspace -> SUBSET Request]

SrvInit ==
  /\ rights \in [Identity -> SUBSET Workspace]
  /\ age = [u \in Identity |-> [w \in Workspace |-> Horizon]]
  /\ cache = <<>>
  /\ req = [r \in Request |-> Blank("answered")]
  /\ count = [w \in Workspace |-> Absent]
  /\ fresh = [w \in Workspace |-> {}]
  /\ changes = 0

-----------------------------------------------------------------------------
\* Mutant: the key is the name alone.
MutantKeyByName(u) == <<u.name>>

CacheKey(u) == <<u.name>> \o u.groups

\* An entry that has not expired is the answer, whatever has changed since.
Workspaces(u) ==
  LET k == CacheKey(u) IN
  IF k \in DOMAIN cache /\ cache[k].life > 0
  THEN [Blank("scoped") EXCEPT !.who = u, !.scope = cache[k].list]
  ELSE [Blank("asked") EXCEPT !.who = u]

\* Without credentials a caller is told where to get them, if that is
\* configured; nobody may ask to be somebody else (members of system:masters,
\* whom the chain lets through, are left out).
Challenged(who) == OAuth /\ who = NoCredential
AuthenticatedOnly(who, impersonate) == ~impersonate /\ who \in Identity
LetIn(who, impersonate) == ~Challenged(who) /\ AuthenticatedOnly(who, impersonate)

Arrive(r, who, impersonate) ==
  /\ req[r].phase \in Ended
  /\ req' = [req EXCEPT ![r] =
               IF LetIn(who, impersonate) THEN Workspaces(who) ELSE Blank("refused")]
  /\ UNCHANGED <<rights, age, cache, count, fresh, changes>>

\* The access virtual workspace answers for the caller it is asked about.
Review(r) ==
  /\ req[r].phase = "asked"
  /\ req' = [req EXCEPT ![r].phase = "told", ![r].scope = rights[req[r].who]]
  /\ UNCHANGED <<rights, age, cache, count, fresh, changes>>

\* The only tool of the server then says that the server is unavailable.
ErrorServer(r) ==
  /\ req[r].phase = "asked"
  /\ req' = [req EXCEPT ![r] = Blank("refused")]
  /\ UNCHANGED <<rights, age, cache, count, fresh, changes>>

\* The answer arrives: expired entries go, this one is kept for a TTL from now.
Remember(r) ==
  /\ req[r].phase = "told"
  /\ LET k == CacheKey(req[r].who)
         kept == {j \in DOMAIN cache : cache[j].life > 0} \cup {k}
     IN cache' = [j \in kept |-> IF j = k THEN [list |-> req[r].scope, life |-> TTL]
                                          ELSE cache[j]]
  /\ req' = [req EXCEPT ![r].phase = "scoped", ![r].waited = 0]
  /\ UNCHANGED <<rights, age, count, fresh, changes>>

-----------------------------------------------------------------------------
\* The tools.  kcp decides again, as the caller, and only where the server
\* may impersonate.
Authorized(r, w) == MayImpersonate(w) /\ w \in rights[req[r].who]

\* A tool for workspace w gets as far as its own work, which ends in `end`.
Enter(r, w, end) ==
  /\ req[r].phase = "scoped"
  /\ req' = [req EXCEPT ![r] = Blank(IF w \in req[r].scope /\ Authorized(r, w)
                                     THEN end ELSE "refused")]

Works(r, w) == req[r].phase = "scoped" /\ w \in req[r].scope /\ Authorized(r, w)

Reads(r, w, end) ==
  Enter(r, w, end) /\ UNCHANGED <<rights, age, cache, count, fresh, changes>>

List(r, w, kind) == Reads(r, w, IF kind \in Served THEN "answered" ELSE "refused")
Get(r, w, kind, found) == Reads(r, w, IF kind \in Served /\ found THEN "answered" ELSE "refused")

\* What is in scope is listed, whether or not kcp then gives it a name.
ListWorkspaces(r) ==
  /\ req[r].phase = "scoped"
  /\ req' = [req EXCEPT ![r] = Blank("answered")]
  /\ UNCHANGED <<rights, age, cache, count, fresh, changes>>

ListLogicalClusters(r, w) == List(r, w, "logicalclusters")
ListShards(r, w) == List(r, w, "shards")
ListPartitions(r, w) == List(r, w, "partitions")
ListPartitionSets(r, w) == List(r, w, "partitionsets")
ListAPIConversions(r, w) == List(r, w, "apiconversions")
ListAPIResourceSchemas(r, w) == List(r, w, "apiresourceschemas")
GetAPIResourceSchema(r, w) == \E found \in BOOLEAN : Get(r, w, "apiresourceschemas", found)
ListAPIBindings(r, w) == List(r, w, "apibindings")
GetAPIBinding(r, w) == \E found \in BOOLEAN : Get(r, w, "apibindings", found)
ListAPIExports(r, w) == List(r, w, "apiexports")
GetAPIExport(r, w) == \E found \in BOOLEAN : Get(r, w, "apiexports", found)
ListAPIExportEndpointSlices(r, w) == List(r, w, "apiexportendpointslices")
ListWorkspaceTypes(r, w) == List(r, w, "workspacetypes")
GetWorkspaceType(r, w) == \E found \in BOOLEAN : Get(r, w, "workspacetypes", found)
ListInitializingWorkspaces(r, w) == List(r, w, "initializingworkspaces")
ListTerminatingWorkspaces(r, w) == List(r, w, "terminatingworkspaces")

\* Any kind the caller names, if the name is complete.
ListResources(r, w) ==
  \E complete \in BOOLEAN : Reads(r, w, IF complete THEN "answered" ELSE "refused")
GetResource(r, w) ==
  \E complete \in BOOLEAN :
    Reads(r, w, IF complete /\ count[w] # Absent THEN "answered" ELSE "refused")

\* A write of the object, after which no request holds its current version.
Writes(r, w, possible, size) ==
  /\ Enter(r, w, IF possible THEN "answered" ELSE "refused")
  /\ IF Works(r, w) /\ possible
     THEN /\ count' = [count EXCEPT ![w] = size]
          /\ fresh' = [fresh EXCEPT ![w] = {}]
     ELSE UNCHANGED <<count, fresh>>
  /\ UNCHANGED <<rights, age, cache, changes>>

\* A manifest is usable if it parses and names a kind the workspace serves.
Manifest == [parses : BOOLEAN, served : BOOLEAN]
Resolves(m) == m.parses /\ m.served

CreateResource(r, w) ==
  \E m \in Manifest : Writes(r, w, Resolves(m) /\ count[w] = Absent, 0)

\* The manifest carries the object's version, an old one, or none.
UpdateResource(r, w) ==
  \E m \in Manifest, current \in BOOLEAN, n \in Sizes :
    Writes(r, w, Resolves(m) /\ current /\ count[w] # Absent, n)

PatchResource(r, w) ==
  \E valid \in BOOLEAN, n \in Sizes : Writes(r, w, valid /\ count[w] # Absent, n)

DeleteResource(r, w) ==
  \E valid \in BOOLEAN : Writes(r, w, valid /\ count[w] # Absent, Absent)

\* The first half of a scale: it reads, and is done if it is only to read.
ScaleGet(r, w, want) ==
  /\ IF Works(r, w) /\ count[w] # Absent /\ want # Absent
     THEN /\ req' = [req EXCEPT ![r].phase = "scaling", ![r].workspace = w,
                                ![r].read = count[w], ![r].want = want]
          /\ fresh' = [fresh EXCEPT ![w] = @ \cup {r}]
     ELSE /\ Enter(r, w, IF count[w] # Absent THEN "answered" ELSE "refused")
          /\ UNCHANGED fresh
  /\ UNCHANGED <<rights, age, cache, count, changes>>

\* Mutant: a new object is sent, without the version that was read.
MutantScaleForces(r) ==
  LET w == req[r].workspace
      scaled == Authorized(r, w) /\ count[w] # Absent
  IN
  /\ req[r].phase = "scaling"
  /\ req' = [req EXCEPT ![r] = Blank(IF scaled THEN "answered" ELSE "refused")]
  /\ count' = IF scaled THEN [count EXCEPT ![w] = req[r].want] ELSE count
  /\ fresh' = [fresh EXCEPT ![w] = IF scaled THEN {} ELSE @ \ {r}]
  /\ UNCHANGED <<rights, age, cache, changes>>

\* The second half: the object that was read goes back with another count,
\* and is refused if it is no longer the current one.
ScaleUpdate(r) ==
  LET w == req[r].workspace
      scaled == Authorized(r, w) /\ r \in fresh[w]
  IN
  /\ req[r].phase = "scaling"
  /\ req' = [req EXCEPT ![r] = Blank(IF scaled THEN "answered" ELSE "refused")]
  /\ count' = IF scaled THEN [count EXCEPT ![w] = req[r].want] ELSE count
  /\ fresh' = [fresh EXCEPT ![w] = IF scaled THEN {} ELSE @ \ {r}]
  /\ UNCHANGED <<rights, age, cache, changes>>

-----------------------------------------------------------------------------
\* The world around: rights change, and time passes, for a review no longer
\* than MaxDelay.
ChangeRight(u, w) ==
  /\ changes < MaxChanges
  /\ changes' = changes + 1
  /\ rights' = [rights EXCEPT ![u] = IF w \in @ THEN @ \ {w} ELSE @ \cup {w}]
  /\ age' = [age EXCEPT ![u][w] = 0]
  /\ UNCHANGED <<cache, req, count, fresh>>

Waiting == {r \in Request : req[r].phase \in {"asked", "told"}}

Tick ==
  /\ \A r \in Waiting : req[r].waited < MaxDelay
  /\ age' = [u \in Identity |-> [w \in Workspace |->
               IF age[u][w] < Horizon THEN age[u][w] + 1 ELSE Horizon]]
  /\ cache' = [k \in DOMAIN cache |-> [cache[k] EXCEPT !.life = IF @ > 0 THEN @ - 1 ELSE 0]]
  /\ req' = [r \in Request |-> IF r \in Waiting THEN [req[r] EXCEPT !.waited = @ + 1] ELSE req[r]]
  /\ UNCHANGED <<rights, count, fresh, changes>>

\* A tool of a group that is not exposed does not exist for any caller.
Registered(set) == set \in Toolsets

CoreTool(r) ==
  /\ Registered("core")
  /\ \/ ListWorkspaces(r)
     \/ \E w \in Workspace :
          \/ ListAPIBindings(r, w) \/ GetAPIBinding(r, w) \/ ListAPIExports(r, w)
          \/ GetAPIExport(r, w) \/ ListAPIExportEndpointSlices(r, w)
          \/ ListWorkspaceTypes(r, w) \/ GetWorkspaceType(r, w)
          \/ ListInitializingWorkspaces(r, w) \/ ListTerminatingWorkspaces(r, w)
          \/ ListResources(r, w) \/ GetResource(r, w)

ApisTool(r, w) ==
  /\ Registered("apis")
  /\ ListAPIConversions(r, w) \/ ListAPIResourceSchemas(r, w) \/ GetAPIResourceSchema(r, w)

AdminTool(r, w) ==
  /\ Registered("admin")
  /\ \/ ListLogicalClusters(r, w) \/ ListShards(r, w)
     \/ ListPartitions(r, w) \/ ListPartitionSets(r, w)

WriteTool(r, w) ==
  /\ Registered("write")
  /\ \/ CreateResource(r, w) \/ UpdateResource(r, w) \/ PatchResource(r, w)
     \/ DeleteResource(r, w)
     \/ \E want \in Sizes \cup {Absent} : ScaleGet(r, w, want)

SrvNext ==
  \/ \E r \in Request :
       \/ \E who \in Identity \cup {NoCredential, Invalid}, impersonate \in BOOLEAN :
            Arrive(r, who, impersonate)
       \/ Review(r) \/ ErrorServer(r) \/ Remember(r)
       \/ CoreTool(r) \/ ScaleUpdate(r)
       \/ \E w \in Workspace : ApisTool(r, w) \/ AdminTool(r, w) \/ WriteTool(r, w)
  \/ \E u \in Identity, w \in Workspace : ChangeRight(u, w)
  \/ Tick

Init == OpInit /\ SrvInit
Next == (OpNext /\ UNCHANGED srvVars) \/ (SrvNext /\ UNCHANGED opVars)

-----------------------------------------------------------------------------
\* A change of a caller's rights reaches that caller within the TTL and the
\* time a review takes, and reaches nobody else, however many reviews of
\* however many callers overlap: what has been so for that long is so in
\* every scope made.
ScopeFollowsRights ==
  [][\A r \in Request, w \in Workspace :
       /\ req'[r].phase = "scoped" /\ req[r].phase # "scoped"
       /\ age[req'[r].who][w] = Horizon
       => (w \in req'[r].scope <=> w \in rights[req'[r].who])]_vars

\* A scale that succeeds replaced the count it says it replaced, whatever
\* other requests did to the object in between.
ScaleIsExact ==
  [][\A r \in Request :
       req[r].phase = "scaling" /\ req'[r].phase = "answered" =>
         count[req[r].workspace] = req[r].read]_vars
=============================================================================

# Formal models of the kcp virtual workspaces

TLA+ modules for the components of this repository that keep state and run
concurrently, TLC configurations that check them on small instances, and TLAPS
proofs of the properties that matter most for every instance. `PROJECT.json`
maps each definition to the source lines it models and lists runs, mutants
(plausible bugs each property catches), hazards and theorems.

```
tlc -workers 2 -config MCTranslator.cfg MCTranslator     # one run
tlapm TranslatorProofs.tla                               # one proof module
```

## 1. Inventory

The repository holds five services beside kcp, each a virtual workspace (an
aggregated API server answering per-caller views), an operator (controllers
that materialize objects), or both. They share one construction: informers
over many logical clusters (multicluster-runtime) feed single-worker work
queues; a reconcile reads caches, calls API servers, writes a status.

### access: which clusters may I see?

| part | state | operations |
|---|---|---|
| graph (`access/pkg/graph`) | `access[subject]` = clusters, `endpoints`, `ready`, under one RWMutex | Grant, SetEndpoint, Revoke, Forget, SetReady, ClustersFor |
| translator (`rbacprovider/translator.go`) | `bindings[key]`, `refs[subject][cluster]` = supporting keys, under a mutex | apply, remove, ForgetCluster; each is several graph calls |
| provider (`multicluster.go`, `provider.go`) | engaged clusters, two controllers' queues | engage, OnDelete, reconcile of ClusterRoleBindings and RoleBindings, readiness runnable |
| provider, single shard (`provider.go`, `informers.go`) | two informers with a store and a queue of events each | handlers translate add, update, delete, tombstone and resync events; readiness after the first list |
| self cluster access review (`virtual/scar`) | none | one read of the graph |
| bootstrap (`bootstrap`, `cmd`) | objects in kcp | the `init` command: workspaces, manifests, RBAC, a kubeconfig |

*Correct means*: the graph shows a cluster to a subject exactly when a binding
there names the subject, at rest exactly and during an update without a gap;
a departed cluster disappears; an endpoint is known exactly for visible
clusters. *Hard*: bindings overlap, readers see the middle of an update, the
work queues of two controllers race a cluster's departure, readiness races the
informers.

### tenancy: tenants, projects, memberships

| part | state | operations |
|---|---|---|
| operator, provisioning (`operator/tenant.go`, `workspaces.go`, `naming`) | Tenant objects (finalizer, seeding mark, status), Workspace objects with an owner label, both cached | reconcileTenant: set finalizer, ensure workspace over name candidates, seed first admin, write status; on deletion remove the workspace, then the finalizer |
| operator, grants (`membership.go`, `project.go`) | Memberships, Projects, role bindings in project workspaces | push a grant into the projects it covers; pull all grants into a project; revoke on deletion |
| directory (`directory/directory.go`) | tenants, `byWorkspace`, projects, memberships, ready, under one lock | Upsert/Delete of each kind, ForgetCluster, ForgetPlatform, SetReady, ReviewFor |
| mirrors (`provider/provider.go`) | queues | copy objects into the directory; forget a departed cluster |
| membership API (`virtual/membership`, `server/projects.go`) | none of its own | Create, Delete: check the caller against the directory, write to the tenant's workspace; List, Get |
| self-service requests (`virtual/selftenantrequest`, `selfprojectrequest`) | none of its own | create a Tenant or a Project for a caller after a look at the directory |
| CLI, session (`cli/login.go`, `clicontext`, `review.go`, `kubeconfig.go`) | a token cache and a context, in two files | login, logout, use, kubeconfig, enable |
| CLI, administration (`cli/org.go`, `seed.go`, `user.go`, `memberships.go`) | none | sequences of requests to several workspaces |
| bootstrap | objects in kcp | the `init` commands |

*Correct means*: a tenant gets exactly its own workspace and, once, its first
admin; it goes only after its workspace; nobody gets a role nobody asked for;
a revoked grant stays revoked; only a tenant's admins change its grants, and
it keeps an admin. *Hard*: every decision is taken on a cached copy, every
step may fail or be the last before a crash, conflicts are swallowed, two
controllers write the same bindings, and the API's check and its write are
apart.

### ephemeral: resources answered by a webhook

| part | state | operations |
|---|---|---|
| definition sets (`virtualworkspace/apidefinitions`) | a cache of sets keyed by APIExport | resolve export and schema from listers, look up, build outside the lock, install, tear down |
| request path (`authorizer`, `registry`, `webhook`) | the running configuration; reviews under way | authorize by bindings and content, validate, post a review, match the answer |
| endpoint slices (`endpointslice`) | the slices' status | poll, resolve, write the URL of the virtual workspace |

*Correct means*: no set leaks or is torn down while cached, answers are not
older than the request; a webhook is called only for a workspace that bound
its export, and a request is answered with its own reply; a URL that is
published is one the server serves. *Hard*: everything is read from listers
that change meanwhile, several controllers write one slice, a configuration
file may be invalid.

### marketplace: producers, published exports, offers

| part | state | operations |
|---|---|---|
| operator, producers (`operator/provider.go`, `workspaces.go`) | Producer records (finalizer, status), Workspace objects with an owner label | reconcileProducer: set finalizer, make the workspace or note the one brought, write the status; on deletion remove the workspace, then the finalizer |
| operator, publishing (`operator/publish.go`) | a ClusterRole and ClusterRoleBinding per published export | reconcileAPIExport: find the record of the export's workspace, teach it the logical cluster, grant `bind`; revoke it for any other export |
| directory, mirrors and catalog (`directory`, `provider`, `virtual/catalog`) | exports, producers, instructions, schemas | upserts, deletes, forget; joined when a caller browses |
| CLI (`cli/offers.go`) | none | browse, describe, enable: an APIBinding from a catalog entry |

*Correct means*: a published export of a registered producer can be bound, any
other cannot; a registered producer gets its workspace and loses it with the
record; a catalog entry follows its export, and a consumer consents to the
claims of the very export it binds. *Hard*: the grant follows an export, a
record and a cached ClusterRole that change independently, the record's status
is written by both controllers; four mirrors write one directory;
instructions are keyed without their namespace.

### mcp: tools over kcp

An operator grants impersonation in each workspace that binds the export and
reports an endpoint (`mcp/pkg/operator`). A server authenticates a caller,
learns the caller's workspaces from the access virtual workspace, caches the
answer with an expiry (`internal/access`), and translates tool calls into
requests as the caller (`pkg/tools`). *Hard*: overlapping reviews overwrite
each other, a tool reads and writes in two calls, a grant is two objects and
the report a third.

### producer quickstart

A controller template: two passes over a Database's status, from a cache, with
an event filter by generation. *Hard*: an edit between the passes.

**Interaction.** kcp's API servers are the only channel between services:
operators write what the virtual workspaces mirror. Inside a process,
controllers and request handlers share the graph, directory or cache under its
lock. Callbacks: engage/OnDelete from discovery, informer events.

## 2. Modules

| module | models | composed from |
|---|---|---|
| `AccessGraph` | the graph and its operations | |
| `AccessView` | abstract specification: a view moves edge by edge towards the named edges, never away, and gets there | |
| `Translator` | translator over the graph, one graph call per step | AccessGraph; refines AccessView |
| `AccessProvider` | fleet, informers, controllers, readiness, several shards | Translator |
| `ShardProvider` | informers, stores, handlers, readiness, one shard; the self review | Translator |
| `TranslatorProofs` | theorems | Translator, AccessProvider |
| `Provisioning` | reconcileTenant, one API call per step | |
| `ProvisioningProofs` | theorems | Provisioning |
| `Grants` | membership and project controllers, one API call per step | |
| `GrantsProofs` | theorems | Grants |
| `TenancyDirectory` | the index, one operation per step; also the abstract specification of what the mirrors may do | |
| `MembershipAPI` | mirrors and requests over changing objects | TenancyDirectory; refines it |
| `MembershipProofs` | theorems | TenancyDirectory, MembershipAPI |
| `SelfService` | administrators' commands, request by request; requests for tenants and projects over a lagging directory; the operator's part in them | |
| `Session` | login, logout, use, kubeconfig, enable over two files shared by terminals | |
| `Installation` | the four `init` commands as programs of calls, run by pods of two releases, and what kcp does meanwhile | |
| `Marketplace` | producer and publish controllers, one API call per step | |
| `MarketplaceProofs` | theorems | Marketplace, DatabaseController, Session |
| `Catalog` | directory, four mirrors, the browse's join, enable | |
| `CatalogProofs` | theorems | Catalog, SelfService |
| `MCPOperator` | the grant and the report, call by call | |
| `MCPServer` | authentication, review cache with expiry, tool calls | MCPOperator |
| `MCPProofs` | theorems | MCPOperator, MCPServer, Installation |
| `DefinitionCache` | definition sets under concurrent requests | |
| `DefinitionProofs` | theorems | DefinitionCache, EphemeralRequest, EndpointSlices |
| `EphemeralRequest` | a create, from the authorizer to the webhook's answer; the configuration | |
| `EndpointSlices` | two controllers over one workspace's slices; the URL as published and as parsed | |
| `DatabaseController` | the quickstart's controller | |
| `MC*` | instances | |

How the state and actions correspond:

* **Locks.** What runs under one lock is one step, unless readers that do not
  take this lock can see inside: `Translator.op` is the call that holds
  `Translator.mu`, and each of its graph calls is a step, since reviews take
  the graph's lock only. Go's map iteration order is a choice.
* **API calls.** A reconcile, a command or a request is a record with a
  program counter (`worker`, `job`, `run`, `inst`, `step`); each call to an API
  server is a step that may fail, and anything else may happen between two. A
  crash or a restart drops the record and re-queues everything. `Installation`
  writes the four commands down as sequences of steps (`ProgramOf`).
* **Caches.** In `Provisioning`, `Grants`, `Marketplace` and
  `DatabaseController` objects have a cached copy that a `Watch...` action
  brings up to date; `Lagging` names the caches that may be behind (all, where
  there is no such constant). In `Catalog` an object is what the cache holds.
  A write with a stale copy conflicts where the code sends a resource version,
  and goes through where it does not.
* **Queues.** Sets of keys: an object change, an error or a `RequeueAfter`
  puts the key back. A key being worked on can be queued again. The events of
  `ShardProvider`'s informers are sequences, as their order matters.
* **Files.** `Session` reads, empties and writes a file in three steps, and a
  command may be interrupted at any: what is left is `Torn`.
* **Data.** Display names, conditions and messages are left out; a workspace
  name is the pair of a slug and a UID suffix, a name in the CLI a sequence of
  labels, a URL its host and segments, an object in `Installation` the release
  that wrote it. The service-account user name of `TranslateSubject` keeps its
  parts, since their defaulting is a property.
* **History variables** (`raced`, `asked`, `missed`, `revoked`, `wasAdmin`,
  `overlapped`, `during`, `named`, `offered`, `edited`, `lost`, `unseen`,
  `solo`, `meant`) are read by properties only.
* **External.** API servers, discovery, informers, kcp's scheduling of
  workspaces, identity providers and browsers: modelled from what the code
  relies on, marked so in the map.

## 3. Runs

| run | checks | shows |
|---|---|---|
| `translator` | IInv, NoFlicker, ImplementsView, ShardConverges | overlapping bindings, updates, removals and forgets keep the graph exact at rest and monotone in between, it implements `AccessView`; driven by one shard's informers, every review ends up right |
| `access_provider` | ProviderInv, Converges | the graph converges to the fleet's bindings; a departed cluster stays gone unless a reconcile raced its departure; a ServiceAccount is never another identity |
| `provisioning` | ProvisioningInv, FinalizerHolds, TenantsSettle | a tenant's whole life under lag, failures, restart, rename: marked means granted, it goes only after its workspace, it gets ready or goes |
| `name_clash` | ReadyIsTrue, DeletesOnlyItsOwn | two tenants wanting one name never adopt, report or delete each other's workspace |
| `grants` | GrantsInv, GrantsSettle | two controllers writing from stale copies: nobody gets a role nobody asked for, revocation holds where nothing raced it, grants converge and revocations complete |
| `membership_api` | MembershipInv, IndexExact, RolesAreLocal, ImplementsDirectory | only admins of the very workspace write to it; requests made one after the other leave an admin |
| `clients` | SessionInv, RemembersLast, ActsWhereSaid, SelfServiceInv | terminals that share two files, administrators' sequences of requests, users' requests over a directory that is behind |
| `installation` | SoloRunWins, DoneMeansInstalled, InstallCompletes | the four `init` commands, cut short anywhere and run again, also by another release |
| `marketplace` | MarketplaceInv, MarketplaceSettles, ReadyIsOfItsGeneration, DatabasesGetReady | records, workspaces and exports that come and go in any order: what is published ends up granted, what is not loses the grant, nothing unregistered is opened; the quickstart's Ready is of one generation |
| `catalog` | CatalogInv, ConsentIsForTheExport, CatalogSettles | the directory is never silently behind; a consent reaches only the export it was given to; the catalog settles |
| `mcp` | ReadyMeansGranted, EnabledGetsReady, ScopeFollowsRights, ScaleIsExact | the report is true and comes; a caller is served by rights no older than the expiry; a scale changes only what it read |
| `definitions` | CacheInv, AnswersAreCurrent, HandedOutLive, RequestInv, CleanPassPublishes | builds racing with each other and with changes; webhooks called only for who bound them, by a configured entry; URLs the server serves |

A property named `...Inv` or `...Settles` is a conjunction of named parts, each
stated by itself above it in its module; a history variable excludes the race
that the code does not survive: ForgottenStaysForgotten by `raced`,
RevokedStaysRevoked by `missed`, SettledKeepsAdmin by `overlapped`,
UnpublishedGetsRevoked by `lost`, DatabasesGetReady by `unseen`,
MarkImpliesGranted and FinalizerHolds by their premises.

Four runs join modules of components that do not interact
(`clients`, `marketplace`, `mcp`, `definitions`): a variable `focus`, or `mode`
in `translator`, chosen by the initial state, says which one moves, so that
the run explores the sum of their states and not the product.

### Bounds

* `translator`: two clusters, two subjects, three bindings (two overlapping in
  one cluster), two endpoints, no bound on events of the multi-shard driver.
  Two bindings per cluster are what distinguishes a reference count from a
  flag, a second cluster is the neighbour that a forget has to spare; the
  proofs remove these bounds. Single shard: three bindings, of which one has a
  namespace and one no annotation, and `MaxEvents` 2 changes or resyncs.
* `access_provider`: one cluster, one binding per controller, `MaxChanges` 2
  changes of bindings or fleet: a departure and a return, or a change on each
  side of one.
* `provisioning`: one tenant, both caches lag, `MaxEvents` 2 of renames,
  deletions, revocations, failures, restarts: every pair, such as a failure
  followed by a revocation. `name_clash`: two tenants, one event, the cache
  that matters for names lags. The slug strategy is used throughout: it is
  the one with more than one candidate.
* `grants`: one membership, tenant-wide or scoped to a name that is or is not
  the project, two roles, one event beside creation and deletion. Two
  controllers already give every pair of writers.
* `membership_api`: two tenants, a third workspace so that one tenant can
  move, a user and a user with a group, three requests or changes. The third
  request is what makes the revocation of two admins and a later attempt
  possible.
* `clients`: two terminals, two front-proxies, two issuers, two commands, one
  token that ages, three redirects (the third is the one that hangs); two
  administrators with `MaxRequests` 2, one tenant in up to two workspaces, one
  project, a seed for a tenant and one for a project.
* `installation`: two pods of two releases, of which the newer names a server
  identity, two starts besides restarts, one fault (a lost call or answer, a
  timeout, a write by kcp). Pods of `access` and of `mcp` overlap; those two
  between them use every way of applying an object, and the programs of the
  other two services run one after the other.
* `marketplace`: one record, two clusters (one brought, one made by the
  operator), `MaxExports` 1 export in either, `MaxEvents` 1 edit, deletion,
  failure or restart beside the creations. The export may come before the
  record and the record may turn from one cluster to the other, which is what
  the join of paths and clusters has to survive; the two workers work key by
  key, so a second export adds nothing. One database, two engines,
  `MaxChanges` 4.
* `catalog`: two clusters, one record, one export and schema and two
  ConfigMaps of one name per cluster, one change of objects or fleet while
  the directory is otherwise settled or empty, one restart; a workspace
  that left may bind again.
* `mcp`: one workspace bound twice, one failure; two requests of two
  identities with one name, an expiry of two ticks and reviews that take one.
* `definitions`: two requests, two keys, three changes and three builds: a
  third build is needed for a replaced set to have a successor that races. One
  request handler (handlers share only the replies, and a stray reply is one
  of another review), two consumers, of which one also provides, two reviews,
  two edits, four configuration files of which two are invalid. Two slice
  controllers, one slice, three writes.
* Symmetry: permutations of tenants (`name_clash`), of one tenant's workspaces
  (`membership_api`), of requests, handlers and controllers (`definitions`), of
  terminals and commands (`clients`); none of these runs checks liveness.
* `CHECK_DEADLOCK FALSE` where the bounded events can run out and the system
  then rests, which is not an error. `installation` and `definitions` never
  stop, or only where they are done, and deadlock is checked.

### Fairness

* Watches and informers deliver, API calls return, kcp makes a requested
  workspace ready and removes a deleted one, replicates RBAC, serves a bound
  API: weak fairness. The components promise nothing when these fail for ever.
* A queued key is taken: strong fairness per key where the worker's action is
  disabled while it works on another. client-go's queue hands keys out in
  turn. Weak where each kind has its own worker (`Catalog`, `MCPOperator`).
* The holder of the translator's mutex runs on: weak. Waiters get the mutex:
  strong, since Go's mutex is starvation-free.
* The informers' ten-hour resync happens: weak in `Grants`; strong in
  `Marketplace`, where the action is one step for both controllers and waits
  for them to be idle. GrantsConverge and PublishedGetsListed depend on it,
  which is itself worth knowing: some lost updates are repaired only then.
* A pod that started goes on, and the kubelet restarts what failed: weak, per
  pod (`Installation`).
* Users, failures and restarts owe nothing and are bounded.

`membership_api`, `clients` and `definitions` check safety only, without
fairness.

## 4. Proofs

All proofs are for arbitrary constants, from the named assumptions of the
modules: a binding's key lies in a known cluster (`BindingKeyAssumption`),
every subject that a binding may name is one of the graph's
(`SubjectAssumption`), a cluster has one endpoint (`EndpointForAssumption`),
bindings start as objects that bindings can be (`ObjectAssumption`), workspaces
have an owner (`OwnerAssumption`), a path that is also a cluster's name is that
cluster's (`PathAssumption` of `EphemeralRequest`), absent values are not values
(`AbsentAssumption`, `NoSetAssumption`, `RoleAssumption`, `ScopeAssumption`),
bounds are naturals and options are options (`BoundAssumption`,
`EventsAssumption`, `StrategyAssumption`, `OptionsAssumption`), there is
something to grant or to publish (`SomeAssumption`), callers authenticate as
subjects and one of the roles is admin (`UserAssumption`), names and groups are
strings (`IdentityAssumption`), and so are the parts of an address
(`AddressAssumption`), no two clusters have one path (`CatalogAssumption`), an
empty file, selection or credential is none of the full ones and a torn file is
neither (`SessionAssumption`), an absent object or kcp's default slice is of no
release (`InstallationAssumption`), callers are users, a seed's lists are of
users and its project is one or the whole tenant (`SelfServiceAssumption`). TLC
evaluates each of them in the runs.

A theorem about a whole component is mostly laid out in the same way: a lemma
per action says what it leaves alone and what it does, in terms the invariant
needs and not in terms of the action; a lemma per conjunct of the invariant
shows that nothing of that kind disturbs it; the theorem combines them.

* **TranslatorProofs.** QuiescentExact, EndpointsMatchAccess and NoFlicker are
  not inductive: in the middle of a call, counts, edges and recorded bindings
  differ. `IInv` says how far: every reference is supported by a recorded
  binding or awaited by the call in progress, and every edge has references
  but for the one subject the call is about to grant or revoke. *Consistency*
  proves `IInv` with one step per action; *Exactness*,
  *EndpointsFollowAccess* and *ReadersSeeNoFlicker* follow; *Refinement* maps
  every step to a step or stutter of `AccessView`, whose safety part is thus
  implemented. The `translator` run checks `IInv`, which implies the first two.
  *ProviderImplementsTranslator*: every step of the multi-shard provider is one
  of the translator's, so all of this holds of a translator in the fleet.
  *ForgottenAndReal* adds to `IInv` that no reconcile of a departed cluster is
  in progress unless it was at the departure (`LeftAlone`), that then nothing of
  the cluster is recorded either (`NothingRecorded`; without the records the
  next apply would bring its edges back), and that no record, pending grant or
  edge names a service account without a namespace (`NamesSomebody`).
* **ProvisioningProofs.** ReadyIsTrue, DeletesOnlyItsOwn and FinalizerHolds
  speak of objects, and every step of the reconciler decides on copies of
  them. `Inv` says what a copy of any age is still good for: a cached
  workspace has the owner it had and is ready if it was, unless its tenant is
  *withdrawn*, its deletion cached and no earlier reconcile under way (`Seen`);
  every copy of a status, cached or in the worker's hands, is true in this sense
  (`Statuses`); a deletion that is still to be handled has not happened
  (`Held`, `LifeOrder`), and a copy that counts as current is (`CopiesTrue`).
  The four theorems follow, *FinalizerAlwaysHolds* by what the worker knows
  when it comes to the finalizer.
* **GrantsProofs.** Two controllers write the same bindings from copies of two
  kinds of objects. For OnlyAskedRoles `Inv` has to say that everything on
  either worker's list was asked for, and so was whatever a cached membership
  would put there (`WorkAsked`). For RevokedStaysRevoked it says that a
  membership being revoked is *sealed* in every project where the revocation
  missed nothing: its end is cached, no worker serves it and the project
  controller's list does not have it; and what it has left there is on the list of
  what the worker deletes (`Revocation`).
* **MembershipProofs.** *DirectoryIndex* proves `DirInv` of the directory alone.
  IndexExact is not inductive: an upsert overwrites the entry of the workspace
  it records, which is harmless only since no other tenant can have recorded
  it. That is `OwnWorkspace`, and rests on the owner label. *ReviewIsLocal*: a
  claim's roles, projects and cluster come from one workspace.
  *MirrorsImplementDirectory*: every step of the mirrors, in any order and
  however late, is an operation the directory's specification allows, since the
  operator reports workspaces of a tenant's own (`OwnStatus`). What was shown of
  the directory thus holds of the API (*ClaimsAreLocal*), and
  *OnlyAdminsWrite* builds on it: a check is passed with a mirrored admin role
  in the very workspace, and such a role, as it is or as it is mirrored, was
  once written there or seeded (`AdminsRemembered`). *AdminsStay* needs to know
  that a check is still good when its write comes. `CarefulAt` says so of a
  workspace whose requests never overlapped: while one is pending it is the only
  one, directory and objects agree on that workspace, and the check would not
  refuse it now.
* **DefinitionProofs.** `CacheInv` adds to AnswersAreCurrent who owns a set
  (`NothingLeaks`, `OwnersDistinct`), that a set is cached under its own key
  (`CacheIsKeyed`), and that what a request has read was current at that time
  (`ReadsAreCurrent`). *CacheConsistent* proves it, *CurrentAnswers* and
  *LiveAnswers* follow. *RequestsAreBoundAndAnswered*: `PassedInv` says for each
  place a create has come to what was seen on the way there (`Passed`): a
  binding, then permission, then an entry and a schema, and in the end the
  reply to its own review. It says that of what was *seen*, not of what is: the
  binding may be gone when the webhook is called. *CleanPassesPublish*:
  CleanPassPublishes speaks of the end of a pass, so `SlicesInv` says of every
  moment that a version tells what a slice was when it was listed (two writes
  never make the same one), that a slice still to do is as the list shows it, and
  that one that is done and unchanged since has its endpoint. That the address
  written leads back to the export goes through the parser: `Digested` shows
  that what digestURL cuts off and splits is what URLFor put there.
* **CatalogProofs.** *CatalogIsNeverSilentlyBehind* proves `CatalogInv`: an
  entry differs from its object only while the object is queued or a mirror
  holds an older copy of it, which is what queues it again.
  *ConsentsAreForTheExport*: a binding goes by path and an entry's claims come
  by cluster. `ConsentInv` has it that every copy of a record that was not
  moved, in the directory or in a mirror's hands, has the path of the cluster
  that its status names (`RecordsAreHonest`), and so has the entry that enable
  works with (`EntryIsHonest`); it ends where no two clusters have one path.
  *SeedsAreIdempotent* is about a command of many calls between which anything
  may happen. `TenancyIInv` has, per seed, what it knows at each step unless
  somebody raced it (`SeedStep`), and that each grant it was asked for is still
  to do, is there, or was undone by somebody else (`SeedWants`). A user may be on
  the lists twice, so which of its roles comes last matters: `WantsFacts` finds
  the last place by the least-number principle. No two tenants have one
  workspace, since an index is never given out again, and only an admin's
  request makes a project (`AdminsKnown`).
* **MarketplaceProofs.** *NothingElseIsOpened* proves `MarketplaceInv`. The
  publisher decides on what it read up to four steps ago, so `MInv` carries
  along that every copy of a record, in a cache, in the registrar or in the
  publisher, names only what the record once named (`NamedInv`), that a
  publisher about to grant works on an export that was published
  (`OfferedInv`), and that it has come to the binding by way of the role
  (`GrantsInOrder`). *ReadyTellsItsGeneration*: every copy of a database,
  cached or in the worker's hands, has a spec somebody wrote and a status that
  tells the truth about its generation (`Genuine`), and what the worker is about
  to write was made of such a copy (`WorkerInv`).
  The three theorems about `Session` rest on `SessionIInv`: of a file that
  nobody disturbed there is one writer at a time, it started from what the
  file was meant to hold, and what it is about to write is that with its own
  change (*FilesRememberWhatCommandsLeft*); each command's record says what its
  user has been told so far (*CommandsActWhereTheySay*); of a login's redirects
  one was taken, one is in the channel and the rest are stuck (`Counted`), and
  a token in use was found fresh, by a margin of 30 seconds that the model lets
  no command outlast (*LoginsEndAndTokensAreInTime*).
* **MCPProofs.** *ReadyIsGranted*: ReadyMeansGranted is inductive together with
  `StepsInOrder`, which says how much of the grant is there when a reconcile
  has come to its second and third call. *ScopesFollowRights* and
  *ScalesAreExact* rest on `SrvInv`. A review agrees with every right that has
  stood longer than the review has been waited for (`ToldTrue`), and a kept
  answer with every right that has stood longer than it has been kept and a
  review takes (`CachedTrue`), under its caller's own key: KeysTellCallers shows
  that a key of a name and groups belongs to one caller
  (`IdentityAssumption`: names and groups are strings). Who holds the current
  version of an object has its count (`HeldCurrent`).
  *SoloRunsWin* and *DoneIsInstalled* are about `Installation`, whose programs are
  data: *ProgramFacts* shows of each, for every release, that an object is
  applied by the calls that may apply it, that a list starts where a restart goes
  back to, and that a program that binds a registry or writes a kubeconfig
  waits for it. From there `InstallInv` knows nothing of the four commands: what
  an installer has behind it has been performed and stays so (`Performed`), and
  was brought to its release if it runs alone (`Won`); what it has seen in the
  middle of a call is still so (`PhaseOK`); a binding is there only once it may be
  admitted (`BindingsAdmitted`).

Only model-checked: all liveness (TenantsSettle, Converges, ShardConverges,
GrantsSettle, MarketplaceSettles, DatabasesGetReady, CatalogSettles,
EnabledGetsReady, InstallCompletes, the fairness part of ImplementsView), which
is out of the prover's reach. Every invariant and every other action property
that the runs check is stated by a theorem. No proof is by induction over data
with an operator for its hypothesis; where a least or a last element is needed
it comes from the library's well-foundedness of < on the naturals, and where a
recursive function is applied (the programs of `Installation` are flattened by
one) it is to sequences of a fixed length.

## 5. Known disagreements

Behaviour of the code, found while modelling, that contradicts what a comment
or a help text says. The first five are stated as definitions of their modules
that no run checks: TLC finds each of them violated.

* `NoOrphanedWorkspace` (Provisioning). `tenancy/pkg/operator/operator.go:78`:
  the finalizer "marks objects whose materialized side effects must be removed
  before the object may go". updateTenantStatus (`tenant.go:202`) drops a
  conflict, and with it the name of a workspace that was just created; a
  tenant deleted at that moment leaves the workspace behind.
* `RevokedGrantGone` (Grants). `types.go:212`: "deleting the Membership removes
  that RBAC again". applyMembershipsTo (`project.go:164`) applies a grant from
  a list read before; a membership deleted meanwhile leaves its binding, and
  so does one whose project is not Ready when it is revoked.
* `TenantKeepsAnAdmin` (MembershipAPI). `virtual/membership/storage.go:248`
  refuses to remove the last tenant-wide admin. The guard counts the
  directory: two admins who revoke each other at once leave none.
* `OffCatalogCannotBind` (Marketplace). `publish.go`: "an offering off the
  catalog is an offering nobody new can enable". A published export without a
  matching record returns before removeBindGrant (`publish.go:92`).
* `UnbindingRevokes` (MCPOperator). `mcp/cmd/init.go:46`: "Binding is the
  consent; deleting the binding revokes it". Nothing removes the impersonation
  ClusterRole and ClusterRoleBinding (`operator.go:206`). In the same way the
  server identity an earlier release named keeps its grant when a later
  release names none (`Installation`, SoloRunWins speaks of what a run
  applies).
* `graph.go:161`: ready means the provider "completed its initial sync and is
  ready to serve accurate queries". Single shard, SetReady follows HasSynced,
  before the handlers have run; several shards, it waits for discovery only.
* `membership add` with neither `--tenant` nor `--project` acts on the selected
  project (`cli/user.go:309`), where the help says tenant-wide
  (`memberships.go:134`, `:165`).
* `rest.go:206`: the webhook "does not get to change the identity" of an
  object; only its group, version and kind are forced.
* URLFor with `--root-path-prefix /` publishes `//name/...`, which digestURL
  rejects (`endpointslice/controller.go:291`); CleanPassPublishes excepts it.
* `handler.go:34`: a lost right ends "within the access cache's TTL". The
  review's own delay comes on top: ScopeFollowsRights says TTL plus
  `MaxDelay`.
* A first admin revoked before the seeding mark is written is granted again
  (`tenant.go:191`), and a tenant whose workspace was deleted and made again
  is not seeded, as the mark is on the Tenant.
* Narrowing a membership keeps its old bindings (`membership.go:139`).
* A database made anew while the watch is broken has the generation of the one
  before and is no event: GenerationChangedPredicate hides it until a restart.
* entriesFor of the ephemeral configuration answers with the first key that
  matches: a resource registered by path is not served when another resource
  of the same export is registered by cluster. Validate compares paths
  verbatim while the getter lower-cases them.
* CLI: `seed` with one subject as both admin and viewer flips its role on every
  run; upsertMembership does not retry a conflict; a third redirect hangs a
  login; overlapping or interrupted writers lose a file's content;
  anyCachedToken may switch the identity; `login --url` keeps the old
  selection.

## 6. Not modelled

* Slug arithmetic of `naming` (truncation, allowed characters).
* A mirror of the tenancy directory that has read an object when its cluster
  leaves: the race is modelled in `AccessProvider` and in `Catalog`; here the
  entry is unreachable once the tenant's own is gone.
* What a torn-down definition set does to a request still served from it: the
  framework decides, and it is not in the repository. A failed start closes
  the ready channel too, which matters at shutdown only.
* The delegated authorizer of the content check is made per request and holds
  no state. Two controllers over one slice overwrite each other, as their
  documentation says; CleanPassPublishes speaks of a pass nobody disturbed.
* `Installation`: kcp refuses to replace schemas, and slices whose manifest
  leaves out the path; RBAC that kcp annotated may keep earlier content. A
  retry after Forbidden ends without an update where somebody else created the
  binding meanwhile. The optional check of one APIBinding at the end
  (VerifyAPIBinding) is left out.
* `MCPServer`: callers in `system:masters`, and more than one object to write
  per workspace. That a review takes at most `MaxDelay` is an assumption on
  the environment; the client's timeout is what bounds it.
* `Session`: that a command presents a token within 30 seconds of reading it is
  an assumption (`Age`), as is that terminals share nothing but the files.
* A plain informer keys objects by namespace and name alone, so objects of two
  clusters with one name share a place: `ShardAssumption` leaves such shards
  out. A restart of the single-shard provider is an initial state.
* In `Marketplace`, the moment between a workspace's logical cluster being
  known and its being ready, and re-creation of a record under its old name.
* Start-up wiring, flags, TLS, debug endpoints, the text of lists, generated
  code: no state after start.

## 7. Plan

1. Two grants and two projects in `grants`; two records in `marketplace`, for
   a path that passes from one to another.
2. The tenancy mirrors with a reconcile that straddles a departure.
3. Proofs: every step of the single-shard provider is one of the translator's, as
   it is of the multi-shard one.

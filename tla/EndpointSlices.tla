--------------------------- MODULE EndpointSlices ---------------------------
(***************************************************************************)
(* The endpoint slice controller: it lists the slices of one provider      *)
(* workspace every so often and writes into each where the virtual         *)
(* workspace serves its export.  The provider applies the kind, and makes, *)
(* changes and deletes slices meanwhile; controllers are restarted with    *)
(* other options, and two of them may run over the same workspace.         *)
(*                                                                         *)
(* A URL is the host and the segments of its path.                         *)
(***************************************************************************)
EXTENDS Naturals, Sequences, SequencesExt

CONSTANTS
    Instance,      \* controllers
    Slice,         \* names of slices
    Exports,       \* names of exports
    Workspace,     \* the logical cluster the controllers are scoped to
    Options,       \* what a controller may be started with
    ServerPrefix,  \* the path prefix the virtual workspace was started with
    ServerName,    \* and its name
    Target,        \* some consumer's cluster
    MaxWrites      \* bound on writes of slices

NoName == ""
AnyExport == ""
NoShards == "none"
MatchAll == "all"
Absent == 0

(* Names are strings, and a workspace has one. *)
ASSUME AddressAssumption ==
    /\ {Workspace, ServerName, Target} \cup Exports \subseteq STRING
    /\ ServerPrefix \in Seq(STRING) /\ Workspace # NoName /\ MaxWrites \in Nat

VARIABLES
    crd,      \* whether the workspace serves the kind
    slices,   \* slices[s]: [rv, export, endpoints]; rv Absent: not there
    writes,   \* the last resource version
    options,  \* options[c]: what c was started with
    pass      \* pass[c]: what c has listed, what it has still to publish,
              \* the version it leaves each slice in, whether all went well

sliceVars == <<crd, slices, writes, options, pass>>

NotThere == [rv |-> Absent, export |-> NoName, endpoints |-> <<>>]
Waiting == [step |-> "waiting", listed |-> [s \in Slice |-> NotThere], todo |-> {},
            left |-> [s \in Slice |-> Absent], clean |-> FALSE]

SlicesInit ==
    /\ crd = FALSE
    /\ slices = [s \in Slice |-> NotThere]
    /\ writes = 0
    /\ options \in [Instance -> Options]
    /\ pass = [c \in Instance |-> Waiting]

Write(s, slice) ==
    /\ writes < MaxWrites
    /\ writes' = writes + 1
    /\ slices' = [slices EXCEPT ![s] = [slice EXCEPT !.rv = writes + 1]]

-----------------------------------------------------------------------------
(* The provider and the operator (external). *)
ApplyKind ==
    /\ ~crd
    /\ crd' = TRUE
    /\ UNCHANGED <<slices, writes, options, pass>>

(* A slice is made without endpoints; its export may be changed. *)
WriteSlice(s, e) ==
    /\ crd
    /\ slices[s].export # e \/ slices[s].rv = Absent
    /\ Write(s, [slices[s] EXCEPT !.export = e])
    /\ UNCHANGED <<crd, options, pass>>

DeleteSlice(s) ==
    /\ slices[s].rv # Absent
    /\ slices' = [slices EXCEPT ![s] = NotThere]
    /\ UNCHANGED <<crd, writes, options, pass>>

Restart(c, o) ==
    /\ options' = [options EXCEPT ![c] = o]
    /\ pass' = [pass EXCEPT ![c] = Waiting]
    /\ UNCHANGED <<crd, slices, writes>>

-----------------------------------------------------------------------------
(* Sync: a kind that is not there is no failure, nor is there work. *)
List(c) ==
    /\ pass[c].step = "waiting"
    /\ pass' = [pass EXCEPT ![c] =
          [step |-> "publishing", listed |-> slices, clean |-> TRUE,
           todo |-> {s \in Slice : slices[s].rv # Absent},
           left |-> [s \in Slice |-> slices[s].rv]]]
    /\ crd
    /\ UNCHANGED <<crd, slices, writes, options>>

Matches(o, slice) == o.export \in {AnyExport, slice.export}

(* URLFor and shardSelector, and the default Publish adds. *)
URLFor(o, slice) ==
    (IF o.prefix = <<>> THEN <<"">> ELSE o.prefix) \o <<o.name, Workspace, slice.export>>

Selected(o) == IF o.shards = NoShards THEN MatchAll ELSE o.shards

Endpoint(o, slice) == [host |-> o.host, url |-> URLFor(o, slice), shards |-> Selected(o)]

MutEqualURLs(slice, endpoint) ==
    Len(slice.endpoints) = 1 /\ slice.endpoints[1].url = endpoint.url

equalEndpoints(slice, endpoint) == slice.endpoints = <<endpoint>>

(* Publish, for a slice as it was listed.  An update of a slice that has   *)
(* changed meanwhile is refused, one of a slice that is gone is no failure. *)
Publish(c, s) ==
    LET was == pass[c].listed[s]
        endpoint == Endpoint(options[c], was)
        failed == pass' = [pass EXCEPT ![c].todo = @ \ {s}, ![c].clean = FALSE]
        fine == pass' = [pass EXCEPT ![c].todo = @ \ {s}]
    IN  /\ s \in pass[c].todo
        /\ \/ ~Matches(options[c], was) /\ fine /\ UNCHANGED <<slices, writes>>
           \/ Matches(options[c], was) /\ was.export = NoName /\ failed /\ UNCHANGED <<slices, writes>>
           \/ /\ Matches(options[c], was) /\ was.export # NoName
              /\ \/ equalEndpoints(was, endpoint) /\ fine /\ UNCHANGED <<slices, writes>>
                 \/ /\ ~equalEndpoints(was, endpoint)
                    /\ \/ slices[s].rv = Absent /\ fine /\ UNCHANGED <<slices, writes>>
                       \/ /\ slices[s].rv = was.rv
                          /\ Write(s, [slices[s] EXCEPT !.endpoints = <<endpoint>>])
                          /\ pass' = [pass EXCEPT ![c].todo = @ \ {s}, ![c].left[s] = writes']
                       \/ failed /\ UNCHANGED <<slices, writes>>
        /\ UNCHANGED <<crd, options>>

(* The pass is over until the next tick. *)
Tick(c) ==
    /\ pass[c].step = "publishing" /\ pass[c].todo = {}
    /\ pass' = [pass EXCEPT ![c] = Waiting]
    /\ UNCHANGED <<crd, slices, writes, options>>

SlicesNext ==
    \/ ApplyKind
    \/ \E s \in Slice : DeleteSlice(s) \/ \E e \in Exports \cup {NoName} : WriteSlice(s, e)
    \/ \E c \in Instance, o \in Options : Restart(c, o)
    \/ \E c \in Instance : List(c) \/ Tick(c) \/ \E s \in Slice : Publish(c, s)

-----------------------------------------------------------------------------
(* What a shard asks of a published URL, and what the virtual workspace    *)
(* takes it for: the export the request is for, or NoName.                 *)
Requested(url) == url \o <<"clusters", Target, "apis">>

digestURL(path) ==
    LET mount == ServerPrefix \o <<ServerName>>
        rest == SubSeq(path, Len(mount) + 1, Len(path))
    IN  IF /\ IsPrefix(mount, path)
           /\ Len(rest) >= 4 /\ rest[1] # "" /\ rest[2] # "" /\ rest[3] = "clusters"
        THEN [cluster |-> rest[1], name |-> rest[2]]
        ELSE [cluster |-> NoName, name |-> NoName]

(* A slice leads the shards a controller was started for, and only these,  *)
(* to the export it is for - if the controller was told where the virtual  *)
(* workspace is, and that is not the root of the host.                     *)
LeadsToExport(o, slice) ==
    /\ Len(slice.endpoints) = 1
    /\ LET e == slice.endpoints[1] IN
       /\ e.host = o.host
       /\ e.shards = (IF o.shards = NoShards THEN MatchAll ELSE o.shards)
       /\ (o.prefix = ServerPrefix /\ o.name = ServerName /\ o.prefix # <<>>) =>
              digestURL(Requested(e.url)) = [cluster |-> Workspace, name |-> slice.export]

(* A pass that reports no failure leaves each slice it was for, unless     *)
(* that was changed since, leading to its export: also a slice that led    *)
(* elsewhere before a restart, or was written by another controller        *)
(* (Sync, Publish, equalEndpoints, URLFor and the server's digestURL).     *)
CleanPassPublishes ==
    \A c \in Instance :
        pass[c].step = "publishing" /\ pass[c].todo = {} /\ pass[c].clean =>
            \A s \in Slice :
                /\ pass[c].listed[s].rv # Absent
                /\ Matches(options[c], pass[c].listed[s])
                /\ slices[s].rv = pass[c].left[s]
                => LeadsToExport(options[c], slices[s])
=============================================================================

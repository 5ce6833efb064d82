-------------------------- MODULE DefinitionCache ---------------------------
(***************************************************************************)
(* The API definitions of the ephemeral virtual workspace                  *)
(* (ephemeral/pkg/virtualworkspace/apidefinitions): a set of definitions   *)
(* per APIExport, built on demand from the export and its schema and kept  *)
(* until either has another resource version.  Requests run concurrently,  *)
(* read the listers at different moments and build outside the lock; a set *)
(* that is replaced or lost the race has to be torn down.                  *)
(*                                                                         *)
(* What a set contains follows from the versions it was built from, so a   *)
(* set is identified by these and the number of its build.                 *)
(***************************************************************************)
EXTENDS Naturals

CONSTANTS
    Request,     \* request handlers
    Key,         \* API domain keys, one for each served APIExport
    NoSet,       \* no cache entry
    MaxChanges,  \* bound on changes of the informers' objects
    MaxBuilds    \* bound on builds

(* The version of an object that is not there. *)
Missing == 0

DefinitionSet == [build : Nat, key : Key, export : Nat, schema : Nat]

ASSUME NoSetAssumption == NoSet \notin DefinitionSet
ASSUME BoundAssumption == MaxChanges \in Nat /\ MaxBuilds \in Nat

VARIABLES
    version,     \* the last resource version given out
    export,      \* export[k]: the version of the APIExport the listers have
    schema,      \* schema[k]: the version of its APIResourceSchema
    configured,  \* whether SetServerConfig was called
    cached,      \* cached[k]: the set kept for k
    builds,      \* how many sets were built
    built,       \* every set that was built
    torn,        \* the sets that were torn down
    pc,          \* pc[r]: where request r is
    req,         \* req[r]: its key, what it read and the set it has
    during       \* history: during[r]: versions the listers had since r began

vars == <<version, export, schema, configured, cached, builds, built, torn, pc, req, during>>

Step == {"idle", "export", "schema", "lookup", "build", "install", "serving"}

TypeOK ==
    /\ version \in Nat
    /\ export \in [Key -> Nat]
    /\ schema \in [Key -> Nat]
    /\ configured \in BOOLEAN
    /\ cached \in [Key -> DefinitionSet \cup {NoSet}]
    /\ builds \in Nat
    /\ built \subseteq DefinitionSet
    /\ \A s \in built : s.build <= builds
    /\ torn \subseteq built
    /\ pc \in [Request -> Step]
    /\ req \in [Request -> [key : Key, export : Nat, schema : Nat,
                            set : DefinitionSet \cup {NoSet}]]
    /\ during \in [Request -> [exports : SUBSET Nat, schemas : SUBSET Nat]]

Init ==
    /\ version = 0
    /\ export = [k \in Key |-> Missing]
    /\ schema = [k \in Key |-> Missing]
    /\ configured = FALSE
    /\ cached = [k \in Key |-> NoSet]
    /\ builds = 0
    /\ built = {}
    /\ torn = {}
    /\ pc = [r \in Request |-> "idle"]
    /\ req \in [Request -> [key : Key, export : {Missing}, schema : {Missing}, set : {NoSet}]]
    /\ during = [r \in Request |-> [exports |-> {}, schemas |-> {}]]

-----------------------------------------------------------------------------
(* The informers: an object appears, changes or goes. *)
Updated(old) == {version + 1} \cup (IF old = Missing THEN {} ELSE {Missing})

ChangeExport(k) ==
    /\ version < MaxChanges
    /\ version' = version + 1
    /\ \E v \in Updated(export[k]) : export' = [export EXCEPT ![k] = v]
    /\ during' = [r \in Request |->
                    IF pc[r] # "idle" /\ req[r].key = k
                    THEN [during[r] EXCEPT !.exports = @ \cup {export'[k]}]
                    ELSE during[r]]
    /\ UNCHANGED <<schema, configured, cached, builds, built, torn, pc, req>>

ChangeSchema(k) ==
    /\ version < MaxChanges
    /\ version' = version + 1
    /\ \E v \in Updated(schema[k]) : schema' = [schema EXCEPT ![k] = v]
    /\ during' = [r \in Request |->
                    IF pc[r] # "idle" /\ req[r].key = k
                    THEN [during[r] EXCEPT !.schemas = @ \cup {schema'[k]}]
                    ELSE during[r]]
    /\ UNCHANGED <<export, configured, cached, builds, built, torn, pc, req>>

SetServerConfig ==
    /\ ~configured
    /\ configured' = TRUE
    /\ UNCHANGED <<version, export, schema, cached, builds, built, torn, pc, req, during>>

-----------------------------------------------------------------------------
Goto(r, step) == pc' = [pc EXCEPT ![r] = step]

objects == <<version, export, schema, configured>>
store == <<cached, builds, built, torn>>

Begin(r, k) ==
    /\ pc[r] = "idle"
    /\ Goto(r, "export")
    /\ req' = [req EXCEPT ![r] = [key |-> k, export |-> Missing, schema |-> Missing, set |-> NoSet]]
    /\ during' = [during EXCEPT ![r] = [exports |-> {export[k]}, schemas |-> {schema[k]}]]
    /\ UNCHANGED <<objects, store>>

(* An export that is not there, or that no entry of the configuration      *)
(* names, is not served; any other error of the lister ends the request.   *)
GetAPIExport(r) ==
    LET e == export[req[r].key] IN
    /\ pc[r] = "export"
    /\ \/ e # Missing /\ Goto(r, "schema")
       \/ Goto(r, "idle")
    /\ req' = [req EXCEPT ![r].export = e]
    /\ UNCHANGED <<objects, store, during>>

(* A schema that is not there leaves its resource out of the set. *)
Resolve(r) ==
    /\ pc[r] = "schema"
    /\ \/ Goto(r, "lookup") \/ Goto(r, "idle")
    /\ req' = [req EXCEPT ![r].schema = schema[req[r].key]]
    /\ UNCHANGED <<objects, store, during>>

(* Whether a set was built from what request r resolved. *)
MutSameExport(set, r) == set # NoSet /\ set.export = req[r].export

SameRevision(set, r) ==
    /\ set # NoSet
    /\ set.export = req[r].export
    /\ set.schema = req[r].schema

LookUp(r) ==
    LET found == cached[req[r].key] IN
    /\ pc[r] = "lookup"
    /\ IF SameRevision(found, r)
       THEN Goto(r, "serving") /\ req' = [req EXCEPT ![r].set = found]
       ELSE Goto(r, IF configured THEN "build" ELSE "idle") /\ UNCHANGED req
    /\ UNCHANGED <<objects, store, during>>

(* A build that fails tears down what it had made of the set. *)
Build(r) ==
    /\ pc[r] = "build"
    /\ \/ LET set == [build |-> builds + 1, key |-> req[r].key,
                      export |-> req[r].export, schema |-> req[r].schema]
          IN  /\ builds < MaxBuilds
              /\ builds' = builds + 1
              /\ built' = built \cup {set}
              /\ req' = [req EXCEPT ![r].set = set]
              /\ Goto(r, "install")
       \/ Goto(r, "idle") /\ UNCHANGED <<builds, built, req>>
    /\ UNCHANGED <<objects, cached, torn, during>>

(* Under the lock: a set that another request has installed meanwhile is   *)
(* used in place of this one; otherwise this one replaces what is there.   *)
MutInstallLeaks(r) ==
    /\ pc[r] = "install"
    /\ cached' = [cached EXCEPT ![req[r].key] = req[r].set]
    /\ Goto(r, "serving")
    /\ UNCHANGED <<objects, builds, built, torn, req, during>>

MutTearDownExisting(r) ==
    LET mine == req[r].set
        existing == cached[req[r].key]
    IN  /\ pc[r] = "install"
        /\ torn' = torn \cup ({existing} \ {NoSet})
        /\ IF SameRevision(existing, r)
           THEN /\ req' = [req EXCEPT ![r].set = existing]
                /\ UNCHANGED cached
           ELSE /\ cached' = [cached EXCEPT ![req[r].key] = mine]
                /\ UNCHANGED req
        /\ Goto(r, "serving")
        /\ UNCHANGED <<objects, builds, built, during>>

Install(r) ==
    LET mine == req[r].set
        existing == cached[req[r].key]
    IN  /\ pc[r] = "install"
        /\ IF SameRevision(existing, r)
           THEN /\ torn' = torn \cup {mine}
                /\ req' = [req EXCEPT ![r].set = existing]
                /\ UNCHANGED cached
           ELSE /\ torn' = torn \cup ({existing} \ {NoSet})
                /\ cached' = [cached EXCEPT ![req[r].key] = mine]
                /\ UNCHANGED req
        /\ Goto(r, "serving")
        /\ UNCHANGED <<objects, builds, built, during>>

Served(r) ==
    /\ pc[r] = "serving"
    /\ Goto(r, "idle")
    /\ UNCHANGED <<objects, store, req, during>>

Next ==
    \/ \E k \in Key : ChangeExport(k) \/ ChangeSchema(k)
    \/ SetServerConfig
    \/ \E r \in Request, k \in Key : Begin(r, k)
    \/ \E r \in Request : \/ GetAPIExport(r) \/ Resolve(r) \/ LookUp(r)
                          \/ Build(r) \/ Install(r) \/ Served(r)

Spec == Init /\ [][Next]_vars

-----------------------------------------------------------------------------
(* The sets in use: kept in the cache or about to be installed. *)
Owned == {cached[k] : k \in Key} \ {NoSet}

Pending == {req[r].set : r \in {q \in Request : pc[q] = "install"}}

(* Exactly the sets in use are up: no race of builds leaves one behind     *)
(* that nobody tears down, or tears down the one in the cache.             *)
NothingLeaks == built \ torn = Owned \cup Pending

(* A request is answered with the export and the schema as the listers had *)
(* them at some moment of the request, never with an older set that a slow *)
(* builder has put into the cache.                                         *)
AnswersAreCurrent ==
    \A r \in Request : pc[r] = "serving" =>
        /\ req[r].set.key = req[r].key
        /\ req[r].set.export \in during[r].exports
        /\ req[r].set.schema \in during[r].schemas

(* No request is handed a set that is already torn down. *)
HandedOut == \A r \in Request : pc[r] # "serving" /\ pc'[r] = "serving" => req'[r].set \notin torn'

HandedOutLive == [][HandedOut]_vars

(* Each pending set belongs to one request and is not in the cache. *)
OwnersDistinct ==
    \A r \in Request : pc[r] = "install" =>
        /\ req[r].set \in built \ torn
        /\ \A k \in Key : cached[k] # req[r].set
        /\ \A q \in Request : pc[q] = "install" /\ req[q].set = req[r].set => q = r

BuiltFrom(r) ==
    /\ req[r].set.key = req[r].key
    /\ req[r].set.export = req[r].export
    /\ req[r].set.schema = req[r].schema

(* What a request has read was there during the request, and what it has   *)
(* built is made of it.                                                    *)
ReadsAreCurrent ==
    \A r \in Request :
        /\ pc[r] # "idle" => /\ export[req[r].key] \in during[r].exports
                             /\ schema[req[r].key] \in during[r].schemas
        /\ pc[r] \in {"schema", "lookup", "build", "install", "serving"} =>
               req[r].export \in during[r].exports
        /\ pc[r] \in {"lookup", "build", "install", "serving"} =>
               req[r].schema \in during[r].schemas
        /\ pc[r] = "install" => BuiltFrom(r)

(* A set in the cache is up and was built for its key. *)
CacheIsKeyed == \A k \in Key : cached[k] # NoSet => cached[k] \in built \ torn /\ cached[k].key = k

(* The inductive invariant. *)
CacheInv ==
    TypeOK /\ NothingLeaks /\ OwnersDistinct /\ CacheIsKeyed /\ ReadsAreCurrent /\ AnswersAreCurrent
=============================================================================

-------------------------- MODULE EphemeralRequest --------------------------
(***************************************************************************)
(* One create of an ephemeral resource: the content authorizer reads       *)
(* listers and may ask kcp, the definition set is taken from the cache     *)
(* (DefinitionCache), and the storage asks the provider's webhook once.    *)
(* Bindings, exports, schemas and permissions change all the while, and a  *)
(* reply may come late, be another's, or not fit the schema.               *)
(*                                                                         *)
(* A schema is its version, and an object the version it was made for.     *)
(* Discovery changes nothing, another verb is refused before anything is   *)
(* read, and both are left out; so are name, namespace and user of a       *)
(* review, and the status codes of refusals, on which nothing depends.     *)
(*                                                                         *)
(* The server may be stopped at any moment and started with another        *)
(* configuration file; what it was doing is gone, the reviews it sent are  *)
(* still answered.                                                         *)
(***************************************************************************)
EXTENDS Naturals, Sequences

CONSTANTS
    Handler,        \* request handlers of the virtual workspace
    Consumer,       \* logical clusters that bind exports
    Provider,       \* logical clusters with exports
    ExportName,
    Resource,
    PathOf,         \* PathOf[c]: the path of a provider's workspace
    File,           \* configuration files: sequences of entries, which have
                    \* the path, name and resource they are for and a webhook
    RequireExportContent,
    MaxEdits,       \* bound on changes by consumers and providers
    MaxReviews      \* bound on calls of the webhook

Wildcard == "*"
OwnWorkspace == ""
Gone == 0

(* A path that is a cluster's name, as that of the root is, leads there.   *)
ASSUME PathAssumption ==
    \A p \in Provider, c \in Consumer \cup Provider : PathOf[p] = c => p = c
ASSUME OptionsAssumption == RequireExportContent \in BOOLEAN /\ MaxEdits \in Nat /\ MaxReviews \in Nat

DomainKey == [cluster : Provider, name : ExportName]
Ref == [cluster : Consumer, name : ExportName, resource : Resource,
        path : {OwnWorkspace} \cup Provider \cup {PathOf[p] : p \in Provider}]

VARIABLES
    exported,   \* exported[k]: the version of the schema of export k, or Gone
    bindings,   \* what is bound: references of bindings with a bound resource
    content,    \* the exports whose content the callers may create
    edits,
    server,     \* whether the server is down, syncs its informers or serves
    entries,    \* the entries of its configuration
    sent,       \* the reviews sent: their UIDs are 1 .. sent
    replies,    \* what the webhook has replied
    at, ask,    \* where handler h is and what it was asked
    seen,       \* history: what held at some moment of h's request
    told        \* the reply h answers with, once it has one

objectsVars == <<exported, bindings, content, edits>>
serverVars == <<server, entries>>
webhookVars == <<sent, replies>>
handlerVars == <<at, ask, seen, told>>
requestVars == <<objectsVars, serverVars, webhookVars, handlerVars>>

NotAsked == [uid |-> 0]
NotSeen == [bound |-> FALSE, content |-> FALSE, schemas |-> {}]
Nothing == [uid |-> 0, allowed |-> FALSE, object |-> Gone]

RequestInit ==
    /\ exported = [k \in DomainKey |-> 1]
    /\ bindings = {}
    /\ content \in SUBSET DomainKey
    /\ edits = 0
    /\ server = "down"
    /\ entries = {}
    /\ sent = 0
    /\ replies = {}
    /\ at = [h \in Handler |-> "idle"]
    /\ ask = [h \in Handler |-> NotAsked]
    /\ seen = [h \in Handler |-> NotSeen]
    /\ told = [h \in Handler |-> Nothing]

-----------------------------------------------------------------------------
(* The cluster a binding's path names, as kcp resolves it. *)
Names(b, c) ==
    \/ b.path = OwnWorkspace /\ b.cluster = c
    \/ b.path = c
    \/ b.path = PathOf[c]

BoundTo(refs, a) ==
    \E b \in refs : /\ b.cluster = a.target /\ b.name = a.key.name
                    /\ b.resource = a.resource /\ Names(b, a.key.cluster)

(* What the requests under way have now seen. *)
Watched ==
    seen' = [h \in Handler |->
        IF at[h] = "idle" THEN seen[h]
        ELSE [bound |-> seen[h].bound \/ BoundTo(bindings', ask[h]),
              content |-> seen[h].content \/ ask[h].key \in content',
              schemas |-> seen[h].schemas \cup {exported'[ask[h].key]}]]

Edit ==
    /\ edits < MaxEdits
    /\ edits' = edits + 1
    /\ Watched
    /\ UNCHANGED <<serverVars, webhookVars, at, ask, told>>

ChangeBinding(b) ==
    /\ bindings' = IF b \in bindings THEN bindings \ {b} ELSE bindings \cup {b}
    /\ UNCHANGED <<exported, content>>
    /\ Edit

ChangeExported(k) ==
    /\ \E v \in {Gone, edits + 2} : v # exported[k] /\ exported' = [exported EXCEPT ![k] = v]
    /\ UNCHANGED <<bindings, content>>
    /\ Edit

ChangeContent(k) ==
    /\ RequireExportContent
    /\ content' = IF k \in content THEN content \ {k} ELSE content \cup {k}
    /\ UNCHANGED <<exported, bindings>>
    /\ Edit

-----------------------------------------------------------------------------
(* An address with https, a host and nothing else, which is one kind of    *)
(* URL here, and a certificate together with its key.                      *)
validateWebhook(w) ==
    /\ w.url = "https"
    /\ (w.cert = "") <=> (w.key = "")
    /\ w.timeoutSeconds \in 0 .. 30

(* Load, with Validate: every entry is complete and no two are for the     *)
(* same - as they are written, which an export's path and cluster are not. *)
Valid(file) ==
    /\ file # <<>>
    /\ \A i \in DOMAIN file :
        /\ "" \notin {file[i].path, file[i].name, file[i].resource}
        /\ validateWebhook(file[i].webhook)
        /\ \A j \in DOMAIN file \ {i} : \/ file[i].path # file[j].path
                                         \/ file[i].name # file[j].name
                                         \/ file[i].resource # file[j].resource

(* Factory.New reads the certificates when the server starts. *)
Buildable(w) == "unreadable" \notin {w.ca, w.cert}

(* The process dies, with every request it had. *)
Stop ==
    /\ server # "down"
    /\ edits < MaxEdits
    /\ edits' = edits + 1
    /\ server' = "down"
    /\ entries' = {}
    /\ at' = [h \in Handler |-> "idle"]
    /\ ask' = [h \in Handler |-> NotAsked]
    /\ seen' = [h \in Handler |-> NotSeen]
    /\ told' = [h \in Handler |-> Nothing]
    /\ UNCHANGED <<exported, bindings, content, webhookVars>>

(* Run: a file that is not valid, or names what cannot be read, is the end *)
(* of it.                                                                  *)
Start(file) ==
    /\ server = "down"
    /\ Valid(file)
    /\ \A i \in DOMAIN file : Buildable(file[i].webhook)
    /\ server' = "syncing"
    /\ entries' = {file[i] : i \in DOMAIN file}
    /\ UNCHANGED <<objectsVars, webhookVars, handlerVars>>

(* Nothing is served before every informer has synced. *)
Synced ==
    /\ server = "syncing"
    /\ server' = "serving"
    /\ UNCHANGED <<objectsVars, entries, webhookVars, handlerVars>>

Proceed(h, step) ==
    /\ at' = [at EXCEPT ![h] = step]
    /\ UNCHANGED <<seen, told>>

AnswerWith(h, reply) ==
    /\ at' = [at EXCEPT ![h] = "answered"]
    /\ told' = [told EXCEPT ![h] = reply]
    /\ UNCHANGED <<ask, seen>>

(* The request is over: an error is returned, or the answer was. *)
End(h) ==
    /\ at' = [at EXCEPT ![h] = "idle"]
    /\ ask' = [ask EXCEPT ![h] = NotAsked]
    /\ seen' = [seen EXCEPT ![h] = NotSeen]
    /\ told' = [told EXCEPT ![h] = Nothing]

(* What digestURL has found: an export, a target and a resource. *)
Receive(h, k, target, r) ==
    LET a == [key |-> k, target |-> target, resource |-> r, schema |-> Gone, uid |-> 0]
    IN  /\ server = "serving"
        /\ at[h] = "idle"
        /\ at' = [at EXCEPT ![h] = "authorize"]
        /\ ask' = [ask EXCEPT ![h] = a]
        /\ seen' = [seen EXCEPT ![h] = [bound |-> BoundTo(bindings, a), content |-> k \in content,
                                        schemas |-> {exported[k]}]]
        /\ UNCHANGED <<objectsVars, serverVars, webhookVars, told>>

(* The entries for an export are those under its cluster or, if there are  *)
(* none, those under its path.                                             *)
EntriesUnder(path, name) ==
    {e.resource : e \in {x \in entries : x.path = path /\ x.name = name}}

entriesFor(k) ==
    IF EntriesUnder(k.cluster, k.name) # {} THEN EntriesUnder(k.cluster, k.name)
    ELSE EntriesUnder(PathOf[k.cluster], k.name)

MutAnyWorkspace(target, k, r) ==
    \E b \in bindings : b.cluster = target /\ b.name = k.name /\ b.resource = r

hasBinding(target, k, r) ==
    \E b \in bindings :
        LET path == IF b.path = OwnWorkspace THEN b.cluster ELSE b.path
        IN  /\ b.cluster = target /\ b.name = k.name
            /\ path \in {k.cluster, PathOf[k.cluster]}
            /\ b.resource = r

Authorize(h) ==
    LET a == ask[h]
        allowed == /\ exported[a.key] # Gone /\ entriesFor(a.key) # {}
                   /\ a.target # Wildcard
                   /\ hasBinding(a.target, a.key, a.resource)
    IN  /\ at[h] = "authorize"
        /\ \/ /\ allowed
              /\ Proceed(h, IF RequireExportContent THEN "content" ELSE "definitions")
              /\ UNCHANGED ask
           \/ End(h)
        /\ UNCHANGED <<objectsVars, serverVars, webhookVars>>

(* A delegated authorizer is made for each request, so its cache is empty. *)
AuthorizeContent(h) ==
    /\ at[h] = "content"
    /\ \/ ask[h].key \in content /\ Proceed(h, "definitions") /\ UNCHANGED ask
       \/ End(h)
    /\ UNCHANGED <<objectsVars, serverVars, webhookVars>>

(* DefinitionCache!AnswersAreCurrent: the set is one of the request's time. *)
GetDefinition(h) ==
    /\ at[h] = "definitions"
    /\ \/ \E v \in seen[h].schemas :
            /\ v # Gone /\ ask[h].resource \in entriesFor(ask[h].key)
            /\ Proceed(h, "create")
            /\ ask' = [ask EXCEPT ![h].schema = v]
       \/ End(h)
    /\ UNCHANGED <<objectsVars, serverVars, webhookVars>>

(* Create as far as the call: admission first, then a review of its own    *)
(* UID.  The call is made once, whatever comes of it.                      *)
Create(h) ==
    /\ at[h] = "create"
    /\ \/ /\ sent < MaxReviews
          /\ sent' = sent + 1
          /\ ask' = [ask EXCEPT ![h].uid = sent + 1]
          /\ Proceed(h, "webhook")
       \/ End(h) /\ UNCHANGED sent
    /\ UNCHANGED <<objectsVars, serverVars, replies>>

(* The webhook (external): a reply names the review it answers.  It may    *)
(* come after the call was given up, and the schema it knows may be any.   *)
Verdict == [allowed : {FALSE}, object : {Gone}] \cup [allowed : {TRUE}, object : 0 .. (edits + 1)]

WebhookReplies(uid, verdict) ==
    /\ uid \in 1 .. sent
    /\ \A y \in replies : y.uid # uid
    /\ replies' = replies \cup {[uid |-> uid, allowed |-> verdict.allowed, object |-> verdict.object]}
    /\ UNCHANGED <<objectsVars, serverVars, sent, handlerVars>>

(* Client.Call: the reply that comes over the connection is taken only if  *)
(* it has the review's UID.                                                *)
Accepted(h) == {y \in replies : y.uid = ask[h].uid}

(* The rest of Create: a denial is passed on, an object is returned only   *)
(* if it is there and fits the schema of the definition that serves the    *)
(* request, and anything else that came, or nothing in time, is an error.  *)
Conforms(object, version) == object # Gone /\ object = version

Answer(h) ==
    /\ at[h] = "webhook"
    /\ \/ \E y \in Accepted(h) :
            /\ y.allowed => Conforms(y.object, ask[h].schema)
            /\ AnswerWith(h, y)
       \/ End(h)
    /\ UNCHANGED <<objectsVars, serverVars, webhookVars>>

Return(h) ==
    /\ at[h] = "answered"
    /\ End(h)
    /\ UNCHANGED <<objectsVars, serverVars, webhookVars>>

RequestNext ==
    \/ \E b \in Ref : ChangeBinding(b)
    \/ \E k \in DomainKey : ChangeExported(k) \/ ChangeContent(k)
    \/ \E file \in File : Start(file)
    \/ Synced \/ Stop
    \/ \E h \in Handler, k \in DomainKey, t \in Consumer \cup {Wildcard}, r \in Resource : Receive(h, k, t, r)
    \/ \E h \in Handler : \/ Authorize(h) \/ AuthorizeContent(h) \/ GetDefinition(h)
                          \/ Create(h) \/ Answer(h) \/ Return(h)
    \/ \E uid \in 1 .. MaxReviews, verdict \in Verdict : WebhookReplies(uid, verdict)

-----------------------------------------------------------------------------
(* The webhook is called, in the name of a workspace, only for an export   *)
(* that this workspace had bound with that resource, and only for a caller *)
(* with access to its content, at some moment of the request - not for     *)
(* another export of the same name (hasBinding), and only for what the     *)
(* running server is configured for.                                       *)
CalledOnlyForTheBound ==
    \A h \in Handler : at[h] = "webhook" =>
        /\ seen[h].bound
        /\ RequireExportContent => seen[h].content
        /\ \E e \in entries : /\ e.path \in {ask[h].key.cluster, PathOf[ask[h].key.cluster]}
                              /\ e.name = ask[h].key.name /\ e.resource = ask[h].resource

(* What a caller is told is the reply to its own review, and an object it  *)
(* is given fits a schema that was in force during its request, however    *)
(* late or mixed up the replies are (Client.Call, REST.Create).            *)
AnswersAreTheirOwn ==
    \A h \in Handler : at[h] = "answered" =>
        /\ told[h].uid = ask[h].uid
        /\ told[h].allowed => told[h].object \in seen[h].schemas \ {Gone}

(* A request reaches a webhook only with a binding and permission, and its *)
(* answer is its own (Authorize, Client.Call).                             *)
RequestInv == CalledOnlyForTheBound /\ AnswersAreTheirOwn
=============================================================================

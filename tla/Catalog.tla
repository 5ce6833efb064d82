------------------------------- MODULE Catalog -------------------------------
(***************************************************************************)
(* The marketplace catalog: four controllers mirror Producer records,      *)
(* APIExports, ConfigMaps and APIResourceSchemas of many workspaces into   *)
(* one directory; a browse joins what it finds there into offerings; a     *)
(* consumer enables an offering with the APIBinding its entry describes.   *)
(*                                                                         *)
(* An object here is what a controller's cache holds of it, so a change    *)
(* and its event are one step.  An export's permission claims are one      *)
(* value, which stands for the digest of them too.                         *)
(***************************************************************************)
EXTENDS Integers, FiniteSets

CONSTANTS
  Home,         \* the cluster of the Producer records
  Cluster,      \* clusters that have bound the publish export
  PathOf,       \* [Cluster -> the canonical path of its workspace]
  NoCluster,
  Namespace,    \* where ConfigMaps live
  Producer,     \* names of Producer records
  Claims,       \* what an export may claim
  MaxChanges,   \* bound: changes of objects, and unbindings
  MaxRestarts   \* bound: restarts of the server

Path == {PathOf[c] : c \in Cluster}

\* One export, one schema and the ConfigMap of one name per cluster.
Item == [kind : {"producer"}, cluster : {Home}, ns : {"-"}, name : Producer]
        \cup [kind : {"export", "schema"}, cluster : Cluster, ns : {"-"}, name : {"db"}]
        \cup [kind : {"instructions"}, cluster : Cluster, ns : Namespace, name : {"db"}]
Kind == {"producer", "export", "schema", "instructions"}

\* What the directory knows of an object besides its name: a record's status,
\* whether an export is published and what it claims, a text or schema.
Record == [spec : Path, path : Path, cluster : Cluster \cup {NoCluster}]
Card == [published : BOOLEAN, claims : Claims, from : Cluster]
Text == [version : {1, 2}]
Absent == [absent |-> TRUE]
Content(i) ==
  CASE i.kind = "producer" -> Record
    [] i.kind = "export" -> [published : BOOLEAN, claims : Claims, from : {i.cluster}]
    [] OTHER -> Text

Key(i) == [kind |-> i.kind, cluster |-> i.cluster, name |-> i.name]
Keys == {Key(i) : i \in Item}
Idle == Absent

ASSUME CatalogAssumption ==
  /\ Home \notin Cluster /\ NoCluster \notin Cluster
  /\ \A c, d \in Cluster : PathOf[c] = PathOf[d] => c = d
  /\ Claims # {} /\ MaxChanges \in Nat /\ MaxRestarts \in Nat

VARIABLES
  obj,       \* [Item -> its content, or Absent]
  engaged,   \* clusters whose objects the server sees
  queue,     \* items to reconcile
  work,      \* [Kind -> the item its one worker has read, and what it read]
  dir,       \* [Keys -> what is mirrored, or Absent]
  ready,     \* the directory answers
  consumer,  \* a consumer's enable: the entry it read, and the binding it made
  changes, restarts,
  edited,    \* history: records whose path was edited
  left       \* history: clusters that have unbound the export

mirrored == <<queue, work, dir, ready>>
vars == <<obj, engaged, mirrored, consumer, changes, restarts, edited, left>>

\* What a controller lists when it starts to watch.
Existing == {i \in Item : obj[i] # Absent}

NoEntry == Absent

Value == (UNION {Content(i) : i \in Item}) \cup {Absent}

TypeOK ==
  /\ obj \in [Item -> Value] /\ \A i \in Item : obj[i] \in Content(i) \cup {Absent}
  /\ dir \in [Keys -> Value]
  /\ engaged \subseteq Cluster \cup {Home} /\ queue \subseteq Item
  /\ \A k \in Kind :
       work[k] # Idle => /\ work[k] \in [item : Item, value : Value]
                         /\ work[k].item.kind = k
  /\ DOMAIN work = Kind /\ ready \in BOOLEAN

-----------------------------------------------------------------------------
\* The directory.
Upsert(k, value) == dir' = [dir EXCEPT ![k] = value]
Remove(k) == dir' = [dir EXCEPT ![k] = Absent]

\* Everything of a cluster goes, whichever export it has unbound.
Forgotten(c) == [k \in Keys |-> IF k.cluster = c THEN Absent ELSE dir[k]]

At(kind, c) == dir[[kind |-> kind, cluster |-> c, name |-> "db"]]

\* The records that name a cluster; a browse takes any one of them.
Owners(c) == {p \in Producer :
                LET r == dir[[kind |-> "producer", cluster |-> Home, name |-> p]]
                IN r # Absent /\ r.cluster = c}

\* The join: an offering is an export in a workspace some record names, with
\* the text and the schema found next to it.
CatalogOf(p, c) ==
  [producer |-> p, path |-> dir[[kind |-> "producer", cluster |-> Home, name |-> p]].path,
   claims |-> At("export", c).claims, from |-> c,
   instructions |-> At("instructions", c), schema |-> At("schema", c)]

Catalog == UNION {{CatalogOf(p, c) : p \in Owners(c)} :
                    c \in {d \in Cluster : At("export", d) # Absent}}

-----------------------------------------------------------------------------
\* What producers and platform admins do, and the operator after them.
Change(i, value) ==
  /\ obj' = [obj EXCEPT ![i] = value]
  /\ queue' = IF i.cluster \in engaged THEN queue \cup {i} ELSE queue
  /\ UNCHANGED <<engaged, work, dir, ready, consumer, restarts, left>>

Bounded == changes < MaxChanges /\ changes' = changes + 1

Edit(i, value) ==
  /\ i.kind # "producer" /\ value # obj[i]
  /\ Bounded /\ Change(i, value) /\ UNCHANGED edited

\* Another workspace is registered under the same record ...
EditRecord(i, path) ==
  /\ i.kind = "producer" /\ obj[i] # Absent /\ path # obj[i].spec
  /\ Bounded /\ Change(i, [obj[i] EXCEPT !.spec = path])
  /\ edited' = edited \cup {i.name}

\* ... which the operator takes over, with the cluster it has learned ...
Register(i) ==
  /\ i.kind = "producer" /\ obj[i] # Absent /\ obj[i].path # obj[i].spec
  /\ Change(i, [obj[i] EXCEPT !.path = obj[i].spec])
  /\ UNCHANGED <<changes, edited>>

\* Mutant: an export published anywhere teaches it a cluster.
MutantLearnsAny(i, c) ==
  LET e == obj[[kind |-> "export", cluster |-> c, ns |-> "-", name |-> "db"]] IN
  /\ i.kind = "producer" /\ obj[i] # Absent /\ obj[i].cluster # c
  /\ c \in engaged /\ e # Absent /\ e.published
  /\ Change(i, [obj[i] EXCEPT !.cluster = c])
  /\ UNCHANGED <<changes, edited>>

\* ... until an export published in the other workspace teaches it that one.
Learn(i, c) ==
  LET e == obj[[kind |-> "export", cluster |-> c, ns |-> "-", name |-> "db"]] IN
  /\ i.kind = "producer" /\ obj[i] # Absent /\ obj[i].path = PathOf[c] /\ obj[i].cluster # c
  /\ c \in engaged /\ e # Absent /\ e.published
  /\ Change(i, [obj[i] EXCEPT !.cluster = c])
  /\ UNCHANGED <<changes, edited>>

\* A workspace unbinds the export, and binds it again.
OnDelete(c) ==
  /\ c \in engaged \ {Home} /\ Bounded
  /\ engaged' = engaged \ {c}
  /\ dir' = Forgotten(c) /\ left' = left \cup {c}
  /\ UNCHANGED <<obj, queue, work, ready, consumer, restarts, edited>>

Engage(c) ==
  /\ c \in Cluster \ engaged
  /\ engaged' = engaged \cup {c}
  /\ queue' = queue \cup {i \in Existing : i.cluster = c}
  /\ UNCHANGED <<obj, work, dir, ready, consumer, changes, restarts, edited, left>>

-----------------------------------------------------------------------------
\* The mirrors.  A reconcile reads its object; a cluster that is gone is not
\* asked again.
GetFrom(i) ==
  /\ i \in queue /\ work[i.kind] = Idle
  /\ queue' = queue \ {i}
  /\ work' = IF i.cluster \in engaged
             THEN [work EXCEPT ![i.kind] = [item |-> i, value |-> obj[i]]] ELSE work
  /\ UNCHANGED <<obj, engaged, dir, ready, consumer, changes, restarts, edited, left>>

Done(k) ==
  /\ work' = [work EXCEPT ![k] = Idle]
  /\ UNCHANGED <<obj, engaged, queue, ready, consumer, changes, restarts, edited, left>>

MirrorProducer ==
  LET r == work["producer"] IN
  /\ r # Idle
  /\ IF r.value = Absent THEN Remove(Key(r.item)) ELSE Upsert(Key(r.item), r.value)
  /\ Done("producer")

\* Mutant: un-publishing is not noticed.
MutantKeepsUnpublished ==
  LET r == work["export"] IN
  /\ r # Idle
  /\ IF r.value = Absent THEN Remove(Key(r.item))
     ELSE IF r.value.published THEN Upsert(Key(r.item), r.value) ELSE UNCHANGED dir
  /\ Done("export")

\* An export that is not published is as good as none.
MirrorOffering ==
  LET r == work["export"] IN
  /\ r # Idle
  /\ IF r.value # Absent /\ r.value.published
     THEN Upsert(Key(r.item), r.value) ELSE Remove(Key(r.item))
  /\ Done("export")

\* Mutant: a deleted ConfigMap stays in the directory.
MutantKeepsInstructions ==
  LET r == work["instructions"] IN
  /\ r # Idle
  /\ IF r.value = Absent THEN UNCHANGED dir ELSE Upsert(Key(r.item), r.value)
  /\ Done("instructions")

MirrorInstructions ==
  LET r == work["instructions"] IN
  /\ r # Idle
  /\ IF r.value = Absent THEN Remove(Key(r.item)) ELSE Upsert(Key(r.item), r.value)
  /\ Done("instructions")

MirrorSchema ==
  LET r == work["schema"] IN
  /\ r # Idle
  /\ IF r.value = Absent THEN Remove(Key(r.item)) ELSE Upsert(Key(r.item), r.value)
  /\ Done("schema")

\* Ready as soon as it is known which clusters there are.
SetReady ==
  /\ ~ready /\ ready' = TRUE
  /\ UNCHANGED <<obj, engaged, queue, work, dir, consumer, changes, restarts, edited, left>>

Restart ==
  /\ restarts < MaxRestarts /\ restarts' = restarts + 1
  /\ dir' = [k \in Keys |-> Absent] /\ ready' = FALSE
  /\ work' = [k \in Kind |-> Idle]
  /\ queue' = {i \in Existing : i.cluster \in engaged}
  /\ UNCHANGED <<obj, engaged, consumer, changes, edited, left>>

-----------------------------------------------------------------------------
\* A consumer enables an offering: the entry is read ...
GetOffering(e) ==
  /\ ready /\ consumer = [entry |-> NoEntry, bindings |-> {}]
  /\ consumer' = [consumer EXCEPT !.entry = e]
  /\ UNCHANGED <<obj, engaged, mirrored, changes, restarts, edited, left>>

\* ... and its coordinates and claims become a binding, if kcp finds an
\* export there that everybody may bind.
CreateBinding ==
  LET e == consumer.entry IN
  /\ e # NoEntry
  /\ \E c \in Cluster :
       LET x == obj[[kind |-> "export", cluster |-> c, ns |-> "-", name |-> "db"]] IN
       /\ PathOf[c] = e.path
       /\ consumer' = [entry |-> NoEntry,
                       bindings |-> IF x # Absent /\ x.published
                                    THEN consumer.bindings \cup {[to |-> c, entry |-> e]}
                                    ELSE consumer.bindings]
  /\ UNCHANGED <<obj, engaged, mirrored, changes, restarts, edited, left>>

-----------------------------------------------------------------------------
\* A fresh server.  Records are as the operator leaves them, with the cluster
\* learned or not; one of the workspaces has published, with a text in one
\* namespace; what else there is comes later.
Init ==
  /\ \E home \in [Producer -> Cluster], learned \in SUBSET Producer,
       publisher \in Cluster, ns \in Namespace :
       obj = [i \in Item |->
         CASE i.kind = "producer" ->
                [spec |-> PathOf[home[i.name]], path |-> PathOf[home[i.name]],
                 cluster |-> IF i.name \in learned THEN home[i.name] ELSE NoCluster]
           [] i.kind = "export" /\ i.cluster = publisher ->
                [published |-> TRUE, claims |-> CHOOSE x \in Claims : TRUE, from |-> i.cluster]
           [] i.kind = "instructions" /\ i.cluster = publisher /\ i.ns = ns -> [version |-> 1]
           [] OTHER -> Absent]
  /\ engaged = Cluster \cup {Home}
  /\ queue = Existing
  /\ work = [k \in Kind |-> Idle]
  /\ dir = [k \in Keys |-> Absent]
  /\ ready = FALSE
  /\ consumer = [entry |-> NoEntry, bindings |-> {}]
  /\ changes = 0 /\ restarts = 0 /\ edited = {} /\ left = {}

Mirror == MirrorProducer \/ MirrorOffering \/ MirrorInstructions \/ MirrorSchema

Next ==
  \/ \E i \in Item :
       \/ \E value \in Content(i) \cup {Absent} : Edit(i, value)
       \/ \E path \in Path : EditRecord(i, path)
       \/ Register(i) \/ GetFrom(i)
       \/ \E c \in Cluster : Learn(i, c)
  \/ \E c \in Cluster : OnDelete(c) \/ Engage(c)
  \/ Mirror \/ SetReady \/ Restart
  \/ \E e \in Catalog : GetOffering(e)
  \/ CreateBinding

\* Each controller's worker keeps taking items and finishing them, and the
\* operator follows the records; nobody else has to do anything.
Take(k) == \E i \in Item : i.kind = k /\ GetFrom(i)
Fairness ==
  /\ WF_vars(Take("producer") \/ MirrorProducer)
  /\ WF_vars(Take("export") \/ MirrorOffering)
  /\ WF_vars(Take("instructions") \/ MirrorInstructions)
  /\ WF_vars(Take("schema") \/ MirrorSchema)
  /\ WF_vars(\E i \in Item : Register(i) \/ \E c \in Cluster : Learn(i, c))
  /\ WF_vars(SetReady)
Spec == Init /\ [][Next]_vars /\ Fairness

-----------------------------------------------------------------------------
\* What the catalog is to show of an object.
Seen(i, value) == IF i.kind = "export" /\ value # Absent /\ ~value.published THEN Absent ELSE value
Shown(i) == Seen(i, obj[i])

\* No mirror is silently behind (provider.go:115-227): of a workspace that has
\* never unbound the export, what the directory holds differs from the object
\* only while the object is queued or a worker holds its present content --
\* through edits, un-publishing, deletion and a restart of the server.  Of two
\* ConfigMaps of one name either may be the one held.
Pending(i) == i \in queue \/ (work[i.kind] # Idle /\ work[i.kind].item = i
                               /\ work[i.kind].value = obj[i])
MirrorsAreCurrent ==
  \A i \in Item : i.cluster \in engaged \ left =>
    \/ Pending(i) \/ dir[Key(i)] = Shown(i)
    \/ \E j \in Item \ {i} : Key(j) = Key(i)

\* What a worker has read of such an object is its present content, or the
\* object is queued again; and only clusters that have left are not engaged.
WorkIsFresh ==
  \A k \in Kind : work[k] # Idle /\ work[k].item.cluster \in engaged \ left =>
    work[k].item \in queue \/ work[k].value = obj[work[k].item]

GoneHaveLeft == (Cluster \cup {Home}) \ engaged \subseteq left

CatalogInv == TypeOK /\ GoneHaveLeft /\ WorkIsFresh /\ MirrorsAreCurrent

\* Enabling binds what the entry describes (directory.go:253-271,
\* offers.go:262-296): unless its record was moved to another workspace, the
\* export a binding reaches is the one whose claims the entry showed, however
\* old the entry was.
ConsentIsForTheExport ==
  \A b \in consumer.bindings :
    b.entry.producer \in edited \/ (b.to = b.entry.from /\ b.entry.path = PathOf[b.to])

\* The catalog settles on what is published (directory.go:235-291): when edits
\* end, an export is on it exactly if it is published in a workspace some record
\* has learned, with its present claims and schema, and with the instructions of
\* one of the ConfigMaps of that name.
CatalogIsRight ==
  /\ ready
  /\ \A c \in Cluster \cap (engaged \ left) :
       LET x == obj[[kind |-> "export", cluster |-> c, ns |-> "-", name |-> "db"]]
           s == obj[[kind |-> "schema", cluster |-> c, ns |-> "-", name |-> "db"]]
           owners == {i \in Existing : i.kind = "producer" /\ obj[i].cluster = c}
           shown == {e \in Catalog : e.from = c}
       IN /\ (shown # {}) <=> (x # Absent /\ x.published /\ owners # {})
          /\ \A e \in shown :
               /\ e.claims = x.claims /\ e.schema = s
               /\ \E i \in owners : e.producer = i.name /\ e.path = obj[i].path
               /\ \E n \in Namespace :
                    e.instructions = obj[[kind |-> "instructions", cluster |-> c, ns |-> n, name |-> "db"]]
CatalogSettles == <>[]CatalogIsRight

\* As directory.go:188-189 has it, of a workspace that has unbound the export
\* nothing is left behind once no mirror is at work on it.
LeavesNothingBehind ==
  \A k \in Keys : k.cluster \in left \ engaged
                  /\ (\A q \in Kind : work[q] = Idle \/ work[q].item.cluster # k.cluster)
                  => dir[k] = Absent
=============================================================================

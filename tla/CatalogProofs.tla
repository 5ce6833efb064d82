---------------------------- MODULE CatalogProofs ----------------------------
(***************************************************************************)
(* No mirror of the catalog is silently behind, for any number of          *)
(* workspaces, records, ConfigMaps and changes.                            *)
(*                                                                         *)
(* That a mirror is current or pending is not inductive by itself.  A      *)
(* worker that writes what it read overwrites a current mirror unless what *)
(* it read is the present content or the object is queued again            *)
(* (WorkIsFresh); and a cluster that is engaged anew must be one the       *)
(* claim has given up (GoneHaveLeft).                                      *)
(*                                                                         *)
(* The second part is what tenants' users ask for: for any commands,       *)
(* callers, seeds and deletions, a seed that ends well has made every      *)
(* grant it was asked for.  Its inductive invariant, TenancyIInv, says     *)
(* what a seed knows at each of its steps (SeedStep), and that whatever it *)
(* is to grant is still to do, or done unless somebody has undone it       *)
(* (SeedWants); whom it concerns when a grant is written or a tenant goes  *)
(* is settled once, in Elsewhere.                                          *)
(***************************************************************************)
EXTENDS Catalog, SelfService, SequenceTheorems, WellFoundedInduction, TLAPS

(* An object and its key are of one cluster and one kind. *)
LEMMA ItemFacts ==
    ASSUME NEW i \in Item
    PROVE  /\ i.kind \in Kind /\ i.cluster \in Cluster \cup {Home}
           /\ Key(i) \in Keys /\ Key(i).cluster = i.cluster
           /\ Content(i) \subseteq Value /\ Absent \in Value
  BY DEF Item, Kind, Key, Keys, Value

(* The initial states satisfy the invariant. *)
LEMMA CatalogStart == Init => CatalogInv
  <1> SUFFICES ASSUME Init PROVE CatalogInv
    OBVIOUS
  <1>1. \A i \in Item : obj[i] \in Content(i) \cup {Absent}
    <2>1. PICK home \in [Producer -> Cluster], learned \in SUBSET Producer,
               publisher \in Cluster, ns \in Namespace :
       obj = [i \in Item |->
         CASE i.kind = "producer" ->
                [spec |-> PathOf[home[i.name]], path |-> PathOf[home[i.name]],
                 cluster |-> IF i.name \in learned THEN home[i.name] ELSE NoCluster]
           [] i.kind = "export" /\ i.cluster = publisher ->
                [published |-> TRUE, claims |-> CHOOSE x \in Claims : TRUE, from |-> i.cluster]
           [] i.kind = "instructions" /\ i.cluster = publisher /\ i.ns = ns -> [version |-> 1]
           [] OTHER -> Absent]
      BY DEF Init
    <2> TAKE i \in Item
    <2>2. CASE i.kind = "producer"
      <3>1. home[i.name] \in Cluster
        BY <2>2 DEF Item
      <3>2. obj[i] = [spec |-> PathOf[home[i.name]], path |-> PathOf[home[i.name]],
                      cluster |-> IF i.name \in learned THEN home[i.name] ELSE NoCluster]
        BY <2>1, <2>2
      <3> QED
        BY <2>2, <3>1, <3>2 DEF Content, Record, Path
    <2>3. CASE i.kind # "producer"
      <3>1. CASE i.kind = "export" /\ i.cluster = publisher
        <4>1. obj[i] = [published |-> TRUE, claims |-> CHOOSE x \in Claims : TRUE,
                        from |-> i.cluster]
          BY <2>1, <3>1
        <4>2. (CHOOSE x \in Claims : TRUE) \in Claims
          BY CatalogAssumption
        <4> QED
          BY <3>1, <4>1, <4>2 DEF Content
      <3>2. CASE i.kind = "instructions" /\ i.cluster = publisher /\ i.ns = ns
        BY <2>1, <3>2 DEF Content, Text
      <3>3. CASE /\ ~(i.kind = "export" /\ i.cluster = publisher)
                 /\ ~(i.kind = "instructions" /\ i.cluster = publisher /\ i.ns = ns)
        BY <2>1, <2>3, <3>3
      <3> QED
        BY <3>1, <3>2, <3>3
    <2> QED
      BY <2>2, <2>3
  <1>2. obj \in [Item -> Value]
    <2>1. obj = [i \in Item |-> obj[i]]
      BY DEF Init
    <2> QED
      BY <1>1, <2>1, ItemFacts
  <1>3. /\ dir \in [Keys -> Value] /\ queue \subseteq Item /\ DOMAIN work = Kind
        /\ \A k \in Kind : work[k] = Idle
    BY DEF Init, Existing, Value
  <1>4. TypeOK
    BY <1>1, <1>2, <1>3 DEF TypeOK, Init
  <1>5. GoneHaveLeft /\ WorkIsFresh
    BY <1>3 DEF Init, GoneHaveLeft, WorkIsFresh
  <1>6. MirrorsAreCurrent
    BY ItemFacts DEF Init, MirrorsAreCurrent, Pending, Shown, Seen, Existing
  <1> QED
    BY <1>4, <1>5, <1>6 DEF CatalogInv

(* A changed object is queued if anybody watches it. *)
LEMMA ChangeStep ==
    ASSUME CatalogInv, NEW i \in Item, NEW value \in Content(i) \cup {Absent},
           Change(i, value)
    PROVE  CatalogInv'
  <1> USE DEF CatalogInv
  <1>1. /\ obj' = [obj EXCEPT ![i] = value]
        /\ queue \subseteq queue' /\ queue' \subseteq Item
        /\ i.cluster \in engaged => i \in queue'
        /\ UNCHANGED <<engaged, work, dir, ready, left>>
    BY DEF Change, TypeOK
  <1>2. obj' \in [Item -> Value] /\ \A j \in Item : obj'[j] \in Content(j) \cup {Absent}
    BY <1>1, ItemFacts DEF TypeOK
  <1>3. TypeOK'
    BY <1>1, <1>2 DEF TypeOK
  <1>4. \A j \in Item : j # i => obj'[j] = obj[j]
    BY <1>1 DEF TypeOK
  <1>5. GoneHaveLeft' /\ WorkIsFresh'
    <2>1. GoneHaveLeft'
      BY <1>1 DEF GoneHaveLeft
    <2>2. WorkIsFresh'
      BY <1>1, <1>4 DEF WorkIsFresh, TypeOK
    <2> QED
      BY <2>1, <2>2
  <1>6. MirrorsAreCurrent'
    <2> SUFFICES ASSUME NEW j \in Item, j.cluster \in engaged' \ left',
                        ~ \E k \in Item \ {j} : Key(k) = Key(j)
                 PROVE  Pending(j)' \/ dir'[Key(j)] = Shown(j)'
      BY DEF MirrorsAreCurrent
    <2>1. CASE j = i
      BY <1>1, <2>1 DEF Pending
    <2>2. CASE j # i
      BY <1>1, <1>4, <2>2 DEF MirrorsAreCurrent, Pending, Shown
    <2> QED
      BY <2>1, <2>2
  <1> QED
    BY <1>3, <1>5, <1>6

(* A workspace that unbinds takes its mirrors along, and nobody else's. *)
LEMMA OnDeleteStep ==
    ASSUME CatalogInv, NEW c \in Cluster, OnDelete(c)
    PROVE  CatalogInv'
  <1> USE DEF CatalogInv
  <1>1. /\ engaged' = engaged \ {c} /\ left' = left \cup {c}
        /\ dir' = [k \in Keys |-> IF k.cluster = c THEN Absent ELSE dir[k]]
        /\ UNCHANGED <<obj, queue, work, ready>>
    BY DEF OnDelete, Forgotten
  <1>2. TypeOK'
    BY <1>1 DEF TypeOK, Value
  <1>3. GoneHaveLeft' /\ WorkIsFresh'
    BY <1>1 DEF GoneHaveLeft, WorkIsFresh
  <1>4. MirrorsAreCurrent'
    <2> SUFFICES ASSUME NEW j \in Item, j.cluster \in engaged' \ left'
                 PROVE  \/ Pending(j)' \/ dir'[Key(j)] = Shown(j)'
                        \/ \E k \in Item \ {j} : Key(k) = Key(j)
      BY DEF MirrorsAreCurrent
    <2>1. j.cluster # c /\ j.cluster \in engaged \ left
      BY <1>1
    <2>2. dir'[Key(j)] = dir[Key(j)]
      BY <1>1, <2>1, ItemFacts
    <2> QED
      BY <1>1, <2>1, <2>2 DEF MirrorsAreCurrent, Pending, Shown
  <1> QED
    BY <1>2, <1>3, <1>4

(* A workspace that binds again is one that has left. *)
LEMMA EngageStep ==
    ASSUME CatalogInv, NEW c \in Cluster, Engage(c)
    PROVE  CatalogInv'
  <1> USE DEF CatalogInv
  <1>1. /\ engaged' = engaged \cup {c} /\ c \in left
        /\ queue \subseteq queue' /\ queue' \subseteq Item
        /\ UNCHANGED <<obj, work, dir, ready, left>>
    BY DEF Engage, GoneHaveLeft, Existing, TypeOK
  <1>2. TypeOK'
    BY <1>1 DEF TypeOK
  <1>3. GoneHaveLeft' /\ WorkIsFresh'
    BY <1>1 DEF GoneHaveLeft, WorkIsFresh
  <1>4. MirrorsAreCurrent'
    BY <1>1 DEF MirrorsAreCurrent, Pending, Shown
  <1> QED
    BY <1>2, <1>3, <1>4

(* What a worker takes it has read. *)
LEMMA GetFromStep ==
    ASSUME CatalogInv, NEW i \in Item, GetFrom(i)
    PROVE  CatalogInv'
  <1> USE DEF CatalogInv
  <1>1. /\ i \in queue /\ work[i.kind] = Idle /\ queue' = queue \ {i}
        /\ UNCHANGED <<obj, engaged, dir, ready, left>>
    BY DEF GetFrom
  <1>2. CASE i.cluster \in engaged
    <2>1. work' = [work EXCEPT ![i.kind] = [item |-> i, value |-> obj[i]]]
      BY <1>2 DEF GetFrom
    <2>2. /\ work'[i.kind] = [item |-> i, value |-> obj[i]] /\ DOMAIN work' = Kind
          /\ \A k \in Kind \ {i.kind} : work'[k] = work[k]
      BY <2>1, ItemFacts DEF TypeOK
    <2>3. TypeOK'
      <3>1. \A k \in Kind : work'[k] # Idle =>
              work'[k] \in [item : Item, value : Value] /\ work'[k].item.kind = k
        BY <2>2 DEF TypeOK
      <3> QED
        BY <1>1, <2>2, <3>1 DEF TypeOK
    <2>4. GoneHaveLeft'
      BY <1>1 DEF GoneHaveLeft
    <2>5. WorkIsFresh'
      BY <1>1, <2>2 DEF WorkIsFresh, TypeOK
    <2>6. MirrorsAreCurrent'
      <3> SUFFICES ASSUME NEW j \in Item, j.cluster \in engaged' \ left'
                   PROVE  \/ Pending(j)' \/ dir'[Key(j)] = Shown(j)'
                          \/ \E k \in Item \ {j} : Key(k) = Key(j)
        BY DEF MirrorsAreCurrent
      <3>1. CASE j = i
        <4>1. work'[i.kind] # Idle /\ work'[i.kind].item = i /\ work'[i.kind].value = obj'[i]
          BY <1>1, <2>2 DEF Idle, Absent
        <4> QED
          BY <3>1, <4>1 DEF Pending
      <3>2. CASE j # i
        <4>1. Pending(j) => Pending(j)'
          BY <1>1, <2>2, <3>2, ItemFacts DEF Pending
        <4> QED
          BY <1>1, <4>1 DEF MirrorsAreCurrent, Shown
      <3> QED
        BY <3>1, <3>2
    <2> QED
      BY <2>3, <2>4, <2>5, <2>6
  <1>3. CASE i.cluster \notin engaged
    <2>1. work' = work
      BY <1>3 DEF GetFrom
    <2>2. TypeOK' /\ GoneHaveLeft'
      BY <1>1, <2>1 DEF TypeOK, GoneHaveLeft
    <2>3. WorkIsFresh' /\ MirrorsAreCurrent'
      BY <1>1, <1>3, <2>1 DEF WorkIsFresh, MirrorsAreCurrent, Pending, Shown, TypeOK
    <2> QED
      BY <2>2, <2>3
  <1> QED
    BY <1>2, <1>3

(* What a worker writes is what the object shows, or the object is queued. *)
LEMMA MirrorStep ==
    ASSUME CatalogInv, NEW k \in Kind, work[k] # Idle, Done(k),
           dir' = [dir EXCEPT ![Key(work[k].item)] = Seen(work[k].item, work[k].value)]
    PROVE  CatalogInv'
  <1> USE DEF CatalogInv
  <1> DEFINE i == work[k].item
  <1>1. i \in Item /\ i.kind = k /\ work[k].value \in Value
    BY DEF TypeOK
  <1>2. /\ work' = [work EXCEPT ![k] = Idle]
        /\ UNCHANGED <<obj, engaged, queue, ready, left>>
    BY DEF Done
  <1>3. /\ work'[k] = Idle /\ DOMAIN work' = Kind
        /\ \A q \in Kind \ {k} : work'[q] = work[q]
    BY <1>2 DEF TypeOK
  <1>4. TypeOK'
    <2>1. Seen(i, work[k].value) \in Value
      BY <1>1, ItemFacts DEF Seen
    <2>2. dir' \in [Keys -> Value]
      BY <1>1, <2>1, ItemFacts DEF TypeOK
    <2>3. \A q \in Kind : work'[q] # Idle =>
            work'[q] \in [item : Item, value : Value] /\ work'[q].item.kind = q
      BY <1>3 DEF TypeOK
    <2> QED
      BY <1>2, <1>3, <2>2, <2>3 DEF TypeOK
  <1>5. GoneHaveLeft' /\ WorkIsFresh'
    BY <1>2, <1>3 DEF GoneHaveLeft, WorkIsFresh
  <1>6. MirrorsAreCurrent'
    <2> SUFFICES ASSUME NEW j \in Item, j.cluster \in engaged' \ left',
                        ~ \E m \in Item \ {j} : Key(m) = Key(j)
                 PROVE  Pending(j)' \/ dir'[Key(j)] = Shown(j)'
      BY DEF MirrorsAreCurrent
    <2>1. Pending(j) \/ dir[Key(j)] = Shown(j)
      BY <1>2 DEF MirrorsAreCurrent
    <2>2. CASE j = i
      <3>1. i \in queue \/ work[k].value = obj[i]
        BY <1>2, <2>2 DEF WorkIsFresh
      <3>2. dir'[Key(j)] = Seen(i, work[k].value)
        BY <1>1, <2>2, ItemFacts DEF TypeOK
      <3> QED
        BY <1>2, <2>2, <3>1, <3>2 DEF Pending, Shown
    <2>3. CASE j # i
      <3>1. Key(j) # Key(i)
        BY <1>1, <2>3
      <3>2. dir'[Key(j)] = dir[Key(j)]
        BY <1>1, <3>1, ItemFacts DEF TypeOK
      <3>3. Pending(j) => Pending(j)'
        BY <1>2, <1>3, <2>3, ItemFacts DEF Pending
      <3> QED
        BY <1>2, <2>1, <3>2, <3>3 DEF Shown
    <2> QED
      BY <2>2, <2>3
  <1> QED
    BY <1>4, <1>5, <1>6

(* A restart starts from nothing, with everything there is queued. *)
LEMMA RestartStep == ASSUME CatalogInv, Restart PROVE CatalogInv'
  <1> USE DEF CatalogInv
  <1>1. /\ dir' = [k \in Keys |-> Absent] /\ ready' = FALSE
        /\ work' = [k \in Kind |-> Idle]
        /\ queue' = {i \in Existing : i.cluster \in engaged}
        /\ UNCHANGED <<obj, engaged, left>>
    BY DEF Restart
  <1>2. TypeOK'
    BY <1>1 DEF TypeOK, Existing, Value
  <1>3. GoneHaveLeft' /\ WorkIsFresh'
    BY <1>1 DEF GoneHaveLeft, WorkIsFresh
  <1>4. MirrorsAreCurrent'
    BY <1>1, ItemFacts DEF MirrorsAreCurrent, Pending, Shown, Seen, Existing
  <1> QED
    BY <1>2, <1>3, <1>4

(* Every step keeps the invariant. *)
LEMMA CatalogStep == CatalogInv /\ [Next]_vars => CatalogInv'
  <1> SUFFICES ASSUME CatalogInv, [Next]_vars PROVE CatalogInv'
    OBVIOUS
  <1> USE DEF CatalogInv
  <1>1. ASSUME NEW i \in Item, NEW value \in Content(i) \cup {Absent}, Edit(i, value)
        PROVE  CatalogInv'
    BY <1>1, ChangeStep DEF Edit
  <1>2. ASSUME NEW i \in Item, NEW path \in Path, EditRecord(i, path)
        PROVE  CatalogInv'
    <2>1. [obj[i] EXCEPT !.spec = path] \in Content(i)
      BY <1>2 DEF EditRecord, TypeOK, Content, Record
    <2> QED
      BY <1>2, <2>1, ChangeStep DEF EditRecord
  <1>3. ASSUME NEW i \in Item, Register(i) PROVE CatalogInv'
    <2>1. [obj[i] EXCEPT !.path = obj[i].spec] \in Content(i)
      BY <1>3 DEF Register, TypeOK, Content, Record
    <2> QED
      BY <1>3, <2>1, ChangeStep DEF Register
  <1>4. ASSUME NEW i \in Item, NEW c \in Cluster, Learn(i, c) PROVE CatalogInv'
    <2>1. i.kind = "producer" /\ obj[i] # Absent /\ Change(i, [obj[i] EXCEPT !.cluster = c])
      BY <1>4 DEF Learn
    <2>2. [obj[i] EXCEPT !.cluster = c] \in Content(i)
      BY <2>1 DEF TypeOK, Content, Record
    <2> QED
      BY <2>1, <2>2, ChangeStep
  <1>5. ASSUME Mirror PROVE CatalogInv'
    <2>1. CASE MirrorProducer
      <3> DEFINE r == work["producer"]
      <3>1. r # Idle /\ Done("producer") /\ r.item \in Item /\ r.item.kind = "producer"
        BY <2>1 DEF MirrorProducer, TypeOK, Kind
      <3>2. dir' = [dir EXCEPT ![Key(r.item)] = Seen(r.item, r.value)]
        BY <2>1, <3>1 DEF MirrorProducer, Upsert, Remove, Seen
      <3> QED
        BY <3>1, <3>2, MirrorStep DEF Kind
    <2>2. CASE MirrorOffering
      <3> DEFINE r == work["export"]
      <3>1. r # Idle /\ Done("export") /\ r.item \in Item /\ r.item.kind = "export"
        BY <2>2 DEF MirrorOffering, TypeOK, Kind
      <3>2. dir' = [dir EXCEPT ![Key(r.item)] = Seen(r.item, r.value)]
        BY <2>2, <3>1 DEF MirrorOffering, Upsert, Remove, Seen
      <3> QED
        BY <3>1, <3>2, MirrorStep DEF Kind
    <2>3. CASE MirrorInstructions
      <3> DEFINE r == work["instructions"]
      <3>1. r # Idle /\ Done("instructions") /\ r.item \in Item /\ r.item.kind = "instructions"
        BY <2>3 DEF MirrorInstructions, TypeOK, Kind
      <3>2. dir' = [dir EXCEPT ![Key(r.item)] = Seen(r.item, r.value)]
        BY <2>3, <3>1 DEF MirrorInstructions, Upsert, Remove, Seen
      <3> QED
        BY <3>1, <3>2, MirrorStep DEF Kind
    <2>4. CASE MirrorSchema
      <3> DEFINE r == work["schema"]
      <3>1. r # Idle /\ Done("schema") /\ r.item \in Item /\ r.item.kind = "schema"
        BY <2>4 DEF MirrorSchema, TypeOK, Kind
      <3>2. dir' = [dir EXCEPT ![Key(r.item)] = Seen(r.item, r.value)]
        BY <2>4, <3>1 DEF MirrorSchema, Upsert, Remove, Seen
      <3> QED
        BY <3>1, <3>2, MirrorStep DEF Kind
    <2> QED
      BY <1>5, <2>1, <2>2, <2>3, <2>4 DEF Mirror
  <1>6. ASSUME UNCHANGED <<obj, engaged, queue, work, dir, left>>, ready' \in BOOLEAN
        PROVE  CatalogInv'
    BY <1>6 DEF TypeOK, GoneHaveLeft, WorkIsFresh, MirrorsAreCurrent, Pending, Shown
  <1>7. CASE SetReady
    BY <1>6, <1>7 DEF SetReady
  <1>8. CASE (\E e \in Catalog : GetOffering(e)) \/ CreateBinding
    BY <1>6, <1>8 DEF GetOffering, CreateBinding, mirrored, TypeOK
  <1>9. CASE UNCHANGED vars
    BY <1>6, <1>9 DEF vars, mirrored, TypeOK
  <1> QED
    BY <1>1, <1>2, <1>3, <1>4, <1>5, <1>7, <1>8, <1>9,
       GetFromStep, OnDeleteStep, EngageStep, RestartStep DEF Next

(* The directory is never silently behind: of a workspace that has never   *)
(* unbound the export, what is mirrored differs from the object only while *)
(* a change of it is pending (provider.go:115-227, directory.go:131-213).  *)
THEOREM CatalogIsNeverSilentlyBehind == Spec => []CatalogInv
  BY CatalogStart, CatalogStep, PTL DEF Spec

-----------------------------------------------------------------------------
(* What a consumer consents to.                                            *)

(* A record of a producer that nobody has edited names one workspace: its  *)
(* path is that of the cluster it has learned, if it has learned one.      *)
Honest(excepted, p, v) ==
    v # Absent /\ p \notin excepted =>
        v.path = v.spec /\ (v.cluster \in Cluster => v.path = PathOf[v.cluster])

(* So is every copy of it, in a worker's hands or mirrored. *)
RecordsAreHonest ==
    \A i \in Item : i.kind = "producer" =>
        /\ Honest(edited, i.name, obj[i])
        /\ Honest(edited, i.name, dir[Key(i)])
        /\ work["producer"] # Idle /\ work["producer"].item = i =>
              Honest(edited, i.name, work["producer"].value)

(* The entry a consumer has read is of the workspace whose path it names.  *)
EntryIsHonest ==
    consumer.entry # NoEntry /\ consumer.entry.producer \notin edited =>
        consumer.entry.from \in Cluster /\ consumer.entry.path = PathOf[consumer.entry.from]

ConsentInv == CatalogInv /\ RecordsAreHonest /\ EntryIsHonest /\ ConsentIsForTheExport

LEMMA ConsentStart == Init => ConsentInv
  <1> SUFFICES ASSUME Init PROVE ConsentInv
    OBVIOUS
  <1>1. ASSUME NEW i \in Item, i.kind = "producer"
        PROVE  Honest(edited, i.name, obj[i]) /\ dir[Key(i)] = Absent
    <2>1. PICK home \in [Producer -> Cluster], learned \in SUBSET Producer,
               publisher \in Cluster, ns \in Namespace :
       obj = [j \in Item |->
         CASE j.kind = "producer" ->
                [spec |-> PathOf[home[j.name]], path |-> PathOf[home[j.name]],
                 cluster |-> IF j.name \in learned THEN home[j.name] ELSE NoCluster]
           [] j.kind = "export" /\ j.cluster = publisher ->
                [published |-> TRUE, claims |-> CHOOSE x \in Claims : TRUE, from |-> j.cluster]
           [] j.kind = "instructions" /\ j.cluster = publisher /\ j.ns = ns -> [version |-> 1]
           [] OTHER -> Absent]
      BY DEF Init
    <2>2. obj[i] = [spec |-> PathOf[home[i.name]], path |-> PathOf[home[i.name]],
                    cluster |-> IF i.name \in learned THEN home[i.name] ELSE NoCluster]
      BY <1>1, <2>1
    <2>3. Honest(edited, i.name, obj[i])
      BY <2>2, CatalogAssumption DEF Honest
    <2>4. dir[Key(i)] = Absent
      BY ItemFacts DEF Init
    <2> QED
      BY <2>3, <2>4
  <1>2. work["producer"] = Idle
    BY DEF Init, Kind
  <1>3. RecordsAreHonest
    BY <1>1, <1>2 DEF RecordsAreHonest, Honest
  <1>4. EntryIsHonest /\ ConsentIsForTheExport
    BY DEF Init, EntryIsHonest, ConsentIsForTheExport
  <1> QED
    BY <1>3, <1>4, CatalogStart DEF ConsentInv

LEMMA HonestStays ==
    ASSUME NEW p, NEW v, NEW E, NEW F, E \subseteq F, Honest(E, p, v)
    PROVE  Honest(F, p, v)
  BY DEF Honest

(* Edits except a record; what the operator makes of one that nobody has   *)
(* edited is honest again.                                                 *)
LEMMA ChangedRecord ==
    ASSUME ConsentInv, NEW i \in Item, NEW value, Change(i, value), edited \subseteq edited',
           i.kind = "producer" => Honest(edited', i.name, value)
    PROVE  RecordsAreHonest'
  <1>1. /\ \A j \in Item : obj'[j] = IF j = i THEN value ELSE obj[j]
        /\ UNCHANGED <<work, dir>>
    BY DEF Change, ConsentInv, CatalogInv, TypeOK
  <1> SUFFICES ASSUME NEW j \in Item, j.kind = "producer"
               PROVE  /\ Honest(edited', j.name, obj'[j])
                      /\ Honest(edited', j.name, dir[Key(j)])
                      /\ work["producer"] # Idle /\ work["producer"].item = j =>
                            Honest(edited', j.name, work["producer"].value)
    BY <1>1 DEF RecordsAreHonest
  <1>2. Honest(edited', j.name, obj'[j])
    BY <1>1, HonestStays DEF ConsentInv, RecordsAreHonest
  <1>3. Honest(edited', j.name, dir[Key(j)])
    BY HonestStays DEF ConsentInv, RecordsAreHonest
  <1>4. work["producer"] # Idle /\ work["producer"].item = j =>
           Honest(edited', j.name, work["producer"].value)
    BY HonestStays DEF ConsentInv, RecordsAreHonest
  <1> QED
    BY <1>2, <1>3, <1>4

LEMMA RecordSteps ==
    ASSUME ConsentInv, NEW i \in Item,
           \/ \E value \in Content(i) \cup {Absent} : Edit(i, value)
           \/ \E path \in Path : EditRecord(i, path)
           \/ Register(i)
           \/ \E c \in Cluster : Learn(i, c)
    PROVE  RecordsAreHonest' /\ edited \subseteq edited' /\ UNCHANGED consumer
  <1>1. ASSUME NEW value \in Content(i) \cup {Absent}, Edit(i, value)
        PROVE  RecordsAreHonest' /\ edited \subseteq edited' /\ UNCHANGED consumer
    <2>1. Change(i, value) /\ edited' = edited /\ i.kind # "producer" /\ UNCHANGED consumer
      BY <1>1 DEF Edit, Change
    <2> QED
      BY <2>1, ChangedRecord
  <1>2. ASSUME NEW path \in Path, EditRecord(i, path)
        PROVE  RecordsAreHonest' /\ edited \subseteq edited' /\ UNCHANGED consumer
    <2>1. /\ Change(i, [obj[i] EXCEPT !.spec = path]) /\ edited' = edited \cup {i.name}
          /\ UNCHANGED consumer
      BY <1>2 DEF EditRecord, Change
    <2>2. Honest(edited', i.name, [obj[i] EXCEPT !.spec = path])
      BY <2>1 DEF Honest
    <2> QED
      BY <2>1, <2>2, ChangedRecord
  <1>3. ASSUME Register(i)
        PROVE  RecordsAreHonest' /\ edited \subseteq edited' /\ UNCHANGED consumer
    <2>1. /\ Change(i, [obj[i] EXCEPT !.path = obj[i].spec]) /\ edited' = edited
          /\ i.kind = "producer" /\ obj[i] # Absent /\ obj[i].path # obj[i].spec
          /\ UNCHANGED consumer
      BY <1>3 DEF Register, Change
    <2>2. i.name \in edited
      BY <2>1 DEF ConsentInv, RecordsAreHonest, Honest
    <2>3. Honest(edited', i.name, [obj[i] EXCEPT !.path = obj[i].spec])
      BY <2>1, <2>2 DEF Honest
    <2> QED
      BY <2>1, <2>3, ChangedRecord
  <1>4. ASSUME NEW c \in Cluster, Learn(i, c)
        PROVE  RecordsAreHonest' /\ edited \subseteq edited' /\ UNCHANGED consumer
    <2>1. /\ Change(i, [obj[i] EXCEPT !.cluster = c]) /\ edited' = edited
          /\ i.kind = "producer" /\ obj[i] # Absent /\ obj[i].path = PathOf[c]
          /\ UNCHANGED consumer
      BY <1>4 DEF Learn, Change
    <2>2. obj[i] \in Record
      BY <2>1 DEF ConsentInv, CatalogInv, TypeOK, Content
    <2>3. PICK v : v = [obj[i] EXCEPT !.cluster = c]
      OBVIOUS
    <2>4. v.spec = obj[i].spec /\ v.path = obj[i].path /\ v.cluster = c
      BY <2>2, <2>3 DEF Record
    <2>5. Honest(edited', i.name, v)
      BY <2>1, <2>4 DEF Honest, ConsentInv, RecordsAreHonest
    <2> QED
      BY <2>1, <2>3, <2>5, ChangedRecord
  <1> QED
    BY <1>1, <1>2, <1>3, <1>4

(* Copies are made of records, and go.                                     *)
LEMMA CopySteps ==
    ASSUME ConsentInv,
           \/ \E i \in Item : GetFrom(i)
           \/ \E c \in Cluster : OnDelete(c) \/ Engage(c)
           \/ Mirror \/ SetReady \/ Restart
    PROVE  RecordsAreHonest' /\ edited' = edited /\ UNCHANGED consumer
  <1> USE DEF ConsentInv, RecordsAreHonest
  <1>1. UNCHANGED <<obj, edited, consumer>>
    BY DEF GetFrom, OnDelete, Engage, Mirror, MirrorProducer, MirrorOffering,
           MirrorInstructions, MirrorSchema, Done, SetReady, Restart
  <1>2. ASSUME NEW i \in Item, GetFrom(i) PROVE RecordsAreHonest'
    <2>1. work' = work \/ work' = [work EXCEPT ![i.kind] = [item |-> i, value |-> obj[i]]]
      BY <1>2 DEF GetFrom
    <2>2. \/ work'["producer"] = work["producer"]
          \/ work'["producer"] = [item |-> i, value |-> obj[i]]
      BY <2>1, ItemFacts DEF CatalogInv, TypeOK, Kind
    <2>3. dir' = dir
      BY <1>2 DEF GetFrom
    <2> QED
      BY <1>1, <2>2, <2>3
  <1>3. ASSUME NEW c \in Cluster, OnDelete(c) PROVE RecordsAreHonest'
    <2>1. work' = work /\ \A i \in Item : dir'[Key(i)] \in {dir[Key(i)], Absent}
      BY <1>3, ItemFacts DEF OnDelete, Forgotten
    <2> QED
      BY <1>1, <2>1 DEF Honest
  <1>4. ASSUME MirrorProducer PROVE RecordsAreHonest'
    <2> DEFINE r == work["producer"]
    <2>1. r # Idle /\ r.item \in Item /\ r.item.kind = "producer"
      BY <1>4 DEF MirrorProducer, CatalogInv, TypeOK, Kind
    <2>2. work'["producer"] = Idle
      BY <1>4 DEF MirrorProducer, Done, CatalogInv, TypeOK, Kind
    <2>3. dir' = [dir EXCEPT ![Key(r.item)] = r.value]
      BY <1>4 DEF MirrorProducer, Upsert, Remove
    <2>4. Honest(edited, r.item.name, r.value)
      BY <2>1
    <2>5. ASSUME NEW i \in Item, i.kind = "producer"
          PROVE  Honest(edited, i.name, dir'[Key(i)])
      <3>1. CASE i = r.item
        BY <2>1, <2>3, <2>4, <3>1, ItemFacts DEF CatalogInv, TypeOK
      <3>2. CASE i # r.item
        <4>1. i.name # r.item.name
          BY <2>1, <2>5, <3>2 DEF Item
        <4>2. Key(i) # Key(r.item)
          BY <4>1 DEF Key
        <4>3. dir'[Key(i)] = dir[Key(i)]
          BY <2>1, <2>3, <4>2, ItemFacts DEF CatalogInv, TypeOK
        <4> QED
          BY <2>5, <4>3
      <3> QED
        BY <3>1, <3>2
    <2> QED
      BY <1>1, <2>2, <2>5
  <1>5. ASSUME MirrorOffering \/ MirrorInstructions \/ MirrorSchema PROVE RecordsAreHonest'
    <2>1. PICK k \in Kind \ {"producer"} :
             /\ work' = [work EXCEPT ![k] = Idle]
             /\ work[k] # Idle
             /\ \E v : dir' = [dir EXCEPT ![Key(work[k].item)] = v]
      BY <1>5 DEF MirrorOffering, MirrorInstructions, MirrorSchema, Done, Upsert, Remove, Kind
    <2>2. work'["producer"] = work["producer"]
      BY <2>1 DEF CatalogInv, TypeOK, Kind
    <2>3. work[k].item \in Item /\ work[k].item.kind # "producer"
      BY <2>1 DEF CatalogInv, TypeOK
    <2>4. ASSUME NEW i \in Item, i.kind = "producer" PROVE dir'[Key(i)] = dir[Key(i)]
      <3>1. Key(i) # Key(work[k].item)
        BY <2>3, <2>4 DEF Key
      <3> QED
        BY <2>1, <3>1, ItemFacts DEF CatalogInv, TypeOK
    <2> QED
      BY <1>1, <2>2, <2>4
  <1>6. ASSUME Restart PROVE RecordsAreHonest'
    <2>1. work'["producer"] = Idle /\ \A i \in Item : dir'[Key(i)] = Absent
      BY <1>6, ItemFacts DEF Restart, Kind
    <2> QED
      BY <1>1, <2>1 DEF Honest
  <1>7. ASSUME SetReady \/ \E c \in Cluster : Engage(c) PROVE RecordsAreHonest'
    BY <1>1, <1>7 DEF SetReady, Engage
  <1> QED
    BY <1>1, <1>2, <1>3, <1>4, <1>5, <1>6, <1>7 DEF Mirror

(* An entry is made of a mirrored record.                                  *)
LEMMA EnableSteps ==
    ASSUME ConsentInv, (\E e \in Catalog : GetOffering(e)) \/ CreateBinding
    PROVE  RecordsAreHonest' /\ EntryIsHonest' /\ ConsentIsForTheExport'
  <1> USE DEF ConsentInv
  <1>1. RecordsAreHonest'
    BY DEF GetOffering, CreateBinding, mirrored, RecordsAreHonest
  <1>2. edited' = edited
    BY DEF GetOffering, CreateBinding
  <1>3. ASSUME NEW e \in Catalog, GetOffering(e)
        PROVE  EntryIsHonest' /\ ConsentIsForTheExport'
    <2>1. PICK c \in Cluster : \E p \in Owners(c) : e = CatalogOf(p, c)
      BY DEF Catalog
    <2>2. PICK p \in Owners(c) : e = CatalogOf(p, c)
      BY <2>1
    <2> DEFINE i == [kind |-> "producer", cluster |-> Home, ns |-> "-", name |-> p]
               r == dir[[kind |-> "producer", cluster |-> Home, name |-> p]]
    <2>3. i \in Item /\ i.kind = "producer" /\ i.name = p
          /\ Key(i) = [kind |-> "producer", cluster |-> Home, name |-> p]
      BY DEF Owners, Item, Key
    <2>4. r # Absent /\ r.cluster = c
      BY DEF Owners
    <2>5. e.producer = p /\ e.path = r.path /\ e.from = c
      BY <2>2 DEF CatalogOf
    <2>6. Honest(edited, p, r)
      BY <2>3 DEF RecordsAreHonest
    <2>7. consumer'.entry = e /\ consumer'.bindings = {}
      BY <1>3 DEF GetOffering
    <2>8. EntryIsHonest'
      BY <1>2, <2>4, <2>5, <2>6, <2>7 DEF EntryIsHonest, Honest
    <2> QED
      BY <2>7, <2>8 DEF ConsentIsForTheExport
  <1>4. ASSUME CreateBinding
        PROVE  EntryIsHonest' /\ ConsentIsForTheExport'
    <2> DEFINE e == consumer.entry
    <2>1. PICK c \in Cluster :
             /\ PathOf[c] = e.path /\ consumer'.entry = NoEntry
             /\ consumer'.bindings \subseteq consumer.bindings \cup {[to |-> c, entry |-> e]}
      BY <1>4 DEF CreateBinding
    <2>2. e # NoEntry
      BY <1>4 DEF CreateBinding
    <2>3. e.producer \in edited \/ (c = e.from /\ e.path = PathOf[c])
      BY <2>1, <2>2, CatalogAssumption DEF EntryIsHonest
    <2> HIDE DEF e
    <2> QED
      BY <1>2, <2>1, <2>3 DEF EntryIsHonest, ConsentIsForTheExport
  <1> QED
    BY <1>1, <1>3, <1>4

LEMMA ConsentStep == ConsentInv /\ [Next]_vars => ConsentInv'
  <1> SUFFICES ASSUME ConsentInv, [Next]_vars PROVE ConsentInv'
    OBVIOUS
  <1>1. CatalogInv'
    BY CatalogStep DEF ConsentInv
  <1>2. ASSUME edited \subseteq edited', UNCHANGED consumer
        PROVE  EntryIsHonest' /\ ConsentIsForTheExport'
    BY <1>2 DEF ConsentInv, EntryIsHonest, ConsentIsForTheExport
  <1>3. CASE UNCHANGED vars
    BY <1>1, <1>2, <1>3 DEF vars, mirrored, ConsentInv, RecordsAreHonest
  <1>4. CASE Next
    BY <1>1, <1>2, <1>4, RecordSteps, CopySteps, EnableSteps DEF Next, ConsentInv
  <1> QED
    BY <1>3, <1>4

(* The export a binding reaches is the one whose claims its entry showed,  *)
(* unless its record was moved meanwhile, for any workspaces, records and  *)
(* mirrors however far behind (Catalog, NewEnableCommand).                 *)
THEOREM ConsentsAreForTheExport == Spec => []ConsentIsForTheExport
  <1>1. ConsentInv => ConsentIsForTheExport
    BY DEF ConsentInv
  <1> QED
    BY ConsentStart, ConsentStep, <1>1, PTL DEF Spec

-----------------------------------------------------------------------------
(* What tenants' users ask for: the types, and the inductive invariant. *)
Worker == Command \cup Caller
Asked == [subject : User, project : Project \cup {TenantWide}, role : Role]

JobKind == {"none", "seed", "tenant", "project", "delete project", "grant", "revoke", "request"}
JobStep == {"rest", "create tenant", "wait for tenant", "tenant client", "create project",
            "wait for project", "delete project", "create grant", "read grant", "update grant",
            "delete grant", "write", "done", "refused", "gave up"}

JobRecord ==
    [kind : JobKind, step : JobStep, tenant : Tenant \cup {NoTenant}, admin : User \cup {Nobody},
     cluster : 0 .. MaxClusters, project : Project \cup {TenantWide}, wait : BOOLEAN, todo : Seq(Asked),
     wants : SUBSET Asked, read : GrantRecord \cup {NoGrant}, undone : BOOLEAN, raced : BOOLEAN]
ProjectRecord ==
    [cluster : 0 .. MaxClusters, name : Project \cup {TenantWide}, ready : BOOLEAN, by : User \cup {Nobody}]

TenancyTypeOK ==
    /\ tenants \in [Tenant -> TenantRecord \cup {NoTenant}]
    /\ projects \in SUBSET ProjectRecord
    /\ grants \in [GrantKey -> GrantRecord \cup {NoGrant}]
    /\ mirror \in [clusters : [Tenant -> 0 .. MaxClusters], roles : [GrantKey -> Role \cup {"none"}]]
    /\ job \in [Worker -> JobRecord]
    /\ made \in 0 .. MaxClusters

(* A workspace is of one tenant. *)
Has(t) == tenants[t] # NoTenant
OwnClusters ==
    /\ \A t \in Tenant : Has(t) => tenants[t].cluster <= made
    /\ \A t, u \in Tenant : Has(t) /\ Has(u) /\ tenants[t].cluster = tenants[u].cluster /\ tenants[t].cluster # 0
                              => t = u

Same(v, w) == v.subject = w.subject /\ v.project = w.project
Left(todo, w) == \E i \in DOMAIN todo : todo[i] = w /\ \A j \in DOMAIN todo : j > i => ~Same(todo[j], w)
Over(todo, w) == \A i \in DOMAIN todo : ~Same(todo[i], w)
Gives(c, w) == grants[KeyOf(c, w)] # NoGrant /\ grants[KeyOf(c, w)].role = w.role

JobOK(q, r) ==
    /\ r.step # "rest" => r.tenant \in Tenant
    /\ r.kind = "revoke" => r.todo # <<>> /\ r.step \notin {"create grant", "read grant", "update grant"}
    /\ r.step \in {"create grant", "read grant", "update grant", "delete grant"} => r.cluster # 0 /\ r.todo # <<>>
    /\ r.step = "update grant" => r.read # NoGrant
    /\ r.step = "write" => <<q, r.cluster>> \in admins

Within(r) == Has(r.tenant) /\ tenants[r.tenant].cluster = r.cluster

(* What a seed knows at each of its steps ... *)
SeedStep(r) ==
    /\ r.step \notin {"rest", "write", "delete grant", "delete project"}
    /\ r.step \in {"create tenant", "wait for tenant", "tenant client"} => r.cluster = 0
    /\ r.step \in {"create project", "wait for project", "create grant", "read grant", "update grant"} =>
         r.cluster # 0 /\ (r.raced \/ Within(r))
    /\ r.step = "done" => r.cluster # 0 /\ r.todo = <<>>
    /\ r.step = "tenant client" /\ r.wait => r.raced \/ (Has(r.tenant) /\ tenants[r.tenant].cluster # 0)
    /\ r.step = "refused" /\ r.wait => r.raced
    /\ r.step = "read grant" => r.raced \/ grants[KeyOf(r.cluster, Head(r.todo))] # NoGrant
    /\ r.step = "update grant" => r.raced \/ grants[KeyOf(r.cluster, Head(r.todo))] = r.read

(* ... and throughout: its workspace is its tenant's, and what it is to    *)
(* make is still to do, or made unless another undid it.                   *)
SeedWants(r) ==
    /\ r.cluster <= made
    /\ r.cluster # 0 => \A t \in Tenant : Has(t) /\ tenants[t].cluster = r.cluster => t = r.tenant
    /\ \A i \in DOMAIN r.todo : \E w \in r.wants : Same(w, r.todo[i])
    /\ \A w \in r.wants : Left(r.todo, w) \/ (r.cluster # 0 /\ Over(r.todo, w) /\ (r.undone \/ Gives(r.cluster, w)))

SeedOK(r) == r.kind = "seed" => SeedStep(r) /\ SeedWants(r)

AdminsKnown ==
    /\ \A k \in GrantKey : k.project = TenantWide =>
         /\ grants[k] # NoGrant /\ grants[k].role = "admin" => <<k.subject, k.cluster>> \in admins
         /\ mirror.roles[k] = "admin" => <<k.subject, k.cluster>> \in admins
    /\ ProjectsByAdmins

TenancyIInv ==
    /\ TenancyTypeOK /\ OwnClusters
    /\ \A q \in Worker : JobOK(q, job[q]) /\ SeedOK(job[q])
    /\ AdminsKnown

-----------------------------------------------------------------------------
(* The least-number principle, of the library's well-foundedness of <.     *)
Below == {ss \in Nat \X Nat : ss[1] < ss[2]}

LEMMA LeastNumber == ASSUME NEW D \in SUBSET Nat, D # {} PROVE \E d \in D : \A e \in D : d <= e
  <1>1. OpToRel(<, Nat) = Below
    BY DEF OpToRel, Below
  <1>2. IsWellFoundedOn(Below, Nat)
    BY <1>1, NatLessThanWellFounded
  <1>3. PICK d \in D : \A e \in D : ~(<<e, d>> \in Below)
    BY <1>2, WFMin
  <1>4. ASSUME NEW e \in D PROVE d <= e
    <2>1. <<e, d>> \in Nat \X Nat /\ <<e, d>>[1] = e /\ <<e, d>>[2] = d
      OBVIOUS
    <2>2. ~(e < d)
      BY <1>3, <2>1 DEF Below
    <2> QED
      BY <2>2
  <1> QED
    BY <1>4

LEMMA GreatestNumber ==
    ASSUME NEW S \in SUBSET Nat, NEW n \in Nat, S # {}, \A i \in S : i <= n
    PROVE  \E i \in S : \A j \in S : j <= i
  <1> DEFINE D == {d \in Nat : \E i \in S : d = n - i}
  <1>1. PICK i \in S : TRUE
    OBVIOUS
  <1>2. i \in Nat /\ n - i \in Nat
    OBVIOUS
  <1>3. D # {}
    BY <1>2
  <1>4. PICK d \in D : \A e \in D : d <= e
    BY <1>3, LeastNumber
  <1>5. PICK k \in S : d = n - k
    BY <1>4
  <1>6. ASSUME NEW j \in S PROVE j <= k
    <2>1. n - j \in D
      BY <1>6
    <2>2. d <= n - j
      BY <1>4, <2>1
    <2>3. j \in Nat /\ k \in Nat
      OBVIOUS
    <2> HIDE DEF D
    <2> QED
      BY <1>5, <2>2, <2>3
  <1> QED
    BY <1>6

-----------------------------------------------------------------------------
(* What is asked for. *)
LEMMA SameFacts ==
    ASSUME NEW v \in Asked, NEW w \in Asked
    PROVE  ([v EXCEPT !.role = "view"] = [w EXCEPT !.role = "view"]) <=> Same(v, w)
  <1> DEFINE x == [v EXCEPT !.role = "view"]
             y == [w EXCEPT !.role = "view"]
  <1>1. /\ x \in [subject : User, project : Project \cup {TenantWide}, role : {"view"} \cup Role]
        /\ y \in [subject : User, project : Project \cup {TenantWide}, role : {"view"} \cup Role]
        /\ x.subject = v.subject /\ x.project = v.project /\ x.role = "view"
        /\ y.subject = w.subject /\ y.project = w.project /\ y.role = "view"
    BY DEF Asked
  <1> HIDE DEF x, y
  <1>2. x = y <=> Same(v, w)
    BY <1>1 DEF Same
  <1> QED
    BY <1>2 DEF x, y

LEMMA WantsFacts ==
    ASSUME NEW todo \in Seq(Asked)
    PROVE  /\ Wants(todo) \in SUBSET Asked
           /\ \A i \in DOMAIN todo : \E w \in Wants(todo) : Same(w, todo[i])
           /\ \A w \in Wants(todo) : Left(todo, w)
  <1> DEFINE last(i) == \A j \in DOMAIN todo : j > i => ~Same(todo[j], todo[i])
  <1>1. \A i \in DOMAIN todo : todo[i] \in Asked
    OBVIOUS
  <1>2. Wants(todo) = {todo[i] : i \in {i \in DOMAIN todo : last(i)}}
    <2>1. \A i, j \in DOMAIN todo : ([todo[j] EXCEPT !.role = "view"] # [todo[i] EXCEPT !.role = "view"])
                                       <=> ~Same(todo[j], todo[i])
      BY <1>1, SameFacts
    <2> QED
      BY <2>1 DEF Wants
  <1>3. ASSUME NEW i \in DOMAIN todo PROVE \E w \in Wants(todo) : Same(w, todo[i])
    <2> DEFINE S == {j \in DOMAIN todo : Same(todo[j], todo[i])}
    <2>1. S \in SUBSET Nat /\ S # {} /\ Len(todo) \in Nat /\ \A j \in S : j <= Len(todo)
      <3>1. i \in S
        BY DEF Same
      <3> QED
        BY <3>1
    <2>2. PICK k \in S : \A j \in S : j <= k
      BY <2>1, GreatestNumber
    <2>3. last(k)
      <3> SUFFICES ASSUME NEW j \in DOMAIN todo, j > k, Same(todo[j], todo[k]) PROVE FALSE
        OBVIOUS
      <3>1. j \in S
        BY <2>2 DEF Same
      <3> QED
        BY <2>1, <2>2, <3>1
    <2> QED
      BY <1>2, <2>2, <2>3
  <1> QED
    BY <1>1, <1>2, <1>3 DEF Left

LEMMA FirstFacts ==
    ASSUME NEW todo \in Seq(Asked), todo # <<>>
    PROVE  1 \in DOMAIN todo /\ Head(todo) = todo[1]
  OBVIOUS

(* One entry done with. *)
LEMMA TailFacts ==
    ASSUME NEW todo \in Seq(Asked), todo # <<>>
    PROVE  /\ Tail(todo) \in Seq(Asked) /\ Head(todo) \in Asked
           /\ \A i \in DOMAIN Tail(todo) : i + 1 \in DOMAIN todo /\ Tail(todo)[i] = todo[i + 1]
           /\ \A w : Over(todo, w) => Over(Tail(todo), w) /\ ~Same(Head(todo), w)
           /\ \A w : Left(todo, w) => \/ Left(Tail(todo), w)
                                      \/ w = Head(todo) /\ Over(Tail(todo), w)
  <1>1. /\ Tail(todo) \in Seq(Asked) /\ Head(todo) = todo[1] /\ 1 \in DOMAIN todo
        /\ Len(Tail(todo)) = Len(todo) - 1 /\ Len(todo) \in Nat
        /\ DOMAIN todo = 1 .. Len(todo) /\ DOMAIN Tail(todo) = 1 .. Len(todo) - 1
    OBVIOUS
  <1>2. \A i \in DOMAIN Tail(todo) : i + 1 \in DOMAIN todo /\ Tail(todo)[i] = todo[i + 1]
    BY <1>1
  <1>3. ASSUME NEW w, Over(todo, w) PROVE Over(Tail(todo), w) /\ ~Same(Head(todo), w)
    BY <1>1, <1>2, <1>3 DEF Over
  <1>4. ASSUME NEW w, Left(todo, w) PROVE Left(Tail(todo), w) \/ (w = Head(todo) /\ Over(Tail(todo), w))
    <2>1. PICK i \in DOMAIN todo : todo[i] = w /\ \A j \in DOMAIN todo : j > i => ~Same(todo[j], w)
      BY <1>4 DEF Left
    <2>2. \A j \in DOMAIN Tail(todo) : j + 1 > i => ~Same(Tail(todo)[j], w)
      BY <1>2, <2>1
    <2>3. CASE i = 1
      <3>1. \A j \in DOMAIN Tail(todo) : j + 1 > i
        BY <1>1, <2>3
      <3> QED
        BY <1>1, <2>1, <2>2, <2>3, <3>1 DEF Over
    <2>4. CASE i # 1
      <3>1. i - 1 \in DOMAIN Tail(todo) /\ Tail(todo)[i - 1] = w
        BY <1>1, <1>2, <2>1, <2>4
      <3>2. \A j \in DOMAIN Tail(todo) : j > i - 1 => j + 1 > i
        BY <1>1
      <3> QED
        BY <2>2, <3>1, <3>2 DEF Left
    <2> QED
      BY <2>3, <2>4
  <1> QED
    BY <1>1, <1>2, <1>3, <1>4

-----------------------------------------------------------------------------
(* What commands and callers do. *)
LEMMA JobWords ==
    /\ \A s \in {"rest", "create tenant", "wait for tenant", "tenant client", "create project",
            "wait for project", "delete project", "create grant", "read grant", "update grant",
            "delete grant", "write", "done", "refused", "gave up"} : s \in JobStep
    /\ \A k \in {"none", "seed", "tenant", "project", "delete project", "grant", "revoke", "request"} : k \in JobKind
  BY DEF JobStep, JobKind

LEMMA MadeFacts == ASSUME TenancyTypeOK PROVE made \in Nat /\ 0 <= made /\ made <= made /\ made <= MaxClusters
  BY SelfServiceAssumption DEF TenancyTypeOK

LEMMA RestingFacts ==
    /\ Resting \in JobRecord /\ \A q \in Worker : JobOK(q, Resting)
    /\ SeedOK(Resting)
    /\ Resting.kind = "none" /\ Resting.step = "rest" /\ Resting.cluster = 0
    /\ Resting.todo = <<>> /\ Resting.wants = {} /\ Resting.raced = FALSE /\ Resting.undone = FALSE
  <1>1. Resting \in JobRecord
    BY SelfServiceAssumption DEF Resting, JobRecord, JobStep, JobKind
  <1> QED
    BY <1>1 DEF Resting, JobOK, SeedOK

(* A job that goes on to another step ... *)
LEMMA StepFacts ==
    ASSUME NEW r \in JobRecord, NEW s \in JobStep
    PROVE  LET n == [r EXCEPT !.step = s]
           IN  /\ n \in JobRecord /\ n.step = s /\ n.kind = r.kind /\ n.tenant = r.tenant
               /\ n.cluster = r.cluster /\ n.project = r.project /\ n.wait = r.wait
               /\ n.todo = r.todo /\ n.wants = r.wants /\ n.read = r.read
               /\ n.undone = r.undone /\ n.raced = r.raced
  BY DEF JobRecord

(* ... one that finds its workspace ... *)
LEMMA FoundFacts ==
    ASSUME NEW r \in JobRecord, NEW c \in 0 .. MaxClusters
    PROVE  LET n == [r EXCEPT !.cluster = c]
           IN  /\ n \in JobRecord /\ n.step = r.step /\ n.kind = r.kind /\ n.tenant = r.tenant
               /\ n.cluster = c /\ n.project = r.project /\ n.wait = r.wait
               /\ n.todo = r.todo /\ n.wants = r.wants /\ n.read = r.read
               /\ n.undone = r.undone /\ n.raced = r.raced
  BY DEF JobRecord

(* ... one that is done with an entry ... *)
LEMMA TodoFacts ==
    ASSUME NEW r \in JobRecord, NEW todo \in Seq(Asked)
    PROVE  LET n == [r EXCEPT !.todo = todo, !.read = NoGrant]
           IN  /\ n \in JobRecord /\ n.step = r.step /\ n.kind = r.kind /\ n.tenant = r.tenant
               /\ n.cluster = r.cluster /\ n.project = r.project /\ n.wait = r.wait
               /\ n.todo = todo /\ n.wants = r.wants
               /\ n.undone = r.undone /\ n.raced = r.raced
  BY DEF JobRecord

(* ... and one that another's write concerns.                              *)
LEMMA RacedFacts ==
    ASSUME NEW r \in JobRecord, NEW u \in BOOLEAN
    PROVE  LET n == [r EXCEPT !.raced = TRUE, !.undone = u]
           IN  /\ n \in JobRecord /\ n.step = r.step /\ n.kind = r.kind /\ n.tenant = r.tenant
               /\ n.cluster = r.cluster /\ n.project = r.project /\ n.wait = r.wait
               /\ n.todo = r.todo /\ n.wants = r.wants /\ n.read = r.read
               /\ n.raced = TRUE /\ n.undone = u
  BY DEF JobRecord

(* Another's job is as it was, or knows of what was written.               *)
LEMMA Elsewhere ==
    ASSUME TenancyIInv, NEW q \in Worker, NEW n \in JobRecord,
           n.step = job[q].step, n.kind = job[q].kind, n.tenant = job[q].tenant,
           n.cluster = job[q].cluster, n.wait = job[q].wait, n.todo = job[q].todo,
           n.wants = job[q].wants, n.read = job[q].read,
           job[q].raced => n.raced, job[q].undone => n.undone,
           made' \in Nat, made <= made', admins \subseteq admins',
           \A t \in Tenant : Has(t)' /\ tenants'[t].cluster # 0 =>
              (Has(t) /\ tenants[t].cluster = tenants'[t].cluster) \/ tenants'[t].cluster > made,
           n.kind = "seed" /\ Has(n.tenant) =>
              n.raced \/ (Has(n.tenant)' /\ (tenants[n.tenant].cluster # 0 =>
                                               tenants'[n.tenant].cluster = tenants[n.tenant].cluster)),
           n.kind = "seed" /\ n.cluster # 0 => \A w \in n.wants :
              /\ Gives(n.cluster, w) => n.undone \/ Gives(n.cluster, w)'
              /\ n.raced \/ grants'[KeyOf(n.cluster, w)] = grants[KeyOf(n.cluster, w)]
    PROVE  JobOK(q, n)' /\ SeedOK(n)'
  <1> DEFINE r == job[q]
  <1>1. /\ r \in JobRecord /\ JobOK(q, r) /\ SeedOK(r) /\ made \in Nat /\ r.cluster \in Nat
        /\ r.todo \in Seq(Asked) /\ r.wants \in SUBSET Asked
    BY SelfServiceAssumption DEF TenancyIInv, TenancyTypeOK, JobRecord
  <1> HIDE DEF r
  <1>2. JobOK(q, n)'
    BY <1>1 DEF JobOK, r
  <1>3. ASSUME n.kind = "seed" PROVE SeedOK(n)'
    <2>1. SeedStep(r) /\ SeedWants(r) /\ r.kind = "seed"
      BY <1>1, <1>3 DEF SeedOK, r
    <2>2. n.cluster # 0 => \A t \in Tenant : Has(t)' /\ tenants'[t].cluster = n.cluster => t = n.tenant
      <3> SUFFICES ASSUME n.cluster # 0, NEW t \in Tenant, Has(t)', tenants'[t].cluster = n.cluster
                   PROVE  t = n.tenant
        OBVIOUS
      <3>1. n.cluster <= made /\ n.cluster \in Nat
        BY <1>1, <2>1 DEF SeedWants, r
      <3>2. Has(t) /\ tenants[t].cluster = n.cluster
        BY <1>1, <3>1
      <3> QED
        BY <2>1, <3>2 DEF SeedWants, r
    <2>3. \A w \in n.wants : Left(n.todo, w) \/
            (n.cluster # 0 /\ Over(n.todo, w) /\ (n.undone \/ Gives(n.cluster, w)'))
      BY <1>3, <2>1 DEF SeedWants, r
    <2>3a. n.cluster <= made'
      <3>1. r.cluster <= made /\ n.cluster = r.cluster
        BY <2>1 DEF SeedWants, r
      <3>2. PICK c \in Nat : c = r.cluster
        BY <1>1
      <3>3. c <= made'
        BY <1>1, <3>1, <3>2
      <3> QED
        BY <3>1, <3>2, <3>3
    <2>4. SeedWants(n)'
      BY <2>1, <2>2, <2>3, <2>3a DEF SeedWants, r
    <2>5. n.step \in {"create project", "wait for project", "create grant", "read grant", "update grant"}
            => n.raced \/ Within(n)'
      BY <1>3, <2>1 DEF SeedStep, Within, r
    <2>6. n.step = "tenant client" /\ n.wait => n.raced \/ (Has(n.tenant)' /\ tenants'[n.tenant].cluster # 0)
      BY <1>3, <2>1 DEF SeedStep, r
    <2>7. n.step \in {"read grant", "update grant"} =>
            n.raced \/ grants'[KeyOf(n.cluster, Head(n.todo))] = grants[KeyOf(n.cluster, Head(n.todo))]
      <3> SUFFICES ASSUME n.step \in {"read grant", "update grant"}
                   PROVE  n.raced \/ grants'[KeyOf(n.cluster, Head(n.todo))] = grants[KeyOf(n.cluster, Head(n.todo))]
        OBVIOUS
      <3>1. n.cluster # 0 /\ r.todo # <<>>
        BY <1>1, <2>1 DEF SeedStep, JobOK, r
      <3>2. 1 \in DOMAIN r.todo /\ Head(r.todo) = r.todo[1]
        BY <1>1, <3>1, FirstFacts
      <3>3. PICK w \in n.wants : Same(w, Head(n.todo))
        BY <2>1, <3>2 DEF SeedWants, r
      <3>4. KeyOf(n.cluster, w) = KeyOf(n.cluster, Head(n.todo))
        BY <3>3 DEF Same, KeyOf
      <3> QED
        BY <1>3, <3>1, <3>4
    <2>8. SeedStep(n)'
      BY <2>1, <2>5, <2>6, <2>7 DEF SeedStep, r
    <2> QED
      BY <2>4, <2>8 DEF SeedOK
  <1> QED
    BY <1>2, <1>3 DEF SeedOK

(* A step of one job that writes neither tenants nor grants.               *)
LEMMA JobGoesOn ==
    ASSUME TenancyIInv, NEW p \in Worker, NEW n \in JobRecord, Becomes(p, n),
           UNCHANGED <<tenants, grants, mirror, made, admins>>,
           projects' \in SUBSET ProjectRecord, ProjectsByAdmins', JobOK(p, n), SeedOK(n)
    PROVE  TenancyIInv'
  <1>1. /\ job' \in [Worker -> JobRecord] /\ job'[p] = n
        /\ \A q \in Worker : q # p => job'[q] = job[q]
    BY DEF Becomes, TenancyIInv, TenancyTypeOK
  <1>2. TenancyTypeOK' /\ OwnClusters'
    BY <1>1 DEF TenancyIInv, TenancyTypeOK, OwnClusters, Has
  <1>3. AdminsKnown'
    BY DEF TenancyIInv, AdminsKnown
  <1>4. ASSUME NEW q \in Worker PROVE (JobOK(q, job[q]) /\ SeedOK(job[q]))'
    <2>1. JobOK(q, job'[q]) /\ SeedOK(job'[q])
      BY <1>1 DEF TenancyIInv
    <2>2. JobOK(q, job'[q]) <=> JobOK(q, job[q])'
      BY DEF JobOK
    <2>3. SeedOK(job'[q]) <=> SeedOK(job[q])'
      BY DEF SeedOK, SeedStep, SeedWants, Has, Within, Gives
    <2> QED
      BY <2>1, <2>2, <2>3
  <1> QED
    BY <1>2, <1>3, <1>4 DEF TenancyIInv

(* ... of which most leave projects alone.                                 *)
LEMMA JobAlone ==
    ASSUME TenancyIInv, NEW p \in Worker, NEW n \in JobRecord, Becomes(p, n),
           UNCHANGED <<tenants, projects, grants, mirror, made, admins>>, JobOK(p, n), SeedOK(n)
    PROVE  TenancyIInv'
  <1>1. projects' \in SUBSET ProjectRecord /\ ProjectsByAdmins'
    BY DEF TenancyIInv, TenancyTypeOK, AdminsKnown, ProjectsByAdmins
  <1> QED
    BY <1>1, JobGoesOn

LEMMA KeyFacts ==
    ASSUME NEW c \in TenantCluster, NEW e, e.subject \in User, e.project \in Project \cup {TenantWide}
    PROVE  /\ KeyOf(c, e) \in GrantKey /\ KeyOf(c, e).cluster = c
           /\ KeyOf(c, e).subject = e.subject /\ KeyOf(c, e).project = e.project
  BY DEF KeyOf, GrantKey

LEMMA JobNamed ==
    ASSUME NEW q, NEW n, n = job'[q], JobOK(q, n)', SeedOK(n)'
    PROVE  (JobOK(q, job[q]) /\ SeedOK(job[q]))'
  <1>1. JobOK(q, job[q])'
    BY DEF JobOK
  <1>2. SeedOK(job[q])'
    BY DEF SeedOK, SeedStep, SeedWants, Has, Within, Gives
  <1> QED
    BY <1>1, <1>2

(* Writing a grant concerns every job that wants it.                       *)
LEMMA GrantWritten ==
    ASSUME TenancyIInv, NEW p, NEW n, NEW key \in GrantKey, NEW g \in GrantRecord \cup {NoGrant},
           WritesGrant(p, n, key, g), UNCHANGED <<projects, mirror, made>>,
           p \in Worker => n \in JobRecord /\ JobOK(p, n)' /\ SeedOK(n)',
           tenants' \in [Tenant -> TenantRecord \cup {NoTenant}],
           \A t \in Tenant : (Has(t)' <=> Has(t)) /\ (Has(t) => tenants'[t].cluster = tenants[t].cluster)
    PROVE  TenancyIInv'
  <1> DEFINE same(w, r) == r.cluster \in {0, key.cluster} /\ w.subject = key.subject /\ w.project = key.project
             touches(r) == \E w \in r.wants : same(w, r)
             undoes(r) == g = NoGrant \/ \E w \in r.wants : same(w, r) /\ w.role # g.role
             noticed(r) == [r EXCEPT !.raced = TRUE, !.undone = @ \/ undoes(r)]
  <1>1. /\ grants' = [grants EXCEPT ![key] = g]
        /\ admins' = IF g # NoGrant /\ g.role = "admin" /\ key.project = TenantWide
                     THEN admins \cup {<<key.subject, key.cluster>>} ELSE admins
        /\ job' = [q \in Worker |-> IF q = p THEN n
                     ELSE IF job[q].step = "rest" \/ ~touches(job[q]) THEN job[q] ELSE noticed(job[q])]
    BY DEF WritesGrant, Noticed, TenancyIInv, TenancyTypeOK
  <1>2. /\ grants' \in [GrantKey -> GrantRecord \cup {NoGrant}] /\ grants'[key] = g
        /\ \A k \in GrantKey : k # key => grants'[k] = grants[k]
    BY <1>1 DEF TenancyIInv, TenancyTypeOK
  <1>3. admins \subseteq admins'
    BY <1>1
  <1>4. made \in Nat /\ made' = made
    BY SelfServiceAssumption DEF TenancyIInv, TenancyTypeOK
  <1>5. ASSUME NEW q \in Worker, q # p
        PROVE  job'[q] \in JobRecord /\ (JobOK(q, job[q]) /\ SeedOK(job[q]))'
    <2> DEFINE r == job[q]
    <2>0. PICK m : m = job'[q]
      OBVIOUS
    <2>1. r \in JobRecord /\ r.wants \in SUBSET Asked /\ r.cluster \in 0 .. MaxClusters /\ SeedOK(r)
      BY DEF TenancyIInv, TenancyTypeOK, JobRecord
    <2>2. m = IF r.step = "rest" \/ ~touches(r) THEN r ELSE noticed(r)
      BY <1>1, <1>5, <2>0
    <2>3. /\ noticed(r) \in JobRecord /\ noticed(r).step = r.step /\ noticed(r).kind = r.kind
          /\ noticed(r).tenant = r.tenant /\ noticed(r).cluster = r.cluster /\ noticed(r).wait = r.wait
          /\ noticed(r).todo = r.todo /\ noticed(r).wants = r.wants /\ noticed(r).read = r.read
          /\ noticed(r).raced /\ (r.undone \/ undoes(r) => noticed(r).undone)
      <3> DEFINE u == r.undone \/ undoes(r)
      <3>1. u \in BOOLEAN
        OBVIOUS
      <3>2. noticed(r) = [r EXCEPT !.raced = TRUE, !.undone = u]
        OBVIOUS
      <3>3. (r.undone \/ undoes(r)) = u
        OBVIOUS
      <3> HIDE DEF noticed, r, u, undoes
      <3>4. PICK n1 : n1 = [r EXCEPT !.raced = TRUE, !.undone = u]
        OBVIOUS
      <3>5. /\ n1 \in JobRecord /\ n1.step = r.step /\ n1.kind = r.kind /\ n1.tenant = r.tenant
            /\ n1.cluster = r.cluster /\ n1.wait = r.wait /\ n1.todo = r.todo /\ n1.wants = r.wants
            /\ n1.read = r.read /\ n1.raced = TRUE /\ n1.undone = u
        BY <2>1, <3>1, <3>4 DEF JobRecord
      <3> QED
        BY <3>2, <3>3, <3>4, <3>5
    <2> HIDE DEF noticed, r
    <2>4. /\ m \in JobRecord /\ m.step = r.step /\ m.kind = r.kind
          /\ m.tenant = r.tenant /\ m.cluster = r.cluster /\ m.wait = r.wait
          /\ m.todo = r.todo /\ m.wants = r.wants /\ m.read = r.read
          /\ (r.raced => m.raced) /\ (r.undone => m.undone)
          /\ r.step # "rest" /\ touches(r) => m.raced /\ (undoes(r) => m.undone)
      BY <2>1, <2>2, <2>3
    <2>5. ASSUME m.kind = "seed", m.cluster # 0, NEW w \in m.wants
          PROVE  /\ Gives(m.cluster, w) => m.undone \/ Gives(m.cluster, w)'
                 /\ m.raced \/ grants'[KeyOf(m.cluster, w)] = grants[KeyOf(m.cluster, w)]
      <3> DEFINE k == KeyOf(m.cluster, w)
      <3>1. /\ k \in GrantKey /\ k.cluster = m.cluster /\ k.subject = w.subject /\ k.project = w.project
        <4>1. m.cluster \in TenantCluster /\ w.subject \in User /\ w.project \in Project \cup {TenantWide}
          BY <2>1, <2>4, <2>5, SelfServiceAssumption DEF TenantCluster, Asked
        <4> QED
          BY <4>1, KeyFacts
      <3>2. CASE k # key
        <4>1. grants'[k] = grants[k]
          BY <1>2, <3>1, <3>2
        <4>2. Gives(m.cluster, w)' <=> grants'[k] # NoGrant /\ grants'[k].role = w.role
          BY DEF Gives
        <4> QED
          BY <4>1, <4>2 DEF Gives
      <3>3. CASE k = key
        <4>1. r.step # "rest" /\ w \in r.wants /\ same(w, r)
          BY <2>1, <2>4, <2>5, <3>1, <3>3 DEF SeedOK, SeedStep
        <4>2. touches(r)
          BY <4>1
        <4>3. g = NoGrant \/ w.role # g.role => undoes(r)
          BY <4>1
        <4>4. m.raced /\ (undoes(r) => m.undone)
          BY <2>4, <4>1, <4>2
        <4>5. Gives(m.cluster, w)' <=> g # NoGrant /\ g.role = w.role
          <5>1. Gives(m.cluster, w)' <=> grants'[k] # NoGrant /\ grants'[k].role = w.role
            BY DEF Gives
          <5> QED
            BY <1>2, <3>3, <5>1
        <4> QED
          BY <4>3, <4>4, <4>5
      <3> QED
        BY <3>2, <3>3
    <2>6. JobOK(q, m)' /\ SeedOK(m)'
      <3> HIDE DEF touches, undoes
      <3>1. /\ m.step = job[q].step /\ m.kind = job[q].kind /\ m.tenant = job[q].tenant
            /\ m.cluster = job[q].cluster /\ m.wait = job[q].wait /\ m.todo = job[q].todo
            /\ m.wants = job[q].wants /\ m.read = job[q].read
            /\ (job[q].raced => m.raced) /\ (job[q].undone => m.undone)
        BY <2>4 DEF r
      <3>2. \A t \in Tenant : Has(t)' /\ tenants'[t].cluster # 0 =>
              (Has(t) /\ tenants[t].cluster = tenants'[t].cluster) \/ tenants'[t].cluster > made
        OBVIOUS
      <3>3. m.kind = "seed" /\ Has(m.tenant) =>
              m.raced \/ (Has(m.tenant)' /\ (tenants[m.tenant].cluster # 0 =>
                                               tenants'[m.tenant].cluster = tenants[m.tenant].cluster))
        <4>1. m.kind = "seed" => m.tenant \in Tenant
          BY <2>1, <2>4 DEF TenancyIInv, JobOK, SeedOK, SeedStep, r
        <4>2. ASSUME m.kind = "seed", Has(m.tenant)
              PROVE  Has(m.tenant)' /\ tenants'[m.tenant].cluster = tenants[m.tenant].cluster
          <5> DEFINE t == m.tenant
          <5>1. t \in Tenant
            BY <4>1, <4>2
          <5> HIDE DEF t
          <5>2. Has(t) => Has(t)' /\ tenants'[t].cluster = tenants[t].cluster
            BY <5>1
          <5> QED
            BY <4>2, <5>2 DEF t
        <4> QED
          BY <4>2
      <3>4. made' \in Nat /\ made <= made'
        BY <1>4
      <3> QED
        BY <1>3, <2>4, <2>5, <3>1, <3>2, <3>3, <3>4, Elsewhere
    <2> QED
      BY <2>0, <2>4, <2>6, JobNamed
  <1>6. ASSUME NEW q \in Worker
        PROVE  job'[q] \in JobRecord /\ (JobOK(q, job[q]) /\ SeedOK(job[q]))'
    <2>1. CASE q = p
      <3>1. job'[q] = n
        BY <1>1, <2>1
      <3> QED
        BY <2>1, <3>1, JobNamed
    <2> QED
      BY <1>5, <2>1
  <1>7. TenancyTypeOK'
    <2>1. job' \in [Worker -> JobRecord]
      BY <1>1, <1>6
    <2> QED
      BY <1>2, <2>1 DEF TenancyIInv, TenancyTypeOK
  <1>8. OwnClusters'
    BY DEF TenancyIInv, OwnClusters, Has
  <1>9. AdminsKnown'
    <2>1. ProjectsByAdmins'
      BY <1>3 DEF TenancyIInv, AdminsKnown, ProjectsByAdmins
    <2>2. ASSUME NEW k \in GrantKey, k.project = TenantWide
          PROVE  /\ grants'[k] # NoGrant /\ grants'[k].role = "admin" => <<k.subject, k.cluster>> \in admins'
                 /\ mirror'.roles[k] = "admin" => <<k.subject, k.cluster>> \in admins'
      BY <1>1, <1>2, <1>3, <2>2 DEF TenancyIInv, AdminsKnown
    <2> QED
      BY <2>1, <2>2 DEF AdminsKnown
  <1> QED
    BY <1>6, <1>7, <1>8, <1>9 DEF TenancyIInv

-----------------------------------------------------------------------------
(* Commands begin. *)
LEMMA BeginStep ==
    ASSUME TenancyIInv, NEW p \in Worker, NEW n \in JobRecord, Begin(p, n),
           n.step \in {"create tenant", "tenant client"}, n.tenant \in Tenant, n.cluster = 0,
           n.kind = "revoke" => n.todo # <<>>,
           n.kind = "seed" => n.step = "create tenant" /\ n.wants = Wants(n.todo)
    PROVE  TenancyIInv'
  <1>1. n.cluster <= made
    BY MadeFacts DEF TenancyIInv
  <1>2. JobOK(p, n)
    BY DEF JobOK
  <1>3. SeedOK(n)
    <2> SUFFICES ASSUME n.kind = "seed" PROVE SeedStep(n) /\ SeedWants(n)
      BY DEF SeedOK
    <2>1. n.todo \in Seq(Asked)
      BY DEF JobRecord
    <2>2. SeedWants(n)
      BY <1>1, <2>1, WantsFacts DEF SeedWants
    <2>3. SeedStep(n)
      BY DEF SeedStep
    <2> QED
      BY <2>2, <2>3
  <1> QED
    BY <1>2, <1>3, JobAlone DEF Begin

LEMMA EntryFacts ==
    ASSUME NEW u \in User, NEW name \in Project \cup {TenantWide}, NEW role \in Role
    PROVE  Entry(u, name, role) \in Asked
  BY DEF Entry, Asked

LEMMA SeedBegins ==
    ASSUME TenancyIInv, NEW p \in Worker, NEW t \in Tenant, NEW s \in Seeds, NEW wait \in BOOLEAN,
           Seed(p, t, s, wait)
    PROVE  TenancyIInv'
  <1> DEFINE todo == [i \in DOMAIN s.admins |-> Entry(s.admins[i], TenantWide, "admin")]
                       \o [i \in DOMAIN s.views |-> Entry(s.views[i], s.project, "view")]
             admin == IF s.admins = <<>> THEN Nobody ELSE Head(s.admins)
             wants == Wants(todo)
             n == [Resting EXCEPT !.kind = "seed", !.step = "create tenant", !.tenant = t,
                     !.admin = admin, !.project = s.project, !.wait = wait, !.todo = todo, !.wants = wants]
  <1>1. /\ s.admins \in Seq(User) /\ s.views \in Seq(User) /\ s.project \in Project \cup {TenantWide}
    BY SelfServiceAssumption
  <1>2. todo \in Seq(Asked)
    <2>1. "admin" \in Role /\ "view" \in Role /\ TenantWide \in Project \cup {TenantWide}
      BY DEF Role
    <2>2. [i \in DOMAIN s.admins |-> Entry(s.admins[i], TenantWide, "admin")] \in Seq(Asked)
      <3>1. ASSUME NEW i \in DOMAIN s.admins PROVE Entry(s.admins[i], TenantWide, "admin") \in Asked
        <4>1. s.admins[i] \in User
          BY <1>1
        <4> QED
          BY <1>1, <2>1, <4>1, EntryFacts
      <3> QED
        BY <1>1, <3>1
    <2>3. [i \in DOMAIN s.views |-> Entry(s.views[i], s.project, "view")] \in Seq(Asked)
      <3>1. ASSUME NEW i \in DOMAIN s.views PROVE Entry(s.views[i], s.project, "view") \in Asked
        <4>1. s.views[i] \in User
          BY <1>1
        <4> QED
          BY <1>1, <2>1, <4>1, EntryFacts
      <3> QED
        BY <1>1, <3>1
    <2> QED
      BY <2>2, <2>3
  <1>3. admin \in User \cup {Nobody}
    BY <1>1
  <1>4. Begin(p, n)
    BY DEF Seed
  <1> HIDE DEF todo, admin
  <1>5. wants \in SUBSET Asked
    BY <1>2, WantsFacts
  <1> HIDE DEF wants
  <1>6. /\ n \in JobRecord /\ n.kind = "seed" /\ n.step = "create tenant" /\ n.tenant = t
        /\ n.cluster = 0 /\ n.todo = todo /\ n.wants = wants
    BY <1>1, <1>2, <1>3, <1>5, RestingFacts, JobWords DEF JobRecord
  <1> HIDE DEF n
  <1> QED
    BY <1>4, <1>6, BeginStep DEF wants

LEMMA OthersBegin ==
    ASSUME TenancyIInv, NEW p \in Worker, NEW t \in Tenant,
           \/ \E first \in User \cup {Nobody}, wait \in BOOLEAN : CreateTenantCommand(p, t, first, wait)
           \/ \E name \in Project : DeleteProjectCommand(p, t, name)
                \/ \E wait \in BOOLEAN : CreateProjectCommand(p, t, name, wait)
    PROVE  TenancyIInv'
  <1>1. ASSUME NEW first \in User \cup {Nobody}, NEW wait \in BOOLEAN, CreateTenantCommand(p, t, first, wait)
        PROVE  TenancyIInv'
    <2>1. PICK n : n = [Resting EXCEPT !.kind = "tenant", !.step = "create tenant", !.tenant = t,
                          !.admin = first, !.wait = wait]
      OBVIOUS
    <2>2. n \in JobRecord /\ n.kind = "tenant" /\ n.step = "create tenant" /\ n.tenant = t /\ n.cluster = 0
      BY <2>1, RestingFacts, JobWords DEF JobRecord
    <2>3. Begin(p, n)
      BY <1>1, <2>1 DEF CreateTenantCommand
    <2> QED
      BY <2>2, <2>3, BeginStep
  <1>2. ASSUME NEW name \in Project, NEW wait \in BOOLEAN, CreateProjectCommand(p, t, name, wait)
        PROVE  TenancyIInv'
    <2>1. PICK n : n = [Resting EXCEPT !.kind = "project", !.step = "tenant client", !.tenant = t,
                          !.project = name, !.wait = wait]
      OBVIOUS
    <2>2. n \in JobRecord /\ n.kind = "project" /\ n.step = "tenant client" /\ n.tenant = t /\ n.cluster = 0
      BY <2>1, RestingFacts, JobWords DEF JobRecord
    <2>3. Begin(p, n)
      BY <1>2, <2>1 DEF CreateProjectCommand
    <2> QED
      BY <2>2, <2>3, BeginStep
  <1>3. ASSUME NEW name \in Project, DeleteProjectCommand(p, t, name) PROVE TenancyIInv'
    <2>1. PICK n : n = [Resting EXCEPT !.kind = "delete project", !.step = "tenant client", !.tenant = t,
                          !.project = name]
      OBVIOUS
    <2>2. /\ n \in JobRecord /\ n.kind = "delete project" /\ n.step = "tenant client"
          /\ n.tenant = t /\ n.cluster = 0
      BY <2>1, RestingFacts, JobWords DEF JobRecord
    <2>3. Begin(p, n)
      BY <1>3, <2>1 DEF DeleteProjectCommand
    <2> QED
      BY <2>2, <2>3, BeginStep
  <1> QED
    BY <1>1, <1>2, <1>3

LEMMA GrantBegins ==
    ASSUME TenancyIInv, NEW p \in Worker, NEW t \in Tenant, NEW e \in Asked, Grant(p, t, e) \/ Revoke(p, t, e)
    PROVE  TenancyIInv'
  <1>1. <<e>> \in Seq(Asked) /\ <<e>> # <<>> /\ {e} \in SUBSET Asked
    OBVIOUS
  <1>2. CASE Grant(p, t, e)
    <2>1. PICK n : n = [Resting EXCEPT !.kind = "grant", !.step = "tenant client", !.tenant = t,
                          !.todo = <<e>>, !.wants = {e}]
      OBVIOUS
    <2>2. n \in JobRecord /\ n.kind = "grant" /\ n.step = "tenant client" /\ n.tenant = t /\ n.cluster = 0
      BY <1>1, <2>1, RestingFacts, JobWords DEF JobRecord
    <2>3. Begin(p, n)
      BY <1>2, <2>1 DEF Grant
    <2> QED
      BY <2>2, <2>3, BeginStep
  <1>3. CASE Revoke(p, t, e)
    <2>1. PICK n : n = [Resting EXCEPT !.kind = "revoke", !.step = "tenant client", !.tenant = t, !.todo = <<e>>]
      OBVIOUS
    <2>2. /\ n \in JobRecord /\ n.kind = "revoke" /\ n.step = "tenant client" /\ n.tenant = t
          /\ n.cluster = 0 /\ n.todo = <<e>>
      BY <1>1, <2>1, RestingFacts, JobWords DEF JobRecord
    <2>3. Begin(p, n)
      BY <1>3, <2>1 DEF Revoke
    <2> QED
      BY <1>1, <2>2, <2>3, BeginStep
  <1> QED
    BY <1>2, <1>3

(* Where membership add and remove act is somebody's project.              *)
LEMMA MembershipBegins ==
    ASSUME TenancyIInv, NEW p \in Worker, NEW t \in Tenant \cup {NoTenant}, NEW u \in User,
           NEW role \in Role, NEW name \in Project \cup {TenantWide}, MembershipCommand(p, t, name, u, role)
    PROVE  TenancyIInv'
  <1>1. PICK current \in Remembered :
          LET at == SelectionFor(t, name, current) IN
          Grant(p, at.tenant, Entry(u, at.project, role)) \/ Revoke(p, at.tenant, Entry(u, at.project, role))
    BY DEF MembershipCommand
  <1> DEFINE at == SelectionFor(t, name, current)
  <1>2. current.tenant \in Tenant /\ current.project \in Project
    BY SelfServiceAssumption
  <1>3. at.tenant \in Tenant /\ at.project \in Project \cup {TenantWide}
    BY <1>2 DEF SelectionFor
  <1>4. Entry(u, at.project, role) \in Asked
    BY <1>3, EntryFacts
  <1> QED
    BY <1>1, <1>3, <1>4, GrantBegins

-----------------------------------------------------------------------------
(* Their requests. *)
LEMMA GoesTo ==
    ASSUME TenancyIInv, NEW p \in Worker, NEW s \in JobStep, NEW n, n = [job[p] EXCEPT !.step = s],
           Becomes(p, n), UNCHANGED <<tenants, grants, mirror, made, admins>>,
           projects' \in SUBSET ProjectRecord, ProjectsByAdmins',
           job[p].step # "rest", s \notin {"rest", "write", "update grant"},
           s \in {"create grant", "read grant", "delete grant"} => job[p].cluster # 0 /\ job[p].todo # <<>>,
           s \in {"create grant", "read grant"} => job[p].kind # "revoke",
           n.kind = "seed" => SeedStep(n)
    PROVE  TenancyIInv'
  <1>1. /\ job[p] \in JobRecord /\ JobOK(p, job[p]) /\ SeedOK(job[p])
    BY DEF TenancyIInv, TenancyTypeOK
  <1>2. /\ n \in JobRecord /\ n.step = s /\ n.kind = job[p].kind /\ n.tenant = job[p].tenant
        /\ n.cluster = job[p].cluster /\ n.todo = job[p].todo /\ n.wants = job[p].wants
        /\ n.undone = job[p].undone /\ n.raced = job[p].raced
    BY <1>1, JobWords DEF JobRecord
  <1>3. JobOK(p, n)
    BY <1>1, <1>2 DEF JobOK
  <1>4. SeedOK(n)
    BY <1>1, <1>2 DEF SeedOK, SeedWants
  <1> QED
    BY <1>2, <1>3, <1>4, JobGoesOn

LEMMA ProjectsKept == ASSUME TenancyIInv, projects' = projects, admins' = admins
                      PROVE  projects' \in SUBSET ProjectRecord /\ ProjectsByAdmins'
  BY DEF TenancyIInv, TenancyTypeOK, AdminsKnown, ProjectsByAdmins

(* A tenant made, or given the newest workspace.                           *)
LEMMA TenantWritten ==
    ASSUME TenancyIInv, UNCHANGED <<projects, grants, mirror, admins>>,
           NEW t \in Tenant, NEW x \in TenantRecord, tenants' = [tenants EXCEPT ![t] = x],
           \/ ~Has(t) /\ x.cluster = 0 /\ made' = made
           \/ Has(t) /\ tenants[t].cluster = 0 /\ x.cluster = made' /\ made' = made + 1 /\ made < MaxClusters,
           job' \in [Worker -> JobRecord],
           \A q \in Worker : job'[q] = job[q] \/ (JobOK(q, job[q]) /\ SeedOK(job[q]))'
    PROVE  TenancyIInv'
  <1>1. /\ made \in Nat /\ made' \in 0 .. MaxClusters /\ made' \in Nat /\ made <= made'
        /\ (x.cluster = 0 \/ (x.cluster > made /\ x.cluster <= made'))
    <2>1. made \in Nat /\ made <= MaxClusters /\ MaxClusters \in Nat
      BY MadeFacts, SelfServiceAssumption DEF TenancyIInv
    <2> QED
      BY <2>1
  <1>2. /\ tenants' \in [Tenant -> TenantRecord \cup {NoTenant}] /\ tenants'[t] = x /\ Has(t)'
        /\ \A u \in Tenant : u # t => tenants'[u] = tenants[u] /\ (Has(u)' <=> Has(u))
    BY SelfServiceAssumption DEF TenancyIInv, TenancyTypeOK, Has
  <1>3. TenancyTypeOK'
    BY <1>1, <1>2 DEF TenancyIInv, TenancyTypeOK
  <1>4. ASSUME NEW u \in Tenant, Has(u) PROVE tenants[u].cluster \in Nat /\ tenants[u].cluster <= made
    BY <1>4 DEF TenancyIInv, TenancyTypeOK, OwnClusters, Has, TenantRecord
  <1>5. OwnClusters'
    <2>1. ASSUME NEW u \in Tenant, Has(u)' PROVE tenants'[u].cluster <= made'
      <3>1. CASE u = t
        BY <1>1, <1>2, <3>1
      <3>2. CASE u # t
        BY <1>1, <1>2, <1>4, <2>1, <3>2
      <3> QED
        BY <3>1, <3>2
    <2>2. ASSUME NEW u \in Tenant, Has(u)', u # t PROVE tenants'[u].cluster # x.cluster \/ x.cluster = 0
      BY <1>1, <1>2, <1>4, <2>2
    <2>3. ASSUME NEW u \in Tenant, NEW v \in Tenant, Has(u)', Has(v)', tenants'[u].cluster = tenants'[v].cluster,
                 tenants'[u].cluster # 0
          PROVE  u = v
      BY <1>2, <2>2, <2>3 DEF TenancyIInv, OwnClusters
    <2> QED
      BY <2>1, <2>3 DEF OwnClusters
  <1>6. AdminsKnown'
    BY DEF TenancyIInv, AdminsKnown, ProjectsByAdmins
  <1>7. ASSUME NEW q \in Worker PROVE (JobOK(q, job[q]) /\ SeedOK(job[q]))'
    <2>1. CASE job'[q] = job[q]
      <3>0. PICK n : n = job[q]
        OBVIOUS
      <3>1. n \in JobRecord
        BY <3>0 DEF TenancyIInv, TenancyTypeOK
      <3>2. \A u \in Tenant : Has(u)' /\ tenants'[u].cluster # 0 =>
              (Has(u) /\ tenants[u].cluster = tenants'[u].cluster) \/ tenants'[u].cluster > made
        BY <1>1, <1>2
      <3>3. n.kind = "seed" /\ Has(n.tenant) =>
              n.raced \/ (Has(n.tenant)' /\ (tenants[n.tenant].cluster # 0 =>
                                               tenants'[n.tenant].cluster = tenants[n.tenant].cluster))
        <4>1. n.kind = "seed" => n.tenant \in Tenant
          BY <3>0 DEF TenancyIInv, JobOK, SeedOK, SeedStep
        <4>2. \A u \in Tenant : Has(u) => Has(u)' /\ (tenants[u].cluster # 0 => tenants'[u].cluster = tenants[u].cluster)
          BY <1>2
        <4> QED
          BY <4>1, <4>2
      <3>4. n.kind = "seed" /\ n.cluster # 0 => \A w \in n.wants :
              /\ Gives(n.cluster, w) => n.undone \/ Gives(n.cluster, w)'
              /\ n.raced \/ grants'[KeyOf(n.cluster, w)] = grants[KeyOf(n.cluster, w)]
        BY DEF Gives
      <3>5. JobOK(q, n)' /\ SeedOK(n)'
        BY <1>1, <3>0, <3>1, <3>2, <3>3, <3>4, Elsewhere
      <3> QED
        BY <2>1, <3>0, <3>5, JobNamed
    <2> QED
      BY <2>1
  <1> QED
    BY <1>3, <1>5, <1>6, <1>7 DEF TenancyIInv

LEMMA NextFacts ==
    ASSUME NEW r \in JobRecord, NEW n, n = NextGrant(r)
    PROVE  /\ n \in JobRecord /\ n.step = (IF r.todo = <<>> THEN "done" ELSE "create grant")
           /\ n.kind = r.kind /\ n.tenant = r.tenant /\ n.cluster = r.cluster /\ n.wait = r.wait
           /\ n.todo = r.todo /\ n.wants = r.wants /\ n.read = r.read
           /\ n.undone = r.undone /\ n.raced = r.raced
  <1> DEFINE s == IF r.todo = <<>> THEN "done" ELSE "create grant"
  <1>1. s \in JobStep /\ n = [r EXCEPT !.step = s]
    BY JobWords DEF NextGrant
  <1> HIDE DEF s
  <1>2. /\ n \in JobRecord /\ n.step = s
        /\ n.kind = r.kind /\ n.tenant = r.tenant /\ n.cluster = r.cluster /\ n.wait = r.wait
        /\ n.todo = r.todo /\ n.wants = r.wants /\ n.read = r.read
        /\ n.undone = r.undone /\ n.raced = r.raced
    BY <1>1, StepFacts
  <1> QED
    BY <1>2 DEF s

LEMMA CreateTenantStep == ASSUME TenancyIInv, NEW p \in Worker, CreateTenant(p) PROVE TenancyIInv'
  <1> DEFINE r == job[p]
             s == IF r.wait THEN "wait for tenant" ELSE IF r.kind = "seed" THEN "tenant client" ELSE "done"
  <1>1. /\ r \in JobRecord /\ r.step = "create tenant" /\ JobOK(p, r) /\ SeedOK(r)
        /\ UNCHANGED <<projects, grants, mirror, made, admins>>
    BY DEF CreateTenant, TenancyIInv, TenancyTypeOK
  <1>2. r.tenant \in Tenant /\ r.admin \in User \cup {Nobody}
    BY <1>1 DEF JobOK, JobRecord
  <1>3. PICK n : n = AfterTenant(r)
    OBVIOUS
  <1>4. s \in JobStep /\ n = [r EXCEPT !.step = s]
    BY <1>3, JobWords DEF AfterTenant
  <1>5. /\ n \in JobRecord /\ n.step = s /\ n.kind = r.kind /\ n.tenant = r.tenant
        /\ n.cluster = r.cluster /\ n.todo = r.todo /\ n.wants = r.wants /\ n.wait = r.wait
        /\ n.undone = r.undone /\ n.raced = r.raced
    BY <1>1, <1>4 DEF JobRecord
  <1>6. n.kind = "seed" => n.cluster = 0 /\ n.step \in {"wait for tenant", "tenant client"}
                           /\ (n.step = "tenant client" => ~n.wait)
    BY <1>1, <1>5 DEF SeedOK, SeedStep
  <1>7. n.kind = "seed" => SeedStep(n)
    BY <1>6 DEF SeedStep
  <1>8. CASE tenants[r.tenant] = NoTenant
    <2> DEFINE x == NewTenant(r.admin)
    <2>1. /\ tenants' = [tenants EXCEPT ![r.tenant] = x] /\ Becomes(p, n)
      BY <1>3, <1>8 DEF CreateTenant
    <2>2. x \in TenantRecord /\ x.cluster = 0
      BY <1>2, SelfServiceAssumption DEF NewTenant, TenantRecord
    <2>3. job' \in [Worker -> JobRecord] /\ job'[p] = n /\ \A q \in Worker : q # p => job'[q] = job[q]
      BY <1>5, <2>1 DEF Becomes, TenancyIInv, TenancyTypeOK
    <2>4. JobOK(p, n)'
      BY <1>1, <1>5 DEF JobOK
    <2>5. SeedOK(n)'
      <3> SUFFICES ASSUME n.kind = "seed" PROVE SeedStep(n)' /\ SeedWants(n)'
        BY DEF SeedOK
      <3>1. SeedStep(n)'
        BY <1>6 DEF SeedStep
      <3>2. SeedWants(n)'
        BY <1>1, <1>5, <1>6 DEF SeedOK, SeedWants
      <3> QED
        BY <3>1, <3>2
    <2>6. (JobOK(p, job[p]) /\ SeedOK(job[p]))'
      BY <2>3, <2>4, <2>5, JobNamed
    <2> HIDE DEF x, r
    <2>7. ~Has(r.tenant)
      BY <1>8 DEF Has
    <2> QED
      BY <1>1, <1>2, <2>1, <2>2, <2>3, <2>6, <2>7, TenantWritten
  <1>9. CASE tenants[r.tenant] # NoTenant
    <2>1. tenants' = tenants /\ Becomes(p, ExistingTenant(r))
      BY <1>9 DEF CreateTenant
    <2>2. CASE r.kind = "seed"
      <3>1. Becomes(p, n)
        BY <1>3, <2>1, <2>2 DEF ExistingTenant
      <3>2. s \notin {"rest", "write", "update grant", "create grant", "read grant", "delete grant"}
        OBVIOUS
      <3> QED
        BY <1>1, <1>4, <1>7, <2>1, <3>1, <3>2, ProjectsKept, GoesTo
    <2>3. CASE r.kind # "seed"
      <3>1. PICK m : m = [r EXCEPT !.step = "refused"]
        OBVIOUS
      <3>2. Becomes(p, m) /\ m.kind # "seed"
        BY <1>1, <2>1, <2>3, <3>1 DEF ExistingTenant, JobRecord
      <3> QED
        BY <1>1, <2>1, <3>1, <3>2, ProjectsKept, GoesTo, JobWords
    <2> QED
      BY <2>2, <2>3
  <1> QED
    BY <1>8, <1>9

LEMMA WaitSteps ==
    ASSUME TenancyIInv, NEW p \in Worker, WaitForTenant(p) \/ GiveUp(p) \/ WaitForProject(p)
    PROVE  TenancyIInv'
  <1> DEFINE r == job[p]
  <1>1. /\ r \in JobRecord /\ JobOK(p, r) /\ SeedOK(r)
        /\ UNCHANGED <<tenants, projects, grants, mirror, made, admins>>
    BY DEF WaitForTenant, GiveUp, WaitForProject, TenancyIInv, TenancyTypeOK
  <1>2. ASSUME NEW s \in {"tenant client", "done", "gave up"}, Becomes(p, [r EXCEPT !.step = s]),
               r.step # "rest", NEW n, n = [r EXCEPT !.step = s], n.kind = "seed" => SeedStep(n)
        PROVE  TenancyIInv'
    <2>1. s \in JobStep
      BY JobWords
    <2> QED
      BY <1>1, <1>2, <2>1, ProjectsKept, GoesTo
  <1>3. CASE WaitForTenant(p)
    <2> DEFINE s == IF r.kind = "seed" THEN "tenant client" ELSE "done"
    <2>1. /\ r.step = "wait for tenant" /\ Becomes(p, [r EXCEPT !.step = s])
          /\ Has(r.tenant) /\ tenants[r.tenant].cluster # 0
      BY <1>3 DEF WaitForTenant, Has
    <2>2. PICK n : n = [r EXCEPT !.step = s]
      OBVIOUS
    <2>3. n.step = s /\ n.kind = r.kind /\ n.cluster = r.cluster /\ n.tenant = r.tenant
      <3>1. s \in JobStep
        BY JobWords
      <3> HIDE DEF s
      <3> QED
        BY <1>1, <2>2, <3>1, StepFacts
    <2>4. n.kind = "seed" => SeedStep(n)
      BY <1>1, <2>1, <2>3 DEF SeedOK, SeedStep
    <2> QED
      BY <1>2, <2>1, <2>2, <2>4
  <1>4. CASE GiveUp(p)
    <2>1. r.step \in {"wait for tenant", "wait for project"} /\ Becomes(p, [r EXCEPT !.step = "gave up"])
      BY <1>4 DEF GiveUp
    <2>2. PICK n : n = [r EXCEPT !.step = "gave up"]
      OBVIOUS
    <2>3. n.step = "gave up"
      BY <1>1, <2>2 DEF JobRecord
    <2>4. SeedStep(n)
      BY <2>3 DEF SeedStep
    <2> QED
      BY <1>2, <2>1, <2>2, <2>4
  <1>5. CASE WaitForProject(p)
    <2>1. r.step = "wait for project" /\ Becomes(p, IF r.kind = "seed" THEN NextGrant(r) ELSE [r EXCEPT !.step = "done"])
      BY <1>5 DEF WaitForProject
    <2>2. CASE r.kind = "seed"
      <3>1. PICK n : n = NextGrant(r)
        OBVIOUS
      <3>2. /\ n \in JobRecord /\ n.step = (IF r.todo = <<>> THEN "done" ELSE "create grant")
            /\ n.kind = r.kind /\ n.tenant = r.tenant /\ n.cluster = r.cluster /\ n.wait = r.wait
            /\ n.todo = r.todo /\ n.wants = r.wants /\ n.read = r.read
            /\ n.undone = r.undone /\ n.raced = r.raced
        BY <1>1, <3>1, NextFacts
      <3>3. SeedStep(r) /\ SeedWants(r)
        BY <1>1, <2>2 DEF SeedOK
      <3>4. JobOK(p, n)
        BY <1>1, <2>1, <2>2, <3>2, <3>3 DEF JobOK, SeedStep
      <3>5. SeedStep(n)
        BY <2>1, <3>2, <3>3 DEF SeedStep, Within
      <3>6. SeedWants(n)
        BY <3>2, <3>3 DEF SeedWants
      <3> QED
        BY <1>1, <2>1, <2>2, <3>1, <3>2, <3>4, <3>5, <3>6, JobAlone DEF SeedOK
    <2>3. CASE r.kind # "seed"
      <3>1. PICK n : n = [r EXCEPT !.step = "done"]
        OBVIOUS
      <3>2. n.kind # "seed"
        BY <1>1, <2>3, <3>1 DEF JobRecord
      <3> QED
        BY <1>2, <2>1, <2>3, <3>1, <3>2
    <2> QED
      BY <2>2, <2>3
  <1> QED
    BY <1>3, <1>4, <1>5

LEMMA RefusedStep ==
    ASSUME TenancyIInv, NEW p \in Worker, job[p].step # "rest", Refused(p),
           UNCHANGED <<tenants, projects, grants, mirror, made, admins>>,
           job[p].kind = "seed" /\ job[p].wait => job[p].raced
    PROVE  TenancyIInv'
  <1>1. PICK n : n = [job[p] EXCEPT !.step = "refused"]
    OBVIOUS
  <1>2. /\ n.step = "refused" /\ n.kind = job[p].kind /\ n.wait = job[p].wait /\ n.raced = job[p].raced
    <2>1. job[p] \in JobRecord
      BY DEF TenancyIInv, TenancyTypeOK
    <2>2. "refused" \in JobStep
      BY JobWords
    <2> QED
      BY <1>1, <2>1, <2>2, StepFacts
  <1>3. n.kind = "seed" => SeedStep(n)
    BY <1>2 DEF SeedStep
  <1> QED
    BY <1>1, <1>3, ProjectsKept, GoesTo, JobWords DEF Refused

LEMMA TenantClientStep == ASSUME TenancyIInv, NEW p \in Worker, TenantClient(p) PROVE TenancyIInv'
  <1> DEFINE r == job[p]
             c == tenants[r.tenant].cluster
  <1>1. /\ r \in JobRecord /\ r.step = "tenant client" /\ JobOK(p, r) /\ SeedOK(r)
        /\ UNCHANGED <<tenants, projects, grants, mirror, made, admins>>
    BY DEF TenantClient, TenancyIInv, TenancyTypeOK
  <1>2. r.tenant \in Tenant
    BY <1>1 DEF JobOK
  <1>3. CASE Refused(p) /\ (tenants[r.tenant] = NoTenant \/ c = 0)
    <2>1. r.kind = "seed" /\ r.wait => r.raced
      BY <1>1, <1>3 DEF SeedOK, SeedStep, Has
    <2> QED
      BY <1>1, <1>3, <2>1, RefusedStep
  <1>4. PICK f : f = [r EXCEPT !.cluster = c]
    OBVIOUS
  <1>5. ASSUME Has(r.tenant), c # 0
        PROVE  /\ f \in JobRecord /\ f.step = r.step /\ f.kind = r.kind /\ f.tenant = r.tenant
               /\ f.cluster = c /\ f.project = r.project /\ f.wait = r.wait
               /\ f.todo = r.todo /\ f.wants = r.wants /\ f.read = r.read
               /\ f.undone = r.undone /\ f.raced = r.raced
    <2>1. c \in 0 .. MaxClusters
      BY <1>2, <1>5 DEF TenancyIInv, TenancyTypeOK, Has, TenantRecord
    <2> HIDE DEF c
    <2> QED
      BY <1>1, <1>4, <2>1 DEF JobRecord
  <1>6. ASSUME Has(r.tenant), c # 0, NEW n \in JobRecord, Becomes(p, n),
               n.kind = r.kind, n.tenant = r.tenant, n.cluster = c, n.wait = r.wait, n.todo = r.todo,
               n.wants = r.wants, n.read = r.read, n.undone = r.undone, n.raced = r.raced,
               n.step \in {"create project", "delete project", "delete grant", "create grant", "done"},
               n.step \in {"create grant", "delete grant"} => n.todo # <<>>,
               n.step = "done" => n.todo = <<>>,
               n.step = "create grant" => n.kind # "revoke",
               n.kind = "seed" => n.step \notin {"delete project", "delete grant"}
        PROVE  TenancyIInv'
    <2>1. JobOK(p, n)
      BY <1>1, <1>6 DEF JobOK
    <2>2. SeedOK(n)
      <3> SUFFICES ASSUME n.kind = "seed" PROVE SeedStep(n) /\ SeedWants(n)
        BY DEF SeedOK
      <3>1. SeedStep(r) /\ SeedWants(r) /\ r.cluster = 0
        BY <1>1, <1>6 DEF SeedOK, SeedStep
      <3>2. SeedStep(n)
        BY <1>6 DEF SeedStep, Within
      <3>3. n.cluster <= made /\ \A t \in Tenant : Has(t) /\ tenants[t].cluster = n.cluster => t = n.tenant
        BY <1>2, <1>6 DEF TenancyIInv, OwnClusters
      <3>4. SeedWants(n)
        BY <1>6, <3>1, <3>3 DEF SeedWants
      <3> QED
        BY <3>2, <3>4
    <2> QED
      BY <1>1, <1>6, <2>1, <2>2, JobAlone
  <1>7. ASSUME Has(r.tenant), c # 0, NEW s \in {"create project", "delete project", "delete grant"},
               Becomes(p, [f EXCEPT !.step = s]), s = "delete grant" => r.todo # <<>>,
               r.kind = "seed" => s = "create project"
        PROVE  TenancyIInv'
    <2>1. PICK n : n = [f EXCEPT !.step = s]
      OBVIOUS
    <2>2. s \in JobStep
      BY JobWords
    <2>3. /\ n \in JobRecord /\ n.step = s /\ n.kind = r.kind /\ n.tenant = r.tenant
          /\ n.cluster = c /\ n.wait = r.wait /\ n.todo = r.todo /\ n.wants = r.wants /\ n.read = r.read
          /\ n.undone = r.undone /\ n.raced = r.raced
      BY <1>5, <1>7, <2>1, <2>2, StepFacts
    <2> HIDE DEF c, r
    <2> QED
      BY <1>6, <1>7, <2>1, <2>3
  <1>8. ASSUME Has(r.tenant), c # 0, r.kind # "revoke", Becomes(p, NextGrant(f)) PROVE TenancyIInv'
    <2>1. PICK n : n = NextGrant(f)
      OBVIOUS
    <2>2. /\ n \in JobRecord /\ n.step = (IF r.todo = <<>> THEN "done" ELSE "create grant")
          /\ n.kind = r.kind /\ n.tenant = r.tenant
          /\ n.cluster = c /\ n.wait = r.wait /\ n.todo = r.todo /\ n.wants = r.wants /\ n.read = r.read
          /\ n.undone = r.undone /\ n.raced = r.raced
      <3>1. f \in JobRecord
        BY <1>5, <1>8
      <3>2. /\ n \in JobRecord /\ n.step = (IF f.todo = <<>> THEN "done" ELSE "create grant")
            /\ n.kind = f.kind /\ n.tenant = f.tenant /\ n.cluster = f.cluster /\ n.wait = f.wait
            /\ n.todo = f.todo /\ n.wants = f.wants /\ n.read = f.read
            /\ n.undone = f.undone /\ n.raced = f.raced
        BY <2>1, <3>1, NextFacts, ZenonT(60)
      <3> QED
        BY <1>5, <1>8, <3>2
    <2> HIDE DEF c, r
    <2> QED
      BY <1>6, <1>8, <2>1, <2>2
  <1>9. \/ Refused(p) /\ (tenants[r.tenant] = NoTenant \/ c = 0)
        \/ /\ Has(r.tenant) /\ c # 0
           /\ \/ r.kind \in {"seed", "project"} /\ Becomes(p, [f EXCEPT !.step = "create project"])
              \/ r.kind = "delete project" /\ Becomes(p, [f EXCEPT !.step = "delete project"])
              \/ r.kind = "revoke" /\ Becomes(p, [f EXCEPT !.step = "delete grant"])
              \/ r.kind # "revoke" /\ Becomes(p, NextGrant(f))
    <2>1. CASE tenants[r.tenant] = NoTenant \/ f.cluster = 0
      <3>1. Refused(p)
        BY <1>4, <2>1 DEF TenantClient
      <3> QED
        BY <1>1, <1>4, <2>1, <3>1 DEF JobRecord
    <2>2. CASE tenants[r.tenant] # NoTenant /\ f.cluster # 0
      <3>1. f.cluster = c /\ f.kind = r.kind
        BY <1>1, <1>4 DEF JobRecord
      <3>2. CASE r.kind \in {"seed", "project"} /\ r.project # TenantWide
        BY <1>4, <2>2, <3>1, <3>2 DEF TenantClient, Has
      <3>3. CASE r.kind = "delete project"
        BY <1>4, <2>2, <3>1, <3>3 DEF TenantClient, Has
      <3>4. CASE r.kind = "revoke"
        BY <1>4, <2>2, <3>1, <3>4 DEF TenantClient, Has
      <3>5. CASE ~(r.kind \in {"seed", "project"} /\ r.project # TenantWide) /\ r.kind \notin {"delete project", "revoke"}
        BY <1>4, <2>2, <3>1, <3>5 DEF TenantClient, Has
      <3> QED
        BY <3>2, <3>3, <3>4, <3>5
    <2> QED
      BY <2>1, <2>2
  <1>10. r.kind = "revoke" => r.todo # <<>>
    BY <1>1 DEF JobOK
  <1> QED
    BY <1>3, <1>7, <1>8, <1>9, <1>10

LEMMA CreateProjectStep == ASSUME TenancyIInv, NEW p \in Worker, CreateProject(p) PROVE TenancyIInv'
  <1> DEFINE r == job[p]
             x == NewProject(r.cluster, r.project, Nobody)
  <1>1. /\ r \in JobRecord /\ r.step = "create project" /\ JobOK(p, r) /\ SeedOK(r)
        /\ UNCHANGED <<tenants, grants, mirror, made, admins>>
        /\ projects' = projects \/ projects' = projects \cup {x}
    BY DEF CreateProject, TenancyIInv, TenancyTypeOK
  <1>2. x \in ProjectRecord /\ x.by = Nobody
    BY <1>1 DEF NewProject, ProjectRecord, JobRecord
  <1>3. projects' \in SUBSET ProjectRecord /\ ProjectsByAdmins'
    <2> HIDE DEF x
    <2> QED
      BY <1>1, <1>2 DEF TenancyIInv, TenancyTypeOK, AdminsKnown, ProjectsByAdmins
  <1>4. CASE Refused(p) /\ (~Live(r.cluster) \/ r.kind # "seed")
    <2>1. PICK n : n = [r EXCEPT !.step = "refused"]
      OBVIOUS
    <2>2. n.step = "refused" /\ n.kind = r.kind /\ n.raced = r.raced
      <3>1. "refused" \in JobStep
        BY JobWords
      <3> HIDE DEF x, r
      <3> QED
        BY <1>1, <2>1, <3>1, StepFacts
    <2>3. n.kind = "seed" => n.raced
      <3> SUFFICES ASSUME r.kind = "seed" PROVE r.raced
        BY <2>2
      <3>1. r.cluster # 0 /\ (r.raced \/ Within(r)) /\ r.tenant \in Tenant
        BY <1>1 DEF SeedOK, SeedStep, JobOK
      <3>2. Within(r) => Live(r.cluster)
        BY <3>1 DEF Within, Live, Has
      <3> QED
        BY <1>4, <3>1, <3>2
    <2>4. n.kind = "seed" => SeedStep(n)
      BY <2>2, <2>3 DEF SeedStep
    <2>5. r.step # "rest"
      BY <1>1
    <2> HIDE DEF x, r
    <2> QED
      BY <1>1, <1>3, <1>4, <2>1, <2>4, <2>5, GoesTo, JobWords DEF Refused, r
  <1>5. CASE Becomes(p, AfterProject(r))
    <2>1. CASE r.wait \/ r.kind # "seed"
      <3> DEFINE s == IF r.wait THEN "wait for project" ELSE "done"
      <3>1. PICK n : n = [r EXCEPT !.step = s]
        OBVIOUS
      <3>2. s \in JobStep /\ s \in {"wait for project", "done"} /\ Becomes(p, n)
        BY <1>5, <2>1, <3>1, JobWords DEF AfterProject
      <3>3. n.kind = "seed" => s = "wait for project"
        BY <1>1, <2>1, <3>1, <3>2, StepFacts
      <3> HIDE DEF s
      <3>4. n.step = s /\ n.kind = r.kind /\ n.tenant = r.tenant /\ n.cluster = r.cluster /\ n.raced = r.raced
        BY <1>1, <3>1, <3>2, StepFacts
      <3>5. n.kind = "seed" => SeedStep(n)
        BY <1>1, <3>3, <3>4 DEF SeedOK, SeedStep, Within
      <3>6. r.step # "rest"
        BY <1>1
      <3> HIDE DEF x, r
      <3> QED
        BY <1>1, <1>3, <3>1, <3>2, <3>5, <3>6, GoesTo DEF r
    <2>2. CASE ~r.wait /\ r.kind = "seed"
      <3>1. PICK n : n = NextGrant(r)
        OBVIOUS
      <3>2. /\ n \in JobRecord /\ n.step = (IF r.todo = <<>> THEN "done" ELSE "create grant")
            /\ n.kind = r.kind /\ n.tenant = r.tenant /\ n.cluster = r.cluster /\ n.wait = r.wait
            /\ n.todo = r.todo /\ n.wants = r.wants /\ n.read = r.read
            /\ n.undone = r.undone /\ n.raced = r.raced
        <4> HIDE DEF x, r
        <4> QED
          BY <1>1, <3>1, NextFacts
      <3>3. SeedStep(r) /\ SeedWants(r)
        BY <1>1, <2>2 DEF SeedOK
      <3>4. JobOK(p, n)
        BY <1>1, <2>2, <3>2, <3>3 DEF JobOK, SeedStep
      <3>5. SeedStep(n)
        BY <1>1, <3>2, <3>3 DEF SeedStep, Within
      <3>6. SeedWants(n)
        BY <3>2, <3>3 DEF SeedWants
      <3>7. Becomes(p, n)
        BY <1>5, <2>2, <3>1 DEF AfterProject
      <3> HIDE DEF x, r
      <3> QED
        BY <1>1, <1>3, <3>2, <3>4, <3>5, <3>6, <3>7, JobGoesOn DEF SeedOK
    <2> QED
      BY <2>1, <2>2
  <1>6. (Refused(p) /\ (~Live(r.cluster) \/ r.kind # "seed")) \/ Becomes(p, AfterProject(r))
    BY DEF CreateProject
  <1> QED
    BY <1>4, <1>5, <1>6

(* Jobs that another's deletion concerns are undone.                       *)
Undoes(p, n, S) ==
    job' = [q \in Worker |-> IF q = p THEN n
              ELSE IF job[q].step = "rest" \/ job[q] \notin S THEN job[q]
              ELSE [job[q] EXCEPT !.raced = TRUE, !.undone = TRUE]]
Spares(q, S) ==
    job[q].kind = "seed" /\ job[q] \notin S =>
      /\ Has(job[q].tenant) => tenants'[job[q].tenant] # NoTenant
      /\ job[q].cluster # 0 =>
           \A w \in job[q].wants : grants'[KeyOf(job[q].cluster, w)] = grants[KeyOf(job[q].cluster, w)]

LEMMA Undone ==
    ASSUME TenancyIInv, NEW S, NEW p, NEW n, Undoes(p, n, S),
           p \in Worker => n \in JobRecord /\ JobOK(p, n)' /\ SeedOK(n)',
           UNCHANGED <<mirror, made, admins>>, projects' \in SUBSET ProjectRecord, ProjectsByAdmins',
           tenants' \in [Tenant -> TenantRecord \cup {NoTenant}],
           grants' \in [GrantKey -> GrantRecord \cup {NoGrant}],
           \A t \in Tenant : Has(t)' => Has(t) /\ tenants'[t].cluster = tenants[t].cluster,
           \A k \in GrantKey : grants'[k] # NoGrant => grants'[k] = grants[k],
           \A q \in Worker : q # p => Spares(q, S)
    PROVE  TenancyIInv'
  <1>1. made \in Nat /\ made' = made /\ made <= made'
    <2>1. made \in Nat /\ made <= made
      BY MadeFacts DEF TenancyIInv
    <2>2. made' = made
      OBVIOUS
    <2> QED
      BY <2>1, <2>2
  <1>2. ASSUME NEW q \in Worker, q # p
        PROVE  job'[q] \in JobRecord /\ (JobOK(q, job[q]) /\ SeedOK(job[q]))'
    <2>1. PICK r : r = job[q]
      OBVIOUS
    <2>2. PICK m : m = job'[q]
      OBVIOUS
    <2>3. r \in JobRecord /\ JobOK(q, r) /\ SeedOK(r)
      BY <2>1 DEF TenancyIInv, TenancyTypeOK
    <2>4. PICK x : x = [r EXCEPT !.raced = TRUE, !.undone = TRUE]
      OBVIOUS
    <2>5. /\ x \in JobRecord /\ x.step = r.step /\ x.kind = r.kind /\ x.tenant = r.tenant
          /\ x.cluster = r.cluster /\ x.wait = r.wait
          /\ x.todo = r.todo /\ x.wants = r.wants /\ x.read = r.read
          /\ x.raced = TRUE /\ x.undone = TRUE
      <3>1. TRUE \in BOOLEAN
        OBVIOUS
      <3> QED
        BY <2>3, <2>4, <3>1, RacedFacts
    <2>6. m = IF r.step = "rest" \/ r \notin S THEN r ELSE x
      BY <1>2, <2>1, <2>2, <2>4 DEF Undoes
    <2>7. /\ m \in JobRecord /\ m.step = job[q].step /\ m.kind = job[q].kind /\ m.tenant = job[q].tenant
          /\ m.cluster = job[q].cluster /\ m.wait = job[q].wait /\ m.todo = job[q].todo
          /\ m.wants = job[q].wants /\ m.read = job[q].read
          /\ (job[q].raced => m.raced) /\ (job[q].undone => m.undone)
          /\ (m.kind = "seed" => r \notin S \/ (m.raced /\ m.undone))
      BY <2>1, <2>3, <2>5, <2>6 DEF SeedOK, SeedStep
    <2>8. \A t \in Tenant : Has(t)' /\ tenants'[t].cluster # 0 =>
              (Has(t) /\ tenants[t].cluster = tenants'[t].cluster) \/ tenants'[t].cluster > made
      OBVIOUS
    <2>9. m.kind = "seed" /\ Has(m.tenant) =>
              m.raced \/ (Has(m.tenant)' /\ (tenants[m.tenant].cluster # 0 =>
                                               tenants'[m.tenant].cluster = tenants[m.tenant].cluster))
      <3> SUFFICES ASSUME m.kind = "seed", Has(m.tenant), ~m.raced
                   PROVE  Has(m.tenant)' /\ tenants'[m.tenant].cluster = tenants[m.tenant].cluster
        OBVIOUS
      <3>1. m.tenant \in Tenant
        BY <2>1, <2>3, <2>7 DEF JobOK, SeedOK, SeedStep
      <3>2. Has(m.tenant)'
        BY <1>2, <2>1, <2>7 DEF Has, Spares
      <3>3. PICK t \in Tenant : t = m.tenant
        BY <3>1
      <3> QED
        BY <3>2, <3>3
    <2>10. m.kind = "seed" /\ m.cluster # 0 => \A w \in m.wants :
              /\ Gives(m.cluster, w) => m.undone \/ Gives(m.cluster, w)'
              /\ m.raced \/ grants'[KeyOf(m.cluster, w)] = grants[KeyOf(m.cluster, w)]
      <3> SUFFICES ASSUME m.kind = "seed", m.cluster # 0, NEW w \in m.wants, r \notin S
                   PROVE  /\ Gives(m.cluster, w) => Gives(m.cluster, w)'
                          /\ grants'[KeyOf(m.cluster, w)] = grants[KeyOf(m.cluster, w)]
        BY <2>7
      <3>0. /\ job[q].kind = "seed" /\ job[q] \notin S /\ job[q].cluster # 0 /\ w \in job[q].wants
            /\ m.cluster = job[q].cluster
        BY <2>1, <2>7
      <3>1. grants'[KeyOf(m.cluster, w)] = grants[KeyOf(m.cluster, w)]
        BY <1>2, <3>0 DEF Spares
      <3>2. Gives(m.cluster, w)' <=>
              grants'[KeyOf(m.cluster, w)] # NoGrant /\ grants'[KeyOf(m.cluster, w)].role = w.role
        BY DEF Gives
      <3> QED
        BY <3>1, <3>2 DEF Gives
    <2>11. made' \in Nat /\ made <= made' /\ admins \subseteq admins'
      BY <1>1
    <2>12. JobOK(q, m)' /\ SeedOK(m)'
      BY <2>7, <2>8, <2>9, <2>10, <2>11, Elsewhere
    <2> QED
      BY <2>2, <2>7, <2>12, JobNamed
  <1>3. ASSUME NEW q \in Worker
        PROVE  job'[q] \in JobRecord /\ (JobOK(q, job[q]) /\ SeedOK(job[q]))'
    <2>1. CASE q = p
      <3>1. job'[q] = n
        BY <2>1 DEF Undoes
      <3> QED
        BY <2>1, <3>1, JobNamed
    <2> QED
      BY <1>2, <2>1
  <1>4. TenancyTypeOK'
    <2>1. job' \in [Worker -> JobRecord]
      BY <1>3 DEF Undoes
    <2> QED
      BY <2>1 DEF TenancyIInv, TenancyTypeOK
  <1>5. OwnClusters'
    BY DEF TenancyIInv, OwnClusters
  <1>6. AdminsKnown'
    BY DEF TenancyIInv, AdminsKnown
  <1> QED
    BY <1>3, <1>4, <1>5, <1>6 DEF TenancyIInv

LEMMA DeleteProjectStep == ASSUME TenancyIInv, NEW p \in Worker, DeleteProject(p) PROVE TenancyIInv'
  <1>1. PICK r : r = job[p]
    OBVIOUS
  <1>2. /\ r \in JobRecord /\ r.step = "delete project" /\ JobOK(p, r) /\ SeedOK(r)
        /\ UNCHANGED <<tenants, grants, mirror, made, admins>> /\ projects' \subseteq projects
    BY <1>1 DEF DeleteProject, TenancyIInv, TenancyTypeOK
  <1>3. r.kind # "seed"
    BY <1>2 DEF SeedOK, SeedStep
  <1>4. projects' \in SUBSET ProjectRecord /\ ProjectsByAdmins'
    BY <1>2 DEF TenancyIInv, TenancyTypeOK, AdminsKnown, ProjectsByAdmins
  <1>5. CASE ProjectsNamed(r.cluster, r.project) = {}
    <2>1. Refused(p) /\ projects' = projects
      BY <1>1, <1>5 DEF DeleteProject
    <2> QED
      BY <1>1, <1>2, <1>3, <2>1, RefusedStep
  <1>6. CASE ProjectsNamed(r.cluster, r.project) # {}
    <2>0. PICK S : S = {q \in JobRecord : q.tenant = r.tenant /\ q.project = r.project}
      OBVIOUS
    <2>1. PICK n : n = [r EXCEPT !.step = "done"]
      OBVIOUS
    <2>2. n \in JobRecord /\ n.step = "done" /\ n.kind = r.kind /\ n.tenant = r.tenant /\ n.todo = r.todo
      <3>1. "done" \in JobStep
        BY JobWords
      <3> QED
        BY <1>2, <2>1, <3>1, StepFacts
    <2>3. JobOK(p, n)' /\ SeedOK(n)'
      BY <1>2, <1>3, <2>2 DEF JobOK, SeedOK
    <2>4. job' = [q \in Worker |-> IF q = p THEN n
                    ELSE IF job[q].step = "rest" \/ ~(job[q].tenant = r.tenant /\ job[q].project = r.project)
                    THEN job[q]
                    ELSE [job[q] EXCEPT !.raced = TRUE, !.undone = @ \/
                            (job[q].tenant = r.tenant /\ job[q].project = r.project)]]
      BY <1>1, <1>6, <2>1 DEF DeleteProject, Noticed, TenancyIInv, TenancyTypeOK
    <2>5. \A q \in Worker : job[q] \in JobRecord
      BY DEF TenancyIInv, TenancyTypeOK
    <2>6. Undoes(p, n, S)
      BY <2>0, <2>4, <2>5 DEF Undoes
    <2>7. /\ tenants' \in [Tenant -> TenantRecord \cup {NoTenant}]
          /\ grants' \in [GrantKey -> GrantRecord \cup {NoGrant}]
      BY <1>2 DEF TenancyIInv, TenancyTypeOK
    <2>8. \A t \in Tenant : Has(t)' => Has(t) /\ tenants'[t].cluster = tenants[t].cluster
      BY <1>2 DEF Has
    <2>9. \A k \in GrantKey : grants'[k] # NoGrant => grants'[k] = grants[k]
      BY <1>2
    <2>10. \A q \in Worker : q # p => Spares(q, S)
      BY <1>2 DEF Has, Spares
    <2>11. (p \in Worker => n \in JobRecord /\ JobOK(p, n)' /\ SeedOK(n)') /\ UNCHANGED <<mirror, made, admins>>
      BY <1>2, <2>2, <2>3
    <2> QED
      BY <1>4, <2>6, <2>7, <2>8, <2>9, <2>10, <2>11, Undone
  <1> QED
    BY <1>5, <1>6

LEMMA ClusterFacts == ASSUME NEW c \in 0 .. MaxClusters, c # 0 PROVE c \in TenantCluster
  BY SelfServiceAssumption DEF TenantCluster

GoesOn(r, n) ==
    /\ n \in JobRecord /\ n.step = (IF Tail(r.todo) = <<>> THEN "done" ELSE "create grant")
    /\ n.kind = r.kind /\ n.tenant = r.tenant /\ n.cluster = r.cluster /\ n.wait = r.wait
    /\ n.todo = Tail(r.todo) /\ n.wants = r.wants /\ n.undone = r.undone /\ n.raced = r.raced

LEMMA GrantedFacts == ASSUME NEW r \in JobRecord, r.todo # <<>>, NEW n, n = Granted(r) PROVE GoesOn(r, n)
  <1>0. PICK rest : rest = Tail(r.todo)
    OBVIOUS
  <1>1. PICK m : m = [r EXCEPT !.todo = rest, !.read = NoGrant]
    OBVIOUS
  <1>2. rest \in Seq(Asked)
    <2>1. r.todo \in Seq(Asked)
      BY DEF JobRecord
    <2> QED
      BY <1>0, <2>1, TailFacts
  <1>3. /\ m \in JobRecord /\ m.kind = r.kind /\ m.tenant = r.tenant
        /\ m.cluster = r.cluster /\ m.wait = r.wait /\ m.todo = rest /\ m.wants = r.wants
        /\ m.undone = r.undone /\ m.raced = r.raced
    BY <1>1, <1>2, TodoFacts, ZenonT(30)
  <1>4. n = NextGrant(m)
    BY <1>0, <1>1 DEF Granted
  <1>5. /\ n \in JobRecord /\ n.step = (IF m.todo = <<>> THEN "done" ELSE "create grant")
        /\ n.kind = m.kind /\ n.tenant = m.tenant /\ n.cluster = m.cluster /\ n.wait = m.wait
        /\ n.todo = m.todo /\ n.wants = m.wants /\ n.undone = m.undone /\ n.raced = m.raced
    BY <1>3, <1>4, NextFacts, ZenonT(30)
  <1> QED
    BY <1>0, <1>3, <1>5, ZenonT(30) DEF GoesOn

(* What a job that handles a grant has at hand ... *)
LEMMA AtHand ==
    ASSUME TenancyIInv, NEW p \in Worker, NEW r, r = job[p], NEW n, n = Granted(r),
           r.step \in {"create grant", "read grant", "update grant", "delete grant"}
    PROVE  /\ r \in JobRecord /\ JobOK(p, r) /\ SeedOK(r) /\ r.cluster # 0 /\ r.todo # <<>>
           /\ Head(r.todo) \in Asked /\ Head(r.todo).role \in Role /\ KeyOf(r.cluster, Head(r.todo)) \in GrantKey
           /\ r.read \in GrantRecord \cup {NoGrant}
           /\ GoesOn(r, n)
  <1>1. /\ r \in JobRecord /\ JobOK(p, r) /\ SeedOK(r) /\ r.todo \in Seq(Asked) /\ r.cluster \in 0 .. MaxClusters
        /\ r.read \in GrantRecord \cup {NoGrant}
    BY DEF TenancyIInv, TenancyTypeOK, JobRecord
  <1>2. r.cluster # 0 /\ r.todo # <<>>
    BY <1>1 DEF JobOK
  <1>3. Head(r.todo) \in Asked
    BY <1>1, <1>2, TailFacts
  <1>4. r.cluster \in TenantCluster
    BY <1>1, <1>2, ClusterFacts
  <1>5. /\ Head(r.todo).role \in Role /\ Head(r.todo).subject \in User
        /\ Head(r.todo).project \in Project \cup {TenantWide}
    BY <1>3 DEF Asked
  <1>6. GoesOn(r, n)
    BY <1>1, <1>2, GrantedFacts
  <1> QED
    BY <1>1, <1>2, <1>3, <1>4, <1>5, <1>6, KeyFacts

Granting(key, e) ==
    /\ tenants' = tenants /\ made' = made /\ admins \subseteq admins'
    /\ grants'[key] # NoGrant /\ grants'[key].role = e.role
    /\ \A k \in GrantKey : k # key => grants'[k] = grants[k]

(* The entry at hand is granted: on to the next.                           *)
LEMMA GrantedOK ==
    ASSUME TenancyIInv, NEW p \in Worker, NEW r, r = job[p], NEW n, GoesOn(r, n),
           NEW e, e = Head(r.todo), NEW key, key = KeyOf(r.cluster, e),
           r.step \in {"create grant", "read grant", "update grant"},
           Granting(key, e)
    PROVE  n \in JobRecord /\ JobOK(p, n)' /\ SeedOK(n)'
  <1>0. /\ tenants' = tenants /\ made' = made /\ admins \subseteq admins'
        /\ grants'[key] # NoGrant /\ grants'[key].role = e.role
        /\ \A k \in GrantKey : k # key => grants'[k] = grants[k]
    BY DEF Granting
  <1>1. /\ r \in JobRecord /\ JobOK(p, r) /\ SeedOK(r) /\ r.todo \in Seq(Asked) /\ r.wants \in SUBSET Asked
        /\ r.cluster \in 0 .. MaxClusters
    BY DEF TenancyIInv, TenancyTypeOK, JobRecord
  <1>2. r.cluster # 0 /\ r.todo # <<>> /\ r.kind # "revoke" /\ r.tenant \in Tenant
    BY <1>1 DEF JobOK
  <1>3. PICK rest : rest = Tail(r.todo)
    OBVIOUS
  <1>4. /\ rest \in Seq(Asked) /\ e \in Asked
        /\ \A i \in DOMAIN rest : i + 1 \in DOMAIN r.todo /\ rest[i] = r.todo[i + 1]
        /\ \A w : Over(r.todo, w) => Over(rest, w) /\ ~Same(e, w)
        /\ \A w : Left(r.todo, w) => Left(rest, w) \/ (w = e /\ Over(rest, w))
    BY <1>1, <1>2, <1>3, TailFacts
  <1>8. /\ n \in JobRecord /\ n.step = (IF rest = <<>> THEN "done" ELSE "create grant")
        /\ n.kind = r.kind /\ n.tenant = r.tenant /\ n.cluster = r.cluster /\ n.wait = r.wait
        /\ n.todo = rest /\ n.wants = r.wants /\ n.undone = r.undone /\ n.raced = r.raced
    BY <1>3 DEF GoesOn
  <1>9. JobOK(p, n)'
    BY <1>0, <1>2, <1>8 DEF JobOK
  <1>10. ASSUME n.kind = "seed" PROVE SeedStep(n)' /\ SeedWants(n)'
    <2>1. SeedStep(r) /\ SeedWants(r)
      BY <1>1, <1>8, <1>10 DEF SeedOK
    <2>2. SeedStep(n)'
      BY <1>0, <1>2, <1>8, <2>1 DEF SeedStep, Within, Has
    <2>3. n.cluster <= made' /\ \A t \in Tenant : Has(t)' /\ tenants'[t].cluster = n.cluster => t = n.tenant
      BY <1>0, <1>2, <1>8, <2>1 DEF SeedWants, Has
    <2>4. \A i \in DOMAIN n.todo : \E w \in n.wants : Same(w, n.todo[i])
      BY <1>4, <1>8, <2>1 DEF SeedWants
    <2>5. ASSUME NEW w \in n.wants
          PROVE  Left(n.todo, w) \/ (n.cluster # 0 /\ Over(n.todo, w) /\ (n.undone \/ Gives(n.cluster, w)'))
      <3>0. Gives(n.cluster, w)' <=>
              grants'[KeyOf(n.cluster, w)] # NoGrant /\ grants'[KeyOf(n.cluster, w)].role = w.role
        BY DEF Gives
      <3>1. CASE Left(r.todo, w)
        <4>1. CASE w = e /\ Over(rest, w)
          <5>1. KeyOf(n.cluster, w) = key
            BY <1>8, <4>1
          <5> QED
            BY <1>0, <1>2, <1>8, <3>0, <4>1, <5>1
        <4> QED
          BY <1>4, <1>8, <3>1, <4>1
      <3>2. CASE Over(r.todo, w) /\ (r.undone \/ Gives(r.cluster, w))
        <4>1. Over(rest, w) /\ ~Same(e, w)
          BY <1>4, <3>2
        <4>2. w \in Asked /\ r.cluster \in TenantCluster
          BY <1>1, <1>2, <1>8, ClusterFacts
        <4>3. w.subject \in User /\ w.project \in Project \cup {TenantWide}
              /\ e.subject \in User /\ e.project \in Project \cup {TenantWide}
          BY <1>4, <4>2 DEF Asked
        <4>4. PICK k : k = KeyOf(r.cluster, w)
          OBVIOUS
        <4>5. k \in GrantKey /\ k.subject = w.subject /\ k.project = w.project
              /\ key.subject = e.subject /\ key.project = e.project
          BY <4>2, <4>3, <4>4, KeyFacts
        <4>6. k # key
          BY <4>1, <4>5 DEF Same
        <4>7. grants'[k] = grants[k]
          BY <1>0, <4>5, <4>6
        <4> QED
          BY <1>2, <1>8, <3>0, <3>2, <4>1, <4>4, <4>7 DEF Gives
      <3> QED
        BY <1>8, <2>1, <3>1, <3>2 DEF SeedWants
    <2>6. SeedWants(n)'
      BY <1>8, <2>3, <2>4, <2>5 DEF SeedWants
    <2> QED
      BY <2>2, <2>6
  <1> QED
    BY <1>8, <1>9, <1>10 DEF SeedOK

LEMMA AdminsGrow == ASSUME NEW p, NEW n, NEW key, NEW g, WritesGrant(p, n, key, g) PROVE admins \subseteq admins'
  BY DEF WritesGrant

(* Unless raced, a seed's workspace is there.                              *)
LEMMA SeedLives ==
    ASSUME TenancyIInv, NEW p \in Worker, job[p].kind = "seed",
           job[p].step \in {"create project", "create grant", "read grant", "update grant"}, ~job[p].raced
    PROVE  Live(job[p].cluster)
  <1>1. job[p].cluster # 0 /\ Within(job[p]) /\ job[p].tenant \in Tenant
    BY DEF TenancyIInv, SeedOK, SeedStep, JobOK
  <1> QED
    BY <1>1 DEF Within, Live, Has

LEMMA CreateGrantStep == ASSUME TenancyIInv, NEW p \in Worker, CreateGrant(p) PROVE TenancyIInv'
  <1>1. PICK r : r = job[p]
    OBVIOUS
  <1>2. PICK e : e = Head(r.todo)
    OBVIOUS
  <1>3. PICK key : key = KeyOf(r.cluster, e)
    OBVIOUS
  <1>3a. PICK n : n = Granted(r)
    OBVIOUS
  <1>4. r.step = "create grant" /\ UNCHANGED <<tenants, projects, mirror, made>>
    BY <1>1 DEF CreateGrant
  <1>5. r \in JobRecord /\ JobOK(p, r) /\ SeedOK(r) /\ r.cluster # 0 /\ r.todo # <<>> /\ e.role \in Role /\ key \in GrantKey
        /\ GoesOn(r, n)
    BY <1>1, <1>2, <1>3, <1>3a, <1>4, AtHand
  <1>6. CASE ~Live(r.cluster)
    <2>1. Refused(p) /\ UNCHANGED <<tenants, projects, grants, mirror, made, admins>>
      BY <1>1, <1>4, <1>6 DEF CreateGrant
    <2>2. r.kind = "seed" => r.raced
      BY <1>1, <1>4, <1>6, SeedLives
    <2> QED
      BY <1>1, <1>4, <2>1, <2>2, RefusedStep
  <1>7. CASE Live(r.cluster) /\ grants[key] = NoGrant
    <2>2. PICK g : g = [role |-> e.role, version |-> 1]
      OBVIOUS
    <2>3. g \in GrantRecord /\ g.role = e.role /\ g # NoGrant
      BY <1>5, <2>2, SelfServiceAssumption DEF GrantRecord
    <2>4. WritesGrant(p, n, key, g)
      BY <1>1, <1>2, <1>3, <1>3a, <1>7, <2>2 DEF CreateGrant
    <2>5. grants'[key] = g /\ \A k \in GrantKey : k # key => grants'[k] = grants[k]
      BY <1>5, <2>4 DEF WritesGrant, TenancyIInv, TenancyTypeOK
    <2>6. n \in JobRecord /\ JobOK(p, n)' /\ SeedOK(n)'
      <3>1. admins \subseteq admins'
        BY <2>4, AdminsGrow
      <3>2. r.step \in {"create grant", "read grant", "update grant"} /\ Granting(key, e)
        BY <1>4, <2>3, <2>5, <3>1 DEF Granting
      <3> QED
        BY <1>1, <1>2, <1>3, <1>5, <3>2, GrantedOK
    <2>7. /\ tenants' \in [Tenant -> TenantRecord \cup {NoTenant}]
          /\ \A t \in Tenant : (Has(t)' <=> Has(t)) /\ (Has(t) => tenants'[t].cluster = tenants[t].cluster)
      BY <1>4 DEF TenancyIInv, TenancyTypeOK, Has
    <2> QED
      BY <1>4, <1>5, <2>3, <2>4, <2>6, <2>7, GrantWritten
  <1>8. CASE Live(r.cluster) /\ grants[key] # NoGrant
    <2>1. PICK m : m = [r EXCEPT !.step = "read grant"]
      OBVIOUS
    <2>2. "read grant" \in JobStep
      BY JobWords
    <2>3. /\ m.step = "read grant" /\ m.kind = r.kind /\ m.tenant = r.tenant
          /\ m.cluster = r.cluster /\ m.todo = r.todo /\ m.wait = r.wait /\ m.raced = r.raced
      BY <1>5, <2>1, <2>2, StepFacts
    <2>4. m.kind = "seed" => SeedStep(m)
      BY <1>2, <1>3, <1>4, <1>5, <1>8, <2>3 DEF SeedOK, SeedStep, Within
    <2>5. Becomes(p, m) /\ UNCHANGED <<tenants, projects, grants, mirror, made, admins>>
      BY <1>1, <1>2, <1>3, <1>4, <1>8, <2>1 DEF CreateGrant
    <2>6. r.kind # "revoke"
      BY <1>4, <1>5 DEF JobOK
    <2>7. projects' \in SUBSET ProjectRecord /\ ProjectsByAdmins'
      BY <2>5, ProjectsKept
    <2> QED
      BY <1>1, <1>4, <1>5, <2>1, <2>2, <2>4, <2>5, <2>6, <2>7, GoesTo
  <1> QED
    BY <1>6, <1>7, <1>8

(* When nothing is written, what holds of a job then holds now.            *)
LEMMA Unwritten ==
    ASSUME NEW p, NEW n, JobOK(p, n)', SeedOK(n)', UNCHANGED <<tenants, grants, made, admins>>
    PROVE  JobOK(p, n) /\ SeedOK(n)
  <1>1. JobOK(p, n)
    BY DEF JobOK
  <1>2. SeedOK(n)
    BY DEF SeedOK, SeedStep, SeedWants, Has, Within, Gives
  <1> QED
    BY <1>1, <1>2

LEMMA ReadGrantStep == ASSUME TenancyIInv, NEW p \in Worker, ReadGrant(p) PROVE TenancyIInv'
  <1>1. PICK r : r = job[p]
    OBVIOUS
  <1>2. PICK e : e = Head(r.todo)
    OBVIOUS
  <1>3. PICK key : key = KeyOf(r.cluster, e)
    OBVIOUS
  <1>4. PICK n : n = Granted(r)
    OBVIOUS
  <1>5. PICK g : g = grants[key]
    OBVIOUS
  <1>6. r.step = "read grant" /\ UNCHANGED <<tenants, projects, grants, mirror, made, admins>>
    BY <1>1 DEF ReadGrant
  <1>7. r \in JobRecord /\ JobOK(p, r) /\ SeedOK(r) /\ r.cluster # 0 /\ r.todo # <<>> /\ key \in GrantKey /\ GoesOn(r, n)
    BY <1>1, <1>2, <1>3, <1>4, <1>6, AtHand
  <1>8. g \in GrantRecord \cup {NoGrant}
    BY <1>5, <1>7 DEF TenancyIInv, TenancyTypeOK
  <1>9. CASE g = NoGrant
    <2>1. Refused(p)
      BY <1>1, <1>2, <1>3, <1>5, <1>9 DEF ReadGrant
    <2>2. r.kind = "seed" => r.raced
      BY <1>2, <1>3, <1>5, <1>6, <1>7, <1>9 DEF SeedOK, SeedStep
    <2> QED
      BY <1>1, <1>6, <2>1, <2>2, RefusedStep
  <1>10. CASE g # NoGrant /\ g.role = e.role
    <2>1. Becomes(p, n)
      BY <1>1, <1>2, <1>3, <1>4, <1>5, <1>10 DEF ReadGrant, Settled
    <2>2. Granting(key, e)
      BY <1>5, <1>6, <1>10 DEF Granting
    <2>3. r.step \in {"create grant", "read grant", "update grant"}
      BY <1>6
    <2>4. n \in JobRecord /\ JobOK(p, n)' /\ SeedOK(n)'
      BY <1>1, <1>2, <1>3, <1>7, <2>2, <2>3, GrantedOK
    <2>5. JobOK(p, n) /\ SeedOK(n)
      BY <1>6, <2>4, Unwritten
    <2> QED
      BY <1>6, <2>1, <2>4, <2>5, JobAlone
  <1>11. CASE g # NoGrant /\ g.role # e.role
    <2>1. PICK s \in JobStep : s = "update grant"
      BY JobWords
    <2>2. PICK m : m = [r EXCEPT !.step = s, !.read = g]
      OBVIOUS
    <2>3. /\ m \in JobRecord /\ m.step = s /\ m.kind = r.kind /\ m.tenant = r.tenant
          /\ m.cluster = r.cluster /\ m.wait = r.wait /\ m.todo = r.todo /\ m.wants = r.wants
          /\ m.read = g /\ m.undone = r.undone /\ m.raced = r.raced
      BY <1>7, <1>8, <2>2 DEF JobRecord
    <2>4. Becomes(p, m)
      BY <1>1, <1>2, <1>3, <1>5, <1>11, <2>1, <2>2 DEF ReadGrant, Settled
    <2>5. JobOK(p, m)
      BY <1>6, <1>7, <1>11, <2>1, <2>3 DEF JobOK
    <2>6. ASSUME m.kind = "seed" PROVE SeedStep(m) /\ SeedWants(m)
      <3>1. SeedStep(r) /\ SeedWants(r)
        BY <1>7, <2>3, <2>6 DEF SeedOK
      <3>2. SeedStep(m)
        BY <1>2, <1>3, <1>5, <1>6, <1>7, <2>1, <2>3, <3>1 DEF SeedStep, Within
      <3>3. SeedWants(m)
        BY <2>3, <3>1 DEF SeedWants
      <3> QED
        BY <3>2, <3>3
    <2>7. SeedOK(m)
      BY <2>6 DEF SeedOK
    <2> QED
      BY <1>6, <2>3, <2>4, <2>5, <2>7, JobAlone
  <1> QED
    BY <1>9, <1>10, <1>11

LEMMA UpdateGrantStep == ASSUME TenancyIInv, NEW p \in Worker, UpdateGrant(p) PROVE TenancyIInv'
  <1>1. PICK r : r = job[p]
    OBVIOUS
  <1>2. PICK e : e = Head(r.todo)
    OBVIOUS
  <1>3. PICK key : key = KeyOf(r.cluster, e)
    OBVIOUS
  <1>4. PICK n : n = Granted(r)
    OBVIOUS
  <1>5. r.step = "update grant" /\ UNCHANGED <<tenants, projects, mirror, made>>
    BY <1>1 DEF UpdateGrant
  <1>6. /\ r \in JobRecord /\ JobOK(p, r) /\ SeedOK(r) /\ r.cluster # 0 /\ r.todo # <<>> /\ e.role \in Role
        /\ key \in GrantKey /\ GoesOn(r, n) /\ r.read \in GrantRecord \cup {NoGrant}
    BY <1>1, <1>2, <1>3, <1>4, <1>5, AtHand
  <1>7. CASE grants[key] # r.read
    <2>1. Refused(p) /\ UNCHANGED <<grants, admins>>
      BY <1>1, <1>2, <1>3, <1>7 DEF UpdateGrant
    <2>2. r.kind = "seed" => r.raced
      BY <1>2, <1>3, <1>5, <1>6, <1>7 DEF SeedOK, SeedStep
    <2> QED
      BY <1>1, <1>5, <2>1, <2>2, RefusedStep
  <1>8. CASE grants[key] = r.read
    <2>1. r.read \in GrantRecord
      BY <1>5, <1>6 DEF JobOK
    <2>2. PICK g : g = [role |-> e.role, version |-> r.read.version + 1]
      OBVIOUS
    <2>3. g \in GrantRecord /\ g.role = e.role /\ g # NoGrant
      <3>1. r.read.version + 1 \in Nat
        BY <2>1 DEF GrantRecord
      <3> QED
        BY <1>6, <2>2, <3>1, SelfServiceAssumption DEF GrantRecord
    <2>4. WritesGrant(p, n, key, g)
      BY <1>1, <1>2, <1>3, <1>4, <1>8, <2>2 DEF UpdateGrant
    <2>5. grants'[key] = g /\ \A k \in GrantKey : k # key => grants'[k] = grants[k]
      BY <1>6, <2>4 DEF WritesGrant, TenancyIInv, TenancyTypeOK
    <2>6. n \in JobRecord /\ JobOK(p, n)' /\ SeedOK(n)'
      <3>1. admins \subseteq admins'
        BY <2>4, AdminsGrow
      <3>2. r.step \in {"create grant", "read grant", "update grant"} /\ Granting(key, e)
        BY <1>5, <2>3, <2>5, <3>1 DEF Granting
      <3> QED
        BY <1>1, <1>2, <1>3, <1>6, <3>2, GrantedOK
    <2>7. /\ tenants' \in [Tenant -> TenantRecord \cup {NoTenant}]
          /\ \A t \in Tenant : (Has(t)' <=> Has(t)) /\ (Has(t) => tenants'[t].cluster = tenants[t].cluster)
      BY <1>5 DEF TenancyIInv, TenancyTypeOK, Has
    <2> QED
      BY <1>5, <1>6, <2>3, <2>4, <2>6, <2>7, GrantWritten
  <1> QED
    BY <1>7, <1>8

LEMMA DeleteGrantStep == ASSUME TenancyIInv, NEW p \in Worker, DeleteGrant(p) PROVE TenancyIInv'
  <1>1. PICK r : r = job[p]
    OBVIOUS
  <1>2. PICK key : key = KeyOf(r.cluster, Head(r.todo))
    OBVIOUS
  <1>3. PICK n : n = [r EXCEPT !.step = "done"]
    OBVIOUS
  <1>4. r.step = "delete grant" /\ UNCHANGED <<tenants, projects, mirror, made>>
    BY <1>1 DEF DeleteGrant
  <1>5. r \in JobRecord /\ JobOK(p, r) /\ SeedOK(r) /\ key \in GrantKey
    BY <1>1, <1>2, <1>4, AtHand
  <1>6. r.kind # "seed"
    BY <1>4, <1>5 DEF SeedOK, SeedStep
  <1>7. CASE grants[key] = NoGrant
    <2>1. Refused(p) /\ UNCHANGED <<grants, admins>>
      BY <1>1, <1>2, <1>7 DEF DeleteGrant
    <2> QED
      BY <1>1, <1>4, <1>6, <2>1, RefusedStep
  <1>8. CASE grants[key] # NoGrant
    <2>1. WritesGrant(p, n, key, NoGrant)
      BY <1>1, <1>2, <1>3, <1>8 DEF DeleteGrant
    <2>2. "done" \in JobStep
      BY JobWords
    <2>3. n \in JobRecord /\ n.step = "done" /\ n.kind = r.kind /\ n.tenant = r.tenant /\ n.todo = r.todo
      BY <1>3, <1>5, <2>2, StepFacts
    <2>4. JobOK(p, n)' /\ SeedOK(n)'
      BY <1>4, <1>5, <1>6, <2>3 DEF JobOK, SeedOK
    <2>5. /\ tenants' \in [Tenant -> TenantRecord \cup {NoTenant}]
          /\ \A t \in Tenant : (Has(t)' <=> Has(t)) /\ (Has(t) => tenants'[t].cluster = tenants[t].cluster)
      BY <1>4 DEF TenancyIInv, TenancyTypeOK, Has
    <2>6. NoGrant \in GrantRecord \cup {NoGrant}
      OBVIOUS
    <2> QED
      BY <1>4, <1>5, <2>1, <2>3, <2>4, <2>5, <2>6, GrantWritten
  <1> QED
    BY <1>7, <1>8

LEMMA EndStep == ASSUME TenancyIInv, NEW p \in Worker, End(p) PROVE TenancyIInv'
  <1>1. PICK n : n = Resting
    OBVIOUS
  <1>2. n \in JobRecord /\ JobOK(p, n) /\ SeedOK(n)
    BY <1>1, RestingFacts
  <1>3. Becomes(p, n) /\ UNCHANGED <<tenants, projects, grants, mirror, made, admins>>
    BY <1>1 DEF End
  <1> QED
    BY <1>2, <1>3, JobAlone

LEMMA RequestsStep == ASSUME TenancyIInv, NEW p \in Command, Requests(p) PROVE TenancyIInv'
  <1>1. p \in Worker
    BY DEF Worker
  <1> QED
    BY <1>1, CreateTenantStep, WaitSteps, TenantClientStep, CreateProjectStep, DeleteProjectStep, CreateGrantStep,
       ReadGrantStep, UpdateGrantStep, DeleteGrantStep, EndStep DEF Requests

-----------------------------------------------------------------------------
(* Tenants go, the operator and the virtual workspace do their part. *)
LEMMA DeleteTenantStep ==
    ASSUME TenancyIInv, NEW p \in Worker, NEW t \in Tenant, DeleteTenant(p, t) PROVE TenancyIInv'
  <1>1. PICK n : n = Resting
    OBVIOUS
  <1>2. PICK S : S = {q \in JobRecord : q.tenant = t}
    OBVIOUS
  <1>3. /\ job[p] = n /\ Has(t) /\ UNCHANGED <<projects, grants, mirror, made, admins>>
        /\ tenants' = [tenants EXCEPT ![t] = [tenants[t] EXCEPT !.leaving = TRUE]]
    BY <1>1 DEF DeleteTenant, Has
  <1>4. /\ n \in JobRecord /\ n.kind # "seed" /\ n.kind # "revoke" /\ n.step = "rest"
    BY <1>1, RestingFacts
  <1>5. JobOK(p, n)' /\ SeedOK(n)'
    BY <1>4 DEF JobOK, SeedOK
  <1>6. Undoes(p, n, S)
    <2>1. job' = [q \in Worker |-> IF q = p THEN n
                    ELSE IF job[q].step = "rest" \/ ~(job[q].tenant = t) THEN job[q]
                    ELSE [job[q] EXCEPT !.raced = TRUE, !.undone = @ \/ job[q].tenant = t]]
      BY <1>3 DEF DeleteTenant, Noticed, TenancyIInv, TenancyTypeOK
    <2>2. \A q \in Worker : job[q] \in JobRecord
      BY DEF TenancyIInv, TenancyTypeOK
    <2> QED
      BY <1>2, <2>1, <2>2 DEF Undoes
  <1>7. tenants[t] \in TenantRecord
    BY <1>3 DEF TenancyIInv, TenancyTypeOK, Has
  <1>8. PICK x : x = [tenants[t] EXCEPT !.leaving = TRUE]
    OBVIOUS
  <1>9. x \in TenantRecord /\ x.cluster = tenants[t].cluster
    BY <1>7, <1>8 DEF TenantRecord
  <1>10. x # NoTenant
    BY <1>9, SelfServiceAssumption
  <1>11. /\ tenants' \in [Tenant -> TenantRecord \cup {NoTenant}] /\ tenants'[t] = x
         /\ \A u \in Tenant : u # t => tenants'[u] = tenants[u]
    BY <1>3, <1>8, <1>9 DEF TenancyIInv, TenancyTypeOK
  <1>12. \A u \in Tenant : (Has(u)' <=> Has(u)) /\ tenants'[u].cluster = tenants[u].cluster
    BY <1>3, <1>9, <1>10, <1>11 DEF Has
  <1>13. ASSUME NEW q \in Worker PROVE Spares(q, S)
    <2>1. job[q].kind = "seed" => job[q].tenant \in Tenant
      BY DEF TenancyIInv, JobOK, SeedOK, SeedStep
    <2>2. job[q].kind = "seed" /\ Has(job[q].tenant) => tenants'[job[q].tenant] # NoTenant
      BY <1>12, <2>1 DEF Has
    <2> QED
      BY <1>3, <2>2 DEF Spares
  <1>14. grants' \in [GrantKey -> GrantRecord \cup {NoGrant}] /\ \A k \in GrantKey : grants'[k] # NoGrant => grants'[k] = grants[k]
    BY <1>3 DEF TenancyIInv, TenancyTypeOK
  <1>15. projects' \in SUBSET ProjectRecord /\ ProjectsByAdmins'
    BY <1>3, ProjectsKept
  <1>16. \A u \in Tenant : Has(u)' => Has(u) /\ tenants'[u].cluster = tenants[u].cluster
    BY <1>12
  <1> QED
    BY <1>3, <1>4, <1>5, <1>6, <1>11, <1>13, <1>14, <1>15, <1>16, Undone

LEMMA RemoveTenantStep == ASSUME TenancyIInv, NEW t \in Tenant, RemoveTenant(t) PROVE TenancyIInv'
  <1>1. PICK n : n = Resting
    OBVIOUS
  <1>2. PICK S : S = {q \in JobRecord : q.tenant = t}
    OBVIOUS
  <1>3. /\ Has(t) /\ UNCHANGED <<mirror, made, admins>> /\ projects' \subseteq projects
        /\ tenants' = [tenants EXCEPT ![t] = NoTenant]
        /\ grants' = [k \in GrantKey |-> IF k.cluster = tenants[t].cluster THEN NoGrant ELSE grants[k]]
    BY DEF RemoveTenant, Has
  <1>4. n \in JobRecord /\ n.kind # "seed" /\ n.kind # "revoke" /\ n.step = "rest"
    BY <1>1, RestingFacts
  <1>5. JobOK(Nobody, n)' /\ SeedOK(n)'
    BY <1>4 DEF JobOK, SeedOK
  <1>6. Undoes(Nobody, n, S)
    <2>1. job' = [q \in Worker |-> IF q = Nobody THEN n
                    ELSE IF job[q].step = "rest" \/ ~(job[q].tenant = t) THEN job[q]
                    ELSE [job[q] EXCEPT !.raced = TRUE, !.undone = @ \/ job[q].tenant = t]]
      BY <1>1 DEF RemoveTenant, Noticed, TenancyIInv, TenancyTypeOK
    <2>2. \A q \in Worker : job[q] \in JobRecord
      BY DEF TenancyIInv, TenancyTypeOK
    <2> QED
      BY <1>2, <2>1, <2>2 DEF Undoes
  <1>7. /\ tenants' \in [Tenant -> TenantRecord \cup {NoTenant}] /\ tenants'[t] = NoTenant
        /\ \A u \in Tenant : u # t => tenants'[u] = tenants[u]
    BY <1>3 DEF TenancyIInv, TenancyTypeOK
  <1>8. \A u \in Tenant : Has(u)' => Has(u) /\ tenants'[u].cluster = tenants[u].cluster
    BY <1>7 DEF Has
  <1>9. /\ grants' \in [GrantKey -> GrantRecord \cup {NoGrant}]
        /\ \A k \in GrantKey : grants'[k] # NoGrant => grants'[k] = grants[k]
        /\ \A k \in GrantKey : k.cluster # tenants[t].cluster => grants'[k] = grants[k]
    BY <1>3 DEF TenancyIInv, TenancyTypeOK
  <1>10. projects' \in SUBSET ProjectRecord /\ ProjectsByAdmins'
    BY <1>3 DEF TenancyIInv, TenancyTypeOK, AdminsKnown, ProjectsByAdmins
  <1>11. ASSUME NEW q \in Worker PROVE Spares(q, S)
    <2>1. PICK r : r = job[q]
      OBVIOUS
    <2>2. SUFFICES ASSUME r.kind = "seed", r \notin S
                   PROVE  /\ Has(r.tenant) => tenants'[r.tenant] # NoTenant
                          /\ r.cluster # 0 => \A w \in r.wants : grants'[KeyOf(r.cluster, w)] = grants[KeyOf(r.cluster, w)]
      BY <2>1 DEF Spares
    <2>3. /\ r \in JobRecord /\ JobOK(q, r) /\ SeedStep(r) /\ SeedWants(r)
          /\ r.wants \in SUBSET Asked /\ r.cluster \in 0 .. MaxClusters
      BY <2>1, <2>2 DEF TenancyIInv, TenancyTypeOK, SeedOK, JobRecord
    <2>4. r.tenant \in Tenant /\ r.tenant # t
      BY <1>2, <2>2, <2>3 DEF JobOK, SeedStep
    <2>5. Has(r.tenant) => tenants'[r.tenant] # NoTenant
      BY <1>7, <2>4 DEF Has
    <2>6. ASSUME r.cluster # 0, NEW w \in r.wants PROVE grants'[KeyOf(r.cluster, w)] = grants[KeyOf(r.cluster, w)]
      <3>1. r.cluster # tenants[t].cluster
        BY <1>3, <2>3, <2>4, <2>6 DEF SeedWants
      <3>2. r.cluster \in TenantCluster
        BY <2>3, <2>6, ClusterFacts
      <3>3. w.subject \in User /\ w.project \in Project \cup {TenantWide}
        BY <2>3, <2>6 DEF Asked
      <3>4. KeyOf(r.cluster, w) \in GrantKey /\ KeyOf(r.cluster, w).cluster = r.cluster
        BY <3>2, <3>3, KeyFacts
      <3> QED
        BY <1>9, <3>1, <3>4
    <2> QED
      BY <2>5, <2>6
  <1> QED
    BY <1>3, <1>4, <1>5, <1>6, <1>7, <1>8, <1>9, <1>10, <1>11, Undone

(* The directory's and the projects' changes disturb no job.               *)
LEMMA JobsKept ==
    ASSUME TenancyIInv, UNCHANGED <<tenants, grants, job, made, admins>>,
           projects' \in SUBSET ProjectRecord, ProjectsByAdmins',
           mirror' \in [clusters : [Tenant -> 0 .. MaxClusters], roles : [GrantKey -> Role \cup {"none"}]],
           \A k \in GrantKey : k.project = TenantWide /\ mirror'.roles[k] = "admin" => <<k.subject, k.cluster>> \in admins
    PROVE  TenancyIInv'
  <1>1. TenancyTypeOK' /\ OwnClusters' /\ AdminsKnown'
    BY DEF TenancyIInv, TenancyTypeOK, OwnClusters, Has, AdminsKnown
  <1>2. ASSUME NEW q \in Worker PROVE (JobOK(q, job[q]) /\ SeedOK(job[q]))'
    BY DEF TenancyIInv, JobOK, SeedOK, SeedStep, SeedWants, Has, Within, Gives
  <1> QED
    BY <1>1, <1>2 DEF TenancyIInv

LEMMA MirrorKept ==
    ASSUME TenancyIInv, mirror' = mirror
    PROVE  /\ mirror' \in [clusters : [Tenant -> 0 .. MaxClusters], roles : [GrantKey -> Role \cup {"none"}]]
           /\ \A k \in GrantKey : k.project = TenantWide /\ mirror'.roles[k] = "admin" => <<k.subject, k.cluster>> \in admins
  BY DEF TenancyIInv, TenancyTypeOK, AdminsKnown

LEMMA ProjectReadyStep == ASSUME TenancyIInv, NEW x \in projects, ProjectReady(x) PROVE TenancyIInv'
  <1>1. PICK y : y = [x EXCEPT !.ready = TRUE]
    OBVIOUS
  <1>2. x \in ProjectRecord
    BY DEF TenancyIInv, TenancyTypeOK
  <1>3. y \in ProjectRecord /\ y.by = x.by /\ y.cluster = x.cluster
    BY <1>1, <1>2 DEF ProjectRecord
  <1>4. projects' = (projects \ {x}) \cup {y} /\ UNCHANGED <<tenants, grants, mirror, job, made, admins>>
    BY <1>1 DEF ProjectReady
  <1>5. projects' \in SUBSET ProjectRecord /\ ProjectsByAdmins'
    BY <1>3, <1>4 DEF TenancyIInv, TenancyTypeOK, AdminsKnown, ProjectsByAdmins
  <1> QED
    BY <1>4, <1>5, MirrorKept, JobsKept

LEMMA MirrorTenancyStep == ASSUME TenancyIInv, MirrorTenancy PROVE TenancyIInv'
  <1>1. UNCHANGED <<tenants, projects, grants, job, made, admins>>
    BY DEF MirrorTenancy
  <1>2. PICK m : m = mirror
    OBVIOUS
  <1>3. /\ m \in [clusters : [Tenant -> 0 .. MaxClusters], roles : [GrantKey -> Role \cup {"none"}]]
        /\ m.roles \in [GrantKey -> Role \cup {"none"}] /\ m.clusters \in [Tenant -> 0 .. MaxClusters]
    BY <1>2 DEF TenancyIInv, TenancyTypeOK
  <1>4. ASSUME NEW t \in Tenant,
               mirror' = [m EXCEPT !.clusters[t] = IF tenants[t] = NoTenant THEN 0 ELSE tenants[t].cluster]
        PROVE  TenancyIInv'
    <2> DEFINE c == IF tenants[t] = NoTenant THEN 0 ELSE tenants[t].cluster
    <2>1. c \in 0 .. MaxClusters
      BY SelfServiceAssumption DEF TenancyIInv, TenancyTypeOK, TenantRecord
    <2> HIDE DEF c
    <2>2. /\ mirror' \in [clusters : [Tenant -> 0 .. MaxClusters], roles : [GrantKey -> Role \cup {"none"}]]
          /\ mirror'.roles = m.roles
      BY <1>3, <1>4, <2>1 DEF c
    <2>3. \A k \in GrantKey : k.project = TenantWide /\ mirror'.roles[k] = "admin" => <<k.subject, k.cluster>> \in admins
      BY <1>2, <2>2 DEF TenancyIInv, AdminsKnown
    <2> QED
      BY <1>1, <2>2, <2>3, ProjectsKept, JobsKept
  <1>5. ASSUME NEW c \in 1 .. made,
               mirror' = [m EXCEPT !.roles = [k \in GrantKey |->
                            IF k.cluster # c THEN m.roles[k]
                            ELSE IF grants[k] = NoGrant THEN "none" ELSE grants[k].role]]
        PROVE  TenancyIInv'
    <2> DEFINE new(k) == IF k.cluster # c THEN m.roles[k]
                         ELSE IF grants[k] = NoGrant THEN "none" ELSE grants[k].role
    <2>1. \A k \in GrantKey : new(k) \in Role \cup {"none"}
      BY <1>3 DEF TenancyIInv, TenancyTypeOK, GrantRecord
    <2>2. \A k \in GrantKey : k.project = TenantWide /\ new(k) = "admin" => <<k.subject, k.cluster>> \in admins
      BY <1>2 DEF TenancyIInv, AdminsKnown
    <2>3. mirror' = [m EXCEPT !.roles = [k \in GrantKey |-> new(k)]]
      BY <1>5
    <2> HIDE DEF new
    <2>4. /\ mirror' \in [clusters : [Tenant -> 0 .. MaxClusters], roles : [GrantKey -> Role \cup {"none"}]]
          /\ \A k \in GrantKey : mirror'.roles[k] = new(k)
      BY <1>3, <2>1, <2>3
    <2>5. \A k \in GrantKey : k.project = TenantWide /\ mirror'.roles[k] = "admin" => <<k.subject, k.cluster>> \in admins
      BY <2>2, <2>4
    <2> QED
      BY <1>1, <2>4, <2>5, ProjectsKept, JobsKept
  <1>6. \/ \E t \in Tenant : mirror' = [m EXCEPT !.clusters[t] = IF tenants[t] = NoTenant THEN 0 ELSE tenants[t].cluster]
        \/ \E c \in 1 .. made : mirror' = [m EXCEPT !.roles = [k \in GrantKey |->
                            IF k.cluster # c THEN m.roles[k]
                            ELSE IF grants[k] = NoGrant THEN "none" ELSE grants[k].role]]
    BY <1>2 DEF MirrorTenancy
  <1> QED
    BY <1>4, <1>5, <1>6

LEMMA SelfTenantStep ==
    ASSUME TenancyIInv, NEW u \in Caller, NEW t \in Tenant, SelfTenantRequest(u, t) PROVE TenancyIInv'
  <1>1. UNCHANGED <<projects, grants, mirror, job, made, admins>>
    BY DEF SelfTenantRequest
  <1>2. CASE tenants[t] = NoTenant
    <2>1. PICK x : x = NewTenant(u)
      OBVIOUS
    <2>2. x \in TenantRecord /\ x.cluster = 0
      BY <2>1, SelfServiceAssumption DEF NewTenant, TenantRecord
    <2>3. tenants' = [tenants EXCEPT ![t] = x] /\ ~Has(t)
      BY <1>2, <2>1 DEF SelfTenantRequest, Has
    <2>4. job' \in [Worker -> JobRecord] /\ \A q \in Worker : job'[q] = job[q]
      BY <1>1 DEF TenancyIInv, TenancyTypeOK
    <2> QED
      BY <1>1, <2>2, <2>3, <2>4, TenantWritten
  <1>3. CASE tenants[t] # NoTenant
    <2>1. tenants' = tenants
      BY <1>3 DEF SelfTenantRequest
    <2> QED
      BY <1>1, <2>1, ProjectsKept, MirrorKept, JobsKept
  <1> QED
    BY <1>2, <1>3

LEMMA ProvisionStep == ASSUME TenancyIInv, NEW t \in Tenant, Provision(t) PROVE TenancyIInv'
  <1>1. /\ UNCHANGED <<projects, grants, mirror, job, admins>> /\ Has(t) /\ tenants[t].cluster = 0
        /\ made < MaxClusters /\ made' = made + 1
    BY DEF Provision, Has
  <1>2. PICK c : c = made'
    OBVIOUS
  <1>3. c \in 0 .. MaxClusters
    <2>1. made \in Nat /\ MaxClusters \in Nat
      BY MadeFacts, SelfServiceAssumption DEF TenancyIInv
    <2> QED
      BY <1>1, <1>2, <2>1
  <1>4. PICK x : x = [tenants[t] EXCEPT !.cluster = c]
    OBVIOUS
  <1>5. tenants[t] \in TenantRecord
    BY <1>1 DEF TenancyIInv, TenancyTypeOK, Has
  <1>6. x \in TenantRecord /\ x.cluster = c
    BY <1>3, <1>4, <1>5 DEF TenantRecord
  <1>7. tenants' = [tenants EXCEPT ![t] = x]
    BY <1>2, <1>4 DEF Provision
  <1>8. job' \in [Worker -> JobRecord] /\ \A q \in Worker : job'[q] = job[q]
    BY <1>1 DEF TenancyIInv, TenancyTypeOK
  <1> QED
    BY <1>1, <1>2, <1>6, <1>7, <1>8, TenantWritten

LEMMA Somebody == ASSUME NEW W PROVE \E p : p \notin W
  <1> DEFINE R == {x \in W : x \notin x}
  <1>1. R \notin W
    OBVIOUS
  <1> QED
    BY <1>1

LEMMA SeedFirstAdminStep == ASSUME TenancyIInv, NEW t \in Tenant, SeedFirstAdmin(t) PROVE TenancyIInv'
  <1>1. PICK x : x = tenants[t]
    OBVIOUS
  <1>2. PICK e : e = Entry(x.admin, TenantWide, "")
    OBVIOUS
  <1>3. PICK key : key = KeyOf(x.cluster, e)
    OBVIOUS
  <1>4. /\ x # NoTenant /\ x.cluster # 0 /\ x.admin # Nobody
        /\ tenants' = [tenants EXCEPT ![t].seeded = TRUE] /\ UNCHANGED <<projects, mirror, made>>
    BY <1>1 DEF SeedFirstAdmin
  <1>5. x \in TenantRecord
    BY <1>1, <1>4 DEF TenancyIInv, TenancyTypeOK
  <1>6. e.subject \in User /\ e.project \in Project \cup {TenantWide} /\ x.cluster \in TenantCluster
    <2>1. x.admin \in User /\ x.cluster \in 0 .. MaxClusters
      BY <1>4, <1>5 DEF TenantRecord
    <2>2. e.subject = x.admin /\ e.project = TenantWide
      BY <1>2 DEF Entry
    <2>3. x.cluster \in TenantCluster
      BY <1>4, <2>1, ClusterFacts
    <2> QED
      BY <2>1, <2>2, <2>3
  <1>7. key \in GrantKey
    BY <1>3, <1>6, KeyFacts
  <1>8. PICK y : y = [x EXCEPT !.seeded = TRUE]
    OBVIOUS
  <1>9. y \in TenantRecord /\ y.cluster = x.cluster /\ y # NoTenant
    <2>1. y \in TenantRecord /\ y.cluster = x.cluster
      BY <1>5, <1>8 DEF TenantRecord
    <2> QED
      BY <2>1, SelfServiceAssumption
  <1>10. tenants' = [tenants EXCEPT ![t] = y]
    BY <1>1, <1>4, <1>8
  <1>11. /\ tenants' \in [Tenant -> TenantRecord \cup {NoTenant}] /\ tenants'[t] = y
         /\ \A u \in Tenant : u # t => tenants'[u] = tenants[u]
    BY <1>9, <1>10 DEF TenancyIInv, TenancyTypeOK
  <1>12. \A u \in Tenant : (Has(u)' <=> Has(u)) /\ tenants'[u].cluster = tenants[u].cluster
    BY <1>1, <1>4, <1>9, <1>11 DEF Has
  <1>13. PICK n : n = Resting
    OBVIOUS
  <1>14. n \in JobRecord /\ n.kind # "seed" /\ n.kind # "revoke" /\ n.step = "rest"
    BY <1>13, RestingFacts
  <1>15. JobOK(Nobody, n)' /\ SeedOK(n)'
    BY <1>14 DEF JobOK, SeedOK
  <1>16. CASE UNCHANGED <<grants, admins, job>>
    <2>1. PICK p : p \notin Worker
      BY Somebody
    <2>2. job = [q \in Worker |-> job[q]]
      BY DEF TenancyIInv, TenancyTypeOK
    <2>3. PICK S : S = {}
      OBVIOUS
    <2>4. Undoes(p, n, S)
      BY <1>16, <2>1, <2>2, <2>3 DEF Undoes
    <2>5. ASSUME NEW q \in Worker PROVE Spares(q, S)
      <3>1. job[q].kind = "seed" => job[q].tenant \in Tenant
        BY DEF TenancyIInv, JobOK, SeedOK, SeedStep
      <3>2. job[q].kind = "seed" /\ Has(job[q].tenant) => tenants'[job[q].tenant] # NoTenant
        BY <1>12, <3>1 DEF Has
      <3> QED
        BY <1>16, <3>2 DEF Spares
    <2>6. grants' \in [GrantKey -> GrantRecord \cup {NoGrant}] /\ \A k \in GrantKey : grants'[k] # NoGrant => grants'[k] = grants[k]
      BY <1>16 DEF TenancyIInv, TenancyTypeOK
    <2>7. projects' \in SUBSET ProjectRecord /\ ProjectsByAdmins'
      BY <1>4, <1>16, ProjectsKept
    <2>8. /\ \A u \in Tenant : Has(u)' => Has(u) /\ tenants'[u].cluster = tenants[u].cluster
          /\ UNCHANGED <<mirror, made, admins>>
      BY <1>4, <1>12, <1>16
    <2> QED
      BY <1>11, <2>1, <2>4, <2>5, <2>6, <2>7, <2>8, Undone
  <1>17. CASE ~UNCHANGED <<grants, admins, job>>
    <2>1. PICK v : v = IF grants[key] = NoGrant THEN 1 ELSE grants[key].version + 1
      OBVIOUS
    <2>2. v \in Nat
      BY <1>7, <2>1 DEF TenancyIInv, TenancyTypeOK, GrantRecord
    <2>3. PICK g : g = [role |-> "admin", version |-> v]
      OBVIOUS
    <2>4. g \in GrantRecord
      BY <2>2, <2>3 DEF GrantRecord, Role
    <2>5. WritesGrant(Nobody, n, key, g)
      BY <1>1, <1>2, <1>3, <1>13, <1>17, <2>1, <2>3 DEF SeedFirstAdmin
    <2>6. \A u \in Tenant : (Has(u)' <=> Has(u)) /\ (Has(u) => tenants'[u].cluster = tenants[u].cluster)
      BY <1>12
    <2>7. Nobody \in Worker => n \in JobRecord /\ JobOK(Nobody, n)' /\ SeedOK(n)'
      BY <1>14, <1>15
    <2> QED
      BY <1>4, <1>7, <1>11, <2>4, <2>5, <2>6, <2>7, GrantWritten
  <1> QED
    BY <1>16, <1>17

LEMMA SelfProjectStep ==
    ASSUME TenancyIInv, NEW u \in Caller, NEW t \in Tenant, NEW name \in Project, SelfProjectRequest(u, t, name)
    PROVE  TenancyIInv'
  <1>1. PICK c : c = mirror.clusters[t]
    OBVIOUS
  <1>2. PICK n : n = [Resting EXCEPT !.kind = "request", !.step = "write", !.tenant = t,
                        !.project = name, !.cluster = c]
    OBVIOUS
  <1>3. PICK e : e = Entry(u, TenantWide, "")
    OBVIOUS
  <1>4. PICK key : key = KeyOf(c, e)
    OBVIOUS
  <1>5. /\ Becomes(u, n) /\ c # 0 /\ mirror.roles[key] = "admin"
        /\ UNCHANGED <<tenants, projects, grants, mirror, made, admins>>
    BY <1>1, <1>2, <1>3, <1>4 DEF SelfProjectRequest, Authorized
  <1>6. c \in 0 .. MaxClusters
    BY <1>1 DEF TenancyIInv, TenancyTypeOK
  <1>7. /\ e.subject = u /\ e.project = TenantWide /\ u \in User /\ u \in Worker
        /\ e.project \in Project \cup {TenantWide}
    BY <1>3, SelfServiceAssumption DEF Entry, Worker
  <1>8. key \in GrantKey /\ key.cluster = c /\ key.subject = u /\ key.project = TenantWide
    <2>1. c \in TenantCluster
      BY <1>5, <1>6, ClusterFacts
    <2> QED
      BY <1>4, <1>7, <2>1, KeyFacts
  <1>9. <<u, c>> \in admins
    BY <1>5, <1>8 DEF TenancyIInv, AdminsKnown
  <1>10. n \in JobRecord /\ n.kind = "request" /\ n.step = "write" /\ n.tenant = t /\ n.cluster = c
    BY <1>2, <1>6, RestingFacts, JobWords DEF JobRecord
  <1>11. JobOK(u, n) /\ SeedOK(n)
    BY <1>9, <1>10 DEF JobOK, SeedOK
  <1> QED
    BY <1>5, <1>7, <1>10, <1>11, JobAlone

LEMMA WriteProjectStep == ASSUME TenancyIInv, NEW u \in Caller, WriteProject(u) PROVE TenancyIInv'
  <1>1. PICK r : r = job[u]
    OBVIOUS
  <1>2. PICK x : x = NewProject(r.cluster, r.project, u)
    OBVIOUS
  <1>3. PICK n : n = Resting
    OBVIOUS
  <1>4. /\ r.step = "write" /\ Becomes(u, n) /\ UNCHANGED <<tenants, grants, mirror, made, admins>>
        /\ (projects' = projects \/ projects' = projects \cup {x})
    BY <1>1, <1>2, <1>3 DEF WriteProject, Target
  <1>5. u \in Worker /\ u \in User
    BY SelfServiceAssumption DEF Worker
  <1>6. r \in JobRecord /\ <<u, r.cluster>> \in admins
    BY <1>1, <1>4, <1>5 DEF TenancyIInv, TenancyTypeOK, JobOK
  <1>7. x \in ProjectRecord /\ x.by = u /\ x.cluster = r.cluster
    BY <1>2, <1>5, <1>6 DEF NewProject, ProjectRecord, JobRecord
  <1>8. projects' \in SUBSET ProjectRecord /\ ProjectsByAdmins'
    BY <1>4, <1>6, <1>7 DEF TenancyIInv, TenancyTypeOK, AdminsKnown, ProjectsByAdmins
  <1>9. n \in JobRecord /\ JobOK(u, n) /\ SeedOK(n)
    BY <1>3, <1>5, RestingFacts
  <1> QED
    BY <1>4, <1>5, <1>8, <1>9, JobGoesOn

LEMMA CommandsStep == ASSUME TenancyIInv, NEW p \in Command, Commands(p) PROVE TenancyIInv'
  <1>1. p \in Worker
    BY DEF Worker
  <1>3. ASSUME NEW t \in Tenant, NEW u \in User, NEW role \in Role, NEW name \in Project \cup {TenantWide},
               Grant(p, t, Entry(u, name, role)) \/ Revoke(p, t, Entry(u, name, role))
        PROVE  TenancyIInv'
    BY <1>1, <1>3, EntryFacts, GrantBegins
  <1> QED
    BY <1>1, <1>3, SeedBegins, OthersBegin, DeleteTenantStep, MembershipBegins DEF Commands

LEMMA TenancyStep == TenancyIInv /\ [TenancyNext]_tenancyVars => TenancyIInv'
  <1> SUFFICES ASSUME TenancyIInv, [TenancyNext]_tenancyVars PROVE TenancyIInv'
    OBVIOUS
  <1>1. ASSUME NEW p \in Command, Commands(p) \/ Requests(p) PROVE TenancyIInv'
    BY <1>1, CommandsStep, RequestsStep
  <1>2. ASSUME NEW u \in Caller, SelfRequests(u) PROVE TenancyIInv'
    BY <1>2, SelfTenantStep, SelfProjectStep, WriteProjectStep DEF SelfRequests
  <1>3. CASE Operator
    BY <1>3, ProvisionStep, SeedFirstAdminStep, RemoveTenantStep, ProjectReadyStep DEF Operator
  <1>4. CASE MirrorTenancy
    BY <1>4, MirrorTenancyStep
  <1>5. CASE UNCHANGED tenancyVars
    <2>1. UNCHANGED <<tenants, projects, grants, mirror, job, made, admins>>
      BY <1>5 DEF tenancyVars
    <2> QED
      BY <2>1, ProjectsKept, MirrorKept, JobsKept
  <1> QED
    BY <1>1, <1>2, <1>3, <1>4, <1>5 DEF TenancyNext

(* Where it begins. *)
LEMMA TenancyStart == TenancyInit => TenancyIInv
  <1> SUFFICES ASSUME TenancyInit PROVE TenancyIInv
    OBVIOUS
  <1> DEFINE key(s) == KeyOf(1, Entry(s, TenantWide, ""))
  <1>1. PICK t \in Tenant, a \in User, b \in User, role \in Role, there \in BOOLEAN :
    /\ a # b /\ (~there => role = "view")
    /\ tenants = [x \in Tenant |-> IF there /\ x = t
         THEN [admin |-> a, cluster |-> 1, seeded |-> TRUE, leaving |-> FALSE] ELSE NoTenant]
    /\ grants = [k \in GrantKey |-> CASE there /\ k = key(a) -> [role |-> "admin", version |-> 1]
                                 [] there /\ k = key(b) -> [role |-> role, version |-> 1]
                                 [] OTHER -> NoGrant]
    /\ admins = IF there THEN {<<a, 1>>} \cup (IF role = "admin" THEN {<<b, 1>>} ELSE {}) ELSE {}
    /\ made = IF there THEN 1 ELSE 0
    /\ projects = {} /\ requests = 0
    /\ mirror = [clusters |-> [x \in Tenant |-> 0], roles |-> [k \in GrantKey |-> "none"]]
    /\ job = [q \in Worker |-> Resting]
    BY ZenonT(60) DEF TenancyInit, Worker
  <1>2. 1 \in TenantCluster /\ 1 \in 0 .. MaxClusters /\ 0 \in 0 .. MaxClusters
    BY SelfServiceAssumption DEF TenantCluster
  <1>3. ASSUME NEW s \in User PROVE key(s) \in GrantKey /\ key(s).subject = s /\ key(s).cluster = 1
    <2>1. Entry(s, TenantWide, "").subject = s /\ Entry(s, TenantWide, "").project = TenantWide
      BY DEF Entry
    <2> QED
      BY <1>2, <2>1, KeyFacts
  <1>4. PICK x : x = [admin |-> a, cluster |-> 1, seeded |-> TRUE, leaving |-> FALSE]
    OBVIOUS
  <1>5. x \in TenantRecord /\ x.cluster = 1 /\ x # NoTenant
    <2>1. x \in TenantRecord /\ x.cluster = 1
      BY <1>2, <1>4 DEF TenantRecord
    <2> QED
      BY <2>1, SelfServiceAssumption
  <1>6. /\ tenants \in [Tenant -> TenantRecord \cup {NoTenant}]
        /\ \A u \in Tenant : Has(u) => u = t /\ there /\ tenants[u].cluster = 1
    BY <1>1, <1>4, <1>5 DEF Has
  <1>7. PICK g : g = [role |-> "admin", version |-> 1]
    OBVIOUS
  <1>8. PICK h : h = [role |-> role, version |-> 1]
    OBVIOUS
  <1>9. g \in GrantRecord /\ h \in GrantRecord /\ h.role = role
    BY <1>1, <1>7, <1>8 DEF GrantRecord, Role
  <1> HIDE DEF key
  <1>10. ASSUME NEW k \in GrantKey
         PROVE  grants[k] = NoGrant \/ (there /\ k = key(a) /\ grants[k] = g) \/ (there /\ k = key(b) /\ grants[k] = h)
    <2>1. grants[k] = CASE there /\ k = key(a) -> g [] there /\ k = key(b) -> h [] OTHER -> NoGrant
      BY <1>1, <1>7, <1>8
    <2> QED
      BY <2>1
  <1>11. grants \in [GrantKey -> GrantRecord \cup {NoGrant}]
    <2>1. \A k \in GrantKey : grants[k] \in GrantRecord \cup {NoGrant}
      BY <1>9, <1>10
    <2>2. grants = [k \in GrantKey |-> grants[k]]
      BY <1>1
    <2> QED
      BY <2>1, <2>2
  <1>12. mirror \in [clusters : [Tenant -> 0 .. MaxClusters], roles : [GrantKey -> Role \cup {"none"}]]
    BY <1>1, <1>2
  <1>13. made \in 0 .. MaxClusters /\ (there => made = 1)
    BY <1>1, <1>2
  <1>14. job \in [Worker -> JobRecord] /\ \A q \in Worker : job[q] = Resting
    BY <1>1, RestingFacts
  <1>15. TenancyTypeOK
    BY <1>1, <1>6, <1>11, <1>12, <1>13, <1>14 DEF TenancyTypeOK
  <1>16. OwnClusters
    <2>1. 1 <= 1
      OBVIOUS
    <2> QED
      BY <1>6, <1>13, <2>1 DEF OwnClusters
  <1>17. AdminsKnown
    <2>1. ASSUME NEW k \in GrantKey, grants[k] # NoGrant, grants[k].role = "admin"
          PROVE  <<k.subject, k.cluster>> \in admins
      <3>1. there /\ k = key(a) => k.subject = a /\ k.cluster = 1 /\ <<a, 1>> \in admins
        BY <1>1, <1>3
      <3>2. there /\ k = key(b) /\ grants[k] = h => k.subject = b /\ k.cluster = 1 /\ <<b, 1>> \in admins
        BY <1>1, <1>3, <1>9, <2>1
      <3> QED
        BY <1>10, <2>1, <3>1, <3>2
    <2>2. \A k \in GrantKey : mirror.roles[k] # "admin"
      BY <1>1
    <2>3. ProjectsByAdmins
      BY <1>1 DEF ProjectsByAdmins
    <2> QED
      BY <2>1, <2>2, <2>3 DEF AdminsKnown
  <1> QED
    BY <1>14, <1>15, <1>16, <1>17, RestingFacts DEF TenancyIInv

(* What the inductive invariant says of the property that is checked.      *)
LEMMA TenancyTells == TenancyIInv => SelfServiceInv
  <1> SUFFICES ASSUME TenancyIInv PROVE SeedIsIdempotent
    BY DEF SelfServiceInv, TenancyIInv, AdminsKnown
  <1> SUFFICES ASSUME NEW p \in Command, NEW r, r = job[p], r.kind = "seed"
               PROVE  /\ r.step = "done" /\ ~r.undone =>
                           \A w \in r.wants : grants[KeyOf(r.cluster, w)] # NoGrant
                                              /\ grants[KeyOf(r.cluster, w)].role = w.role
                      /\ r.step = "refused" /\ r.wait => r.raced
    BY DEF SeedIsIdempotent
  <1>1. SeedStep(r) /\ SeedWants(r)
    BY DEF TenancyIInv, SeedOK, Worker
  <1>2. ASSUME r.step = "done", ~r.undone, NEW w \in r.wants PROVE Gives(r.cluster, w)
    <2>1. r.todo = <<>>
      BY <1>1, <1>2 DEF SeedStep
    <2>2. ~Left(r.todo, w)
      BY <2>1 DEF Left
    <2> QED
      BY <1>1, <1>2, <2>2 DEF SeedWants
  <1>3. r.step = "refused" /\ r.wait => r.raced
    BY <1>1 DEF SeedStep
  <1> QED
    BY <1>2, <1>3 DEF Gives

(* A seed that ends well has made every grant it was asked for, unless     *)
(* somebody else changed that grant or deleted what it is in, and one that *)
(* waits is refused only if somebody else raced it; and a project made on  *)
(* a request is where its requester was an admin (seed.go,                 *)
(* selfprojectrequest/storage.go): for any number of commands, callers,    *)
(* tenants, projects and seeds.                                            *)
THEOREM SeedsAreIdempotent == TenancySpec => []SelfServiceInv
  <1>1. TenancyInit => TenancyIInv
    BY TenancyStart
  <1>2. TenancyIInv /\ [TenancyNext]_tenancyVars => TenancyIInv'
    BY TenancyStep
  <1>3. TenancyIInv => SelfServiceInv
    BY TenancyTells
  <1> QED
    BY <1>1, <1>2, <1>3, PTL DEF TenancySpec
=============================================================================

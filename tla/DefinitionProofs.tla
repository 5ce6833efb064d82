-------------------------- MODULE DefinitionProofs --------------------------
(***************************************************************************)
(* The cache of API definitions never leaks, loses or misuses a set, for   *)
(* any number of concurrent requests, keys, changes and builds.            *)
(*                                                                         *)
(* That nothing leaks is not inductive by itself.  Install replaces the    *)
(* entry of one key and drops one pending set; that no other entry or      *)
(* request stands for the same sets needs OwnersDistinct and CacheIsKeyed. *)
(* That answers are current needs what each request has read so far to be  *)
(* current (ReadsAreCurrent).                                              *)
(***************************************************************************)
EXTENDS DefinitionCache, EphemeralRequest, EndpointSlices, SequenceTheorems, TLAPS

(* The initial states satisfy the invariant. *)
LEMMA CacheStart == Init => CacheInv
  <1> SUFFICES ASSUME Init PROVE CacheInv
    OBVIOUS
  <1>1. TypeOK
    <2>1. req \in [Request -> [key : Key, export : Nat, schema : Nat,
                               set : DefinitionSet \cup {NoSet}]]
      BY DEF Init, Missing
    <2>2. /\ pc \in [Request -> Step]
          /\ cached \in [Key -> DefinitionSet \cup {NoSet}]
          /\ during \in [Request -> [exports : SUBSET Nat, schemas : SUBSET Nat]]
      BY DEF Init, Step
    <2>3. /\ version \in Nat /\ builds \in Nat /\ configured \in BOOLEAN
          /\ export \in [Key -> Nat] /\ schema \in [Key -> Nat]
          /\ built = {} /\ torn = {}
      BY DEF Init, Missing
    <2> QED
      BY <2>1, <2>2, <2>3 DEF TypeOK
  <1>2. NothingLeaks
    <2>1. Owned = {} /\ Pending = {}
      BY DEF Init, Owned, Pending
    <2> QED
      BY <2>1 DEF Init, NothingLeaks
  <1>3. OwnersDistinct /\ CacheIsKeyed /\ ReadsAreCurrent /\ AnswersAreCurrent
    BY DEF Init, OwnersDistinct, CacheIsKeyed, ReadsAreCurrent, AnswersAreCurrent
  <1> QED
    BY <1>1, <1>2, <1>3 DEF CacheInv

(* The informers touch neither the cache nor what a request holds; what    *)
(* they change is added to the history of every request for the key.       *)
LEMMA ObjectsStep ==
    ASSUME CacheInv, NEW k \in Key, ChangeExport(k) \/ ChangeSchema(k)
    PROVE  CacheInv'
  <1> USE DEF CacheInv
  <1>1. UNCHANGED <<configured, cached, builds, built, torn, pc, req>>
    BY DEF ChangeExport, ChangeSchema
  <1>2. version' \in Nat /\ export' \in [Key -> Nat] /\ schema' \in [Key -> Nat]
    BY DEF ChangeExport, ChangeSchema, Updated, TypeOK, Missing
  <1>3. /\ during' \in [Request -> [exports : SUBSET Nat, schemas : SUBSET Nat]]
        /\ \A r \in Request : /\ during[r].exports \subseteq during'[r].exports
                               /\ during[r].schemas \subseteq during'[r].schemas
    <2>1. CASE ChangeExport(k)
      <3> DEFINE grown(r) == [during[r] EXCEPT !.exports = @ \cup {export'[k]}]
      <3>1. during' = [r \in Request |-> IF pc[r] # "idle" /\ req[r].key = k
                                         THEN grown(r) ELSE during[r]]
        BY <2>1 DEF ChangeExport
      <3>2. ASSUME NEW r \in Request
            PROVE  /\ grown(r) \in [exports : SUBSET Nat, schemas : SUBSET Nat]
                   /\ during[r] \in [exports : SUBSET Nat, schemas : SUBSET Nat]
                   /\ during[r].exports \subseteq grown(r).exports
                   /\ during[r].schemas = grown(r).schemas
        BY <1>2 DEF TypeOK
      <3> HIDE DEF grown
      <3> QED
        BY <3>1, <3>2
    <2>2. CASE ChangeSchema(k)
      <3> DEFINE grown(r) == [during[r] EXCEPT !.schemas = @ \cup {schema'[k]}]
      <3>1. during' = [r \in Request |-> IF pc[r] # "idle" /\ req[r].key = k
                                         THEN grown(r) ELSE during[r]]
        BY <2>2 DEF ChangeSchema
      <3>2. ASSUME NEW r \in Request
            PROVE  /\ grown(r) \in [exports : SUBSET Nat, schemas : SUBSET Nat]
                   /\ during[r] \in [exports : SUBSET Nat, schemas : SUBSET Nat]
                   /\ during[r].schemas \subseteq grown(r).schemas
                   /\ during[r].exports = grown(r).exports
        BY <1>2 DEF TypeOK
      <3> HIDE DEF grown
      <3> QED
        BY <3>1, <3>2
    <2> QED
      BY <2>1, <2>2
  <1>4. TypeOK'
    BY <1>1, <1>2, <1>3 DEF TypeOK
  <1>5. NothingLeaks' /\ OwnersDistinct' /\ CacheIsKeyed'
    BY <1>1 DEF NothingLeaks, Owned, Pending, OwnersDistinct, CacheIsKeyed
  <1>7. ASSUME NEW r \in Request, pc[r] # "idle"
        PROVE  /\ export'[req[r].key] \in during'[r].exports
               /\ schema'[req[r].key] \in during'[r].schemas
    <2>1. /\ export[req[r].key] \in during[r].exports
          /\ schema[req[r].key] \in during[r].schemas
          /\ req[r].key \in Key
      BY <1>7 DEF ReadsAreCurrent, TypeOK
    <2>2. CASE req[r].key = k
      BY <1>3, <1>7, <2>1, <2>2 DEF ChangeExport, ChangeSchema, TypeOK
    <2>3. CASE req[r].key # k
      BY <1>3, <2>1, <2>3 DEF ChangeExport, ChangeSchema, TypeOK
    <2> QED
      BY <2>2, <2>3
  <1>8. ReadsAreCurrent'
    BY <1>1, <1>3, <1>7 DEF ReadsAreCurrent, BuiltFrom
  <1>9. AnswersAreCurrent'
    BY <1>1, <1>3 DEF AnswersAreCurrent
  <1> QED
    BY <1>4, <1>5, <1>8, <1>9

(* A step of one request that neither builds, installs nor changes the     *)
(* store keeps the invariant about the sets.                               *)
LEMMA StoreKept ==
    ASSUME CacheInv, NEW r \in Request, UNCHANGED store,
           pc[r] # "install", pc'[r] # "install",
           \A q \in Request : q # r => pc'[q] = pc[q] /\ req'[q] = req[q]
    PROVE  NothingLeaks' /\ OwnersDistinct' /\ CacheIsKeyed'
  <1> USE DEF CacheInv, store
  <1>1. Pending' = Pending
    BY DEF Pending
  <1>2. Owned' = Owned
    BY DEF Owned
  <1>3. NothingLeaks'
    BY <1>1, <1>2 DEF NothingLeaks
  <1>4. OwnersDistinct'
    BY DEF OwnersDistinct
  <1>5. CacheIsKeyed'
    BY DEF CacheIsKeyed
  <1> QED
    BY <1>3, <1>4, <1>5

(* The steps of a request before it builds, and its end. *)
LEMMA ReadStep ==
    ASSUME CacheInv, NEW r \in Request,
           \/ \E k \in Key : Begin(r, k)
           \/ GetAPIExport(r) \/ Resolve(r) \/ LookUp(r) \/ Served(r)
    PROVE  CacheInv'
  <1> USE DEF CacheInv
  <1>1. UNCHANGED <<objects, store>>
    BY DEF Begin, GetAPIExport, Resolve, LookUp, Served
  <1>2. /\ pc[r] # "install" /\ pc'[r] # "install"
        /\ \A q \in Request : q # r => /\ pc'[q] = pc[q] /\ req'[q] = req[q]
                                       /\ during'[q] = during[q]
    BY DEF Begin, GetAPIExport, Resolve, LookUp, Served, Goto, TypeOK
  <1>3. TypeOK'
    <2>1. pc' \in [Request -> Step]
      BY DEF Begin, GetAPIExport, Resolve, LookUp, Served, Goto, TypeOK, Step
    <2>2. during' \in [Request -> [exports : SUBSET Nat, schemas : SUBSET Nat]]
      BY DEF Begin, GetAPIExport, Resolve, LookUp, Served, TypeOK
    <2>3. req' \in [Request -> [key : Key, export : Nat, schema : Nat,
                                set : DefinitionSet \cup {NoSet}]]
      BY SMTT(30) DEF Begin, GetAPIExport, Resolve, LookUp, Served, TypeOK, Missing
    <2> QED
      BY <1>1, <2>1, <2>2, <2>3 DEF TypeOK, objects, store
  <1>4. NothingLeaks' /\ OwnersDistinct' /\ CacheIsKeyed'
    BY <1>1, <1>2, StoreKept
  <1>5. ASSUME NEW q \in Request, q # r
        PROVE  /\ pc'[q] = pc[q] /\ req'[q] = req[q] /\ during'[q] = during[q]
               /\ UNCHANGED <<export, schema>>
    BY <1>1, <1>2, <1>5 DEF objects
  <1>6. ReadsAreCurrent'
    <2> SUFFICES ASSUME NEW q \in Request
                 PROVE  /\ pc'[q] # "idle" => /\ export'[req'[q].key] \in during'[q].exports
                                              /\ schema'[req'[q].key] \in during'[q].schemas
                        /\ pc'[q] \in {"schema", "lookup", "build", "install", "serving"} =>
                               req'[q].export \in during'[q].exports
                        /\ pc'[q] \in {"lookup", "build", "install", "serving"} =>
                               req'[q].schema \in during'[q].schemas
                        /\ pc'[q] = "install" => BuiltFrom(q)'
      BY DEF ReadsAreCurrent
    <2>1. CASE q # r
      BY <2>1, <1>5 DEF ReadsAreCurrent, BuiltFrom
    <2>2. CASE q = r
      <3>1. CASE \E k \in Key : Begin(r, k)
        BY <2>2, <3>1, <1>1 DEF Begin, Goto, TypeOK, objects
      <3>2. CASE GetAPIExport(r)
        BY <2>2, <3>2, <1>1 DEF GetAPIExport, Goto, TypeOK, objects, ReadsAreCurrent
      <3>3. CASE Resolve(r)
        BY <2>2, <3>3, <1>1 DEF Resolve, Goto, TypeOK, objects, ReadsAreCurrent
      <3>4. CASE LookUp(r)
        <4>1. /\ req'[r].key = req[r].key /\ during'[r] = during[r]
              /\ req'[r].export = req[r].export /\ req'[r].schema = req[r].schema
          BY <3>4 DEF LookUp, TypeOK
        <4>2. pc[r] = "lookup" /\ pc'[r] # "install"
          BY <3>4, <1>2 DEF LookUp
        <4> QED
          BY <2>2, <4>1, <4>2, <1>1 DEF objects, ReadsAreCurrent
      <3>5. CASE Served(r)
        BY <2>2, <3>5, <1>1 DEF Served, Goto, TypeOK, objects
      <3> QED
        BY <3>1, <3>2, <3>3, <3>4, <3>5
    <2> QED
      BY <2>1, <2>2
  <1>7. AnswersAreCurrent'
    <2> SUFFICES ASSUME NEW q \in Request, pc'[q] = "serving"
                 PROVE  /\ req'[q].set.key = req'[q].key
                        /\ req'[q].set.export \in during'[q].exports
                        /\ req'[q].set.schema \in during'[q].schemas
      BY DEF AnswersAreCurrent
    <2>1. CASE q # r
      BY <2>1, <1>5 DEF AnswersAreCurrent
    <2>2. CASE q = r
      <3>1. LookUp(r) /\ SameRevision(cached[req[r].key], r)
        BY <2>2 DEF Begin, GetAPIExport, Resolve, LookUp, Served, Goto, TypeOK
      <3>2. req'[r].set = cached[req[r].key] /\ req'[r].key = req[r].key /\ during'[r] = during[r]
        BY <3>1 DEF LookUp, TypeOK
      <3>3. cached[req[r].key].key = req[r].key
        BY <3>1 DEF SameRevision, CacheIsKeyed, TypeOK
      <3> QED
        BY <2>2, <3>1, <3>2, <3>3 DEF SameRevision, LookUp, ReadsAreCurrent
    <2> QED
      BY <2>1, <2>2
  <1> QED
    BY <1>3, <1>4, <1>6, <1>7

(* Build adds one new set, held by the request that built it; a build that *)
(* fails adds none.                                                        *)
LEMMA BuildStep ==
    ASSUME CacheInv, NEW r \in Request, Build(r)
    PROVE  CacheInv'
  <1> USE DEF CacheInv
  <1> DEFINE set == [build |-> builds + 1, key |-> req[r].key,
                     export |-> req[r].export, schema |-> req[r].schema]
  <1>1. /\ UNCHANGED <<objects, cached, torn, during>>
        /\ pc[r] = "build"
        /\ \A q \in Request : q # r => pc'[q] = pc[q] /\ req'[q] = req[q]
    BY DEF Build, Goto, TypeOK
  <1>2. set \in DefinitionSet /\ set \notin built
    BY DEF TypeOK, DefinitionSet
  <1>3. CASE pc'[r] = "idle" /\ UNCHANGED <<builds, built, req>>
    <2>1. NothingLeaks' /\ OwnersDistinct' /\ CacheIsKeyed'
      BY <1>1, <1>3, StoreKept DEF store
    <2>2. TypeOK'
      BY <1>1, <1>3 DEF Build, Goto, TypeOK, Step, objects
    <2>3. ReadsAreCurrent'
      BY <1>1, <1>3 DEF ReadsAreCurrent, BuiltFrom, objects
    <2>4. AnswersAreCurrent'
      BY <1>1, <1>3 DEF AnswersAreCurrent
    <2> QED
      BY <2>1, <2>2, <2>3, <2>4
  <1>4. CASE /\ pc' = [pc EXCEPT ![r] = "install"]
             /\ builds' = builds + 1
             /\ built' = built \cup {set}
             /\ req' = [req EXCEPT ![r].set = set]
    <2>1. pc'[r] = "install" /\ req'[r] = [req[r] EXCEPT !.set = set]
      BY <1>4 DEF TypeOK
    <2>2. /\ req'[r].set = set /\ req'[r].key = req[r].key
          /\ req'[r].export = req[r].export /\ req'[r].schema = req[r].schema
      BY <2>1 DEF TypeOK
    <2>3. set.key = req[r].key /\ set.export = req[r].export /\ set.schema = req[r].schema
      OBVIOUS
    <2>4. \A s \in built' : s.build <= builds'
      BY <1>4 DEF TypeOK, DefinitionSet
    <2> HIDE DEF set
    <2>5. TypeOK'
      BY <1>1, <1>2, <1>4, <2>4 DEF TypeOK, Step, objects
    <2>6. Pending' = Pending \cup {set} /\ Owned' = Owned
      <3>1. Owned' = Owned
        BY <1>1 DEF Owned
      <3>2. \A x : x \in Pending' <=> \E q \in Request : pc'[q] = "install" /\ x = req'[q].set
        BY DEF Pending
      <3>3. \A x : x \in Pending <=> \E q \in Request : pc[q] = "install" /\ x = req[q].set
        BY DEF Pending
      <3>4. \A x : x \in Pending' <=> x \in Pending \/ x = set
        <4> SUFFICES ASSUME NEW x PROVE x \in Pending' <=> x \in Pending \/ x = set
          OBVIOUS
        <4>1. ASSUME NEW q \in Request, q # r
              PROVE  pc'[q] = "install" /\ x = req'[q].set <=> pc[q] = "install" /\ x = req[q].set
          BY <1>1, <4>1
        <4>2. pc'[r] = "install" /\ req'[r].set = set /\ pc[r] # "install"
          BY <1>1, <2>1, <2>2
        <4>3. ASSUME x \in Pending' PROVE x \in Pending \/ x = set
          BY <3>2, <3>3, <4>1, <4>2, <4>3
        <4>4. ASSUME x \in Pending \/ x = set PROVE x \in Pending'
          BY <3>2, <3>3, <4>1, <4>2, <4>4
        <4> QED
          BY <4>3, <4>4
      <3> QED
        BY <3>1, <3>4
    <2>7. NothingLeaks'
      BY <1>1, <1>2, <1>4, <2>6 DEF NothingLeaks, TypeOK
    <2>8. \A k \in Key : cached[k] # set
      BY <1>2, NoSetAssumption DEF CacheIsKeyed
    <2>9. \A q \in Request : pc[q] = "install" => req[q].set # set
      BY <1>2 DEF OwnersDistinct
    <2>10. OwnersDistinct'
      BY <1>1, <1>2, <1>4, <2>1, <2>2, <2>8, <2>9 DEF OwnersDistinct, TypeOK
    <2>11. CacheIsKeyed'
      BY <1>1, <1>4 DEF CacheIsKeyed
    <2>12. ReadsAreCurrent'
      <3>1. BuiltFrom(r)'
        BY <2>2, <2>3 DEF BuiltFrom
      <3>2. /\ export'[req'[r].key] \in during'[r].exports
            /\ schema'[req'[r].key] \in during'[r].schemas
            /\ req'[r].export \in during'[r].exports
            /\ req'[r].schema \in during'[r].schemas
        BY <1>1, <2>2 DEF ReadsAreCurrent, objects
      <3>3. \A q \in Request : q # r /\ pc'[q] = "install" => BuiltFrom(q)'
        BY <1>1 DEF ReadsAreCurrent, BuiltFrom
      <3> QED
        BY <1>1, <3>1, <3>2, <3>3 DEF ReadsAreCurrent, objects
    <2>13. AnswersAreCurrent'
      BY <1>1, <2>1 DEF AnswersAreCurrent
    <2> QED
      BY <2>5, <2>7, <2>10, <2>11, <2>12, <2>13
  <1> QED
    BY <1>3, <1>4 DEF Build, Goto, TypeOK

(* Install moves the request's set into the cache and tears down the one   *)
(* it replaces, or tears down its own and takes the one that is there.     *)
LEMMA InstallStep ==
    ASSUME CacheInv, NEW r \in Request, Install(r)
    PROVE  CacheInv'
  <1> USE DEF CacheInv
  <1> DEFINE k == req[r].key
             mine == req[r].set
             existing == cached[k]
  <1>1. /\ UNCHANGED <<objects, builds, built, during>>
        /\ pc[r] = "install" /\ pc'[r] = "serving" /\ pc' = [pc EXCEPT ![r] = "serving"]
        /\ \A q \in Request : q # r => pc'[q] = pc[q] /\ req'[q] = req[q]
    BY DEF Install, Goto, TypeOK
  <1>2. k \in Key /\ mine \in built \ torn /\ BuiltFrom(r)
    BY <1>1 DEF OwnersDistinct, ReadsAreCurrent, TypeOK
  <1>3. mine \in DefinitionSet /\ mine # NoSet
    BY <1>2, NoSetAssumption DEF TypeOK
  <1>4. /\ \A j \in Key : cached[j] # mine
        /\ \A q \in Request : pc[q] = "install" /\ req[q].set = mine => q = r
    BY <1>1 DEF OwnersDistinct
  <1>5. \A j \in Key : j # k /\ existing # NoSet => cached[j] # existing
    BY <1>2 DEF CacheIsKeyed
  <1>6. \A q \in Request : pc[q] = "install" => req[q].set # existing
    BY <1>2 DEF OwnersDistinct
  <1>7. existing # NoSet => existing \in built \ torn /\ existing.key = k
    BY <1>2 DEF CacheIsKeyed
  <1>8. CASE SameRevision(existing, r)
    <2>1. /\ torn' = torn \cup {mine}
          /\ req' = [req EXCEPT ![r].set = existing]
          /\ UNCHANGED cached
      BY <1>8 DEF Install
    <2>2. /\ existing # NoSet
          /\ existing.export = req[r].export /\ existing.schema = req[r].schema
      BY <1>8 DEF SameRevision
    <2>3. /\ req'[r].set = existing /\ req'[r].key = k
          /\ req'[r].export = req[r].export /\ req'[r].schema = req[r].schema
      BY <2>1 DEF TypeOK
    <2>4. TypeOK'
      BY <1>1, <1>2, <2>1 DEF TypeOK, Step, objects
    <2> HIDE DEF mine, existing
    <2>5. Pending' = Pending \ {mine} /\ Owned' = Owned /\ mine \notin Owned
      BY <1>1, <1>4, <2>1 DEF Pending, Owned, mine
    <2>6. NothingLeaks'
      BY <1>1, <2>1, <2>5 DEF NothingLeaks
    <2>7. OwnersDistinct'
      BY <1>1, <1>4, <2>1 DEF OwnersDistinct
    <2>8. CacheIsKeyed'
      BY <1>1, <1>4, <2>1 DEF CacheIsKeyed
    <2>9. ReadsAreCurrent'
      BY <1>1, <2>3 DEF ReadsAreCurrent, BuiltFrom, objects
    <2>10. /\ existing.export \in during[r].exports
           /\ existing.schema \in during[r].schemas
      BY <1>1, <2>2 DEF ReadsAreCurrent
    <2>11. AnswersAreCurrent'
      BY <1>1, <1>7, <2>2, <2>3, <2>10 DEF AnswersAreCurrent
    <2> QED
      BY <2>4, <2>6, <2>7, <2>8, <2>9, <2>11
  <1>9. CASE ~SameRevision(existing, r)
    <2>1. /\ torn' = torn \cup ({existing} \ {NoSet})
          /\ cached' = [cached EXCEPT ![k] = mine]
          /\ UNCHANGED req
      BY <1>9 DEF Install
    <2>2. TypeOK'
      BY <1>1, <1>2, <1>3, <1>7, <2>1 DEF TypeOK, Step, objects
    <2>3. cached'[k] = mine /\ \A j \in Key : j # k => cached'[j] = cached[j]
      BY <1>2, <2>1 DEF TypeOK
    <2> HIDE DEF mine, existing, k
    <2>4. Pending' = Pending \ {mine} /\ mine \in Pending
      BY <1>1, <1>4, <2>1 DEF Pending, mine
    <2>5. Owned' = (Owned \ {existing}) \cup {mine}
      BY <1>2, <1>3, <1>5, <2>3 DEF Owned, existing
    <2>6. existing \notin Pending
      BY <1>6 DEF Pending
    <2>7. existing \in Owned \cup {NoSet} /\ NoSet \notin built
      BY <1>2, NoSetAssumption DEF Owned, existing, TypeOK
    <2>8. NothingLeaks'
      <3>1. built' \ torn' = (built \ torn) \ {existing}
        BY <1>1, <2>1, <2>7
      <3>2. existing # mine
        BY <1>2, <1>4 DEF existing
      <3> QED
        BY <3>1, <3>2, <2>4, <2>5, <2>6 DEF NothingLeaks
    <2>9. OwnersDistinct'
      BY <1>1, <1>4, <1>6, <2>1, <2>3 DEF OwnersDistinct
    <2>10. CacheIsKeyed'
      <3> SUFFICES ASSUME NEW j \in Key, cached'[j] # NoSet
                   PROVE  cached'[j] \in built' \ torn' /\ cached'[j].key = j
        BY DEF CacheIsKeyed
      <3>1. CASE j = k
        <4>1. mine # existing
          BY <1>2, <1>4 DEF existing
        <4>2. mine.key = k
          BY <1>2 DEF BuiltFrom, mine, k
        <4> QED
          BY <3>1, <4>1, <4>2, <1>1, <1>2, <2>1, <2>3
      <3>2. CASE j # k
        <4>1. cached[j] \in built \ torn /\ cached[j].key = j
          BY <3>2, <2>3 DEF CacheIsKeyed
        <4>2. cached[j] \notin {existing} \ {NoSet}
          BY <3>2, <1>5
        <4> QED
          BY <3>2, <4>1, <4>2, <1>1, <2>1, <2>3
      <3> QED
        BY <3>1, <3>2
    <2>11. ReadsAreCurrent'
      BY <1>1, <2>1 DEF ReadsAreCurrent, BuiltFrom, objects
    <2>12. AnswersAreCurrent'
      BY <1>1, <1>2, <2>1 DEF AnswersAreCurrent, ReadsAreCurrent, BuiltFrom
    <2> QED
      BY <2>2, <2>8, <2>9, <2>10, <2>11, <2>12
  <1> QED
    BY <1>8, <1>9

(* Every step keeps the invariant. *)
LEMMA CacheStep ==
    ASSUME CacheInv, [Next]_vars
    PROVE  CacheInv'
  <1>1. CASE SetServerConfig
    <2>1. TypeOK'
      BY <1>1 DEF SetServerConfig, CacheInv, TypeOK
    <2>2. NothingLeaks' /\ OwnersDistinct' /\ CacheIsKeyed'
      BY <1>1 DEF SetServerConfig, CacheInv, NothingLeaks, Owned, Pending, OwnersDistinct,
                  CacheIsKeyed
    <2>3. ReadsAreCurrent' /\ AnswersAreCurrent'
      BY <1>1 DEF SetServerConfig, CacheInv, ReadsAreCurrent, BuiltFrom, AnswersAreCurrent
    <2> QED
      BY <2>1, <2>2, <2>3 DEF CacheInv
  <1>2. CASE UNCHANGED vars
    <2>1. TypeOK'
      BY <1>2 DEF vars, CacheInv, TypeOK
    <2>2. NothingLeaks' /\ OwnersDistinct' /\ CacheIsKeyed'
      BY <1>2 DEF vars, CacheInv, NothingLeaks, Owned, Pending, OwnersDistinct, CacheIsKeyed
    <2>3. ReadsAreCurrent' /\ AnswersAreCurrent'
      BY <1>2 DEF vars, CacheInv, ReadsAreCurrent, BuiltFrom, AnswersAreCurrent
    <2> QED
      BY <2>1, <2>2, <2>3 DEF CacheInv
  <1> QED
    BY <1>1, <1>2, ObjectsStep, ReadStep, BuildStep, InstallStep DEF Next

(* Whenever requests race to build, replace and use the definitions of an  *)
(* export, exactly the sets in the cache or about to be installed are up   *)
(* (GetAPIDefinitionSet tears down every other).                           *)
THEOREM CacheConsistent == Spec => []CacheInv
  BY CacheStart, CacheStep, PTL DEF Spec

(* Every request is answered from the versions its own reads have seen     *)
(* (GetAPIDefinitionSet compares revisions before it serves a cached set). *)
THEOREM CurrentAnswers == Spec => []AnswersAreCurrent
  <1>1. CacheInv => AnswersAreCurrent
    BY DEF CacheInv
  <1> QED
    BY <1>1, CacheConsistent, PTL

(* No request is handed a set that is already torn down. *)
THEOREM LiveAnswers == Spec => HandedOutLive
  <1>1. ASSUME CacheInv, [Next]_vars
        PROVE  [HandedOut]_vars
    <2> USE DEF CacheInv
    <2> SUFFICES ASSUME Next PROVE HandedOut
      BY <1>1
    <2> SUFFICES ASSUME NEW q \in Request, pc[q] # "serving", pc'[q] = "serving"
                 PROVE  req'[q].set \notin torn'
      BY DEF HandedOut
    <2>1. CacheInv'
      BY <1>1, CacheStep
    <2>2. LookUp(q) \/ Install(q)
      <3>1. pc' # pc
        BY DEF TypeOK
      <3>2. PICK r \in Request : \/ \E k \in Key : Begin(r, k)
                                \/ GetAPIExport(r) \/ Resolve(r) \/ LookUp(r)
                                \/ Build(r) \/ Install(r) \/ Served(r)
        BY <3>1 DEF Next, ChangeExport, ChangeSchema, SetServerConfig
      <3>3. \A p \in Request : p # r => pc'[p] = pc[p]
        BY <3>2, <1>1 DEF Begin, GetAPIExport, Resolve, LookUp, Build, Install, Served, Goto, TypeOK
      <3>4. q = r
        BY <3>3
      <3> QED
        BY <3>2, <3>4, <1>1 DEF Begin, GetAPIExport, Resolve, Build, Served, Goto, TypeOK
    <2>3. \A j \in Key : cached'[j] # NoSet => cached'[j] \notin torn'
      BY <2>1 DEF CacheIsKeyed
    <2>4. req'[q].set = cached'[req[q].key] /\ req'[q].set # NoSet /\ req[q].key \in Key
      <3>1. req[q].key \in Key /\ (pc[q] = "install" => req[q].set # NoSet)
        BY <1>1, NoSetAssumption DEF TypeOK, OwnersDistinct
      <3>2. CASE LookUp(q)
        BY <3>1, <3>2, <1>1 DEF LookUp, SameRevision, Goto, TypeOK, store
      <3>3. CASE Install(q)
        BY <3>1, <3>3, <1>1 DEF Install, SameRevision, TypeOK
      <3> QED
        BY <2>2, <3>2, <3>3
    <2> QED
      BY <2>3, <2>4
  <1> QED
    BY <1>1, CacheConsistent, PTL DEF Spec, HandedOutLive

-----------------------------------------------------------------------------
(* A create of an ephemeral resource (EphemeralRequest).                   *)

Asked == [key : DomainKey, target : Consumer \cup {Wildcard}, resource : Resource,
          schema : Nat, uid : Nat]

Reply == [uid : Nat, allowed : BOOLEAN, object : Nat]

Stage == {"idle", "authorize", "content", "definitions", "create", "webhook", "answered"}

RequestTypeOK ==
    /\ exported \in [DomainKey -> Nat] /\ bindings \subseteq Ref /\ content \subseteq DomainKey
    /\ edits \in Nat /\ sent \in Nat /\ replies \subseteq Reply
    /\ at \in [Handler -> Stage]
    /\ ask \in [Handler -> Asked \cup {NotAsked}]
    /\ seen \in [Handler -> [bound : BOOLEAN, content : BOOLEAN, schemas : SUBSET Nat]]
    /\ told \in [Handler -> Reply]

(* The running server is configured for what is asked.                     *)
Configured(a) ==
    \E e \in entries : /\ e.path \in {a.key.cluster, PathOf[a.key.cluster]}
                       /\ e.name = a.key.name /\ e.resource = a.resource

(* The history of a request has what held at its moments, this one too.    *)
Remembers(h) ==
    /\ BoundTo(bindings, ask[h]) => seen[h].bound
    /\ ask[h].key \in content => seen[h].content

(* What a request has got past tells what was seen on the way.             *)
Passed(h) ==
    /\ at[h] # "idle" => server = "serving" /\ ask[h] \in Asked /\ Remembers(h)
    /\ at[h] \in {"content", "definitions", "create", "webhook"} => seen[h].bound
    /\ at[h] \in {"definitions", "create", "webhook"} /\ RequireExportContent => seen[h].content
    /\ at[h] \in {"create", "webhook"} =>
          Configured(ask[h]) /\ ask[h].schema \in seen[h].schemas \ {Gone}
    /\ at[h] = "answered" =>
          /\ told[h].uid = ask[h].uid
          /\ told[h].allowed => told[h].object \in seen[h].schemas \ {Gone}

PassedInv == RequestTypeOK /\ \A h \in Handler : Passed(h)

LEMMA RequestFacts ==
    /\ NotSeen \in [bound : BOOLEAN, content : BOOLEAN, schemas : SUBSET Nat]
    /\ Nothing \in Reply
    /\ \A a \in Asked, v \in Nat :
          [a EXCEPT !.schema = v] \in Asked /\ [a EXCEPT !.uid = v] \in Asked
  <1>1. {} \in SUBSET Nat
    OBVIOUS
  <1> QED
    BY <1>1 DEF NotSeen, Nothing, Reply, Asked, Gone

(* What a request asks for does not change with the schema it finds or the *)
(* review it sends.                                                        *)
LEMMA SameRequest ==
    ASSUME NEW a \in Asked, NEW v \in Nat, NEW b,
           b = [a EXCEPT !.schema = v] \/ b = [a EXCEPT !.uid = v]
    PROVE  /\ b.key = a.key /\ b.resource = a.resource
           /\ Configured(b) <=> Configured(a)
           /\ BoundTo(bindings, b) <=> BoundTo(bindings, a)
  <1>1. b.key = a.key /\ b.resource = a.resource /\ b.target = a.target
    BY DEF Asked
  <1> QED
    BY <1>1 DEF Configured, BoundTo

(* A binding without a path is for an export of its own workspace.         *)
LEMMA HasBindingFacts ==
    ASSUME RequestTypeOK, NEW a \in Asked, hasBinding(a.target, a.key, a.resource)
    PROVE  BoundTo(bindings, a)
  <1>1. PICK b \in bindings :
            LET path == IF b.path = OwnWorkspace THEN b.cluster ELSE b.path
            IN  /\ b.cluster = a.target /\ b.name = a.key.name
                /\ path \in {a.key.cluster, PathOf[a.key.cluster]}
                /\ b.resource = a.resource
    BY DEF hasBinding
  <1>2. b.cluster \in Consumer /\ a.key.cluster \in Provider
    BY DEF RequestTypeOK, Ref, Asked, DomainKey
  <1>3. Names(b, a.key.cluster)
    BY <1>1, <1>2, PathAssumption DEF Names
  <1> QED
    BY <1>1, <1>3 DEF BoundTo

LEMMA EntriesFacts ==
    ASSUME NEW a \in Asked, a.resource \in entriesFor(a.key)
    PROVE  Configured(a)
  BY DEF entriesFor, EntriesUnder, Configured

LEMMA RequestsStart == RequestInit => PassedInv
  <1> SUFFICES ASSUME RequestInit PROVE PassedInv
    OBVIOUS
  <1>1. RequestTypeOK
    BY RequestFacts DEF RequestInit, RequestTypeOK, Stage
  <1>2. \A h \in Handler : at[h] = "idle"
    BY DEF RequestInit
  <1> QED
    BY <1>1, <1>2 DEF PassedInv, Passed

(* A step of one handler: the other ones' requests are as they were.       *)
LEMMA OneHandler ==
    ASSUME PassedInv, NEW h \in Handler, UNCHANGED <<objectsVars, serverVars>>,
           \A g \in Handler : g # h => /\ at'[g] = at[g] /\ ask'[g] = ask[g]
                                       /\ seen'[g] = seen[g] /\ told'[g] = told[g],
           RequestTypeOK', Passed(h)'
    PROVE  PassedInv'
  <1>1. /\ UNCHANGED <<exported, bindings, content, edits>>
        /\ UNCHANGED <<server, entries>>
    BY DEF objectsVars, serverVars
  <1>2. ASSUME NEW g \in Handler, g # h PROVE Passed(g)'
    <2>1. Passed(g) /\ at'[g] = at[g] /\ ask'[g] = ask[g] /\ seen'[g] = seen[g] /\ told'[g] = told[g]
      BY <1>2 DEF PassedInv
    <2> QED
      BY <1>1, <2>1 DEF Passed, Remembers, Configured, BoundTo
  <1> QED
    BY <1>2 DEF PassedInv

LEMMA EndStep ==
    ASSUME PassedInv, NEW h \in Handler, End(h), UNCHANGED <<objectsVars, serverVars, replies>>,
           sent' = sent
    PROVE  PassedInv'
  <1> USE DEF RequestTypeOK
  <1>1. at'[h] = "idle" /\ RequestTypeOK'
    BY RequestFacts DEF End, PassedInv, Stage, objectsVars, serverVars
  <1>2. Passed(h)'
    BY <1>1 DEF Passed
  <1> QED
    BY <1>1, <1>2, OneHandler DEF End, PassedInv

(* Objects change under the requests that are in progress. *)
LEMMA EditStep ==
    ASSUME PassedInv, Edit, bindings' \subseteq Ref, content' \subseteq DomainKey,
           exported' \in [DomainKey -> Nat]
    PROVE  PassedInv'
  <1>1. edits' \in Nat /\ UNCHANGED <<server, entries, sent, replies, at, ask, told>>
    BY DEF Edit, PassedInv, RequestTypeOK, serverVars, webhookVars
  <1>2. ASSUME NEW h \in Handler
        PROVE  /\ seen'[h] \in [bound : BOOLEAN, content : BOOLEAN, schemas : SUBSET Nat]
               /\ seen[h].bound => seen'[h].bound
               /\ seen[h].content => seen'[h].content
               /\ seen[h].schemas \subseteq seen'[h].schemas
               /\ at[h] # "idle" => /\ BoundTo(bindings', ask[h]) => seen'[h].bound
                                    /\ ask[h].key \in content' => seen'[h].content
    <2>1. /\ seen[h] \in [bound : BOOLEAN, content : BOOLEAN, schemas : SUBSET Nat]
          /\ at[h] # "idle" => ask[h] \in Asked
      BY DEF PassedInv, RequestTypeOK, Passed
    <2>2. CASE at[h] = "idle"
      <3>1. seen'[h] = seen[h]
        BY <2>2 DEF Edit, Watched
      <3> QED
        BY <2>1, <2>2, <3>1
    <2>3. CASE at[h] # "idle"
      <3> DEFINE b == BoundTo(bindings', ask[h])
                 c == ask[h].key \in content'
      <3>1. seen'[h] = [bound |-> seen[h].bound \/ b, content |-> seen[h].content \/ c,
                        schemas |-> seen[h].schemas \cup {exported'[ask[h].key]}]
        BY <2>3 DEF Edit, Watched
      <3>2. exported'[ask[h].key] \in Nat
        BY <2>1, <2>3 DEF Asked
      <3>3. /\ (seen[h].bound \/ b) \in BOOLEAN /\ (seen[h].content \/ c) \in BOOLEAN
            /\ seen[h].schemas \cup {exported'[ask[h].key]} \in SUBSET Nat
        BY <2>1, <3>2
      <3> HIDE DEF b, c
      <3>4. /\ seen'[h].bound = (seen[h].bound \/ b) /\ seen'[h].content = (seen[h].content \/ c)
            /\ seen[h].schemas \subseteq seen'[h].schemas
            /\ seen'[h] \in [bound : BOOLEAN, content : BOOLEAN, schemas : SUBSET Nat]
        BY <3>1, <3>3
      <3> QED
        BY <3>4 DEF b, c
    <2> QED
      BY <2>2, <2>3
  <1>3. seen' \in [Handler -> [bound : BOOLEAN, content : BOOLEAN, schemas : SUBSET Nat]]
    <2>1. seen' = [h \in Handler |-> seen'[h]]
      BY DEF Edit, Watched
    <2> QED
      BY <1>2, <2>1
  <1>4. RequestTypeOK'
    BY <1>1, <1>3 DEF PassedInv, RequestTypeOK
  <1>5. ASSUME NEW h \in Handler PROVE Passed(h)'
    <2>1. Passed(h) /\ (Configured(ask[h])' <=> Configured(ask[h]))
      BY <1>1 DEF PassedInv, Configured
    <2>2. at[h] # "idle" => Remembers(h)'
      BY <1>1, <1>2 DEF Remembers, BoundTo
    <2> QED
      BY <1>1, <1>2, <2>1, <2>2 DEF Passed
  <1> QED
    BY <1>4, <1>5 DEF PassedInv

LEMMA ServerStep ==
    ASSUME PassedInv, Synced \/ Stop \/ \E file \in File : Start(file)
    PROVE  PassedInv'
  <1>1. RequestTypeOK'
    BY RequestFacts
    DEF PassedInv, RequestTypeOK, Synced, Stop, Start, Stage, objectsVars, webhookVars, handlerVars
  <1>2. ASSUME NEW h \in Handler PROVE at'[h] = "idle"
    <2>1. server # "serving" => at[h] = "idle"
      BY DEF PassedInv, Passed
    <2> QED
      BY <2>1 DEF Synced, Stop, Start, handlerVars
  <1> QED
    BY <1>1, <1>2 DEF PassedInv, Passed

LEMMA WebhookStep ==
    ASSUME PassedInv, NEW uid \in 1 .. MaxReviews, NEW verdict \in Verdict,
           WebhookReplies(uid, verdict)
    PROVE  PassedInv'
  <1>1. /\ UNCHANGED <<exported, bindings, content, edits, server, entries, sent, at, ask, seen, told>>
        /\ replies' = replies \cup
              {[uid |-> uid, allowed |-> verdict.allowed, object |-> verdict.object]}
    BY DEF WebhookReplies, objectsVars, serverVars, handlerVars
  <1>2. verdict.allowed \in BOOLEAN /\ verdict.object \in Nat /\ uid \in Nat
    <2>1. edits \in Nat /\ \A n \in 0 .. (edits + 1) : n \in Nat
      BY DEF PassedInv, RequestTypeOK
    <2>2. verdict.allowed \in BOOLEAN /\ verdict.object \in {0} \cup 0 .. (edits + 1)
      BY DEF Verdict, Gone
    <2> QED
      BY <2>1, <2>2, OptionsAssumption
  <1>3. RequestTypeOK'
    BY <1>1, <1>2 DEF PassedInv, RequestTypeOK, Reply
  <1>4. \A h \in Handler : Passed(h)'
    BY <1>1 DEF PassedInv, Passed, Remembers, Configured, BoundTo
  <1> QED
    BY <1>3, <1>4 DEF PassedInv

LEMMA ReceiveStep ==
    ASSUME PassedInv, NEW h \in Handler, NEW k \in DomainKey, NEW t \in Consumer \cup {Wildcard},
           NEW r \in Resource, Receive(h, k, t, r)
    PROVE  PassedInv'
  <1> DEFINE a == [key |-> k, target |-> t, resource |-> r, schema |-> Gone, uid |-> 0]
             was == [bound |-> BoundTo(bindings, a), content |-> k \in content,
                     schemas |-> {exported[k]}]
  <1>1. a \in Asked /\ a.key = k
    BY DEF Asked, Gone
  <1>2. /\ was \in [bound : BOOLEAN, content : BOOLEAN, schemas : SUBSET Nat]
        /\ was.bound = BoundTo(bindings, a) /\ was.content = (k \in content)
    BY DEF PassedInv, RequestTypeOK, BoundTo
  <1>3. /\ server = "serving" /\ at' = [at EXCEPT ![h] = "authorize"]
        /\ ask' = [ask EXCEPT ![h] = a] /\ seen' = [seen EXCEPT ![h] = was]
        /\ UNCHANGED told /\ UNCHANGED <<objectsVars, serverVars, webhookVars>>
    BY DEF Receive
  <1> HIDE DEF a, was
  <1>4. RequestTypeOK'
    BY <1>1, <1>2, <1>3
    DEF PassedInv, RequestTypeOK, Stage, objectsVars, serverVars, webhookVars
  <1>5. Passed(h)'
    <2>1. at'[h] = "authorize" /\ ask'[h] = a /\ seen'[h] = was
      BY <1>3 DEF PassedInv, RequestTypeOK
    <2>2. UNCHANGED <<server, bindings, content>>
      BY <1>3 DEF objectsVars, serverVars
    <2>3. Remembers(h)'
      BY <1>1, <1>2, <2>1, <2>2 DEF Remembers, BoundTo
    <2> QED
      BY <1>1, <1>3, <2>1, <2>2, <2>3 DEF Passed
  <1>6. \A g \in Handler : g # h => /\ at'[g] = at[g] /\ ask'[g] = ask[g]
                                    /\ seen'[g] = seen[g] /\ told'[g] = told[g]
    BY <1>3
  <1> QED
    BY <1>3, <1>4, <1>5, <1>6, OneHandler

(* A handler goes on, with what it asks for as it was or completed.        *)
LEMMA ProceedStep ==
    ASSUME PassedInv, NEW h \in Handler, NEW step \in Stage, Proceed(h, step),
           NEW a \in Asked, ask' = [ask EXCEPT ![h] = a], sent' \in Nat,
           UNCHANGED <<objectsVars, serverVars, replies>>, Passed(h)'
    PROVE  PassedInv'
  <1>1. RequestTypeOK'
    BY DEF PassedInv, RequestTypeOK, Proceed, objectsVars, serverVars
  <1> QED
    BY <1>1, OneHandler DEF Proceed, PassedInv, RequestTypeOK

LEMMA SameAsk ==
    ASSUME PassedInv, NEW h \in Handler, UNCHANGED ask PROVE ask' = [ask EXCEPT ![h] = ask[h]]
  BY DEF PassedInv, RequestTypeOK

LEMMA HandlerStep ==
    ASSUME PassedInv, NEW h \in Handler,
           \/ Authorize(h) \/ AuthorizeContent(h) \/ GetDefinition(h)
           \/ Create(h) \/ Answer(h) \/ Return(h)
    PROVE  PassedInv'
  <1> DEFINE a == ask[h]
  <1>1. /\ UNCHANGED <<objectsVars, serverVars>> /\ sent \in Nat
        /\ UNCHANGED <<exported, bindings, content, edits, server, entries>>
    BY DEF Authorize, AuthorizeContent, GetDefinition, Create, Answer, Return, PassedInv,
           RequestTypeOK, objectsVars, serverVars
  <1>2. CASE End(h)
    <2>1. sent' = sent \/ Create(h)
      BY DEF Authorize, AuthorizeContent, GetDefinition, Answer, Return, webhookVars
    <2>2. UNCHANGED replies
      BY DEF Authorize, AuthorizeContent, GetDefinition, Create, Answer, Return, webhookVars
    <2>3. at'[h] = "idle"
      BY <1>2 DEF End, PassedInv, RequestTypeOK
    <2>4. sent' = sent
      BY <2>1, <2>3 DEF Create, Proceed, PassedInv, RequestTypeOK
    <2> QED
      BY <1>1, <1>2, <2>2, <2>4, EndStep
  <1>3. ASSUME at[h] # "idle" PROVE a \in Asked /\ Remembers(h) /\ server = "serving"
    BY <1>3 DEF PassedInv, Passed
  <1>4. ASSUME NEW step \in Stage, Proceed(h, step), UNCHANGED ask, UNCHANGED webhookVars,
               at[h] # "idle", step # "answered",
               step \in {"content", "definitions", "create", "webhook"} => seen[h].bound,
               step \in {"definitions", "create", "webhook"} /\ RequireExportContent
                  => seen[h].content,
               step \notin {"create", "webhook"}
        PROVE  PassedInv'
    <2>1. Passed(h)'
      <3>1. at'[h] = step /\ UNCHANGED seen /\ UNCHANGED told
        BY <1>4 DEF Proceed, PassedInv, RequestTypeOK
      <3>2. Remembers(h)'
        BY <1>1, <1>3, <1>4, <3>1 DEF Remembers, BoundTo
      <3> QED
        BY <1>1, <1>3, <1>4, <3>1, <3>2 DEF Passed
    <2> QED
      BY <1>1, <1>3, <1>4, <2>1, SameAsk, ProceedStep DEF webhookVars
  <1>5. CASE Authorize(h) /\ ~End(h)
    <2>1. seen[h].bound
      BY <1>3, <1>5, HasBindingFacts DEF Authorize, Remembers, PassedInv
    <2> QED
      BY <1>4, <1>5, <2>1 DEF Authorize, Stage
  <1>6. CASE AuthorizeContent(h) /\ ~End(h)
    <2>1. seen[h].bound /\ seen[h].content
      BY <1>3, <1>6 DEF AuthorizeContent, Remembers, PassedInv, Passed
    <2> QED
      BY <1>4, <1>6, <2>1 DEF AuthorizeContent, Stage
  <1>7. CASE GetDefinition(h) /\ ~End(h)
    <2>1. PICK v \in seen[h].schemas :
             /\ v # Gone /\ a.resource \in entriesFor(a.key) /\ Proceed(h, "create")
             /\ ask' = [ask EXCEPT ![h].schema = v]
      BY <1>7 DEF GetDefinition
    <2> DEFINE b == [a EXCEPT !.schema = v]
    <2>2. /\ at[h] = "definitions" /\ a \in Asked /\ v \in Nat /\ Configured(a)
          /\ Remembers(h) /\ server = "serving"
      BY <1>3, <1>7, <2>1, EntriesFacts DEF GetDefinition, PassedInv, RequestTypeOK
    <2>3. b \in Asked /\ b.schema = v /\ b.key = a.key /\ Configured(b)
          /\ (BoundTo(bindings, b) <=> BoundTo(bindings, a))
      BY <2>2, RequestFacts, SameRequest DEF Asked
    <2>4. ask' = [ask EXCEPT ![h] = b]
      BY <2>1
    <2> HIDE DEF b
    <2>5. at'[h] = "create" /\ ask'[h] = b /\ UNCHANGED seen
      BY <2>1, <2>4 DEF Proceed, PassedInv, RequestTypeOK
    <2>6. Remembers(h)'
      BY <1>1, <2>2, <2>3, <2>5 DEF Remembers, BoundTo
    <2>7. Passed(h)'
      BY <1>1, <2>1, <2>2, <2>3, <2>5, <2>6 DEF Passed, PassedInv, Configured
    <2> QED
      BY <1>1, <1>7, <2>1, <2>3, <2>4, <2>7, ProceedStep DEF GetDefinition, webhookVars, Stage
  <1>8. CASE Create(h) /\ ~End(h)
    <2> DEFINE b == [a EXCEPT !.uid = sent + 1]
    <2>1. /\ at[h] = "create" /\ a \in Asked /\ Remembers(h) /\ server = "serving"
          /\ Proceed(h, "webhook") /\ sent' = sent + 1
          /\ ask' = [ask EXCEPT ![h].uid = sent + 1] /\ UNCHANGED replies
      BY <1>3, <1>8 DEF Create
    <2>2. /\ b \in Asked /\ b.schema = a.schema /\ b.key = a.key
          /\ (Configured(b) <=> Configured(a))
          /\ (BoundTo(bindings, b) <=> BoundTo(bindings, a))
      <3>1. sent + 1 \in Nat
        BY <1>1
      <3> QED
        BY <2>1, <3>1, RequestFacts, SameRequest DEF Asked
    <2>3. ask' = [ask EXCEPT ![h] = b]
      BY <2>1
    <2> HIDE DEF b
    <2>4. at'[h] = "webhook" /\ ask'[h] = b /\ UNCHANGED seen
      BY <2>1, <2>3 DEF Proceed, PassedInv, RequestTypeOK
    <2>5. Remembers(h)'
      BY <1>1, <2>1, <2>2, <2>4 DEF Remembers, BoundTo
    <2>6. Passed(h)'
      BY <1>1, <2>1, <2>2, <2>4, <2>5 DEF Passed, PassedInv, Configured
    <2>7. sent' \in Nat
      BY <1>1, <2>1
    <2> QED
      BY <1>1, <2>1, <2>2, <2>3, <2>6, <2>7, ProceedStep DEF Stage
  <1>9. CASE Answer(h) /\ ~End(h)
    <2>1. PICK y \in Accepted(h) : /\ y.allowed => Conforms(y.object, a.schema)
                                   /\ AnswerWith(h, y)
      BY <1>9 DEF Answer
    <2>2. /\ y \in Reply /\ y.uid = a.uid /\ at[h] = "webhook" /\ Passed(h)
          /\ a \in Asked /\ Remembers(h) /\ server = "serving" /\ UNCHANGED webhookVars
      BY <1>3, <1>9, <2>1 DEF Accepted, Answer, PassedInv, RequestTypeOK
    <2>3. at'[h] = "answered" /\ told'[h] = y /\ UNCHANGED <<ask, seen>>
      BY <2>1 DEF AnswerWith, PassedInv, RequestTypeOK
    <2>4. Remembers(h)'
      BY <1>1, <2>2, <2>3 DEF Remembers, BoundTo
    <2>5. Passed(h)'
      BY <1>1, <2>1, <2>2, <2>3, <2>4 DEF Passed, Conforms
    <2>6. RequestTypeOK'
      BY <1>1, <2>1, <2>2
      DEF AnswerWith, PassedInv, RequestTypeOK, Stage, webhookVars
    <2> QED
      BY <1>1, <2>1, <2>5, <2>6, OneHandler DEF AnswerWith, PassedInv, RequestTypeOK
  <1> QED
    BY <1>2, <1>5, <1>6, <1>7, <1>8, <1>9 DEF Return

LEMMA RequestStep == ASSUME PassedInv, [RequestNext]_requestVars PROVE PassedInv'
  <1>1. ASSUME NEW b \in Ref, ChangeBinding(b) PROVE PassedInv'
    BY <1>1, EditStep DEF ChangeBinding, PassedInv, RequestTypeOK
  <1>2. ASSUME NEW k \in DomainKey, ChangeExported(k) PROVE PassedInv'
    <2>1. PICK v \in {Gone, edits + 2} : exported' = [exported EXCEPT ![k] = v]
      BY <1>2 DEF ChangeExported
    <2>2. v \in Nat
      BY DEF Gone, PassedInv, RequestTypeOK
    <2>3. exported' \in [DomainKey -> Nat]
      BY <2>1, <2>2 DEF PassedInv, RequestTypeOK
    <2> QED
      BY <1>2, <2>3, EditStep DEF ChangeExported, PassedInv, RequestTypeOK
  <1>3. ASSUME NEW k \in DomainKey, ChangeContent(k) PROVE PassedInv'
    BY <1>3, EditStep DEF ChangeContent, PassedInv, RequestTypeOK
  <1>4. CASE UNCHANGED requestVars
    <2>1. /\ UNCHANGED <<exported, bindings, content, edits, server, entries, sent, replies>>
          /\ UNCHANGED <<at, ask, seen, told>>
      BY <1>4 DEF requestVars, objectsVars, serverVars, webhookVars, handlerVars
    <2> QED
      BY <2>1 DEF PassedInv, RequestTypeOK, Passed, Remembers, Configured, BoundTo
  <1> QED
    BY <1>1, <1>2, <1>3, <1>4, ServerStep, WebhookStep, ReceiveStep, HandlerStep DEF RequestNext

(* A webhook is called only for a workspace that had bound the export with *)
(* the resource and for a caller with access to its content, and an answer *)
(* is the reply to the caller's own review (Authorize, Client.Call), for   *)
(* any handlers, exports, bindings, edits and restarts.                    *)
THEOREM RequestsAreBoundAndAnswered ==
    RequestInit /\ [][RequestNext]_requestVars => []RequestInv
  <1>1. ASSUME PassedInv PROVE RequestInv
    BY <1>1 DEF PassedInv, Passed, RequestInv, CalledOnlyForTheBound, AnswersAreTheirOwn, Configured
  <1> QED
    BY <1>1, RequestsStart, RequestStep, PTL

-----------------------------------------------------------------------------
(* The slices that the virtual workspace is published in (EndpointSlices). *)

Published == {Endpoint(o, [export |-> e]) : o \in Options, e \in Exports \cup {NoName}}

SliceRecord == [rv : Nat, export : Exports \cup {NoName}, endpoints : Seq(Published)]

PassRecord == [step : {"waiting", "publishing"}, listed : [Slice -> SliceRecord],
               todo : SUBSET Slice, left : [Slice -> Nat], clean : BOOLEAN]

SlicesTypeOK ==
    /\ crd \in BOOLEAN /\ writes \in Nat
    /\ slices \in [Slice -> SliceRecord]
    /\ options \in [Instance -> Options]
    /\ pass \in [Instance -> PassRecord]

(* No version is in use, or remembered, that was not given out.            *)
VersionsGiven ==
    \A s \in Slice :
        /\ slices[s].rv <= writes
        /\ \A c \in Instance : pass[c].listed[s].rv <= writes /\ pass[c].left[s] <= writes

(* A version tells what a slice was when it was listed.                    *)
ListedAsIs(c, s) ==
    pass[c].listed[s].rv # Absent /\ pass[c].listed[s].rv = slices[s].rv =>
        pass[c].listed[s] = slices[s]

(* A slice still to be published is left as it was listed.                 *)
LeftToDo(c, s) ==
    /\ s \in pass[c].todo =>
          pass[c].left[s] = pass[c].listed[s].rv /\ pass[c].listed[s].rv # Absent
    /\ pass[c].listed[s].rv # Absent => pass[c].left[s] # Absent
    /\ pass[c].left[s] # Absent => pass[c].listed[s].rv # Absent

(* One that is done with, and has not changed since, has its endpoint.     *)
DoneWith(c, s) ==
    /\ pass[c].step = "publishing" /\ pass[c].clean
    /\ s \notin pass[c].todo /\ pass[c].listed[s].rv # Absent
    /\ Matches(options[c], pass[c].listed[s])
    /\ slices[s].rv = pass[c].left[s]
    => /\ slices[s].export # NoName
       /\ slices[s].endpoints = <<Endpoint(options[c], slices[s])>>

SlicesInv ==
    /\ SlicesTypeOK /\ VersionsGiven
    /\ \A c \in Instance, s \in Slice : ListedAsIs(c, s) /\ LeftToDo(c, s) /\ DoneWith(c, s)

LEMMA EndpointFacts ==
    ASSUME NEW o \in Options, NEW slice \in SliceRecord
    PROVE  /\ Endpoint(o, slice) \in Published
           /\ \A other \in SliceRecord : other.export = slice.export => Endpoint(o, other) = Endpoint(o, slice)
  <1>1. slice.export \in Exports \cup {NoName}
    BY DEF SliceRecord
  <1>2. Endpoint(o, slice) = Endpoint(o, [export |-> slice.export])
    BY DEF Endpoint, URLFor
  <1>3. Endpoint(o, slice) \in Published
    BY <1>1, <1>2 DEF Published
  <1>4. \A other \in SliceRecord : other.export = slice.export => Endpoint(o, other) = Endpoint(o, slice)
    BY DEF Endpoint, URLFor
  <1> QED
    BY <1>3, <1>4

LEMMA WriteFacts ==
    ASSUME SlicesTypeOK, NEW s \in Slice, NEW slice \in SliceRecord, Write(s, slice)
    PROVE  /\ writes' = writes + 1
           /\ slices' \in [Slice -> SliceRecord]
           /\ slices'[s].rv = writes + 1
           /\ slices'[s].export = slice.export /\ slices'[s].endpoints = slice.endpoints
           /\ \A t \in Slice : t # s => slices'[t] = slices[t]
  <1>1. PICK n \in Nat : n = writes + 1
    BY DEF SlicesTypeOK
  <1>2. PICK new : new = [slice EXCEPT !.rv = n]
    OBVIOUS
  <1>3. new \in SliceRecord /\ new.rv = n /\ new.export = slice.export /\ new.endpoints = slice.endpoints
    BY <1>2 DEF SliceRecord
  <1>4. slices' = [slices EXCEPT ![s] = new]
    BY <1>1, <1>2 DEF Write
  <1> QED
    BY <1>1, <1>3, <1>4 DEF Write, SlicesTypeOK

LEMMA WaitingFacts ==
    /\ NotThere \in SliceRecord /\ NotThere.rv = Absent
    /\ Waiting \in PassRecord /\ Waiting.step = "waiting" /\ Waiting.todo = {}
    /\ \A s \in Slice : Waiting.listed[s] = NotThere /\ Waiting.left[s] = Absent
  <1>1. NotThere \in SliceRecord /\ NotThere.rv = Absent
    BY DEF NotThere, SliceRecord, Absent
  <1>2. [s \in Slice |-> NotThere] \in [Slice -> SliceRecord] /\ [s \in Slice |-> Absent] \in [Slice -> Nat]
    BY <1>1 DEF Absent
  <1> QED
    BY <1>1, <1>2 DEF Waiting, PassRecord

LEMMA SlicesStart == SlicesInit => SlicesInv
  <1> SUFFICES ASSUME SlicesInit PROVE SlicesInv
    OBVIOUS
  <1>1. SlicesTypeOK
    BY WaitingFacts DEF SlicesInit, SlicesTypeOK
  <1>2. \A s \in Slice : slices[s].rv = Absent
    BY WaitingFacts DEF SlicesInit
  <1>3. \A c \in Instance : pass[c] = Waiting
    BY DEF SlicesInit
  <1>4. VersionsGiven
    BY <1>2, <1>3, WaitingFacts DEF VersionsGiven, SlicesInit, Absent
  <1>5. \A c \in Instance, s \in Slice : ListedAsIs(c, s) /\ LeftToDo(c, s) /\ DoneWith(c, s)
    BY <1>3, WaitingFacts DEF ListedAsIs, LeftToDo, DoneWith
  <1> QED
    BY <1>1, <1>4, <1>5 DEF SlicesInv

LEMMA Versions ==
    ASSUME SlicesTypeOK
    PROVE  /\ writes \in Nat
           /\ \A s \in Slice : slices[s] \in SliceRecord /\ slices[s].rv \in Nat
           /\ \A c \in Instance, s \in Slice :
                 /\ pass[c].listed[s] \in SliceRecord /\ pass[c].listed[s].rv \in Nat
                 /\ pass[c].left[s] \in Nat
  <1>1. ASSUME NEW c \in Instance, NEW s \in Slice
        PROVE  pass[c].listed[s] \in SliceRecord /\ pass[c].left[s] \in Nat
    BY DEF SlicesTypeOK, PassRecord
  <1>2. \A slice \in SliceRecord : slice.rv \in Nat
    BY DEF SliceRecord
  <1> QED
    BY <1>1, <1>2 DEF SlicesTypeOK

(* A slice that is gone or newly written is none that a pass knows.        *)
LEMMA SliceStep ==
    ASSUME SlicesInv, NEW c \in Instance, NEW t \in Slice,
           pass'[c] = pass[c], options'[c] = options[c],
           \/ slices'[t] = slices[t]
           \/ slices'[t].rv = Absent
           \/ slices'[t].rv = writes + 1
    PROVE  ListedAsIs(c, t)' /\ LeftToDo(c, t)' /\ DoneWith(c, t)'
  <1>1. ListedAsIs(c, t) /\ LeftToDo(c, t) /\ DoneWith(c, t)
    BY DEF SlicesInv
  <1>2. /\ writes \in Nat
        /\ pass[c].listed[t].rv \in Nat /\ pass[c].listed[t].rv <= writes
        /\ pass[c].left[t] \in Nat /\ pass[c].left[t] <= writes
    BY Versions DEF SlicesInv, VersionsGiven
  <1>3. LeftToDo(c, t)'
    BY <1>1 DEF LeftToDo
  <1>4. CASE slices'[t] = slices[t]
    BY <1>1, <1>3, <1>4 DEF ListedAsIs, DoneWith
  <1>5. CASE slices'[t].rv = Absent
    BY <1>1, <1>3, <1>5 DEF ListedAsIs, LeftToDo, DoneWith
  <1>6. CASE slices'[t].rv = writes + 1
    BY <1>2, <1>3, <1>6 DEF ListedAsIs, DoneWith
  <1> QED
    BY <1>4, <1>5, <1>6

(* What the provider does to a slice. *)
LEMMA ProviderStep ==
    ASSUME SlicesInv, UNCHANGED <<options, pass>>, crd' \in BOOLEAN,
           writes' \in {writes, writes + 1}, slices' \in [Slice -> SliceRecord],
           \A t \in Slice : \/ slices'[t] = slices[t]
                            \/ slices'[t].rv = Absent
                            \/ slices'[t].rv = writes + 1 /\ writes' = writes + 1
    PROVE  SlicesInv'
  <1>1. SlicesTypeOK'
    BY DEF SlicesInv, SlicesTypeOK
  <1>2. VersionsGiven'
    <2>1. ASSUME NEW t \in Slice PROVE slices'[t].rv <= writes'
      BY Versions DEF SlicesInv, SlicesTypeOK, VersionsGiven, Absent
    <2>2. ASSUME NEW t \in Slice, NEW c \in Instance
          PROVE  pass'[c].listed[t].rv <= writes' /\ pass'[c].left[t] <= writes'
      BY Versions DEF SlicesInv, VersionsGiven
    <2> QED
      BY <2>1, <2>2 DEF VersionsGiven
  <1>3. \A c \in Instance, t \in Slice : ListedAsIs(c, t)' /\ LeftToDo(c, t)' /\ DoneWith(c, t)'
    BY SliceStep
  <1> QED
    BY <1>1, <1>2, <1>3 DEF SlicesInv

(* A step of one controller, which leaves what another one knows alone.    *)
LEMMA ControllerStep ==
    ASSUME SlicesInv, NEW c \in Instance, SlicesTypeOK', crd' = crd, writes' \in {writes, writes + 1},
           \A g \in Instance : g # c => pass'[g] = pass[g] /\ options'[g] = options[g],
           \A t \in Slice : \/ slices'[t] = slices[t]
                            \/ slices'[t].rv = writes + 1 /\ writes' = writes + 1,
           \A t \in Slice : /\ pass'[c].listed[t].rv <= writes' /\ pass'[c].left[t] <= writes'
                            /\ ListedAsIs(c, t)' /\ LeftToDo(c, t)' /\ DoneWith(c, t)'
    PROVE  SlicesInv'
  <1>1. VersionsGiven'
    <2>1. ASSUME NEW t \in Slice PROVE slices'[t].rv <= writes'
      BY Versions DEF SlicesInv, VersionsGiven
    <2>2. ASSUME NEW t \in Slice, NEW g \in Instance
          PROVE  pass'[g].listed[t].rv <= writes' /\ pass'[g].left[t] <= writes'
      BY Versions DEF SlicesInv, VersionsGiven
    <2> QED
      BY <2>1, <2>2 DEF VersionsGiven
  <1>2. ASSUME NEW g \in Instance, NEW t \in Slice
        PROVE  ListedAsIs(g, t)' /\ LeftToDo(g, t)' /\ DoneWith(g, t)'
    <2>1. CASE g = c
      BY <2>1
    <2>2. CASE g # c
      BY <2>2, SliceStep
    <2> QED
      BY <2>1, <2>2
  <1> QED
    BY <1>1, <1>2 DEF SlicesInv

LEMMA WaitStep ==
    ASSUME SlicesInv, NEW c \in Instance, UNCHANGED <<crd, slices, writes>>,
           options' \in [Instance -> Options],
           \A g \in Instance : g # c => options'[g] = options[g],
           pass' = [pass EXCEPT ![c] = Waiting]
    PROVE  SlicesInv'
  <1>1. /\ pass' \in [Instance -> PassRecord] /\ pass'[c] = Waiting
        /\ \A g \in Instance : g # c => pass'[g] = pass[g]
    BY WaitingFacts DEF SlicesInv, SlicesTypeOK
  <1>2. SlicesTypeOK'
    BY <1>1 DEF SlicesInv, SlicesTypeOK
  <1>3. ASSUME NEW t \in Slice
        PROVE  /\ pass'[c].listed[t].rv <= writes' /\ pass'[c].left[t] <= writes'
               /\ ListedAsIs(c, t)' /\ LeftToDo(c, t)' /\ DoneWith(c, t)'
    <2>1. pass'[c].listed[t].rv = 0 /\ pass'[c].left[t] = 0 /\ writes' \in Nat
      BY <1>1, <1>2, WaitingFacts DEF Absent, SlicesTypeOK
    <2> QED
      BY <1>1, <2>1, WaitingFacts DEF ListedAsIs, LeftToDo, DoneWith, Absent
  <1> QED
    BY <1>1, <1>2, <1>3, ControllerStep

LEMMA ListStep == ASSUME SlicesInv, NEW c \in Instance, List(c) PROVE SlicesInv'
  <1> DEFINE now == [step |-> "publishing", listed |-> slices, clean |-> TRUE,
                     todo |-> {s \in Slice : slices[s].rv # Absent},
                     left |-> [s \in Slice |-> slices[s].rv]]
  <1>1. now \in PassRecord
    BY Versions DEF SlicesInv, SlicesTypeOK, PassRecord
  <1>2. /\ pass' \in [Instance -> PassRecord] /\ pass'[c] = now
        /\ \A g \in Instance : g # c => pass'[g] = pass[g]
        /\ UNCHANGED <<crd, slices, writes, options>>
    BY <1>1 DEF SlicesInv, SlicesTypeOK, List
  <1>3. SlicesTypeOK'
    BY <1>2 DEF SlicesInv, SlicesTypeOK
  <1>4. ASSUME NEW t \in Slice
        PROVE  /\ pass'[c].listed[t].rv <= writes' /\ pass'[c].left[t] <= writes'
               /\ ListedAsIs(c, t)' /\ LeftToDo(c, t)' /\ DoneWith(c, t)'
    BY <1>2 DEF ListedAsIs, LeftToDo, DoneWith, SlicesInv, VersionsGiven
  <1> QED
    BY <1>2, <1>3, <1>4, ControllerStep

(* A slice leaves the list of a controller: done, failed or written.       *)
LEMMA PublishedStep ==
    ASSUME SlicesInv, NEW c \in Instance, NEW s \in Slice, NEW q \in PassRecord,
           s \in pass[c].todo, crd' = crd, options' = options,
           pass' = [pass EXCEPT ![c] = q],
           q.step = pass[c].step, q.listed = pass[c].listed, q.todo = pass[c].todo \ {s},
           q.clean => pass[c].clean,
           \A t \in Slice : t # s => q.left[t] = pass[c].left[t] /\ slices'[t] = slices[t],
           slices' \in [Slice -> SliceRecord],
           \/ /\ UNCHANGED <<slices, writes>> /\ q.left[s] = pass[c].left[s]
           \/ writes' = writes + 1 /\ slices'[s].rv = writes + 1 /\ q.left[s] = writes + 1,
           LET was == pass[c].listed[s] IN
           q.clean /\ Matches(options[c], was) /\ slices'[s].rv = q.left[s] =>
               /\ slices'[s].export # NoName
               /\ slices'[s].endpoints = <<Endpoint(options[c], slices'[s])>>
    PROVE  SlicesInv'
  <1>1. /\ pass' \in [Instance -> PassRecord] /\ pass'[c] = q
        /\ \A g \in Instance : g # c => pass'[g] = pass[g]
    BY DEF SlicesInv, SlicesTypeOK
  <1>2. SlicesTypeOK' /\ writes' \in {writes, writes + 1}
    BY <1>1 DEF SlicesInv, SlicesTypeOK
  <1>3. /\ writes \in Nat
        /\ \A t \in Slice : /\ pass[c].listed[t].rv \in Nat /\ pass[c].listed[t].rv <= writes
                            /\ pass[c].left[t] \in Nat /\ pass[c].left[t] <= writes
                            /\ slices[t].rv \in Nat /\ slices[t].rv <= writes
                            /\ ListedAsIs(c, t) /\ LeftToDo(c, t) /\ DoneWith(c, t)
    BY Versions DEF SlicesInv, VersionsGiven
  <1>4. ASSUME NEW t \in Slice
        PROVE  /\ pass'[c].listed[t].rv <= writes' /\ pass'[c].left[t] <= writes'
               /\ ListedAsIs(c, t)' /\ LeftToDo(c, t)' /\ DoneWith(c, t)'
    <2>1. pass'[c].listed[t].rv <= writes' /\ pass'[c].left[t] <= writes'
      BY <1>1, <1>3
    <2>2. ListedAsIs(c, t)'
      BY <1>1, <1>3 DEF ListedAsIs
    <2>3. LeftToDo(c, t)'
      BY <1>1, <1>3 DEF LeftToDo, Absent
    <2>4. CASE t = s
      BY <1>1, <2>1, <2>2, <2>3, <2>4 DEF DoneWith
    <2>5. CASE t # s
      <3>1. DoneWith(c, t)'
        BY <1>1, <1>3, <2>5 DEF DoneWith
      <3> QED
        BY <2>1, <2>2, <2>3, <3>1
    <2> QED
      BY <2>4, <2>5
  <1> QED
    BY <1>1, <1>2, <1>4, ControllerStep

LEMMA PublishStep == ASSUME SlicesInv, NEW c \in Instance, NEW s \in Slice, Publish(c, s) PROVE SlicesInv'
  <1> DEFINE was == pass[c].listed[s]
             o == options[c]
             fine == [pass[c] EXCEPT !.todo = @ \ {s}]
             failed == [pass[c] EXCEPT !.todo = @ \ {s}, !.clean = FALSE]
  <1>1. /\ pass[c] \in PassRecord /\ pass \in [Instance -> PassRecord] /\ o \in Options
        /\ was \in SliceRecord /\ slices[s] \in SliceRecord
        /\ slices \in [Slice -> SliceRecord] /\ writes \in Nat
    BY Versions DEF SlicesInv, SlicesTypeOK
  <1>2. s \in pass[c].todo /\ crd' = crd /\ options' = options
    BY DEF Publish
  <1>3. /\ pass[c].left[s] = was.rv /\ was.rv # Absent
        /\ was.rv = slices[s].rv => was = slices[s]
    BY <1>2 DEF SlicesInv, LeftToDo, ListedAsIs
  <1>4. CASE pass' = [pass EXCEPT ![c] = failed] /\ UNCHANGED <<slices, writes>>
    <2>1. failed \in PassRecord /\ ~failed.clean /\ failed.left = pass[c].left
      BY <1>1 DEF PassRecord
    <2>2. /\ failed.step = pass[c].step /\ failed.listed = pass[c].listed
          /\ failed.todo = pass[c].todo \ {s}
      BY <1>1 DEF PassRecord
    <2> HIDE DEF failed, was, o
    <2> QED
      BY <1>1, <1>2, <1>4, <2>1, <2>2, PublishedStep
  <1>5. CASE /\ pass' = [pass EXCEPT ![c] = fine] /\ UNCHANGED <<slices, writes>>
             /\ \/ ~Matches(o, was)
                \/ was.export # NoName /\ equalEndpoints(was, Endpoint(o, was))
                \/ slices[s].rv = Absent
    <2>1. fine \in PassRecord /\ (fine.clean => pass[c].clean) /\ fine.left = pass[c].left
      BY <1>1 DEF PassRecord
    <2>2. /\ fine.step = pass[c].step /\ fine.listed = pass[c].listed
          /\ fine.todo = pass[c].todo \ {s}
      BY <1>1 DEF PassRecord
    <2>3. Matches(o, was) /\ slices'[s].rv = fine.left[s] =>
              /\ slices'[s].export # NoName
              /\ slices'[s].endpoints = <<Endpoint(o, slices'[s])>>
      BY <1>3, <1>5, <2>1 DEF equalEndpoints
    <2>4. /\ slices' \in [Slice -> SliceRecord] /\ fine.left[s] = pass[c].left[s]
          /\ \A t \in Slice : t # s => fine.left[t] = pass[c].left[t] /\ slices'[t] = slices[t]
      BY <1>1, <1>5, <2>1
    <2> HIDE DEF fine
    <2> QED
      BY <1>2, <1>5, <2>1, <2>2, <2>3, <2>4, PublishedStep
  <1>6. CASE /\ Matches(o, was) /\ was.export # NoName /\ slices[s].rv = was.rv /\ slices[s].rv # Absent
             /\ Write(s, [slices[s] EXCEPT !.endpoints = <<Endpoint(o, was)>>])
             /\ pass' = [pass EXCEPT ![c].todo = @ \ {s}, ![c].left[s] = writes']
    <2>1. PICK slice : slice = [slices[s] EXCEPT !.endpoints = <<Endpoint(o, was)>>]
      OBVIOUS
    <2>2. <<Endpoint(o, was)>> \in Seq(Published)
      BY <1>1, EndpointFacts
    <2>3. /\ slice \in SliceRecord /\ slice.export = slices[s].export
          /\ slice.endpoints = <<Endpoint(o, was)>>
      BY <1>1, <2>1, <2>2 DEF SliceRecord
    <2>4. /\ writes' = writes + 1 /\ slices' \in [Slice -> SliceRecord]
          /\ slices'[s].rv = writes + 1
          /\ slices'[s].export = slice.export /\ slices'[s].endpoints = slice.endpoints
          /\ \A t \in Slice : t # s => slices'[t] = slices[t]
      BY <1>6, <2>1, <2>3, WriteFacts DEF SlicesInv
    <2>5. was = slices[s]
      BY <1>3, <1>6
    <2>6. Endpoint(o, slices'[s]) = Endpoint(o, was)
      BY <1>1, <2>3, <2>4, <2>5, EndpointFacts
    <2>7. PICK n \in Nat : n = writes'
      BY <1>1, <2>4
    <2>8. PICK q : q = [pass[c] EXCEPT !.todo = @ \ {s}, !.left[s] = n]
      OBVIOUS
    <2>9. q \in PassRecord /\ q.left[s] = n
      BY <1>1, <2>8 DEF PassRecord
    <2>10. pass' = [pass EXCEPT ![c] = q]
      BY <1>1, <1>6, <2>7, <2>8
    <2>11. /\ q.step = pass[c].step /\ q.listed = pass[c].listed
           /\ q.todo = pass[c].todo \ {s} /\ (q.clean => pass[c].clean)
           /\ \A t \in Slice : t # s => q.left[t] = pass[c].left[t]
      BY <1>1, <2>8 DEF PassRecord
    <2>12. /\ slices'[s].export # NoName
           /\ slices'[s].endpoints = <<Endpoint(options[c], slices'[s])>>
      BY <1>6, <2>3, <2>4, <2>5, <2>6
    <2>13. \A t \in Slice : t # s => q.left[t] = pass[c].left[t] /\ slices'[t] = slices[t]
      BY <2>4, <2>11
    <2>14. writes' = writes + 1 /\ slices'[s].rv = writes + 1 /\ q.left[s] = writes + 1
      BY <2>4, <2>7, <2>9
    <2> HIDE DEF was, o
    <2> QED
      BY <1>2, <2>4, <2>9, <2>10, <2>11, <2>12, <2>13, <2>14, PublishedStep
  <1>7. slices[s].rv = was.rv => slices[s].rv # Absent
    BY <1>2, <1>3
  <1> QED
    BY <1>4, <1>5, <1>6, <1>7 DEF Publish

(* What the virtual workspace takes a published URL for: the segments up   *)
(* to its name are where it is mounted, and the next ones name the export. *)
LEMMA Digested ==
    ASSUME NEW o, o.prefix = ServerPrefix, o.name = ServerName, o.prefix # <<>>,
           NEW slice \in SliceRecord, slice.export # NoName
    PROVE  digestURL(Requested(URLFor(o, slice))) = [cluster |-> Workspace, name |-> slice.export]
  <1> DEFINE Segment == STRING \cup {"clusters", "apis"}
             mount == ServerPrefix \o <<ServerName>>
             address == <<ServerName, Workspace, slice.export>>
             asked == <<"clusters", Target, "apis">>
             url == ServerPrefix \o address
             path == url \o asked
             n == Len(mount)
             rest == SubSeq(path, n + 1, Len(path))
  <1>1. /\ ServerPrefix \in Seq(Segment) /\ <<ServerName>> \in Seq(Segment)
        /\ address \in Seq(Segment) /\ asked \in Seq(Segment)
        /\ Workspace # NoName
    <2>1. Workspace \in STRING /\ ServerName \in STRING /\ Target \in STRING /\ Exports \subseteq STRING
      BY AddressAssumption
    <2>2. slice.export \in STRING
      BY <2>1 DEF SliceRecord
    <2>3. <<ServerName>> \in Seq(Segment) /\ address \in Seq(Segment) /\ asked \in Seq(Segment)
      BY <2>1, <2>2
    <2>4. ServerPrefix \in Seq(Segment)
      BY AddressAssumption, SeqMonotonic
    <2> QED
      BY <2>3, <2>4, AddressAssumption
  <1>2. Len(<<ServerName>>) = 1 /\ Len(address) = 3 /\ Len(asked) = 3 /\ Len(ServerPrefix) \in Nat
    BY <1>1
  <1>3. /\ mount \in Seq(Segment) /\ n = Len(ServerPrefix) + 1
        /\ \A i \in 1 .. n : mount[i] = IF i <= Len(ServerPrefix) THEN ServerPrefix[i] ELSE ServerName
    BY <1>1, <1>2, ConcatProperties
  <1>4. /\ url \in Seq(Segment) /\ Len(url) = n + 2
        /\ \A i \in 1 .. n + 2 : url[i] = IF i <= Len(ServerPrefix) THEN ServerPrefix[i]
                                          ELSE address[i - Len(ServerPrefix)]
    <2>1. /\ url \in Seq(Segment) /\ Len(url) = Len(ServerPrefix) + 3
          /\ \A i \in 1 .. Len(ServerPrefix) + 3 :
                url[i] = IF i <= Len(ServerPrefix) THEN ServerPrefix[i] ELSE address[i - Len(ServerPrefix)]
      BY <1>1, <1>2, ConcatProperties
    <2> QED
      BY <1>2, <1>3, <2>1
  <1>5. /\ path \in Seq(Segment) /\ Len(path) = n + 5
        /\ \A i \in 1 .. n + 5 : path[i] = IF i <= n + 2 THEN url[i] ELSE asked[i - (n + 2)]
    <2>1. /\ path \in Seq(Segment) /\ Len(path) = Len(url) + Len(asked)
          /\ \A i \in 1 .. Len(url) + Len(asked) : path[i] = IF i <= Len(url) THEN url[i] ELSE asked[i - Len(url)]
      BY <1>1, <1>4, ConcatProperties
    <2> QED
      BY <1>2, <1>3, <1>4, <2>1
  <1>6. \A i \in 1 .. n : mount[i] = path[i]
    BY <1>2, <1>3, <1>4, <1>5
  <1>7. /\ path[n + 1] = Workspace /\ path[n + 2] = slice.export
        /\ path[n + 3] = "clusters"
    BY <1>2, <1>3, <1>4, <1>5
  <1> HIDE DEF mount, path, url, Segment
  <1>8. IsPrefix(mount, path)
    <2>1. Len(mount) <= Len(path) /\ n \in Nat
      BY <1>3, <1>5, <1>2
    <2>2. /\ \A i \in 1 .. n : mount[i] \in Segment /\ path[i] \in Segment
          /\ 1 \in Int /\ n \in Int
      BY <1>3, <1>5, <1>6, <2>1
    <2>3. /\ SubSeq(mount, 1, n) \in Seq(Segment) /\ Len(SubSeq(mount, 1, n)) = n
          /\ \A i \in 1 .. n : SubSeq(mount, 1, n)[i] = mount[i]
      BY <2>1, <2>2, SubSeqProperties
    <2>4. /\ SubSeq(path, 1, n) \in Seq(Segment) /\ Len(SubSeq(path, 1, n)) = n
          /\ \A i \in 1 .. n : SubSeq(path, 1, n)[i] = path[i]
      BY <2>1, <2>2, SubSeqProperties
    <2>5. SubSeq(mount, 1, n) = SubSeq(path, 1, n)
      BY <1>6, <2>3, <2>4, SeqEqual
    <2> QED
      BY <2>1, <2>5 DEF IsPrefix
  <1>9. Len(rest) = 5 /\ \A i \in 1 .. 5 : rest[i] = path[n + i]
    <2>1. n \in Nat /\ n + 1 \in Int /\ Len(path) \in Int /\ \A i \in n + 1 .. Len(path) : path[i] \in Segment
      BY <1>2, <1>3, <1>5
    <2>2. /\ Len(rest) = Len(path) - (n + 1) + 1
          /\ \A i \in 1 .. Len(path) - (n + 1) + 1 : rest[i] = path[n + 1 + i - 1]
      BY <2>1, <1>5, SubSeqProperties
    <2> QED
      BY <1>5, <2>1, <2>2
  <1>10. Len(rest) >= 4 /\ rest[1] = Workspace /\ rest[2] = slice.export /\ rest[3] = "clusters"
    BY <1>7, <1>9
  <1>11. Requested(URLFor(o, slice)) = path
    BY DEF Requested, URLFor, path, url
  <1> HIDE DEF rest
  <1>12. digestURL(path) = [cluster |-> rest[1], name |-> rest[2]]
    BY <1>1, <1>8, <1>10 DEF digestURL, rest, mount, NoName
  <1> QED
    BY <1>10, <1>11, <1>12

LEMMA SlicesStep == ASSUME SlicesInv, [SlicesNext]_sliceVars PROVE SlicesInv'
  <1>1. CASE ApplyKind
    <2>1. UNCHANGED <<slices, writes, options, pass>> /\ crd' \in BOOLEAN
      BY <1>1 DEF ApplyKind
    <2>2. slices' \in [Slice -> SliceRecord] /\ writes' \in {writes, writes + 1}
      BY <2>1 DEF SlicesInv, SlicesTypeOK
    <2> QED
      BY <2>1, <2>2, ProviderStep
  <1>2. ASSUME NEW s \in Slice, DeleteSlice(s) PROVE SlicesInv'
    <2>1. /\ slices' \in [Slice -> SliceRecord] /\ slices'[s].rv = Absent
          /\ \A t \in Slice : t # s => slices'[t] = slices[t]
      BY <1>2, WaitingFacts DEF DeleteSlice, SlicesInv, SlicesTypeOK
    <2>2. UNCHANGED <<options, pass, writes>> /\ crd' \in BOOLEAN
      BY <1>2 DEF DeleteSlice, SlicesInv, SlicesTypeOK
    <2> QED
      BY <2>1, <2>2, ProviderStep
  <1>3. ASSUME NEW s \in Slice, NEW e \in Exports \cup {NoName}, WriteSlice(s, e) PROVE SlicesInv'
    <2>1. PICK slice : slice = [slices[s] EXCEPT !.export = e]
      OBVIOUS
    <2>2. slice \in SliceRecord
      BY <2>1 DEF SlicesInv, SlicesTypeOK, SliceRecord
    <2>3. /\ writes' = writes + 1 /\ slices' \in [Slice -> SliceRecord]
          /\ slices'[s].rv = writes + 1
          /\ \A t \in Slice : t # s => slices'[t] = slices[t]
      BY <1>3, <2>1, <2>2, WriteFacts DEF WriteSlice, SlicesInv
    <2>4. UNCHANGED <<options, pass>> /\ crd' \in BOOLEAN
      BY <1>3 DEF WriteSlice, SlicesInv, SlicesTypeOK
    <2> QED
      BY <2>3, <2>4, ProviderStep
  <1>4. ASSUME NEW c \in Instance, NEW o \in Options, Restart(c, o) PROVE SlicesInv'
    <2>1. /\ options' \in [Instance -> Options]
          /\ \A g \in Instance : g # c => options'[g] = options[g]
      BY <1>4 DEF Restart, SlicesInv, SlicesTypeOK
    <2> QED
      BY <1>4, <2>1, WaitStep DEF Restart
  <1>5. ASSUME NEW c \in Instance, Tick(c) PROVE SlicesInv'
    BY <1>5, WaitStep DEF Tick, SlicesInv, SlicesTypeOK
  <1>6. CASE UNCHANGED sliceVars
    <2>1. UNCHANGED <<crd, slices, writes, options, pass>>
      BY <1>6 DEF sliceVars
    <2> QED
      BY <2>1 DEF SlicesInv, SlicesTypeOK, VersionsGiven, ListedAsIs, LeftToDo, DoneWith
  <1> QED
    BY <1>1, <1>2, <1>3, <1>4, <1>5, <1>6, ListStep, PublishStep DEF SlicesNext

(* A pass that reports no failure leaves each slice it was for, unless     *)
(* that was changed since, leading to its export, for any number of        *)
(* controllers, options they are restarted with, slices and exports (Sync, *)
(* Publish, URLFor and the server's digestURL).                            *)
THEOREM CleanPassesPublish ==
    SlicesInit /\ [][SlicesNext]_sliceVars => []CleanPassPublishes
  <1>1. ASSUME SlicesInv PROVE CleanPassPublishes
    <2> SUFFICES ASSUME NEW c \in Instance, NEW s \in Slice,
                        pass[c].step = "publishing", pass[c].todo = {}, pass[c].clean,
                        pass[c].listed[s].rv # Absent,
                        Matches(options[c], pass[c].listed[s]),
                        slices[s].rv = pass[c].left[s]
                 PROVE  LeadsToExport(options[c], slices[s])
      BY DEF CleanPassPublishes
    <2>1. /\ slices[s] \in SliceRecord /\ slices[s].export # NoName
          /\ slices[s].endpoints = <<Endpoint(options[c], slices[s])>>
      BY <1>1 DEF SlicesInv, SlicesTypeOK, DoneWith
    <2>2. /\ Len(slices[s].endpoints) = 1
          /\ slices[s].endpoints[1] = Endpoint(options[c], slices[s])
      BY <2>1
    <2>3. (options[c].prefix = ServerPrefix /\ options[c].name = ServerName /\ options[c].prefix # <<>>) =>
              digestURL(Requested(URLFor(options[c], slices[s])))
                  = [cluster |-> Workspace, name |-> slices[s].export]
      BY <2>1, Digested
    <2> QED
      BY <2>2, <2>3 DEF LeadsToExport, Endpoint, Selected
  <1> QED
    BY <1>1, SlicesStart, SlicesStep, PTL
=============================================================================

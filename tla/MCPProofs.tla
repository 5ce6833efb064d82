------------------------------ MODULE MCPProofs ------------------------------
(***************************************************************************)
(* What a workspace's MCPEndpoint reports is so, for any number of         *)
(* workspaces, bindings and failures.  A caller is served by rights that   *)
(* are no older than the expiry and a review's delay, and a scale replaces *)
(* the count it read, for any callers, overlapping requests and changes.   *)
(*                                                                         *)
(* What this server and the other three are installed by: an init command  *)
(* that ends has installed its service, and has brought it to its own      *)
(* release if no other ran meanwhile, for any pods, releases and faults.   *)
(***************************************************************************)
EXTENDS MCPServer, Installation, SequenceTheorems, TLAPS

OpSafe == OpInit /\ [][OpNext]_opVars

(* How far a reconcile has come, the grant has come: the binding is asked  *)
(* for after the role, and success is reported after both.                 *)
StepsInOrder ==
    \A w \in Workspace :
        /\ step[w] = "binding" => "role" \in grant[w]
        /\ step[w] = "ready" => MayImpersonate(w)

OpInv == ReadyMeansGranted /\ StepsInOrder

-----------------------------------------------------------------------------
LEMMA OpInitially == OpInit => OpInv
  BY DEF OpInit, OpInv, ReadyMeansGranted, OpTypeOK, StepsInOrder, Steps, Phase

(* Nothing the operator does takes an object of the grant away. *)
LEMMA UpsertStep ==
    ASSUME OpInv, NEW w \in Workspace,
           Upsert(w, "role", "binding") \/ Upsert(w, "binding", "ready")
    PROVE  OpInv'
  <1> USE DEF OpInv, ReadyMeansGranted
  <1>1. OpTypeOK'
    BY DEF Upsert, OpTypeOK, Steps
  <1>2. \A v \in Workspace : grant[v] \subseteq grant'[v] /\ grant'[v] \subseteq {"role", "binding"}
    BY DEF Upsert, OpTypeOK
  <1>3. \A v \in Workspace : MayImpersonate(v) => MayImpersonate(v)'
    BY <1>2 DEF MayImpersonate
  <1>4. StepsInOrder'
    <2> SUFFICES ASSUME NEW v \in Workspace
                 PROVE  /\ step'[v] = "binding" => "role" \in grant'[v]
                        /\ step'[v] = "ready" => MayImpersonate(v)'
      BY DEF StepsInOrder
    <2>1. CASE v # w
      BY <2>1, <1>2, <1>3 DEF Upsert, OpTypeOK, StepsInOrder
    <2>2. CASE v = w /\ Upsert(w, "role", "binding")
      BY <2>2 DEF Upsert, OpTypeOK
    <2>3. CASE v = w /\ Upsert(w, "binding", "ready")
      <3>1. step'[w] = "ready" /\ "role" \in grant[w] /\ "binding" \in grant'[w]
        BY <2>3 DEF Upsert, OpTypeOK, StepsInOrder
      <3> QED
        BY <2>3, <3>1, <1>2 DEF MayImpersonate
    <2> QED
      BY <2>1, <2>2, <2>3
  <1>5. \A v \in Workspace : endpoint'[v] = "Ready" => MayImpersonate(v)'
    BY <1>3 DEF Upsert
  <1> QED
    BY <1>1, <1>4, <1>5

(* The other steps leave the grant alone. *)
LEMMA OtherSteps ==
    ASSUME OpInv, NEW w \in Workspace,
           \/ Bind(w) \/ Unbind(w) \/ Reconcile(w) \/ GrantFails(w)
           \/ Report(w) \/ ReportFails(w)
    PROVE  OpInv'
  <1> USE DEF OpInv, ReadyMeansGranted, OpTypeOK, StepsInOrder, MayImpersonate, Steps, Phase
  <1>1. ASSUME Bind(w) PROVE OpInv'
    BY <1>1 DEF Bind
  <1>2. ASSUME Unbind(w) PROVE OpInv'
    BY <1>2 DEF Unbind
  <1>3. ASSUME Reconcile(w) PROVE OpInv'
    BY <1>3 DEF Reconcile
  <1>4. ASSUME GrantFails(w) PROVE OpInv'
    BY <1>4 DEF GrantFails
  <1>5. ASSUME Report(w) PROVE OpInv'
    BY <1>5 DEF Report
  <1>6. ASSUME ReportFails(w) PROVE OpInv'
    BY <1>6 DEF ReportFails
  <1> QED
    BY <1>1, <1>2, <1>3, <1>4, <1>5, <1>6

LEMMA OpStays == OpInv /\ [OpNext]_opVars => OpInv'
  <1> SUFFICES ASSUME OpInv, [OpNext]_opVars PROVE OpInv'
    OBVIOUS
  <1>1. CASE UNCHANGED opVars
    BY <1>1 DEF OpInv, ReadyMeansGranted, OpTypeOK, StepsInOrder, MayImpersonate, opVars
  <1>2. CASE \E w \in Workspace : Bind(w) \/ Unbind(w) \/ OpStep(w)
    BY <1>2, UpsertStep, OtherSteps DEF OpStep, EnsureImpersonation
  <1>3. CASE OpRestart
    BY <1>3 DEF OpRestart, OpInv, ReadyMeansGranted, OpTypeOK, StepsInOrder, MayImpersonate,
                Steps, Phase
  <1> QED
    BY <1>1, <1>2, <1>3 DEF OpNext

(* The operator reports Ready only where the role and the binding it needs *)
(* are in place, whatever fails, unbinds or restarts in between            *)
(* (mcp/pkg/operator, reconcile).                                          *)
THEOREM ReadyIsGranted == OpSafe => []ReadyMeansGranted
  <1>1. OpInv => ReadyMeansGranted
    BY DEF OpInv
  <1> QED
    BY OpInitially, OpStays, <1>1, PTL DEF OpSafe

-----------------------------------------------------------------------------
(* The server.                                                             *)

Progress == Ended \cup {"asked", "told", "scoped", "scaling"}

Record == [phase : Progress, who : Identity \cup {NoCredential}, scope : SUBSET Workspace,
           waited : 0 .. MaxDelay, workspace : Workspace \cup {"none"}, read : Int,
           want : Sizes \cup {Absent}]

Answer == [list : SUBSET Workspace, life : 0 .. TTL]

Typed ==
    /\ rights \in [Identity -> SUBSET Workspace]
    /\ age \in [Identity -> [Workspace -> 0 .. Horizon]]
    /\ req \in [Request -> Record]
    /\ \A k \in DOMAIN cache : cache[k] \in Answer
    /\ count \in [Workspace -> Sizes \cup {Absent}]
    /\ fresh \in [Workspace -> SUBSET Request]

(* A review tells what was so when it was answered, and that is at most as *)
(* long ago as it was asked.                                               *)
ToldTrue ==
    \A r \in Request : req[r].phase \in {"asked", "told"} =>
        /\ req[r].who \in Identity
        /\ req[r].phase = "told" =>
              \A w \in Workspace : age[req[r].who][w] > req[r].waited =>
                  (w \in req[r].scope <=> w \in rights[req[r].who])

(* An answer that is kept is a caller's own, and as old as it is kept and  *)
(* took to come.                                                           *)
CachedTrue ==
    \A u \in Identity : CacheKey(u) \in DOMAIN cache =>
        \A w \in Workspace : age[u][w] > Horizon - cache[CacheKey(u)].life =>
            (w \in cache[CacheKey(u)].list <=> w \in rights[u])

(* A request that holds the current version of an object has its count.    *)
HeldCurrent ==
    \A r \in Request : req[r].phase = "scaling" =>
        /\ req[r].workspace \in Workspace
        /\ r \in fresh[req[r].workspace] => count[req[r].workspace] = req[r].read

SrvInv == Typed /\ ToldTrue /\ CachedTrue /\ HeldCurrent

(* What the two action properties say of a step. *)
Faithful ==
    \A r \in Request, w \in Workspace :
        /\ req'[r].phase = "scoped" /\ req[r].phase # "scoped"
        /\ age[req'[r].who][w] = Horizon
        => (w \in req'[r].scope <=> w \in rights[req'[r].who])

Exact ==
    \A r \in Request : req[r].phase = "scaling" /\ req'[r].phase = "answered" =>
        count[req[r].workspace] = req[r].read

-----------------------------------------------------------------------------
(* Two callers have one key only if they are one: it keeps the name apart  *)
(* from the groups.                                                        *)
LEMMA KeysTellCallers ==
    ASSUME NEW u \in Identity, NEW v \in Identity, CacheKey(u) = CacheKey(v)
    PROVE  u = v
  <1>1. /\ u \in [name : STRING, groups : Seq(STRING)]
        /\ v \in [name : STRING, groups : Seq(STRING)]
    BY IdentityAssumption
  <1>2. /\ u.name \in STRING /\ v.name \in STRING
        /\ u.groups \in Seq(STRING) /\ v.groups \in Seq(STRING)
    BY <1>1
  <1>3. /\ <<u.name>> \in Seq(STRING) /\ Len(<<u.name>>) = 1 /\ <<u.name>>[1] = u.name
        /\ <<v.name>> \in Seq(STRING) /\ Len(<<v.name>>) = 1 /\ <<v.name>>[1] = v.name
    BY <1>2
  <1>4. u.name = v.name
    <2>1. /\ Len(u.groups) \in Nat /\ Len(v.groups) \in Nat
      BY <1>2, LenProperties
    <2>2. CacheKey(u)[1] = u.name /\ CacheKey(v)[1] = v.name
      BY <1>2, <1>3, <2>1, ConcatProperties DEF CacheKey
    <2> QED
      BY <2>2
  <1>5. u.groups = v.groups
    BY <1>2, <1>3, <1>4, ConcatSimplifications DEF CacheKey
  <1> QED
    BY <1>1, <1>4, <1>5

LEMMA ServerFacts ==
    /\ TTL \in Nat \ {0} /\ MaxDelay \in Nat /\ MaxReplicas \in Nat
    /\ Horizon \in Nat /\ Horizon = TTL + MaxDelay
    /\ 0 \in Sizes /\ Sizes \subseteq Int /\ Absent \in Int
  BY MCPServerAssumption DEF Validate, Horizon, Sizes, Absent

LEMMA RecordFacts ==
    /\ \A p \in Progress : Blank(p) \in Record /\ Blank(p).phase = p
    /\ \A p \in Progress, u \in Identity :
          /\ [Blank(p) EXCEPT !.who = u] \in Record
          /\ [Blank(p) EXCEPT !.who = u].phase = p
          /\ [Blank(p) EXCEPT !.who = u].who = u
  <1>1. 0 \in 0 .. MaxDelay /\ {} \in SUBSET Workspace /\ Absent \in Int
    BY ServerFacts
  <1> QED
    BY <1>1 DEF Blank, Record

LEMMA SrvInitially == SrvInit => SrvInv
  <1> SUFFICES ASSUME SrvInit PROVE SrvInv
    OBVIOUS
  <1>1. DOMAIN cache = {}
    BY DEF SrvInit
  <1>2. Blank("answered") \in Record /\ Blank("answered").phase = "answered"
    BY RecordFacts DEF Progress, Ended
  <1>3. Typed
    BY <1>1, <1>2, ServerFacts DEF SrvInit, Typed
  <1>4. \A r \in Request : req[r].phase = "answered"
    BY <1>2 DEF SrvInit
  <1> QED
    BY <1>1, <1>3, <1>4 DEF SrvInv, ToldTrue, CachedTrue, HeldCurrent

-----------------------------------------------------------------------------
(* The steps.                                                              *)

StepOK == SrvInv' /\ Faithful /\ Exact

(* A request that goes on, or ends, without anything having been read or   *)
(* written: what it is given is a kept answer or nothing.                  *)
Quiet(r, m) ==
    /\ req' = [req EXCEPT ![r] = m]
    /\ UNCHANGED <<rights, age, cache, count, fresh>>

LEMMA QuietStep ==
    ASSUME SrvInv, NEW r \in Request, NEW m \in Record, Quiet(r, m),
           m.phase \in Ended \cup {"asked", "scoped"},
           m.phase = "asked" => m.who \in Identity,
           req[r].phase # "scaling" \/ m.phase # "answered",
           m.phase = "scoped" => \A w \in Workspace :
               age[m.who][w] = Horizon => (w \in m.scope <=> w \in rights[m.who])
    PROVE  StepOK
  <1> USE DEF SrvInv, Quiet
  <1>1. Typed'
    BY DEF Typed
  <1>2. \A q \in Request : req'[q] = IF q = r THEN m ELSE req[q]
    BY DEF Typed
  <1>3. ToldTrue' /\ HeldCurrent'
    BY <1>2 DEF ToldTrue, HeldCurrent, Ended
  <1>4. CachedTrue'
    BY DEF CachedTrue
  <1>5. Faithful
    BY <1>2 DEF Faithful
  <1>6. Exact
    BY <1>2 DEF Exact
  <1> QED
    BY <1>1, <1>3, <1>4, <1>5, <1>6 DEF StepOK

(* A kept answer is served while it lasts, and is then no older than that. *)
LEMMA ArriveStep ==
    ASSUME SrvInv, NEW r \in Request, NEW who \in Identity \cup {NoCredential, Invalid},
           NEW impersonate \in BOOLEAN, Arrive(r, who, impersonate)
    PROVE  StepOK
  <1>1. req[r].phase # "scaling"
    BY DEF Arrive, Ended
  <1>2. CASE ~LetIn(who, impersonate)
    <2>1. Blank("refused") \in Record /\ Blank("refused").phase = "refused"
      BY RecordFacts DEF Progress, Ended
    <2>2. Quiet(r, Blank("refused"))
      BY <1>2 DEF Arrive, Quiet
    <2> QED
      BY <2>1, <2>2, <1>1, QuietStep DEF Ended
  <1>3. CASE LetIn(who, impersonate)
    <2> DEFINE k == CacheKey(who)
    <2>1. who \in Identity /\ Quiet(r, Workspaces(who))
      BY <1>3 DEF LetIn, AuthenticatedOnly, Arrive, Quiet
    <2>2. CASE k \in DOMAIN cache /\ cache[k].life > 0
      <3> DEFINE m == [Blank("scoped") EXCEPT !.who = who, !.scope = cache[k].list]
      <3>1. cache[k] \in Answer
        BY <2>2 DEF SrvInv, Typed
      <3>2. m \in Record /\ m.phase = "scoped" /\ m.who = who /\ m.scope = cache[k].list
        <4> DEFINE list == cache[k].list
        <4>1. "scoped" \in Progress /\ list \in SUBSET Workspace
          BY <3>1 DEF Progress, Answer
        <4>2. m = [Blank("scoped") EXCEPT !.who = who, !.scope = list]
          OBVIOUS
        <4> HIDE DEF m, list
        <4>3. m \in Record /\ m.phase = "scoped" /\ m.who = who /\ m.scope = list
          <5>1. Blank("scoped") \in Record /\ Blank("scoped").phase = "scoped"
            BY <4>1, RecordFacts
          <5> QED
            BY <2>1, <4>1, <4>2, <5>1 DEF Record
        <4> QED
          BY <4>3 DEF list
      <3>3. Workspaces(who) = m
        BY <2>2 DEF Workspaces
      <3>4. ASSUME NEW w \in Workspace, age[who][w] = Horizon
            PROVE  w \in cache[k].list <=> w \in rights[who]
        <4>1. age[who][w] > Horizon - cache[k].life
          BY <2>2, <3>1, <3>4, ServerFacts DEF Answer
        <4> QED
          BY <2>1, <2>2, <4>1 DEF SrvInv, CachedTrue
      <3> HIDE DEF m
      <3> QED
        BY <1>1, <2>1, <3>2, <3>3, <3>4, QuietStep DEF Ended
    <2>3. CASE ~(k \in DOMAIN cache /\ cache[k].life > 0)
      <3> DEFINE m == [Blank("asked") EXCEPT !.who = who]
      <3>1. m \in Record /\ m.phase = "asked" /\ m.who = who
        <4>1. "asked" \in Progress
          BY DEF Progress
        <4> QED
          BY <2>1, <4>1, RecordFacts, Zenon
      <3>2. Workspaces(who) = m
        BY <2>3 DEF Workspaces
      <3> HIDE DEF m
      <3> QED
        BY <1>1, <2>1, <3>1, <3>2, QuietStep DEF Ended
    <2> QED
      BY <2>2, <2>3
  <1> QED
    BY <1>2, <1>3

LEMMA ErrorServerStep ==
    ASSUME SrvInv, NEW r \in Request, ErrorServer(r)
    PROVE  StepOK
  <1>1. Blank("refused") \in Record /\ Blank("refused").phase = "refused"
    BY RecordFacts DEF Progress, Ended
  <1>2. Quiet(r, Blank("refused"))
    BY DEF ErrorServer, Quiet
  <1> QED
    BY <1>1, <1>2, QuietStep DEF Ended

LEMMA EndStep ==
    ASSUME SrvInv, NEW r \in Request, NEW end \in Ended,
           req[r].phase = "scoped", Quiet(r, Blank(end))
    PROVE  StepOK
  <1>1. Blank(end) \in Record /\ Blank(end).phase = end
    BY RecordFacts DEF Progress
  <1> QED
    BY <1>1, QuietStep DEF Ended

LEMMA ReadsStep ==
    ASSUME SrvInv, NEW r \in Request, NEW w \in Workspace, NEW end \in Ended, Reads(r, w, end)
    PROVE  StepOK
  <1>1. PICK e \in Ended : e = IF w \in req[r].scope /\ Authorized(r, w) THEN end ELSE "refused"
    BY DEF Ended
  <1>2. req[r].phase = "scoped" /\ Quiet(r, Blank(e))
    BY <1>1 DEF Reads, Enter, Quiet
  <1> QED
    BY <1>2, EndStep

(* The answer of a review is what is so when it is given.                  *)
LEMMA ReviewStep ==
    ASSUME SrvInv, NEW r \in Request, Review(r)
    PROVE  StepOK
  <1> DEFINE u == req[r].who
  <1>1. req[r] \in Record /\ u \in Identity /\ req[r].phase = "asked"
    BY DEF SrvInv, Typed, ToldTrue, Review
  <1>2. rights[u] \in SUBSET Workspace
    BY <1>1 DEF SrvInv, Typed
  <1>3. PICK m : m = [req[r] EXCEPT !.phase = "told", !.scope = rights[u]]
    OBVIOUS
  <1>4. m \in Record /\ m.phase = "told" /\ m.scope = rights[u] /\ m.who = u
    BY <1>1, <1>2, <1>3 DEF Record, Progress
  <1>5. req' = [req EXCEPT ![r] = m]
    BY <1>3 DEF Review, SrvInv, Typed
  <1>6. \A q \in Request : req'[q] = IF q = r THEN m ELSE req[q]
    BY <1>5 DEF SrvInv, Typed
  <1>7. UNCHANGED <<rights, age, cache, count, fresh>>
    BY DEF Review
  <1> HIDE DEF u
  <1>8. Typed'
    BY <1>4, <1>5, <1>7 DEF SrvInv, Typed
  <1>9. ToldTrue' /\ HeldCurrent'
    BY <1>1, <1>4, <1>6, <1>7 DEF SrvInv, ToldTrue, HeldCurrent
  <1>10. CachedTrue'
    BY <1>7 DEF SrvInv, CachedTrue
  <1>11. Faithful /\ Exact
    BY <1>4, <1>6 DEF Faithful, Exact
  <1> QED
    BY <1>8, <1>9, <1>10, <1>11 DEF StepOK, SrvInv

(* It is kept under the caller's own key, as old as it took to come.       *)
LEMMA RememberStep ==
    ASSUME SrvInv, NEW r \in Request, Remember(r)
    PROVE  StepOK
  <1> DEFINE u == req[r].who
             k == CacheKey(u)
             kept == {j \in DOMAIN cache : cache[j].life > 0} \cup {k}
             new == [list |-> req[r].scope, life |-> TTL]
  <1>1. req[r] \in Record /\ u \in Identity /\ req[r].phase = "told"
    BY DEF SrvInv, Typed, ToldTrue, Remember
  <1>2. PICK m : m = [req[r] EXCEPT !.phase = "scoped", !.waited = 0]
    OBVIOUS
  <1>3. m \in Record /\ m.phase = "scoped" /\ m.scope = req[r].scope /\ m.who = u
    <2>1. 0 \in 0 .. MaxDelay /\ "scoped" \in Progress
      BY ServerFacts DEF Progress
    <2> HIDE DEF k, kept, new
    <2> QED
      BY <1>1, <1>2, <2>1 DEF Record
  <1>4. req' = [req EXCEPT ![r] = m]
    BY <1>2 DEF Remember, SrvInv, Typed
  <1>5. \A q \in Request : req'[q] = IF q = r THEN m ELSE req[q]
    BY <1>4 DEF SrvInv, Typed
  <1>6. UNCHANGED <<rights, age, count, fresh>>
    BY DEF Remember
  <1>7. new \in Answer /\ new.list = req[r].scope /\ new.life = TTL
    BY <1>1, ServerFacts DEF Answer, Record
  <1>8. cache' = [j \in kept |-> IF j = k THEN new ELSE cache[j]]
    BY DEF Remember
  <1> HIDE DEF new
  <1>9. /\ DOMAIN cache' = kept
        /\ \A j \in kept : cache'[j] = IF j = k THEN new ELSE cache[j]
    BY <1>8
  <1>10. ASSUME NEW w \in Workspace, age[u][w] > MaxDelay
         PROVE  w \in req[r].scope <=> w \in rights[u]
    <2>1. age[u][w] \in Nat /\ req[r].waited \in 0 .. MaxDelay
      BY <1>1, ServerFacts DEF SrvInv, Typed, Record
    <2>2. age[u][w] > req[r].waited
      BY <2>1, <1>10, ServerFacts
    <2> QED
      BY <1>1, <2>2 DEF SrvInv, ToldTrue
  <1>11. Typed'
    BY <1>3, <1>4, <1>6, <1>7, <1>9 DEF SrvInv, Typed
  <1>12. ToldTrue' /\ HeldCurrent'
    BY <1>3, <1>5, <1>6 DEF SrvInv, ToldTrue, HeldCurrent
  <1>13. CachedTrue'
    <2> SUFFICES ASSUME NEW v \in Identity, CacheKey(v) \in kept, NEW w \in Workspace,
                        age[v][w] > Horizon - cache'[CacheKey(v)].life
                 PROVE  w \in cache'[CacheKey(v)].list <=> w \in rights[v]
      BY <1>6, <1>9 DEF CachedTrue
    <2>1. CASE v = u
      <3>1. cache'[CacheKey(v)] = new
        BY <2>1, <1>9
      <3>2. age[u][w] > MaxDelay
        BY <2>1, <3>1, <1>7, ServerFacts
      <3> QED
        BY <2>1, <3>1, <3>2, <1>7, <1>10
    <2>2. CASE v # u
      <3>1. CacheKey(v) # k
        BY <2>2, <1>1, KeysTellCallers
      <3>2. CacheKey(v) \in DOMAIN cache /\ cache'[CacheKey(v)] = cache[CacheKey(v)]
        BY <3>1, <1>9
      <3> QED
        BY <3>2 DEF SrvInv, CachedTrue
    <2> QED
      BY <2>1, <2>2
  <1>14. Faithful
    <2> SUFFICES ASSUME NEW q \in Request, NEW w \in Workspace,
                        req'[q].phase = "scoped", req[q].phase # "scoped",
                        age[req'[q].who][w] = Horizon
                 PROVE  w \in req'[q].scope <=> w \in rights[req'[q].who]
      BY DEF Faithful
    <2>1. q = r /\ req'[q].who = u /\ req'[q].scope = req[r].scope
      BY <1>3, <1>5
    <2>2. age[u][w] > MaxDelay
      BY <2>1, ServerFacts
    <2> QED
      BY <2>1, <2>2, <1>10
  <1>15. Exact
    BY <1>3, <1>5 DEF Exact
  <1> QED
    BY <1>11, <1>12, <1>13, <1>14, <1>15 DEF StepOK, SrvInv

(* A write leaves nobody with the current version of the object.           *)
Written(w, size) ==
    /\ count' = [count EXCEPT ![w] = size]
    /\ fresh' = [fresh EXCEPT ![w] = {}]

LEMMA WritesStep ==
    ASSUME SrvInv, NEW r \in Request, NEW w \in Workspace, NEW end \in Ended,
           req[r].phase = "scoped", req' = [req EXCEPT ![r] = Blank(end)],
           UNCHANGED <<rights, age, cache>>,
           UNCHANGED <<count, fresh>> \/ \E size \in Sizes \cup {Absent} : Written(w, size)
    PROVE  StepOK
  <1>1. CASE UNCHANGED <<count, fresh>>
    BY <1>1, EndStep DEF Quiet
  <1>2. ASSUME NEW size \in Sizes \cup {Absent}, Written(w, size) PROVE StepOK
    <2>1. Blank(end) \in Record /\ Blank(end).phase = end
      BY RecordFacts DEF Progress
    <2>2. \A q \in Request : req'[q] = IF q = r THEN Blank(end) ELSE req[q]
      BY DEF SrvInv, Typed
    <2>3. Typed'
      BY <1>2, <2>1 DEF SrvInv, Typed, Written
    <2>4. ToldTrue' /\ CachedTrue'
      BY <2>1, <2>2 DEF SrvInv, ToldTrue, CachedTrue, Ended
    <2>5. \A v \in Workspace : /\ fresh'[v] \subseteq fresh[v]
                               /\ fresh'[v] = {} \/ count'[v] = count[v]
      BY <1>2 DEF SrvInv, Typed, Written
    <2>6. HeldCurrent'
      BY <2>1, <2>2, <2>5 DEF SrvInv, HeldCurrent, Ended
    <2>7. Faithful /\ Exact
      BY <2>1, <2>2 DEF Faithful, Exact, Ended
    <2> QED
      BY <2>3, <2>4, <2>6, <2>7 DEF StepOK, SrvInv
  <1> QED
    BY <1>1, <1>2

LEMMA WriteEnds ==
    ASSUME SrvInv, NEW r \in Request, NEW w \in Workspace, NEW possible \in BOOLEAN,
           NEW size \in Sizes \cup {Absent}, Writes(r, w, possible, size)
    PROVE  StepOK
  <1>1. PICK end \in Ended : req' = [req EXCEPT ![r] = Blank(end)]
    BY DEF Writes, Enter, Ended
  <1>2. UNCHANGED <<count, fresh>> \/ Written(w, size)
    BY DEF Writes, Written
  <1> QED
    BY <1>1, <1>2, WritesStep DEF Writes, Enter

LEMMA ScaleGetStep ==
    ASSUME SrvInv, NEW r \in Request, NEW w \in Workspace, NEW want \in Sizes \cup {Absent},
           ScaleGet(r, w, want)
    PROVE  StepOK
  <1>1. req[r].phase = "scoped" /\ UNCHANGED <<rights, age, cache, count>>
    BY DEF ScaleGet, Works, Enter
  <1>2. ASSUME req' = [req EXCEPT ![r].phase = "scaling", ![r].workspace = w,
                                  ![r].read = count[w], ![r].want = want],
               fresh' = [fresh EXCEPT ![w] = @ \cup {r}]
        PROVE  StepOK
    <2>1. req[r] \in Record /\ count[w] \in Int
      BY ServerFacts DEF SrvInv, Typed
    <2>2. PICK m : m = [req[r] EXCEPT !.phase = "scaling", !.workspace = w,
                                      !.read = count[w], !.want = want]
      OBVIOUS
    <2>3. m \in Record /\ m.phase = "scaling" /\ m.workspace = w /\ m.read = count[w]
      BY <2>1, <2>2 DEF Record, Progress
    <2>4. req' = [req EXCEPT ![r] = m]
      BY <1>2, <2>2 DEF SrvInv, Typed
    <2>5. \A q \in Request : req'[q] = IF q = r THEN m ELSE req[q]
      BY <2>4 DEF SrvInv, Typed
    <2>6. Typed'
      <3>1. req' \in [Request -> Record]
        BY <2>3, <2>4 DEF SrvInv, Typed
      <3>2. fresh' \in [Workspace -> SUBSET Request]
        BY <1>2 DEF SrvInv, Typed
      <3> QED
        BY <1>1, <3>1, <3>2 DEF SrvInv, Typed
    <2>7. ToldTrue' /\ CachedTrue'
      BY <1>1, <2>3, <2>5 DEF SrvInv, ToldTrue, CachedTrue
    <2>8. \A v \in Workspace : fresh'[v] \subseteq fresh[v] \cup {r}
      BY <1>2 DEF SrvInv, Typed
    <2>9. HeldCurrent'
      BY <1>1, <2>3, <2>5, <2>8 DEF SrvInv, HeldCurrent
    <2>10. Faithful /\ Exact
      BY <1>1, <2>3, <2>5 DEF Faithful, Exact
    <2> QED
      BY <2>6, <2>7, <2>9, <2>10 DEF StepOK, SrvInv
  <1>3. ASSUME NEW end \in Ended, req' = [req EXCEPT ![r] = Blank(end)], UNCHANGED fresh
        PROVE  StepOK
    BY <1>1, <1>3, EndStep DEF Quiet
  <1>4. \/ /\ req' = [req EXCEPT ![r].phase = "scaling", ![r].workspace = w,
                                 ![r].read = count[w], ![r].want = want]
           /\ fresh' = [fresh EXCEPT ![w] = @ \cup {r}]
        \/ \E end \in Ended : req' = [req EXCEPT ![r] = Blank(end)] /\ UNCHANGED fresh
    BY DEF ScaleGet, Enter, Ended
  <1> QED
    BY <1>2, <1>3, <1>4

(* The update succeeds only with the version that was read.                *)
LEMMA ScaleUpdateStep ==
    ASSUME SrvInv, NEW r \in Request, ScaleUpdate(r)
    PROVE  StepOK
  <1> DEFINE w == req[r].workspace
             scaled == Authorized(r, w) /\ r \in fresh[w]
  <1>1. req[r] \in Record /\ req[r].phase = "scaling" /\ w \in Workspace
    BY DEF SrvInv, Typed, HeldCurrent, ScaleUpdate
  <1>2. PICK end \in Ended : /\ req' = [req EXCEPT ![r] = Blank(end)]
                             /\ end = "answered" => scaled
    BY DEF ScaleUpdate, Ended
  <1>3. Blank(end) \in Record /\ Blank(end).phase = end
    BY RecordFacts DEF Progress
  <1>4. \A q \in Request : req'[q] = IF q = r THEN Blank(end) ELSE req[q]
    BY <1>2 DEF SrvInv, Typed
  <1>5. UNCHANGED <<rights, age, cache>>
    BY DEF ScaleUpdate
  <1>6. \/ count' = [count EXCEPT ![w] = req[r].want] /\ fresh' = [fresh EXCEPT ![w] = {}]
        \/ count' = count /\ fresh' = [fresh EXCEPT ![w] = @ \ {r}]
    BY DEF ScaleUpdate
  <1> HIDE DEF w, scaled
  <1>7. Typed'
    <2>1. req' \in [Request -> Record]
      BY <1>2, <1>3 DEF SrvInv, Typed
    <2>2. req[r].want \in Sizes \cup {Absent}
      BY <1>1 DEF Record
    <2>3. count' \in [Workspace -> Sizes \cup {Absent}] /\ fresh' \in [Workspace -> SUBSET Request]
      BY <1>6, <2>2, ZenonT(30) DEF SrvInv, Typed
    <2> QED
      BY <1>5, <2>1, <2>3 DEF SrvInv, Typed
  <1>8. ToldTrue' /\ CachedTrue'
    BY <1>3, <1>4, <1>5 DEF SrvInv, ToldTrue, CachedTrue, Ended
  <1>9. \A v \in Workspace : /\ fresh'[v] \subseteq fresh[v]
                             /\ fresh'[v] = {} \/ count'[v] = count[v]
    BY <1>6 DEF SrvInv, Typed
  <1>10. HeldCurrent'
    BY <1>3, <1>4, <1>9 DEF SrvInv, HeldCurrent, Ended
  <1>11. Faithful
    BY <1>3, <1>4 DEF Faithful, Ended
  <1>12. Exact
    <2> SUFFICES ASSUME NEW q \in Request, req[q].phase = "scaling", req'[q].phase = "answered"
                 PROVE  count[req[q].workspace] = req[q].read
      BY DEF Exact
    <2>1. q = r /\ scaled
      BY <1>2, <1>3, <1>4
    <2> QED
      BY <1>1, <2>1 DEF w, scaled, SrvInv, HeldCurrent
  <1> QED
    BY <1>7, <1>8, <1>10, <1>11, <1>12 DEF StepOK, SrvInv

(* What just changed is not so for long.                                   *)
LEMMA ChangeRightStep ==
    ASSUME SrvInv, NEW u \in Identity, NEW w \in Workspace, ChangeRight(u, w)
    PROVE  StepOK
  <1>1. UNCHANGED <<cache, req, count, fresh>>
    BY DEF ChangeRight
  <1>2. /\ rights' \in [Identity -> SUBSET Workspace]
        /\ age' \in [Identity -> [Workspace -> 0 .. Horizon]]
    BY ServerFacts DEF ChangeRight, SrvInv, Typed
  <1>3. \A v \in Identity, x \in Workspace :
           \/ v = u /\ x = w /\ age'[v][x] = 0
           \/ age'[v][x] = age[v][x] /\ (x \in rights'[v] <=> x \in rights[v])
    BY DEF ChangeRight, SrvInv, Typed
  <1>4. Typed' /\ HeldCurrent'
    BY <1>1, <1>2 DEF SrvInv, Typed, HeldCurrent
  <1>5. ToldTrue'
    <2> SUFFICES ASSUME NEW r \in Request, req[r].phase \in {"asked", "told"}
                 PROVE  /\ req[r].who \in Identity
                        /\ req[r].phase = "told" =>
                              \A x \in Workspace : age'[req[r].who][x] > req[r].waited =>
                                  (x \in req[r].scope <=> x \in rights'[req[r].who])
      BY <1>1 DEF ToldTrue
    <2>1. req[r].who \in Identity /\ req[r].waited \in Nat
      BY ServerFacts DEF SrvInv, ToldTrue, Typed, Record
    <2> QED
      BY <1>3, <2>1 DEF SrvInv, ToldTrue
  <1>6. CachedTrue'
    <2> SUFFICES ASSUME NEW v \in Identity, CacheKey(v) \in DOMAIN cache, NEW x \in Workspace,
                        age'[v][x] > Horizon - cache[CacheKey(v)].life
                 PROVE  x \in cache[CacheKey(v)].list <=> x \in rights'[v]
      BY <1>1 DEF CachedTrue
    <2>1. cache[CacheKey(v)].life \in 0 .. TTL
      BY DEF SrvInv, Typed, Answer
    <2>2. age'[v][x] # 0
      BY <2>1, ServerFacts
    <2> QED
      BY <1>3, <2>2 DEF SrvInv, CachedTrue
  <1>7. Faithful /\ Exact
    BY <1>1 DEF Faithful, Exact
  <1> QED
    BY <1>4, <1>5, <1>6, <1>7 DEF StepOK, SrvInv

(* As time passes rights, answers and reviews get older alike.             *)
LEMMA TickStep ==
    ASSUME SrvInv, Tick
    PROVE  StepOK
  <1>1. UNCHANGED <<rights, count, fresh>>
    BY DEF Tick
  <1>2. /\ age' \in [Identity -> [Workspace -> 0 .. Horizon]]
        /\ \A u \in Identity, w \in Workspace :
              age'[u][w] = IF age[u][w] < Horizon THEN age[u][w] + 1 ELSE Horizon
    BY ServerFacts DEF Tick, SrvInv, Typed
  <1>3. /\ DOMAIN cache' = DOMAIN cache
        /\ \A k \in DOMAIN cache :
              /\ cache'[k] \in Answer /\ cache'[k].list = cache[k].list
              /\ cache'[k].life = IF cache[k].life > 0 THEN cache[k].life - 1 ELSE 0
    <2> DEFINE Older(a) == [a EXCEPT !.life = IF @ > 0 THEN @ - 1 ELSE 0]
    <2>1. \A a \in Answer : /\ Older(a) \in Answer /\ Older(a).list = a.list
                            /\ Older(a).life = IF a.life > 0 THEN a.life - 1 ELSE 0
      BY ServerFacts DEF Answer
    <2>2. /\ DOMAIN cache' = DOMAIN cache
          /\ \A k \in DOMAIN cache : cache'[k] = Older(cache[k]) /\ cache[k] \in Answer
      BY DEF Tick, SrvInv, Typed
    <2> HIDE DEF Older
    <2> QED
      BY <2>1, <2>2
  <1>4. /\ req' \in [Request -> Record]
        /\ \A r \in Request :
              /\ req'[r].phase = req[r].phase /\ req'[r].who = req[r].who
              /\ req'[r].scope = req[r].scope /\ req'[r].workspace = req[r].workspace
              /\ req'[r].read = req[r].read
              /\ r \in Waiting => req[r].waited < MaxDelay /\ req'[r].waited = req[r].waited + 1
    <2>1. \A m \in Record : m.waited < MaxDelay => [m EXCEPT !.waited = @ + 1] \in Record
      BY ServerFacts DEF Record
    <2>2. \A m \in Record :
             LET n == [m EXCEPT !.waited = @ + 1]
             IN  /\ n.phase = m.phase /\ n.who = m.who /\ n.scope = m.scope
                 /\ n.workspace = m.workspace /\ n.read = m.read /\ n.waited = m.waited + 1
      BY DEF Record
    <2>3. \A r \in Request :
             IF r \in Waiting
             THEN req[r].waited < MaxDelay /\ req'[r] = [req[r] EXCEPT !.waited = @ + 1]
             ELSE req'[r] = req[r]
      BY DEF Tick
    <2>4. \A r \in Request : req[r] \in Record
      BY DEF SrvInv, Typed
    <2>5. \A r \in Request : req'[r] \in Record
      BY <2>1, <2>3, <2>4
    <2>6. req' \in [Request -> Record]
      BY <2>5 DEF Tick
    <2> QED
      BY <2>2, <2>3, <2>4, <2>6, ZenonT(30)
  <1>5. Typed'
    BY <1>1, <1>2, <1>3, <1>4 DEF SrvInv, Typed
  <1>6. ToldTrue'
    <2> SUFFICES ASSUME NEW r \in Request, req[r].phase \in {"asked", "told"}
                 PROVE  /\ req[r].who \in Identity
                        /\ req[r].phase = "told" =>
                              \A w \in Workspace : age'[req[r].who][w] > req'[r].waited =>
                                  (w \in req[r].scope <=> w \in rights[req[r].who])
      BY <1>1, <1>4 DEF ToldTrue
    <2>1. req[r].who \in Identity /\ req[r].waited \in 0 .. MaxDelay
      BY DEF SrvInv, ToldTrue, Typed, Record
    <2>2. req[r].waited < MaxDelay /\ req'[r].waited = req[r].waited + 1
      BY <1>4 DEF Waiting
    <2>3. ASSUME NEW w \in Workspace, age'[req[r].who][w] > req'[r].waited
          PROVE  age[req[r].who][w] > req[r].waited
      <3>1. age[req[r].who][w] \in 0 .. Horizon
        BY <2>1 DEF SrvInv, Typed
      <3> QED
        BY <1>2, <2>1, <2>2, <2>3, <3>1, ServerFacts
    <2> QED
      BY <2>1, <2>3 DEF SrvInv, ToldTrue
  <1>7. CachedTrue'
    <2> SUFFICES ASSUME NEW u \in Identity, CacheKey(u) \in DOMAIN cache, NEW w \in Workspace,
                        age'[u][w] > Horizon - cache'[CacheKey(u)].life
                 PROVE  w \in cache[CacheKey(u)].list <=> w \in rights[u]
      BY <1>1, <1>3 DEF CachedTrue
    <2>1. /\ cache[CacheKey(u)].life \in 0 .. TTL /\ age[u][w] \in 0 .. Horizon
      BY DEF SrvInv, Typed, Answer
    <2>2. age[u][w] > Horizon - cache[CacheKey(u)].life
      BY <1>2, <1>3, <2>1, ServerFacts
    <2> QED
      BY <2>2 DEF SrvInv, CachedTrue
  <1>8. HeldCurrent'
    BY <1>1, <1>4 DEF SrvInv, HeldCurrent
  <1>9. Faithful /\ Exact
    BY <1>4 DEF Faithful, Exact
  <1> QED
    BY <1>5, <1>6, <1>7, <1>8, <1>9 DEF StepOK, SrvInv

-----------------------------------------------------------------------------
(* Each tool reads, writes or ends.                                        *)
LEMMA CoreToolStep ==
    ASSUME SrvInv, NEW r \in Request, CoreTool(r)
    PROVE  StepOK
  <1> USE DEF Ended
  <1>1. ASSUME ListWorkspaces(r) PROVE StepOK
    BY <1>1, EndStep DEF ListWorkspaces, Quiet
  <1>2. ASSUME NEW w \in Workspace, NEW kind, List(r, w, kind) PROVE StepOK
    BY <1>2, ReadsStep DEF List
  <1>3. ASSUME NEW w \in Workspace, NEW kind, NEW found \in BOOLEAN, Get(r, w, kind, found)
        PROVE  StepOK
    BY <1>3, ReadsStep DEF Get
  <1>4. ASSUME NEW w \in Workspace, ListResources(r, w) PROVE StepOK
    BY <1>4, ReadsStep DEF ListResources
  <1>5. ASSUME NEW w \in Workspace, GetResource(r, w) PROVE StepOK
    BY <1>5, ReadsStep DEF GetResource
  <1> QED
    BY <1>1, <1>2, <1>3, <1>4, <1>5
    DEF CoreTool, ListAPIBindings, GetAPIBinding, ListAPIExports, GetAPIExport,
        ListAPIExportEndpointSlices, ListWorkspaceTypes, GetWorkspaceType,
        ListInitializingWorkspaces, ListTerminatingWorkspaces

LEMMA OtherToolsStep ==
    ASSUME SrvInv, NEW r \in Request, NEW w \in Workspace,
           ApisTool(r, w) \/ AdminTool(r, w) \/ WriteTool(r, w)
    PROVE  StepOK
  <1>1. ASSUME NEW kind, List(r, w, kind) PROVE StepOK
    BY <1>1, ReadsStep DEF List, Ended
  <1>2. ASSUME NEW kind, NEW found \in BOOLEAN, Get(r, w, kind, found) PROVE StepOK
    BY <1>2, ReadsStep DEF Get, Ended
  <1>3. ASSUME CreateResource(r, w) PROVE StepOK
    <2>1. PICK m \in Manifest : Writes(r, w, Resolves(m) /\ count[w] = Absent, 0)
      BY <1>3 DEF CreateResource
    <2> QED
      BY <2>1, WriteEnds, ServerFacts
  <1>4. ASSUME UpdateResource(r, w) PROVE StepOK
    <2>1. PICK m \in Manifest, current \in BOOLEAN, n \in Sizes :
             Writes(r, w, Resolves(m) /\ current /\ count[w] # Absent, n)
      BY <1>4 DEF UpdateResource
    <2> QED
      BY <2>1, WriteEnds
  <1>5. ASSUME PatchResource(r, w) PROVE StepOK
    <2>1. PICK valid \in BOOLEAN, n \in Sizes : Writes(r, w, valid /\ count[w] # Absent, n)
      BY <1>5 DEF PatchResource
    <2> QED
      BY <2>1, WriteEnds
  <1>6. ASSUME DeleteResource(r, w) PROVE StepOK
    <2>1. PICK valid \in BOOLEAN : Writes(r, w, valid /\ count[w] # Absent, Absent)
      BY <1>6 DEF DeleteResource
    <2> QED
      BY <2>1, WriteEnds
  <1> QED
    BY <1>1, <1>2, <1>3, <1>4, <1>5, <1>6, ScaleGetStep
    DEF ApisTool, ListAPIConversions, ListAPIResourceSchemas, GetAPIResourceSchema,
        AdminTool, ListLogicalClusters, ListShards, ListPartitions, ListPartitionSets,
        WriteTool

LEMMA SrvStays ==
    ASSUME SrvInv, Next \/ UNCHANGED vars
    PROVE  StepOK
  <1>1. CASE UNCHANGED srvVars
    BY <1>1 DEF srvVars, SrvInv, Typed, ToldTrue, CachedTrue, HeldCurrent, Faithful, Exact, StepOK
  <1>2. CASE SrvNext
    BY <1>2, ArriveStep, ReviewStep, ErrorServerStep, RememberStep, CoreToolStep,
       ScaleUpdateStep, OtherToolsStep, ChangeRightStep, TickStep DEF SrvNext
  <1> QED
    BY <1>1, <1>2 DEF Next, vars

(* The operator and the server beside each other.                          *)
SafeSpec == Init /\ [][Next]_vars

THEOREM ServerConsistency == SafeSpec => []SrvInv
  <1>1. Init => SrvInv
    BY SrvInitially DEF Init
  <1>2. SrvInv /\ [Next]_vars => SrvInv'
    BY SrvStays DEF StepOK
  <1> QED
    BY <1>1, <1>2, PTL DEF SafeSpec

(* What a caller may use has been so for longer than the expiry and a      *)
(* review's delay: then every scope the server makes for that caller says  *)
(* so, and nobody else's answer gets in its place (Client.Workspaces).     *)
THEOREM ScopesFollowRights == SafeSpec => ScopeFollowsRights
  <1>1. SrvInv /\ [Next]_vars => Faithful
    BY SrvStays DEF StepOK
  <1>2. Faithful <=> \A r \in Request, w \in Workspace :
           /\ req'[r].phase = "scoped" /\ req[r].phase # "scoped"
           /\ age[req'[r].who][w] = Horizon
           => (w \in req'[r].scope <=> w \in rights[req'[r].who])
    BY DEF Faithful
  <1> QED
    BY <1>1, <1>2, ServerConsistency, PTL DEF SafeSpec, ScopeFollowsRights

(* A scale that is answered replaced the count that it read (scale, with   *)
(* the version of the object it read), whoever writes in between.          *)
THEOREM ScalesAreExact == SafeSpec => ScaleIsExact
  <1>1. SrvInv /\ [Next]_vars => Exact
    BY SrvStays DEF StepOK
  <1>2. Exact <=> \A r \in Request :
           req[r].phase = "scaling" /\ req'[r].phase = "answered" =>
             count[req[r].workspace] = req[r].read
    BY DEF Exact
  <1> QED
    BY <1>1, <1>2, ServerConsistency, PTL DEF SafeSpec, ScaleIsExact
-----------------------------------------------------------------------------
(* The steps that store an object, and what each of a program's steps is.  *)
Applies == {"manifest", "asset", "role", "secret"}

Segment == Service \cup {"root", "controllers", "store", "tenants", "catalog", "producers"}

StepRecord ==
    [op : Applies \cup {"createWorkspace", "awaitWorkspace", "read", "slice", "token", "servable"},
     obj : Object \cup Seq(Segment) \cup {"preflight", "hash", "cluster"}, back : Nat]

(* A step that may be the n-th of its service's program. *)
Legal(svc, s, n) ==
    /\ s.op \in Applies => s.obj \in Object
    /\ s.op \in Applies /\ IsAPIBinding(s.obj) => s.op = "manifest"
    /\ s.op \in Applies /\ s.obj = "registryBinding" => svc \in {"tenancy", "marketplace"}
    /\ s.op \in Applies /\ s.obj = "kubeconfig" => svc = "access"
    /\ s.op = "secret" => s.obj = "kubeconfig"
    /\ s.op = "manifest" => svc # "access"
    /\ s.op = "asset" => svc = "access" /\ s.back < n

Programs(svc) == {p \in Seq(StepRecord) : \A n \in 1 .. Len(p) : Legal(svc, p[n], n)}

Uses(p, op) == \E n \in 1 .. Len(p) : p[n].op = op

LEMMA Joined ==
    ASSUME NEW svc \in Service, NEW p \in Programs(svc), NEW q \in Programs(svc)
    PROVE  /\ p \o q \in Programs(svc) /\ Len(p \o q) = Len(p) + Len(q)
           /\ \A op : Uses(p, op) \/ Uses(q, op) => Uses(p \o q, op)
  <1>1. p \in Seq(StepRecord) /\ q \in Seq(StepRecord)
    BY DEF Programs
  <1>2. /\ p \o q \in Seq(StepRecord) /\ Len(p \o q) = Len(p) + Len(q)
        /\ \A n \in 1 .. Len(p) + Len(q) :
             (p \o q)[n] = IF n <= Len(p) THEN p[n] ELSE q[n - Len(p)]
    BY <1>1, ConcatProperties
  <1>3. Len(p) \in Nat /\ Len(q) \in Nat
    BY <1>1, LenProperties
  <1>4. ASSUME NEW n \in 1 .. Len(p \o q) PROVE Legal(svc, (p \o q)[n], n)
    <2>1. CASE n <= Len(p)
      <3>1. n \in 1 .. Len(p) /\ (p \o q)[n] = p[n]
        BY <1>2, <1>3, <2>1
      <3> QED
        BY <3>1 DEF Programs
    <2>2. CASE n > Len(p)
      <3>1. n - Len(p) \in 1 .. Len(q) /\ (p \o q)[n] = q[n - Len(p)]
        BY <1>2, <1>3, <2>2
      <3>2. Legal(svc, q[n - Len(p)], n - Len(p))
        BY <3>1 DEF Programs
      <3>3. q[n - Len(p)] \in StepRecord
        BY <1>1, <3>1, ElementOfSeq
      <3>4. q[n - Len(p)].back \in Nat
        BY <3>3 DEF StepRecord
      <3> QED
        BY <1>2, <1>3, <2>2, <3>1, <3>2, <3>4 DEF Legal
    <2> QED
      BY <1>2, <1>3, <2>1, <2>2
  <1>5. ASSUME NEW op, Uses(p, op) PROVE Uses(p \o q, op)
    <2>1. PICK n \in 1 .. Len(p) : p[n].op = op
      BY <1>5 DEF Uses
    <2>2. n \in 1 .. Len(p \o q) /\ (p \o q)[n] = p[n]
      BY <1>2, <1>3
    <2> QED
      BY <2>1, <2>2 DEF Uses
  <1>6. ASSUME NEW op, Uses(q, op) PROVE Uses(p \o q, op)
    <2>1. PICK n \in 1 .. Len(q) : q[n].op = op
      BY <1>6 DEF Uses
    <2>2. PICK m \in 1 .. Len(p \o q) : m = n + Len(p)
      BY <1>2, <1>3
    <2>3. (p \o q)[m] = q[n]
      BY <1>2, <1>3, <2>2
    <2> QED
      BY <2>1, <2>3 DEF Uses
  <1> QED
    BY <1>2, <1>4, <1>5, <1>6 DEF Programs

\* A single step.
LEMMA SingleStep ==
    ASSUME NEW svc \in Service, NEW s \in StepRecord, s.back = 0, Legal(svc, s, 1)
    PROVE  <<s>> \in Programs(svc) /\ Len(<<s>>) = 1 /\ Uses(<<s>>, s.op)
  <1>1. <<s>> \in Seq(StepRecord) /\ Len(<<s>>) = 1 /\ <<s>>[1] = s
    OBVIOUS
  <1>2. \A n \in 1 .. Len(<<s>>) : Legal(svc, <<s>>[n], n)
    BY <1>1
  <1>3. Uses(<<s>>, s.op)
    BY <1>1 DEF Uses
  <1> QED
    BY <1>1, <1>2, <1>3 DEF Programs

LEMMA OneStep ==
    ASSUME NEW svc \in Service, NEW op, NEW o,
           [op |-> op, obj |-> o, back |-> 0] \in StepRecord,
           Legal(svc, [op |-> op, obj |-> o, back |-> 0], 1)
    PROVE  Do(op, o) \in Programs(svc) /\ Len(Do(op, o)) = 1 /\ Uses(Do(op, o), op)
  <1>1. PICK s \in StepRecord : s = [op |-> op, obj |-> o, back |-> 0]
    OBVIOUS
  <1>2. s.back = 0 /\ s.op = op
    BY <1>1
  <1> QED
    BY <1>1, <1>2, SingleStep DEF Do

\* What a service lists to be applied one after the other.
Listed(svc, op) ==
    {o \in Object \ {"kubeconfig"} : /\ IsAPIBinding(o) => op = "manifest"
                                     /\ o = "registryBinding" => svc \in {"tenancy", "marketplace"}}

LEMMA ListOfSteps ==
    ASSUME NEW svc \in Service, NEW op \in {"manifest", "asset"}, NEW objs \in Seq(Listed(svc, op)),
           op = "manifest" <=> svc # "access"
    PROVE  DoAll(op, objs) \in Programs(svc) /\ Len(DoAll(op, objs)) = Len(objs)
  <1>1. Len(objs) \in Nat
    BY LenProperties
  <1>2. \A k \in 1 .. Len(objs) : objs[k] \in Listed(svc, op)
    BY ElementOfSeq
  <1>3. ASSUME NEW k \in 1 .. Len(objs)
        PROVE  /\ [op |-> op, obj |-> objs[k], back |-> k - 1] \in StepRecord
               /\ Legal(svc, [op |-> op, obj |-> objs[k], back |-> k - 1], k)
    <2>1. objs[k] \in Object
      BY <1>2 DEF Listed
    <2>2. k - 1 \in Nat /\ k - 1 < k
      BY <1>1
    <2>3. [op |-> op, obj |-> objs[k], back |-> k - 1] \in StepRecord
      BY <2>1, <2>2 DEF StepRecord, Applies
    <2>4. Legal(svc, [op |-> op, obj |-> objs[k], back |-> k - 1], k)
      BY <1>2, <2>2 DEF Legal, Applies, Listed
    <2> QED
      BY <2>3, <2>4
  <1>4. DoAll(op, objs) \in [1 .. Len(objs) -> StepRecord]
    BY <1>3 DEF DoAll
  <1>5. DoAll(op, objs) \in Seq(StepRecord) /\ Len(DoAll(op, objs)) = Len(objs)
    BY <1>1, <1>4, IsASeq, LenProperties
  <1>6. \A k \in 1 .. Len(objs) : Legal(svc, DoAll(op, objs)[k], k)
    BY <1>3 DEF DoAll
  <1> QED
    BY <1>5, <1>6 DEF Programs

\* The recursive function that flattens a pair exists.
LEMMA FlattenedPair == ASSUME NEW s, Len(s) = 2 PROVE FlattenSeq(s) = s[1] \o s[2]
  <1> DEFINE so == CHOOSE f : f = [k \in 1 .. Len(s) |-> IF k = 1 THEN s[k] ELSE f[k - 1] \o s[k]]
             g == [k \in 1 .. 2 |-> IF k = 1 THEN s[1] ELSE s[1] \o s[2]]
  <1>1. FlattenSeq(s) = so[Len(s)]
    BY DEF FlattenSeq
  <1>2. g[1] = s[1] /\ g[2] = s[1] \o s[2]
    OBVIOUS
  <1>3. g = [k \in 1 .. 2 |-> g[k]]
    OBVIOUS
  <1> HIDE DEF g
  <1>4. ASSUME NEW k \in 1 .. 2 PROVE g[k] = IF k = 1 THEN s[k] ELSE g[k - 1] \o s[k]
    <2>1. k = 1 \/ (k = 2 /\ k - 1 = 1)
      OBVIOUS
    <2> QED
      BY <1>2, <2>1
  <1>5. g = [k \in 1 .. Len(s) |-> IF k = 1 THEN s[k] ELSE g[k - 1] \o s[k]]
    BY <1>3, <1>4
  <1>6. so = [k \in 1 .. Len(s) |-> IF k = 1 THEN s[k] ELSE so[k - 1] \o s[k]]
    BY <1>5
  <1> HIDE DEF so
  <1>7. so[1] = s[1] /\ so[2] = so[1] \o s[2]
    <2>1. \A k \in 1 .. 2 : so[k] = IF k = 1 THEN s[k] ELSE so[k - 1] \o s[k]
      BY <1>6
    <2> QED
      BY <2>1, 2 - 1 = 1
  <1> QED
    BY <1>1, <1>7

\* A path of three segments: two workspaces, each created and awaited.
LEMMA PathSteps ==
    ASSUME NEW svc \in Service, NEW path \in Seq(Segment), Len(path) = 3
    PROVE  CreateWorkspacePath(path) \in Programs(svc)
  <1> DEFINE part(k) == Do("createWorkspace", SubSeq(path, 1, k + 1))
                          \o Do("awaitWorkspace", SubSeq(path, 1, k + 1))
             parts == [k \in 1 .. (Len(path) - 1) |-> part(k)]
  <1>1. ASSUME NEW k \in 1 .. 2 PROVE part(k) \in Programs(svc)
    <2>1. PICK w \in Seq(Segment) : w = SubSeq(path, 1, k + 1)
      <3>1. k + 1 \in Int /\ \A m \in 1 .. (k + 1) : path[m] \in Segment
        <4>1. \A m \in 1 .. Len(path) : path[m] \in Segment
          BY ElementOfSeq
        <4> QED
          BY <4>1
      <3>2. SubSeq(path, 1, k + 1) \in Seq(Segment)
        BY <3>1, SubSeqProperties
      <3> QED
        BY <3>2
    <2>2. [op |-> "createWorkspace", obj |-> w, back |-> 0] \in StepRecord
      BY DEF StepRecord
    <2>3. [op |-> "awaitWorkspace", obj |-> w, back |-> 0] \in StepRecord
      BY DEF StepRecord
    <2>4. /\ Legal(svc, [op |-> "createWorkspace", obj |-> w, back |-> 0], 1)
          /\ Legal(svc, [op |-> "awaitWorkspace", obj |-> w, back |-> 0], 1)
      BY DEF Legal, Applies
    <2>5. Do("createWorkspace", w) \in Programs(svc) /\ Do("awaitWorkspace", w) \in Programs(svc)
      BY <2>2, <2>3, <2>4, OneStep
    <2> QED
      BY <2>1, <2>5, Joined
  <1>2. parts = <<part(1), part(2)>>
    OBVIOUS
  <1>3. Len(parts) = 2 /\ parts[1] = part(1) /\ parts[2] = part(2)
    BY <1>2
  <1>4. CreateWorkspacePath(path) = FlattenSeq(parts)
    BY DEF CreateWorkspacePath
  <1> HIDE DEF part, parts
  <1>5. FlattenSeq(parts) = parts[1] \o parts[2]
    BY <1>3, FlattenedPair
  <1>6. part(1) \o part(2) \in Programs(svc)
    BY <1>1, Joined
  <1> QED
    BY <1>3, <1>4, <1>5, <1>6

LEMMA ServicePath ==
    ASSUME NEW svc \in Service, NEW leaf \in Segment
    PROVE  CreateWorkspacePath(JoinWorkspacePath(Prefix(svc), leaf)) \in Programs(svc)
  <1>1. "root" \in Segment /\ svc \in Segment
    BY DEF Segment
  <1>2. PICK before \in Seq(Segment) : before = <<"root", svc>>
    <2>1. PICK root \in Segment : root = "root"
      BY <1>1
    <2>2. <<root, svc>> \in Seq(Segment)
      BY <1>1
    <2> QED
      BY <2>1, <2>2, Zenon
  <1>3. Len(before) = 2
    BY <1>2
  <1>4. Append(before, leaf) \in Seq(Segment) /\ Len(Append(before, leaf)) = Len(before) + 1
    BY AppendProperties
  <1>5. PICK path \in Seq(Segment) : path = Append(before, leaf)
    BY <1>4
  <1>6. Len(path) = 3
    BY <1>3, <1>4, <1>5
  <1> QED
    BY <1>2, <1>5, <1>6, PathSteps DEF JoinWorkspacePath, Prefix

LEMMA NoSteps == \A svc \in Service : <<>> \in Programs(svc)
  BY EmptySeq DEF Programs

\* A role and its binding.
LEMMA GrantSteps ==
    ASSUME NEW svc \in Service, NEW role \in Object, NEW binding \in Object,
           \A o \in {role, binding} : ~IsAPIBinding(o) /\ o # "kubeconfig"
    PROVE  Grant(role, binding) \in Programs(svc)
  <1>1. ASSUME NEW o \in {role, binding} PROVE Do("role", o) \in Programs(svc)
    <2>1. [op |-> "role", obj |-> o, back |-> 0] \in StepRecord
      BY DEF StepRecord, Applies
    <2>2. Legal(svc, [op |-> "role", obj |-> o, back |-> 0], 1)
      BY DEF Legal, Applies, IsAPIBinding
    <2> QED
      BY <2>1, <2>2, OneStep
  <1> QED
    BY <1>1, Joined DEF Grant

\* Reading and waiting.
LEMMA WaitingSteps ==
    ASSUME NEW svc \in Service,
           NEW op \in {"read", "slice", "token", "servable"},
           NEW o \in {"preflight", "hash", "cluster", "slice", "account", "registryBinding"}
    PROVE  Do(op, o) \in Programs(svc) /\ Uses(Do(op, o), op)
  <1>1. [op |-> op, obj |-> o, back |-> 0] \in StepRecord
    BY DEF StepRecord, Object
  <1>2. Legal(svc, [op |-> op, obj |-> o, back |-> 0], 1)
    BY DEF Legal, Applies
  <1> QED
    BY <1>1, <1>2, OneStep

LEMMA Together ==
    ASSUME NEW svc \in Service, NEW p \in Programs(svc), NEW q \in Programs(svc)
    PROVE  p \o q \in Programs(svc)
  BY Joined

LEMMA UsedIn ==
    ASSUME NEW svc \in Service, NEW p \in Programs(svc), NEW q \in Programs(svc), NEW op,
           Uses(p, op) \/ Uses(q, op)
    PROVE  Uses(p \o q, op)
  BY Joined

LEMMA AccessProgram ==
    ASSUME NEW r
    PROVE  AccessInit(r) \in Programs("access") /\ Uses(AccessInit(r), "token")
  <1> DEFINE P == Programs("access")
             identity == If(r \in NamesServer, DoAll("asset", <<"serverBinding">>))
             before == Do("read", "preflight") \o AccessAssets \o AccessControllerAssets \o identity
                         \o Do("slice", "slice") \o Do("read", "cluster")
             path == CreateWorkspacePath(JoinWorkspacePath(Prefix("access"), "controllers"))
  <1>1. "access" \in Service
    BY DEF Service
  <1>2. AccessAssets \in P /\ AccessControllerAssets \in P
    <2>1. /\ <<"schema", "export", "bind", "slice">> \in Seq(Listed("access", "asset"))
          /\ <<"account", "controllerRole">> \in Seq(Listed("access", "asset"))
      BY DEF Object, Listed, IsAPIBinding
    <2> QED
      BY <1>1, <2>1, ListOfSteps DEF AccessAssets, AccessControllerAssets
  <1>3. identity \in P
    <2>1. <<"serverBinding">> \in Seq(Listed("access", "asset"))
      BY DEF Object, Listed, IsAPIBinding
    <2>2. DoAll("asset", <<"serverBinding">>) \in P
      BY <1>1, <2>1, ListOfSteps
    <2> QED
      BY <1>1, <2>2, NoSteps DEF If
  <1>4. /\ Do("read", "preflight") \in P /\ Do("slice", "slice") \in P
        /\ Do("read", "cluster") \in P
        /\ Do("token", "account") \in P /\ Uses(Do("token", "account"), "token")
    BY <1>1, WaitingSteps
  <1>5. Do("secret", "kubeconfig") \in P
    <2>1. [op |-> "secret", obj |-> "kubeconfig", back |-> 0] \in StepRecord
      BY DEF StepRecord, Object, Applies
    <2>2. Legal("access", [op |-> "secret", obj |-> "kubeconfig", back |-> 0], 1)
      BY DEF Legal, Object, Applies, IsAPIBinding
    <2> QED
      BY <1>1, <2>1, <2>2, OneStep
  <1>6. path \in P
    BY <1>1, ServicePath DEF Segment
  <1>7. AccessInit(r) = path \o (before \o Do("token", "account") \o Do("secret", "kubeconfig"))
    BY DEF AccessInit, AccessBootstrap
  <1> HIDE DEF identity, path
  <1>8. before \in P
    BY <1>1, <1>2, <1>3, <1>4, Together
  <1> HIDE DEF before
  <1>9. /\ before \o Do("token", "account") \in P
        /\ Uses(before \o Do("token", "account"), "token")
    BY <1>1, <1>4, <1>8, Together, UsedIn
  <1> QED
    BY <1>1, <1>5, <1>6, <1>7, <1>9, Together, UsedIn

LEMMA TenancyProgram ==
    ASSUME NEW r
    PROVE  TenancyInit(r) \in Programs("tenancy") /\ Uses(TenancyInit(r), "servable")
  <1> DEFINE P == Programs("tenancy")
             path(leaf) == CreateWorkspacePath(JoinWorkspacePath(Prefix("tenancy"), leaf))
             server == If(r \in NamesServer, Grant("serverRole", "serverBinding"))
             locator == If(r \in NamesServer, Grant("locatorRole", "locatorBinding"))
  <1>1. "tenancy" \in Service /\ "tenancy" # "access"
    BY DEF Service
  <1>2. /\ TenancyExportsOrder \in P /\ TenancyBindTenantsParent \in P
        /\ DoAll("manifest", <<"registryBinding">>) \in P
    <2>1. /\ <<"schema", "export", "bind", "types", "slice">> \in Seq(Listed("tenancy", "manifest"))
          /\ <<"parentBinding">> \in Seq(Listed("tenancy", "manifest"))
          /\ <<"registryBinding">> \in Seq(Listed("tenancy", "manifest"))
      BY DEF Object, Listed
    <2> QED
      BY <1>1, <2>1, ListOfSteps DEF TenancyExportsOrder, TenancyBindTenantsParent
  <1>3. server \in P /\ locator \in P /\ TenancyGrantPlatformAdmins \in P
    <2>1. {"serverRole", "serverBinding", "locatorRole", "locatorBinding", "adminRole", "adminBinding"}
            \subseteq {o \in Object : ~IsAPIBinding(o) /\ o # "kubeconfig"}
      BY DEF Object, IsAPIBinding
    <2> QED
      BY <1>1, <2>1, GrantSteps, NoSteps DEF If, TenancyGrantPlatformAdmins
  <1>5. /\ Do("read", "hash") \in P /\ Do("read", "cluster") \in P /\ Do("slice", "slice") \in P
        /\ Do("servable", "registryBinding") \in P
        /\ Uses(Do("servable", "registryBinding"), "servable")
    BY <1>1, WaitingSteps
  <1>6. path("controllers") \in P /\ path("store") \in P /\ path("tenants") \in P
    BY <1>1, ServicePath DEF Segment
  <1> HIDE DEF path, server, locator
  <1>7. TenancyBootstrap(r) \in P
    <2>1. TenancyBootstrap(r) = Do("read", "hash") \o Do("read", "cluster") \o TenancyExportsOrder \o server
      BY DEF TenancyBootstrap, server
    <2> QED
      BY <1>1, <1>2, <1>3, <1>5, <2>1, Together
  <1>8. TenancyBindStore(r) \in P /\ Uses(TenancyBindStore(r), "servable")
    <2>1. TenancyBindStore(r) = DoAll("manifest", <<"registryBinding">>) \o locator
                                  \o Do("servable", "registryBinding")
      BY DEF TenancyBindStore, locator
    <2>2. DoAll("manifest", <<"registryBinding">>) \o locator \in P
      BY <1>1, <1>2, <1>3, Together
    <2> QED
      BY <1>1, <1>5, <2>1, <2>2, Together, UsedIn
  <1> DEFINE sofar == path("controllers") \o TenancyBootstrap(r) \o path("store") \o TenancyBindStore(r)
             rest == sofar \o TenancyGrantPlatformAdmins \o path("tenants") \o TenancyBindTenantsParent
  <1>9. TenancyInit(r) = rest \o Do("slice", "slice")
    BY DEF TenancyInit, path
  <1>10. sofar \in P /\ Uses(sofar, "servable")
    BY <1>1, <1>6, <1>7, <1>8, Together, UsedIn
  <1> HIDE DEF sofar
  <1>11. rest \in P /\ Uses(rest, "servable")
    BY <1>1, <1>2, <1>3, <1>6, <1>10, Together, UsedIn
  <1> QED
    BY <1>1, <1>5, <1>9, <1>11, Together, UsedIn

LEMMA MarketplaceProgram ==
    ASSUME NEW r
    PROVE  MarketplaceInit(r) \in Programs("marketplace") /\ Uses(MarketplaceInit(r), "servable")
  <1> DEFINE P == Programs("marketplace")
             path(leaf) == CreateWorkspacePath(JoinWorkspacePath(Prefix("marketplace"), leaf))
             server == If(r \in NamesServer, Grant("serverRole", "serverBinding"))
  <1>1. "marketplace" \in Service /\ "marketplace" # "access"
    BY DEF Service
  <1>2. /\ MarketplaceExportsOrder \in P /\ MarketplaceBindProvidersParent \in P
        /\ DoAll("manifest", <<"registryBinding">>) \in P
    <2>1. /\ <<"schema", "export", "bind", "types", "slice">> \in Seq(Listed("marketplace", "manifest"))
          /\ <<"parentBinding">> \in Seq(Listed("marketplace", "manifest"))
          /\ <<"registryBinding">> \in Seq(Listed("marketplace", "manifest"))
      BY DEF Object, Listed
    <2> QED
      BY <1>1, <2>1, ListOfSteps DEF MarketplaceExportsOrder, MarketplaceBindProvidersParent
  <1>3. server \in P /\ MarketplaceGrantPlatformAdmins \in P
    <2>1. {"serverRole", "serverBinding", "adminRole", "adminBinding"}
            \subseteq {o \in Object : ~IsAPIBinding(o) /\ o # "kubeconfig"}
      BY DEF Object, IsAPIBinding
    <2> QED
      BY <1>1, <2>1, GrantSteps, NoSteps DEF If, MarketplaceGrantPlatformAdmins
  <1>5. /\ Do("read", "hash") \in P /\ Do("read", "cluster") \in P /\ Do("slice", "slice") \in P
        /\ Do("servable", "registryBinding") \in P
        /\ Uses(Do("servable", "registryBinding"), "servable")
    BY <1>1, WaitingSteps
  <1>6. path("controllers") \in P /\ path("catalog") \in P /\ path("producers") \in P
    BY <1>1, ServicePath DEF Segment
  <1> HIDE DEF path, server
  <1>7. MarketplaceBootstrap(r) \in P
    <2>1. MarketplaceBootstrap(r) = Do("read", "hash") \o Do("read", "cluster") \o MarketplaceExportsOrder \o server
      BY DEF MarketplaceBootstrap, server
    <2> QED
      BY <1>1, <1>2, <1>3, <1>5, <2>1, Together
  <1>8. MarketplaceBindCatalog \in P /\ Uses(MarketplaceBindCatalog, "servable")
    BY <1>1, <1>2, <1>5, Together, UsedIn DEF MarketplaceBindCatalog
  <1> DEFINE sofar == path("controllers") \o MarketplaceBootstrap(r) \o path("catalog") \o MarketplaceBindCatalog
             rest == sofar \o MarketplaceGrantPlatformAdmins \o path("producers") \o MarketplaceBindProvidersParent
  <1>9. MarketplaceInit(r) = rest \o Do("slice", "slice")
    BY DEF MarketplaceInit, path
  <1>10. sofar \in P /\ Uses(sofar, "servable")
    BY <1>1, <1>6, <1>7, <1>8, Together, UsedIn
  <1> HIDE DEF sofar
  <1>11. rest \in P /\ Uses(rest, "servable")
    BY <1>1, <1>2, <1>3, <1>6, <1>10, Together, UsedIn
  <1> QED
    BY <1>1, <1>5, <1>9, <1>11, Together, UsedIn

LEMMA McpProgram ==
    ASSUME NEW r
    PROVE  McpInit(r) \in Programs("mcp") /\ Uses(McpInit(r), "slice")
  <1> DEFINE P == Programs("mcp")
             path == CreateWorkspacePath(JoinWorkspacePath(Prefix("mcp"), "controllers"))
             server == If(r \in NamesServer, Grant("serverRole", "serverBinding"))
             before == path \o McpAssets \o server \o Do("read", "cluster")
  <1>1. "mcp" \in Service /\ "mcp" # "access"
    BY DEF Service
  <1>2. McpAssets \in P
    <2>1. <<"schema", "export", "instructions", "bind", "slice">> \in Seq(Listed("mcp", "manifest"))
      BY DEF Object, Listed, IsAPIBinding
    <2> QED
      BY <1>1, <2>1, ListOfSteps DEF McpAssets
  <1>3. server \in P
    <2>1. {"serverRole", "serverBinding"} \subseteq {o \in Object : ~IsAPIBinding(o) /\ o # "kubeconfig"}
      BY DEF Object, IsAPIBinding
    <2> QED
      BY <1>1, <2>1, GrantSteps, NoSteps DEF If
  <1>4. /\ Do("read", "cluster") \in P
        /\ Do("slice", "slice") \in P /\ Uses(Do("slice", "slice"), "slice")
    BY <1>1, WaitingSteps
  <1>5. path \in P
    BY <1>1, ServicePath DEF Segment
  <1>6. McpInit(r) = before \o Do("slice", "slice")
    BY DEF McpInit
  <1> HIDE DEF path, server
  <1>7. before \in P
    BY <1>1, <1>2, <1>3, <1>4, <1>5, Together
  <1> QED
    BY <1>1, <1>4, <1>6, <1>7, Together, UsedIn

(* What an init container runs is such a program, and has the waits that   *)
(* its last objects rely on.                                               *)
LEMMA ProgramFacts ==
    ASSUME service \in Service, NEW i \in Installer
    PROVE  /\ Program(i) \in Programs(service) /\ Len(Program(i)) \in Nat \ {0}
           /\ service \in {"tenancy", "marketplace"} => Uses(Program(i), "servable")
           /\ service = "access" => Uses(Program(i), "token")
  <1> DEFINE r == ReleaseOf[i]
  <1>1. /\ service = "access" => Program(i) = AccessInit(r)
        /\ service = "tenancy" => Program(i) = TenancyInit(r)
        /\ service = "marketplace" => Program(i) = MarketplaceInit(r)
        /\ service = "mcp" => Program(i) = McpInit(r)
    BY DEF Program, ProgramOf, Service
  <1> HIDE DEF r
  <1>2. /\ Program(i) \in Programs(service)
        /\ service \in {"tenancy", "marketplace"} => Uses(Program(i), "servable")
        /\ service = "access" => Uses(Program(i), "token")
        /\ service = "mcp" => Uses(Program(i), "slice")
    BY <1>1, AccessProgram, TenancyProgram, MarketplaceProgram, McpProgram DEF Service
  <1>3. \E op : Uses(Program(i), op)
    BY <1>2 DEF Service
  <1>4. Len(Program(i)) \in Nat
    BY <1>2, LenProperties DEF Programs
  <1>5. Len(Program(i)) # 0
    BY <1>3, <1>4 DEF Uses
  <1> QED
    BY <1>2, <1>4, <1>5

-----------------------------------------------------------------------------
CallPhase == {"create", "get", "update", "forbidden", "post", "patch"}

InstallerRecord == [status : {"idle", "running", "failed", "done"}, at : Nat, phase : CallPhase, tries : Nat]

InstallTypeOK == TypeOK /\ inst \in [Installer -> InstallerRecord]

(* A step has been performed: with c for the objects, what it stores is    *)
(* there, and what it waits for has come about.                            *)
Performed(c, s) ==
    /\ s.op \in Applies => c[s.obj] # "absent"
    /\ s.op = "awaitWorkspace" => s.obj \in ready
    /\ s.op = "servable" => served
    /\ s.op = "token" => token

(* ... and has brought its object to the installer's release. *)
Won(c, i, s) == s.op \in Applies /\ ~Kept(s.obj) => c[s.obj] = ReleaseOf[i]

Behind(i) == IF inst[i].status = "done" THEN 1 .. Len(Program(i))
             ELSE IF Running(i) THEN 1 .. (inst[i].at - 1) ELSE {}

(* What an installer in a phase of step s has seen is still so: nothing is *)
(* deleted, and nobody but the installer creates a binding in a solo run.  *)
PhaseOK(c, i, s, phase) ==
    /\ phase # "create" => s.op \in Applies
    /\ phase \in {"get", "update", "patch"} => c[s.obj] # "absent"
    /\ phase = "forbidden" => IsAPIBinding(s.obj) /\ (i \in solo => c[s.obj] = "absent")

BindingsAdmitted(c) == \A o \in Object : IsAPIBinding(o) /\ c[o] # "absent" => bindable

Alone == \A i \in solo, j \in Installer : j # i => ~Running(j)

InstallInv ==
    /\ InstallTypeOK /\ BindingsAdmitted(content) /\ Alone
    /\ \A i \in Installer :
         /\ Running(i) => PhaseOK(content, i, Step(i), inst[i].phase)
         /\ \A n \in Behind(i) : /\ Performed(content, Program(i)[n])
                                 /\ i \in solo => Won(content, i, Program(i)[n])

(* What a step of an installer does to the objects ... *)
Stores(i, c) ==
    \/ c = content
    \/ /\ Step(i).op \in Applies
       /\ IsAPIBinding(Step(i).obj) => bindable
       /\ c = [content EXCEPT ![Step(i).obj] = ReleaseOf[i]]

(* ... and to its progress: it fails, goes on with the step or the list it *)
(* is in, or has performed the step.                                       *)
GoesOn(i, c, x) ==
    \/ x.status = "failed" /\ x.at = 1
    \/ x.status = "running" /\ x.at = inst[i].at /\ PhaseOK(c, i, Step(i), x.phase)
    \/ /\ x.status = "running" /\ x.phase = "create"
       /\ Step(i).op = "asset" /\ x.at = inst[i].at - Step(i).back
    \/ /\ Performed(c, Step(i)) /\ (i \in solo => Won(c, i, Step(i)))
       /\ IF inst[i].at = Len(Program(i))
          THEN x.status = "done" /\ x.at = 1
          ELSE x.status = "running" /\ x.at = inst[i].at + 1 /\ x.phase = "create"

Moves(i) ==
    /\ UNCHANGED <<service, solo, ready, bindable, served, token>> /\ created \subseteq created'
    /\ latest' \subseteq Installer
    /\ Stores(i, content')
    /\ \E x \in InstallerRecord : inst' = [inst EXCEPT ![i] = x] /\ GoesOn(i, content', x)

LEMMA StepKnown ==
    ASSUME InstallInv, NEW i \in Installer, Running(i)
    PROVE  /\ Step(i) \in StepRecord /\ inst[i] \in InstallerRecord
           /\ inst[i].at \in 1 .. Len(Program(i)) /\ Len(Program(i)) \in Nat
           /\ Legal(service, Step(i), inst[i].at)
           /\ PhaseOK(content, i, Step(i), inst[i].phase)
           /\ Step(i).op \in Applies => content[Step(i).obj] \in Content
           /\ ReleaseOf[i] \in Content \ {"absent", "default"}
  <1>1. service \in Service /\ inst[i] \in InstallerRecord /\ inst[i].at \in 1 .. Len(Program(i))
    BY DEF InstallInv, InstallTypeOK, TypeOK
  <1>2. Program(i) \in Programs(service) /\ Len(Program(i)) \in Nat
    BY <1>1, ProgramFacts
  <1>3. Program(i) \in Seq(StepRecord) /\ \A n \in 1 .. Len(Program(i)) : Legal(service, Program(i)[n], n)
    BY <1>2 DEF Programs
  <1>4. Step(i) \in StepRecord
    BY <1>1, <1>3, ElementOfSeq DEF Step
  <1>5. Legal(service, Step(i), inst[i].at)
    BY <1>1, <1>3 DEF Step
  <1>6. Step(i).op \in Applies => content[Step(i).obj] \in Content
    BY <1>5 DEF Legal, InstallInv, InstallTypeOK, TypeOK
  <1>7. ReleaseOf[i] \in Content \ {"absent", "default"}
    BY InstallationAssumption DEF Content
  <1>8. PhaseOK(content, i, Step(i), inst[i].phase)
    BY DEF InstallInv
  <1> QED
    BY <1>1, <1>2, <1>4, <1>5, <1>6, <1>7, <1>8

\* What the ways to go on leave in an installer's record.
LEMMA WaysOn ==
    ASSUME InstallInv, NEW i \in Installer, Running(i)
    PROVE  /\ \A phase \in CallPhase : Goto(i, phase) =>
                \E x \in InstallerRecord : /\ inst' = [inst EXCEPT ![i] = x] /\ x.status = "running"
                                    /\ x.at = inst[i].at /\ x.phase = phase
           /\ Fail(i) => \E x \in InstallerRecord : /\ inst' = [inst EXCEPT ![i] = x]
                                             /\ x.status = "failed" /\ x.at = 1
           /\ Conflict(i) /\ ~Fail(i) =>
                \E x \in InstallerRecord : /\ inst' = [inst EXCEPT ![i] = x] /\ x.status = "running"
                                    /\ x.at = inst[i].at /\ x.phase = "get"
           /\ Step(i).op = "asset" /\ Restart(i) =>
                \E x \in InstallerRecord : /\ inst' = [inst EXCEPT ![i] = x] /\ x.status = "running"
                                    /\ x.at = inst[i].at - Step(i).back /\ x.phase = "create"
           /\ Advance(i) =>
                \E x \in InstallerRecord : /\ inst' = [inst EXCEPT ![i] = x]
                                    /\ IF inst[i].at = Len(Program(i))
                                       THEN x.status = "done" /\ x.at = 1
                                       ELSE x.status = "running" /\ x.at = inst[i].at + 1 /\ x.phase = "create"
  <1>1. inst \in [Installer -> InstallerRecord] /\ inst[i] \in InstallerRecord
    BY DEF InstallInv, InstallTypeOK
  <1>2. inst[i].at \in Nat /\ inst[i].status = "running" /\ Idle \in InstallerRecord
    BY <1>1 DEF InstallerRecord, CallPhase, Idle, Running
  <1>3. ASSUME NEW phase \in CallPhase, Goto(i, phase)
        PROVE  \E x \in InstallerRecord : /\ inst' = [inst EXCEPT ![i] = x] /\ x.status = "running"
                                   /\ x.at = inst[i].at /\ x.phase = phase
    <2>1. PICK x \in InstallerRecord : x = [inst[i] EXCEPT !.phase = phase]
      BY <1>1 DEF InstallerRecord
    <2>2. x.status = "running" /\ x.at = inst[i].at /\ x.phase = phase
      BY <1>1, <1>2, <2>1 DEF InstallerRecord
    <2>3. inst' = [inst EXCEPT ![i] = x]
      BY <1>1, <1>3, <2>1 DEF Goto
    <2> QED
      BY <2>2, <2>3
  <1>4. ASSUME Fail(i)
        PROVE  \E x \in InstallerRecord : inst' = [inst EXCEPT ![i] = x] /\ x.status = "failed" /\ x.at = 1
    <2>1. PICK x \in InstallerRecord : x = [Idle EXCEPT !.status = "failed"]
      BY <1>2 DEF InstallerRecord
    <2>2. x.status = "failed" /\ x.at = 1
      BY <2>1 DEF Idle
    <2>3. inst' = [inst EXCEPT ![i] = x]
      BY <1>1, <1>4, <2>1 DEF Fail
    <2> QED
      BY <2>2, <2>3
  <1>5. ASSUME Step(i).op = "asset", Restart(i)
        PROVE  \E x \in InstallerRecord : /\ inst' = [inst EXCEPT ![i] = x] /\ x.status = "running"
                                   /\ x.at = inst[i].at - Step(i).back /\ x.phase = "create"
    <2>1. PICK start \in Nat : start = inst[i].at - Step(i).back
      <3>1. Step(i).back \in Nat /\ Step(i).back < inst[i].at
        BY <1>5, StepKnown DEF StepRecord, Legal
      <3> QED
        BY <1>2, <3>1
    <2>2. PICK x \in InstallerRecord : x = [Idle EXCEPT !.status = "running", !.at = start]
      BY <1>2 DEF InstallerRecord
    <2>3. x.status = "running" /\ x.at = start /\ x.phase = "create"
      BY <2>2 DEF Idle
    <2>4. inst' = [inst EXCEPT ![i] = x]
      BY <1>1, <1>5, <2>1, <2>2 DEF Restart
    <2> QED
      BY <2>1, <2>3, <2>4
  <1>6. ASSUME Advance(i)
        PROVE  \E x \in InstallerRecord : /\ inst' = [inst EXCEPT ![i] = x]
                                   /\ IF inst[i].at = Len(Program(i))
                                      THEN x.status = "done" /\ x.at = 1
                                      ELSE x.status = "running" /\ x.at = inst[i].at + 1 /\ x.phase = "create"
    <2>1. PICK x \in InstallerRecord :
            x = IF inst[i].at = Len(Program(i))
                THEN [Idle EXCEPT !.status = "done"]
                ELSE [Idle EXCEPT !.status = "running", !.at = inst[i].at + 1]
      <3>1. inst[i].at + 1 \in Nat
        BY <1>2
      <3>2. [Idle EXCEPT !.status = "done"] \in InstallerRecord
        BY <1>2 DEF InstallerRecord
      <3>3. [Idle EXCEPT !.status = "running", !.at = inst[i].at + 1] \in InstallerRecord
        BY <1>2, <3>1 DEF InstallerRecord
      <3> QED
        BY <3>2, <3>3
    <2>2. IF inst[i].at = Len(Program(i))
          THEN x.status = "done" /\ x.at = 1
          ELSE x.status = "running" /\ x.at = inst[i].at + 1 /\ x.phase = "create"
      BY <2>1 DEF Idle
    <2>3. inst' = [inst EXCEPT ![i] = x]
      BY <1>1, <1>6, <2>1 DEF Advance
    <2> QED
      BY <2>2, <2>3
  <1>7. ASSUME Conflict(i), ~Fail(i)
        PROVE  \E x \in InstallerRecord : /\ inst' = [inst EXCEPT ![i] = x] /\ x.status = "running"
                                   /\ x.at = inst[i].at /\ x.phase = "get"
    <2>1. PICK x \in InstallerRecord : x = [inst[i] EXCEPT !.phase = "get", !.tries = inst[i].tries + 1]
      <3>1. inst[i].tries + 1 \in Nat
        BY <1>1 DEF InstallerRecord
      <3> QED
        BY <1>1, <3>1 DEF InstallerRecord, CallPhase
    <2>2. x.status = "running" /\ x.at = inst[i].at /\ x.phase = "get"
      BY <1>1, <1>2, <2>1 DEF InstallerRecord
    <2>3. inst' = [inst EXCEPT ![i] = x]
      BY <1>1, <1>7, <2>1 DEF Conflict
    <2> QED
      BY <2>2, <2>3
  <1> QED
    BY <1>3, <1>4, <1>5, <1>6, <1>7

\* What is left by storing, and by not storing.
LEMMA Storings ==
    ASSUME InstallInv, NEW i \in Installer, Running(i)
    PROVE  /\ WritesNothing => content' = content /\ latest' \subseteq Installer
           /\ WritesNothing /\ Step(i).op \in Applies /\ content[Step(i).obj] # "absent" =>
                Performed(content', Step(i)) /\ (Kept(Step(i).obj) => Won(content', i, Step(i)))
           /\ Write(i) /\ Step(i).op \in Applies =>
                /\ content' = [content EXCEPT ![Step(i).obj] = ReleaseOf[i]]
                /\ latest' \subseteq Installer
                /\ Performed(content', Step(i)) /\ Won(content', i, Step(i))
  <1>1. latest \subseteq Installer /\ content \in [Object -> Content]
    BY DEF InstallInv, InstallTypeOK, TypeOK
  <1>2. Step(i).op \in Applies => Step(i).obj \in Object
    BY StepKnown DEF Legal
  <1>3. ReleaseOf[i] # "absent"
    BY StepKnown
  <1>4. WritesNothing => content' = content /\ latest' \subseteq Installer
    BY <1>1 DEF WritesNothing
  <1>5. ASSUME WritesNothing, Step(i).op \in Applies, content[Step(i).obj] # "absent"
        PROVE  Performed(content', Step(i)) /\ (Kept(Step(i).obj) => Won(content', i, Step(i)))
    BY <1>4, <1>5 DEF Performed, Won, Applies
  <1>6. ASSUME Write(i), Step(i).op \in Applies
        PROVE  /\ content' = [content EXCEPT ![Step(i).obj] = ReleaseOf[i]]
               /\ latest' \subseteq Installer
               /\ content'[Step(i).obj] = ReleaseOf[i]
    BY <1>1, <1>2, <1>6 DEF Write, Store
  <1>7. ASSUME Write(i), Step(i).op \in Applies
        PROVE  Performed(content', Step(i)) /\ Won(content', i, Step(i))
    BY <1>3, <1>6, <1>7 DEF Performed, Won, Applies
  <1> QED
    BY <1>4, <1>5, <1>6, <1>7

\* What a call may do, put together.
LEMMA Composed ==
    ASSUME InstallInv, NEW i \in Installer, Running(i),
           UNCHANGED <<service, solo, ready, bindable, served, token>>, created \subseteq created',
           \/ WritesNothing
           \/ Write(i) /\ Step(i).op \in Applies /\ (IsAPIBinding(Step(i).obj) => bindable),
           \/ \E phase \in CallPhase : Goto(i, phase) /\ PhaseOK(content', i, Step(i), phase)
           \/ Fail(i)
           \/ Conflict(i) /\ PhaseOK(content', i, Step(i), "get")
           \/ Step(i).op = "asset" /\ Restart(i)
           \/ /\ Advance(i) /\ Performed(content', Step(i))
              /\ i \in solo => Won(content', i, Step(i))
    PROVE  Moves(i)
  <1>1. Stores(i, content') /\ latest' \subseteq Installer
    BY Storings DEF Stores
  <1>2. \E x \in InstallerRecord : inst' = [inst EXCEPT ![i] = x] /\ GoesOn(i, content', x)
    BY WaysOn DEF GoesOn
  <1> QED
    BY <1>1, <1>2 DEF Moves

LEMMA ReadMoves ==
    ASSUME InstallInv, NEW i \in Installer, Running(i), GetForUpdate(i),
           UNCHANGED <<service, solo, ready, bindable, served, token>>, created \subseteq created',
           PhaseOK(content', i, Step(i), "update")
    PROVE  Moves(i)
  <1>1. Stores(i, content') /\ latest' \subseteq Installer
    BY DEF Stores, GetForUpdate, InstallInv, InstallTypeOK, TypeOK
  <1>2. "update" \in CallPhase /\ Goto(i, "update")
    BY DEF CallPhase, GetForUpdate
  <1>3. \E x \in InstallerRecord : inst' = [inst EXCEPT ![i] = x] /\ GoesOn(i, content', x)
    BY <1>2, WaysOn DEF GoesOn
  <1> QED
    BY <1>1, <1>3 DEF Moves

LEMMA ManifestMoves ==
    ASSUME InstallInv, NEW i \in Installer, Running(i), UNCHANGED <<service, solo>>,
           ApplyManifest(i) \/ RetryForbiddenBinding(i)
    PROVE  Moves(i)
  <1> DEFINE o == Step(i).obj
  <1>1. /\ Step(i).op = "manifest" /\ Step(i).op \in Applies /\ o \in Object
        /\ UNCHANGED <<ready, bindable, served, token>> /\ created \subseteq created'
    BY StepKnown DEF ApplyManifest, RetryForbiddenBinding, At, kcpVars, Legal, Applies
  <1>2. Kept(o) <=> MayRefuseUpdate(o)
    BY <1>1, StepKnown DEF Kept, Legal
  <1>3. /\ PhaseOK(content, i, Step(i), inst[i].phase)
        /\ IsAPIBinding(o) /\ content[o] # "absent" => bindable
    BY <1>1, StepKnown DEF InstallInv, BindingsAdmitted
  <1>4. \A phase \in {"get", "update", "forbidden"} : phase \in CallPhase
    BY DEF CallPhase
  <1> HIDE DEF o
  <1>5. \A phase \in {"get", "update"} :
          PhaseOK(content', i, Step(i), phase) <=> content'[o] # "absent"
    BY <1>1 DEF PhaseOK, o
  <1>6. CASE inst[i].phase = "create" /\ Admitted(o) /\ content[o] = "absent" /\ Write(i) /\ Advance(i)
    <2>1. IsAPIBinding(o) => bindable
      BY <1>6 DEF Admitted
    <2> QED
      BY <1>1, <1>6, <2>1, Storings, Composed DEF o
  <1>7. CASE content[o] # "absent" /\ WritesNothing /\ Goto(i, "get")
    <2>1. PhaseOK(content', i, Step(i), "get")
      BY <1>5, <1>7 DEF WritesNothing
    <2> QED
      BY <1>1, <1>4, <1>7, <2>1, Composed
  <1>8. CASE GetForUpdate(i)
    <2>1. content[o] # "absent"
      BY <1>3, <1>8 DEF PhaseOK, GetForUpdate, o
    <2>2. PhaseOK(content', i, Step(i), "update")
      BY <1>5, <1>8, <2>1 DEF GetForUpdate
    <2> QED
      BY <1>1, <1>4, <1>8, <2>2, ReadMoves DEF GetForUpdate
  <1>9. CASE inst[i].phase = "update" /\ Conflict(i)
    <2>1. PhaseOK(content', i, Step(i), "get")
      BY <1>3, <1>5, <1>9 DEF PhaseOK, Conflict, WritesNothing, o
    <2> QED
      BY <1>1, <1>9, <2>1, Composed DEF Conflict
  <1>10. CASE inst[i].phase = "update" /\ Advance(i) /\ MayRefuseUpdate(o) /\ WritesNothing
    <2>1. content[o] # "absent"
      BY <1>3, <1>10 DEF PhaseOK, o
    <2> QED
      BY <1>1, <1>2, <1>10, <2>1, Storings, Composed DEF o
  <1>11. CASE inst[i].phase = "update" /\ Advance(i) /\ Write(i)
    <2>1. IsAPIBinding(o) => bindable
      BY <1>3, <1>11 DEF PhaseOK, o
    <2> QED
      BY <1>1, <1>11, <2>1, Storings, Composed DEF o
  <1>12. CASE IsAPIBinding(o) /\ ~Admitted(o) /\ Goto(i, "forbidden") /\ WritesNothing
    <2>1. PhaseOK(content', i, Step(i), "forbidden")
      BY <1>1, <1>3, <1>12 DEF PhaseOK, Admitted, WritesNothing, o
    <2> QED
      BY <1>1, <1>4, <1>12, <2>1, Composed
  <1>13. CASE inst[i].phase = "forbidden" /\ Admitted(o) /\ Advance(i) /\ content[o] = "absent" /\ Write(i)
    <2>1. IsAPIBinding(o) => bindable
      BY <1>13 DEF Admitted
    <2> QED
      BY <1>1, <1>13, <2>1, Storings, Composed DEF o
  <1>14. CASE inst[i].phase = "forbidden" /\ Advance(i) /\ content[o] # "absent" /\ WritesNothing
    <2>1. i \notin solo
      BY <1>3, <1>14 DEF PhaseOK, o
    <2> QED
      BY <1>1, <1>14, <2>1, Storings, Composed DEF o
  <1> QED
    BY <1>6, <1>7, <1>8, <1>9, <1>10, <1>11, <1>12, <1>13, <1>14 DEF ApplyManifest, RetryForbiddenBinding, o

LEMMA RoleMoves ==
    ASSUME InstallInv, NEW i \in Installer, Running(i), UNCHANGED <<service, solo>>, RoleOrBinding(i)
    PROVE  Moves(i)
  <1> DEFINE o == Step(i).obj
  <1>1. /\ Step(i).op = "role" /\ Step(i).op \in Applies /\ ~IsAPIBinding(o)
        /\ UNCHANGED <<ready, bindable, served, token>> /\ created \subseteq created'
    BY StepKnown DEF RoleOrBinding, At, kcpVars, Legal, Applies
  <1>2. PhaseOK(content, i, Step(i), inst[i].phase)
    BY StepKnown
  <1>3. "get" \in CallPhase
    BY DEF CallPhase
  <1> HIDE DEF o
  <1>4. \A phase \in {"get", "update"} :
          PhaseOK(content', i, Step(i), phase) <=> content'[o] # "absent"
    BY <1>1 DEF PhaseOK, o
  <1>5. CASE Write(i) /\ Advance(i)
    BY <1>1, <1>5, Storings, Composed DEF o
  <1>6. CASE content[o] # "absent" /\ WritesNothing /\ Goto(i, "get")
    <2>1. PhaseOK(content', i, Step(i), "get")
      BY <1>4, <1>6 DEF WritesNothing
    <2> QED
      BY <1>1, <1>3, <1>6, <2>1, Composed
  <1>7. CASE GetForUpdate(i)
    <2>1. content[o] # "absent"
      BY <1>2, <1>7 DEF PhaseOK, GetForUpdate, o
    <2>2. PhaseOK(content', i, Step(i), "update")
      BY <1>4, <1>7, <2>1 DEF GetForUpdate
    <2> QED
      BY <1>1, <1>7, <2>2, ReadMoves DEF GetForUpdate
  <1>8. CASE inst[i].phase = "update" /\ Conflict(i)
    <2>1. PhaseOK(content', i, Step(i), "get")
      BY <1>2, <1>4, <1>8 DEF PhaseOK, Conflict, WritesNothing, o
    <2> QED
      BY <1>1, <1>8, <2>1, Composed DEF Conflict
  <1> QED
    BY <1>5, <1>6, <1>7, <1>8 DEF RoleOrBinding, o

LEMMA KubeconfigMoves ==
    ASSUME InstallInv, NEW i \in Installer, Running(i), UNCHANGED <<service, solo>>, AccessKubeconfig(i)
    PROVE  Moves(i)
  <1> DEFINE o == Step(i).obj
  <1>1. /\ Step(i).op = "secret" /\ Step(i).op \in Applies /\ ~IsAPIBinding(o) /\ o = "kubeconfig"
        /\ UNCHANGED <<ready, bindable, served, token>> /\ created \subseteq created'
    BY StepKnown DEF AccessKubeconfig, At, kcpVars, Legal, Applies
  <1>2. PhaseOK(content, i, Step(i), inst[i].phase)
    BY StepKnown
  <1>3. "get" \in CallPhase
    BY DEF CallPhase
  <1> HIDE DEF o
  <1>4. \A phase \in {"get", "update"} :
          PhaseOK(content', i, Step(i), phase) <=> content'[o] # "absent"
    BY <1>1 DEF PhaseOK, o
  <1>5. CASE Write(i) /\ Advance(i)
    BY <1>1, <1>5, Storings, Composed DEF o
  <1>6. CASE content[o] # "absent" /\ WritesNothing /\ Goto(i, "get")
    <2>1. PhaseOK(content', i, Step(i), "get")
      BY <1>4, <1>6 DEF WritesNothing
    <2> QED
      BY <1>1, <1>3, <1>6, <2>1, Composed
  <1>7. CASE GetForUpdate(i)
    <2>1. content[o] # "absent"
      BY <1>2, <1>7 DEF PhaseOK, GetForUpdate, o
    <2>2. PhaseOK(content', i, Step(i), "update")
      BY <1>4, <1>7, <2>1 DEF GetForUpdate
    <2> QED
      BY <1>1, <1>7, <2>2, ReadMoves DEF GetForUpdate
  <1>8. CASE WritesNothing /\ Fail(i)
    BY <1>1, <1>8, Composed
  <1> QED
    BY <1>1, <1>5, <1>6, <1>7, <1>8 DEF AccessKubeconfig

LEMMA AssetMoves ==
    ASSUME InstallInv, NEW i \in Installer, Running(i), UNCHANGED <<service, solo>>,
           AccessApplyResource(i)
    PROVE  Moves(i)
  <1> DEFINE o == Step(i).obj
  <1>1. /\ Step(i).op = "asset" /\ Step(i).op \in Applies /\ ~IsAPIBinding(o)
        /\ service = "access"
        /\ UNCHANGED <<ready, bindable, served, token>> /\ created \subseteq created'
    BY StepKnown DEF AccessApplyResource, At, kcpVars, Legal, Applies
  <1>2. {"post", "patch"} \subseteq CallPhase
    BY DEF CallPhase
  <1>3. Kept(o) <=> o = "schema"
    BY <1>1 DEF Kept
  <1> HIDE DEF o
  <1>4. /\ PhaseOK(content', i, Step(i), "post")
        /\ content'[o] # "absent" => PhaseOK(content', i, Step(i), "patch")
    BY <1>1 DEF PhaseOK, o
  <1>5. CASE Write(i) /\ Advance(i)
    BY <1>1, <1>5, Storings, Composed DEF o
  <1>6. CASE o = "schema" /\ Advance(i) /\ content[o] # "absent" /\ WritesNothing
    BY <1>1, <1>3, <1>6, Storings, Composed DEF o
  <1>7. CASE Goto(i, IF content[o] = "absent" THEN "post" ELSE "patch") /\ WritesNothing
    <2>1. CASE content[o] = "absent"
      BY <1>1, <1>2, <1>4, <1>7, <2>1, Composed
    <2>2. CASE content[o] # "absent"
      <3>1. content'[o] # "absent" /\ Goto(i, "patch")
        BY <1>7, <2>2 DEF WritesNothing
      <3> QED
        BY <1>1, <1>2, <1>4, <1>7, <3>1, Composed
    <2> QED
      BY <2>1, <2>2
  <1>8. CASE WritesNothing /\ Restart(i)
    BY <1>1, <1>8, Composed
  <1> QED
    BY <1>5, <1>6, <1>7, <1>8 DEF AccessApplyResource, o

\* Reading, waiting, creating workspaces.
LEMMA WaitMoves ==
    ASSUME InstallInv, NEW i \in Installer, Running(i), UNCHANGED <<service, solo>>,
           \/ CreateWorkspace(i) \/ WaitForWorkspaceReady(i) \/ Servable(i)
           \/ Read(i) \/ ReportSlice(i) \/ AccessWaitForToken(i)
    PROVE  Moves(i)
  <1>1. /\ WritesNothing /\ Advance(i)
        /\ UNCHANGED <<ready, bindable, served, token>> /\ created \subseteq created'
    BY DEF CreateWorkspace, WaitForWorkspaceReady, Servable, Read, ReportSlice, AccessWaitForToken, kcpVars
  <1>2. Performed(content', Step(i)) /\ Won(content', i, Step(i))
    BY DEF CreateWorkspace, WaitForWorkspaceReady, Servable, Read, ReportSlice, AccessWaitForToken,
           At, Performed, Won, Applies
  <1> QED
    BY <1>1, <1>2, Composed

LEMMA StepMoves ==
    ASSUME InstallInv, NEW i \in Installer, InstallerStep(i)
    PROVE  Running(i) /\ Moves(i)
  <1>1. Running(i) /\ UNCHANGED <<service, solo>>
    BY DEF InstallerStep
  <1>2. \/ ApplyManifest(i) \/ RetryForbiddenBinding(i) \/ RoleOrBinding(i)
        \/ AccessKubeconfig(i) \/ AccessApplyResource(i)
        \/ CreateWorkspace(i) \/ WaitForWorkspaceReady(i) \/ Servable(i)
        \/ Read(i) \/ ReportSlice(i) \/ AccessWaitForToken(i)
    BY DEF InstallerStep, AccessPreflight, AccessExportsClusterRef, AccessWaitForEndpointSlice,
           TenancyIdentityHash, TenancyLogicalClusterName, TenancyApplyManifests,
           TenancyApplyRoleAndBinding, TenancyWaitForTenantAPI, TenancyWaitForEndpointSlice,
           MarketplaceIdentityHash, MarketplaceLogicalClusterName, MarketplaceApplyManifests,
           MarketplaceApplyRoleAndBinding, MarketplaceWaitForProducerAPI,
           MarketplaceWaitForEndpointSlice, McpApplyManifest, McpApplyServerIdentity,
           McpLogicalClusterOf, McpSliceURLs
  <1> QED
    BY <1>1, <1>2, ManifestMoves, RoleMoves, KubeconfigMoves, AssetMoves, WaitMoves

\* A call that fails may have stored its object all the same.
LEMMA FaultMoves ==
    ASSUME InstallInv, NEW i \in Installer, Fault(i)
    PROVE  Running(i) /\ Moves(i)
  <1>1. /\ Running(i) /\ UNCHANGED <<service, solo, ready, bindable, served, token>>
        /\ created \subseteq created'
    BY DEF Fault, kcpVars
  <1>2. Step(i).op \in Applies => Step(i).obj \in Object
    BY <1>1, StepKnown DEF Legal
  <1>3. PhaseOK(content, i, Step(i), inst[i].phase)
    BY <1>1, StepKnown
  <1>4. ASSUME Storing(i) PROVE Step(i).op \in Applies /\ (IsAPIBinding(Step(i).obj) => bindable)
    <2>1. Step(i).op \in Applies
      BY <1>4 DEF Storing, Applies
    <2>2. \/ content[Step(i).obj] # "absent"
          \/ Admitted(Step(i).obj)
      BY <1>3, <1>4 DEF Storing, PhaseOK
    <2> QED
      BY <1>2, <2>1, <2>2 DEF Admitted, InstallInv, BindingsAdmitted
  <1>5. \/ WritesNothing
        \/ Write(i) /\ Step(i).op \in Applies /\ (IsAPIBinding(Step(i).obj) => bindable)
    BY <1>4 DEF Fault
  <1>6. Fail(i) \/ (Step(i).op = "asset" /\ Restart(i))
    BY DEF Fault
  <1> QED
    BY <1>1, <1>5, <1>6, Composed

LEMMA BehindLegal ==
    ASSUME InstallInv, NEW j \in Installer, NEW n \in Behind(j)
    PROVE  /\ n \in 1 .. Len(Program(j)) /\ Program(j)[n] \in StepRecord
           /\ Legal(service, Program(j)[n], n)
  <1>1. service \in Service /\ inst[j] \in InstallerRecord /\ inst[j].at \in 1 .. Len(Program(j))
    BY DEF InstallInv, InstallTypeOK, TypeOK
  <1>2. Program(j) \in Programs(service) /\ Len(Program(j)) \in Nat
    BY <1>1, ProgramFacts
  <1>3. n \in 1 .. Len(Program(j))
    BY <1>1, <1>2 DEF Behind
  <1> QED
    BY <1>2, <1>3, ElementOfSeq DEF Programs

(* What may happen to the objects while others are at work: none goes, and *)
(* a binding is admitted.                                                  *)
Grows(c) ==
    /\ c \in [Object -> Content]
    /\ \A o \in Object : content[o] # "absent" => c[o] # "absent"
    /\ BindingsAdmitted(c)

LEMMA StoresGrow ==
    ASSUME InstallInv, NEW i \in Installer, Running(i), NEW c, Stores(i, c)
    PROVE  Grows(c) /\ \A o \in Object : c[o] = content[o] \/ c[o] = ReleaseOf[i]
  <1>1. content \in [Object -> Content] /\ BindingsAdmitted(content)
    BY DEF InstallInv, InstallTypeOK, TypeOK
  <1>2. ReleaseOf[i] \in Content \ {"absent"}
    BY StepKnown
  <1>3. CASE c = content
    BY <1>1, <1>3 DEF Grows
  <1>4. CASE /\ IsAPIBinding(Step(i).obj) => bindable
             /\ c = [content EXCEPT ![Step(i).obj] = ReleaseOf[i]]
    <2>1. c \in [Object -> Content]
      BY <1>1, <1>2, <1>4
    <2>2. \A o \in Object : IF o = Step(i).obj THEN c[o] = ReleaseOf[i] ELSE c[o] = content[o]
      BY <1>1, <1>4
    <2>3. BindingsAdmitted(c)
      BY <1>1, <1>4, <2>2 DEF BindingsAdmitted
    <2> QED
      BY <1>2, <2>1, <2>2, <2>3 DEF Grows
  <1> QED
    BY <1>3, <1>4 DEF Stores

\* What an installer that does not move knows stays known.
LEMMA OthersKeep ==
    ASSUME InstallInv, NEW j \in Installer, Grows(content'),
           UNCHANGED <<service, inst[j]>>, ready \subseteq ready',
           served => served', token => token',
           j \in solo' => j \in solo /\ \A o \in Object :
             /\ content[o] # "absent" => content'[o] = content[o]
             /\ IsAPIBinding(o) => content'[o] = content[o]
    PROVE  /\ Running(j)' => PhaseOK(content, j, Step(j), inst[j].phase)'
           /\ \A n \in Behind(j)' : /\ Performed(content, Program(j)[n])'
                                    /\ j \in solo' => Won(content, j, Program(j)[n])'
  <1>1. /\ Running(j)' <=> Running(j)
        /\ Step(j)' = Step(j) /\ Program(j)' = Program(j) /\ Behind(j)' = Behind(j)
    BY DEF Running, Step, Program, Behind
  <1>2. ASSUME Running(j) PROVE PhaseOK(content, j, Step(j), inst[j].phase)'
    <2>1. PhaseOK(content, j, Step(j), inst[j].phase) /\ (Step(j).op \in Applies => Step(j).obj \in Object)
      BY <1>2, StepKnown DEF Legal
    <2>2. inst[j].phase \in CallPhase
      BY DEF InstallInv, InstallTypeOK, InstallerRecord
    <2> QED
      BY <1>1, <2>1, <2>2 DEF PhaseOK, Grows, CallPhase
  <1>3. ASSUME NEW n \in Behind(j)
        PROVE  /\ Performed(content, Program(j)[n])'
               /\ j \in solo' => Won(content, j, Program(j)[n])'
    <2>1. PICK s \in StepRecord : s = Program(j)[n] /\ (s.op \in Applies => s.obj \in Object)
      BY <1>3, BehindLegal DEF Legal
    <2>2. Performed(content, s) /\ (j \in solo => Won(content, j, s))
      BY <1>3, <2>1 DEF InstallInv
    <2>3. Performed(content, s)'
      BY <2>1, <2>2 DEF Performed, Grows
    <2>4. j \in solo' => Won(content, j, s)'
      BY <2>1, <2>2 DEF Performed, Won, Kept
    <2> QED
      BY <1>1, <2>1, <2>3, <2>4
  <1> QED
    BY <1>1, <1>2, <1>3

\* What the installer that moves has behind it.
LEMMA MoverKeeps ==
    ASSUME InstallInv, NEW i \in Installer, Running(i), Moves(i)
    PROVE  /\ Running(i)' => PhaseOK(content, i, Step(i), inst[i].phase)'
           /\ \A n \in Behind(i)' : /\ Performed(content, Program(i)[n])'
                                    /\ i \in solo' => Won(content, i, Program(i)[n])'
           /\ inst'[i].at \in 1 .. Len(Program(i))
  <1>1. /\ UNCHANGED <<service, solo, ready, bindable, served, token>>
        /\ Grows(content') /\ \A o \in Object : content'[o] = content[o] \/ content'[o] = ReleaseOf[i]
    BY StoresGrow DEF Moves
  <1>2. PICK x \in InstallerRecord : inst' = [inst EXCEPT ![i] = x] /\ GoesOn(i, content', x)
    BY DEF Moves
  <1>3. inst'[i] = x
    BY <1>2 DEF InstallInv, InstallTypeOK
  <1>4. PICK at \in Nat : at = inst[i].at
    BY DEF InstallInv, InstallTypeOK, InstallerRecord
  <1>5. PICK len \in Nat : len = Len(Program(i)) /\ at \in 1 .. len
    BY <1>4, StepKnown
  <1>6. Program(i)' = Program(i) /\ Behind(i) = 1 .. (at - 1) /\ Step(i) = Program(i)[at]
    BY <1>1, <1>4 DEF Program, Behind, Running, Step
  <1>7. /\ Running(i)' <=> x.status = "running"
        /\ Step(i)' = Program(i)[x.at]
        /\ Behind(i)' = IF x.status = "done" THEN 1 .. len
                        ELSE IF x.status = "running" THEN 1 .. (x.at - 1) ELSE {}
    BY <1>3, <1>5, <1>6 DEF Running, Step, Behind
  <1> DEFINE StillSo(n) == /\ Performed(content', Program(i)[n])
                           /\ i \in solo => Won(content', i, Program(i)[n])
  <1>8. ASSUME NEW n \in 1 .. (at - 1) PROVE StillSo(n)
    <2>1. PICK s \in StepRecord : s = Program(i)[n] /\ (s.op \in Applies => s.obj \in Object)
      BY <1>6, BehindLegal DEF Legal
    <2>2. Performed(content, s) /\ (i \in solo => Won(content, i, s))
      BY <1>6, <2>1 DEF InstallInv
    <2>3. Performed(content', s)
      BY <1>1, <2>1, <2>2 DEF Performed, Grows
    <2>4. i \in solo => Won(content', i, s)
      BY <1>1, <2>1, <2>2 DEF Won, Kept
    <2> QED
      BY <2>1, <2>3, <2>4
  <1>9. \A s : /\ Performed(content', s) => Performed(content, s)'
               /\ Won(content', i, s) => Won(content, i, s)'
               /\ \A phase : PhaseOK(content', i, s, phase) => PhaseOK(content, i, s, phase)'
    BY <1>1 DEF Performed, Won, PhaseOK, Kept
  <1>10. \A s : PhaseOK(content, i, s, "create")'
    BY DEF PhaseOK
  <1>11. ASSUME NEW n, StillSo(n)
         PROVE  /\ Performed(content, Program(i)[n])'
                /\ i \in solo' => Won(content, i, Program(i)[n])'
    <2>1. PICK s : s = Program(i)[n]
      OBVIOUS
    <2>2. Performed(content, s)' /\ (i \in solo' => Won(content, i, s)')
      BY <1>1, <1>9, <1>11, <2>1
    <2> QED
      BY <1>6, <2>1, <2>2
  <1> HIDE DEF StillSo
  <1>12. CASE x.status = "failed" /\ x.at = 1
    BY <1>3, <1>5, <1>7, <1>12
  <1>13. CASE x.status = "running" /\ x.at = at /\ PhaseOK(content', i, Step(i), x.phase)
    <2>1. PhaseOK(content, i, Step(i), inst[i].phase)'
      BY <1>3, <1>6, <1>7, <1>9, <1>13
    <2>2. Behind(i)' = 1 .. (at - 1) /\ inst'[i].at \in 1 .. Len(Program(i))
      BY <1>3, <1>5, <1>7, <1>13
    <2>3. \A n \in Behind(i)' : StillSo(n)
      BY <1>8, <2>2
    <2> QED
      BY <1>11, <2>1, <2>2, <2>3
  <1>14. CASE x.status = "running" /\ x.phase = "create" /\ Step(i).op = "asset" /\ x.at = at - Step(i).back
    <2>1. PICK back \in Nat : back = Step(i).back /\ back < at
      BY <1>4, <1>14, StepKnown DEF Legal, StepRecord
    <2>2. x.at \in 1 .. len /\ 1 .. (x.at - 1) \subseteq 1 .. (at - 1)
      BY <1>5, <1>14, <2>1
    <2>3. PhaseOK(content, i, Step(i), inst[i].phase)'
      BY <1>3, <1>10, <1>14
    <2>4. Behind(i)' \subseteq 1 .. (at - 1) /\ inst'[i].at \in 1 .. Len(Program(i))
      BY <1>3, <1>5, <1>7, <1>14, <2>2
    <2>5. \A n \in Behind(i)' : StillSo(n)
      BY <1>8, <2>4
    <2> QED
      BY <1>11, <2>3, <2>4, <2>5
  <1>15. CASE /\ Performed(content', Step(i)) /\ (i \in solo => Won(content', i, Step(i)))
              /\ IF at = len
                 THEN x.status = "done" /\ x.at = 1
                 ELSE x.status = "running" /\ x.at = at + 1 /\ x.phase = "create"
    <2>1. StillSo(at)
      BY <1>6, <1>15 DEF StillSo
    <2>2. \A n \in 1 .. at : StillSo(n)
      <3>1. \A n \in 1 .. at : n = at \/ n \in 1 .. (at - 1)
        BY <1>4
      <3> QED
        BY <1>8, <2>1, <3>1
    <2>3. Behind(i)' = 1 .. at /\ x.at \in 1 .. len
      BY <1>5, <1>7, <1>15
    <2>4. Running(i)' => PhaseOK(content, i, Step(i), inst[i].phase)'
      BY <1>3, <1>7, <1>10, <1>15
    <2>5. \A n \in Behind(i)' : StillSo(n)
      BY <2>2, <2>3
    <2>6. inst'[i].at \in 1 .. Len(Program(i))
      BY <1>3, <1>5, <2>3
    <2> QED
      BY <1>11, <2>4, <2>5, <2>6
  <1> QED
    BY <1>2, <1>4, <1>5, <1>12, <1>13, <1>14, <1>15 DEF GoesOn

LEMMA MovesKeep ==
    ASSUME InstallInv, NEW i \in Installer, Running(i), Moves(i)
    PROVE  InstallInv'
  <1>1. /\ UNCHANGED <<service, solo, ready, bindable, served, token>> /\ created \subseteq created'
        /\ latest' \subseteq Installer /\ Grows(content')
    BY StoresGrow DEF Moves
  <1>2. PICK x \in InstallerRecord : inst' = [inst EXCEPT ![i] = x]
    BY DEF Moves
  <1>3. /\ inst' \in [Installer -> InstallerRecord]
        /\ \A j \in Installer : j # i => inst'[j] = inst[j]
    BY <1>2 DEF InstallInv, InstallTypeOK
  <1>4. \A j \in Installer : Program(j)' = Program(j)
    BY <1>1 DEF Program
  <1>5. \A j \in Installer : inst'[j].at \in 1 .. Len(Program(j))'
    BY <1>3, <1>4, MoverKeeps DEF InstallInv, InstallTypeOK, TypeOK
  <1>6. InstallTypeOK'
    <2>1. \A j \in Installer : inst'[j].status \in {"idle", "running", "failed", "done"}
      BY <1>3 DEF InstallerRecord
    <2> QED
      BY <1>1, <1>3, <1>5, <2>1 DEF InstallInv, InstallTypeOK, TypeOK, Grows
  <1>7. BindingsAdmitted(content)'
    BY <1>1 DEF Grows, BindingsAdmitted
  <1>8. \A j \in Installer : Running(j)' => Running(j)
    BY <1>3 DEF Running
  <1>9. Alone'
    BY <1>1, <1>8 DEF Alone, InstallInv
  <1>10. ASSUME NEW j \in Installer
         PROVE  /\ Running(j)' => PhaseOK(content, j, Step(j), inst[j].phase)'
                /\ \A n \in Behind(j)' : /\ Performed(content, Program(j)[n])'
                                         /\ j \in solo' => Won(content, j, Program(j)[n])'
    <2>1. CASE j = i
      BY <2>1, MoverKeeps
    <2>2. CASE j # i
      <3>1. j \notin solo'
        BY <1>1, <2>2 DEF InstallInv, Alone
      <3> QED
        BY <1>1, <1>3, <2>2, <3>1, OthersKeep
    <2> QED
      BY <2>1, <2>2
  <1> QED
    BY <1>6, <1>7, <1>9, <1>10 DEF InstallInv

LEMMA StartKeeps ==
    ASSUME InstallInv, NEW i \in Installer, Start(i)
    PROVE  InstallInv'
  <1>1. /\ UNCHANGED <<service, content, created, ready, bindable, served, token, latest>>
        /\ solo' = IF \E j \in Installer \ {i} : Running(j) THEN {} ELSE {i}
        /\ inst[i].status # "running"
    BY DEF Start, kcpVars
  <1>2. PICK x \in InstallerRecord : x = [Idle EXCEPT !.status = "running"]
    <2>1. Idle \in InstallerRecord
      BY DEF Idle, InstallerRecord, CallPhase
    <2> QED
      BY <2>1 DEF InstallerRecord
  <1>3. /\ x.status = "running" /\ x.at = 1 /\ x.phase = "create"
        /\ inst' = [inst EXCEPT ![i] = x]
    BY <1>2 DEF Start, Idle
  <1>4. /\ inst' \in [Installer -> InstallerRecord] /\ inst'[i] = x
        /\ \A j \in Installer : j # i => inst'[j] = inst[j]
    BY <1>3 DEF InstallInv, InstallTypeOK
  <1>5. Grows(content')
    BY <1>1 DEF InstallInv, InstallTypeOK, TypeOK, Grows
  <1>6. service \in Service
    BY DEF InstallInv, InstallTypeOK, TypeOK
  <1>7. \A j \in Installer : Program(j)' = Program(j) /\ Len(Program(j)) \in Nat \ {0}
    BY <1>1, <1>6, ProgramFacts DEF Program
  <1>8. InstallTypeOK'
    <2>1. \A j \in Installer : inst'[j].status \in {"idle", "running", "failed", "done"}
      BY <1>4 DEF InstallerRecord
    <2>2. inst'[i].at \in 1 .. Len(Program(i))
      BY <1>3, <1>4, <1>7
    <2>3. \A j \in Installer : inst'[j].at \in 1 .. Len(Program(j))'
      BY <1>4, <1>7, <2>2 DEF InstallInv, InstallTypeOK, TypeOK
    <2>4. solo' \subseteq Installer
      BY <1>1
    <2> QED
      BY <1>1, <1>4, <2>1, <2>3, <2>4 DEF InstallInv, InstallTypeOK, TypeOK
  <1>9. BindingsAdmitted(content)' /\ Alone'
    <2>1. BindingsAdmitted(content)'
      BY <1>1 DEF InstallInv, BindingsAdmitted
    <2>2. Alone'
      BY <1>1, <1>4 DEF Alone, Running
    <2> QED
      BY <2>1, <2>2
  <1>10. ASSUME NEW j \in Installer
         PROVE  /\ Running(j)' => PhaseOK(content, j, Step(j), inst[j].phase)'
                /\ \A n \in Behind(j)' : /\ Performed(content, Program(j)[n])'
                                         /\ j \in solo' => Won(content, j, Program(j)[n])'
    <2>1. CASE j = i
      <3>1. Behind(i)' = {}
        BY <1>3, <1>4 DEF Behind, Running
      <3>2. PhaseOK(content, i, Step(i), inst[i].phase)'
        BY <1>3, <1>4 DEF PhaseOK
      <3> QED
        BY <2>1, <3>1, <3>2
    <2>2. CASE j # i
      <3>1. j \notin solo'
        BY <1>1, <2>2
      <3> QED
        BY <1>1, <1>4, <1>5, <2>2, <3>1, OthersKeep
    <2> QED
      BY <2>1, <2>2
  <1> QED
    BY <1>8, <1>9, <1>10 DEF InstallInv

\* What kcp does: it follows up, and writes the endpoint slices.
LEMMA KcpKeeps ==
    ASSUME InstallInv, KcpFollowsUp \/ WriteSlice \/ UNCHANGED installVars
    PROVE  InstallInv'
  <1> DEFINE sole(c) == \A o \in Object : /\ content[o] # "absent" => c[o] = content[o]
                                          /\ IsAPIBinding(o) => c[o] = content[o]
  <1>1. /\ UNCHANGED <<service, inst, solo>> /\ ready \subseteq ready' /\ ready' \subseteq created'
        /\ (bindable => bindable') /\ (served => served') /\ (token => token')
        /\ latest' \subseteq Installer
        /\ content' \in [Object -> Content] /\ sole(content')
    <2>1. /\ content \in [Object -> Content] /\ ready \subseteq created /\ latest \subseteq Installer
      BY DEF InstallInv, InstallTypeOK, TypeOK
    <2>2. CASE KcpFollowsUp
      BY <2>1, <2>2 DEF KcpFollowsUp, WorkspaceBecomesReady, ReplicateBindRBAC, ServeBoundAPI, FillToken
    <2>3. CASE WriteSlice
      <3>1. PICK c \in Content : /\ content' = [content EXCEPT !["slice"] = c]
                                 /\ content["slice"] # "absent" => c = content["slice"]
        BY <2>1, <2>3 DEF WriteSlice, Store, Content, Object
      <3>2. content' \in [Object -> Content] /\ sole(content')
        BY <2>1, <3>1 DEF IsAPIBinding
      <3>3. latest' \subseteq Installer
        BY <2>1, <2>3 DEF WriteSlice, Store
      <3> QED
        BY <2>1, <2>3, <3>2, <3>3 DEF WriteSlice, kcpVars
    <2>4. CASE UNCHANGED installVars
      BY <2>1, <2>4 DEF installVars
    <2> QED
      BY <2>2, <2>3, <2>4
  <1>2. Grows(content') /\ BindingsAdmitted(content)'
    BY <1>1 DEF InstallInv, Grows, BindingsAdmitted
  <1>3. InstallTypeOK' /\ Alone'
    BY <1>1 DEF InstallInv, InstallTypeOK, TypeOK, Alone, Running, Program
  <1>4. ASSUME NEW j \in Installer
        PROVE  /\ Running(j)' => PhaseOK(content, j, Step(j), inst[j].phase)'
               /\ \A n \in Behind(j)' : /\ Performed(content, Program(j)[n])'
                                        /\ j \in solo' => Won(content, j, Program(j)[n])'
    BY <1>1, <1>2, OthersKeep
  <1> QED
    BY <1>2, <1>3, <1>4 DEF InstallInv

LEMMA InstallStarts == InstallInit => InstallInv
  <1> SUFFICES ASSUME InstallInit PROVE InstallInv
    OBVIOUS
  <1>1. Idle \in InstallerRecord /\ Idle.status = "idle" /\ Idle.at = 1
    BY DEF Idle, InstallerRecord, CallPhase
  <1>2. \A i \in Installer : Len(Program(i)) \in Nat \ {0}
    BY ProgramFacts DEF InstallInit
  <1>3. InstallTypeOK
    BY <1>1, <1>2 DEF InstallInit, InstallTypeOK, TypeOK, Content
  <1>4. BindingsAdmitted(content) /\ Alone
    BY DEF InstallInit, BindingsAdmitted, Alone
  <1>5. \A i \in Installer : ~Running(i) /\ Behind(i) = {}
    BY <1>1 DEF InstallInit, Running, Behind
  <1> QED
    BY <1>3, <1>4, <1>5 DEF InstallInv

LEMMA InstallStays == InstallInv /\ [InstallNext]_installVars => InstallInv'
  <1> SUFFICES ASSUME InstallInv, [InstallNext]_installVars PROVE InstallInv'
    OBVIOUS
  <1>1. ASSUME NEW i \in Installer, Start(i) PROVE InstallInv'
    BY <1>1, StartKeeps
  <1>2. ASSUME NEW i \in Installer, InstallerStep(i) PROVE InstallInv'
    BY <1>2, StepMoves, MovesKeep
  <1>3. ASSUME NEW i \in Installer, Fault(i) PROVE InstallInv'
    BY <1>3, FaultMoves, MovesKeep
  <1>4. CASE KcpFollowsUp \/ WriteSlice \/ UNCHANGED installVars
    BY <1>4, KcpKeeps
  <1> QED
    BY <1>1, <1>2, <1>3, <1>4 DEF InstallNext, Finished

LEMMA AppliedIsBehind ==
    ASSUME InstallInv, NEW i \in Installer, inst[i].status = "done", NEW o \in AppliedBy(i)
    PROVE  \E n \in Behind(i) : Program(i)[n].op \in Applies /\ Program(i)[n].obj = o
  <1>1. service \in Service /\ Behind(i) = 1 .. Len(Program(i))
    BY DEF InstallInv, InstallTypeOK, TypeOK, Behind
  <1>2. Program(i) \in Seq(StepRecord)
    BY <1>1, ProgramFacts DEF Programs
  <1>3. DOMAIN Program(i) = 1 .. Len(Program(i))
    BY <1>2, LenProperties
  <1> QED
    BY <1>1, <1>3 DEF AppliedBy, Range, Applies

(* Whatever an earlier run left and wherever it stopped, a run that ends   *)
(* and that no other overlapped has left every object of its release, with *)
(* that release's content where kcp lets it replace it (the four init      *)
(* commands), for any number of pods, releases and faults.                 *)
THEOREM SoloRunsWin == InstallSpec => []SoloRunWins
  <1>1. InstallInv => SoloRunWins
    <2> SUFFICES ASSUME InstallInv, NEW i \in solo, inst[i].status = "done", NEW o \in AppliedBy(i)
                 PROVE  IF Kept(o) THEN content[o] # "absent" ELSE content[o] = ReleaseOf[i]
      BY DEF SoloRunWins, InstallInv, InstallTypeOK
    <2>1. i \in Installer
      BY DEF InstallInv, InstallTypeOK, TypeOK
    <2>2. PICK n \in Behind(i) : Program(i)[n].op \in Applies /\ Program(i)[n].obj = o
      BY <2>1, AppliedIsBehind
    <2> QED
      BY <2>1, <2>2 DEF InstallInv, Performed, Won
  <1> QED
    BY <1>1, InstallStarts, InstallStays, PTL DEF InstallSpec

(* What a finished run relies on is there, also if others overlapped: its  *)
(* workspaces are ready, its objects exist, its registry is bound and      *)
(* served, and access had a token for its kubeconfig, for any number of    *)
(* pods, releases and faults.                                              *)
THEOREM DoneIsInstalled == InstallSpec => []DoneMeansInstalled
  <1>1. InstallInv => DoneMeansInstalled
    <2> SUFFICES ASSUME InstallInv, NEW i \in Installer, inst[i].status = "done"
                 PROVE  /\ \A o \in AppliedBy(i) : content[o] # "absent"
                        /\ \A s \in Range(Program(i)) : s.op = "awaitWorkspace" => s.obj \in ready
                        /\ "registryBinding" \in AppliedBy(i) => bindable /\ served
                        /\ "kubeconfig" \in AppliedBy(i) => token
      BY DEF DoneMeansInstalled
    <2>1. service \in Service /\ Behind(i) = 1 .. Len(Program(i))
      BY DEF InstallInv, InstallTypeOK, TypeOK, Behind
    <2>2. Program(i) \in Seq(StepRecord)
      BY <2>1, ProgramFacts DEF Programs
    <2>3. \A n \in Behind(i) : Performed(content, Program(i)[n]) /\ Legal(service, Program(i)[n], n)
      BY BehindLegal DEF InstallInv
    <2>4. \A o \in AppliedBy(i) : content[o] # "absent"
      BY <2>3, AppliedIsBehind DEF Performed
    <2>5. \A s \in Range(Program(i)) : s.op = "awaitWorkspace" => s.obj \in ready
      BY <2>1, <2>2, <2>3, LenProperties DEF Performed, Range
    <2>6. "registryBinding" \in AppliedBy(i) => bindable /\ served
      <3> SUFFICES ASSUME "registryBinding" \in AppliedBy(i) PROVE bindable /\ served
        OBVIOUS
      <3>1. service \in {"tenancy", "marketplace"}
        BY <2>3, AppliedIsBehind DEF Legal
      <3>2. served
        BY <2>1, <2>3, <3>1, ProgramFacts DEF Uses, Performed
      <3>3. bindable
        BY <2>4 DEF InstallInv, BindingsAdmitted, IsAPIBinding, Object
      <3> QED
        BY <3>2, <3>3
    <2>7. "kubeconfig" \in AppliedBy(i) => token
      <3> SUFFICES ASSUME "kubeconfig" \in AppliedBy(i) PROVE token
        OBVIOUS
      <3>1. service = "access"
        BY <2>3, AppliedIsBehind DEF Legal
      <3> QED
        BY <2>1, <2>3, <3>1, ProgramFacts DEF Uses, Performed
    <2> QED
      BY <2>4, <2>5, <2>6, <2>7
  <1> QED
    BY <1>1, InstallStarts, InstallStays, PTL DEF InstallSpec
=============================================================================

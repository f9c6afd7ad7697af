------------------------ MODULE CachingProxy_proofs ------------------------
(***************************************************************************)
(* Proofs about CachingProxy, with the settings and policies it works by,  *)
(* for any keys, requests, goroutines, records and responses: every record *)
(* makes a policy within the node's cap; at most one refresh runs per key, *)
(* every claim in refreshing belongs to a running goroutine; what is       *)
(* stored is kept within the bounds of the node and its owner, the modes   *)
(* agree about what both keep, nothing personal is cached as long as       *)
(* origins send Vary and Cache-Control on one line each, and old content   *)
(* does not come back.                                                     *)
(***************************************************************************)
EXTENDS CachingProxy, SumLemmas

\* Arithmetic in the width of a duration gives integers.
LEMMA WrapInt == \A d \in Int : Wrap(d) \in Int
<1>1. Word \in Int /\ Word > 0 /\ Word \div 2 \in Int
  BY PolicyAssumption
<1> QED
  BY <1>1 DEF Wrap

\* Setting returns the default or what some pair reads as.
LEMMA SettingIn ==
    ASSUME NEW record, Len(record) \in Nat, DOMAIN record = 1..Len(record),
           NEW key, NEW S, NEW default \in S,
           \A i \in DOMAIN record :
               record[i].key = key => Read(key, record[i].value) \subseteq S
    PROVE  Setting(record, key, default) \in S
<1>1. CASE Given(record, key) = {}
  BY <1>1 DEF Setting
<1>2. CASE Given(record, key) # {}
  <2>1. Len(record) \in Nat /\ Given(record, key) \in SUBSET (1..Len(record))
    BY DEF Given
  <2> DEFINE last == CHOOSE i \in Given(record, key) : \A j \in Given(record, key) : j <= i
  <2>2. last \in Given(record, key)
    BY <1>2, <2>1, LastIndex
  <2>3. /\ last \in DOMAIN record /\ record[last].key = key
        /\ Read(key, record[last].value) # {}
    BY <2>2 DEF Given
  <2>4. (CHOOSE x \in Read(key, record[last].value) : TRUE) \in Read(key, record[last].value)
    BY <2>3
  <2>5. Setting(record, key, default)
          = CHOOSE x \in Read(key, record[last].value) : TRUE
    BY <1>2 DEF Setting
  <2> QED
    BY <2>3, <2>4, <2>5
<1> QED
  BY <1>1, <1>2

\* What the values of each key read as.
LEMMA ReadIn ==
    ASSUME NEW v
    PROVE  /\ Read("cache", v) \subseteq Modes
           /\ v \in [number : Int, unit : Nat] =>
                /\ Read("ttl", v) \subseteq Int /\ Read("swr", v) \subseteq Int
                /\ Read("max_object", v) \subseteq 1..NodeCap
<1>1. Read("cache", v) \subseteq Modes
  BY DEF Read, ReadMode, Modes
<1>2. ASSUME v \in [number : Int, unit : Nat]
      PROVE  ReadSize(v) \subseteq 1..NodeCap
  <2>1. v.number * (IF v.unit = 0 THEN 1 ELSE v.unit) \in Int
    BY <1>2
  <2> QED
    BY <2>1, WrapInt, SettingsAssumption DEF ReadSize
<1>3. ASSUME v \in [number : Int, unit : Nat]
      PROVE  ReadTTL(v) \subseteq Int
  <2>1. v.number * Second \in Int /\ v.number * v.unit \in Int
    BY <1>3, PolicyAssumption
  <2> QED
    BY <2>1, WrapInt DEF ReadTTL
<1> QED
  BY <1>1, <1>2, <1>3 DEF Read

\* Every record makes a policy, whose cap is within the node's: typos,
\* repetitions and numbers beyond 64 bits included.
THEOREM RecordsMakePolicies ==
    ASSUME NEW record, WellTyped(record)
    PROVE  /\ PolicyOf(ParseSettings(record)) \in Policy
           /\ PolicyOf(ParseSettings(record)).maxObject \in 1..NodeCap
<1> Len(record) \in Nat /\ DOMAIN record = 1..Len(record)
  BY DEF WellTyped
<1>1. Setting(record, "cache", "standard") \in Modes
  BY ReadIn, SettingIn DEF Modes
<1>2. Setting(record, "max_object", NodeCap) \in 1..NodeCap
  <2>1. \A i \in DOMAIN record : record[i].key = "max_object" =>
            Read("max_object", record[i].value) \subseteq 1..NodeCap
    BY ReadIn DEF WellTyped, Numeric
  <2>2. NodeCap \in 1..NodeCap
    BY SettingsAssumption
  <2> QED
    BY <2>1, <2>2, SettingIn
<1>3. Setting(record, "ttl", DefaultTTL) \in Int /\ Setting(record, "swr", DefaultSWR) \in Int
  <2>1. \A i \in DOMAIN record : record[i].key \in {"ttl", "swr"} =>
            record[i].value \in [number : Int, unit : Nat]
    BY DEF WellTyped, Numeric
  <2> QED
    BY <2>1, ReadIn, SettingIn, SettingsAssumption
<1>4. 1..NodeCap \subseteq Int
  BY SettingsAssumption
<1> QED
  BY <1>1, <1>2, <1>3, <1>4 DEF PolicyOf, ParseSettings, DefaultSettings, Policy

-----------------------------------------------------------------------------
\* What parseCacheControl finds is a number, -1 if it finds none.
LEMMA SecondsInt ==
    ASSUME NEW line \in Seq(Directive), NEW name
    PROVE  Seconds(line, name) \in Int
<1> DEFINE valid == {i \in DOMAIN line : line[i].name = name /\ Fits(line[i].value)}
           last == CHOOSE i \in valid : \A j \in valid : j <= i
<1>1. CASE valid = {}
  BY <1>1 DEF Seconds
<1>2. CASE valid # {}
  <2>1. Len(line) \in Nat /\ valid \in SUBSET (1..Len(line))
    OBVIOUS
  <2>2. last \in valid
    <3> HIDE DEF valid
    <3> QED
      BY <1>2, <2>1, LastIndex
  <2>3. line[last].value \in Int
    <3>1. last \in DOMAIN line
      BY <2>2
    <3>2. line[last] \in Directive
      <4> HIDE DEF last
      <4> QED
        BY <3>1
    <3> HIDE DEF last
    <3> QED
      BY <3>2 DEF Directive
  <2>4. Seconds(line, name) = line[last].value
    BY <1>2 DEF Seconds
  <2> QED
    BY <2>3, <2>4
<1> QED
  BY <1>1, <1>2

\* A response's freshness is a number, whatever its headers.
LEMMA FreshnessInt == \A x \in Response : Freshness(x) \in Int
<1> SUFFICES ASSUME NEW x \in Response PROVE Freshness(x) \in Int
  OBVIOUS
<1>1. x.cacheControl \in Seq(Seq(Directive)) /\ x.expires \in Seq(Int)
  BY DEF Response
<1>2. CacheControl(x) \in Seq(Directive)
  BY <1>1 DEF CacheControl
<1>3. \A name : Seconds(CacheControl(x), name) \in Int
  BY <1>2, SecondsInt
<1>4. \A name : Wrap(Seconds(CacheControl(x), name) * Second) \in Int
  <2>1. \A name : Seconds(CacheControl(x), name) * Second \in Int
    BY <1>3, PolicyAssumption
  <2> QED
    BY <2>1, WrapInt
<1>5. x.expires # <<>> => x.expires[1] \in Int
  BY <1>1
<1> QED
  BY <1>4, <1>5 DEF Freshness

\* Whatever an origin sends, it is kept for at most the cap, or for the TTL
\* of the owner.
LEMMA KeptWithin ==
    ASSUME NEW p \in Policy, NEW x \in Response
    PROVE  ResponseTTL(p, x) \in 0..MaxTTL \cup {p.ttl}
<1>1. Freshness(x) > 0 => CapTTL(Freshness(x)) \in 0..MaxTTL
  BY FreshnessInt, PolicyAssumption DEF CapTTL
<1>2. 0 \in 0..MaxTTL
  BY PolicyAssumption
<1> QED
  BY <1>1, <1>2 DEF ResponseTTL

\* What standard mode keeps, aggressive mode keeps for the same time.
LEMMA StandardKept ==
    ASSUME NEW p, NEW q, NEW x,
           p.mode = "standard", q.mode = "aggressive", p.ttl = q.ttl,
           ResponseTTL(p, x) > 0
    PROVE  ResponseTTL(q, x) = ResponseTTL(p, x)
<1>1. Refused(q, x) <=> Refused(p, x)
  BY DEF Refused
<1>2. ~Refused(p, x)
  BY DEF ResponseTTL
<1>3. CASE Freshness(x) > 0
  BY <1>1, <1>2, <1>3 DEF ResponseTTL
<1>4. CASE ~(Freshness(x) > 0)
  BY <1>1, <1>2, <1>4 DEF ResponseTTL
<1> QED
  BY <1>3, <1>4

-----------------------------------------------------------------------------

\* The inductive invariant: types, and for every key claimed exactly one
\* goroutine that will give it back.
IInv == TypeOK /\ OneRefreshPerKey /\ ClaimsHeld

Running == {b \in Refreshers : ~At(b, "idle")}

\* The initial state has nothing cached, claimed or running.
LEMMA InitInvariant == Init => IInv
<1> SUFFICES ASSUME Init PROVE IInv
  OBVIOUS
<1> USE ProxyAssumption DEF Init
<1>1. TypeOK
  BY DEF TypeOK, Versions, Lives, Tasks, Idle, Workers
<1>2. \A w \in Workers : At(w, "idle")
  BY DEF At, Idle
<1>3. OneRefreshPerKey /\ ClaimsHeld
  BY <1>2 DEF OneRefreshPerKey, ClaimsHeld, Workers
<1> QED
  BY <1>1, <1>3 DEF IInv

\* A step that changes one worker's task, keeps the key of a running
\* goroutine and neither starts nor ends one, disturbs no claim.
LEMMA SameClaims ==
    ASSUME IInv, UNCHANGED refreshing,
           \A b \in Refreshers : /\ At(b, "idle") <=> At(b, "idle")'
                                 /\ ~At(b, "idle") => task'[b].key = task[b].key
    PROVE  OneRefreshPerKey' /\ ClaimsHeld'
<1>1. OneRefreshPerKey'
  BY DEF IInv, OneRefreshPerKey
<1>2. ClaimsHeld'
  BY DEF IInv, ClaimsHeld
<1> QED
  BY <1>1, <1>2

\* What a worker in the middle of a fetch has in hand.
LEMMA TaskFacts ==
    ASSUME TypeOK, NEW w \in Workers
    PROVE  /\ ~At(w, "idle") => task[w].key \in Keys
           /\ At(w, "stale") => task[w].policy \in Policies
           /\ At(w, "wait") => task[w].policy \in Policies /\ task[w].personal \in BOOLEAN
           /\ At(w, "body") => task[w].version \in Versions /\ task[w].personal \in BOOLEAN
           /\ At(w, "set") => task[w].obj \in Objects
           /\ At(w, "idle") => task[w] = Idle
  BY DEF TypeOK, Tasks, At, Idle

\* A fetch step keeps its worker's key and leaves claims alone.
LEMMA FetchStepInvariant ==
    ASSUME IInv, NEW w \in Workers, FetchStep(w)
    PROVE  IInv'
<1> USE ProxyAssumption
<1>1. /\ ~At(w, "idle") /\ ~At(w, "stale") /\ ~At(w, "release")
      /\ task[w].key \in Keys /\ UNCHANGED <<refreshing, origin>>
  BY TaskFacts DEF IInv, FetchStep, Respond, Discard, Complete, Truncate, Store, At
<1>2. \A v \in Workers \ {w} : task'[v] = task[v]
  BY DEF FetchStep, Respond, Discard, Complete, Truncate, Store, Goto, IInv, TypeOK
<1>3. /\ task' \in [Workers -> Tasks]
      /\ w \in Requests => task'[w].pc # "release"
      /\ w \in Refreshers => ~At(w, "idle")' /\ task'[w].key = task[w].key /\ task'[w].pc # "stale"
  <2>1. CASE Respond(w)
    <3>1. PICK a \in Kept : Goto(w, Receiving(w, a.personal))
      BY <2>1 DEF Respond
    <3>2. Receiving(w, a.personal) \in Tasks
      BY <1>1 DEF Receiving, IInv, TypeOK, Tasks
    <3> QED
      BY <1>1, <2>1, <3>1, <3>2 DEF Respond, Receiving, Goto, At, IInv, TypeOK
  <2>2. CASE Discard(w)
    BY <1>1, <2>2 DEF Discard, Done, Goto, At, IInv, TypeOK, Tasks, Idle, Workers
  <2>3. CASE Complete(w)
    <3>1. Storing(w, TRUE) \in Tasks
      BY <1>1, <2>3, TaskFacts DEF Complete, IInv, Tasks, Objects, Storing
    <3> QED
      BY <1>1, <2>3, <3>1 DEF Complete, Goto, Storing, At, IInv, TypeOK
  <2>4. CASE Truncate(w)
    <3>1. CASE w \in Requests
      BY <1>1, <2>4, <3>1 DEF Truncate, Goto, IInv, TypeOK, Tasks, Idle
    <3>2. CASE w \in Refreshers
      <4>1. w \notin Requests
        BY <3>2
      <4>2. Storing(w, FALSE) \in Tasks
        BY <1>1, <2>4, TaskFacts DEF Truncate, IInv, Tasks, Objects, Storing
      <4>3. task' = [task EXCEPT ![w] = Storing(w, FALSE)]
        BY <2>4, <4>1 DEF Truncate, Goto
      <4> QED
        BY <4>1, <4>2, <4>3 DEF Storing, At, IInv, TypeOK
    <3> QED
      BY <3>1, <3>2 DEF Workers
  <2>5. CASE Store(w)
    BY <1>1, <2>5 DEF Store, Done, Goto, At, IInv, TypeOK, Tasks, Idle, Workers
  <2> QED
    BY <2>1, <2>2, <2>3, <2>4, <2>5 DEF FetchStep
<1>4. cache' \in [Keys -> Objects \cup {None}] /\ life' \in [Keys -> Lives]
  <2>1. CASE Store(w)
    BY <1>1, <2>1, TaskFacts DEF Store, IInv, TypeOK, Lives
  <2>2. CASE ~Store(w)
    BY <2>2 DEF FetchStep, Respond, Discard, Complete, Truncate, IInv, TypeOK
  <2> QED
    BY <2>1, <2>2
<1>5. TypeOK'
  BY <1>1, <1>2, <1>3, <1>4 DEF IInv, TypeOK, Workers
<1>6. \A b \in Refreshers : /\ At(b, "idle") <=> At(b, "idle")'
                            /\ ~At(b, "idle") => task'[b].key = task[b].key
  BY <1>1, <1>2, <1>3 DEF At, Workers
<1> QED
  BY <1>1, <1>5, <1>6, SameClaims DEF IInv

\* What a visit needs to know has its types.
LEMMA VisitTypes == Visits \subseteq [policy : Policies, personal : BOOLEAN]
<1>1. ASSUME NEW v \in Policies \X SUBSET Features
      PROVE  /\ v[1] \in Policies
             /\ Personal(v[1], v[2]) \in BOOLEAN
  <2>1. v[1] \in Policies
    OBVIOUS
  <2>2. Personal(v[1], v[2]) \in BOOLEAN
    BY Zenon DEF Personal
  <2> QED
    BY <2>1, <2>2
<1> QED
  BY <1>1 DEF Visits

\* A handler's steps on the way to a fetch or a stale answer.
LEMMA RequestInvariant ==
    ASSUME IInv, NEW r \in Requests,
           \/ RevalidateBusy(r)
           \/ \E k \in Keys : GetStale(r, k) \/ GetMiss(r, k)
    PROVE  IInv'
<1> USE ProxyAssumption
<1>1. \A v \in Workers \ {r} : task'[v] = task[v]
  BY DEF RevalidateBusy, GetStale, GetMiss, Goto, IInv, TypeOK
<1>2. task' \in [Workers -> Tasks] /\ task'[r].pc # "release"
  BY VisitTypes DEF RevalidateBusy, GetStale, GetMiss, Goto, IInv, TypeOK, Tasks, Idle, Workers
<1>3. /\ origin' = origin /\ life' = life /\ refreshing' = refreshing
      /\ cache' \in [Keys -> Objects \cup {None}]
  BY DEF RevalidateBusy, GetStale, GetMiss, IInv, TypeOK
<1>4. TypeOK'
  BY <1>1, <1>2, <1>3 DEF IInv, TypeOK, Workers
<1>5. \A b \in Refreshers : /\ At(b, "idle") <=> At(b, "idle")'
                            /\ ~At(b, "idle") => task'[b].key = task[b].key
  BY <1>1 DEF At, Workers
<1> QED
  BY <1>3, <1>4, <1>5, SameClaims DEF IInv

\* The check of refreshing and the claim are one critical section: the new
\* goroutine's key was nobody's.
LEMMA RevalidateInvariant ==
    ASSUME IInv, NEW r \in Requests, NEW b \in Refreshers, Revalidate(r, b)
    PROVE  IInv'
<1> USE ProxyAssumption
<1> DEFINE k == task[r].key
<1>1. k \in Keys /\ k \notin refreshing /\ r # b /\ r \in Workers /\ b \in Workers
  BY TaskFacts DEF Revalidate, IInv, Workers, At
<1>2. /\ task'[r] = Idle /\ task'[b] = BackgroundFetch(r) /\ task'[b].key = k
      /\ task'[b].pc = "wait"
      /\ \A v \in Workers \ {r, b} : task'[v] = task[v]
      /\ refreshing' = refreshing \cup {k}
  BY <1>1 DEF Revalidate, BackgroundFetch, IInv, TypeOK
<1>3. TypeOK'
  <2>1. task' \in [Workers -> Tasks]
    <3>1. BackgroundFetch(r) \in Tasks
      BY <1>1, TaskFacts DEF Revalidate, BackgroundFetch, IInv, Tasks
    <3> QED
      BY <1>1, <3>1 DEF Revalidate, IInv, TypeOK, Tasks, Idle
  <2> QED
    BY <1>1, <1>2, <2>1 DEF Revalidate, IInv, TypeOK, Workers, Idle
<1>4. At(b, "idle") /\ ~At(b, "idle")'
  BY <1>2 DEF Revalidate, At
<1>5. \A c \in Refreshers \ {b} : task'[c] = task[c] /\ (~At(c, "idle") => task[c].key # k)
  BY <1>1, <1>2 DEF IInv, ClaimsHeld, Workers
<1>6. OneRefreshPerKey'
  BY <1>2, <1>4, <1>5 DEF IInv, OneRefreshPerKey, At
<1>7. ClaimsHeld'
  BY <1>2, <1>4, <1>5 DEF IInv, ClaimsHeld, At
<1> QED
  BY <1>3, <1>6, <1>7 DEF IInv

\* The deferred function gives back the goroutine's own claim and no other.
LEMMA ReleaseInvariant ==
    ASSUME IInv, NEW b \in Refreshers, Release(b)
    PROVE  IInv'
<1> USE ProxyAssumption
<1>1. task'[b] = Idle /\ \A v \in Workers \ {b} : task'[v] = task[v]
  BY DEF Release, Goto, IInv, TypeOK, Workers
<1>2. TypeOK'
  BY DEF Release, Goto, IInv, TypeOK, Tasks, Workers, Idle
<1>3. At(b, "idle")' /\ ~At(b, "idle")
  BY <1>1 DEF Release, At, Idle
<1>4. \A c \in Refreshers \ {b} :
         task'[c] = task[c] /\ (~At(c, "idle") => task[c].key # task[b].key)
  BY <1>1, <1>3 DEF IInv, OneRefreshPerKey, Workers
<1>5. OneRefreshPerKey'
  BY <1>3, <1>4 DEF IInv, OneRefreshPerKey, At
<1>6. ClaimsHeld'
  BY <1>3, <1>4 DEF IInv, ClaimsHeld, Release, At
<1> QED
  BY <1>2, <1>5, <1>6 DEF IInv

\* Time, eviction and the origin touch no claim.
LEMMA WorldInvariant ==
    ASSUME IInv, NEW k \in Keys, Age(k) \/ Evict(k) \/ ContentChanges(k)
    PROVE  IInv'
<1> USE ProxyAssumption
<1>1. UNCHANGED <<task, refreshing>>
  BY DEF Age, Evict, ContentChanges
<1>2. CASE Age(k)
  <2>1. life' \in [Keys -> Lives]
    BY <1>2 DEF Age, IInv, TypeOK, Lives
  <2> QED
    BY <1>1, <1>2, <2>1 DEF Age, IInv, TypeOK, OneRefreshPerKey, ClaimsHeld, At
<1>3. CASE Evict(k)
  BY <1>1, <1>3 DEF Evict, IInv, TypeOK, OneRefreshPerKey, ClaimsHeld, At
<1>4. CASE ContentChanges(k)
  <2>1. origin' \in [Keys -> Versions]
    BY <1>4 DEF ContentChanges, IInv, TypeOK, Versions
  <2> QED
    BY <1>1, <1>4, <2>1 DEF ContentChanges, IInv, TypeOK, OneRefreshPerKey, ClaimsHeld, At
<1> QED
  BY <1>2, <1>3, <1>4

-----------------------------------------------------------------------------
\* The types, the claim of revalidate's comment (one refresh per key) and the
\* release of every claim hold in all behaviours.
THEOREM RefreshDiscipline == Spec => [](TypeOK /\ OneRefreshPerKey /\ ClaimsHeld)
<1>1. IInv /\ [Next]_vars => IInv'
  <2> SUFFICES ASSUME IInv, [Next]_vars PROVE IInv'
    OBVIOUS
  <2>1. ASSUME NEW r \in Requests, RevalidateBusy(r) PROVE IInv'
    BY <2>1, RequestInvariant
  <2>2. ASSUME NEW r \in Requests, NEW k \in Keys, GetStale(r, k) \/ GetMiss(r, k) PROVE IInv'
    BY <2>2, RequestInvariant
  <2>3. ASSUME NEW r \in Requests, NEW b \in Refreshers, Revalidate(r, b) PROVE IInv'
    BY <2>3, RevalidateInvariant
  <2>4. ASSUME NEW w \in Workers, FetchStep(w) PROVE IInv'
    BY <2>4, FetchStepInvariant
  <2>5. ASSUME NEW b \in Refreshers, Release(b) PROVE IInv'
    BY <2>5, ReleaseInvariant
  <2>6. ASSUME NEW k \in Keys, Age(k) \/ Evict(k) \/ ContentChanges(k) PROVE IInv'
    BY <2>6, WorldInvariant
  <2>7. CASE UNCHANGED vars
    BY <2>7 DEF vars, IInv, TypeOK, OneRefreshPerKey, ClaimsHeld, At
  <2> QED
    BY <2>1, <2>2, <2>3, <2>4, <2>5, <2>6, <2>7 DEF Next
<1>2. IInv <=> TypeOK /\ OneRefreshPerKey /\ ClaimsHeld
  BY DEF IInv
<1> QED
  BY <1>1, <1>2, InitInvariant, PTL DEF Spec

-----------------------------------------------------------------------------
(***************************************************************************)
(* What the owner's record and the origin's headers may ask for.           *)
(***************************************************************************)

\* No record and no response makes a policy exceed the bounds.
LEMMA PoliciesBounded == Policies \subseteq BoundedPolicies
<1> SUFFICES ASSUME NEW record \in Records
             PROVE  PolicyOf(ParseSettings(record)) \in BoundedPolicies
  BY DEF Policies
<1> DEFINE p == PolicyOf(ParseSettings(record))
<1>1. p \in Policies
  BY DEF Policies
<1>2. p \in Policy /\ p.maxObject \in 1..NodeCap
  BY ProxyAssumption, RecordsMakePolicies
<1>3. \A x \in Responses : ResponseTTL(p, x) \in 0..MaxTTL \cup {p.ttl}
  <2> HIDE DEF p
  <2> QED
    BY <1>2, ProxyAssumption, KeptWithin
<1> QED
  BY <1>1, <1>2, <1>3 DEF BoundedPolicies

\* Whatever numbers an owner and an origin send, beyond 64 bits included, a
\* fetch stores nothing for longer than the cap or the owner's TTL, nor
\* anything larger than the node allows.
THEOREM OwnerLimits == Spec => []LimitsKept
<1>1. TypeOK => LimitsKept
  BY TaskFacts, PoliciesBounded DEF LimitsKept
<1>2. TypeOK /\ OneRefreshPerKey /\ ClaimsHeld => TypeOK
  OBVIOUS
<1> QED
  BY <1>1, <1>2, RefreshDiscipline, PTL

\* Fetches that follow different modes with one TTL keep a response that
\* standard mode keeps for the same time.
THEOREM ModesAgree == Spec => []ModesOrdered
<1>1. TypeOK => ModesOrdered
  <2> SUFFICES ASSUME TypeOK, NEW v \in Workers, NEW w \in Workers,
                      At(v, "wait"), task[v].policy.mode = "standard",
                      At(w, "wait"), task[w].policy.mode = "aggressive",
                      task[v].policy.ttl = task[w].policy.ttl
               PROVE  <<task[v].policy, task[w].policy>> \in KeepsAsLong
    BY DEF ModesOrdered
  <2>1. task[v].policy \in Policies /\ task[w].policy \in Policies
    BY TaskFacts
  <2>2. \A x \in Responses : ResponseTTL(task[v].policy, x) > 0
            => ResponseTTL(task[w].policy, x) = ResponseTTL(task[v].policy, x)
    BY StandardKept
  <2> QED
    BY <2>1, <2>2 DEF KeepsAsLong
<1>2. TypeOK /\ OneRefreshPerKey /\ ClaimsHeld => TypeOK
  OBVIOUS
<1> QED
  BY <1>1, <1>2, RefreshDiscipline, PTL

-----------------------------------------------------------------------------
(***************************************************************************)
(* What the policy lets into the cache.                                    *)
(***************************************************************************)

\* The origin sends no header on more than one line.
OneLine == \A x \in Responses : Len(x.vary) <= 1 /\ Len(x.cacheControl) <= 1

\* Every element of a list of at most one is its head.
LEMMA AtMostOne ==
    ASSUME NEW S, NEW s \in Seq(S), Len(s) <= 1, NEW i \in DOMAIN s
    PROVE  s # <<>> /\ s[i] = Head(s)
<1>1. DOMAIN s = 1..Len(s) /\ Len(s) \in Nat
  OBVIOUS
<1>2. i = 1 /\ Len(s) = 1
  BY <1>1
<1> QED
  BY <1>2

\* Then what a policy keeps is for everybody.
LEMMA KeptShareable ==
    ASSUME OneLine, NEW p \in Policies, NEW x \in Responses, ResponseTTL(p, x) > 0
    PROVE  ~Unshareable(x)
<1>1. ~Refused(p, x)
  BY DEF ResponseTTL
<1>2. x \in Response
  BY ProxyAssumption
<1>3. \A i \in DOMAIN x.vary : x.vary # <<>> /\ x.vary[i] = Head(x.vary)
  BY <1>2, AtMostOne DEF OneLine, Response
<1>4. \A i \in DOMAIN x.cacheControl : x.cacheControl[i] = CacheControl(x)
  BY <1>2, AtMostOne DEF OneLine, Response, CacheControl
<1> QED
  BY <1>1, <1>3, <1>4 DEF Refused, Unshareable

\* Nobody waits for, receives or stores anything personal.
Public == /\ \A w \in Workers : /\ At(w, "wait") \/ At(w, "body") => task[w].personal = FALSE
                                /\ At(w, "set") => task[w].obj.personal = FALSE
          /\ \A k \in Keys : cache[k] # None => cache[k].personal = FALSE

\* The requests and responses that start a fetch and a recording.
LEMMA VisitsPublic == \A v \in Visits : v.personal = FALSE
<1>1. ASSUME NEW p, NEW r, CacheableRequest(p, r)
      PROVE  Personal(p, r) = FALSE
  <2>1. ~Personal(p, r)
    BY <1>1 DEF CacheableRequest, Personal
  <2>2. Personal(p, r) \in BOOLEAN
    BY Zenon DEF Personal
  <2> QED
    BY <2>1, <2>2
<1>2. ASSUME NEW v \in Visits
      PROVE  v.personal = FALSE
  <2>1. PICK u \in Policies \X SUBSET Features :
            /\ CacheableRequest(u[1], u[2])
            /\ v = [policy |-> u[1], personal |-> Personal(u[1], u[2])]
    BY DEF Visits
  <2> QED
    BY <1>1, <2>1
<1> QED
  BY <1>2

\* No response that may be kept is personal when headers come in one line.
LEMMA KeptPublic ==
    ASSUME OneLine
    PROVE  \A a \in Kept : a.personal = FALSE
<1>1. ASSUME NEW p \in Policies, NEW x \in Responses, ResponseTTL(p, x) > 0
      PROVE  Unshareable(x) = FALSE
  <2>1. ~Unshareable(x)
    BY <1>1, KeptShareable
  <2>2. Unshareable(x) \in BOOLEAN
    BY Zenon DEF Unshareable
  <2> QED
    BY <2>1, <2>2
<1>2. ASSUME NEW a \in Kept
      PROVE  a.personal = FALSE
  <2>1. PICK u \in Policies \X Responses :
            /\ ResponseTTL(u[1], u[2]) > 0
            /\ a = [policy |-> u[1], personal |-> Unshareable(u[2])]
    BY DEF Kept
  <2>2. u[1] \in Policies /\ u[2] \in Responses
    OBVIOUS
  <2> QED
    BY <1>1, <2>1, <2>2
<1> QED
  BY <1>2

\* A worker whose next state is public keeps everything public.
LEMMA PublicGoto ==
    ASSUME TypeOK, Public, NEW w \in Workers, NEW t, Goto(w, t),
           t.pc \in {"wait", "body"} => t.personal = FALSE,
           t.pc = "set" => t.obj.personal = FALSE,
           \A k \in Keys : cache'[k] # None => cache'[k].personal = FALSE
    PROVE  Public'
<1>1. task'[w] = t /\ \A v \in Workers \ {w} : task'[v] = task[v]
  BY DEF Goto, TypeOK
<1> QED
  BY <1>1 DEF Public, At

\* A fetch keeps everything cached public.
LEMMA PublicFetch ==
    ASSUME OneLine, TypeOK, Public, NEW w \in Workers, FetchStep(w)
    PROVE  Public'
<1>1. CASE Respond(w)
  <2>1. PICK a \in Kept : Goto(w, Receiving(w, a.personal))
    BY <1>1 DEF Respond
  <2>2. Receiving(w, a.personal).personal = FALSE
    BY <1>1, KeptPublic DEF Respond, Receiving, Public
  <2> QED
    BY PublicGoto, <1>1, <2>1, <2>2 DEF Respond, Receiving, Public
<1>2. CASE Discard(w)
  BY PublicGoto, <1>2 DEF Discard, Done, Idle, Public
<1>3. CASE Complete(w) \/ Truncate(w)
  <2>1. At(w, "body") /\ \E whole \in BOOLEAN : Goto(w, Storing(w, whole)) \/ Goto(w, Idle)
    BY <1>3 DEF Complete, Truncate
  <2>2. PICK whole \in BOOLEAN : Goto(w, Storing(w, whole)) \/ Goto(w, Idle)
    BY <2>1
  <2>3. \A k \in Keys : cache'[k] # None => cache'[k].personal = FALSE
    BY <1>3 DEF Complete, Truncate, Public
  <2> QED
    BY PublicGoto, <2>1, <2>2, <2>3 DEF Storing, Idle, Public
<1>4. CASE Store(w)
  <2>1. task[w].obj.personal = FALSE
    BY <1>4 DEF Store, Public
  <2>2. \A k \in Keys : cache'[k] # None => cache'[k].personal = FALSE
    BY <1>4, <2>1 DEF Store, Public
  <2>3. Goto(w, Done(w))
    BY <1>4 DEF Store
  <2> QED
    BY PublicGoto, <2>2, <2>3 DEF Done, Idle
<1> QED
  BY <1>1, <1>2, <1>3, <1>4 DEF FetchStep

\* Every step keeps everything cached public.
LEMMA PublicStep ==
    ASSUME OneLine, TypeOK, Public, [Next]_vars
    PROVE  Public'
<1>1. ASSUME NEW r \in Requests, NEW k \in Keys, GetStale(r, k) \/ GetMiss(r, k)
      PROVE  Public'
  <2>1. \A k2 \in Keys : cache'[k2] # None => cache'[k2].personal = FALSE
    BY <1>1 DEF GetStale, GetMiss, Public, TypeOK
  <2>2. r \in Workers
    BY DEF Workers
  <2>3. CASE GetStale(r, k)
    <3>1. PICK v \in Visits : Goto(r, [pc |-> "stale", key |-> k, policy |-> v.policy])
      BY <2>3 DEF GetStale
    <3> QED
      BY <2>1, <2>2, <3>1, PublicGoto
  <2>4. CASE GetMiss(r, k)
    <3>1. PICK v \in Visits : Goto(r, [pc |-> "wait", key |-> k, policy |-> v.policy,
                                       personal |-> v.personal])
      BY <2>4 DEF GetMiss
    <3>2. v.personal = FALSE
      BY VisitsPublic
    <3> QED
      BY <2>1, <2>2, <3>1, <3>2, PublicGoto
  <2> QED
    BY <1>1, <2>3, <2>4
<1>2. ASSUME NEW r \in Requests, RevalidateBusy(r)
      PROVE  Public'
  BY <1>2 DEF RevalidateBusy, Goto, Idle, Public, At, TypeOK
<1>3. ASSUME NEW r \in Requests, NEW b \in Refreshers, Revalidate(r, b)
      PROVE  Public'
  <2>1. \A v \in Workers : task'[v] \in {task[v], Idle, BackgroundFetch(r)}
    BY <1>3 DEF Revalidate, TypeOK
  <2>2. BackgroundFetch(r).pc = "wait" /\ BackgroundFetch(r).personal = FALSE
        /\ Idle.pc = "idle"
    BY DEF BackgroundFetch, Idle
  <2>3. UNCHANGED cache
    BY <1>3 DEF Revalidate
  <2> QED
    BY <2>1, <2>2, <2>3 DEF Public, At
<1>4. ASSUME NEW b \in Refreshers, Release(b)
      PROVE  Public'
  BY <1>4 DEF Release, Goto, Idle, Public, At, TypeOK
<1>5. ASSUME NEW k \in Keys, Age(k) \/ Evict(k) \/ ContentChanges(k)
      PROVE  Public'
  BY <1>5 DEF Age, Evict, ContentChanges, Public, At, TypeOK
<1>6. CASE UNCHANGED vars
  BY <1>6 DEF vars, Public, At
<1> QED
  BY <1>1, <1>2, <1>3, <1>4, <1>5, <1>6, PublicFetch DEF Next

\* With origins that send each header on one line, nothing that a policy of
\* any mode or TTL lets into the cache is for its requester alone.
THEOREM OnlyPublicCached ==
    ASSUME OneLine
    PROVE  Spec => []NothingPersonal
<1>1. Init => Public
  BY DEF Init, Public, At, Idle
<1>2. Public => NothingPersonal
  BY DEF Public, NothingPersonal
<1>3. TypeOK /\ Public /\ [Next]_vars => Public'
  BY PublicStep
<1>4. Spec => []TypeOK
  <2>1. TypeOK /\ OneRefreshPerKey /\ ClaimsHeld => TypeOK
    OBVIOUS
  <2> QED
    BY <2>1, RefreshDiscipline, PTL
<1> QED
  BY <1>1, <1>2, <1>3, <1>4, PTL DEF Spec

-----------------------------------------------------------------------------
(***************************************************************************)
(* What OldContentDies rests on, fairness aside: what brings old content   *)
(* back is a fetch that began before the change, and nothing else.         *)
(***************************************************************************)

\* A worker that goes on with what is not outdated outdates nothing.
LEMMA SameOutdated ==
    ASSUME TypeOK, NEW k \in Keys, NEW w \in Workers, NEW t, Goto(w, t),
           \/ t.pc \notin {"body", "set"}
           \/ t.pc = "body" /\ (t.key = k => t.version = origin[k])
           \/ /\ t.pc = "set" /\ At(w, "body") /\ t.key = task[w].key
              /\ t.obj.version = task[w].version,
           origin'[k] = origin[k]
    PROVE  Outdated(k)' \subseteq Outdated(k)
<1>1. task'[w] = t /\ \A v \in Workers \ {w} : task'[v] = task[v]
  BY DEF Goto, TypeOK
<1> QED
  BY <1>1 DEF Outdated, At

\* A step that changes no entry, and renews none.
LEMMA SameCurrent ==
    ASSUME NEW k \in Keys, origin'[k] = origin[k],
           cache'[k] = None \/ cache'[k] = cache[k],
           life'[k] = "spent" \/ life[k] # "spent" \/ UNCHANGED life,
           Current(k)
    PROVE  Current(k)'
  BY DEF Current

\* The steps of a fetch.
LEMMA FetchStepCurrent ==
    ASSUME TypeOK, NEW k \in Keys, NEW w \in Workers, FetchStep(w)
    PROVE  /\ Outdated(k)' \subseteq Outdated(k)
           /\ Outdated(k) = {} /\ Current(k) => Current(k)'
<1>1. UNCHANGED origin
  BY DEF FetchStep, Respond, Discard, Complete, Truncate, Store
<1>2. Done(w).pc \notin {"body", "set"}
  BY DEF Done, Idle
<1>3. CASE Respond(w)
  <2>1. PICK a \in Kept : Goto(w, Receiving(w, a.personal))
    BY <1>3 DEF Respond
  <2>2. /\ Receiving(w, a.personal).pc = "body"
        /\ Receiving(w, a.personal).key = task[w].key
        /\ Receiving(w, a.personal).version = origin[task[w].key]
    BY DEF Receiving
  <2> QED
    BY <1>1, <1>3, <2>1, <2>2, SameOutdated, SameCurrent DEF Respond
<1>4. CASE Discard(w)
  BY <1>1, <1>2, <1>4, SameOutdated, SameCurrent DEF Discard
<1>5. CASE Complete(w) \/ Truncate(w)
  <2>1. UNCHANGED <<cache, life>> /\ At(w, "body")
    BY <1>5 DEF Complete, Truncate
  <2>2. \A whole : /\ Storing(w, whole).pc = "set" /\ Storing(w, whole).key = task[w].key
                   /\ Storing(w, whole).obj.version = task[w].version
    BY DEF Storing
  <2>3. Goto(w, Idle) \/ \E whole \in BOOLEAN : Goto(w, Storing(w, whole))
    BY <1>5 DEF Complete, Truncate
  <2>4. Idle.pc \notin {"body", "set"}
    BY DEF Idle
  <2>5. Outdated(k)' \subseteq Outdated(k)
    BY <1>1, <2>1, <2>2, <2>3, <2>4, SameOutdated
  <2> QED
    BY <1>1, <2>1, <2>5, SameCurrent
<1>6. CASE Store(w)
  <2>1. Outdated(k)' \subseteq Outdated(k)
    BY <1>1, <1>2, <1>6, SameOutdated DEF Store
  <2>2. ASSUME Outdated(k) = {}, Current(k) PROVE Current(k)'
    <3>1. CASE task[w].key = k
      <4>1. task[w].obj.version = origin[k]
        BY <1>6, <2>2, <3>1 DEF Store, Outdated
      <4>2. cache'[k] = task[w].obj
        BY <1>6, <3>1 DEF Store
      <4> QED
        BY <1>1, <4>1, <4>2 DEF Current
    <3>2. CASE task[w].key # k
      <4>1. (cache'[k] = None \/ cache'[k] = cache[k]) /\ life'[k] = life[k]
        BY <1>6, <3>2 DEF Store, TypeOK
      <4> QED
        BY <1>1, <2>2, <4>1 DEF Current
    <3> QED
      BY <3>1, <3>2
  <2> QED
    BY <2>1, <2>2
<1> QED
  BY <1>3, <1>4, <1>5, <1>6 DEF FetchStep

\* Old content comes back with no step.
THEOREM OldContentStaysAway == Spec => CurrentStays
<1>1. ASSUME TypeOK, [Next]_vars, NEW k \in Keys, origin'[k] = origin[k]
      PROVE  /\ Outdated(k)' \subseteq Outdated(k)
             /\ Outdated(k) = {} /\ Current(k) => Current(k)'
  <2>1. ASSUME NEW r \in Requests, NEW j \in Keys, GetStale(r, j) \/ GetMiss(r, j)
        PROVE  /\ Outdated(k)' \subseteq Outdated(k)
               /\ Outdated(k) = {} /\ Current(k) => Current(k)'
    <3>1. \E t : Goto(r, t) /\ t.pc \notin {"body", "set"}
      <4>1. PICK v : \/ Goto(r, [pc |-> "stale", key |-> j, policy |-> v.policy])
                     \/ Goto(r, [pc |-> "wait", key |-> j, policy |-> v.policy,
                                 personal |-> v.personal])
        BY <2>1 DEF GetStale, GetMiss
      <4> QED
        BY <4>1
    <3>2. Outdated(k)' \subseteq Outdated(k)
      BY <1>1, <3>1, SameOutdated DEF Workers
    <3>3. (cache'[k] = None \/ cache'[k] = cache[k]) /\ UNCHANGED life
      BY <1>1, <2>1 DEF GetStale, GetMiss, TypeOK
    <3> QED
      BY <1>1, <3>2, <3>3, SameCurrent
  <2>2. ASSUME NEW r \in Requests, RevalidateBusy(r)
        PROVE  /\ Outdated(k)' \subseteq Outdated(k)
               /\ Outdated(k) = {} /\ Current(k) => Current(k)'
    <3>1. Idle.pc \notin {"body", "set"}
      BY DEF Idle
    <3> QED
      BY <1>1, <2>2, <3>1, SameOutdated, SameCurrent DEF RevalidateBusy, Workers
  <2>3. ASSUME NEW r \in Requests, NEW b \in Refreshers, Revalidate(r, b)
        PROVE  /\ Outdated(k)' \subseteq Outdated(k)
               /\ Outdated(k) = {} /\ Current(k) => Current(k)'
    <3>1. \A w \in Workers : task'[w] = task[w] \/ task'[w].pc \notin {"body", "set"}
      BY <1>1, <2>3 DEF Revalidate, BackgroundFetch, Idle, TypeOK
    <3>2. Outdated(k)' \subseteq Outdated(k)
      BY <1>1, <3>1 DEF Outdated, At
    <3> QED
      BY <1>1, <2>3, <3>2, SameCurrent DEF Revalidate
  <2>4. ASSUME NEW b \in Refreshers, Release(b)
        PROVE  /\ Outdated(k)' \subseteq Outdated(k)
               /\ Outdated(k) = {} /\ Current(k) => Current(k)'
    <3>1. Idle.pc \notin {"body", "set"}
      BY DEF Idle
    <3> QED
      BY <1>1, <2>4, <3>1, SameOutdated, SameCurrent DEF Release, Workers
  <2>5. ASSUME NEW j \in Keys, Age(j) \/ Evict(j) \/ ContentChanges(j)
        PROVE  /\ Outdated(k)' \subseteq Outdated(k)
               /\ Outdated(k) = {} /\ Current(k) => Current(k)'
    <3>1. Outdated(k)' = Outdated(k)
      BY <1>1, <2>5 DEF Age, Evict, ContentChanges, Outdated, At
    <3>2. cache'[k] = None \/ cache'[k] = cache[k]
      BY <1>1, <2>5 DEF Age, Evict, ContentChanges, TypeOK
    <3>3. life'[k] = "spent" \/ life[k] # "spent" \/ UNCHANGED life
      BY <1>1, <2>5 DEF Age, Evict, ContentChanges, TypeOK
    <3> QED
      BY <1>1, <3>1, <3>2, <3>3, SameCurrent
  <2>6. CASE UNCHANGED vars
    BY <2>6 DEF vars, Outdated, Current, At
  <2> QED
    BY <1>1, <2>1, <2>2, <2>3, <2>4, <2>5, <2>6, FetchStepCurrent DEF Next
<1>2. TypeOK /\ [Next]_vars =>
        [\A k \in Keys : origin'[k] = origin[k] =>
           /\ Outdated(k)' \subseteq Outdated(k)
           /\ Outdated(k) = {} /\ Current(k) => Current(k)']_vars
  BY <1>1
<1> QED
  BY <1>2, RefreshDiscipline, PTL DEF Spec, CurrentStays
=============================================================================

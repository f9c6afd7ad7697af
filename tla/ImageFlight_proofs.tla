------------------------- MODULE ImageFlight_proofs -------------------------
(***************************************************************************)
(* Proofs about ImageFlight, for any requests, option strings, sources,    *)
(* images and number of permits: one call runs per rendition and everybody *)
(* who waits waits for one that is running; permits are neither lost nor   *)
(* invented; nobody is given a rendition he did not ask for; what is       *)
(* transformed gets the size and the blur that were asked for; nobody      *)
(* waits in a circle, and failures do not spread.                          *)
(***************************************************************************)
EXTENDS ImageFlight, Renditions_proofs

\* Who holds a permit.
Holders == {r \in Requests : At(r, "transform") \/ At(r, "set")}

\* The inductive invariant.  The count of permits gives sem its lower bound,
\* and the map of calls says for whom a follower waits.
IInv == TypeOK /\ FlightsLed /\ PermitsExact /\ \A a \in Asks : cache[Key(a)] \in {a, None}

\* What each handler has in hand.
LEMMA TaskFacts ==
    ASSUME TypeOK, NEW r \in Requests
    PROVE  /\ ~At(r, "idle") => task[r].ask \in Asks
           /\ At(r, "permit") \/ At(r, "transform") => task[r].sound \in BOOLEAN
           /\ At(r, "land") => task[r].result \in Results
           /\ At(r, "join") => task[r].leader \in Requests
           /\ At(r, "idle") => task[r] = Idle
  BY DEF TypeOK, Tasks, At, Idle

\* Keys are renditions.
LEMMA KeysAsks == Keys = Asks
  BY DEF Keys, Key

\* At the start nothing runs and no permit is held.
LEMMA InitInvariant == Init => IInv
<1> SUFFICES ASSUME Init PROVE IInv
  OBVIOUS
<1>1. \A r \in Requests : task[r].pc = "idle"
  BY DEF Init, Idle
<1>2. TypeOK
  BY FlightAssumption DEF Init, TypeOK, Tasks
<1>3. FlightsLed
  BY <1>1, FlightAssumption DEF Init, FlightsLed, Leads, Leading, At
<1>4. PermitsExact
  <2>1. {r \in Requests : At(r, "transform") \/ At(r, "set")} = {}
    BY <1>1 DEF At
  <2> QED
    BY <2>1, FS_EmptySet DEF Init, PermitsExact
<1>5. \A a \in Asks : cache[Key(a)] \in {a, None}
  BY KeysAsks DEF Init, Key
<1> QED
  BY <1>2, <1>3, <1>4, <1>5 DEF IInv

-----------------------------------------------------------------------------
\* A handler that moves between stages in which it holds no permit, or
\* between those in which it does, leaves the holders as they are.
LEMMA SameHolders ==
    ASSUME TypeOK, NEW r \in Requests, NEW t, Goto(r, t),
           (t.pc \in {"transform", "set"}) <=> (At(r, "transform") \/ At(r, "set"))
    PROVE  Holders' = Holders
<1>1. task'[r] = t /\ \A s \in Requests \ {r} : task'[s] = task[s]
  BY DEF Goto, TypeOK
<1> QED
  BY <1>1 DEF Holders, At

\* One that takes a permit adds itself to them, ...
LEMMA MoreHolders ==
    ASSUME TypeOK, NEW r \in Requests, NEW t, Goto(r, t),
           t.pc \in {"transform", "set"}, ~(At(r, "transform") \/ At(r, "set"))
    PROVE  Cardinality(Holders') = Cardinality(Holders) + 1
<1>1. task'[r] = t /\ \A s \in Requests \ {r} : task'[s] = task[s]
  BY DEF Goto, TypeOK
<1>2. Holders' = Holders \cup {r} /\ r \notin Holders
  BY <1>1 DEF Holders, At
<1>3. IsFiniteSet(Holders)
  BY FlightAssumption, FS_Subset DEF Holders
<1> QED
  BY <1>2, <1>3, FS_AddElement

\* ... and one that gives it back was among them.
LEMMA FewerHolders ==
    ASSUME TypeOK, NEW r \in Requests, NEW t, Goto(r, t),
           t.pc \notin {"transform", "set"}, At(r, "transform") \/ At(r, "set")
    PROVE  /\ Cardinality(Holders') = Cardinality(Holders) - 1
           /\ Cardinality(Holders) \in Nat \ {0}
<1>1. task'[r] = t /\ \A s \in Requests \ {r} : task'[s] = task[s]
  BY DEF Goto, TypeOK
<1>2. Holders' = Holders \ {r} /\ r \in Holders
  BY <1>1 DEF Holders, At
<1>3. IsFiniteSet(Holders)
  BY FlightAssumption, FS_Subset DEF Holders
<1>4. Cardinality(Holders) \in Nat /\ Cardinality(Holders) # 0
  BY <1>2, <1>3, FS_CardinalityType, FS_EmptySet
<1> QED
  BY <1>2, <1>3, <1>4, FS_RemoveElement

\* The permits taken are those of the requests that hold one.
LEMMA PermitsHeld == PermitsExact <=> sem = Cardinality(Holders)
  BY DEF PermitsExact, Holders

-----------------------------------------------------------------------------
\* A leader that gets on with its call, or a handler that does not call Do,
\* leaves the map true.
LEMMA SameFlights ==
    ASSUME TypeOK, FlightsLed, NEW r \in Requests, NEW t, Goto(r, t),
           \/ task[r].pc \in Leading /\ t.pc \in Leading /\ t.ask = task[r].ask
           \/ task[r].pc \notin Leading /\ t.pc \notin Leading \cup {"join"},
           UNCHANGED flight
    PROVE  FlightsLed'
<1>1. task'[r] = t /\ \A s \in Requests \ {r} : task'[s] = task[s]
  BY DEF Goto, TypeOK
<1>2. \A s \in Requests, k \in Keys : Leads(s, k)' <=> Leads(s, k)
  BY <1>1 DEF Leads
<1>3. ASSUME NEW f \in Requests, At(f, "join")'
      PROVE  flight'[Key(task'[f].ask)] = task'[f].leader
  BY <1>1, <1>3 DEF FlightsLed, At, Leading
<1> QED
  BY <1>2, <1>3 DEF FlightsLed

\* What is stored under each key, if anything, is the rendition of its own.
Own == /\ cache \in [Keys -> Asks \cup {None}]
       /\ \A a \in Asks : cache[Key(a)] \in {a, None}

\* What the steps of a handler outside of Lead, Join and Land have in common:
\* the map stays true, and a permit moves with the stage or not at all.
LEMMA StageInvariant ==
    ASSUME IInv, NEW r \in Requests, NEW t \in Tasks, Goto(r, t),
           \/ task[r].pc \in Leading /\ t.pc \in Leading /\ t.ask = task[r].ask
           \/ task[r].pc \notin Leading /\ t.pc \notin Leading \cup {"join"},
           LET was == At(r, "transform") \/ At(r, "set")
               is  == t.pc \in {"transform", "set"}
           IN  \/ (is <=> was) /\ UNCHANGED sem
               \/ is /\ ~was /\ sem < Permits /\ sem' = sem + 1
               \/ ~is /\ was /\ sem' = sem - 1,
           Own', UNCHANGED <<flight, source>>
    PROVE  IInv'
<1> DEFINE was == At(r, "transform") \/ At(r, "set")
           is  == t.pc \in {"transform", "set"}
<1>1. FlightsLed'
  BY SameFlights DEF IInv
<1>2. sem \in 0..Permits /\ Permits \in Nat /\ sem = Cardinality(Holders)
  BY FlightAssumption, PermitsHeld DEF IInv, TypeOK
<1>3. sem' = Cardinality(Holders') /\ sem' \in 0..Permits
  <2>1. CASE (is <=> was) /\ UNCHANGED sem
    BY <2>1, <1>2, SameHolders DEF IInv
  <2>2. CASE is /\ ~was /\ sem < Permits /\ sem' = sem + 1
    BY <2>2, <1>2, MoreHolders DEF IInv
  <2>3. CASE ~is /\ was /\ sem' = sem - 1
    BY <2>3, <1>2, FewerHolders DEF IInv
  <2> QED
    BY <2>1, <2>2, <2>3
<1>4. TypeOK'
  BY <1>3 DEF IInv, TypeOK, Goto, Own
<1>5. PermitsExact'
  BY <1>3 DEF PermitsExact, Holders
<1> QED
  BY <1>1, <1>4, <1>5 DEF IInv, Own

\* What is cached was made for its key.
LEMMA StoreOwned == IInv => Own
  BY DEF IInv, TypeOK, Own

\* A request that misses has yet to call Do.
LEMMA MissInvariant ==
    ASSUME IInv, NEW r \in Requests, NEW a \in Asks, Miss(r, a)
    PROVE  IInv'
<1> DEFINE t == [pc |-> "do", ask |-> a]
<1>1. t \in Tasks /\ Goto(r, t) /\ t.pc \notin Leading \cup {"join"}
  BY DEF Miss, Tasks, Leading
<1>2. task[r].pc \notin Leading /\ ~At(r, "transform") /\ ~At(r, "set")
  BY DEF Miss, At, Leading
<1>3. Own' /\ UNCHANGED <<flight, source, sem>>
  BY StoreOwned DEF Miss, Own
<1> QED
  BY <1>1, <1>2, <1>3, StageInvariant

\* The stages of a call.
LEMMA CallInvariant ==
    ASSUME IInv, NEW r \in Requests,
           \/ Fetched(r) \/ FetchFails(r) \/ Acquire(r) \/ GiveUp(r)
           \/ Transformed(r) \/ TransformFails(r) \/ Set(r)
    PROVE  IInv'
<1> DEFINE a == task[r].ask
           land(result) == [pc |-> "land", ask |-> a, result |-> result]
<1>1. a \in Asks /\ task[r].pc \in Leading
  BY TaskFacts DEF IInv, Fetched, FetchFails, Acquire, GiveUp, Transformed, TransformFails, Set,
                   At, Leading
<1>2. \A result \in Results : land(result) \in Tasks
  BY <1>1 DEF Tasks
<1>3. "image" \in Results /\ "error" \in Results /\ "land" \in Leading
  BY DEF Results, Leading
<1>4. Own' /\ UNCHANGED <<flight, source>>
  <2>1. CASE Set(r)
    <3>1. cache' \in [Keys -> Asks \cup {None}]
      BY <1>1, <2>1 DEF Set, IInv, TypeOK
    <3>2. \A b \in Asks : cache'[Key(b)] \in {b, None}
      BY <1>1, <2>1 DEF Set, IInv, Keys, Key
    <3> QED
      BY <2>1, <3>1, <3>2 DEF Set, Own
  <2>2. CASE ~Set(r)
    BY <2>2, StoreOwned DEF Fetched, FetchFails, Acquire, GiveUp, Transformed, TransformFails, Own
  <2> QED
    BY <2>1, <2>2
<1>5. CASE Fetched(r)
  <2>1. PICK sound \in BOOLEAN : Goto(r, [pc |-> "permit", ask |-> a, sound |-> sound])
    BY <1>5 DEF Fetched
  <2>2. [pc |-> "permit", ask |-> a, sound |-> sound] \in Tasks
    BY <1>1 DEF Tasks
  <2> QED
    BY <1>1, <1>4, <1>5, <2>1, <2>2, StageInvariant DEF Fetched, At, Leading
<1>6. CASE FetchFails(r) \/ GiveUp(r)
  <2>1. Goto(r, land("error")) /\ UNCHANGED sem /\ ~At(r, "transform") /\ ~At(r, "set")
    BY <1>6 DEF FetchFails, GiveUp, Landing, At
  <2> QED
    BY <1>1, <1>2, <1>3, <1>4, <2>1, StageInvariant
<1>7. CASE Acquire(r)
  <2> DEFINE t == [pc |-> "transform", ask |-> a, sound |-> task[r].sound]
  <2>1. task[r].sound \in BOOLEAN /\ task[r] \in [pc : {"permit"}, ask : Asks, sound : BOOLEAN]
    BY <1>7 DEF Acquire, At, IInv, TypeOK, Tasks, Idle
  <2>2. t \in Tasks /\ t = [task[r] EXCEPT !.pc = "transform"]
    BY <1>1, <2>1 DEF Tasks
  <2>3. Goto(r, t) /\ ~At(r, "transform") /\ ~At(r, "set") /\ sem < Permits /\ sem' = sem + 1
    BY <1>7, <2>2 DEF Acquire, At
  <2> QED
    BY <1>1, <1>4, <2>2, <2>3, StageInvariant DEF Leading
<1>8. CASE Transformed(r)
  <2>1. [pc |-> "set", ask |-> a] \in Tasks
    BY <1>1 DEF Tasks
  <2>2. CASE Goto(r, [pc |-> "set", ask |-> a]) /\ UNCHANGED sem
    BY <1>1, <1>4, <1>8, <2>1, <2>2, StageInvariant DEF Transformed, Leading
  <2>3. CASE Landing(r, "image") /\ sem' = sem - 1
    BY <1>1, <1>2, <1>3, <1>4, <1>8, <2>3, StageInvariant DEF Transformed, Landing
  <2> QED
    BY <1>8, <2>2, <2>3 DEF Transformed
<1>9. CASE TransformFails(r) \/ Set(r)
  <2>1. PICK result \in Results : Goto(r, land(result))
    BY <1>3, <1>9 DEF TransformFails, Set, Landing
  <2>2. sem' = sem - 1 /\ (At(r, "transform") \/ At(r, "set"))
    BY <1>9 DEF TransformFails, Set
  <2> QED
    BY <1>1, <1>2, <1>3, <1>4, <2>1, <2>2, StageInvariant
<1> QED
  BY <1>5, <1>6, <1>7, <1>8, <1>9

\* A new call is entered where there is none.
LEMMA LeadInvariant ==
    ASSUME IInv, NEW r \in Requests, Lead(r)
    PROVE  IInv'
<1> DEFINE k == Key(task[r].ask)
           t == [pc |-> "fetch", ask |-> task[r].ask]
<1>1. task[r].ask \in Asks /\ k \in Keys /\ task[r].pc = "do"
  BY TaskFacts, KeysAsks DEF IInv, Lead, At, Key
<1>2. /\ task'[r] = t /\ \A s \in Requests \ {r} : task'[s] = task[s]
      /\ flight[k] = None /\ flight' = [flight EXCEPT ![k] = r]
      /\ UNCHANGED <<cache, sem, source>>
  BY DEF Lead, Goto, IInv, TypeOK
<1>3. TypeOK'
  BY <1>1, <1>2 DEF Lead, Goto, IInv, TypeOK, Tasks
<1>4. FlightsLed'
  <2>1. \A j \in Keys : Leads(r, j)' <=> j = k
    BY <1>1, <1>2 DEF Leads, Leading
  <2>2. \A j \in Keys : ~Leads(r, j)
    BY <1>1 DEF Leads, Leading
  <2>3. \A s \in Requests \ {r}, j \in Keys : Leads(s, j)' <=> Leads(s, j)
    BY <1>2 DEF Leads
  <2>4. \A s \in Requests : s # None
    BY FlightAssumption
  <2>5. \A s \in Requests, j \in Keys : Leads(s, j)' <=> flight'[j] = s
    BY <1>1, <1>2, <2>1, <2>2, <2>3, <2>4 DEF IInv, FlightsLed, TypeOK
  <2>6. ASSUME NEW f \in Requests, At(f, "join")'
        PROVE  flight'[Key(task'[f].ask)] = task'[f].leader
    <3>1. f # r /\ task'[f] = task[f] /\ At(f, "join")
      BY <1>2, <2>6 DEF At
    <3>2. task[f].leader \in Requests /\ Key(task[f].ask) \in Keys
      BY <3>1, TaskFacts, KeysAsks DEF IInv, At, Key
    <3> QED
      BY <1>2, <2>4, <3>1, <3>2 DEF IInv, FlightsLed, TypeOK
  <2> QED
    BY <2>5, <2>6 DEF FlightsLed
<1>5. PermitsExact'
  <2>1. Holders' = Holders
    BY <1>1, <1>2 DEF Holders, At
  <2> QED
    BY <1>2, <2>1 DEF IInv, PermitsExact, Holders
<1> QED
  BY <1>2, <1>3, <1>4, <1>5 DEF IInv

\* A follower waits for the leader that the map names.
LEMMA JoinInvariant ==
    ASSUME IInv, NEW r \in Requests, Join(r)
    PROVE  IInv'
<1> DEFINE t == [pc |-> "join", ask |-> task[r].ask, leader |-> flight[Key(task[r].ask)]]
<1>1. task[r].ask \in Asks /\ Key(task[r].ask) \in Keys /\ task[r].pc = "do"
  BY TaskFacts, KeysAsks DEF IInv, Join, At, Key
<1>2. /\ task'[r] = t /\ \A s \in Requests \ {r} : task'[s] = task[s]
      /\ UNCHANGED <<cache, flight, sem, source>>
  BY DEF Join, Goto, IInv, TypeOK
<1>3. t \in Tasks
  BY <1>1 DEF Join, IInv, TypeOK, Tasks
<1>4. TypeOK'
  BY <1>2, <1>3 DEF Join, Goto, IInv, TypeOK
<1>5. FlightsLed'
  <2>1. \A s \in Requests, j \in Keys : Leads(s, j)' <=> Leads(s, j)
    BY <1>1, <1>2 DEF Leads, Leading
  <2> QED
    BY <1>2, <2>1 DEF IInv, FlightsLed, At
<1>6. PermitsExact'
  <2>1. Holders' = Holders
    BY <1>1, <1>2 DEF Holders, At
  <2> QED
    BY <1>2, <2>1 DEF IInv, PermitsExact, Holders
<1> QED
  BY <1>2, <1>4, <1>5, <1>6 DEF IInv

\* A call leaves the map with everybody who waits for it.
LEMMA LandInvariant ==
    ASSUME IInv, NEW r \in Requests, Land(r)
    PROVE  IInv'
<1> DEFINE k == Key(task[r].ask)
<1>1. task[r].ask \in Asks /\ k \in Keys /\ task[r].pc = "land"
  BY TaskFacts, KeysAsks DEF IInv, Land, At, Key
<1>2. flight[k] = r
  BY <1>1 DEF IInv, FlightsLed, Leads, Leading
<1>3. /\ \A s \in Requests : task'[s] = IF s = r \/ s \in Followers(r) THEN Idle ELSE task[s]
      /\ flight' = [flight EXCEPT ![k] = None]
      /\ UNCHANGED <<cache, sem, source>>
  BY DEF Land
<1>4. TypeOK'
  BY <1>1, <1>3 DEF Land, IInv, TypeOK, Tasks
<1>5. \A s \in Followers(r) : s \in Requests /\ task[s].pc = "join" /\ task[s].leader = r
  BY DEF Followers, At
<1>6. FlightsLed'
  <2>1. \A j \in Keys : ~Leads(r, j)'
    BY <1>3 DEF Leads, Leading, Idle
  <2>2. \A s \in Requests \ {r}, j \in Keys : Leads(s, j)' <=> Leads(s, j)
    BY <1>3, <1>5 DEF Leads, Leading, Idle
  <2>3. \A s \in Requests : s # None
    BY FlightAssumption
  <2>4. \A j \in Keys \ {k} : flight[j] # r
    BY <1>1 DEF IInv, FlightsLed, Leads
  <2>5. \A s \in Requests, j \in Keys : Leads(s, j)' <=> flight'[j] = s
    BY <1>1, <1>2, <1>3, <2>1, <2>2, <2>3, <2>4 DEF IInv, FlightsLed, TypeOK
  <2>6. ASSUME NEW f \in Requests, At(f, "join")'
        PROVE  flight'[Key(task'[f].ask)] = task'[f].leader
    <3>1. f # r /\ f \notin Followers(r) /\ task'[f] = task[f] /\ At(f, "join")
      BY <1>3, <2>6 DEF At, Idle
    <3>2. task[f].leader # r /\ Key(task[f].ask) \in Keys
      BY <3>1, TaskFacts, KeysAsks DEF IInv, At, Key, Followers
    <3>3. flight[Key(task[f].ask)] = task[f].leader
      BY <3>1 DEF IInv, FlightsLed
    <3> QED
      BY <1>2, <1>3, <3>1, <3>2, <3>3 DEF IInv, TypeOK
  <2> QED
    BY <2>5, <2>6 DEF FlightsLed
<1>7. PermitsExact'
  <2>1. Holders' = Holders
    BY <1>1, <1>3, <1>5 DEF Holders, At, Idle
  <2> QED
    BY <1>3, <2>1 DEF IInv, PermitsExact, Holders
<1> QED
  BY <1>3, <1>4, <1>6, <1>7 DEF IInv

\* The environment touches no call.
LEMMA WorldInvariant ==
    ASSUME IInv, ConditionsChange \/ \E k \in Keys : Forget(k)
    PROVE  IInv'
<1>1. UNCHANGED <<flight, sem, task>> /\ source' \in Conditions
  BY DEF ConditionsChange, Forget, IInv, TypeOK
<1>2. Own'
  <2>1. CASE ConditionsChange
    BY <2>1, StoreOwned DEF ConditionsChange, Own
  <2>2. ASSUME NEW k \in Keys, cache' = [cache EXCEPT ![k] = None]
        PROVE  Own'
    BY <2>2, StoreOwned, KeysAsks DEF Own, Key
  <2> QED
    BY <2>1, <2>2 DEF Forget
<1>3. TypeOK'
  BY <1>1, <1>2 DEF IInv, TypeOK, Own
<1>4. FlightsLed' /\ PermitsExact'
  BY <1>1 DEF IInv, FlightsLed, PermitsExact, Leads, At
<1> QED
  BY <1>2, <1>3, <1>4 DEF IInv, Own

-----------------------------------------------------------------------------
\* Every step keeps the invariant.
LEMMA InvariantStep == IInv /\ [Next]_vars => IInv'
<1> SUFFICES ASSUME IInv, [Next]_vars PROVE IInv'
  OBVIOUS
<1>1. ASSUME NEW r \in Requests, NEW a \in Asks, Miss(r, a) PROVE IInv'
  BY <1>1, MissInvariant
<1>2. ASSUME NEW r \in Requests, Step(r) \/ GiveUp(r) PROVE IInv'
  BY <1>2, LeadInvariant, JoinInvariant, CallInvariant, LandInvariant DEF Step
<1>3. CASE ConditionsChange \/ \E k \in Keys : Forget(k)
  BY <1>3, WorldInvariant
<1>4. CASE UNCHANGED vars
  BY <1>4 DEF vars, IInv, TypeOK, FlightsLed, PermitsExact, Leads, At
<1> QED
  BY <1>1, <1>2, <1>3, <1>4 DEF Next

\* One call per rendition, led by a request that is running it; permits that
\* are exactly those of the transforms under way.
THEOREM FlightDiscipline == Spec => [](TypeOK /\ FlightsLed /\ PermitsExact)
<1>1. IInv => TypeOK /\ FlightsLed /\ PermitsExact
  BY DEF IInv
<1> QED
  BY <1>1, InitInvariant, InvariantStep, PTL DEF Spec

\* Whoever joins a call asked for what it makes, and what the cache holds
\* under a key is the rendition that every request with this key asks for.
THEOREM SharedIsOwn == Spec => []OwnRendition
<1>1. IInv => OwnRendition
  <2> SUFFICES ASSUME IInv, NEW f \in Requests, At(f, "join")
               PROVE  task[task[f].leader].ask = task[f].ask
    BY DEF IInv, OwnRendition
  <2>1. task[f].leader \in Requests /\ Key(task[f].ask) \in Keys
    BY TaskFacts, KeysAsks DEF IInv, At, Key
  <2>2. flight[Key(task[f].ask)] = task[f].leader
    BY DEF IInv, FlightsLed
  <2>3. Leads(task[f].leader, Key(task[f].ask))
    BY <2>1, <2>2 DEF IInv, FlightsLed
  <2> QED
    BY <2>3 DEF Leads, Key
<1> QED
  BY <1>1, InitInvariant, InvariantStep, PTL DEF Spec

-----------------------------------------------------------------------------
\* What a transform under way was asked for passed Parse.
LEMMA TransformAsks ==
    ASSUME TypeOK, NEW r \in Requests, At(r, "transform")
    PROVE  task[r].ask.text \in Texts /\ Accepted(task[r].ask.text)
<1>1. task[r].ask \in Asks
  BY TaskFacts DEF At
<1> QED
  BY <1>1 DEF Asks

\* Under any fit and ratio, an accepted option string makes images of the
\* documented size.
LEMMA TextsSized ==
    ASSUME NEW t \in Texts, Accepted(t)
    PROVE  t \in SizedTexts
<1> SUFFICES ASSUME NEW p \in Variants(t), NEW img \in Images
             PROVE  /\ NotUpscaled(img, p) /\ SizeMet(img, p)
                    /\ SizeCapped(img, p) /\ ShapeKept(img, p)
  BY DEF SizedTexts, RightSize
<1>1. WellTyped(t) /\ Sized(img)
  BY ImagesAssumption
<1>2. PICK f \in Fits, d \in (One \div 2)..(3 * One) : p = Under(Params(t), f, d)
  BY DEF Variants
<1>3. /\ p.width = Params(t).width /\ p.height = Params(t).height
      /\ p.fit = f /\ p.dpr = d
  BY <1>2 DEF Under, Params
<1>4. Wanted(p)
  BY <1>1, <1>3, DimsWithin DEF Wanted
<1> QED
  BY <1>1, <1>4, NeverUpscaled, SizesMet, SizesCapped, ShapesKept

\* Every transform under way makes an image of the size that was asked for,
\* in the documented proportions, whatever the source sends.
THEOREM SizesRight == Spec => []RenditionSized
<1>1. TypeOK => RenditionSized
  BY TransformAsks, TextsSized DEF RenditionSized
<1> QED
  BY <1>1, FlightDiscipline, PTL

\* Every option string blurs as documented.
LEMMA TextsBlurred ==
    ASSUME NEW t \in Texts
    PROVE  t \in BlurredTexts
<1>1. WellTyped(t) /\ Radius(Params(t).blur) \in Int
  BY ImagesAssumption, RadiusNumber
<1>2. ASSUME NEW img \in Samples, NEW radius \in 0..Radius(Params(t).blur)
      PROVE  BlurMeans(img, radius) /\ BlurMirrors(img, radius) /\ BlurKeepsAlpha(img, radius)
  <2>1. IsChannel(img) /\ radius \in Nat
    BY <1>1, ImagesAssumption
  <2> QED
    BY <2>1, MeansBlurred, MirrorsBlurred, AlphaBlurred
<1> QED
  BY <1>2 DEF BlurredTexts, BlurRight

\* Every transform under way blurs by the mean of each pixel's surroundings, in
\* no direction more than in another, and leaves an image opaque or transparent.
THEOREM BlursRight == Spec => []BlurExact
<1>1. TypeOK => BlurExact
  BY TransformAsks, TextsBlurred DEF BlurExact
<1> QED
  BY <1>1, FlightDiscipline, PTL

-----------------------------------------------------------------------------
(***************************************************************************)
(* What EveryoneAnswered and FailuresEnd rest on, fairness aside: waiting  *)
(* ends at a request that can move, and failures do not spread.            *)
(***************************************************************************)

\* The requests whose own next step waits for nothing: their stage's guard,
\* other than its place in the handler, is that a permit is free.
CanMove(r) == \/ task[r].pc \in {"do", "fetch", "transform", "set", "land"}
              \/ At(r, "permit") /\ sem < Permits

\* Whom a request waits for: the leader of its call, or, when that waits for a
\* permit and none is free, those who hold one.
Leader(r) == IF At(r, "join") THEN task[r].leader ELSE r
WaitsFor(r) == IF At(Leader(r), "permit") /\ sem = Permits THEN Holders ELSE {Leader(r)}

\* Nobody waits for one who waits for him: among those a request under way
\* waits for, followers of calls and leaders without a permit included, one
\* can move.
NobodyStuck == \A r \in Requests : ~At(r, "idle") => \E s \in WaitsFor(r) : CanMove(s)

\* A handler takes a step of its own only if it can move.
LEMMA MovesOnlyFree ==
    ASSUME NEW r \in Requests, Step(r)
    PROVE  CanMove(r)
  BY DEF Step, Lead, Join, Fetched, FetchFails, Acquire, Transformed, TransformFails, Set, Land,
         CanMove, At

\* The stages of a handler.
LEMMA Stages ==
    ASSUME TypeOK, NEW r \in Requests
    PROVE  task[r].pc \in {"idle", "do", "join"} \cup Leading
  BY DEF TypeOK, Tasks, Idle, Leading

\* No request waits in a circle, in singleflight or for a permit.
THEOREM NoCircularWait == Spec => []NobodyStuck
<1>1. ASSUME IInv PROVE NobodyStuck
  <2> SUFFICES ASSUME NEW r \in Requests, ~At(r, "idle")
               PROVE  \E s \in WaitsFor(r) : CanMove(s)
    BY DEF NobodyStuck
  <2> DEFINE l == Leader(r)
  <2>1. l \in Requests /\ (task[l].pc = "do" \/ task[l].pc \in Leading)
    <3>1. CASE At(r, "join")
      <4>1. task[r].leader \in Requests /\ Key(task[r].ask) \in Keys
        BY <1>1, <3>1, TaskFacts, KeysAsks DEF IInv, At, Key
      <4>2. flight[Key(task[r].ask)] = task[r].leader
        BY <1>1, <3>1 DEF IInv, FlightsLed
      <4>3. Leads(task[r].leader, Key(task[r].ask))
        BY <1>1, <4>1, <4>2 DEF IInv, FlightsLed
      <4> QED
        BY <3>1, <4>1, <4>3 DEF Leads, Leader
    <3>2. CASE ~At(r, "join")
      BY <1>1, <3>2, Stages DEF IInv, At, Leader
    <3> QED
      BY <3>1, <3>2
  <2>2. sem = Cardinality(Holders) /\ sem \in 0..Permits /\ Permits \in Nat \ {0}
    BY <1>1, PermitsHeld, FlightAssumption DEF IInv, TypeOK
  <2> HIDE DEF l
  <2>3. CASE At(l, "permit") /\ sem = Permits
    <3>1. Holders # {}
      BY <2>2, <2>3, FS_EmptySet
    <3>2. PICK h \in Holders : TRUE
      BY <3>1
    <3>3. CanMove(h)
      BY <3>2 DEF Holders, CanMove, At
    <3> QED
      BY <2>3, <3>2, <3>3 DEF WaitsFor, l
  <2>4. CASE ~(At(l, "permit") /\ sem = Permits)
    <3>1. CanMove(l)
      BY <2>1, <2>2, <2>4 DEF CanMove, At, Leading
    <3> QED
      BY <2>4, <3>1 DEF WaitsFor, l
  <2> QED
    BY <2>3, <2>4
<1> QED
  BY <1>1, InitInvariant, InvariantStep, PTL DEF Spec

\* The calls that will end, or have ended, with an error.
Failing == {r \in Requests : \/ At(r, "land") /\ task[r].result = "error"
                             \/ (At(r, "permit") \/ At(r, "transform")) /\ ~task[r].sound}

\* While sources are good, a call begins to fail only by its own leader's giving
\* up its wait for a permit: neither the requests that join a failing call, nor
\* those that begin another for its key, nor the failures themselves bring about
\* a further one.
FailuresOnlyEnd == [][source = "good" => \A r \in Failing' \ Failing : GiveUp(r)]_vars

\* A handler that goes on to a stage that is no failure leaves the others'.
LEMMA SameFailing ==
    ASSUME TypeOK, NEW r \in Requests, NEW t, Goto(r, t),
           \/ r \in Failing
           \/ /\ ~(t.pc = "land" /\ t.result = "error")
              /\ ~(t.pc \in {"permit", "transform"} /\ ~t.sound)
    PROVE  Failing' \subseteq Failing
<1>1. task'[r] = t /\ \A s \in Requests \ {r} : task'[s] = task[s]
  BY DEF Goto, TypeOK
<1> QED
  BY <1>1 DEF Failing, At

\* A failure comes of a condition that is not good, or of a wait for a permit
\* that its leader gave up, and stays with its call.
THEOREM FailuresDoNotSpread == Spec => FailuresOnlyEnd
<1>1. ASSUME TypeOK, [Next]_vars, source = "good"
      PROVE  \A r \in Failing' \ Failing : GiveUp(r)
  <2>1. ASSUME NEW r \in Requests, NEW a \in Asks, Miss(r, a) PROVE Failing' \subseteq Failing
    BY <1>1, <2>1, SameFailing DEF Miss
  <2>2. ASSUME NEW r \in Requests, Lead(r) \/ Join(r) PROVE Failing' \subseteq Failing
    BY <1>1, <2>2, SameFailing DEF Lead, Join
  <2>3. ASSUME NEW r \in Requests, Fetched(r) PROVE Failing' \subseteq Failing
    BY <1>1, <2>3, SameFailing DEF Fetched
  <2>4. ~\E r \in Requests : FetchFails(r)
    BY <1>1 DEF FetchFails
  <2>10. ASSUME NEW r \in Requests, GiveUp(r) PROVE \A s \in Failing' \ Failing : s = r
    BY <1>1, <2>10 DEF GiveUp, Landing, Goto, TypeOK, Failing, At
  <2>5. ASSUME NEW r \in Requests, Acquire(r) PROVE Failing' \subseteq Failing
    <3> DEFINE t == [task[r] EXCEPT !.pc = "transform"]
    <3>1. task[r] \in [pc : {"permit"}, ask : Asks, sound : BOOLEAN]
      BY <1>1, <2>5 DEF Acquire, At, TypeOK, Tasks, Idle
    <3>2. t.pc = "transform" /\ t.sound = task[r].sound
      BY <3>1
    <3>3. Goto(r, t) /\ At(r, "permit")
      BY <2>5 DEF Acquire
    <3>4. r \in Failing \/ t.sound
      BY <3>2, <3>3 DEF Failing
    <3> HIDE DEF t
    <3> QED
      BY <1>1, <3>2, <3>3, <3>4, SameFailing
  <2>6. ASSUME NEW r \in Requests, Transformed(r) \/ Set(r) PROVE Failing' \subseteq Failing
    BY <1>1, <2>6, SameFailing DEF Transformed, Set, Landing
  <2>7. ASSUME NEW r \in Requests, TransformFails(r) PROVE Failing' \subseteq Failing
    <3>1. r \in Failing /\ \E t : Goto(r, t)
      BY <2>7 DEF TransformFails, Landing, Failing
    <3> QED
      BY <1>1, <3>1, SameFailing
  <2>8. ASSUME NEW r \in Requests, Land(r) PROVE Failing' \subseteq Failing
    BY <2>8 DEF Land, Failing, At, Idle
  <2>9. CASE ConditionsChange \/ (\E k \in Keys : Forget(k)) \/ UNCHANGED vars
    BY <2>9 DEF ConditionsChange, Forget, vars, Failing, At
  <2> QED
    BY <1>1, <2>1, <2>2, <2>3, <2>4, <2>5, <2>6, <2>7, <2>8, <2>9, <2>10 DEF Next, Step
<1>2. TypeOK /\ [Next]_vars => [source = "good" => \A r \in Failing' \ Failing : GiveUp(r)]_vars
  BY <1>1
<1> QED
  BY <1>2, FlightDiscipline, PTL DEF Spec, FailuresOnlyEnd
=============================================================================

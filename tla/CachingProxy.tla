---------------------------- MODULE CachingProxy ----------------------------
(***************************************************************************)
(* internal/proxy: how a cacheable request to an active domain is answered *)
(* from the cache, by a fetch from the origin, or by a stale copy that is  *)
(* revalidated in the background (proxy.go), and what a fetch leaves in    *)
(* the cache (recorder.go).                                                *)
(*                                                                         *)
(* The cache is the store that LossyStore specifies and ObjectCache        *)
(* implements, with the age of each entry beside it.  A response is        *)
(* reduced to the version of the content it carries and to whether its     *)
(* body is whole.  The origin and httputil.ReverseProxy are external: a    *)
(* fetch is answered with the content of that moment, and its body may end *)
(* early.  Whether a request may use the cache and a response be kept is   *)
(* decided by CachePolicy, under the policy of the domain's snapshot; what *)
(* an object must not be made from is remembered as personal.  Websocket   *)
(* and uncacheable requests never touch the cache and are left out, and so *)
(* is a fresh hit, which changes nothing.                                  *)
(***************************************************************************)
EXTENDS DomainSettings, FiniteSets

CONSTANTS Keys,         \* cache keys of the requests
          Requests,     \* client requests being handled
          Refreshers,   \* background revalidation goroutines
          Records,      \* config records an owner may publish
          Responses,    \* headers of the origin's responses
          MaxVersion,   \* bound on how often a resource changes
          None

ASSUME ProxyAssumption ==
    /\ Requests \cap Refreshers = {}
    /\ Responses \subseteq Response
    /\ \A record \in Records : WellTyped(record)
    /\ MaxVersion \in Nat

\* The policies of the domain's snapshots.
Policies == {PolicyOf(ParseSettings(record)) : record \in Records}

Workers == Requests \cup Refreshers
Versions == 0..MaxVersion
Objects == [version : Versions, whole : BOOLEAN, personal : BOOLEAN]

ASSUME NoneAssumption == None \notin Objects

VARIABLES origin,      \* the version of each resource at its origin
          cache,       \* the object stored under each key, or None
          life,        \* its age: within TTL, within StaleFor, past both
          refreshing,  \* Proxy.refreshing
          task         \* what each handler and goroutine is doing

vars == <<origin, cache, life, refreshing, task>>

Idle == [pc |-> "idle"]

\* stale: holds a stale object, about to revalidate.  wait: the origin has
\* not answered.  body: it answered with a cacheable response of this version.
\* set: about to store the object.  release: about to leave refreshing.
Tasks == [pc : {"release"}, key : Keys]
         \cup [pc : {"stale"}, key : Keys, policy : Policies]
         \cup [pc : {"wait"}, key : Keys, policy : Policies, personal : BOOLEAN]
         \cup [pc : {"body"}, key : Keys, version : Versions, personal : BOOLEAN]
         \cup [pc : {"set"}, key : Keys, obj : Objects]
         \cup {Idle}

Lives == {"fresh", "stale", "spent"}

Init == /\ origin = [k \in Keys |-> 0]
        /\ cache = [k \in Keys |-> None]
        /\ life = [k \in Keys |-> "spent"]
        /\ refreshing = {}
        /\ task = [w \in Workers |-> Idle]

Goto(w, t) == task' = [task EXCEPT ![w] = t]
At(w, pc) == task[w].pc = pc

\* Mutation: handlers run the goroutine's deferred function too.
DoneReleasing(w) == [pc |-> "release", key |-> task[w].key]

\* Mutation: the goroutine ends without its deferred function.
DoneWithoutDefer(w) == Idle

\* A worker is through with its fetch: a handler returns, a goroutine runs
\* its deferred function.
Done(w) == IF w \in Requests THEN Idle ELSE [pc |-> "release", key |-> task[w].key]

-----------------------------------------------------------------------------
\* The cacheable requests: their policy, and whether they carry credentials.
Visits == {[policy |-> v[1], personal |-> Personal(v[1], v[2])] :
             v \in {u \in Policies \X SUBSET Features : CacheableRequest(u[1], u[2])}}

\* The responses that each policy keeps: whether they are not for everybody.
Kept == {[policy |-> a[1], personal |-> Unshareable(a[2])] :
           a \in {b \in Policies \X Responses : ResponseTTL(b[1], b[2]) > 0}}

\* ServeHTTP, Get reporting Stale.
GetStale(r, k) ==
    /\ At(r, "idle")
    /\ cache[k] # None /\ life[k] = "stale"
    /\ \E v \in Visits : Goto(r, [pc |-> "stale", key |-> k, policy |-> v.policy])
    /\ UNCHANGED <<origin, cache, life, refreshing>>

\* ServeHTTP, Get reporting Miss, which drops an entry past its stale window.
GetMiss(r, k) ==
    /\ At(r, "idle")
    /\ cache[k] = None \/ life[k] = "spent"
    /\ cache' = [cache EXCEPT ![k] = None]
    /\ \E v \in Visits : Goto(r, [pc |-> "wait", key |-> k, policy |-> v.policy,
                                  personal |-> v.personal])
    /\ UNCHANGED <<origin, life, refreshing>>

\* revalidate, a refresh of the key being under way: nothing is started.
RevalidateBusy(r) ==
    /\ At(r, "stale")
    /\ task[r].key \in refreshing
    /\ Goto(r, Idle)
    /\ UNCHANGED <<origin, cache, life, refreshing>>

\* The request revalidate builds from scratch: it carries no credentials.
BackgroundFetch(r) == [pc |-> "wait", key |-> task[r].key, policy |-> task[r].policy,
                       personal |-> FALSE]

\* Mutation: the key is claimed without looking whether it is.
RevalidateUnchecked(r, b) ==
    /\ At(r, "stale")
    /\ At(b, "idle")
    /\ refreshing' = refreshing \cup {task[r].key}
    /\ task' = [task EXCEPT ![r] = Idle, ![b] = BackgroundFetch(r)]
    /\ UNCHANGED <<origin, cache, life>>

\* revalidate: the key is claimed and a goroutine started; the client gets
\* its stale copy without waiting.
Revalidate(r, b) ==
    /\ At(r, "stale")
    /\ task[r].key \notin refreshing
    /\ At(b, "idle")
    /\ refreshing' = refreshing \cup {task[r].key}
    /\ task' = [task EXCEPT ![r] = Idle, ![b] = BackgroundFetch(r)]
    /\ UNCHANGED <<origin, cache, life>>

-----------------------------------------------------------------------------
Receiving(w, personal) ==
    [pc |-> "body", key |-> task[w].key, version |-> origin[task[w].key],
     personal |-> task[w].personal \/ personal]

\* The origin answers with a response that the policy keeps: WriteHeader
\* starts recording.
Respond(w) ==
    /\ At(w, "wait")
    /\ \E a \in Kept : a.policy = task[w].policy /\ Goto(w, Receiving(w, a.personal))
    /\ UNCHANGED <<origin, cache, life, refreshing>>

\* Mutation: a failed fetch gives the stale copy another TTL.
DiscardRenewing(w) ==
    /\ At(w, "wait") \/ At(w, "body")
    /\ Goto(w, Done(w))
    /\ life' = [life EXCEPT ![task[w].key] = IF @ = "stale" THEN "fresh" ELSE @]
    /\ UNCHANGED <<origin, cache, refreshing>>

\* Mutation: it does so to a copy past its stale window as well.
DiscardReviving(w) ==
    /\ At(w, "wait") \/ At(w, "body")
    /\ Goto(w, Done(w))
    /\ life' = [life EXCEPT ![task[w].key] = "fresh"]
    /\ UNCHANGED <<origin, cache, refreshing>>

\* No object comes of the fetch: the origin fails or times out, the response
\* is not cacheable, its body outgrows MaxObjectBytes, or Set refuses it.
Discard(w) ==
    /\ At(w, "wait") \/ At(w, "body")
    /\ Goto(w, Done(w))
    /\ UNCHANGED <<origin, cache, life, refreshing>>

\* object(): what was recorded, whole or not.
Storing(w, whole) ==
    [pc |-> "set", key |-> task[w].key,
     obj |-> [version |-> task[w].version, whole |-> whole, personal |-> task[w].personal]]

\* The body has arrived: object() is handed to Set.
Complete(w) ==
    /\ At(w, "body")
    /\ Goto(w, Storing(w, TRUE))
    /\ UNCHANGED <<origin, cache, life, refreshing>>

\* The body ends early.  ReverseProxy aborts the handler of a client request
\* with a panic, so nothing is stored; a request without a server in its
\* context, as revalidate builds it, just returns, and object() takes what was
\* recorded.
Truncate(w) ==
    /\ At(w, "body")
    /\ IF w \in Requests
       THEN Goto(w, Idle)
       ELSE Goto(w, Storing(w, FALSE))
    /\ UNCHANGED <<origin, cache, life, refreshing>>

\* cache.Set: the key gets the object; entries of other keys may make room.
Store(w) ==
    /\ At(w, "set")
    /\ \E lost \in SUBSET (Keys \ {task[w].key}) :
         cache' = [k \in Keys |-> IF k = task[w].key THEN task[w].obj
                                  ELSE IF k \in lost THEN None ELSE cache[k]]
    /\ life' = [life EXCEPT ![task[w].key] = "fresh"]
    /\ Goto(w, Done(w))
    /\ UNCHANGED <<origin, refreshing>>

\* The goroutine's deferred function.
Release(b) ==
    /\ At(b, "release")
    /\ refreshing' = refreshing \ {task[b].key}
    /\ Goto(b, Idle)
    /\ UNCHANGED <<origin, cache, life>>

-----------------------------------------------------------------------------
\* TTL or StaleFor runs out (without a stale window an entry is spent at once).
Age(k) ==
    /\ cache[k] # None
    /\ \/ life[k] = "fresh" /\ life' \in {[life EXCEPT ![k] = a] : a \in {"stale", "spent"}}
       \/ life[k] = "stale" /\ life' = [life EXCEPT ![k] = "spent"]
    /\ UNCHANGED <<origin, cache, refreshing, task>>

\* The cache forgets an entry: another key's Set or a budget cut took its room.
Evict(k) ==
    /\ cache[k] # None
    /\ cache' = [cache EXCEPT ![k] = None]
    /\ UNCHANGED <<origin, life, refreshing, task>>

ContentChanges(k) ==
    /\ origin[k] < MaxVersion
    /\ origin' = [origin EXCEPT ![k] = @ + 1]
    /\ UNCHANGED <<cache, life, refreshing, task>>

FetchStep(w) == Respond(w) \/ Discard(w) \/ Complete(w) \/ Truncate(w) \/ Store(w)

Next == \/ \E r \in Requests, k \in Keys : GetStale(r, k) \/ GetMiss(r, k)
        \/ \E r \in Requests : \/ RevalidateBusy(r)
                               \/ \E b \in Refreshers : Revalidate(r, b)
        \/ \E w \in Workers : FetchStep(w)
        \/ \E b \in Refreshers : Release(b)
        \/ \E k \in Keys : Age(k) \/ Evict(k) \/ ContentChanges(k)

Spec == Init /\ [][Next]_vars

\* A background fetch has a deadline of one minute, so its goroutine always
\* gets on; clocks always do.  A client's own fetch may hang for ever.
Fairness == /\ \A b \in Refreshers : WF_vars(FetchStep(b) \/ Release(b))
            /\ \A k \in Keys : WF_vars(Age(k))

FairSpec == Spec /\ Fairness

-----------------------------------------------------------------------------
TypeOK == /\ origin \in [Keys -> Versions]
          /\ cache \in [Keys -> Objects \cup {None}]
          /\ life \in [Keys -> Lives]
          /\ refreshing \subseteq Keys
          /\ task \in [Workers -> Tasks]
          /\ \A b \in Refreshers : task[b].pc # "stale"
          /\ \A r \in Requests : task[r].pc # "release"

\* The comment on revalidate: at most one background refresh runs per key,
\* however many stale hits race (the check and the claim are one section).
OneRefreshPerKey ==
    \A b, c \in Refreshers :
        ~At(b, "idle") /\ ~At(c, "idle") /\ task[b].key = task[c].key => b = c

\* A claim belongs to a goroutine that is still running, so no outcome of a
\* fetch leaves a key that can never be refreshed again.
ClaimsHeld ==
    refreshing = {task[b].key : b \in {c \in Refreshers : ~At(c, "idle")}}

\* The fetches under way that received an older content of the resource.
Outdated(k) ==
    {w \in Workers : \/ At(w, "body") /\ task[w].key = k /\ task[w].version # origin[k]
                     \/ At(w, "set") /\ task[w].key = k /\ task[w].obj.version # origin[k]}

\* Nobody is served what the resource was before.
Current(k) == cache[k] = None \/ life[k] = "spent" \/ cache[k].version = origin[k]

\* Between two changes of a resource no fetch becomes outdated; once those
\* that are have ended, and the cache has nothing older, it stays so whatever
\* stale copies are refreshed, failing, or dropped.
CurrentStays ==
    [][\A k \in Keys : origin'[k] = origin[k] =>
         /\ Outdated(k)' \subseteq Outdated(k)
         /\ Outdated(k) = {} /\ Current(k) => Current(k)']_vars

\* Once a resource stops changing, the versions before its last one die out,
\* whatever the origin does: slow fetches that store old content, and failing
\* revalidations that leave a stale copy in place, only delay it.
OldContentDies ==
    \A k \in Keys : \A v \in Versions :
        <>[](origin[k] = v)
            => <>[](cache[k] = None \/ life[k] = "spent" \/ cache[k].version = v)

\* A claimed key is given back, so the next stale hit refreshes it again.
RefreshEnds == \A k \in Keys : k \in refreshing ~> k \notin refreshing

\* docs/caching.md:51-69: what is in the cache, and so may be sent to anybody,
\* was neither made from a request with credentials nor marked by its origin
\* as not for everybody, whichever policies and lines of headers met.
NothingPersonal == \A k \in Keys : cache[k] # None => ~cache[k].personal

\* The policies that keep every response for a TTL within the bounds, if it
\* is not larger than the node allows.
BoundedPolicies == {p \in Policies \cap Policy :
    /\ p.maxObject \in 1..NodeCap
    /\ \A x \in Responses : ResponseTTL(p, x) \in 0..MaxTTL \cup {p.ttl}}

\* However many seconds an origin asks for, or bytes an owner, even more than
\* 64 bits hold, what a fetch under way may store gets no more than seven days,
\* or the TTL of the owner's record at the time of the request, and stays
\* within the node's cap; every record makes some policy.
LimitsKept == \A w \in Workers : At(w, "wait") => task[w].policy \in BoundedPolicies

\* The pairs of policies of which the second keeps whatever the first keeps,
\* for the same time.
KeepsAsLong == {u \in {<<p, q>> : p, q \in Policies} :
    \A x \in Responses : ResponseTTL(u[1], x) > 0 => ResponseTTL(u[2], x) = ResponseTTL(u[1], x)}

\* policy.go:13-15: aggressive mode "additionally caches" what standard mode
\* does not.  So when the owner switches to it while fetches are under way,
\* those that still follow standard mode and those that do not give a response
\* that both keep the same time, whichever stores last.
ModesOrdered ==
    \A v, w \in Workers :
        /\ At(v, "wait") /\ task[v].policy.mode = "standard"
        /\ At(w, "wait") /\ task[w].policy.mode = "aggressive"
        /\ task[v].policy.ttl = task[w].policy.ttl
        => <<task[v].policy, task[w].policy>> \in KeepsAsLong

-----------------------------------------------------------------------------
\* proxy.go:156-158: "a failed or no-longer cacheable fetch leaves the stale
\* entry in place": what the cache holds is never part of a response.
CachedWhole == \A k \in Keys : cache[k] # None => cache[k].whole
=============================================================================

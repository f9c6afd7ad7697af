---------------------------- MODULE ImageFlight ----------------------------
(***************************************************************************)
(* internal/imgcdn: the /img/ endpoint (imgcdn.go).  Requests for one      *)
(* rendition share one fetch and one transform (singleflight.Group.Do),    *)
(* run by the first of them, the leader, inside its own handler and under  *)
(* its own context; transforms take a permit from the channel sem; the     *)
(* result goes to the shared object cache and to everybody who joined.     *)
(*                                                                         *)
(* A rendition is reduced to what it was made for: the option string and   *)
(* the source.  The cache is the store LossyStore specifies, which also    *)
(* forgets what is past its seven days.  singleflight is external: Do      *)
(* looks a call up or enters one under its mutex, and delivers the outcome *)
(* (a panic, too, which it raises in each of the callers) and removes the  *)
(* call in one section of it.  The source server and the clients are the   *)
(* environment.  Left out, as they change nothing: cache hits, and         *)
(* requests that are refused before the cache is asked (method, URL,       *)
(* options, a source on this node).                                        *)
(***************************************************************************)
EXTENDS ImageParams, ImagePixels, FiniteSets

CONSTANTS Requests,  \* handlers of concurrent requests
          Texts,     \* option strings in use
          Sources,   \* URLs of source images
          Images,    \* sizes of images that sources may send
          Samples,   \* one channel of images that may be blurred
          Permits,   \* capacity of sem
          None

ASSUME FlightAssumption ==
    /\ IsFiniteSet(Requests)
    /\ Permits \in Nat \ {0, 1}
    /\ None \notin Requests

\* What Parse takes apart and what decoders return.
ASSUME ImagesAssumption ==
    /\ \A t \in Texts : WellTyped(t)
    /\ \A img \in Images : Sized(img)
    /\ \A img \in Samples : IsChannel(img)

\* What a request asks for, once its options are parsed.
Asks == [text : {t \in Texts : Accepted(t)}, source : Sources]

\* Mutation: the options are left out of the key.
KeyOfSource(a) == [text |-> <<>>, source |-> a.source]

\* cache.Key of the options and the source.
Key(a) == a
Keys == {Key(a) : a \in Asks}

ASSUME NoneAssumption == None \notin Asks

VARIABLES cache,   \* the rendition stored under each key, or None
          flight,  \* singleflight's map: the leader of each key's call, or None
          sem,     \* permits taken
          task,    \* what each handler is doing
          source   \* how the environment behaves

vars == <<cache, flight, sem, task, source>>

Idle == [pc |-> "idle"]

\* What all who wait are answered with: the rendition, or an error (of which a
\* source's 404 is shown as a picture).
Results == {"image", "error"}

\* do: missed the cache, about to call Do.  join: waits for the leader's call.
\* The leader's stages: fetch; permit (waits for one); transform; set; land
\* (optimize has returned, the call is still in the map).  sound: Transform
\* makes the rendition of what was fetched: it is an image of a known format,
\* not cut off, within maxSrcPixels, and the encoder takes the result.
Tasks == {Idle}
         \cup [pc : {"do", "fetch", "set"}, ask : Asks]
         \cup [pc : {"permit", "transform"}, ask : Asks, sound : BOOLEAN]
         \cup [pc : {"land"}, ask : Asks, result : Results]
         \cup [pc : {"join"}, ask : Asks, leader : Requests]

Leading == {"fetch", "permit", "transform", "set", "land"}

\* How fetches go.  "good": sources send, in time, what the renditions asked
\* for can be made of, and clients wait for it.  "bad": anything may fail, hang
\* or be something else, and clients may leave.
Conditions == {"good", "bad"}

At(r, pc) == task[r].pc = pc
Goto(r, t) == task' = [task EXCEPT ![r] = t]
Landing(r, result) == Goto(r, [pc |-> "land", ask |-> task[r].ask, result |-> result])

Init == /\ cache = [k \in Keys |-> None]
        /\ flight = [k \in Keys |-> None]
        /\ sem = 0
        /\ task = [r \in Requests |-> Idle]
        /\ source \in Conditions

-----------------------------------------------------------------------------
\* ServeHTTP up to Do: the cache is asked first, outside singleflight's mutex.
Miss(r, a) ==
    /\ At(r, "idle")
    /\ cache[Key(a)] = None
    /\ Goto(r, [pc |-> "do", ask |-> a])
    /\ UNCHANGED <<cache, flight, sem, source>>

\* Mutation: whether there is a call is not looked up where one is entered.
LeadUnchecked(r) ==
    /\ At(r, "do")
    /\ flight' = [flight EXCEPT ![Key(task[r].ask)] = r]
    /\ Goto(r, [pc |-> "fetch", ask |-> task[r].ask])
    /\ UNCHANGED <<cache, sem, source>>

\* Do without a call for the key: this request leads a new one.  (Even if the
\* rendition was stored since its Get: the cache is not asked again.)
Lead(r) ==
    /\ At(r, "do")
    /\ flight[Key(task[r].ask)] = None
    /\ flight' = [flight EXCEPT ![Key(task[r].ask)] = r]
    /\ Goto(r, [pc |-> "fetch", ask |-> task[r].ask])
    /\ UNCHANGED <<cache, sem, source>>

\* Do with a call under way: wait for it.  Neither the client's departure nor
\* any timeout ends this wait.
Join(r) ==
    /\ At(r, "do")
    /\ flight[Key(task[r].ask)] # None
    /\ Goto(r, [pc |-> "join", ask |-> task[r].ask, leader |-> flight[Key(task[r].ask)]])
    /\ UNCHANGED <<cache, flight, sem, source>>

-----------------------------------------------------------------------------
\* fetch returns the body of a 200.
Fetched(r) ==
    /\ At(r, "fetch")
    /\ \E sound \in BOOLEAN :
         /\ source = "good" => sound
         /\ Goto(r, [pc |-> "permit", ask |-> task[r].ask, sound |-> sound])
    /\ UNCHANGED <<cache, flight, sem, source>>

\* fetch returns an error: a 404 or another status, a body that is too large
\* or breaks off, a host that is refused or does not answer, 25 seconds, or
\* the departure of the leader's client.
FetchFails(r) ==
    /\ At(r, "fetch") /\ source = "bad"
    /\ Landing(r, "error")
    /\ UNCHANGED <<cache, flight, sem, source>>

\* A permit is free.  Senders that block on a channel are served in turn.
Acquire(r) ==
    /\ At(r, "permit")
    /\ sem < Permits
    /\ sem' = sem + 1
    /\ Goto(r, [task[r] EXCEPT !.pc = "transform"])
    /\ UNCHANGED <<cache, flight, source>>

\* Mutation: the deferred release is registered before the select.
GiveUpReleasing(r) ==
    /\ At(r, "permit")
    /\ Landing(r, "error")
    /\ sem' = sem - 1
    /\ UNCHANGED <<cache, flight, source>>

\* The leader's context ends while it waits: its client is gone, or the 25
\* seconds, which began with the fetch, are over.  That happens under load, too,
\* behind slow transforms, with the best of sources and patient clients.
GiveUp(r) ==
    /\ At(r, "permit")
    /\ Landing(r, "error")
    /\ UNCHANGED <<cache, flight, sem, source>>

\* Transform has made a rendition.  One that is too large to cache, or that
\* Set refuses, is only served.
Transformed(r) ==
    /\ At(r, "transform") /\ task[r].sound
    /\ \/ Goto(r, [pc |-> "set", ask |-> task[r].ask]) /\ UNCHANGED sem
       \/ Landing(r, "image") /\ sem' = sem - 1
    /\ UNCHANGED <<cache, flight, source>>

\* Mutation: the permit is not given back by a defer.
TransformFailsKeeping(r) ==
    /\ At(r, "transform") /\ ~task[r].sound
    /\ Landing(r, "error")
    /\ UNCHANGED <<cache, flight, sem, source>>

\* Transform returns an error, or panics on what it was given; the permit is
\* given back either way.
TransformFails(r) ==
    /\ At(r, "transform") /\ ~task[r].sound
    /\ Landing(r, "error")
    /\ sem' = sem - 1
    /\ UNCHANGED <<cache, flight, source>>

\* cache.Set, still under the permit; other entries may make room.
Set(r) ==
    /\ At(r, "set")
    /\ \E lost \in SUBSET (Keys \ {Key(task[r].ask)}) :
         cache' = [k \in Keys |-> IF k = Key(task[r].ask) THEN task[r].ask
                                  ELSE IF k \in lost THEN None ELSE cache[k]]
    /\ Landing(r, "image")
    /\ sem' = sem - 1
    /\ UNCHANGED <<flight, source>>

-----------------------------------------------------------------------------
Followers(r) == {f \in Requests : At(f, "join") /\ task[f].leader = r}

\* Mutation: a call that failed stays in the map.
LandKeeping(r) ==
    /\ At(r, "land")
    /\ LET failed == task[r].result # "image"
       IN  /\ task' = [s \in Requests |->
                         IF s \in Followers(r) \/ (s = r /\ ~failed) THEN Idle ELSE task[s]]
           /\ flight' = IF failed THEN flight ELSE [flight EXCEPT ![Key(task[r].ask)] = None]
    /\ UNCHANGED <<cache, sem, source>>

\* The call ends: it leaves the map, and the leader and all who joined answer
\* their clients with its result.
Land(r) ==
    /\ At(r, "land")
    /\ flight' = [flight EXCEPT ![Key(task[r].ask)] = None]
    /\ task' = [s \in Requests |-> IF s = r \/ s \in Followers(r) THEN Idle ELSE task[s]]
    /\ UNCHANGED <<cache, sem, source>>

-----------------------------------------------------------------------------
\* The cache forgets renditions, for room or after seven days.
Forget(k) ==
    /\ cache[k] # None
    /\ cache' = [cache EXCEPT ![k] = None]
    /\ UNCHANGED <<flight, sem, task, source>>

ConditionsChange ==
    /\ source' \in Conditions \ {source}
    /\ UNCHANGED <<cache, flight, sem, task>>

Step(r) == \/ Lead(r) \/ Join(r)
           \/ Fetched(r) \/ FetchFails(r)
           \/ Acquire(r) \/ Transformed(r) \/ TransformFails(r) \/ Set(r)
           \/ Land(r)

Next == \/ \E r \in Requests, a \in Asks : Miss(r, a)
        \/ \E r \in Requests : Step(r) \/ GiveUp(r)
        \/ \E k \in Keys : Forget(k)
        \/ ConditionsChange

Spec == Init /\ [][Next]_vars

\* A fetch has a deadline and a transform ends.  Strong fairness is for the
\* permit: a leader that waits has its turn, however often others are faster.
Fairness == \A r \in Requests : SF_vars(Step(r))

FairSpec == Spec /\ Fairness

-----------------------------------------------------------------------------
TypeOK == /\ cache \in [Keys -> Asks \cup {None}]
          /\ flight \in [Keys -> Requests \cup {None}]
          /\ sem \in 0..Permits
          /\ task \in [Requests -> Tasks]
          /\ source \in Conditions

Leads(r, k) == task[r].pc \in Leading /\ Key(task[r].ask) = k

\* singleflight: at most one fetch and transform runs per key, and whoever
\* waits waits for one that is running, whatever became of earlier ones.
FlightsLed ==
    /\ \A r \in Requests, k \in Keys : Leads(r, k) <=> flight[k] = r
    /\ \A f \in Requests : At(f, "join") => flight[Key(task[f].ask)] = task[f].leader

\* A permit is out exactly for each leader inside optimize's second half, so
\* no outcome (error, panic, end of the context) loses or invents one.
PermitsExact == sem = Cardinality({r \in Requests : At(r, "transform") \/ At(r, "set")})

\* Whoever shares a result, through the cache or by joining, asked for that
\* rendition: neither other options nor another source.
OwnRendition ==
    /\ \A a \in Asks : cache[Key(a)] \in {a, None}
    /\ \A f \in Requests : At(f, "join") => task[task[f].leader].ask = task[f].ask

\* Whatever fails or hangs and whoever leaves, every request is answered:
\* nobody waits for ever for a permit or for another request.
EveryoneAnswered == \A r \in Requests : []<>At(r, "idle")

\* Failures do not outlive their causes: once sources send good images in time
\* and no leader's context ends before it has a permit, requests end up with
\* nothing but images, though they share calls that began before and though
\* errors were delivered to many.
FailuresEnd ==
    <>[](source = "good") /\ <>[][\A r \in Requests : ~GiveUp(r)]_vars
        => <>[](\A r \in Requests : At(r, "land") => task[r].result = "image")

\* The option strings whose images come out as documented, whichever image
\* the source sends, and under any fit and ratio beside their dimensions.
RightSize(p) == \A img \in Images :
    NotUpscaled(img, p) /\ SizeMet(img, p) /\ SizeCapped(img, p) /\ ShapeKept(img, p)

Under(p, fit, dpr) == [p EXCEPT !.fit = fit, !.dpr = dpr]
Variants(t) == {Under(Params(t), f, d) : f \in Fits, d \in (One \div 2)..(3 * One)}
SizedTexts == {t \in Texts : \A p \in Variants(t) : RightSize(p)}

\* docs/images.md:31-32: every transform under way makes an image of the size
\* that was asked for, never larger than the source in "scaledown", nor out of
\* proportion but in "fill".  (Animated GIFs pass untouched, whatever is asked.)
RenditionSized == \A r \in Requests : At(r, "transform") => task[r].ask.text \in SizedTexts

\* The option strings whose blur, of their radius or less, comes out right.
BlurRight(t) == \A img \in Samples, radius \in 0..Radius(Params(t).blur) :
    BlurMeans(img, radius) /\ BlurMirrors(img, radius) /\ BlurKeepsAlpha(img, radius)
BlurredTexts == {t \in Texts : Accepted(t) => BlurRight(t)}

\* docs/images.md:35-38: every transform under way blurs by the mean of each
\* pixel's surroundings, in no direction more than in another, even where the
\* radius is larger than the image, and leaves it opaque or transparent.
BlurExact == \A r \in Requests : At(r, "transform") => task[r].ask.text \in BlurredTexts
=============================================================================

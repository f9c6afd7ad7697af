# Formal models of hubCDN

TLA+ specifications of [hubCDN](../src/README.md), a CDN node that issues TLS
certificates on demand, keeps cached responses in memory, and proxies to the
origins customers publish in DNS. Modules are checked with TLC and proved about
with TLAPS. `PROJECT.json` is the machine-readable index: which definition
stands for which lines, which run checks which property, which hazards are
covered by what.

## 1. The system

| Part | Source | State it keeps | Operations |
|---|---|---|---|
| Object cache | `internal/cache/cache.go` | 256 shards (map, LRU list, byte account), each under a mutex; budget and counters as atomics | `Get`, `Set`, `Delete`, `SetBudget` |
| Memory watchdog | `internal/cache/memory.go` | none of its own; moves the cache's budget | a tick every 15 s |
| Caching policy | `internal/cache/policy.go` | none (pure) | `CacheableRequest`, `ResponseTTL` |
| Caching proxy | `internal/proxy` | `refreshing`, the keys being revalidated | `ServeHTTP`, `revalidate`, recorder |
| Domain registry | `internal/domain/registry.go` | `domains`, `dirty`, `domains.json` | `Observe`, `Refresh`, `Run` (`refreshDue`, `save`), `NewRegistry` |
| Domain settings | `internal/domain/domain.go` | none (pure) | `ParseSettings` |
| Certificate guard | `internal/certguard` | issuance times per apex, `certguard.json` | `Check`, `Record`, `New` |
| Server | `internal/server/server.go` | wiring only | `route`, `decideIssuance`, `onCertEvent`, `Run` |
| Image CDN | `internal/imgcdn` | single-flight group, transform permits, shared cache | `ServeHTTP`, `optimize` |
| Image processing | `internal/imageproc` | none (pure) | `Parse`, `Transform` |
| Fleet registration | `internal/bunny`, `cmd/hubcdn/main.go` | the records of a Bunny DNS zone, which all nodes share | `Register`, `Heartbeat`, `Deregister` |
| DNS | `internal/dnsx` | none | `Origin`, `ConfigText`, `PointsTo` |
| Configuration, metrics, telemetry, pages, health check | the rest | write-only counters | |

How they interact. An HTTPS handshake for an unknown name makes certmagic call
`decideIssuance`, which asks the guard; `onCertEvent` records what was issued. A
request then goes through `route`: the registry looks the host up, or registers
it and resolves its origin; an active domain is handed to the proxy, which looks
into the cache, fetches from the origin, or answers with a stale copy and starts
a background goroutine that fetches a new one. The registry's own goroutine
re-resolves domains and persists them; the watchdog's moves the budget of the
cache while requests use it. `main` registers the node in the fleet's zone
before all of this and deregisters it afterwards.

What is hard here. Nearly every operation reads shared state, lets go of the
lock, does something slow (DNS, an ACME order, an origin fetch, a file write),
and then writes state back that may have changed: the guard between `Check` and
`Record`, the registry between the copy and `store`, `save` between clearing
`dirty` and the rename, the proxy between `Get` and `Set`, the cache between
loading the budget and taking a shard's lock, the image endpoint between its
`Get` and its `Do`. Persisted state meets crashes and ignored write errors. The
origin and the resolver fail in the middle.

What makes each part correct:

- *cache*: the three structures of a shard and the global counters agree; no
  shard outgrows its share but for one big object; the least recently used goes
  first; what `Get` returns is what the last `Set` of that key stored;
- *watchdog*: lasting pressure reaches the floor, lasting plenty the target;
- *guard*: nothing the CA still counts is forgotten, budgets hold up to the
  number of orders in flight;
- *registry*: a snapshot handed to the proxy has an origin, no change escapes
  the file for good, a domain ends at what its owner publishes;
- *proxy*: one refresh per key, every claim given back, old content dies out,
  only whole responses are cached;
- *policy*: what is cached may be shown to anybody, for no longer than the cap;
  the modes agree on responses with explicit freshness;
- *images*: one fetch and transform per rendition, permits neither lost nor
  invented, every request answered, a result shared only among those who asked
  for it, and of the size and blur that was asked;
- *settings*: whatever an owner publishes stays within what the node allows;
- *fleet*: a node that leaves takes out its own records and nobody else's, and
  one that serves gets lost records back.

## 2. Modules

| Module | Models | Composition |
|---|---|---|
| `LossyStore` | abstract: what a cache promises its callers | instantiated by `ObjectCache` |
| `ObjectCache` | `cache.go`, `memory.go` | implements `LossyStore` |
| `CachePolicy` | `policy.go` | pure; extended by `DomainSettings` |
| `DomainSettings` | `domain.go` | pure; extended by `CachingProxy` |
| `CachingProxy` | `proxy.go`, `recorder.go` | proxy, settings and policy together, over a cache that may lose any entry |
| `ImageParams` | `params.go`, `resize` in `transform.go` | pure; extended by `ImageFlight` |
| `ImagePixels` | blur, mirroring and encoding in `transform.go` | pure; extended by `ImageFlight` |
| `ImageFlight` | `imgcdn.go` | endpoint, options and transforms together, over a cache that may lose any entry |
| `CertGuard` | `certguard.go`, `decideIssuance`, `onCertEvent` | guard and server together |
| `DomainRegistry` | `registry.go`, `route`, `Run` of the server | registry and requests together |
| `BunnyFleet` | `bunny.go`, `main.go` | nodes, their heartbeats and the zone together |
| `ObjectCache_proofs`, `CachingProxy_proofs`, `CertGuard_proofs`, `DomainRegistry_proofs`, `BunnyFleet_proofs`, `ImageFlight_proofs` | theorems | extend the modules above |
| `Renditions_proofs` | facts about `ImageParams` and `ImagePixels` | extended by `ImageFlight_proofs` |
| `SumLemmas` | facts about sums over sets, and that a last index exists | extended by `ObjectCache_proofs`, `CachingProxy_proofs`, `Renditions_proofs` |
| `MC_*` | instances for TLC | extend the modules above |

The split between cache and proxy is the abstraction: `ObjectCache` is shown to
implement `LossyStore`, a dictionary that may forget any entry at any step but
never has anything else under a key than what was stored there last.
`CachingProxy` and `ImageFlight` keep such a dictionary as a variable: a `Set`
is one step in them, it may be refused, and entries vanish at any time. They
make no further claim of the cache, and none is checked there again.

### ObjectCache

`items`, `lru` and `bytes` are the shards' maps, lists and accounts (the maps of
all shards are one function, since a key belongs to one shard); `entryCount`,
`byteCount` and `budget` are the atomics. One step is one critical section or
one atomic operation outside it. `Set` is therefore `SetLoad` (budget read,
object refused if too big) and `SetStore` (everything under the lock); `Get` of
an expired entry is `GetSpent` (removal under the lock) and `Uncount` (the
counters, after it); `SetBudget` publishes the budget and then sweeps one shard
per step. The loop of `evictOverLocked` runs under the lock and is one operator,
`EvictOver`, which says where the loop stops (`Stays`): behind that place every
entry goes (`Behind`). Sizes keep their arithmetic, since `budget/shardCount`,
`budget*3/4` and `budget/10` round. Left out: hit, miss and eviction counters,
key hashing, and a fresh/stale distinction (it matters in `CachingProxy`, and
`Get` treats both alike).

### CachingProxy

Each request and each background goroutine has a `task`: holding a stale object,
waiting for the origin, receiving a body, about to store, about to leave
`refreshing`. `Revalidate` is the critical section that checks and claims the
key together with the start of the goroutine; `Release` is its deferred
function. An object is the version of the content it was made from and whether
its body is whole. `Truncate` says what `httputil.ReverseProxy` does when the
origin's body breaks off: for a request that a `http.Server` is serving it
panics with `ErrAbortHandler`, so nothing after the call runs; for a request
without a server in its context, as `revalidate` builds it, it returns. Left
out: upgrades, uncacheable requests and fresh hits, which change nothing.

The policy of a domain may change between any two requests, so each task carries
the policy its snapshot had, which is one that some owner's record makes
(`Policies`); whether a request may use the cache at all (`Visits`) and whether
a response is kept (`Kept`) is what `CachePolicy` says of it. An object is
`personal` if the request it was fetched by carried credentials, or the response
was marked as not for everybody; the background request is built from scratch,
so it carries none.

### CachePolicy

One operator per function of `policy.go`. A request is the set of its features
the code looks at; a response has the headers it looks at, a repeated header
being the sequence of its lines (`http.Header.Get` returns the first) and a line
of `Cache-Control` a sequence of directives. Durations wrap at `Word`, as a
`time.Duration` does at 2^64 ns. `Unshareable` and `Personal` are the reference
that `NothingPersonal` compares with, taken from `docs/caching.md`. Left out:
the spelling of modes, extensions and dates.

### DomainSettings

A config record is the sequence of its key=value pairs. `ParseSettings` takes
each field from the last pair of its key that reads as something (`Setting`), or
from the defaults; a size beyond the node's cap, a negative duration or an
unknown word changes nothing, except that an unknown word for the mode reads as
`standard` (`ParseMode`). Numbers are as wide as in the code: seconds times
`time.Second` and a size times its unit wrap. `PolicyOf` is `Settings.Policy`.
Left out: the splitting of the text into pairs, and its spelling.

### ImageFlight, ImageParams, ImagePixels

A request that missed the cache calls `Do` (`Lead` or `Join`, one critical
section of singleflight's mutex). The leader's task runs through `fetch`,
`permit`, `transform` and `set` to `land`; the permit is taken by `Acquire` and
returned by whatever ends the transform. `Land` is the end of the call: its
result goes to everybody who joined. The source may send no image, fail or hang,
and clients may leave, of whom only the leader's matters to others, since the
fetch runs under its context. The 25 s of that context also cover the wait for a
permit, so a leader may give up there (`GiveUp`) at any time, however good the
sources and patient the clients; what comes in while the source is `good` is
what `Transform` can handle (`sound`: of a known format, whole, within its limit
of pixels, and encodable), and `TransformFails` is for the rest. A rendition is
what it was made for (options and source), so that `OwnRendition` can say whose
it is.

`ImageParams` is `Parse` over the sequence of the options, with defaults, ranges
and the clamps that `dpr` meets, and the arithmetic of `resize`: scale, size of
the rendition, crop. `ImagePixels` is the box blur with its sliding sums, the
mirroring, and the choice of an encoding, each compared with its definition
(`Mean`, mirrored twice). The floats of the code are integers in units of
`1/One`, with NaN beside them. Left out: codecs, resampling and grayscale,
response headers, and requests that change nothing (hits and refusals).

### BunnyFleet

`zone` is the set of A/AAAA records of the one hostname the fleet serves. Each
node has two goroutines: `main` runs `Register`, serves, and runs `Deregister`;
`heart` runs `Register` at every tick. A call reads the zone (`ReadZone`, which
decides what to add or delete), and then sends one request per address or
record; a request is answered, refused, or given up (`GiveUp`: the client's
timeout, or the end of the signal context), and one that is given up stays in
`late` until it is carried out or lost. `main` exits when `Register` fails and
logs when `Deregister` does; `phase` `gone` is an exit after a `Deregister`
without error. When the listener fails the signal context stays open, so the
heartbeat goes on beside `Deregister`. `seen` is a history variable: the records
the latest `Deregister` set out to delete. Left out: `recordName`, which only
spells the hostname inside the zone.

### CertGuard

The event list of the guard is, per host name, the time its issuance was
recorded: certmagic keeps the certificate it got, so a name is ordered once, and
renewals are exempt. `at` is the guard's table, `disk` the file, `ca` the CA's
own view, `hs` what each handshake waits for. `Approve` is `Check` in
`decideIssuance` (which prunes, compares, and records nothing), `Obtain` and
`Fail` are the external CA, `Record` appends and `Save`s, and a save may fail
silently. `Restart` is a crash at any point. `lost` and `saved` are history
variables: issuances a crash made unknown to the guard, and whether the latest
save worked.

### DomainRegistry

A lookup happens outside the lock on a copy of the snapshot, so `job` holds, for
each request and for the refresher, the copy it works on; `Lookup` replaces the
copy by the outcome (`Resolved`, `Failed`), and `Store` is the second critical
section of `Observe`, or `store`. `queue` holds the copies `refreshDue` took of
all domains before it started with the first. `SaveBegin` copies the table and
clears `dirty` under the lock, `SaveEnd` writes the file or fails. `net` says
whether lookups may fail: because the resolver is down, or because clients go
away (their requests' contexts end their lookups). Left out: the config record,
on which no status depends; what it makes is `DomainSettings`.

A record is a text of which `ParseOrigin` sees the scheme, the host, and whether
credentials, a query or a fragment come with it; it refuses some, and adds or
drops the rest. The file has the text of an origin and not the origin itself
(`Marshalled`), and `Restart` parses it again (`Load`), taking the status as it
is written and no notice of an error, as `NewRegistry` does. `route` looks at a
snapshot (`VisitPending`) before `Refresh` reads the registry once more, so they
are two steps.

## 3. Runs

| Run | Checks | Shows |
|---|---|---|
| `object_cache` | `TypeOK`, `ShardsConsistent`, `CountersExact`, `ShardBounded`, `CutsTakeHold`, `EvictsLeastRecent`, `ImplementsLossyStore`, `BudgetRecovers`, `PressureRelieved` | all interleavings of two callers, deletes, expiry and the watchdog, whose budget falls and climbs |
| `cert_guard` | `TypeOK`, `NothingForgotten`, `DiskCurrent`, `OvershootBounded` | concurrent orders, failing saves, crashes |
| `domain_registry` | `TypeOK`, `ActiveHasOrigin`, `NothingUnflagged`, `OnlyRefreshTakesDown` | two requests, the refresher, refused records, failures, shutdown, a restart that parses the file |
| `domain_registry_live` | `Converges`, `ActivePersisted` | what must happen in the end |
| `domain_registry_hiccup` | `HiccupHarmless` (violated) | finding 1 |
| `caching_proxy` | `TypeOK`, `OneRefreshPerKey`, `ClaimsHeld`, `CurrentStays`, `OldContentDies`, `RefreshEnds`, `NothingPersonal`, `LimitsKept`, `ModesOrdered` | two requests and two goroutines on one changing resource, under the policies of all kinds of records and every kind of response |
| `caching_proxy_whole` | `CachedWhole` (violated) | finding 2 |
| `caching_proxy_private` | `NothingPersonal` (violated) | finding 3 |
| `bunny_fleet` | `TypeOK`, `ServingKept`, `LeavesNothing` | two nodes with addresses of their own; refused, delayed and lost requests, crashes, hand edits |
| `bunny_fleet_live` | `Healed` | one node's heartbeat restores what it lost, whatever keeps failing |
| `bunny_fleet_union` | `ServingKept` (violated) | finding 4 |
| `image_flight` | `TypeOK`, `FlightsLed`, `PermitsExact`, `OwnRendition`, `RenditionSized`, `BlurExact`, `EveryoneAnswered`, `FailuresEnd` | three requests, three renditions, two permits; failing and hanging sources, deadlines in the wait for a permit, clients that leave |

Run one with `tlc -config ObjectCache.cfg MC_ObjectCache.tla` (the `.cfg` is
named after the run, the module in its `MC_` file). Every property has a mutant,
an operator marked *Mutation* beside the definition it changes, under which TLC
finds the property violated.

Bounds and why they are enough.

- *ObjectCache*: two shards, one with two keys, so that there are sweeps over
  several shards, LRU order, and Sets that collide or do not. Target 12 and
  floor 10 make shares of 6 and 5: two small objects (3) fit one and not the
  other, the big one (11) is over every share and, after a cut, over the budget.
  The cut is clamped at the floor; the climb back takes two growths.
- *CertGuard*: two handshakes, three hosts of one apex (a budget of one, an
  overshoot of one, and a third that must be refused) and one of another apex; a
  per-apex limit, a global one with a shorter window, and a disabled one. The
  clock (`MaxNow` 4) passes the retention of 3, so events are pruned.
- *DomainRegistry*: the registry treats hosts independently, except that they
  share `dirty` and the file, so one host suffices for races on a snapshot; two
  requests and the refresher can hold three copies of it. One restart
  (`MaxRestarts` 1) puts a loaded file in front of everything else. The record
  is a bare host with a query, so that its text and the origin's differ, one
  that is refused, or none.
- *CachingProxy*: keys meet only in `cache.Set`, which `ObjectCache` covers; two
  goroutines for one key are what the claim has to exclude. Content changes
  twice (`MaxVersion` 2): a stored, an arriving and a current version.
- *CachePolicy*: every mode, every set of request features, and every response
  of up to two directives. Durations have 8 bits, 10 units make a second and the
  cap is 5 s, so that `max-age` takes values under and over the cap, values that
  wrap to a negative duration and to a small positive one, and values `Atoi`
  refuses. `CachingProxy.cfg` has every header on one line,
  `CachingProxyPrivate.cfg` two lines of `Cache-Control`.
- *DomainSettings*: an empty record (`standard`), one for `off` and one for
  `aggressive`, one whose TTL wraps to a negative one, and one with typos,
  repeated keys, refused values, and sizes over the node's cap before they wrap
  and under it after.
- *ImageFlight*: three requests, so that three leaders compete for two permits
  or two requests wait for the third; three renditions of one source and a
  string that is refused. Sources send images of up to 12 by 12 where sides are
  capped at 8, and at 5 by default, with every fit and ratio. Blur radii go up
  to 3 on channels of 3 by 2 and 1 by 4, so that windows reach beyond both ends,
  with every channel of two values in one and of four in the other.
- *BunnyFleet*: two nodes, since a departure harms one other node at a time,
  each with its own address (or both, for the union). Three record ids leave
  room for a duplicate that a late addition makes; ids are symmetric. The
  liveness run has one node with two addresses, so that a heartbeat may fail
  between them.

Fairness. `ObjectCache` assumes of nobody but the watchdog that it goes on: its
ticker ticks, and a sweep that began visits the next shard (no lock is held
across a wait, so it gets each). `DomainRegistry` assumes that `Run`'s loop goes
on, that lookups end (each has a 5 s timeout), that clocks advance, and, for
`ActivePersisted`, that writes which are tried again and again sometimes succeed
(strong fairness on a successful `SaveEnd`). `CachingProxy` assumes it of
background fetches only, which have a deadline of one minute; a client's own
fetch may hang for ever. `ImageFlight` assumes that a handler goes on: a fetch
ends after at most 25 s, a transform ends, and one that waits for a permit has
its turn (strong fairness, since goroutines blocked on a channel are served in
the order they came). A leader may give up waiting at any time, and never has
to. `FailuresEnd` has two hypotheses, that sources are `good` from some time on
and that no leader gives up in the wait for a permit after it: where transforms
go on taking longer than the deadline, requests go on failing, as they should.
`BunnyFleet` assumes that the heartbeat's ticker goes on and its calls end (the
HTTP client has a timeout of 15 s), that a late request is carried out or lost
in the end, and that an API which is asked again and again answers now and then,
for the reading of the zone and for each address (strong fairness).

## 4. Proofs

All theorems hold for every value of the constants that satisfies the modules'
assumptions (`GuardAssumption`: finitely many hosts and handshakes, an apex for
each host, limits with windows shorter than the retention, as 7 days are than 8;
`PolicyAssumption`, `SettingsAssumption`: a second, a word and the caps are
positive; `FleetAssumption`: each node has an address and a set of configured
ones; `ProxyAssumption`: requests and goroutines are distinct, responses and
records have their types; `RegistryAssumption`: the refresher is not a request;
`CacheAssumption`: finitely many keys and callers, objects that are not empty,
and at least one shard; `FlightAssumption`, `ParamsAssumption`: finitely many
requests, at least two permits, caps in order; `ImagesAssumption`: option
strings have a number where `Parse` looks for one, images and channels have at
least one pixel, as a decoder returns no others, and a channel is made of bytes;
`NoneAssumption` in three modules: `None` is none of the values it stands
beside).

`ObjectCache_proofs`. What the accounts need is `Kept` for every shard: its list
holds the keys of its map, each once, and its account is their total size. One
critical section breaks and restores it several times over (`SetStore` removes
an old entry, pushes the new one to the front, and evicts from the back), so
there is a lemma for each of these moves on any list, table and account
(`EvictOverKeeps` for the loop). `Counted` says by how much the global counters
lag: by the removals in `Get` that have not been subtracted yet. `ShardBounded`
needs, besides, that a `Set` under way was not refused (`Fits`), since the
budget may be cut between the check and the lock. `CutsTakeHold` needs that a
sweep imposes the share of the budget as it is (`ShareCurrent`): no second cut
begins before the loop of the first has ended. The proof is the longest here
for the sake of one thing, sums over sets: `SumLemmas` shows from the definition
of the community modules' fold that such a sum exists for every finite set, does
not depend on the order, and adds up over unions, by induction in the form of
sets (a set of naturals that has 0 and successors is `Nat`, by
well-foundedness).

- `CacheTyped`: `Spec => []TypeOK`
- `AccountsExact`: `Spec => [](ShardsConsistent /\ CountersExact)`
- `ShardsStayBounded`: `Spec => []ShardBounded`
- `EvictionInOrder`: `Spec => EvictsLeastRecent`
- `CutsHold`: `Spec => CutsTakeHold`
- `CacheIsLossyStore`: `Spec => ImplementsLossyStore`; a `SetStore` is an
  `Accept`, a removal or a sweep of several entries a `Forget`, a `SetLoad` an
  `Offer`.
- `WatchdogMoves`: `Floor >= 10 => (Spec => TicksMove)`: no tick rounds to
  nothing. The floor is 64 MiB; only under 10 bytes would a tenth be none.

`DomainRegistry_proofs`. `ActiveHasOrigin` is not inductive: what a load makes
of an entry depends on its text, of which it says nothing. `AllSound` says copy
by copy (of the table, the file, the refresher's queue, what is being written,
and every job) that the origin is what its text parses to, which a lookup sees
to because an origin's `String` parses to that origin; so loading what `save`
made of a table gives the table back (`SameAgain`). `NothingUnflagged` needs
`WritingCurrent`: what a `save` is writing is the table, or something changed
since and is flagged; without it a write that succeeds could leave the file
behind.

- `ActiveCanServe`: `Spec => [](TypeOK /\ ActiveHasOrigin)`
- `RestartRestores`: `Spec => []RestartKeeps`: a save and a load would give the
  table back as it is.
- `ChangesFlagged`: `Spec => []NothingUnflagged`
- `FirstVisitsHarmless`: `Spec => OnlyRefreshTakesDown`
- `RightAnswersStay`: `Spec => AnswersStay`

`ImageFlight_proofs`. `TypeOK`, `FlightsLed` and `PermitsExact` are inductive
together with what the cache may hold under a key; that a permit exists whenever
one is returned (`sem` stays natural) follows from `PermitsExact`.

- `FlightDiscipline`: `Spec => [](TypeOK /\ FlightsLed /\ PermitsExact)`
- `SharedIsOwn`: `Spec => []OwnRendition`
- `NoCircularWait`: `Spec => []NobodyStuck`. A follower waits for a leader
  (`FlightsLed`), a leader for a permit, and when none is free there are holders
  (`PermitsExact`, and at least one permit), who wait for nobody.
- `FailuresDoNotSpread`: `Spec => FailuresOnlyEnd`: while sources are good, a
  call comes to fail only by its own `GiveUp`.

`Renditions_proofs` is about the arithmetic of a transform, for images, options
and radii of any size. Sizes: the scale is a quotient that is rounded down, each
side of the result another that is rounded to the nearest, so the side that
determines the scale is met exactly, and the other is off by no more than the
two roundings together (`NeverUpscaled`, `SizesMet`, `SizesCapped`,
`ShapesKept`). Blur: the code slides a window, `sums[x + 1]` being `sums[x]`
plus the pixel that comes in and less the one that goes out. The function of the
sums of all windows satisfies the equation of that recursion, and it is the only
one that does, by induction over the line in the form of sets (`SumsIs`). A sum
of bytes is at most 255 times the number of its terms, and that much only if
each is 255: so no pass overflows a byte and opaque lines stay opaque
(`AlphaBlurred`). Summed over the reversed indices it is the same sum, so a
mirrored image has the mirrored blur (`MirrorsBlurred`). Equality of
images is concluded from that of their pixels, axis by axis and pass by pass.

- `SizesRight`: `Spec => []RenditionSized`
- `BlursRight`: `Spec => []BlurExact`; both in `ImageFlight_proofs`.

`CertGuard_proofs`. `OvershootBounded` is not inductive: it speaks of the CA's
view, and a step of `Approve` only knows the guard's. The inductive invariant
`IInv` adds `UsedBounded` (what the guard counts, plus what it has approved, is
below the limit plus the number of handshakes), `OrdersDistinct` (handshakes in
flight have different hosts, none of them recorded yet) and `RecordsOrdered`
(the guard's time of an event is never before the CA's), so that `Charged
\subseteq Used` by `NothingForgotten`. `UsedBounded` itself survives `Approve`
because the approved host is the only one added: at the `Check` the guard
counted fewer than the limit, and every other element of `Used` is the host of
another handshake, of which there are at most all but one.

- `InductiveInvariant`: `Spec => []IInv`
- `NothingIsForgotten`: `Spec => [](TypeOK /\ NothingForgotten /\ DiskCurrent)`
- `BudgetOvershootBounded`: `Spec => []OvershootBounded`

`CachingProxy_proofs`. `RecordsMakePolicies`: every record, however long, makes
a policy with a known mode and a cap on objects within the node's. That the last
pair of a key exists (`LastIndex`) is again well-foundedness. For the proxy
itself, the conjunction of `TypeOK`, `OneRefreshPerKey` and
`ClaimsHeld` is inductive: that a key is claimed exactly when a goroutine runs
for it is what makes the check in `Revalidate` exclude a second one, and
uniqueness is what lets `Release` give back one key only.

- `RefreshDiscipline`: `Spec => [](TypeOK /\ OneRefreshPerKey /\ ClaimsHeld)`
- `OwnerLimits`: `Spec => []LimitsKept`, and `ModesAgree`: `Spec =>
  []ModesOrdered`, from what `ResponseTTL` returns under any policy, of any
  width.
- `OldContentStaysAway`: `Spec => CurrentStays`
- `OnlyPublicCached`: `OneLine => (Spec => []NothingPersonal)`, where `OneLine`
  says that no response repeats `Vary` or `Cache-Control`. The invariant is
  `Public`: no fetch, recorded body, pending `Set` or cached object is personal.
  Its two leaves are about the policy: a cacheable request carries no
  credentials (`VisitsPublic`), a kept response on single lines is not marked
  (`KeptShareable`). Finding 3 shows that `OneLine` cannot be dropped.

`BunnyFleet_proofs`. `ServingKept` says which records a step may delete, so it
needs to know what a pending deletion aims at: `IdsUnique` (an id names one
record) and `DeletesAimed` (a deletion that a node has decided on names, if it
is still in the zone, a record with one of that node's addresses). With
`Disjoint`, no node being configured with another's address, that record is not
the serving node's. `LeavesNothing` rests on `Chased`: while a node leaves, what
it had set out to delete is deleted or still to do.

- `InductiveInvariant`, `TypeCorrect`: `Spec => []IInv`, `Spec => []TypeOK`
- `OthersKept`: `Disjoint => (Spec => ServingKept)`
- `CleanExit`: `Spec => []LeavesNothing`

Only model-checked: liveness (`BudgetRecovers`, `PressureRelieved`, `Converges`,
`ActivePersisted`, `OldContentDies`, `RefreshEnds`, `Healed`,
`EveryoneAnswered`, `FailuresEnd`), since TLAPS does not reason about fairness
and `ENABLED`. What is proved of it is the part without fairness: that no step
undoes the progress (`CurrentStays`, which a run checks too: once no fetch under
way holds older content and the cache has none, none comes back; `AnswersStay`:
the same of the registry and of answers in flight; `FailuresOnlyEnd`), that each
tick makes some (`TicksMove`), and that somebody can always move
(`NobodyStuck`). These, but for `CurrentStays`, and `RestartKeeps` are defined
beside their proofs and no run checks them. Every other property that a run
confirms is stated by a theorem.

## 5. Findings

1. **A stale failed lookup takes a live domain down**
   (`domain_registry_hiccup`). `registry.go:161-162`: "keep the last known
   origin so an upstream resolver hiccup never takes a live site down". The
   origin that is kept is the copy's; if the copy was taken while the domain was
   pending, storing the failure overwrites the origin a concurrent lookup found.
   `Converges` shows that later refreshes repair it.
2. **A truncated revalidation is cached** (`caching_proxy_whole`).
   `proxy.go:156-158`: "a failed or no-longer cacheable fetch leaves the stale
   entry in place". A body that breaks off during a background fetch ends in
   `cache.Set` with what had arrived.
3. **Only the first line of a header counts** (`caching_proxy_private`).
   `docs/caching.md:67-68`: "Never cached regardless of mode: `Set-Cookie`
   responses, `Cache-Control: no-store/private`, `Vary: *`". `ResponseTTL` reads
   `header.Get("Cache-Control")`, which returns one line; `private` or
   `no-store` on a second one is not seen.
4. **The union of addresses and `Deregister`** (`bunny_fleet_union`).
   `docs/self-hosting.md:184-185` advises to configure every node with the union
   of the fleet's addresses, while `bunny.go:87-88` says that `Deregister`
   "removes this node's A/AAAA records for ips from hostname so traffic routes
   to the remaining nodes". It removes all configured addresses, so with the
   union one node's departure takes out the nodes that remain; their heartbeats
   bring them back (`Healed`).

Remarks on what the code accepts:

- A failed lookup of a domain without an origin leaves it `pending`
  (`registry.go:163-164`), and visitors get the setup page.
  `docs/architecture.md` (lines 46 and 77-79) has an "error page" for "error, no
  known origin", `route` a branch for it (`server.go:331-337`), and the comment
  on `StatusError` an "if any" (`domain.go:26-28`); nothing in the registry
  leads there. `Failed` models the registry; no property depends on which of the
  two is meant.
- `NewRegistry` ignores the error of `ParseOrigin`. That does no harm to a file
  `save` wrote (`RestartRestores`); an active entry edited by hand to a text
  that is refused would be loaded as active without an origin.
- A `Set` that loaded its budget before a cut may fill its shard to the share
  of the old one, until the shard's next `Set` or sweep. `CutsTakeHold` says
  that nothing else undoes a cut.
- What a shutdown does not wait to save is lost to the file; the domain is
  observed again on its next visit.
- The cache as a whole may exceed its budget: admission compares an object with
  the whole budget and eviction spares the entry just stored, so each shard may
  hold one object of nearly the whole budget. `ShardBounded` is what holds.
- Certificate budgets are checked, not reserved: orders approved between a
  `Check` and its `Record` are not counted. `BudgetOvershootBounded` is proved:
  the limit plus the orders in flight, less one.
- A `max-age` over about 292 years wraps, to no freshness or a short one; the
  cap of seven days still holds (`LimitsKept`). So does the node's cap on
  objects, which `parseSize` compares after the multiplication; an owner whose
  own TTL or size wraps gets another one than he wrote, within the caps.
- An image request that missed the cache while a call was under way, but calls
  `Do` after it ended, fetches again, though the rendition is cached by then;
  `docs/images.md:77-78` promises one fetch to concurrent requests only, and the
  window is narrow.
- When the client that leads a call leaves, its followers get an error
  (`FailuresEnd` shows that this ends with the cause). The call's key stays free
  for the next request.
- `maxDim` bounds the sides a request names, after `dpr`. A side that is
  derived, from the source's proportions, may be longer.
- `dpr=nan` and `blur=nan` pass the range checks, as no comparison with NaN is
  true; what `int` makes of them depends on the platform. The model accepts them
  and says nothing of their result.
- The `ETag` of a rendition is made from its key, so it does not change when the
  source does.

## 6. Not modelled

- *Codecs, resampling, grayscale*: library code, or one formula per pixel; there
  is no second definition to compare with.
- *Upgrades, uncacheable requests, cache hits, refused image requests,
  redirects*: they change no state that anything modelled reads.
- *The names of hosts, the addresses a fetch may reach, the splitting of records
  and URLs, modes' and suffixes' spelling*: string work, which unit tests reach;
  its outcomes are choices of the models.
- *The config record inside `DomainRegistry`*: it would multiply the state space
  by the number of records and no status depends on it; a snapshot's settings
  are a function of its text, and the proxy is checked under all of them at any
  time.
- *Configuration*: read once at start; its values are the constants.
- *Metrics and telemetry*: write-only, no decision reads them.
- *Pages and the health check*: rendering, and one request with an exit code.
- *A node that starts with only some of its records* (`main` exits when
  `Register` fails in the middle): `BunnyFleet` has the behaviour, but nothing
  in the code or its documents says what should hold then, so no property does.

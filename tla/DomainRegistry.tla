--------------------------- MODULE DomainRegistry ---------------------------
(***************************************************************************)
(* The registry of customer domains (internal/domain/registry.go) and the  *)
(* requests that drive it (route in internal/server/server.go): a domain   *)
(* is registered on its first request, its origin TXT record is looked up  *)
(* then, again when a pending domain is visited, and by a background       *)
(* refresher that also persists the registry.                              *)
(*                                                                         *)
(* Every DNS lookup happens outside the lock, on a copy of the snapshot    *)
(* taken before it, so a step is one critical section, one lookup, or one  *)
(* half of a save.  A snapshot is reduced to its status, its origin with   *)
(* the text of it (OriginStr), and whether its latest lookup failed        *)
(* (LastError).  The file holds the text only, and a restart parses it     *)
(* again.  The config record, which no status depends on, is left out.     *)
(* age is the time since LastRefreshed against the 5 seconds of route and  *)
(* the interval of refreshDue.                                             *)
(***************************************************************************)
EXTENDS Integers, FiniteSets

CONSTANTS Hosts,        \* customer domains
          Names,        \* hosts (with port and path) that origin URLs name
          Records,      \* values of the origin TXT record
          Requests,     \* concurrent HTTPS requests
          Refresher,    \* the goroutine of Registry.Run
          None,         \* no text, no origin, no snapshot, nothing being written
          MaxRestarts   \* bound on restarts of the process

ASSUME RegistryAssumption ==
    /\ Refresher \notin Requests
    /\ None \notin Names
    /\ MaxRestarts \in Nat

\* A text that is read as a URL, reduced to its scheme ("none" for a bare
\* host, "other" for any that is refused), the host that follows, None if there
\* is none, and whether credentials, a query or a fragment come with it; and the
\* URLs that serve as origins.
Texts == [scheme : {"http", "https", "none", "other"}, name : Names \cup {None},
          extras : BOOLEAN]
Origins == [scheme : {"http", "https"}, name : Names]

ASSUME RecordsAssumption == Records \subseteq Texts

\* None, for an empty text or no record, is refused as well.
ParseOrigin(text) ==
    IF text = None \/ text.name = None \/ text.scheme = "other" THEN None
    ELSE [scheme |-> IF text.scheme = "none" THEN "https" ELSE text.scheme,
          name |-> text.name]

\* The text of an origin: it names the scheme, and there are no extras.
String(origin) ==
    [scheme |-> origin.scheme, name |-> origin.name, extras |-> FALSE]

VARIABLES dns,        \* the published origin record of each host
          net,        \* "up", "leaving" (clients abort requests), "down" (DNS is)
          domains,    \* Registry.domains, None for an unregistered host
          age,        \* since each domain's LastRefreshed
          dirty,      \* Registry.dirty
          disk,       \* domains.json
          job,        \* the lookup each goroutine is in
          queue,      \* the copies refreshDue has still to refresh
          run,        \* where Registry.Run is
          writing,    \* the copies save is writing, None outside it
          writeFailed,  \* whether the latest write of the file failed
          stopping,   \* the process's context is cancelled
          restarts

vars == <<dns, net, domains, age, dirty, disk, job, queue, run, writing,
          writeFailed, stopping, restarts>>
environment == <<dns, net>>

Network == {"up", "leaving", "down"}

Status == {"pending", "active", "error"}
Snapshot == [status : Status, origin : Origins \cup {None},
             text : Texts \cup {None}, failed : BOOLEAN]
Table == [Hosts -> Snapshot \cup {None}]

\* What the JSON of a snapshot keeps: not its origin.
Entry == [status : Status, text : Texts \cup {None}, failed : BOOLEAN]
File == [Hosts -> Entry \cup {None}]

ASSUME NoneAssumption ==
    None \notin Origins \cup Texts \cup Snapshot \cup Entry \cup Table

Workers == Requests \cup {Refresher}
Idle == [pc |-> "idle"]

\* A request that will call Refresh.
Visits == [pc : {"visit"}, host : Hosts]

\* What a goroutine does with the snapshot it resolves: "observe" registers
\* it if still unknown, "refresh" stores it.
Jobs == [pc : {"lookup", "store"}, kind : {"observe", "refresh"}, host : Hosts,
         snap : Snapshot]

Resolving(w) == job[w].pc \in {"lookup", "store"}

Ages == {"fresh", "revisit", "due"}

\* The snapshot Observe starts from.
Unknown == [status |-> "pending", origin |-> None, text |-> None, failed |-> FALSE]

Empty == [h \in Hosts |-> None]

Init == /\ dns \in [Hosts -> Records \cup {None}]
        /\ net \in Network
        /\ domains = Empty
        /\ age = [h \in Hosts |-> "fresh"]
        /\ dirty = FALSE
        /\ disk = Empty
        /\ job = [w \in Workers |-> Idle]
        /\ queue = Empty
        /\ run = "waiting"
        /\ writing = None
        /\ writeFailed = FALSE
        /\ stopping = FALSE
        /\ restarts = 0

-----------------------------------------------------------------------------
\* Mutation: OriginStr is not set beside Origin.
ResolvedTextless(record) ==
    LET origin == ParseOrigin(record)
    IN  [status |-> IF origin = None THEN "pending" ELSE "active",
         origin |-> origin, text |-> None, failed |-> FALSE]

\* refreshSnapshot on a copy, by the outcome of the lookup: a record, None for
\* no record, or a failure, which keeps the origin the copy has.  A record that
\* ParseOrigin refuses counts as none (ErrNoOrigin).
Resolved(record) ==
    LET origin == ParseOrigin(record)
    IN  [status |-> IF origin = None THEN "pending" ELSE "active",
         origin |-> origin,
         text |-> IF origin = None THEN None ELSE String(origin),
         failed |-> FALSE]

\* Mutation: a failed lookup gives the snapshot a status of its own.
FailedUnnamed(snap) == [snap EXCEPT !.status = "failed", !.failed = TRUE]

Failed(snap) ==
    [snap EXCEPT !.status = IF snap.origin = None THEN "pending" ELSE "error",
                 !.failed = TRUE]

\* A lookup fails when the resolver is down, and also when its context ends:
\* the client of a request goes away, or the process is stopping.
MayFail(w) == \/ net = "down"
              \/ w \in Requests /\ net = "leaving"
              \/ w = Refresher /\ stopping

Answer(w, snap) == job' = [job EXCEPT ![w].pc = "store", ![w].snap = snap]

Lookup(w) ==
    /\ job[w].pc = "lookup"
    /\ \/ net # "down" /\ Answer(w, Resolved(dns[job[w].host]))
       \/ MayFail(w) /\ Answer(w, Failed(job[w].snap))
    /\ UNCHANGED <<environment, domains, age, dirty, disk, queue, run, writing,
                   writeFailed, stopping, restarts>>

\* Mutation: Observe does not look again once it has the lock.
StoreBlindly(w) ==
    /\ job[w].pc = "store"
    /\ domains' = [domains EXCEPT ![job[w].host] = job[w].snap]
    /\ age' = [age EXCEPT ![job[w].host] = "fresh"]
    /\ dirty' = TRUE
    /\ job' = [job EXCEPT ![w] = Idle]
    /\ queue' = IF w = Refresher /\ stopping THEN Empty ELSE queue
    /\ UNCHANGED <<environment, disk, run, writing, writeFailed, stopping, restarts>>

\* Mutation: storing does not flag the registry.
StoreUnflagged(w) ==
    /\ job[w].pc = "store"
    /\ LET h == job[w].host
       IN  IF job[w].kind = "observe" /\ domains[h] # None
           THEN UNCHANGED <<domains, age>>
           ELSE /\ domains' = [domains EXCEPT ![h] = job[w].snap]
                /\ age' = [age EXCEPT ![h] = "fresh"]
    /\ job' = [job EXCEPT ![w] = Idle]
    /\ queue' = IF w = Refresher /\ stopping THEN Empty ELSE queue
    /\ UNCHANGED <<environment, dirty, disk, run, writing, writeFailed, stopping, restarts>>

\* Observe under its second lock, or store: a host that was registered in the
\* meantime keeps its entry in the first case and is overwritten in the second.
Store(w) ==
    /\ job[w].pc = "store"
    /\ LET h == job[w].host
       IN  IF job[w].kind = "observe" /\ domains[h] # None
           THEN UNCHANGED <<domains, age, dirty>>
           ELSE /\ domains' = [domains EXCEPT ![h] = job[w].snap]
                /\ age' = [age EXCEPT ![h] = "fresh"]
                /\ dirty' = TRUE
    /\ job' = [job EXCEPT ![w] = Idle]
    /\ queue' = IF w = Refresher /\ stopping THEN Empty ELSE queue
    /\ UNCHANGED <<environment, disk, run, writing, writeFailed, stopping, restarts>>

-----------------------------------------------------------------------------
\* route on an unknown host: Observe.
VisitUnknown(r, h) ==
    /\ job[r] = Idle
    /\ domains[h] = None
    /\ job' = [job EXCEPT ![r] = [pc |-> "lookup", kind |-> "observe", host |-> h,
                                  snap |-> Unknown]]
    /\ UNCHANGED <<environment, domains, age, dirty, disk, queue, run, writing,
                   writeFailed, stopping, restarts>>

\* route on a host whose snapshot is pending and was last refreshed over 5
\* seconds ago: it will call Refresh.  (Any other visit is answered from the
\* snapshot and changes nothing.)
VisitPending(r, h) ==
    /\ job[r] = Idle
    /\ domains[h] # None /\ domains[h].status = "pending"
    /\ age[h] # "fresh"
    /\ job' = [job EXCEPT ![r] = [pc |-> "visit", host |-> h]]
    /\ UNCHANGED <<environment, domains, age, dirty, disk, queue, run, writing,
                   writeFailed, stopping, restarts>>

\* Refresh reads the registry again: the copy it starts from may be newer than
\* the snapshot route looked at, whatever its status is by now.
Refresh(r) ==
    /\ job[r].pc = "visit"
    /\ LET h == job[r].host
       IN  job' = [job EXCEPT ![r] =
                     IF domains[h] = None THEN Idle
                     ELSE [pc |-> "lookup", kind |-> "refresh", host |-> h,
                           snap |-> domains[h]]]
    /\ UNCHANGED <<environment, domains, age, dirty, disk, queue, run, writing,
                   writeFailed, stopping, restarts>>

-----------------------------------------------------------------------------
\* Mutation: only active domains are refreshed.
RunTickActiveOnly ==
    /\ run = "waiting"
    /\ queue' = [h \in Hosts |-> IF domains[h] # None /\ age[h] = "due"
                                    /\ domains[h].status = "active"
                                 THEN domains[h] ELSE None]
    /\ run' = "refreshing"
    /\ UNCHANGED <<environment, domains, age, dirty, disk, job, writing,
                   writeFailed, stopping, restarts>>

\* Run's ticker: refreshDue copies every domain, and later refreshes from
\* those copies the ones that were due.  (When the context has ended too,
\* select may still take the tick.)
RunTick ==
    /\ run = "waiting"
    /\ queue' = [h \in Hosts |-> IF domains[h] # None /\ age[h] = "due"
                                 THEN domains[h] ELSE None]
    /\ run' = "refreshing"
    /\ UNCHANGED <<environment, domains, age, dirty, disk, job, writing,
                   writeFailed, stopping, restarts>>

RefreshNext(h) ==
    /\ run = "refreshing" /\ job[Refresher] = Idle
    /\ queue[h] # None
    /\ job' = [job EXCEPT ![Refresher] = [pc |-> "lookup", kind |-> "refresh",
                                          host |-> h, snap |-> queue[h]]]
    /\ queue' = [queue EXCEPT ![h] = None]
    /\ UNCHANGED <<environment, domains, age, dirty, disk, run, writing,
                   writeFailed, stopping, restarts>>

\* save under the lock: the flag is cleared before anything is written.
SaveBegin ==
    /\ writing = None
    /\ \/ run = "refreshing" /\ job[Refresher] = Idle /\ queue = Empty
       \/ run = "waiting" /\ stopping
    /\ run' = IF run = "waiting" THEN "leaving" ELSE "saving"
    /\ IF dirty THEN writing' = domains /\ dirty' = FALSE
                ELSE UNCHANGED <<writing, dirty>>
    /\ UNCHANGED <<environment, domains, age, disk, job, queue, writeFailed, stopping, restarts>>

\* The marshalled copies, and what NewRegistry makes of one entry of a file:
\* the origin is parsed from its text, and its status taken as it is.
Marshalled(table) ==
    [h \in Hosts |-> IF table[h] = None THEN None
                     ELSE [status |-> table[h].status, text |-> table[h].text,
                           failed |-> table[h].failed]]

Load(entry) == [status |-> entry.status, origin |-> ParseOrigin(entry.text),
                text |-> entry.text, failed |-> entry.failed]

Loaded(file) == [h \in Hosts |-> IF file[h] = None THEN None ELSE Load(file[h])]

\* Mutation: the flag is cleared (again) once the file is written.
SaveEndClears ==
    /\ run \in {"saving", "leaving"}
    /\ IF writing = None
       THEN UNCHANGED <<disk, writeFailed, dirty>>
       ELSE \/ disk' = Marshalled(writing) /\ writeFailed' = FALSE /\ dirty' = FALSE
            \/ disk' = disk /\ writeFailed' = TRUE /\ UNCHANGED dirty
    /\ writing' = None
    /\ run' = IF run = "leaving" THEN "left" ELSE "waiting"
    /\ UNCHANGED <<environment, domains, age, job, queue, stopping, restarts>>

\* The rest of save: the write or the rename may fail, which is only logged.
SaveEnd ==
    /\ run \in {"saving", "leaving"}
    /\ IF writing = None
       THEN UNCHANGED <<disk, writeFailed>>
       ELSE \/ disk' = Marshalled(writing) /\ writeFailed' = FALSE
            \/ disk' = disk /\ writeFailed' = TRUE
    /\ writing' = None
    /\ run' = IF run = "leaving" THEN "left" ELSE "waiting"
    /\ UNCHANGED <<environment, domains, age, dirty, job, queue, stopping, restarts>>

-----------------------------------------------------------------------------
Shutdown == /\ ~stopping
            /\ stopping' = TRUE
            /\ UNCHANGED <<environment, domains, age, dirty, disk, job, queue, run,
                           writing, writeFailed, restarts>>

\* The process ends, by a crash or because main does not wait for Run, and
\* NewRegistry loads the file.  Time has passed meanwhile.
Restart == /\ restarts < MaxRestarts
           /\ restarts' = restarts + 1
           /\ domains' = Loaded(disk)
           /\ age' \in [Hosts -> Ages]
           /\ dirty' = FALSE
           /\ job' = [w \in Workers |-> Idle]
           /\ queue' = Empty
           /\ run' = "waiting"
           /\ writing' = None
           /\ writeFailed' = FALSE
           /\ stopping' = FALSE
           /\ UNCHANGED <<environment, disk>>

\* Five seconds, and then the refresh interval, pass after a refresh.
Elapse(h) ==
    /\ domains[h] # None /\ age[h] # "due"
    /\ age' = [age EXCEPT ![h] = IF @ = "fresh" THEN "revisit" ELSE "due"]
    /\ UNCHANGED <<environment, domains, dirty, disk, job, queue, run, writing,
                   writeFailed, stopping, restarts>>

\* The owner edits the TXT record; the resolver and the clients come and go.
Environment ==
    /\ \/ \E h \in Hosts, record \in Records \cup {None} :
            dns' = [dns EXCEPT ![h] = record] /\ UNCHANGED net
       \/ net' \in Network /\ UNCHANGED dns
    /\ UNCHANGED <<domains, age, dirty, disk, job, queue, run, writing, writeFailed,
                   stopping, restarts>>

RunStep == \/ RunTick
           \/ \E h \in Hosts : RefreshNext(h)
           \/ Lookup(Refresher) \/ Store(Refresher)
           \/ SaveBegin \/ SaveEnd

RequestStep(r) == Refresh(r) \/ Lookup(r) \/ Store(r)

Next == \/ \E r \in Requests : \/ \E h \in Hosts : VisitUnknown(r, h) \/ VisitPending(r, h)
                               \/ RequestStep(r)
        \/ RunStep
        \/ \E h \in Hosts : Elapse(h)
        \/ Environment
        \/ Shutdown \/ Restart

Spec == Init /\ [][Next]_vars

\* The ticker and the clock go on, and every lookup ends (it has a timeout).
\* A file system that is not broken for good lets some write through.
Fairness ==
    /\ WF_vars(RunStep)
    /\ \A r \in Requests : WF_vars(RequestStep(r))
    /\ \A h \in Hosts : WF_vars(Elapse(h))
    /\ SF_vars(SaveEnd /\ writing # None /\ ~writeFailed')

FairSpec == Spec /\ Fairness

-----------------------------------------------------------------------------
TypeOK == /\ dns \in [Hosts -> Records \cup {None}]
          /\ net \in Network
          /\ domains \in Table
          /\ age \in [Hosts -> Ages]
          /\ dirty \in BOOLEAN
          /\ disk \in File
          /\ job \in [Workers -> Jobs \cup Visits \cup {Idle}]
          /\ queue \in Table
          /\ run \in {"waiting", "refreshing", "saving", "leaving", "left"}
          /\ writing \in Table \cup {None}
          /\ writeFailed \in BOOLEAN
          /\ stopping \in BOOLEAN
          /\ restarts \in 0..MaxRestarts

\* Every snapshot anyone may act on, now or later, and those that a restart
\* would make of the file.
Held == {t[h] : t \in {domains, queue, Loaded(disk)}, h \in Hosts}
        \cup (IF writing = None THEN {} ELSE {writing[h] : h \in Hosts})
        \cup {job[w].snap : w \in {v \in Workers : Resolving(v)}}

\* route hands active domains to the proxy without looking at their origin,
\* which the proxy dereferences: whatever copies, failures, saves and
\* restarts a snapshot went through, an active one has an origin, though the
\* file keeps only its text and the error of parsing that again is ignored.
ActiveHasOrigin ==
    \A snap \in Held \ {None} : snap.status = "active" => snap.origin # None

\* save clears the flag before it writes, and stores go on meanwhile: what
\* the file does not say is still flagged, being written, or was in the write
\* that failed last.
NothingUnflagged ==
    \/ dirty \/ writeFailed
    \/ disk = Marshalled(domains)
    \/ writing # None /\ writing = domains

\* Concurrent first visits do not undo each other: a registered domain is not
\* forgotten, and one that has an origin loses it only to a Refresh or a
\* refreshDue of that domain (or to a restart), never to another Observe.
OnlyRefreshTakesDown ==
    [][restarts' = restarts =>
         \A h \in Hosts : domains[h] # None =>
            /\ domains'[h] # None
            /\ domains[h].origin # None /\ domains'[h].origin = None =>
                 \E w \in Workers : /\ job[w].pc = "store" /\ job'[w] = Idle
                                    /\ job[w].kind = "refresh" /\ job[w].host = h]_vars

\* Once lookups stop failing, a registered domain comes to, and stays at,
\* what its owner publishes, an origin or none: stale copies in flight, saves
\* and earlier failures only delay it.
Converges ==
    \A h \in Hosts : \A record \in Records \cup {None} :
        <>[](dns[h] = record /\ net = "up" /\ ~stopping /\ domains[h] # None)
            => <>[](domains[h] # None /\ domains[h].origin = ParseOrigin(record))

\* A save that failed is made up for: a domain that stays active is in the
\* file in the end, because every refresh flags the registry again.
ActivePersisted ==
    \A h \in Hosts :
        <>[](~stopping /\ domains[h] # None /\ domains[h].status = "active")
            => <>[](disk[h] # None /\ disk[h].status = "active")

-----------------------------------------------------------------------------
\* registry.go:161-162: "keep the last known origin so an upstream resolver
\* hiccup never takes a live site down": storing the outcome of a failed
\* lookup leaves a domain that had an origin with one.
HiccupHarmless ==
    [][restarts' = restarts =>
         \A h \in Hosts :
            domains[h] # None /\ domains[h].origin # None /\ domains'[h].failed
                => domains'[h].origin # None]_vars
=============================================================================

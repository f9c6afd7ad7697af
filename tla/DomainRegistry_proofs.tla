----------------------- MODULE DomainRegistry_proofs -----------------------
(***************************************************************************)
(* Proofs about DomainRegistry, for any hosts, records and requests and    *)
(* any number of restarts: every active snapshot that anyone may act on,   *)
(* or a restart would make of the file, has an origin, and the origin its  *)
(* text says; what the file does not say is flagged (or was lost in a      *)
(* failed write), concurrent first visits undo nothing, and once lookups   *)
(* stop failing no step misinforms the registry.                           *)
(***************************************************************************)
EXTENDS DomainRegistry, TLAPS

\* A snapshot that agrees with itself, or none: its origin is what its text
\* says, which is what a restart goes by, and an active one has an origin.
Good(snap) == snap = None \/ /\ snap.origin = ParseOrigin(snap.text)
                             /\ snap.status = "active" => snap.origin # None

Sound(table) == \A h \in Hosts : Good(table[h])

\* The same of what the file says of each domain.
SoundFile == \A h \in Hosts : disk[h] # None /\ disk[h].status = "active" =>
                                  ParseOrigin(disk[h].text) # None

\* ActiveHasOrigin, copy by copy.
AllSound == /\ Sound(domains) /\ SoundFile /\ Sound(queue)
            /\ writing # None => Sound(writing)
            /\ \A w \in Workers : Resolving(w) => Good(job[w].snap)

\* What save is writing is the registry, or a change since is flagged: without
\* this a write that succeeds could leave the file behind and nothing flagged.
WritingCurrent == writing # None => dirty \/ writing = domains

IInv == TypeOK /\ AllSound /\ NothingUnflagged /\ WritingCurrent

\* What a record is parsed to is an origin or nothing.
LEMMA ParseType ==
    ASSUME NEW text \in Texts \cup {None}
    PROVE  ParseOrigin(text) \in Origins \cup {None}
<1>1. CASE text = None \/ text.name = None \/ text.scheme = "other"
  BY <1>1 DEF ParseOrigin
<1>2. CASE ~(text = None \/ text.name = None \/ text.scheme = "other")
  <2>1. text.scheme \in {"http", "https", "none"} /\ text.name \in Names
    BY <1>2 DEF Texts
  <2> QED
    BY <1>2, <2>1 DEF ParseOrigin, Origins
<1> QED
  BY <1>1, <1>2

\* The text that is kept of an origin is parsed back to it.
LEMMA TextKept ==
    ASSUME NEW origin \in Origins
    PROVE  String(origin) \in Texts /\ ParseOrigin(String(origin)) = origin
<1>1. /\ String(origin).scheme = origin.scheme /\ String(origin).name = origin.name
      /\ origin.scheme \in {"http", "https"} /\ origin.name \in Names
  BY DEF String, Origins
<1>2. String(origin) \in Texts
  BY <1>1 DEF String, Texts
<1>3. String(origin) # None /\ origin.name # None
  BY <1>1, <1>2, NoneAssumption, RegistryAssumption
<1>4. ParseOrigin(String(origin)) = [scheme |-> origin.scheme, name |-> origin.name]
  BY <1>1, <1>3 DEF ParseOrigin
<1>5. origin = [scheme |-> origin.scheme, name |-> origin.name]
  BY DEF Origins
<1> QED
  BY <1>2, <1>4, <1>5

\* A sound file is loaded into a sound table, whatever the statuses in it.
LEMMA LoadedSound ==
    ASSUME disk \in File, SoundFile
    PROVE  Loaded(disk) \in Table /\ Sound(Loaded(disk))
<1>1. ASSUME NEW h \in Hosts, disk[h] # None
      PROVE  Load(disk[h]) \in Snapshot /\ Good(Load(disk[h]))
  <2>1. disk[h] \in Entry /\ disk[h].text \in Texts \cup {None}
    BY <1>1 DEF File, Entry
  <2>2. ParseOrigin(disk[h].text) \in Origins \cup {None}
    BY <2>1, ParseType
  <2>3. Load(disk[h]) \in Snapshot
    BY <2>1, <2>2 DEF Load, Snapshot, Entry
  <2>4. Good(Load(disk[h]))
    BY <1>1 DEF Load, Good, SoundFile
  <2> QED
    BY <2>3, <2>4
<1>2. \A h \in Hosts : Loaded(disk)[h] = IF disk[h] = None THEN None ELSE Load(disk[h])
  BY DEF Loaded
<1>3. Sound(Loaded(disk))
  BY <1>1, <1>2 DEF Sound, Good
<1>4. Loaded(disk) \in Table
  BY <1>1, <1>2 DEF Loaded, Table
<1> QED
  BY <1>3, <1>4

\* Soundness of every table and job is what ActiveHasOrigin says.
LEMMA SoundEverywhere == TypeOK /\ AllSound => ActiveHasOrigin
<1> SUFFICES ASSUME TypeOK, AllSound, NEW snap \in Held \ {None} PROVE Good(snap)
  BY DEF ActiveHasOrigin, Good
<1>1. CASE snap \in {t[h] : t \in {domains, queue, Loaded(disk)}, h \in Hosts}
  <2>1. Sound(domains) /\ Sound(queue) /\ Sound(Loaded(disk))
    BY LoadedSound DEF AllSound, TypeOK
  <2> QED
    BY <1>1, <2>1 DEF Sound
<1>2. CASE writing # None /\ snap \in {writing[h] : h \in Hosts}
  BY <1>2 DEF AllSound, Sound
<1>3. CASE snap \in {job[w].snap : w \in {v \in Workers : Resolving(v)}}
  BY <1>3 DEF AllSound
<1> QED
  BY <1>1, <1>2, <1>3 DEF Held

\* What the goroutine of a job has in hand.
LEMMA JobFacts ==
    ASSUME TypeOK, NEW w \in Workers, Resolving(w)
    PROVE  /\ job[w] \in Jobs /\ job[w].host \in Hosts /\ job[w].snap \in Snapshot
           /\ job[w] # Idle
<1>1. job[w] \in Jobs \cup Visits \cup {Idle}
  BY DEF TypeOK
<1>2. job[w] \notin Visits /\ job[w] # Idle
  BY DEF Resolving, Visits, Idle
<1> QED
  BY <1>1, <1>2 DEF Jobs

\* What a lookup makes of a snapshot agrees with itself.
LEMMA LookupGood ==
    /\ \A o \in Texts \cup {None} : Resolved(o) \in Snapshot /\ Good(Resolved(o))
    /\ \A snap \in Snapshot : Good(snap) =>
          Failed(snap) \in Snapshot /\ Good(Failed(snap))
<1>1. ASSUME NEW o \in Texts \cup {None}
      PROVE  Resolved(o) \in Snapshot /\ Good(Resolved(o))
  <2> DEFINE origin == ParseOrigin(o)
  <2>1. origin \in Origins \cup {None}
    BY ParseType
  <2>2. CASE origin = None
    <3>1. Resolved(o) = [status |-> "pending", origin |-> None, text |-> None, failed |-> FALSE]
      BY <2>2 DEF Resolved
    <3> QED
      BY <3>1 DEF Snapshot, Status, Good, ParseOrigin
  <2>3. CASE origin # None
    <3>1. Resolved(o) = [status |-> "active", origin |-> origin, text |-> String(origin),
                         failed |-> FALSE]
      BY <2>3 DEF Resolved
    <3>2. String(origin) \in Texts /\ ParseOrigin(String(origin)) = origin
      BY <2>1, <2>3, TextKept
    <3> HIDE DEF origin
    <3> QED
      BY <2>1, <2>3, <3>1, <3>2 DEF Snapshot, Status, Good
  <2> QED
    BY <2>2, <2>3
<1>2. ASSUME NEW snap \in Snapshot, Good(snap)
      PROVE  Failed(snap) \in Snapshot /\ Good(Failed(snap))
  <2>1. snap # None
    BY NoneAssumption
  <2>2. snap.origin = ParseOrigin(snap.text)
    BY <1>2, <2>1 DEF Good
  <2>3. /\ Failed(snap) \in Snapshot /\ Failed(snap).status # "active"
        /\ Failed(snap).origin = snap.origin /\ Failed(snap).text = snap.text
    BY DEF Failed, Snapshot, Status
  <2> QED
    BY <2>2, <2>3 DEF Good
<1> QED
  BY <1>1, <1>2

\* The snapshot of a host never seen is good.
LEMMA UnknownGood == Unknown \in Snapshot /\ Good(Unknown)
  BY DEF Unknown, Snapshot, Status, Good, ParseOrigin

\* A registry without domains is sound.
LEMMA EmptySound == Empty \in Table /\ Empty \in File /\ Sound(Empty) /\ Marshalled(Empty) = Empty
  BY DEF Empty, Table, File, Sound, Good, Marshalled

\* The file of a sound table is a sound file.
LEMMA MarshalledSound ==
    ASSUME NEW table \in Table, Sound(table)
    PROVE  /\ Marshalled(table) \in File
           /\ disk' = Marshalled(table) => SoundFile'
<1>1. ASSUME NEW h \in Hosts, table[h] # None
      PROVE  [status |-> table[h].status, text |-> table[h].text,
              failed |-> table[h].failed] \in Entry
  BY <1>1 DEF Table, Snapshot, Entry
<1>2. Marshalled(table) \in File
  BY <1>1 DEF Marshalled, File
<1>3. ASSUME disk' = Marshalled(table), NEW h \in Hosts, disk'[h] # None,
             disk'[h].status = "active"
      PROVE  ParseOrigin(disk'[h].text) # None
  <2>1. /\ table[h] # None /\ disk'[h].status = table[h].status
        /\ disk'[h].text = table[h].text
    BY <1>3 DEF Marshalled
  <2> QED
    BY <1>3, <2>1 DEF Sound, Good
<1> QED
  BY <1>2, <1>3 DEF SoundFile

\* The registry starts sound, with nothing to write.
LEMMA InitInvariant == Init => IInv
<1> SUFFICES ASSUME Init PROVE IInv
  OBVIOUS
<1>1. TypeOK
  <2>1. /\ domains \in Table /\ disk \in File /\ queue \in Table
        /\ writing \in Table \cup {None} /\ job \in [Workers -> Jobs \cup Visits \cup {Idle}]
    BY EmptySound DEF Init
  <2>2. age \in [Hosts -> Ages]
    BY DEF Init, Ages
  <2>3. restarts \in 0..MaxRestarts
    BY RegistryAssumption DEF Init
  <2> QED
    BY <2>1, <2>2, <2>3 DEF Init, TypeOK
<1>2. AllSound
  <2>1. \A w \in Workers : ~Resolving(w)
    BY DEF Init, Resolving, Idle
  <2> QED
    BY <2>1, EmptySound DEF Init, AllSound, SoundFile, Empty
<1>3. NothingUnflagged /\ WritingCurrent
  BY EmptySound DEF Init, NothingUnflagged, WritingCurrent
<1> QED
  BY <1>1, <1>2, <1>3 DEF IInv

-----------------------------------------------------------------------------
\* A step that begins, or gets on with, one job on a sound snapshot.
LEMMA JobInvariant ==
    ASSUME IInv, NEW w \in Workers, NEW j \in Jobs \cup Visits \cup {Idle},
           j \in Jobs => Good(j.snap),
           job' = [job EXCEPT ![w] = j],
           queue' \in Table, Sound(queue'),
           UNCHANGED <<environment, domains, age, dirty, disk, run, writing,
                       writeFailed, stopping, restarts>>
    PROVE  IInv'
<1>1. TypeOK'
  BY DEF IInv, TypeOK, environment
<1>2. AllSound'
  <2>1. ASSUME NEW v \in Workers, Resolving(v)' PROVE Good(job'[v].snap)
    <3>1. CASE v = w
      BY <2>1, <3>1 DEF IInv, TypeOK, Resolving, Visits, Idle
    <3>2. CASE v # w
      BY <2>1, <3>2 DEF IInv, TypeOK, AllSound, Resolving
    <3> QED
      BY <3>1, <3>2
  <2> QED
    BY <2>1 DEF IInv, AllSound, Sound, SoundFile, Good
<1>3. NothingUnflagged' /\ WritingCurrent'
  BY DEF IInv, NothingUnflagged, WritingCurrent
<1> QED
  BY <1>1, <1>2, <1>3 DEF IInv

\* A DNS lookup turns into a good snapshot.
LEMMA LookupInvariant ==
    ASSUME IInv, NEW w \in Workers, Lookup(w)
    PROVE  IInv'
<1>1. /\ job[w] \in Jobs /\ job[w].host \in Hosts /\ job[w].snap \in Snapshot
      /\ Good(job[w].snap)
  BY JobFacts DEF IInv, AllSound, Resolving, Lookup
<1>2. PICK snap \in Snapshot : Good(snap) /\ Answer(w, snap)
  <2>1. dns[job[w].host] \in Texts \cup {None}
    BY <1>1, RecordsAssumption DEF IInv, TypeOK
  <2> QED
    BY <1>1, <2>1, LookupGood DEF Lookup
<1> DEFINE j == [job[w] EXCEPT !.pc = "store", !.snap = snap]
<1>3. j \in Jobs /\ j.snap = snap
  BY <1>1 DEF Jobs
<1>4. job' = [job EXCEPT ![w] = j]
  BY <1>2 DEF Answer
<1>5. queue' \in Table /\ Sound(queue')
  BY DEF Lookup, IInv, TypeOK, AllSound
<1> QED
  BY <1>2, <1>3, <1>4, <1>5, JobInvariant DEF Lookup

\* A visit of an unknown or pending host.
LEMMA VisitInvariant ==
    ASSUME IInv, NEW r \in Requests, NEW h \in Hosts,
           VisitUnknown(r, h) \/ VisitPending(r, h)
    PROVE  IInv'
<1>1. queue' \in Table /\ Sound(queue') /\ r \in Workers
  BY DEF VisitUnknown, VisitPending, IInv, TypeOK, AllSound, Workers
<1>2. CASE VisitUnknown(r, h)
  <2> DEFINE j == [pc |-> "lookup", kind |-> "observe", host |-> h, snap |-> Unknown]
  <2>1. j \in Jobs /\ Good(j.snap)
    BY UnknownGood DEF Jobs
  <2> QED
    BY <1>1, <1>2, <2>1, JobInvariant DEF VisitUnknown
<1>3. CASE VisitPending(r, h)
  <2> DEFINE j == [pc |-> "visit", host |-> h]
  <2>1. j \in Visits /\ j \notin Jobs
    BY DEF Visits, Jobs
  <2> QED
    BY <1>1, <1>3, <2>1, JobInvariant DEF VisitPending
<1> QED
  BY <1>2, <1>3

\* The copy that Refresh takes of a visited host is as sound as the registry.
LEMMA RefreshInvariant ==
    ASSUME IInv, NEW r \in Requests, Refresh(r)
    PROVE  IInv'
<1> DEFINE h == job[r].host
           j == [pc |-> "lookup", kind |-> "refresh", host |-> h, snap |-> domains[h]]
<1>1. queue' \in Table /\ Sound(queue') /\ r \in Workers
  BY DEF Refresh, IInv, TypeOK, AllSound, Workers
<1>2. h \in Hosts
  <2>1. job[r] \in Jobs \cup Visits \cup {Idle} /\ job[r].pc = "visit"
    BY <1>1 DEF Refresh, IInv, TypeOK
  <2> QED
    BY <2>1 DEF Jobs, Visits, Idle
<1>3. CASE domains[h] = None
  <2>1. job' = [job EXCEPT ![r] = Idle] /\ Idle \notin Jobs
    BY <1>3 DEF Refresh, Jobs, Idle
  <2> QED
    BY <1>1, <2>1, JobInvariant DEF Refresh
<1>4. CASE domains[h] # None
  <2>1. domains[h] \in Snapshot /\ Good(domains[h])
    BY <1>2, <1>4 DEF IInv, TypeOK, Table, AllSound, Sound
  <2>2. j \in Jobs /\ Good(j.snap)
    BY <1>2, <2>1 DEF Jobs
  <2>3. job' = [job EXCEPT ![r] = j]
    BY <1>4 DEF Refresh
  <2> QED
    BY <1>1, <2>2, <2>3, JobInvariant DEF Refresh
<1> QED
  BY <1>3, <1>4

\* The refresh loop takes the next host of its pass.
LEMMA RefreshNextInvariant ==
    ASSUME IInv, NEW h \in Hosts, RefreshNext(h)
    PROVE  IInv'
<1> DEFINE j == [pc |-> "lookup", kind |-> "refresh", host |-> h, snap |-> queue[h]]
<1>1. queue[h] \in Snapshot /\ Good(queue[h])
  BY DEF RefreshNext, IInv, TypeOK, Table, AllSound, Sound
<1>2. j \in Jobs /\ Good(j.snap)
  BY <1>1 DEF Jobs
<1>3. queue' \in Table /\ Sound(queue')
  BY DEF RefreshNext, IInv, TypeOK, Table, AllSound, Sound, Good
<1> QED
  BY <1>2, <1>3, JobInvariant DEF RefreshNext, Workers

\* Storing flags the registry, whatever is being written.
LEMMA StoreInvariant ==
    ASSUME IInv, NEW w \in Workers, Store(w)
    PROVE  IInv'
<1> DEFINE h == job[w].host
<1>1. h \in Hosts /\ job[w].snap \in Snapshot /\ Good(job[w].snap)
  BY JobFacts DEF IInv, Store, AllSound, Resolving
<1>2. /\ job' = [job EXCEPT ![w] = Idle]
      /\ queue' \in {queue, Empty}
      /\ UNCHANGED <<environment, disk, run, writing, writeFailed, stopping, restarts>>
      /\ \/ UNCHANGED <<domains, age, dirty>>
         \/ /\ domains' = [domains EXCEPT ![h] = job[w].snap]
            /\ age' = [age EXCEPT ![h] = "fresh"]
            /\ dirty' = TRUE
  BY DEF Store
<1>3. domains' \in Table /\ Sound(domains')
  BY <1>1, <1>2 DEF IInv, TypeOK, Table, AllSound, Sound
<1>4. queue' \in Table /\ Sound(queue')
  BY <1>2, EmptySound DEF IInv, TypeOK, AllSound
<1>5. TypeOK'
  BY <1>2, <1>3, <1>4 DEF IInv, TypeOK, environment, Ages
<1>6. AllSound'
  <2>1. \A v \in Workers : Resolving(v)' => job'[v] = job[v] /\ Resolving(v)
    BY <1>2 DEF IInv, TypeOK, Resolving, Idle
  <2> QED
    BY <1>2, <1>3, <1>4, <2>1 DEF IInv, AllSound, Sound, SoundFile
<1>7. NothingUnflagged' /\ WritingCurrent'
  BY <1>2 DEF IInv, NothingUnflagged, WritingCurrent
<1> QED
  BY <1>5, <1>6, <1>7 DEF IInv

\* What RunTick copies is sound because the registry is.
LEMMA RunTickInvariant ==
    ASSUME IInv, RunTick
    PROVE  IInv'
<1>1. queue' \in Table /\ Sound(queue')
  BY DEF RunTick, IInv, TypeOK, Table, AllSound, Sound, Good
<1>2. TypeOK'
  BY <1>1 DEF RunTick, IInv, TypeOK, environment
<1>3. AllSound' /\ NothingUnflagged' /\ WritingCurrent'
  BY <1>1 DEF RunTick, IInv, AllSound, SoundFile, Resolving, Sound, NothingUnflagged, WritingCurrent
<1> QED
  BY <1>2, <1>3 DEF IInv

\* Before it clears the flag, save has copied everything.
LEMMA SaveBeginInvariant ==
    ASSUME IInv, SaveBegin
    PROVE  IInv'
<1>1. CASE dirty
  <2>1. writing' = domains /\ domains # None /\ dirty' = FALSE
    BY <1>1, NoneAssumption DEF SaveBegin, IInv, TypeOK
  <2>2. TypeOK'
    BY <2>1 DEF SaveBegin, IInv, TypeOK, environment
  <2>3. AllSound'
    BY <2>1 DEF SaveBegin, IInv, AllSound, Sound, SoundFile, Resolving
  <2>4. NothingUnflagged' /\ WritingCurrent'
    BY <2>1 DEF SaveBegin, NothingUnflagged, WritingCurrent
  <2> QED
    BY <2>2, <2>3, <2>4 DEF IInv
<1>2. CASE ~dirty
  <2>1. TypeOK'
    BY <1>2 DEF SaveBegin, IInv, TypeOK, environment
  <2>2. AllSound'
    BY <1>2 DEF SaveBegin, IInv, AllSound, Sound, SoundFile, Resolving
  <2>3. NothingUnflagged' /\ WritingCurrent'
    BY <1>2 DEF SaveBegin, IInv, NothingUnflagged, WritingCurrent
  <2> QED
    BY <2>1, <2>2, <2>3 DEF IInv
<1> QED
  BY <1>1, <1>2

\* A write that succeeds leaves the file current or the flag set.
LEMMA SaveEndInvariant ==
    ASSUME IInv, SaveEnd
    PROVE  IInv'
<1>1. /\ writing = None => disk' = disk /\ writeFailed' = writeFailed
      /\ writing # None => \/ disk' = Marshalled(writing) /\ writeFailed' = FALSE
                           \/ disk' = disk /\ writeFailed' = TRUE
      /\ writing' = None /\ run' \in {"left", "waiting"}
      /\ UNCHANGED <<environment, domains, age, dirty, job, queue, stopping, restarts>>
  BY DEF SaveEnd
<1>2. disk' \in File /\ SoundFile'
  <2>1. CASE disk' = disk
    BY <2>1 DEF IInv, TypeOK, AllSound, SoundFile
  <2>2. CASE writing # None /\ disk' = Marshalled(writing)
    <3>1. writing \in Table /\ Sound(writing)
      BY <2>2 DEF IInv, TypeOK, AllSound
    <3> QED
      BY <2>2, <3>1, MarshalledSound
  <2> QED
    BY <1>1, <2>1, <2>2
<1>3. TypeOK'
  BY <1>1, <1>2 DEF IInv, TypeOK, environment
<1>4. AllSound'
  BY <1>1, <1>2 DEF IInv, AllSound, Sound, Resolving
<1>5. NothingUnflagged' /\ WritingCurrent'
  BY <1>1 DEF IInv, NothingUnflagged, WritingCurrent
<1> QED
  BY <1>3, <1>4, <1>5 DEF IInv

\* What a sound snapshot leaves in the file makes the same snapshot again.
LEMMA SameAgain ==
    ASSUME NEW table \in Table, Sound(table)
    PROVE  Loaded(Marshalled(table)) = table
<1>1. ASSUME NEW h \in Hosts PROVE Loaded(Marshalled(table))[h] = table[h]
  <2>1. CASE table[h] = None
    BY <2>1 DEF Loaded, Marshalled
  <2>2. CASE table[h] # None
    <3>1. table[h] \in Snapshot /\ table[h].origin = ParseOrigin(table[h].text)
      BY <2>2 DEF Table, Sound, Good
    <3> DEFINE e == [status |-> table[h].status, text |-> table[h].text,
                     failed |-> table[h].failed]
    <3>2. e \in Entry /\ e # None /\ Marshalled(table)[h] = e
      BY <2>2, <3>1, NoneAssumption DEF Marshalled, Snapshot, Entry
    <3>3. Loaded(Marshalled(table))[h] = Load(e)
      BY <3>2 DEF Loaded
    <3>4. Load(e) = table[h]
      BY <3>1 DEF Load, Snapshot
    <3> QED
      BY <3>3, <3>4
  <2> QED
    BY <2>1, <2>2
<1>2. DOMAIN Loaded(Marshalled(table)) = Hosts /\ DOMAIN table = Hosts
  BY DEF Loaded, Table
<1>3. Loaded(Marshalled(table)) = [h \in Hosts |-> Loaded(Marshalled(table))[h]]
  BY DEF Loaded
<1>4. table = [h \in Hosts |-> table[h]]
  BY DEF Table
<1> QED
  BY <1>1, <1>3, <1>4

\* And a sound file is what the table loaded from it leaves again.
LEMMA SameFile ==
    ASSUME disk \in File
    PROVE  Marshalled(Loaded(disk)) = disk
<1>1. ASSUME NEW h \in Hosts PROVE Marshalled(Loaded(disk))[h] = disk[h]
  <2>1. CASE disk[h] = None
    BY <2>1 DEF Loaded, Marshalled
  <2>2. CASE disk[h] # None
    <3>1. disk[h] \in Entry /\ disk[h].text \in Texts \cup {None}
      BY <2>2 DEF File, Entry
    <3>2. Load(disk[h]) \in Snapshot
      BY <3>1, ParseType DEF Load, Snapshot, Entry
    <3>3. Loaded(disk)[h] = Load(disk[h]) /\ Loaded(disk)[h] # None
      BY <2>2, <3>2, NoneAssumption DEF Loaded
    <3>4. Marshalled(Loaded(disk))[h]
            = [status |-> disk[h].status, text |-> disk[h].text, failed |-> disk[h].failed]
      BY <3>3 DEF Marshalled, Load
    <3> QED
      BY <3>1, <3>4 DEF Entry
  <2> QED
    BY <2>1, <2>2
<1>2. Marshalled(Loaded(disk)) = [h \in Hosts |-> Marshalled(Loaded(disk))[h]]
  BY DEF Marshalled
<1>3. disk = [h \in Hosts |-> disk[h]]
  BY DEF File
<1> QED
  BY <1>1, <1>2, <1>3

\* A restart begins with what the file holds.
LEMMA RestartInvariant ==
    ASSUME IInv, Restart
    PROVE  IInv'
<1>1. Loaded(disk) \in Table /\ Sound(Loaded(disk)) /\ Marshalled(Loaded(disk)) = disk
  BY LoadedSound, SameFile DEF IInv, TypeOK, AllSound
<1>2. TypeOK'
  <2>1. /\ domains' \in Table /\ disk' \in File /\ queue' \in Table
        /\ writing' \in Table \cup {None} /\ job' \in [Workers -> Jobs \cup Visits \cup {Idle}]
    BY <1>1, EmptySound DEF Restart, IInv, TypeOK
  <2>2. restarts' \in 0..MaxRestarts
    BY RegistryAssumption DEF Restart, IInv, TypeOK
  <2> QED
    BY <2>1, <2>2 DEF Restart, IInv, TypeOK, environment
<1>3. AllSound'
  <2>1. \A w \in Workers : ~Resolving(w)'
    BY DEF Restart, Resolving, Idle
  <2> QED
    BY <1>1, <2>1, EmptySound DEF Restart, IInv, AllSound, SoundFile
<1>4. NothingUnflagged' /\ WritingCurrent'
  BY <1>1 DEF Restart, NothingUnflagged, WritingCurrent
<1> QED
  BY <1>2, <1>3, <1>4 DEF IInv

\* The world, the clock and a shutdown request change no snapshot.
LEMMA WorldInvariant ==
    ASSUME IInv, Environment \/ Shutdown \/ \E h \in Hosts : Elapse(h)
    PROVE  IInv'
<1>1. /\ UNCHANGED <<domains, dirty, disk, job, queue, run, writing, writeFailed, restarts>>
      /\ age' \in [Hosts -> Ages] /\ stopping' \in BOOLEAN
      /\ dns' \in [Hosts -> Records \cup {None}] /\ net' \in Network
  <2>1. CASE Environment
    BY <2>1 DEF Environment, IInv, TypeOK
  <2>2. CASE Shutdown
    BY <2>2 DEF Shutdown, IInv, TypeOK, environment
  <2>3. CASE \E h \in Hosts : Elapse(h)
    BY <2>3 DEF Elapse, IInv, TypeOK, environment, Ages
  <2> QED
    BY <2>1, <2>2, <2>3
<1>2. TypeOK'
  BY <1>1 DEF IInv, TypeOK
<1>3. AllSound' /\ NothingUnflagged' /\ WritingCurrent'
  BY <1>1 DEF IInv, AllSound, Sound, SoundFile, Resolving, NothingUnflagged, WritingCurrent
<1> QED
  BY <1>2, <1>3 DEF IInv

-----------------------------------------------------------------------------
\* Every step keeps the invariant.
LEMMA InvariantStep == IInv /\ [Next]_vars => IInv'
<1> SUFFICES ASSUME IInv, [Next]_vars PROVE IInv'
  OBVIOUS
<1>1. ASSUME NEW r \in Requests, NEW h \in Hosts, VisitUnknown(r, h) \/ VisitPending(r, h)
      PROVE  IInv'
  BY <1>1, VisitInvariant
<1>9. ASSUME NEW r \in Requests, Refresh(r)
      PROVE  IInv'
  BY <1>9, RefreshInvariant
<1>2. ASSUME NEW w \in Workers, Lookup(w) \/ Store(w)
      PROVE  IInv'
  BY <1>2, LookupInvariant, StoreInvariant
<1>3. CASE RunTick
  BY <1>3, RunTickInvariant
<1>4. ASSUME NEW h \in Hosts, RefreshNext(h)
      PROVE  IInv'
  BY <1>4, RefreshNextInvariant
<1>5. CASE SaveBegin \/ SaveEnd
  BY <1>5, SaveBeginInvariant, SaveEndInvariant
<1>6. CASE Restart
  BY <1>6, RestartInvariant
<1>7. CASE Environment \/ Shutdown \/ \E h \in Hosts : Elapse(h)
  BY <1>7, WorldInvariant
<1>8. CASE UNCHANGED vars
  <2>1. TypeOK'
    BY <1>8 DEF vars, environment, IInv, TypeOK
  <2> QED
    BY <1>8, <2>1 DEF vars, environment, IInv, AllSound, Sound, SoundFile, Resolving, NothingUnflagged, WritingCurrent
<1> QED
  BY <1>1, <1>2, <1>3, <1>4, <1>5, <1>6, <1>7, <1>8, <1>9
     DEF Next, RequestStep, RunStep, Workers

\* Whatever copies, failures, saves and restarts a snapshot went through, it
\* is of a known type, and an active one has an origin, also one that a
\* restart makes of its text: the proxy never dereferences a missing origin.
THEOREM ActiveCanServe == Spec => [](TypeOK /\ ActiveHasOrigin)
<1>1. IInv => TypeOK /\ ActiveHasOrigin
  BY SoundEverywhere DEF IInv
<1> QED
  BY <1>1, InitInvariant, InvariantStep, PTL DEF Spec

\* A registry that was saved is the same after a restart, origins included.
RestartKeeps == Loaded(Marshalled(domains)) = domains

\* What NewRegistry parses of a file that was written from the registry is the
\* registry: no text it keeps is refused, or read as another origin.
THEOREM RestartRestores == Spec => []RestartKeeps
<1>1. IInv => RestartKeeps
  BY SameAgain DEF IInv, TypeOK, AllSound, RestartKeeps
<1> QED
  BY <1>1, InitInvariant, InvariantStep, PTL DEF Spec

\* No change of the registry is lost silently: it is in the file, flagged,
\* being written, or part of a write that failed last.
THEOREM ChangesFlagged == Spec => []NothingUnflagged
<1>1. IInv => NothingUnflagged
  BY DEF IInv
<1> QED
  BY <1>1, InitInvariant, InvariantStep, PTL DEF Spec

-----------------------------------------------------------------------------
\* One step of OnlyRefreshTakesDown.
KeepsOrigins ==
    restarts' = restarts =>
         \A h \in Hosts : domains[h] # None =>
            /\ domains'[h] # None
            /\ domains[h].origin # None /\ domains'[h].origin = None =>
                 \E w \in Workers : /\ job[w].pc = "store" /\ job'[w] = Idle
                                    /\ job[w].kind = "refresh" /\ job[w].host = h

\* Only a refresh that stores its result can take an origin away.
LEMMA StoreKeepsOrigins ==
    ASSUME TypeOK, NEW w \in Workers, Store(w)
    PROVE  KeepsOrigins
<1> SUFFICES ASSUME NEW h \in Hosts, domains[h] # None
             PROVE  /\ domains'[h] # None
                    /\ domains[h].origin # None /\ domains'[h].origin = None =>
                         /\ job[w].pc = "store" /\ job'[w] = Idle
                         /\ job[w].kind = "refresh" /\ job[w].host = h
  BY DEF KeepsOrigins
<1>1. /\ job[w].host \in Hosts /\ job[w].snap \in Snapshot
      /\ job[w].kind \in {"observe", "refresh"}
  BY JobFacts DEF Store, Resolving, Jobs
<1>2. job[w].pc = "store" /\ job'[w] = Idle
  BY DEF Store, TypeOK
<1>3. CASE UNCHANGED domains
  BY <1>3
<1>4. CASE ~(job[w].kind = "observe" /\ domains[job[w].host] # None)
  <2>1. domains' = [domains EXCEPT ![job[w].host] = job[w].snap]
    BY <1>4 DEF Store
  <2>2. CASE h = job[w].host
    BY <1>1, <1>2, <1>4, <2>1, <2>2, NoneAssumption DEF TypeOK, Table
  <2>3. CASE h # job[w].host
    BY <2>1, <2>3 DEF TypeOK, Table
  <2> QED
    BY <2>2, <2>3
<1> QED
  BY <1>3, <1>4 DEF Store

\* No step but a refresh's takes an active host's origin away.
LEMMA StepKeepsOrigins == TypeOK /\ [Next]_vars => KeepsOrigins
<1> SUFFICES ASSUME TypeOK, [Next]_vars PROVE KeepsOrigins
  OBVIOUS
<1>1. ASSUME UNCHANGED domains PROVE KeepsOrigins
  BY <1>1 DEF KeepsOrigins
<1>2. ASSUME NEW w \in Workers, Store(w) PROVE KeepsOrigins
  BY <1>2, StoreKeepsOrigins
<1>3. CASE Restart
  BY <1>3 DEF Restart, KeepsOrigins, TypeOK
<1>4. ASSUME NEW r \in Requests,
             Refresh(r) \/ \E h \in Hosts : VisitUnknown(r, h) \/ VisitPending(r, h)
      PROVE  UNCHANGED domains
  BY <1>4 DEF VisitUnknown, VisitPending, Refresh
<1>5. ASSUME NEW w \in Workers, Lookup(w) PROVE UNCHANGED domains
  BY <1>5 DEF Lookup
<1>6. CASE RunTick \/ SaveBegin \/ SaveEnd \/ \E h \in Hosts : RefreshNext(h)
  BY <1>1, <1>6 DEF RunTick, SaveBegin, SaveEnd, RefreshNext
<1>7. CASE Environment \/ Shutdown \/ \E h \in Hosts : Elapse(h)
  BY <1>1, <1>7 DEF Environment, Shutdown, Elapse
<1>8. CASE UNCHANGED vars
  BY <1>1, <1>8 DEF vars
<1> QED
  BY <1>1, <1>2, <1>3, <1>4, <1>5, <1>6, <1>7, <1>8 DEF Next, RequestStep, RunStep, Workers

\* Concurrent first visits do not undo each other: only a refresh of a domain
\* takes its origin away.
THEOREM FirstVisitsHarmless == Spec => OnlyRefreshTakesDown
<1>1. TypeOK /\ [Next]_vars => [KeepsOrigins]_vars
  BY StepKeepsOrigins
<1>2. IInv => TypeOK
  BY DEF IInv
<1> QED
  BY <1>1, <1>2, InitInvariant, InvariantStep, PTL DEF Spec, OnlyRefreshTakesDown, KeepsOrigins

-----------------------------------------------------------------------------
(***************************************************************************)
(* What Converges rests on, fairness aside: once lookups stop failing, a   *)
(* wrong answer is one that was in flight before.                          *)
(***************************************************************************)

\* The goroutines that are about to store something else than the owner of the
\* domain publishes.
Misinformed(h) == {w \in Workers : /\ job[w].pc = "store" /\ job[w].host = h
                                   /\ job[w].snap.origin # ParseOrigin(dns[h])}

\* The registry has what is published.
Published(h) == domains[h] # None /\ domains[h].origin = ParseOrigin(dns[h])

\* While the resolver answers, the owner changes nothing and the process goes
\* on, no goroutine becomes misinformed, however old the copy it started from;
\* and once none is, a domain that is right stays so.
AnswersStay ==
    [][\A h \in Hosts :
         net = "up" /\ ~stopping /\ dns'[h] = dns[h] /\ restarts' = restarts =>
            /\ Misinformed(h)' \subseteq Misinformed(h)
            /\ Misinformed(h) = {} /\ Published(h) => Published(h)']_vars

\* A goroutine whose new job, if any, is a lookup or right is not misinformed.
LEMMA SameMisinformed ==
    ASSUME TypeOK, NEW h \in Hosts, dns'[h] = dns[h], NEW w \in Workers,
           \A v \in Workers \ {w} : job'[v] = job[v],
           \/ job'[w].pc # "store"
           \/ job'[w].host = h => job'[w].snap.origin = ParseOrigin(dns[h])
    PROVE  Misinformed(h)' \subseteq Misinformed(h)
  BY DEF Misinformed

\* A lookup that cannot fail returns what is published.
LEMMA LookupInforms ==
    ASSUME TypeOK, NEW h \in Hosts, NEW w \in Workers, Lookup(w), net = "up", ~stopping
    PROVE  /\ Misinformed(h)' \subseteq Misinformed(h)
           /\ Published(h) => Published(h)'
<1>1. Answer(w, Resolved(dns[job[w].host]))
  BY DEF Lookup, MayFail
<1>2. job[w] \in Jobs
  BY JobFacts DEF Lookup, Resolving
<1>3. /\ job'[w].host = job[w].host
      /\ job'[w].snap = Resolved(dns[job[w].host])
      /\ \A v \in Workers \ {w} : job'[v] = job[v]
  BY <1>1, <1>2 DEF Answer, Jobs, TypeOK
<1>4. UNCHANGED <<dns, domains>>
  BY DEF Lookup, environment
<1>5. job'[w].host = h => job'[w].snap.origin = ParseOrigin(dns[h])
  BY <1>3 DEF Resolved
<1> QED
  BY <1>3, <1>4, <1>5, SameMisinformed DEF Published

\* A store by a goroutine that is not misinformed keeps the table right.
LEMMA StoreInforms ==
    ASSUME TypeOK, NEW h \in Hosts, NEW w \in Workers, Store(w)
    PROVE  /\ Misinformed(h)' \subseteq Misinformed(h)
           /\ Misinformed(h) = {} /\ Published(h) => Published(h)'
<1>1. UNCHANGED dns /\ job' = [job EXCEPT ![w] = Idle]
  BY DEF Store, environment
<1>2. Misinformed(h)' \subseteq Misinformed(h)
  BY <1>1 DEF Misinformed, TypeOK, Idle
<1>3. ASSUME Misinformed(h) = {}, Published(h) PROVE Published(h)'
  <2>1. CASE UNCHANGED domains
    BY <1>1, <1>3, <2>1 DEF Published
  <2>2. CASE domains' = [domains EXCEPT ![job[w].host] = job[w].snap]
    <3>1. job[w] \in Jobs
      BY JobFacts DEF Store, Resolving
    <3>2. job[w].host \in Hosts /\ job[w].snap \in Snapshot /\ job[w].snap # None
      BY <3>1, NoneAssumption DEF Jobs
    <3>3. CASE job[w].host = h
      <4>1. job[w].snap.origin = ParseOrigin(dns[h])
        BY <1>3, <3>3 DEF Store, Misinformed
      <4>2. domains'[h] = job[w].snap
        BY <2>2, <3>2, <3>3 DEF TypeOK, Table
      <4> QED
        BY <1>1, <3>2, <4>1, <4>2 DEF Published
    <3>4. CASE job[w].host # h
      BY <1>1, <1>3, <2>2, <3>4 DEF Published, TypeOK, Table
    <3> QED
      BY <3>3, <3>4
  <2> QED
    BY <2>1, <2>2 DEF Store
<1> QED
  BY <1>2, <1>3

\* Every other step of Next, short of a restart, begins lookups only and leaves
\* the table.
LEMMA OthersInform ==
    ASSUME TypeOK, [Next]_vars, restarts' = restarts, NEW h \in Hosts, dns'[h] = dns[h],
           ~\E w \in Workers : Lookup(w) \/ Store(w)
    PROVE  /\ Misinformed(h)' \subseteq Misinformed(h)
           /\ Published(h) => Published(h)'
<1>1. ASSUME NEW r \in Requests,
             Refresh(r) \/ \E g \in Hosts : VisitUnknown(r, g) \/ VisitPending(r, g)
      PROVE  Misinformed(h)' \subseteq Misinformed(h) /\ UNCHANGED domains
  <2>1. \A v \in Workers \ {r} : job'[v] = job[v]
    BY <1>1 DEF VisitUnknown, VisitPending, Refresh, TypeOK
  <2>2. job'[r].pc # "store" /\ UNCHANGED domains
    BY <1>1 DEF VisitUnknown, VisitPending, Refresh, TypeOK, Workers, Idle
  <2> QED
    BY <2>1, <2>2, SameMisinformed DEF Workers
<1>2. ASSUME NEW g \in Hosts, RefreshNext(g)
      PROVE  Misinformed(h)' \subseteq Misinformed(h) /\ UNCHANGED domains
  <2>1. /\ job'[Refresher].pc # "store" /\ \A v \in Workers \ {Refresher} : job'[v] = job[v]
        /\ UNCHANGED domains
    BY <1>2 DEF RefreshNext, TypeOK, Workers
  <2> QED
    BY <2>1, SameMisinformed DEF Workers
<1>3. CASE \/ RunTick \/ SaveBegin \/ SaveEnd \/ (\E g \in Hosts : Elapse(g)) \/ Environment
           \/ Shutdown \/ UNCHANGED vars
  <2>1. UNCHANGED <<job, domains>>
    BY <1>3 DEF RunTick, SaveBegin, SaveEnd, Elapse, Environment, Shutdown, vars
  <2> QED
    BY <2>1 DEF Misinformed, Published
<1>4. ~Restart
  BY DEF Restart, TypeOK
<1> QED
  BY <1>1, <1>2, <1>3, <1>4 DEF Next, RunStep, RequestStep, Published, Workers

\* No step misinforms the registry once lookups stop failing.
THEOREM RightAnswersStay == Spec => AnswersStay
<1>1. ASSUME TypeOK, [Next]_vars, NEW h \in Hosts, net = "up", ~stopping, dns'[h] = dns[h],
             restarts' = restarts
      PROVE  /\ Misinformed(h)' \subseteq Misinformed(h)
             /\ Misinformed(h) = {} /\ Published(h) => Published(h)'
  BY <1>1, LookupInforms, StoreInforms, OthersInform
<1>2. TypeOK /\ [Next]_vars =>
        [\A h \in Hosts :
           net = "up" /\ ~stopping /\ dns'[h] = dns[h] /\ restarts' = restarts =>
              /\ Misinformed(h)' \subseteq Misinformed(h)
              /\ Misinformed(h) = {} /\ Published(h) => Published(h)']_vars
  BY <1>1
<1> QED
  BY <1>2, ActiveCanServe, PTL DEF Spec, AnswersStay
=============================================================================

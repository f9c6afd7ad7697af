------------------------- MODULE BunnyFleet_proofs -------------------------
(***************************************************************************)
(* Proofs about BunnyFleet, for any nodes, addresses and record ids: only  *)
(* the main of a leaving node deletes records, and only its own; so, when  *)
(* no node is configured with the address of another, a node that serves   *)
(* is never taken out of the zone by another one; and a node that leaves   *)
(* without an error leaves nothing behind of what it set out to delete.    *)
(***************************************************************************)
EXTENDS BunnyFleet, TLAPS

\* No two records have the same id.
IdsUnique == \A r, s \in zone : r.id = s.id => r = s

\* What a goroutine w in state t may be about to delete: only the main of a
\* leaving node deletes at all, and those of its targets that still exist have
\* one of its addresses.
Aimed(w, t) ==
    /\ t.pc = "read" /\ t.op = "delete" => w[2] = "main" /\ phase[NodeOf(w)] = "leaving"
    /\ t.pc = "read" /\ t.op = "add" => w[2] = "heart" \/ phase[NodeOf(w)] # "leaving"
    /\ t.pc = "wait" => t.req \in t.todo
    /\ t.pc \in {"work", "wait"} =>
          \A q \in t.todo : q.op = "delete" =>
             /\ w[2] = "main" /\ phase[NodeOf(w)] = "leaving"
             /\ \A r \in zone : r.id = q.id => r.ip \in PublicIPs[NodeOf(w)]

DeletesAimed == \A w \in Workers : Aimed(w, task[w])

IInv == TypeOK /\ IdsUnique /\ DeletesAimed

\* Nothing is listed and nobody runs.
LEMMA InitInvariant == Init => IInv
<1> SUFFICES ASSUME Init PROVE IInv
  OBVIOUS
<1>1. TypeOK
  BY DEF Init, TypeOK, Tasks, Idle, Phases, Dead, Workers
<1>2. IdsUnique
  BY DEF Init, IdsUnique
<1>3. DeletesAimed
  BY DEF Init, DeletesAimed, Aimed, Idle
<1> QED
  BY <1>1, <1>2, <1>3 DEF IInv

\* The two goroutines of a node.
LEMMA WorkerFacts ==
    /\ \A n \in Nodes : <<n, "main">> \in Workers /\ <<n, "heart">> \in Workers
    /\ \A w \in Workers : NodeOf(w) \in Nodes /\ w = <<NodeOf(w), w[2]>>
                          /\ w[2] \in {"main", "heart"}
  BY DEF Workers, NodeOf

\* The end of a process keeps the invariant, whatever it leaves behind.
LEMMA EndInvariant ==
    ASSUME IInv, NEW n \in Nodes, NEW how \in Dead, End(n, how),
           UNCHANGED <<zone, cancelled, seen>>, late' \subseteq Requests
    PROVE  IInv'
<1>1. /\ \A w \in Workers : task'[w] = IF NodeOf(w) = n THEN Idle ELSE task[w]
      /\ phase'[n] = how /\ \A m \in Nodes \ {n} : phase'[m] = phase[m]
  BY DEF End, IInv, TypeOK
<1>2. TypeOK'
  <2>1. task' \in [Workers -> Tasks] /\ phase' \in [Nodes -> Phases]
    BY DEF End, IInv, TypeOK, Tasks, Phases, Dead
  <2>2. \A m \in Nodes : /\ NodeOf(<<m, "main">>) = m
                         /\ NodeOf(<<m, "heart">>) = m
    BY DEF NodeOf
  <2>3. ASSUME NEW m \in Nodes
        PROVE  /\ task'[<<m, "main">>] = Idle <=> phase'[m] \in Dead \cup {"serving"}
               /\ phase'[m] \in Dead \cup {"starting"} => task'[<<m, "heart">>] = Idle
    <3>1. CASE m = n
      BY <1>1, <2>2, <3>1, WorkerFacts DEF Dead
    <3>2. CASE m # n
      BY <1>1, <2>2, <3>2, WorkerFacts DEF IInv, TypeOK
    <3> QED
      BY <3>1, <3>2
  <2>4. zone' \subseteq [id : Ids, ip : IPs] /\ cancelled' \in [Nodes -> BOOLEAN]
        /\ late' \subseteq Requests /\ seen' \in [Nodes -> SUBSET Ids]
    BY DEF IInv, TypeOK
  <2> QED
    BY <2>1, <2>3, <2>4 DEF TypeOK
<1>3. IdsUnique'
  BY DEF IInv, IdsUnique
<1>4. DeletesAimed'
  BY <1>1, WorkerFacts DEF IInv, DeletesAimed, Aimed, Idle
<1> QED
  BY <1>2, <1>3, <1>4 DEF IInv

\* What a waiting goroutine waits for is a request.
LEMMA AwaitedRequests ==
    ASSUME TypeOK, NEW ws \in SUBSET Workers
    PROVE  Awaited(ws) \subseteq Requests
  BY DEF TypeOK, Awaited, Tasks, Idle

\* A failing call ends the process or just the heartbeat's round.
LEMMA FailInvariant ==
    ASSUME IInv, NEW w \in Workers, NEW left \in SUBSET Requests, Fail(w, left),
           UNCHANGED <<zone, cancelled, seen>>
    PROVE  IInv'
<1>1. CASE w[2] = "heart"
  <2>1. /\ task' = [task EXCEPT ![w] = Idle] /\ UNCHANGED phase
        /\ late' \subseteq Requests
    BY <1>1 DEF Fail, IInv, TypeOK
  <2>2. TypeOK'
    <3>1. task' \in [Workers -> Tasks]
      BY <2>1 DEF IInv, TypeOK, Tasks
    <3>2. \A n \in Nodes : /\ task'[<<n, "main">>] = task[<<n, "main">>]
                           /\ task'[<<n, "heart">>] \in {Idle, task[<<n, "heart">>]}
      BY <1>1, <2>1, WorkerFacts DEF IInv, TypeOK
    <3> QED
      BY <2>1, <3>1, <3>2 DEF IInv, TypeOK
  <2>3. DeletesAimed'
    BY <2>1 DEF IInv, TypeOK, DeletesAimed, Aimed, Idle
  <2> QED
    BY <2>2, <2>3 DEF IInv, IdsUnique
<1>2. CASE w[2] # "heart"
  <2>1. {<<NodeOf(w), "heart">>} \in SUBSET Workers
    BY WorkerFacts
  <2>2. late' \subseteq Requests /\ End(NodeOf(w), "down")
    BY <1>2, <2>1, AwaitedRequests DEF Fail, IInv, TypeOK
  <2> QED
    BY <2>2, EndInvariant, WorkerFacts DEF Dead
<1> QED
  BY <1>1, <1>2

\* The id of a record that is added is not one that is about to be deleted.
NewIsFresh ==
    \A r \in zone' \ zone : \A w \in Working : \A p \in task[w].todo :
        p.op = "delete" => p.id # r.id

\* The API carries out a request: an addition gets an id that nothing refers
\* to, so it cannot become the target of a deletion that is under way.
LEMMA ApplyFacts ==
    ASSUME IInv, NEW q \in Requests, Apply(q)
    PROVE  /\ zone' \subseteq [id : Ids, ip : IPs]
           /\ IdsUnique'
           /\ NewIsFresh
<1>1. CASE q.op = "add" /\ \E i \in FreshIds : zone' = zone \cup {[id |-> i, ip |-> q.ip]}
  <2>1. PICK i \in FreshIds : zone' = zone \cup {[id |-> i, ip |-> q.ip]}
    BY <1>1
  <2>2. q.ip \in IPs
    BY <1>1 DEF Requests
  <2>3. i \in Ids /\ \A r \in zone : r.id # i
    BY DEF FreshIds
  <2>4. ASSUME NEW w \in Working, NEW p \in task[w].todo, p.op = "delete"
        PROVE  p.id # i
    <3>1. p.id \in IdsIn(task[w].todo)
      BY <2>4 DEF IdsIn
    <3>2. IdsIn(task[w].todo) \in {IdsIn(task[v].todo) : v \in Working}
      OBVIOUS
    <3>3. p.id \in UNION {IdsIn(task[v].todo) : v \in Working}
      BY <3>1, <3>2
    <3> QED
      BY <3>3 DEF FreshIds
  <2> QED
    BY <2>1, <2>2, <2>3, <2>4 DEF IInv, TypeOK, IdsUnique, NewIsFresh
<1>2. CASE zone' = {r \in zone : r.id # q.id}
  BY <1>2 DEF IInv, TypeOK, IdsUnique, NewIsFresh
<1> QED
  BY <1>1, <1>2 DEF Apply

\* Two facts about a new state of the goroutine w: it fits main's phase, and
\* the heartbeat runs only beside a main that has registered.
Fits(w, t) ==
    LET n == NodeOf(w)
    IN  /\ phase' \in [Nodes -> Phases]
        /\ \A m \in Nodes : m # n => phase'[m] = phase[m]
        /\ w[2] = "heart" =>
              phase'[n] = phase[n] /\ phase[n] \notin Dead \cup {"starting"}
        /\ w[2] = "main" =>
              /\ t = Idle <=> phase'[n] \in Dead \cup {"serving"}
              /\ phase'[n] \in Dead \cup {"starting"} => task[<<n, "heart">>] = Idle

\* A step of one goroutine keeps the invariant when what the goroutine does
\* next is aimed.
LEMMA WorkerStep ==
    ASSUME IInv, NEW w \in Workers, NEW t \in Tasks,
           task' = [task EXCEPT ![w] = t], Fits(w, t), Aimed(w, t)',
           zone' \subseteq [id : Ids, ip : IPs], IdsUnique', NewIsFresh,
           cancelled' \in [Nodes -> BOOLEAN], late' \subseteq Requests,
           seen' \in [Nodes -> SUBSET Ids]
    PROVE  IInv'
<1>1. /\ task'[w] = t /\ \A v \in Workers \ {w} : task'[v] = task[v]
      /\ task' \in [Workers -> Tasks] /\ phase' \in [Nodes -> Phases]
  BY DEF IInv, TypeOK, Fits
<1>2. \A m \in Nodes : NodeOf(<<m, "main">>) = m /\ NodeOf(<<m, "heart">>) = m
  BY DEF NodeOf
<1>3. ASSUME NEW m \in Nodes
      PROVE  /\ task'[<<m, "main">>] = Idle <=> phase'[m] \in Dead \cup {"serving"}
             /\ phase'[m] \in Dead \cup {"starting"} => task'[<<m, "heart">>] = Idle
  <2>1. CASE m # NodeOf(w)
    BY <1>1, <1>2, <2>1, WorkerFacts DEF IInv, TypeOK, Fits
  <2>2. CASE w = <<m, "main">>
    BY <1>1, <1>2, <2>2, WorkerFacts DEF Fits
  <2>3. CASE w = <<m, "heart">>
    BY <1>1, <1>2, <2>3, WorkerFacts DEF IInv, TypeOK, Fits
  <2> QED
    BY <2>1, <2>2, <2>3, WorkerFacts
<1>4. TypeOK'
  BY <1>1, <1>3 DEF TypeOK
<1>5. ASSUME NEW v \in Workers, v # w
      PROVE  Aimed(v, task[v])'
  <2>1. task'[v] = task[v] /\ Aimed(v, task[v])
    BY <1>1, <1>5 DEF IInv, DeletesAimed
  <2>2. v[2] = "main" => phase'[NodeOf(v)] = phase[NodeOf(v)]
    BY <1>5, WorkerFacts DEF Fits
  <2>3. ASSUME task[v].pc \in {"work", "wait"}, NEW q \in task[v].todo, q.op = "delete",
               NEW r \in zone', r.id = q.id
        PROVE  r \in zone
    BY <2>3 DEF NewIsFresh, Working
  <2> QED
    BY <2>1, <2>2, <2>3, WorkerFacts DEF Aimed
<1>6. DeletesAimed'
  BY <1>1, <1>5 DEF DeletesAimed
<1> QED
  BY <1>4, <1>6 DEF IInv

\* A step of no goroutine: a signal, a late request, an edit by hand.
LEMMA ZoneStep ==
    ASSUME IInv, UNCHANGED <<phase, task, seen>>,
           zone' \subseteq [id : Ids, ip : IPs], IdsUnique', NewIsFresh,
           cancelled' \in [Nodes -> BOOLEAN], late' \subseteq Requests
    PROVE  IInv'
<1>1. TypeOK'
  BY DEF IInv, TypeOK
<1>2. ASSUME NEW v \in Workers
      PROVE  Aimed(v, task[v])'
  <2>1. ASSUME task[v].pc \in {"work", "wait"}, NEW q \in task[v].todo, q.op = "delete",
               NEW r \in zone', r.id = q.id
        PROVE  r \in zone
    BY <2>1 DEF NewIsFresh, Working
  <2> QED
    BY <2>1 DEF IInv, DeletesAimed, Aimed
<1> QED
  BY <1>1, <1>2 DEF IInv, DeletesAimed

-----------------------------------------------------------------------------
\* What holds while the zone is left alone.
LEMMA ZoneUnchanged ==
    ASSUME IInv, UNCHANGED zone
    PROVE  zone' \subseteq [id : Ids, ip : IPs] /\ IdsUnique' /\ NewIsFresh
  BY DEF IInv, TypeOK, IdsUnique, NewIsFresh

\* The states that goroutines pass through.
LEMMA TaskTypes ==
    /\ Idle \in Tasks
    /\ \A op \in {"add", "delete"} : [pc |-> "read", op |-> op] \in Tasks
    /\ \A todo \in SUBSET Requests : /\ [pc |-> "work", todo |-> todo] \in Tasks
                                     /\ \A q \in Requests :
                                           [pc |-> "wait", todo |-> todo, req |-> q] \in Tasks
  BY DEF Tasks

\* What the type invariant says of a goroutine in the middle of a call.
LEMMA TaskFacts ==
    ASSUME TypeOK, NEW w \in Workers
    PROVE  /\ task[w].pc = "read" => task[w].op \in {"add", "delete"}
           /\ task[w].pc \in {"work", "wait"} => task[w].todo \in SUBSET Requests
           /\ task[w].pc = "wait" => task[w].req \in Requests
           /\ task[w].pc \in {"read", "work", "wait"} => task[w] # Idle
           /\ task[w] = Idle => task[w].pc = "idle"
  BY DEF TypeOK, Tasks, Idle

\* A goroutine that is in a call, and goes on with it, fits.
LEMMA SameCallFits ==
    ASSUME IInv, NEW w \in Workers, task[w] # Idle, UNCHANGED phase, NEW t, t # Idle
    PROVE  Fits(w, t)
<1>1. w = <<NodeOf(w), w[2]>> /\ NodeOf(w) \in Nodes /\ w[2] \in {"main", "heart"}
  BY WorkerFacts
<1> QED
  BY <1>1 DEF IInv, TypeOK, Fits

\* A node that starts begins to register.
LEMMA StartInvariant ==
    ASSUME IInv, NEW n \in Nodes, Start(n)
    PROVE  IInv'
<1> DEFINE w == <<n, "main">>
           t == [pc |-> "read", op |-> "add"]
<1>1. w \in Workers /\ NodeOf(w) = n /\ w[2] = "main" /\ t \in Tasks /\ t # Idle
  BY WorkerFacts, TaskTypes DEF NodeOf, Idle
<1>2. phase'[n] = "starting" /\ Fits(w, t)
  BY <1>1 DEF Start, Fits, IInv, TypeOK, Phases, Dead
<1>3. Aimed(w, t)'
  BY <1>1, <1>2 DEF Aimed
<1>4. /\ cancelled' \in [Nodes -> BOOLEAN] /\ late' \subseteq Requests
      /\ seen' \in [Nodes -> SUBSET Ids] /\ UNCHANGED zone /\ task' = [task EXCEPT ![w] = t]
  BY DEF Start, IInv, TypeOK
<1> HIDE DEF w, t
<1> QED
  BY <1>1, <1>2, <1>3, <1>4, ZoneUnchanged, WorkerStep

\* A heartbeat begins to register the node again.
LEMMA HeartTickInvariant ==
    ASSUME IInv, NEW n \in Nodes, HeartTick(n)
    PROVE  IInv'
<1> DEFINE w == <<n, "heart">>
           t == [pc |-> "read", op |-> "add"]
<1>1. w \in Workers /\ NodeOf(w) = n /\ w[2] = "heart" /\ t \in Tasks
  BY WorkerFacts, TaskTypes DEF NodeOf
<1>2. Fits(w, t)
  BY <1>1 DEF HeartTick, Fits, IInv, TypeOK, Dead
<1>3. Aimed(w, t)'
  BY <1>1 DEF Aimed
<1>4. /\ cancelled' \in [Nodes -> BOOLEAN] /\ late' \subseteq Requests
      /\ seen' \in [Nodes -> SUBSET Ids] /\ UNCHANGED zone /\ task' = [task EXCEPT ![w] = t]
  BY DEF HeartTick, IInv, TypeOK
<1> HIDE DEF w, t
<1> QED
  BY <1>1, <1>2, <1>3, <1>4, ZoneUnchanged, WorkerStep

\* A node that shuts down begins to deregister.
LEMMA LeaveInvariant ==
    ASSUME IInv, NEW n \in Nodes, Leave(n)
    PROVE  IInv'
<1> DEFINE w == <<n, "main">>
           t == [pc |-> "read", op |-> "delete"]
<1>1. w \in Workers /\ NodeOf(w) = n /\ w[2] = "main" /\ t \in Tasks /\ t # Idle
  BY WorkerFacts, TaskTypes DEF NodeOf, Idle
<1>2. phase'[n] = "leaving" /\ Fits(w, t)
  BY <1>1 DEF Leave, Fits, IInv, TypeOK, Phases, Dead
<1>3. Aimed(w, t)'
  BY <1>1, <1>2 DEF Aimed
<1>4. /\ cancelled' \in [Nodes -> BOOLEAN] /\ late' \subseteq Requests
      /\ seen' \in [Nodes -> SUBSET Ids] /\ UNCHANGED zone /\ task' = [task EXCEPT ![w] = t]
  BY DEF Leave, IInv, TypeOK
<1> HIDE DEF w, t
<1> QED
  BY <1>1, <1>2, <1>3, <1>4, ZoneUnchanged, WorkerStep

\* Deregister sets out to delete what has the node's addresses.
LEMMA ReadZoneInvariant ==
    ASSUME IInv, NEW w \in Workers, ReadZone(w)
    PROVE  IInv'
<1> DEFINE n == NodeOf(w)
           todo == IF task[w].op = "add" THEN ToAdd(n) ELSE ToDelete(n)
<1>1. n \in Nodes /\ task[w].pc = "read" /\ task[w].op \in {"add", "delete"} /\ task[w] # Idle
  BY WorkerFacts, TaskFacts DEF IInv, ReadZone
<1>2. /\ todo \in SUBSET Requests
      /\ IdsIn(todo) \in SUBSET Ids
  <2>1. ToAdd(n) \in SUBSET Requests
    BY <1>1, FleetAssumption DEF ToAdd, Requests
  <2>2. ToDelete(n) \in SUBSET Requests
    BY DEF ToDelete, Requests, IInv, TypeOK
  <2>3. \A q \in Requests : q.op = "delete" => q.id \in Ids
    BY DEF Requests
  <2> QED
    BY <2>1, <2>2, <2>3 DEF IdsIn
<1>3. PICK t \in Tasks : t = [pc |-> "work", todo |-> todo]
  BY <1>2, TaskTypes
<1>4. /\ cancelled' \in [Nodes -> BOOLEAN] /\ late' \subseteq Requests
      /\ seen' \in [Nodes -> SUBSET Ids]
      /\ UNCHANGED <<zone, phase>> /\ task' = [task EXCEPT ![w] = t]
  BY <1>1, <1>2, <1>3 DEF ReadZone, IInv, TypeOK
<1>5. Aimed(w, t)'
  <2>1. CASE task[w].op = "add"
    BY <1>3, <2>1 DEF Aimed, ToAdd
  <2>2. CASE task[w].op = "delete"
    <3>1. w[2] = "main" /\ phase[n] = "leaving"
      BY <1>1, <2>2 DEF IInv, DeletesAimed, Aimed
    <3>2. \A q \in ToDelete(n) : \A r \in zone : r.id = q.id => r.ip \in PublicIPs[n]
      BY DEF ToDelete, IInv, IdsUnique
    <3> QED
      BY <1>3, <1>4, <2>2, <3>1, <3>2 DEF Aimed
  <2> QED
    BY <1>1, <2>1, <2>2
<1>6. Fits(w, t)
  <2>1. t # Idle
    BY <1>3 DEF Idle
  <2> QED
    BY <1>1, <1>4, <2>1, SameCallFits
<1> QED
  BY <1>3, <1>4, <1>5, <1>6, ZoneUnchanged, WorkerStep

\* A worker sends the next request of its list.
LEMMA SendInvariant ==
    ASSUME IInv, NEW w \in Workers, NEW q \in Requests, Send(w, q)
    PROVE  IInv'
<1>1. task[w].pc = "work" /\ task[w].todo \in SUBSET Requests /\ task[w] # Idle
  BY TaskFacts DEF IInv, Send
<1>2. PICK t \in Tasks : t = [pc |-> "wait", todo |-> task[w].todo, req |-> q]
  BY <1>1, TaskTypes
<1>3. /\ cancelled' \in [Nodes -> BOOLEAN] /\ late' \subseteq Requests
      /\ seen' \in [Nodes -> SUBSET Ids]
      /\ UNCHANGED <<zone, phase>> /\ task' = [task EXCEPT ![w] = t]
  BY <1>2 DEF Send, IInv, TypeOK
<1>4. Aimed(w, t)'
  BY <1>1, <1>2, <1>3 DEF Send, IInv, DeletesAimed, Aimed
<1>5. Fits(w, t)
  BY <1>1, <1>2, <1>3, SameCallFits DEF Idle
<1> QED
  BY <1>2, <1>3, <1>4, <1>5, ZoneUnchanged, WorkerStep

\* A worker gets the answer to its request.
LEMMA AnsweredInvariant ==
    ASSUME IInv, NEW w \in Workers, Answered(w)
    PROVE  IInv'
<1>1. /\ task[w].pc = "wait" /\ task[w].todo \in SUBSET Requests
      /\ task[w].req \in Requests /\ task[w] # Idle /\ w \in Working
  BY TaskFacts DEF IInv, Answered, Working
<1>2. PICK t \in Tasks : t = [pc |-> "work", todo |-> task[w].todo \ {task[w].req}]
  BY <1>1, TaskTypes
<1>3. /\ cancelled' \in [Nodes -> BOOLEAN] /\ late' \subseteq Requests
      /\ seen' \in [Nodes -> SUBSET Ids]
      /\ UNCHANGED phase /\ task' = [task EXCEPT ![w] = t]
  BY <1>2 DEF Answered, Proceed, IInv, TypeOK
<1>4. zone' \subseteq [id : Ids, ip : IPs] /\ IdsUnique' /\ NewIsFresh
  BY <1>1, ApplyFacts DEF Answered
<1>5. Aimed(w, t)'
  <2>1. ASSUME NEW q \in t.todo, q.op = "delete", NEW r \in zone', r.id = q.id
        PROVE  r \in zone
    BY <1>1, <1>2, <1>4, <2>1 DEF NewIsFresh
  <2>2. Aimed(w, task[w])
    BY DEF IInv, DeletesAimed
  <2> QED
    BY <1>1, <1>2, <1>3, <2>1, <2>2 DEF Aimed
<1>6. Fits(w, t)
  BY <1>1, <1>2, <1>3, SameCallFits DEF Idle
<1> QED
  BY <1>2, <1>3, <1>4, <1>5, <1>6, WorkerStep

\* The end of a call: main goes on to serve or ends with its process, the
\* heartbeat rests.
LEMMA FinishInvariant ==
    ASSUME IInv, NEW w \in Workers, Finish(w)
    PROVE  IInv'
<1> DEFINE n == NodeOf(w)
<1>1. /\ n \in Nodes /\ w[2] \in {"main", "heart"} /\ w = <<n, w[2]>>
      /\ {<<n, "heart">>} \in SUBSET Workers
      /\ task[w].pc = "work" /\ task[w] # Idle
  BY WorkerFacts, TaskFacts DEF IInv, Finish
<1>2. CASE w[2] = "main" /\ phase[n] = "leaving"
  <2>1. End(n, "gone") /\ late' \subseteq Requests
    BY <1>1, <1>2, AwaitedRequests DEF Finish, IInv, TypeOK
  <2> QED
    BY <1>1, <2>1, EndInvariant DEF Finish, Dead
<1>3. CASE ~(w[2] = "main" /\ phase[n] = "leaving")
  <2>1. /\ task' = [task EXCEPT ![w] = Idle]
        /\ phase' = [phase EXCEPT ![n] = IF w[2] = "main" THEN "serving" ELSE @]
        /\ UNCHANGED <<zone, cancelled, late, seen>>
    BY <1>3 DEF Finish
  <2>2. /\ cancelled' \in [Nodes -> BOOLEAN] /\ late' \subseteq Requests
        /\ seen' \in [Nodes -> SUBSET Ids]
    BY <2>1 DEF IInv, TypeOK
  <2>3. Fits(w, Idle)
    <3>1. phase' \in [Nodes -> Phases] /\ \A m \in Nodes : m # n => phase'[m] = phase[m]
      BY <2>1 DEF IInv, TypeOK, Phases
    <3>2. CASE w[2] = "heart"
      BY <1>1, <2>1, <3>1, <3>2 DEF IInv, TypeOK, Fits
    <3>3. CASE w[2] = "main"
      BY <1>1, <2>1, <3>1, <3>3 DEF IInv, TypeOK, Fits, Dead
    <3> QED
      BY <1>1, <3>2, <3>3
  <2>4. Aimed(w, Idle)'
    BY DEF Aimed, Idle
  <2> QED
    BY <2>1, <2>2, <2>3, <2>4, TaskTypes, ZoneUnchanged, WorkerStep
<1> QED
  BY <1>2, <1>3

\* Steps that are no goroutine's own.
LEMMA OutsideInvariant ==
    ASSUME IInv,
           \/ \E n \in Nodes : Signal(n)
           \/ \E q \in Requests : Arrive(q)
           \/ \E r \in zone : OutOfBand(r)
    PROVE  IInv'
<1>1. ASSUME NEW n \in Nodes, Signal(n)
      PROVE  IInv'
  <2>1. cancelled' \in [Nodes -> BOOLEAN] /\ late' \subseteq Requests
        /\ UNCHANGED <<zone, phase, task, seen>>
    BY <1>1 DEF Signal, IInv, TypeOK
  <2> QED
    BY <2>1, ZoneUnchanged, ZoneStep
<1>2. ASSUME NEW q \in Requests, Arrive(q)
      PROVE  IInv'
  <2>1. cancelled' \in [Nodes -> BOOLEAN] /\ late' \subseteq Requests
        /\ UNCHANGED <<phase, task, seen>>
    BY <1>2 DEF Arrive, IInv, TypeOK
  <2>2. zone' \subseteq [id : Ids, ip : IPs] /\ IdsUnique' /\ NewIsFresh
    BY <1>2, ApplyFacts, ZoneUnchanged DEF Arrive
  <2> QED
    BY <2>1, <2>2, ZoneStep
<1>3. ASSUME NEW r \in zone, OutOfBand(r)
      PROVE  IInv'
  <2>1. cancelled' \in [Nodes -> BOOLEAN] /\ late' \subseteq Requests
        /\ UNCHANGED <<phase, task, seen>> /\ zone' \subseteq zone
    BY <1>3 DEF OutOfBand, IInv, TypeOK
  <2>2. zone' \subseteq [id : Ids, ip : IPs] /\ IdsUnique' /\ NewIsFresh
    BY <2>1 DEF IInv, TypeOK, IdsUnique, NewIsFresh
  <2> QED
    BY <2>1, <2>2, ZoneStep
<1> QED
  BY <1>1, <1>2, <1>3

\* Every step keeps the invariant.
LEMMA NextInvariant ==
    ASSUME IInv, [Next]_vars
    PROVE  IInv'
<1>1. ASSUME NEW n \in Nodes, Crash(n)
      PROVE  IInv'
  <2>1. {<<n, "main">>, <<n, "heart">>} \in SUBSET Workers
    BY WorkerFacts
  <2>2. late' \subseteq Requests
    BY <1>1, <2>1, AwaitedRequests DEF Crash, IInv, TypeOK
  <2> QED
    BY <1>1, <2>2, EndInvariant DEF Crash, Dead
<1>2. ASSUME NEW w \in Workers, Refused(w) \/ GiveUp(w)
      PROVE  IInv'
  <2>1. {} \in SUBSET Requests /\ Awaited({w}) \in SUBSET Requests
    BY AwaitedRequests DEF IInv
  <2> QED
    BY <1>2, <2>1, FailInvariant DEF Refused, GiveUp
<1>3. ASSUME NEW w \in Workers, Call(w)
      PROVE  IInv'
  BY <1>2, <1>3, ReadZoneInvariant, AnsweredInvariant, FinishInvariant, SendInvariant DEF Call
<1>4. CASE UNCHANGED vars
  <2>1. cancelled' \in [Nodes -> BOOLEAN] /\ late' \subseteq Requests
        /\ UNCHANGED <<zone, phase, task, seen>>
    BY <1>4 DEF vars, IInv, TypeOK
  <2> QED
    BY <2>1, ZoneUnchanged, ZoneStep
<1> QED
  BY <1>1, <1>3, <1>4, StartInvariant, HeartTickInvariant, LeaveInvariant, OutsideInvariant
  DEF Next

\* Whatever fails, crashes or arrives late, the invariant holds: in
\* particular only the main of a leaving node deletes, and only its own.
THEOREM InductiveInvariant == Spec => []IInv
  BY InitInvariant, NextInvariant, PTL DEF Spec

\* TypeOK for every fleet, zone and id space.
THEOREM TypeCorrect == Spec => []TypeOK
<1>1. IInv => TypeOK
  BY DEF IInv
<1> QED
  BY <1>1, InductiveInvariant, PTL

-----------------------------------------------------------------------------
\* No node is configured with the address another one is reached at.
Disjoint == \A m, n \in Nodes : m # n => Address[n] \notin PublicIPs[m]

\* ServingKept, for one step.
Kept == \A n \in Nodes : phase[n] = "serving" /\ phase'[n] = "serving" =>
           \A r \in zone \ zone' : r.ip = Address[n] =>
              \/ OutOfBand(r)
              \/ [op |-> "delete", id |-> r.id] \in late

\* A deletion that is answered takes out a record of its sender's, and its
\* sender is leaving.
LEMMA AnsweredKeeps ==
    ASSUME Disjoint, IInv, NEW w \in Workers, Answered(w)
    PROVE  Kept
<1> SUFFICES ASSUME NEW n \in Nodes, phase[n] = "serving",
                    NEW r \in zone \ zone', r.ip = Address[n]
             PROVE  FALSE
  BY DEF Kept
<1> DEFINE q == task[w].req
           m == NodeOf(w)
<1>1. q.op = "delete" /\ r.id = q.id
  BY DEF Answered, Apply
<1>2. m \in Nodes /\ phase[m] = "leaving" /\ r.ip \in PublicIPs[m]
  BY <1>1, WorkerFacts DEF Answered, IInv, DeletesAimed, Aimed
<1> QED
  BY <1>2 DEF Disjoint

\* No step takes a record away from a node that serves, out-of-band and late
\* deletions apart, when no node's list holds another's address.
LEMMA StepKeeps ==
    ASSUME Disjoint, IInv, Next
    PROVE  Kept
<1>1. ASSUME UNCHANGED zone
      PROVE  Kept
  BY <1>1 DEF Kept
<1>2. ASSUME NEW n \in Nodes,
             Start(n) \/ HeartTick(n) \/ Signal(n) \/ Leave(n) \/ Crash(n)
      PROVE  Kept
  BY <1>1, <1>2 DEF Start, HeartTick, Signal, Leave, Crash
<1>3. ASSUME NEW w \in Workers, Call(w)
      PROVE  Kept
  <2>1. CASE Answered(w)
    BY <2>1, AnsweredKeeps
  <2>2. CASE ~Answered(w)
    <3>1. UNCHANGED zone
      BY <1>3, <2>2 DEF Call, ReadZone, Refused, GiveUp, Finish, Send
    <3> QED
      BY <1>1, <3>1
  <2> QED
    BY <2>1, <2>2
<1>4. ASSUME NEW q \in Requests, Arrive(q)
      PROVE  Kept
  <2>1. ASSUME NEW r \in zone \ zone'
        PROVE  [op |-> "delete", id |-> r.id] \in late
    <3>1. q.op = "delete" /\ q.id = r.id /\ q \in late
      BY <1>4, <2>1 DEF Arrive, Apply
    <3>2. q = [op |-> "delete", id |-> q.id]
      BY <3>1 DEF Requests
    <3> QED
      BY <3>1, <3>2
  <2> QED
    BY <2>1 DEF Kept
<1>5. ASSUME NEW r \in zone, OutOfBand(r)
      PROVE  Kept
  <2>1. \A s \in zone \ zone' : s = r
    BY <1>5 DEF OutOfBand
  <2> QED
    BY <1>5, <2>1 DEF Kept
<1> QED
  BY <1>2, <1>3, <1>4, <1>5 DEF Next

\* In such a fleet a node that serves is never taken out of the zone by
\* another one's Deregister, whatever the two processes are in the middle of.
THEOREM OthersKept ==
    ASSUME Disjoint
    PROVE  Spec => ServingKept
<1>1. IInv /\ [Next]_vars => [Kept]_vars
  BY StepKeeps
<1>2. [][Kept]_vars => ServingKept
  BY PTL DEF Kept, ServingKept
<1> QED
  BY <1>1, <1>2, InductiveInvariant, PTL DEF Spec

-----------------------------------------------------------------------------
\* What a leaving node has set out to delete is gone or still on its list,
\* and a node that has left has nothing on its list.
Chased(n) ==
    LET t == task[<<n, "main">>]
    IN  /\ phase[n] = "leaving" /\ t.pc \in {"work", "wait"} =>
              \A r \in zone : r.id \in seen[n] => [op |-> "delete", id |-> r.id] \in t.todo
        /\ phase[n] = "gone" => \A r \in zone : r.id \notin seen[n]

AllChased == \A n \in Nodes : Chased(n)

\* The API gives no record an id that a Deregister has seen.
NewIsUnseen == \A r \in zone' \ zone : \A n \in Nodes : r.id \notin seen[n]

\* A record that the zone adds has an id no node has read.
LEMMA ApplyUnseen ==
    ASSUME NEW q \in Requests, Apply(q)
    PROVE  NewIsUnseen
<1>1. CASE q.op = "add"
  <2>1. PICK i \in FreshIds : zone' = zone \cup {[id |-> i, ip |-> q.ip]}
    BY <1>1 DEF Apply
  <2>2. ASSUME NEW n \in Nodes
        PROVE  i \notin seen[n]
    <3>1. seen[n] \in {seen[m] : m \in Nodes}
      OBVIOUS
    <3>2. i \notin UNION {seen[m] : m \in Nodes}
      BY DEF FreshIds
    <3> QED
      BY <3>1, <3>2
  <2> QED
    BY <2>1, <2>2 DEF NewIsUnseen
<1>2. CASE q.op = "delete"
  BY <1>2 DEF Apply, NewIsUnseen
<1> QED
  BY <1>1, <1>2 DEF Apply

\* Steps that leave alone what main of n has seen and has still to do.
LEMMA ChasedFrame ==
    ASSUME NEW n \in Nodes, Chased(n), NewIsUnseen, seen'[n] = seen[n],
           \/ phase'[n] \notin {"leaving", "gone"}
           \/ phase'[n] = phase[n] /\ task'[<<n, "main">>] = task[<<n, "main">>]
           \/ phase'[n] = "leaving" /\ task'[<<n, "main">>].pc = "read"
    PROVE  Chased(n)'
  BY DEF Chased, NewIsUnseen

\* A step of another node's, or of the node's own heartbeat.
LEMMA ChasedElsewhere ==
    ASSUME IInv, NEW n \in Nodes, Chased(n), NEW w \in Workers, Call(w), w # <<n, "main">>
    PROVE  Chased(n)'
<1> DEFINE m == NodeOf(w)
<1>1. m \in Nodes /\ (w = <<m, "main">> \/ w = <<m, "heart">>)
  BY WorkerFacts
<1>2. NodeOf(<<n, "main">>) = n /\ <<n, "main">> \in Workers
  BY WorkerFacts DEF NodeOf
<1>3. m = n => w[2] = "heart"
  BY <1>1
<1>4. seen'[n] = seen[n]
  <2>1. CASE ReadZone(w) /\ task[w].op = "delete"
    <3>1. m # n
      BY <1>3, <2>1 DEF ReadZone, IInv, DeletesAimed, Aimed
    <3> QED
      BY <2>1, <3>1 DEF ReadZone, IInv, TypeOK
  <2>2. CASE ~(ReadZone(w) /\ task[w].op = "delete")
    <3>1. ReadZone(w) => UNCHANGED seen
      BY <2>2, <1>1, TaskFacts DEF ReadZone, IInv
    <3> QED
      BY <3>1 DEF Call, Answered, Refused, GiveUp, Finish, Send
  <2> QED
    BY <2>1, <2>2
<1>5. NewIsUnseen
  <2>1. CASE Answered(w)
    BY <2>1, ApplyUnseen, TaskFacts DEF Answered, IInv
  <2>2. CASE ~Answered(w)
    BY <2>2 DEF Call, ReadZone, Refused, GiveUp, Finish, Send, NewIsUnseen
  <2> QED
    BY <2>1, <2>2
<1>6. phase'[n] = phase[n] /\ task'[<<n, "main">>] = task[<<n, "main">>]
  <2>1. CASE ReadZone(w) \/ Answered(w) \/ \E q \in Requests : Send(w, q)
    BY <1>2, <2>1 DEF ReadZone, Answered, Proceed, Send, IInv, TypeOK
  <2>2. ASSUME NEW left, Fail(w, left)
        PROVE  phase'[n] = phase[n] /\ task'[<<n, "main">>] = task[<<n, "main">>]
    BY <1>1, <1>2, <1>3, <2>2 DEF Fail, End, IInv, TypeOK
  <2>3. CASE Finish(w)
    BY <1>1, <1>2, <1>3, <2>3 DEF Finish, End, IInv, TypeOK
  <2> QED
    BY <2>1, <2>2, <2>3 DEF Call, Refused, GiveUp
<1> QED
  BY <1>4, <1>5, <1>6, ChasedFrame

\* A step of the node's main: what it deletes leaves its list and the zone
\* together, and a failure ends the process without calling it gone.
LEMMA ChasedOwn ==
    ASSUME IInv, NEW n \in Nodes, Chased(n), Call(<<n, "main">>)
    PROVE  Chased(n)'
<1> DEFINE w == <<n, "main">>
<1>1. w \in Workers /\ NodeOf(w) = n /\ w[2] # "heart"
  BY WorkerFacts DEF NodeOf
<1>2. CASE ReadZone(w)
  <2>1. CASE task[w].op = "delete"
    <3>1. /\ task'[w].pc = "work" /\ task'[w].todo = ToDelete(n)
          /\ seen'[n] = IdsIn(ToDelete(n)) /\ UNCHANGED <<zone, phase>>
      BY <1>1, <1>2, <2>1 DEF ReadZone, IInv, TypeOK
    <3>2. phase[n] = "leaving"
      BY <1>1, <1>2, <2>1 DEF ReadZone, IInv, DeletesAimed, Aimed
    <3>3. \A i \in IdsIn(ToDelete(n)) : [op |-> "delete", id |-> i] \in ToDelete(n)
      BY DEF IdsIn, ToDelete
    <3> QED
      BY <3>1, <3>2, <3>3 DEF Chased
  <2>2. CASE task[w].op # "delete"
    <3>1. task[w].op = "add" /\ phase[n] # "leaving"
      BY <1>1, <1>2, <2>2, TaskFacts DEF ReadZone, IInv, DeletesAimed, Aimed
    <3>2. UNCHANGED <<zone, phase, seen>>
      BY <1>2, <3>1 DEF ReadZone
    <3> QED
      BY <3>1, <3>2 DEF Chased
  <2> QED
    BY <2>1, <2>2
<1>3. CASE Answered(w)
  <2>1. /\ task[w].pc = "wait" /\ task'[w].pc = "work"
        /\ task'[w].todo = task[w].todo \ {task[w].req}
        /\ UNCHANGED <<phase, seen>>
    BY <1>1, <1>3 DEF Answered, Proceed, IInv, TypeOK
  <2>2. NewIsUnseen /\ Apply(task[w].req)
    BY <1>1, <1>3, ApplyUnseen, TaskFacts DEF Answered, IInv
  <2>3. ASSUME phase[n] = "leaving", NEW r \in zone', r.id \in seen[n]
        PROVE  [op |-> "delete", id |-> r.id] \in task'[w].todo
    <3>1. r \in zone
      BY <2>2, <2>3 DEF NewIsUnseen
    <3>2. [op |-> "delete", id |-> r.id] \in task[w].todo
      BY <2>1, <2>3, <3>1 DEF Chased
    <3>3. [op |-> "delete", id |-> r.id] # task[w].req
      BY <2>2, <3>1 DEF Apply
    <3> QED
      BY <2>1, <3>2, <3>3
  <2>4. phase[n] # "gone"
    BY <1>1, <2>1, TaskFacts DEF IInv, TypeOK, Dead
  <2> QED
    BY <2>1, <2>3, <2>4 DEF Chased
<1>4. CASE Finish(w)
  <2>1. CASE phase[n] = "leaving"
    <3>1. task[w].pc = "work" /\ task[w].todo = {} /\ UNCHANGED <<zone, seen>>
      BY <1>4 DEF Finish
    <3>2. phase'[n] = "gone"
      BY <1>1, <1>4, <2>1 DEF Finish, End, IInv, TypeOK
    <3> QED
      BY <2>1, <3>1, <3>2 DEF Chased
  <2>2. CASE phase[n] # "leaving"
    <3>1. phase'[n] = "serving"
      BY <1>1, <1>4, <2>2, WorkerFacts DEF Finish, IInv, TypeOK
    <3> QED
      BY <3>1 DEF Chased
  <2> QED
    BY <2>1, <2>2
<1>5. CASE Refused(w) \/ GiveUp(w)
  <2>1. phase'[n] = "down"
    BY <1>1, <1>5 DEF Refused, GiveUp, Fail, End, IInv, TypeOK
  <2> QED
    BY <2>1 DEF Chased
<1>6. CASE \E q \in Requests : Send(w, q)
  <2>1. /\ task[w].pc = "work" /\ task'[w].todo = task[w].todo
        /\ UNCHANGED <<zone, phase, seen>>
    BY <1>1, <1>6 DEF Send, IInv, TypeOK
  <2> QED
    BY <2>1 DEF Chased
<1> QED
  BY <1>2, <1>3, <1>4, <1>5, <1>6 DEF Call

\* Every step keeps what is known of the records a leaving node has yet to delete.
LEMMA ChasedStep ==
    ASSUME IInv, [Next]_vars, AllChased
    PROVE  AllChased'
<1> SUFFICES ASSUME NEW n \in Nodes
             PROVE  Chased(n)'
  BY DEF AllChased
<1>0. Chased(n) /\ <<n, "main">> \in Workers /\ NodeOf(<<n, "main">>) = n
  BY WorkerFacts DEF AllChased, NodeOf
<1>1. ASSUME NEW m \in Nodes, Start(m) \/ HeartTick(m) \/ Signal(m)
      PROVE  Chased(n)'
  <2>1. NewIsUnseen
    BY <1>1 DEF Start, HeartTick, Signal, NewIsUnseen
  <2>2. CASE Start(m) /\ m = n
    <3>1. phase'[n] = "starting"
      BY <2>2 DEF Start, IInv, TypeOK
    <3> QED
      BY <3>1 DEF Chased
  <2>3. CASE ~(Start(m) /\ m = n)
    <3>1. seen'[n] = seen[n] /\ phase'[n] = phase[n]
          /\ task'[<<n, "main">>] = task[<<n, "main">>]
      BY <1>0, <1>1, <2>3 DEF Start, HeartTick, Signal, IInv, TypeOK
    <3> QED
      BY <1>0, <2>1, <3>1, ChasedFrame
  <2> QED
    BY <2>2, <2>3
<1>2. ASSUME NEW m \in Nodes, Leave(m)
      PROVE  Chased(n)'
  <2>1. NewIsUnseen /\ seen'[n] = seen[n]
    BY <1>2 DEF Leave, NewIsUnseen
  <2>2. m = n => phase'[n] = "leaving" /\ task'[<<n, "main">>].pc = "read"
    BY <1>0, <1>2 DEF Leave, IInv, TypeOK
  <2>3. m # n => phase'[n] = phase[n] /\ task'[<<n, "main">>] = task[<<n, "main">>]
    BY <1>0, <1>2 DEF Leave, IInv, TypeOK
  <2> QED
    BY <1>0, <2>1, <2>2, <2>3, ChasedFrame
<1>3. ASSUME NEW m \in Nodes, Crash(m)
      PROVE  Chased(n)'
  <2>1. NewIsUnseen /\ seen'[n] = seen[n]
    BY <1>3 DEF Crash, NewIsUnseen
  <2>2. m = n => phase'[n] = "down"
    BY <1>3 DEF Crash, End, IInv, TypeOK
  <2>3. m # n => phase'[n] = phase[n] /\ task'[<<n, "main">>] = task[<<n, "main">>]
    BY <1>0, <1>3 DEF Crash, End, IInv, TypeOK
  <2> QED
    BY <1>0, <2>1, <2>2, <2>3, ChasedFrame
<1>4. ASSUME NEW w \in Workers, Call(w)
      PROVE  Chased(n)'
  BY <1>0, <1>4, ChasedElsewhere, ChasedOwn
<1>5. ASSUME NEW q \in Requests, Arrive(q)
      PROVE  Chased(n)'
  <2>1. NewIsUnseen
    BY <1>5, ApplyUnseen DEF Arrive, NewIsUnseen
  <2> QED
    BY <1>0, <1>5, <2>1, ChasedFrame DEF Arrive
<1>6. ASSUME NEW r \in zone, OutOfBand(r)
      PROVE  Chased(n)'
  BY <1>0, <1>6, ChasedFrame DEF OutOfBand, NewIsUnseen
<1>7. CASE UNCHANGED vars
  BY <1>0, <1>7, ChasedFrame DEF vars, NewIsUnseen
<1> QED
  BY <1>1, <1>2, <1>3, <1>4, <1>5, <1>6, <1>7 DEF Next

\* Deregister without an error leaves nothing of what it has seen in the
\* zone, whatever others add, delete or get wrong in the meantime, and
\* nothing of it ever returns.
THEOREM CleanExit == Spec => []LeavesNothing
<1>1. Init => AllChased
  BY DEF Init, AllChased, Chased
<1>2. AllChased => LeavesNothing
  BY DEF AllChased, Chased, LeavesNothing
<1> QED
  BY <1>1, <1>2, ChasedStep, InductiveInvariant, PTL DEF Spec
=============================================================================

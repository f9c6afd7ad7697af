----------------------------- MODULE BunnyFleet -----------------------------
(***************************************************************************)
(* Registration of a fleet of nodes in a shared Bunny DNS zone: Register,  *)
(* Heartbeat and Deregister (internal/bunny/bunny.go) and the life of a    *)
(* node that calls them (cmd/hubcdn/main.go).                              *)
(*                                                                         *)
(* The Bunny API is external.  A request is answered, refused, or given up *)
(* by its sender (timeout, cancelled context, death of the process); one   *)
(* that was given up may still be carried out later, or never.  A record   *)
(* is reduced to its id and its address: type and name are those of the    *)
(* one hostname the fleet shares.  The loops over addresses and records    *)
(* are taken in any order.                                                 *)
(***************************************************************************)
EXTENDS Integers, FiniteSets

CONSTANTS Nodes,
          IPs,
          Address,     \* the address each node is reachable at
          PublicIPs,   \* the addresses each node is configured with
          Ids          \* record ids: a bound on how many are referred to at once

ASSUME FleetAssumption ==
    /\ Address \in [Nodes -> IPs]
    /\ PublicIPs \in [Nodes -> SUBSET IPs]

VARIABLES zone,       \* the A/AAAA records of the hostname
          phase,      \* where each node's main is
          cancelled,  \* whether its signal context is done
          task,       \* the API call each goroutine is in
          late,       \* requests given up by their senders
          seen        \* the records each node's latest Deregister set out to delete

vars == <<zone, phase, cancelled, task, late, seen>>

\* main runs Register and Deregister, heart is the goroutine of Heartbeat.
Workers == Nodes \X {"main", "heart"}
NodeOf(w) == w[1]

Idle == [pc |-> "idle"]
Requests == [op : {"add"}, ip : IPs] \cup [op : {"delete"}, id : Ids]
Tasks == {Idle} \cup [pc : {"read"}, op : {"add", "delete"}]
         \cup [pc : {"work"}, todo : SUBSET Requests]
         \cup [pc : {"wait"}, todo : SUBSET Requests, req : Requests]

\* gone: the process ended after a Deregister without error.
Phases == {"down", "starting", "serving", "leaving", "gone"}
Dead == {"down", "gone"}

Init == /\ zone = {}
        /\ phase = [n \in Nodes |-> "down"]
        /\ cancelled = [n \in Nodes |-> FALSE]
        /\ task = [w \in Workers |-> Idle]
        /\ late = {}
        /\ seen = [n \in Nodes |-> {}]

-----------------------------------------------------------------------------
Listed == {r.ip : r \in zone}

\* Ids are never used twice: a new one is any that nothing refers to.
IdsIn(reqs) == {q.id : q \in {p \in reqs : p.op = "delete"}}
Working == {w \in Workers : task[w].pc \in {"work", "wait"}}
FreshIds == Ids \ ({r.id : r \in zone} \cup IdsIn(late)
                   \cup (UNION {seen[n] : n \in Nodes})
                   \cup (UNION {IdsIn(task[w].todo) : w \in Working}))

\* The API carries out a request.
Apply(q) ==
    \/ q.op = "add" /\ \E i \in FreshIds : zone' = zone \cup {[id |-> i, ip |-> q.ip]}
    \/ q.op = "delete" /\ zone' = {r \in zone : r.id # q.id}

Awaited(ws) == {task[w].req : w \in {v \in ws : task[v].pc = "wait"}}

\* The process of n ends: its goroutines vanish, their requests may not.
End(n, how) ==
    /\ phase' = [phase EXCEPT ![n] = how]
    /\ task' = [w \in Workers |-> IF NodeOf(w) = n THEN Idle ELSE task[w]]

\* Mutation: Heartbeat returns when a Register fails.
FailReturning(w, left) ==
    IF w[2] = "heart"
    THEN /\ task' = [task EXCEPT ![w] = [pc |-> "ended"]]
         /\ late' = late \cup left
         /\ UNCHANGED phase
    ELSE /\ End(NodeOf(w), "down")
         /\ late' = late \cup left \cup Awaited({<<NodeOf(w), "heart">>})

\* A call returns an error, leaving requests behind: the heartbeat logs it,
\* main exits.
Fail(w, left) ==
    IF w[2] = "heart"
    THEN /\ task' = [task EXCEPT ![w] = Idle]
         /\ late' = late \cup left
         /\ UNCHANGED phase
    ELSE /\ End(NodeOf(w), "down")
         /\ late' = late \cup left \cup Awaited({<<NodeOf(w), "heart">>})

\* Register runs in the signal context, Deregister in one of its own.
CutOff(w) == cancelled[NodeOf(w)] /\ (w[2] = "heart" \/ phase[NodeOf(w)] = "starting")

-----------------------------------------------------------------------------
\* Mutation: the heartbeat is started before Register.
StartHeartFirst(n) ==
    /\ phase[n] \in Dead
    /\ phase' = [phase EXCEPT ![n] = "starting"]
    /\ cancelled' = [cancelled EXCEPT ![n] = FALSE]
    /\ task' = [task EXCEPT ![<<n, "main">>] = [pc |-> "read", op |-> "add"],
                             ![<<n, "heart">>] = [pc |-> "read", op |-> "add"]]
    /\ seen' = [seen EXCEPT ![n] = {}]
    /\ UNCHANGED <<zone, late>>

\* main up to Register.
Start(n) ==
    /\ phase[n] \in Dead
    /\ phase' = [phase EXCEPT ![n] = "starting"]
    /\ cancelled' = [cancelled EXCEPT ![n] = FALSE]
    /\ task' = [task EXCEPT ![<<n, "main">>] = [pc |-> "read", op |-> "add"]]
    /\ seen' = [seen EXCEPT ![n] = {}]
    /\ UNCHANGED <<zone, late>>

\* Heartbeat's ticker: Register again.
HeartTick(n) ==
    /\ phase[n] \in {"serving", "leaving"}
    /\ task[<<n, "heart">>] = Idle
    /\ ~cancelled[n]
    /\ task' = [task EXCEPT ![<<n, "heart">>] = [pc |-> "read", op |-> "add"]]
    /\ UNCHANGED <<zone, phase, cancelled, late, seen>>

\* Mutation: every record of the hostname is taken for the node's own.
ToDeleteAll(n) == [op : {"delete"}, id : {r.id : r \in zone}]

\* Register adds the addresses hasRecord does not find in the zone it has
\* read, Deregister deletes the records that have one of the node's.
ToAdd(n) == [op : {"add"}, ip : PublicIPs[n] \ Listed]
ToDelete(n) == [op : {"delete"}, id : {r.id : r \in {x \in zone : x.ip \in PublicIPs[n]}}]

ReadZone(w) ==
    /\ task[w].pc = "read" /\ ~CutOff(w)
    /\ LET n    == NodeOf(w)
           todo == IF task[w].op = "add" THEN ToAdd(n) ELSE ToDelete(n)
       IN  /\ task' = [task EXCEPT ![w] = [pc |-> "work", todo |-> todo]]
           /\ seen' = IF task[w].op = "add" THEN seen
                      ELSE [seen EXCEPT ![n] = IdsIn(todo)]
    /\ UNCHANGED <<zone, phase, cancelled, late>>

\* addRecord or deleteRecord for the next address or record.
Send(w, q) ==
    /\ task[w].pc = "work" /\ ~CutOff(w)
    /\ q \in task[w].todo
    /\ task' = [task EXCEPT ![w] = [pc |-> "wait", todo |-> task[w].todo, req |-> q]]
    /\ UNCHANGED <<zone, phase, cancelled, late, seen>>

Proceed(w) == task' = [task EXCEPT ![w] = [pc |-> "work", todo |-> task[w].todo \ {task[w].req}]]

Answered(w) ==
    /\ task[w].pc = "wait"
    /\ Apply(task[w].req)
    /\ Proceed(w)
    /\ UNCHANGED <<phase, cancelled, late, seen>>

\* Mutation: a refused change is passed over.
RefusedIgnored(w) ==
    /\ task[w].pc \in {"read", "wait"}
    /\ IF task[w].pc = "read" THEN Fail(w, {})
                              ELSE Proceed(w) /\ UNCHANGED <<phase, late>>
    /\ UNCHANGED <<zone, cancelled, seen>>

\* The API answers with an error, to the zone's reading or to a change.
Refused(w) ==
    /\ task[w].pc \in {"read", "wait"}
    /\ Fail(w, {})
    /\ UNCHANGED <<zone, cancelled, seen>>

\* A timeout or the end of the context: the call fails, its request may still
\* arrive.
GiveUp(w) ==
    /\ task[w].pc = "wait" \/ (task[w].pc \in {"read", "work"} /\ CutOff(w))
    /\ Fail(w, Awaited({w}))
    /\ UNCHANGED <<zone, cancelled, seen>>

\* A loop is through: main starts to serve, or ends; the heartbeat waits for
\* its next tick.
Finish(w) ==
    /\ task[w].pc = "work" /\ task[w].todo = {}
    /\ LET n == NodeOf(w)
       IN  IF w[2] = "main" /\ phase[n] = "leaving"
           THEN /\ End(n, "gone")
                /\ late' = late \cup Awaited({<<n, "heart">>})
           ELSE /\ task' = [task EXCEPT ![w] = Idle]
                /\ phase' = [phase EXCEPT ![n] = IF w[2] = "main" THEN "serving" ELSE @]
                /\ UNCHANGED late
    /\ UNCHANGED <<zone, cancelled, seen>>

-----------------------------------------------------------------------------
\* SIGTERM.
Signal(n) ==
    /\ phase[n] \in {"starting", "serving"} /\ ~cancelled[n]
    /\ cancelled' = [cancelled EXCEPT ![n] = TRUE]
    /\ UNCHANGED <<zone, phase, task, late, seen>>

\* srv.Run returns, after the signal or because it cannot listen (in which
\* case the heartbeat goes on), and main deregisters the node.
Leave(n) ==
    /\ phase[n] = "serving"
    /\ phase' = [phase EXCEPT ![n] = "leaving"]
    /\ task' = [task EXCEPT ![<<n, "main">>] = [pc |-> "read", op |-> "delete"]]
    /\ UNCHANGED <<zone, cancelled, late, seen>>

Crash(n) ==
    /\ phase[n] \notin Dead
    /\ End(n, "down")
    /\ late' = late \cup Awaited({<<n, "main">>, <<n, "heart">>})
    /\ UNCHANGED <<zone, cancelled, seen>>

\* A request nobody waits for is carried out after all, or lost.
Arrive(q) ==
    /\ q \in late
    /\ Apply(q) \/ UNCHANGED zone
    /\ late' = late \ {q}
    /\ UNCHANGED <<phase, cancelled, task, seen>>

\* Somebody edits the zone by hand.
OutOfBand(r) ==
    /\ r \in zone
    /\ zone' = zone \ {r}
    /\ UNCHANGED <<phase, cancelled, task, late, seen>>

Call(w) == \/ ReadZone(w) \/ Answered(w) \/ Refused(w) \/ GiveUp(w) \/ Finish(w)
           \/ \E q \in Requests : Send(w, q)

Next == \/ \E n \in Nodes : Start(n) \/ HeartTick(n) \/ Signal(n) \/ Leave(n) \/ Crash(n)
        \/ \E w \in Workers : Call(w)
        \/ \E q \in Requests : Arrive(q)
        \/ \E r \in zone : OutOfBand(r)

Spec == Init /\ [][Next]_vars

\* The heartbeat's ticker goes on and its calls end (the client has a timeout
\* of 15 seconds); an API that is asked again and again answers now and then,
\* whatever the request.
Fairness ==
    /\ \A n \in Nodes : LET w == <<n, "heart">> IN
         /\ WF_vars(HeartTick(n))
         /\ WF_vars(Call(w))
         /\ SF_vars(ReadZone(w))
         /\ \A ip \in IPs : SF_vars(task[w].pc = "wait" /\ task[w].req = [op |-> "add", ip |-> ip]
                                    /\ Answered(w))
    /\ \A q \in Requests : WF_vars(Arrive(q))

FairSpec == Spec /\ Fairness

-----------------------------------------------------------------------------
TypeOK == /\ zone \subseteq [id : Ids, ip : IPs]
          /\ phase \in [Nodes -> Phases]
          /\ cancelled \in [Nodes -> BOOLEAN]
          /\ task \in [Workers -> Tasks]
          /\ late \subseteq Requests
          /\ seen \in [Nodes -> SUBSET Ids]
          /\ \A n \in Nodes : task[<<n, "main">>] = Idle <=> phase[n] \in Dead \cup {"serving"}
          /\ \A n \in Nodes : phase[n] \in Dead \cup {"starting"} => task[<<n, "heart">>] = Idle

\* bunny.go:87-88: "Deregister removes this node's A/AAAA records for ips from
\* hostname so traffic routes to the remaining nodes": the record of a node
\* that serves is taken out only by hand or by a request of an earlier life
\* that arrives late, not by another node that leaves.
ServingKept ==
    [][\A n \in Nodes : phase[n] = "serving" /\ phase'[n] = "serving" =>
         \A r \in zone \ zone' : r.ip = Address[n] =>
            \/ OutOfBand(r)
            \/ [op |-> "delete", id |-> r.id] \in late]_vars

\* A node that has left without an error has taken out every record of its
\* addresses that was in the zone when it began, however many a late request
\* or another process had put there.
LeavesNothing ==
    \A n \in Nodes : phase[n] = "gone" => \A r \in zone : r.id \notin seen[n]

\* Records that are lost while a node serves come back: each of its addresses
\* is listed again and again, whatever fails in between.
Healed ==
    \A n \in Nodes : \A ip \in PublicIPs[n] :
        <>[](phase[n] = "serving" /\ ~cancelled[n]) => []<>(ip \in Listed)
=============================================================================

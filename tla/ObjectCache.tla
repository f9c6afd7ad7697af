---------------------------- MODULE ObjectCache ----------------------------
(***************************************************************************)
(* internal/cache: the sharded, byte-bounded LRU of cached responses       *)
(* (cache.go) and the memory watchdog that moves its budget (memory.go).   *)
(*                                                                         *)
(* A step is one critical section of a shard's mutex, or one atomic        *)
(* operation outside it: Set reads the budget before it takes the lock,    *)
(* Get updates the counters after it has released it, and SetBudget        *)
(* publishes the budget before it visits the shards one after the other.   *)
(* An object is reduced to its size, an entry to its object and to whether *)
(* it has outlived TTL + StaleFor (evictable).  The hit, miss and eviction *)
(* counters, which nothing reads back, are left out.                       *)
(***************************************************************************)
EXTENDS Integers, Sequences, FiniteSets, Functions, SequencesExt

CONSTANTS Keys,        \* cache keys
          NShards,     \* shardCount
          ShardOf,     \* the shard a key belongs to
          Objects,     \* cached responses
          Size,        \* their size in bytes
          Callers,     \* the goroutines that call Get and Set
          Target,      \* the budget New and Watchdog are given
          Floor,       \* the watchdog's 64 MiB floor
          None

Shards == 1..NShards

\* An entry's obj never changes; spent means now is after StoredAt+TTL+StaleFor.
Entries == [obj : Objects, spent : BOOLEAN]

ASSUME CacheAssumption ==
    /\ NShards \in Nat \ {0}
    /\ IsFiniteSet(Keys) /\ IsFiniteSet(Callers)
    /\ ShardOf \in [Keys -> Shards]
    /\ Size \in [Objects -> Nat \ {0}]
    /\ Target \in Nat /\ Floor \in Nat
    /\ None \notin Keys /\ None \notin Objects
    /\ None \notin Entries /\ None \notin [key : Keys, obj : Objects]

VARIABLES items,       \* the shards' maps, as one function: key -> entry
          lru,         \* the shards' lists, most recently used first
          bytes,       \* the shards' byte accounts
          entryCount, byteCount,  \* the Cache's own counters
          budget,
          call,        \* what each caller is in the middle of
          sweep,       \* the SetBudget in progress
          avail        \* MemAvailable, against the headroom

vars == <<items, lru, bytes, entryCount, byteCount, budget, call, sweep, avail>>

Idle == [pc |-> "idle"]

Budgets == (IF Floor < Target THEN Floor ELSE Target)..Target
Share(b) == b \div NShards

Calls == {Idle}
    \cup [pc : {"set"}, key : Keys, obj : Objects, budget : Budgets]
    \cup [pc : {"uncount"}, size : {Size[o] : o \in Objects}]

\* SetBudget: the share it imposes and the next shard it locks.
Sweeps == [share : {Share(b) : b \in Budgets}, next : 1..(NShards + 1)]
Sweeping == sweep.next <= NShards

SizeOf(k) == Size[items[k].obj]

\* What the keys take in a table of entries.
Sizes(tab) == [k \in Keys |-> IF tab[k] = None THEN 0 ELSE Size[tab[k].obj]]

\* list.Remove of a key's element, of which there is at most one.
Unlinked(q, k) ==
    IF k \in ToSet(q) THEN RemoveAt(q, CHOOSE i \in DOMAIN q : q[i] = k) ELSE q

Init == /\ items = [k \in Keys |-> None]
        /\ lru = [s \in Shards |-> <<>>]
        /\ bytes = [s \in Shards |-> 0]
        /\ entryCount = 0
        /\ byteCount = 0
        /\ budget = Target
        /\ call = [c \in Callers |-> Idle]
        /\ sweep = [share |-> Share(Target), next |-> NShards + 1]
        /\ avail \in {"low", "middle", "high"}

-----------------------------------------------------------------------------
\* evictOverLocked on a shard with list q, byte account b and entry table
\* tab: the number of entries left when the loop that takes the back of the
\* list stops, because the account fits the share, the list is empty, or the
\* back is the protected entry.
Behind(q, n) == {q[i] : i \in (n + 1)..Len(q)}
BytesLeft(q, b, tab, n) == b - SumFunctionOnSet(Sizes(tab), Behind(q, n))

\* Mutation: the entry being stored is not protected.
StaysUnprotected(q, b, tab, share, protect, n) ==
    n = 0 \/ BytesLeft(q, b, tab, n) <= share

\* Mutation: the front of the list is compared with the protected entry.
StaysFrontProtected(q, b, tab, share, protect, n) ==
    \/ n = 0
    \/ BytesLeft(q, b, tab, n) <= share
    \/ q[1] = protect

Stays(q, b, tab, share, protect, n) ==
    \/ n = 0
    \/ BytesLeft(q, b, tab, n) <= share
    \/ q[n] = protect

Left(q, b, tab, share, protect) ==
    Max({n \in 0..Len(q) : Stays(q, b, tab, share, protect, n)})

\* Mutation: entries leave from the front of the list.
EvictOverFront(s, q, b, tab, share, protect, ec, bc) ==
    LET n     == Left(q, b, tab, share, protect)
        after == BytesLeft(q, b, tab, n)
        out   == {q[i] : i \in 1..(Len(q) - n)}
    IN  /\ lru' = [lru EXCEPT ![s] = SubSeq(q, Len(q) - n + 1, Len(q))]
        /\ bytes' = [bytes EXCEPT ![s] = after]
        /\ items' = [k \in Keys |-> IF k \in out THEN None ELSE tab[k]]
        /\ entryCount' = ec - (Len(q) - n)
        /\ byteCount' = bc - (b - after)

\* The shard s after the loop, from list q, account b, table tab and the two
\* counters as they stand before it.
EvictOver(s, q, b, tab, share, protect, ec, bc) ==
    LET n     == Left(q, b, tab, share, protect)
        after == BytesLeft(q, b, tab, n)
        out   == Behind(q, n)
    IN  /\ lru' = [lru EXCEPT ![s] = SubSeq(q, 1, n)]
        /\ bytes' = [bytes EXCEPT ![s] = after]
        /\ items' = [k \in Keys |-> IF k \in out THEN None ELSE tab[k]]
        /\ entryCount' = ec - (Len(q) - n)
        /\ byteCount' = bc - (b - after)

\* Mutation: the shard's account is not lowered.
RemoveUnaccounted(k) ==
    /\ items' = [items EXCEPT ![k] = None]
    /\ lru' = [lru EXCEPT ![ShardOf[k]] = Unlinked(@, k)]
    /\ UNCHANGED bytes

\* removeLocked: the map, the list and the shard's account.
RemoveLocked(k) ==
    /\ items' = [items EXCEPT ![k] = None]
    /\ lru' = [lru EXCEPT ![ShardOf[k]] = Unlinked(@, k)]
    /\ bytes' = [bytes EXCEPT ![ShardOf[k]] = @ - SizeOf(k)]

-----------------------------------------------------------------------------
\* Get of a live entry (a miss on an absent key changes nothing).
GetHit(c, k) ==
    /\ call[c] = Idle
    /\ items[k] # None /\ ~items[k].spent
    /\ lru' = [lru EXCEPT ![ShardOf[k]] = <<k>> \o Unlinked(@, k)]
    /\ UNCHANGED <<items, bytes, entryCount, byteCount, budget, call, sweep, avail>>

\* Mutation: Get returns without subtracting what it removed.
GetSpentUncounted(c, k) ==
    /\ call[c] = Idle
    /\ items[k] # None /\ items[k].spent
    /\ RemoveLocked(k)
    /\ UNCHANGED <<entryCount, byteCount, budget, call, sweep, avail>>

\* Get of an evictable entry: removed under the lock, uncounted after it.
GetSpent(c, k) ==
    /\ call[c] = Idle
    /\ items[k] # None /\ items[k].spent
    /\ RemoveLocked(k)
    /\ call' = [call EXCEPT ![c] = [pc |-> "uncount", size |-> SizeOf(k)]]
    /\ UNCHANGED <<entryCount, byteCount, budget, sweep, avail>>

Uncount(c) ==
    /\ call[c].pc = "uncount"
    /\ entryCount' = entryCount - 1
    /\ byteCount' = byteCount - call[c].size
    /\ call' = [call EXCEPT ![c] = Idle]
    /\ UNCHANGED <<items, lru, bytes, budget, sweep, avail>>

\* Set up to the lock: the budget is loaded and an object over it refused
\* (the key keeps whatever it held).
SetLoad(c, k, o) ==
    /\ call[c] = Idle
    /\ budget > 0 /\ Size[o] <= budget
    /\ call' = [call EXCEPT ![c] =
                  [pc |-> "set", key |-> k, obj |-> o, budget |-> budget]]
    /\ UNCHANGED <<items, lru, bytes, entryCount, byteCount, budget, sweep, avail>>

\* Set under the lock: the old entry goes, the new one is put at the front
\* and protected, and the shard is cut to its share of the loaded budget.
SetStore(c) ==
    /\ call[c].pc = "set"
    /\ LET k     == call[c].key
           s     == ShardOf[k]
           size  == Size[call[c].obj]
           had   == items[k] # None
           freed == IF had THEN SizeOf(k) ELSE 0
       IN  EvictOver(s,
                     <<k>> \o Unlinked(lru[s], k),
                     bytes[s] - freed + size,
                     [items EXCEPT ![k] = [obj |-> call[c].obj, spent |-> FALSE]],
                     Share(call[c].budget),
                     k,
                     entryCount + (IF had THEN 0 ELSE 1),
                     byteCount - freed + size)
    /\ call' = [call EXCEPT ![c] = Idle]
    /\ UNCHANGED <<budget, sweep, avail>>

\* Delete does all its accounting under the lock.
Delete(k) ==
    /\ items[k] # None
    /\ RemoveLocked(k)
    /\ entryCount' = entryCount - 1
    /\ byteCount' = byteCount - SizeOf(k)
    /\ UNCHANGED <<budget, call, sweep, avail>>

\* The clock passes an entry's StoredAt+TTL+StaleFor.
Expire(k) ==
    /\ items[k] # None /\ ~items[k].spent
    /\ items' = [items EXCEPT ![k].spent = TRUE]
    /\ UNCHANGED <<lru, bytes, entryCount, byteCount, budget, call, sweep, avail>>

-----------------------------------------------------------------------------
\* Mutation: three quarters, however little that is.
ShrunkUnclamped(b) == (b * 3) \div 4

\* Mutation: a cut that would go below the floor is not made at all.
ShrunkOrNothing(b) == LET next == (b * 3) \div 4 IN IF next < Floor THEN b ELSE next

\* The tick's new budget: under pressure three quarters, not below the floor;
\* with twice the headroom a tenth more, not above the target.
Shrunk(b) == LET next == (b * 3) \div 4 IN IF next < Floor THEN Floor ELSE next
Grown(b) == LET next == b + (b \div 10) IN IF next > Target THEN Target ELSE next

\* Mutation: the shards' share is that of the budget before.
SetBudgetOldShare(b) == /\ budget' = b
                        /\ sweep' = [share |-> Share(budget), next |-> 1]

\* SetBudget up to its loop over the shards.
SetBudget(b) == /\ budget' = b
                /\ sweep' = [share |-> Share(b), next |-> 1]

Shrink == ~Sweeping /\ avail = "low" /\ budget > Floor /\ SetBudget(Shrunk(budget))

Grow == ~Sweeping /\ avail = "high" /\ budget < Target /\ SetBudget(Grown(budget))

\* A tick of the watchdog that changes the budget.
Tick == /\ Shrink \/ Grow
        /\ UNCHANGED <<items, lru, bytes, entryCount, byteCount, call, avail>>

\* SetBudget's loop goes on to the next shard.
NextShard == /\ Sweeping
             /\ sweep' = [sweep EXCEPT !.next = @ + 1]
             /\ budget' = budget

\* One shard of that loop, under the shard's lock.
SweepShard ==
    /\ NextShard
    /\ LET s == sweep.next
       IN  EvictOver(s, lru[s], bytes[s], items, sweep.share, None,
                     entryCount, byteCount)
    /\ UNCHANGED <<call, avail>>

\* The host's free memory moves; "middle" also stands for an unreadable
\* /proc/meminfo, on which the watchdog does nothing either.
MemoryMoves == /\ avail' \in {"low", "middle", "high"} \ {avail}
               /\ UNCHANGED <<items, lru, bytes, entryCount, byteCount, budget, call, sweep>>

Next == \/ \E c \in Callers, k \in Keys :
             \/ GetHit(c, k)
             \/ GetSpent(c, k)
             \/ \E o \in Objects : SetLoad(c, k, o)
        \/ \E c \in Callers : Uncount(c) \/ SetStore(c)
        \/ \E k \in Keys : Delete(k) \/ Expire(k)
        \/ Tick
        \/ SweepShard
        \/ MemoryMoves

Spec == Init /\ [][Next]_vars

\* The ticker keeps firing and no lock is held for ever, so the watchdog's
\* goroutine always goes on; it is seen in the budget and the sweep it moves.
Fairness == WF_<<budget, sweep>>(Shrink \/ Grow \/ NextShard)

FairSpec == Spec /\ Fairness

-----------------------------------------------------------------------------
\* Types.  budget never leaves the range between the floor (or a smaller
\* target) and the target, so no later tick starts from an impossible one.
TypeOK ==
    /\ items \in [Keys -> Entries \cup {None}]
    /\ lru \in [Shards -> Seq(Keys)]
    /\ bytes \in [Shards -> Nat]
    /\ entryCount \in Nat
    /\ byteCount \in Nat
    /\ budget \in Budgets
    /\ call \in [Callers -> Calls]
    /\ sweep \in Sweeps
    /\ avail \in {"low", "middle", "high"}

Stored(s) == {k \in Keys : ShardOf[k] = s /\ items[k] # None}

\* The map and the list of a shard hold the same entries, each once, and the
\* shard's account is their total size (removeLocked and Set keep three
\* structures in step).
ShardsConsistent ==
    \A s \in Shards :
        /\ ToSet(lru[s]) = Stored(s)
        /\ Len(lru[s]) = Cardinality(Stored(s))
        /\ bytes[s] = SumFunctionOnSet(Sizes(items), Stored(s))

Uncounting == {c \in Callers : call[c].pc = "uncount"}

\* Stats never drift: the global counters are off by exactly the removals of
\* Gets that have unlocked the shard and not yet subtracted them.
CountersExact ==
    /\ entryCount = SumFunction([s \in Shards |-> Len(lru[s])]) + Cardinality(Uncounting)
    /\ byteCount = SumFunction(bytes) + SumFunction([c \in Uncounting |-> call[c].size])

\* Whatever Sets and budget changes race, a shard never holds more than its
\* share of the target, except for one object bigger than that, held alone.
ShardBounded ==
    \A s \in Shards :
        \/ bytes[s] <= Share(Target)
        \/ Len(lru[s]) = 1 /\ bytes[s] <= Target

\* A shard with more than one object that is larger than its share.
Exceeds(s) == Len(lru[s]) > 1 /\ bytes[s] > Share(budget)

\* A Set of a key of s, which loaded a larger budget than is valid now, ends.
LateSet(s) == \E c \in Callers : /\ call[c].pc = "set" /\ call'[c] = Idle
                                 /\ ShardOf[call[c].key] = s /\ call[c].budget > budget

\* A cut of the budget takes hold of each shard once SetBudget's loop has
\* visited it: other than by the next cut, only a Set that loaded its budget
\* before the cut makes the shard larger than its share again.
CutsTakeHold ==
    [][/\ SweepShard => bytes'[sweep.next] <= Share(budget)
       /\ \A s \in Shards : Exceeds(s)' /\ ~Exceeds(s) => Tick \/ LateSet(s)]_vars

\* The keys whose Set completes in this step.
JustSet == {call[c].key : c \in {d \in Callers : call[d].pc = "set" /\ call'[d] = Idle}}

\* Space is taken from the least recently used end: when a Set or a sweep
\* throws out an entry, every entry of the shard that was used longer ago
\* goes in the same step, but for the one the Set is storing.
EvictsLeastRecent ==
    [][SweepShard \/ JustSet # {} =>
         \A s \in Shards : \A i \in 1..Len(lru[s]) :
            items'[lru[s][i]] = None =>
                \A k \in Behind(lru[s], i) \ JustSet : items'[k] = None]_vars

\* Once memory stays plentiful the budget climbs back to the target: the
\* floor keeps the tenth that is added from rounding to nothing.
BudgetRecovers == <>[](avail = "high") => <>[](budget = Target)

\* Once memory stays scarce the budget comes down to the floor and stays.
PressureRelieved == <>[](avail = "low") => <>[](budget <= Floor)

\* The cache is a store that only ever forgets.
Dictionary ==
    INSTANCE LossyStore WITH
        store <- [k \in Keys |-> IF items[k] = None THEN None ELSE items[k].obj],
        offer <- [c \in Callers |-> IF call[c].pc = "set"
                                    THEN [key |-> call[c].key, obj |-> call[c].obj]
                                    ELSE None]

\* Get returns under a key only what the latest completed Set stored there:
\* eviction, expiry and replacement never bring an older object back.
ImplementsLossyStore == Dictionary!Spec
=============================================================================

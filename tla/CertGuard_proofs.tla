-------------------------- MODULE CertGuard_proofs --------------------------
(***************************************************************************)
(* Proofs about CertGuard, for any hosts, limits, retention period and     *)
(* number of concurrent handshakes: nothing a window counts is forgotten,  *)
(* a successful save leaves nothing to lose, and a budget is overshot by   *)
(* fewer certificates than there are handshakes.                           *)
(***************************************************************************)
EXTENDS CertGuard, FiniteSetTheorems, TLAPS

(***************************************************************************)
(* Sets of hosts.                                                          *)
(***************************************************************************)

\* Sets of hosts are finite (hosts are finitely many in any run of a node),
\* and a smaller one has no more members.
LEMMA HostSets ==
    ASSUME NEW T \in SUBSET Hosts, NEW S \in SUBSET T
    PROVE  /\ IsFiniteSet(T) /\ IsFiniteSet(S)
           /\ Cardinality(S) \in Nat /\ Cardinality(T) \in Nat
           /\ Cardinality(S) <= Cardinality(T)
<1>1. IsFiniteSet(T)
  BY FS_Subset, GuardAssumption
<1>2. IsFiniteSet(S) /\ Cardinality(S) <= Cardinality(T)
  BY <1>1, FS_Subset
<1> QED
  BY <1>1, <1>2, FS_CardinalityType

\* The hosts named by the handshakes' states are no more than the handshakes
\* (each waits for one certificate).
LEMMA FlightsBounded ==
    ASSUME NEW f \in [Handshakes -> Waiting \cup {Idle}]
    PROVE  LET B == {f[h].host : h \in {g \in Handshakes : f[g] # Idle}}
           IN  B \in SUBSET Hosts /\ Cardinality(B) <= Cardinality(Handshakes)
<1> DEFINE Busy == {g \in Handshakes : f[g] # Idle}
           B == {f[h].host : h \in Busy}
           m == [h \in Busy |-> f[h].host]
<1>1. IsFiniteSet(Busy) /\ Cardinality(Busy) <= Cardinality(Handshakes)
  BY FS_Subset, GuardAssumption
<1>2. m \in Surjection(Busy, B)
  BY DEF Surjection
<1>3. IsFiniteSet(B) /\ Cardinality(B) <= Cardinality(Busy)
  BY <1>1, <1>2, FS_Surjection
<1>4. Cardinality(B) <= Cardinality(Handshakes)
  BY <1>1, <1>3, FS_CardinalityType, GuardAssumption
<1>5. B \in SUBSET Hosts
  BY DEF Waiting
<1> QED
  BY <1>4, <1>5

\* A union is no bigger than its two parts together.
LEMMA UnionBounded ==
    ASSUME NEW S \in SUBSET Hosts, NEW T \in SUBSET Hosts
    PROVE  Cardinality(S \cup T) <= Cardinality(S) + Cardinality(T)
<1>1. IsFiniteSet(S) /\ IsFiniteSet(T)
  BY HostSets
<1>2. Cardinality(S \cup T) = Cardinality(S) + Cardinality(T) - Cardinality(S \cap T)
  BY <1>1, FS_Union
<1>3. Cardinality(S) \in Nat /\ Cardinality(T) \in Nat /\ Cardinality(S \cap T) \in Nat
  BY <1>1, FS_CardinalityType, FS_Subset
<1> QED
  BY <1>2, <1>3

\* Hosts that share a limit with each other are charged the same events
\* (countSince depends on the apex only, countAllSince on nothing).
LEMMA SameCharge ==
    ASSUME NEW l \in Limits, NEW x \in Hosts, NEW y \in Peers(l, x), NEW f
    PROVE  Peers(l, y) = Peers(l, x) /\ Within(f, l, y) = Within(f, l, x)
  BY DEF Peers, Within

-----------------------------------------------------------------------------
(***************************************************************************)
(* Types.                                                                  *)
(***************************************************************************)

\* Pruning keeps a table a table.
LEMMA PrunedType ==
    ASSUME NEW f \in [Hosts -> Times]
    PROVE  Pruned(f) \in [Hosts -> Times]
  BY DEF Pruned, Times

\* The guard starts with what the disk holds.
LEMMA InitInvariant == Init => IInv
<1> SUFFICES ASSUME Init PROVE IInv
  OBVIOUS
<1> USE GuardAssumption DEF Init
<1>1. TypeOK
  BY DEF TypeOK, Times, Never
<1>2. OrdersDistinct /\ RecordsOrdered /\ NothingForgotten /\ DiskCurrent
  BY DEF OrdersDistinct, RecordsOrdered, NothingForgotten, DiskCurrent, Never
<1>3. UsedBounded
  <2> SUFFICES ASSUME NEW l \in Limits, NEW x \in Hosts, l.max > 0
               PROVE  Cardinality(Used(l, x)) < l.max + Cardinality(Handshakes)
    BY DEF UsedBounded
  <2>1. Used(l, x) = {}
    BY DEF Used, Within, HostsInFlight, Peers
  <2>2. Cardinality(Handshakes) \in Nat /\ l.max \in Nat
    BY FS_CardinalityType
  <2> QED
    BY <2>1, <2>2, FS_EmptySet
<1> QED
  BY <1>1, <1>2, <1>3 DEF IInv

-----------------------------------------------------------------------------
(***************************************************************************)
(* The steps.                                                              *)
(***************************************************************************)

\* Facts about constants every step uses.
LEMMA LimitFacts ==
    ASSUME NEW l \in Limits
    PROVE  /\ l.max \in Nat /\ l.window \in Nat /\ l.window < Retention
           /\ Cardinality(Handshakes) \in Nat /\ Retention \in Nat
  BY FS_CardinalityType, GuardAssumption DEF Windows

\* A step after which no limit charges a host it did not charge before keeps
\* the bound (all of them but an approval are such steps).
LEMMA UsedShrinks ==
    ASSUME UsedBounded,
           \A l \in Limits, x \in Hosts : Used(l, x)' \subseteq Used(l, x)
    PROVE  UsedBounded'
<1> SUFFICES ASSUME NEW l \in Limits, NEW x \in Hosts, l.max > 0
             PROVE  Cardinality(Used(l, x)') < l.max + Cardinality(Handshakes)
  BY DEF UsedBounded
<1>1. Used(l, x) \in SUBSET Hosts
  BY DEF Used, Within, Peers
<1>2. /\ Cardinality(Used(l, x)') <= Cardinality(Used(l, x))
      /\ Cardinality(Used(l, x)') \in Nat /\ Cardinality(Used(l, x)) \in Nat
  BY <1>1, HostSets
<1>3. Cardinality(Used(l, x)) < l.max + Cardinality(Handshakes)
  BY DEF UsedBounded
<1> QED
  BY <1>2, <1>3, LimitFacts

\* Pruning hides no event from a window, since every window is shorter than
\* the retention period.
LEMMA PrunedWithin ==
    ASSUME NEW f \in [Hosts -> Times], now \in Nat,
           NEW l \in Limits, NEW x \in Hosts
    PROVE  Within(Pruned(f), l, x) = Within(f, l, x)
  BY LimitFacts, GuardAssumption DEF Pruned, Within, Peers, Times, Never

\* An approval: only the new host is added to what a limit charges, and only
\* when the limit's count was below its budget.
LEMMA ApproveStep ==
    ASSUME IInv, NEW h \in Handshakes, NEW x \in Hosts, Approve(h, x)
    PROVE  IInv'
<1> USE GuardAssumption DEF Never
<1>1. TypeOK'
  BY PrunedType DEF IInv, TypeOK, Approve, Waiting
<1>2. OrdersDistinct'
  <2> SUFFICES ASSUME NEW g \in Handshakes, hs'[g] # Idle
               PROVE  /\ hs'[g].pc = "approved" => ca[hs'[g].host] = Never
                      /\ hs'[g].pc = "obtained" =>
                           /\ ca[hs'[g].host] # Never
                           /\ at'[hs'[g].host] = Never /\ disk[hs'[g].host] = Never
                      /\ \A k \in Handshakes :
                           hs'[k] # Idle /\ hs'[k].host = hs'[g].host => k = g
    BY DEF OrdersDistinct, Approve
  <2>1. x \notin HostsInFlight /\ ca[x] = Never
    BY DEF Approve
  <2>2. \A k \in Handshakes : k # h => hs'[k] = hs[k]
    BY DEF Approve, IInv, TypeOK
  <2>3. hs'[h] = [pc |-> "approved", host |-> x]
    BY DEF Approve, IInv, TypeOK
  <2>4. \A k \in Handshakes : k # h /\ hs[k] # Idle => hs[k].host # x
    BY <2>1 DEF HostsInFlight
  <2>5. \A y \in Hosts : at[y] = Never => at'[y] = Never
    BY DEF Approve, Pruned
  <2>6. hs'[g].host \in Hosts
    BY <1>1 DEF TypeOK, Waiting
  <2> QED
    BY <2>1, <2>2, <2>3, <2>4, <2>5, <2>6 DEF OrdersDistinct, IInv
<1>3. RecordsOrdered'
  BY DEF IInv, TypeOK, RecordsOrdered, Approve, Pruned, Times
<1>4. NothingForgotten'
  <2> SUFFICES ASSUME NEW y \in Hosts, ca[y] # Never
               PROVE  \/ at'[y] # Never /\ at'[y] >= ca[y]
                      \/ \E g \in Handshakes : hs'[g] = [pc |-> "obtained", host |-> y]
                      \/ y \in lost
                      \/ ca[y] <= now - Retention
    BY DEF NothingForgotten, Approve
  <2>1. CASE \E g \in Handshakes : hs[g] = [pc |-> "obtained", host |-> y]
    BY <2>1 DEF IInv, TypeOK, Approve, Idle
  <2>2. CASE at[y] # Never /\ at[y] >= ca[y]
    BY <2>2 DEF IInv, TypeOK, Approve, Pruned, Times
  <2>3. CASE y \in lost \/ ca[y] <= now - Retention
    BY <2>3
  <2> QED
    BY <2>1, <2>2, <2>3 DEF IInv, NothingForgotten
<1>5. DiskCurrent'
  BY DEF IInv, TypeOK, DiskCurrent, Approve, Pruned, Times
<1>6. UsedBounded'
  <2> SUFFICES ASSUME NEW l \in Limits, NEW y \in Hosts, l.max > 0
               PROVE  Cardinality(Used(l, y)') < l.max + Cardinality(Handshakes)
    BY DEF UsedBounded
  <2>1. Within(at', l, y) = Within(at, l, y)
    BY PrunedWithin DEF Approve, IInv, TypeOK
  <2>2. Within(at, l, y)' = Within(at', l, y)
    BY DEF Within, Peers, Approve
  <2>3. HostsInFlight' = HostsInFlight \cup {x}
    BY DEF HostsInFlight, Approve, IInv, TypeOK, Idle
  <2>4. CASE x \in Peers(l, y)
    <3>1. Cardinality(Within(at, l, y)) < l.max
      <4>1. Cardinality(Within(at', l, x)) < l.max
        BY DEF Approve, Allowed
      <4> QED
        BY <2>1, <2>4, <4>1, SameCharge
    <3>2. /\ HostsInFlight' \in SUBSET Hosts
          /\ Cardinality(HostsInFlight') <= Cardinality(Handshakes)
      <4>1. hs' \in [Handshakes -> Waiting \cup {Idle}]
        BY <1>1 DEF TypeOK
      <4> QED
        BY <4>1, FlightsBounded DEF HostsInFlight
    <3>3. Used(l, y)' \subseteq Within(at, l, y) \cup HostsInFlight'
      BY <2>1, <2>2 DEF Used
    <3>4. Within(at, l, y) \in SUBSET Hosts
      BY DEF Within, Peers
    <3>5. Cardinality(Used(l, y)') <= Cardinality(Within(at, l, y) \cup HostsInFlight')
      BY <3>2, <3>3, <3>4, HostSets
    <3>6. Cardinality(Within(at, l, y) \cup HostsInFlight')
            <= Cardinality(Within(at, l, y)) + Cardinality(HostsInFlight')
      BY <3>2, <3>4, UnionBounded
    <3>7. /\ Cardinality(Used(l, y)') \in Nat
          /\ Cardinality(Within(at, l, y) \cup HostsInFlight') \in Nat
          /\ Cardinality(Within(at, l, y)) \in Nat
          /\ Cardinality(HostsInFlight') \in Nat
      BY <3>2, <3>3, <3>4, HostSets
    <3> QED
      BY <3>1, <3>2, <3>5, <3>6, <3>7, LimitFacts
  <2>5. CASE x \notin Peers(l, y)
    <3>1. Used(l, y)' = Used(l, y)
      BY <2>1, <2>2, <2>3, <2>5 DEF Used, Peers
    <3> QED
      BY <3>1 DEF IInv, UsedBounded
  <2> QED
    BY <2>4, <2>5
<1> QED
  BY <1>1, <1>2, <1>3, <1>4, <1>5, <1>6 DEF IInv

\* A refusal only prunes.
LEMMA RefusalStep ==
    ASSUME IInv, NEW x \in Hosts, PruneOnRefusal(x)
    PROVE  IInv'
<1> USE GuardAssumption DEF Never
<1>1. TypeOK'
  BY PrunedType DEF IInv, TypeOK, PruneOnRefusal
<1>2. OrdersDistinct'
  <2>1. \A y \in Hosts : at[y] = Never => at'[y] = Never
    BY DEF PruneOnRefusal, Pruned
  <2>2. \A g \in Handshakes : hs[g] # Idle => hs[g].host \in Hosts
    BY DEF IInv, TypeOK, Waiting
  <2> QED
    BY <2>1, <2>2 DEF IInv, OrdersDistinct, PruneOnRefusal
<1>3. RecordsOrdered' /\ NothingForgotten' /\ DiskCurrent'
  BY DEF IInv, TypeOK, RecordsOrdered, NothingForgotten, DiskCurrent,
         PruneOnRefusal, Pruned, Times
<1>4. UsedBounded'
  <2>1. \A l \in Limits, y \in Hosts : Within(at', l, y) = Within(at, l, y)
    BY PrunedWithin DEF PruneOnRefusal, IInv, TypeOK
  <2>2. \A l \in Limits, y \in Hosts : Used(l, y)' \subseteq Used(l, y)
    BY <2>1 DEF Used, Within, Peers, HostsInFlight, PruneOnRefusal
  <2> QED
    BY <2>2, UsedShrinks DEF IInv
<1> QED
  BY <1>1, <1>2, <1>3, <1>4 DEF IInv

\* The certificate exists from now on; its handshake remembers to record it.
LEMMA ObtainStep ==
    ASSUME IInv, NEW h \in Handshakes, Obtain(h)
    PROVE  IInv'
<1> USE GuardAssumption DEF Never
<1>1. hs[h] \in Waiting /\ hs[h].host \in Hosts
  BY DEF IInv, TypeOK, Obtain, Waiting
<1>2. hs'[h] = [pc |-> "obtained", host |-> hs[h].host]
  BY <1>1 DEF IInv, TypeOK, Obtain, Waiting
<1>3. \A g \in Handshakes : g # h => hs'[g] = hs[g]
  BY DEF IInv, TypeOK, Obtain
<1>4. TypeOK'
  BY <1>1 DEF IInv, TypeOK, Obtain, Times, Waiting
<1>5. at[hs[h].host] = Never /\ disk[hs[h].host] = Never
  BY <1>1 DEF IInv, OrdersDistinct, RecordsOrdered, Obtain
<1>6. OrdersDistinct'
  <2>1. ca'[hs[h].host] = now /\ now # Never
    BY <1>1 DEF IInv, TypeOK, Obtain
  <2>2. \A g \in Handshakes : g # h /\ hs[g] # Idle =>
           hs[g].host # hs[h].host /\ ca'[hs[g].host] = ca[hs[g].host]
    BY <1>1 DEF IInv, TypeOK, OrdersDistinct, Obtain, Waiting
  <2>3. hs[h] # Idle /\ hs'[h] # Idle
    BY <1>2 DEF Obtain, Idle
  <2>4. at' = at /\ disk' = disk
    BY DEF Obtain
  <2> QED
    BY <1>2, <1>3, <1>5, <2>1, <2>2, <2>3, <2>4 DEF IInv, OrdersDistinct
<1>7. RecordsOrdered' /\ DiskCurrent'
  BY <1>1, <1>5 DEF IInv, TypeOK, RecordsOrdered, DiskCurrent, Obtain, Times
<1>8. NothingForgotten'
  <2> SUFFICES ASSUME NEW y \in Hosts, ca'[y] # Never
               PROVE  \/ at[y] # Never /\ at[y] >= ca'[y]
                      \/ \E g \in Handshakes : hs'[g] = [pc |-> "obtained", host |-> y]
                      \/ y \in lost
                      \/ ca'[y] <= now - Retention
    BY DEF NothingForgotten, Obtain
  <2>1. CASE y = hs[h].host
    BY <1>2, <2>1
  <2>2. CASE y # hs[h].host
    <3>1. ca'[y] = ca[y]
      BY <2>2 DEF Obtain, IInv, TypeOK
    <3>2. \A g \in Handshakes : hs[g] = [pc |-> "obtained", host |-> y] =>
                                 hs'[g] = [pc |-> "obtained", host |-> y]
      BY <1>3 DEF Obtain
    <3> QED
      BY <3>1, <3>2 DEF IInv, NothingForgotten
  <2> QED
    BY <2>1, <2>2
<1>9. UsedBounded'
  <2>1. HostsInFlight' = HostsInFlight
    <3>1. hs[h] # Idle /\ hs'[h] # Idle /\ hs'[h].host = hs[h].host
      BY <1>2 DEF Obtain, Idle
    <3> QED
      BY <1>3, <3>1 DEF HostsInFlight
  <2>2. \A l \in Limits, y \in Hosts : Used(l, y)' \subseteq Used(l, y)
    BY <2>1 DEF Used, Within, Peers, Obtain
  <2> QED
    BY <2>2, UsedShrinks DEF IInv
<1> QED
  BY <1>4, <1>6, <1>7, <1>8, <1>9 DEF IInv

\* A failed order leaves nothing behind.
LEMMA FailStep ==
    ASSUME IInv, NEW h \in Handshakes, Fail(h)
    PROVE  IInv'
<1> USE GuardAssumption DEF Never
<1>1. hs'[h] = Idle /\ \A g \in Handshakes : g # h => hs'[g] = hs[g]
  BY DEF IInv, TypeOK, Fail
<1>2. TypeOK'
  BY DEF IInv, TypeOK, Fail
<1>3. OrdersDistinct'
  BY <1>1 DEF IInv, OrdersDistinct, Fail
<1>4. RecordsOrdered' /\ DiskCurrent'
  BY DEF IInv, RecordsOrdered, DiskCurrent, Fail
<1>5. NothingForgotten'
  <2>1. \A g \in Handshakes, y \in Hosts :
           hs[g] = [pc |-> "obtained", host |-> y] => hs'[g] = hs[g]
    BY <1>1 DEF Fail
  <2> QED
    BY <2>1 DEF IInv, NothingForgotten, Fail
<1>6. UsedBounded'
  <2>1. HostsInFlight' \subseteq HostsInFlight
    BY <1>1 DEF HostsInFlight
  <2>2. \A l \in Limits, y \in Hosts : Used(l, y)' \subseteq Used(l, y)
    BY <2>1 DEF Used, Within, Peers, Fail
  <2> QED
    BY <2>2, UsedShrinks DEF IInv
<1> QED
  BY <1>2, <1>3, <1>4, <1>5, <1>6 DEF IInv

\* The host moves from the handshake to the table, at the present time.
LEMMA RecordStep ==
    ASSUME IInv, NEW h \in Handshakes, Record(h)
    PROVE  IInv'
<1> USE GuardAssumption DEF Never
<1> DEFINE x == hs[h].host
<1>1. hs[h] = [pc |-> "obtained", host |-> x] /\ x \in Hosts
  BY DEF IInv, TypeOK, Record, Save, Waiting
<1>2. hs'[h] = Idle /\ \A g \in Handshakes : g # h => hs'[g] = hs[g]
  BY DEF IInv, TypeOK, Record, Save
<1>3. at'[x] = now /\ \A y \in Hosts : y # x => at'[y] = at[y]
  BY <1>1 DEF IInv, TypeOK, Record, Save
<1>4. disk' = at' \/ disk' = disk
  BY DEF Record, Save
<1>5. ca[x] # Never /\ at[x] = Never /\ disk[x] = Never
  BY <1>1 DEF IInv, OrdersDistinct, Record, Save
<1>6. TypeOK'
  BY <1>1, <1>4 DEF IInv, TypeOK, Record, Save, Times
<1>7. OrdersDistinct'
  <2>1. \A g \in Handshakes : g # h /\ hs[g] # Idle => hs[g].host # x /\ hs[g].host \in Hosts
    BY <1>1 DEF IInv, TypeOK, OrdersDistinct, Waiting, Record, Save
  <2>2. \A g \in Handshakes : g # h /\ hs[g] # Idle =>
           /\ at'[hs[g].host] = at[hs[g].host]
           /\ disk'[hs[g].host] = at[hs[g].host] \/ disk'[hs[g].host] = disk[hs[g].host]
    BY <1>3, <1>4, <2>1
  <2> QED
    BY <1>2, <2>2 DEF IInv, OrdersDistinct, Record, Save
<1>8. RecordsOrdered'
  BY <1>1, <1>3, <1>4, <1>5 DEF IInv, TypeOK, RecordsOrdered, Record, Save, Times
<1>9. NothingForgotten'
  <2>1. ca[x] <= now
    BY <1>1 DEF IInv, RecordsOrdered
  <2>2. \A g \in Handshakes, y \in Hosts : y # x /\ hs[g] = [pc |-> "obtained", host |-> y] =>
                                            hs'[g] = [pc |-> "obtained", host |-> y]
    BY <1>1, <1>2
  <2>3. \A y \in Hosts \ {x} : at'[y] = at[y]
    BY <1>3
  <2>4. at'[x] = now /\ now # Never
    BY <1>3 DEF IInv, TypeOK
  <2>5. ca' = ca /\ lost' = lost /\ now' = now
    BY DEF Record, Save
  <2> HIDE DEF x
  <2> SUFFICES ASSUME NEW y \in Hosts, ca[y] # Never
               PROVE  \/ at'[y] # Never /\ at'[y] >= ca[y]
                      \/ \E g \in Handshakes : hs'[g] = [pc |-> "obtained", host |-> y]
                      \/ y \in lost
                      \/ ca[y] <= now - Retention
    BY <2>5 DEF NothingForgotten
  <2>6. CASE y = x
    BY <2>1, <2>4, <2>6 DEF IInv, TypeOK
  <2>7. CASE y # x
    BY <2>2, <2>3, <2>7 DEF IInv, NothingForgotten
  <2> QED
    BY <2>6, <2>7
<1>10. DiskCurrent'
  BY DEF DiskCurrent, Record, Save
<1>11. UsedBounded'
  <2>1. HostsInFlight = HostsInFlight' \cup {x}
    BY <1>1, <1>2 DEF HostsInFlight, Idle
  <2>2. \A l \in Limits, y \in Hosts : Within(at', l, y) \subseteq Within(at, l, y) \cup ({x} \cap Peers(l, y))
    BY <1>3 DEF Within, Peers
  <2>3. \A l \in Limits, y \in Hosts : Used(l, y)' \subseteq Used(l, y)
    BY <2>1, <2>2 DEF Used, Within, Peers, Record, Save
  <2> QED
    BY <2>3, UsedShrinks DEF IInv
<1> QED
  BY <1>6, <1>7, <1>8, <1>9, <1>10, <1>11 DEF IInv

\* A restart knows what the file knows, which is no more than was known.
LEMMA RestartStep ==
    ASSUME IInv, Restart
    PROVE  IInv'
<1> USE GuardAssumption DEF Never
<1>1. TypeOK'
  BY PrunedType DEF IInv, TypeOK, Restart
<1>2. OrdersDistinct' /\ HostsInFlight' = {}
  BY DEF OrdersDistinct, HostsInFlight, Restart
<1>3. RecordsOrdered' /\ DiskCurrent'
  BY DEF IInv, TypeOK, RecordsOrdered, DiskCurrent, Restart, Pruned, Times
<1>4. NothingForgotten'
  BY DEF IInv, TypeOK, RecordsOrdered, NothingForgotten, Restart, Pruned, Times
<1>5. UsedBounded'
  <2>1. \A l \in Limits, y \in Hosts : Within(at', l, y) \subseteq Within(at, l, y)
    BY LimitFacts DEF IInv, TypeOK, RecordsOrdered, Within, Peers, Restart, Pruned, Times
  <2>2. \A l \in Limits, y \in Hosts : Used(l, y)' \subseteq Used(l, y)
    BY <1>2, <2>1 DEF Used, Within, Peers, Restart
  <2> QED
    BY <2>2, UsedShrinks DEF IInv
<1> QED
  BY <1>1, <1>2, <1>3, <1>4, <1>5 DEF IInv

\* The windows slide.
LEMMA TickStep ==
    ASSUME IInv, Tick
    PROVE  IInv'
<1> USE GuardAssumption DEF Never
<1>1. TypeOK' /\ OrdersDistinct' /\ DiskCurrent'
  BY DEF IInv, TypeOK, OrdersDistinct, DiskCurrent, Tick
<1>2. RecordsOrdered' /\ NothingForgotten'
  BY DEF IInv, TypeOK, RecordsOrdered, NothingForgotten, Tick, Times
<1>3. UsedBounded'
  <2>1. \A l \in Limits, y \in Hosts : Used(l, y)' \subseteq Used(l, y)
    BY LimitFacts DEF IInv, TypeOK, Used, Within, Peers, HostsInFlight, Tick, Times
  <2> QED
    BY <2>1, UsedShrinks DEF IInv
<1> QED
  BY <1>1, <1>2, <1>3 DEF IInv

-----------------------------------------------------------------------------
(***************************************************************************)
(* The theorems.                                                           *)
(***************************************************************************)

\* The inductive invariant holds in every state of every behaviour.
THEOREM InductiveInvariant == Spec => []IInv
<1>1. IInv /\ [Next]_vars => IInv'
  <2> SUFFICES ASSUME IInv, [Next]_vars PROVE IInv'
    OBVIOUS
  <2>1. ASSUME NEW h \in Handshakes, NEW x \in Hosts, Approve(h, x) PROVE IInv'
    BY <2>1, ApproveStep
  <2>2. ASSUME NEW h \in Handshakes, Obtain(h) PROVE IInv'
    BY <2>2, ObtainStep
  <2>3. ASSUME NEW h \in Handshakes, Fail(h) PROVE IInv'
    BY <2>3, FailStep
  <2>4. ASSUME NEW h \in Handshakes, Record(h) PROVE IInv'
    BY <2>4, RecordStep
  <2>5. ASSUME NEW x \in Hosts, PruneOnRefusal(x) PROVE IInv'
    BY <2>5, RefusalStep
  <2>6. CASE Restart
    BY <2>6, RestartStep
  <2>7. CASE Tick
    BY <2>7, TickStep
  <2>8. CASE UNCHANGED vars
    BY <2>8 DEF vars, IInv, TypeOK, OrdersDistinct, RecordsOrdered, NothingForgotten,
                DiskCurrent, UsedBounded, Used, Within, Peers, HostsInFlight
  <2> QED
    BY <2>1, <2>2, <2>3, <2>4, <2>5, <2>6, <2>7, <2>8 DEF Next
<1> QED
  BY <1>1, InitInvariant, PTL DEF Spec

\* Types, and the two facts about what the guard and its file remember, hold
\* always: pruning, failed saves and restarts lose no event a window counts
\* other than those a restart is known to have lost.
THEOREM NothingIsForgotten == Spec => [](TypeOK /\ NothingForgotten /\ DiskCurrent)
<1>1. IInv => TypeOK /\ NothingForgotten /\ DiskCurrent
  BY DEF IInv
<1> QED
  BY <1>1, InductiveInvariant, PTL

\* The issuance budgets hold up to the number of concurrent handshakes.
THEOREM BudgetOvershootBounded == Spec => []OvershootBounded
<1>1. IInv => OvershootBounded
  <2> SUFFICES ASSUME IInv, NEW l \in Limits, NEW x \in Hosts, l.max > 0
               PROVE  Cardinality(Charged(l, x)) < l.max + Cardinality(Handshakes)
    BY DEF OvershootBounded
  <2>1. ASSUME NEW y \in Within(ca, l, x) \ lost
        PROVE  y \in Used(l, x)
    <3>1. y \in Peers(l, x) /\ y \in Hosts /\ ca[y] # Never /\ ca[y] > now - l.window
      BY <2>1 DEF Within, Peers
    <3>2. ~(ca[y] <= now - Retention)
      BY <3>1, LimitFacts DEF IInv, TypeOK, Times, Never
    <3>3. CASE at[y] # Never /\ at[y] >= ca[y]
      BY <3>1, <3>3, LimitFacts DEF IInv, TypeOK, Times, Never, Used, Within
    <3>4. CASE \E h \in Handshakes : hs[h] = [pc |-> "obtained", host |-> y]
      BY <3>1, <3>4 DEF Used, HostsInFlight, Idle
    <3> QED
      BY <2>1, <3>1, <3>2, <3>3, <3>4 DEF IInv, NothingForgotten
  <2>2. Charged(l, x) \subseteq Used(l, x) /\ Used(l, x) \in SUBSET Hosts
    BY <2>1 DEF Charged, Used, Within, Peers
  <2>3. /\ Cardinality(Charged(l, x)) <= Cardinality(Used(l, x))
        /\ Cardinality(Charged(l, x)) \in Nat /\ Cardinality(Used(l, x)) \in Nat
    BY <2>2, HostSets
  <2>4. Cardinality(Used(l, x)) < l.max + Cardinality(Handshakes)
    BY DEF IInv, UsedBounded
  <2> QED
    BY <2>3, <2>4, LimitFacts
<1> QED
  BY <1>1, InductiveInvariant, PTL
=============================================================================

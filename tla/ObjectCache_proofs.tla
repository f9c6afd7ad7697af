------------------------ MODULE ObjectCache_proofs ------------------------
(***************************************************************************)
(* Proofs about ObjectCache, for any keys, objects, sizes, number of       *)
(* shards and of callers, target and floor.                                *)
(*                                                                         *)
(* The argument rests on Kept, which says of one shard that its list holds *)
(* the keys of its map, each once, and that its account is their total     *)
(* size; and on Counted, which says what the global counters are off by.   *)
(* The lemmas about lists say what Unlinked, a push to the front and a cut *)
(* at the back do to such a list; those of SumLemmas what they do to the   *)
(* account; EvictOverKeeps puts them together for evictOverLocked.         *)
(* ShardBounded needs, besides, that a Set under way was not refused       *)
(* (Fits): an object over its shard's share stays under the target.        *)
(* CutsHold needs that the sweep under way imposes the shares of the       *)
(* current budget (ShareCurrent), and nothing of the sweeps before it.     *)
(***************************************************************************)
EXTENDS ObjectCache, SumLemmas, SequenceTheorems

\* The list of a shard holds no key twice.
Distinct(q) == \A i, j \in 1..Len(q) : q[i] = q[j] => i = j

\* Max of a set of numbers up to a bound is its greatest element.
LEMMA MaxIs ==
    ASSUME NEW N \in Nat, NEW T \in SUBSET (0..N), T # {}
    PROVE  Max(T) \in T /\ \A y \in T : y <= Max(T)
<1> DEFINE P == {n \in Nat : n > N \/ \A U \in SUBSET (0..n) : U # {} =>
                     \E x \in U : \A y \in U : x >= y}
<1>0. P \in SUBSET Nat
  OBVIOUS
<1>1. 0 \in P
  <2>1. ASSUME NEW U \in SUBSET (0..0), U # {}
        PROVE  \E x \in U : \A y \in U : x >= y
    <3>1. \A y \in U : y = 0
      OBVIOUS
    <3>2. PICK x \in U : TRUE
      BY <2>1
    <3>3. \A y \in U : x >= y
      BY <3>1
    <3> QED
      BY <3>3
  <2> QED
    BY <2>1
<1>2. ASSUME NEW n \in P
      PROVE  n + 1 \in P
  <2>1. n \in Nat
    OBVIOUS
  <2>2. CASE n > N
    BY <2>1, <2>2
  <2>3. CASE ~(n > N)
    <3>1. ASSUME NEW U \in SUBSET (0..(n + 1)), U # {}
          PROVE  \E x \in U : \A y \in U : x >= y
      <4>1. CASE n + 1 \in U
        <5>1. \A y \in U : n + 1 >= y
          BY <2>1
        <5> QED
          BY <4>1, <5>1
      <4>2. CASE n + 1 \notin U
        <5>1. U \in SUBSET (0..n)
          BY <2>1, <4>2
        <5> QED
          BY <2>3, <3>1, <5>1
      <4> QED
        BY <4>1, <4>2
    <3> QED
      BY <2>1, <3>1
  <2> QED
    BY <2>2, <2>3
<1>3. P = Nat
  <2> HIDE DEF P
  <2> QED
    BY <1>0, <1>1, <1>2, NatInductionSet
<1>4. \E x \in T : \A y \in T : x >= y
  <2>1. N \in P
    BY <1>3
  <2> QED
    BY <2>1
<1>5. Max(T) \in T /\ \A y \in T : Max(T) >= y
  BY <1>4 DEF Max
<1> QED
  BY <1>5

-----------------------------------------------------------------------------
\* A list without repetitions is as long as the set of its keys is large.
LEMMA DistinctCount ==
    ASSUME NEW S, NEW q \in Seq(S), Distinct(q)
    PROVE  IsFiniteSet(ToSet(q)) /\ Cardinality(ToSet(q)) = Len(q)
<1>1. Len(q) \in Nat /\ DOMAIN q = 1..Len(q) /\ q \in [1..Len(q) -> S]
  OBVIOUS
<1>2. q \in Bijection(1..Len(q), ToSet(q))
  BY <1>1 DEF Bijection, Injection, Surjection, IsInjective, ToSet, Distinct
<1>3. IsFiniteSet(1..Len(q)) /\ Cardinality(1..Len(q)) = Len(q)
  BY <1>1, FS_Interval
<1> QED
  BY <1>2, <1>3, FS_Bijection DEF ExistsBijection

\* Taking a key that is there off a list moves the later ones up by one.
LEMMA UnlinkedAt ==
    ASSUME NEW S, NEW q \in Seq(S), NEW k \in ToSet(q)
    PROVE  LET r == Unlinked(q, k)
           IN  \E i \in 1..Len(q) :
                 /\ q[i] = k
                 /\ r \in Seq(S) /\ Len(r) = Len(q) - 1
                 /\ \A j \in 1..(Len(q) - 1) : r[j] = IF j < i THEN q[j] ELSE q[j + 1]
<1> DEFINE i == CHOOSE i \in DOMAIN q : q[i] = k
           r == RemoveAt(q, i)
<1>1. Len(q) \in Nat /\ DOMAIN q = 1..Len(q)
  OBVIOUS
<1>2. i \in 1..Len(q) /\ q[i] = k
  BY <1>1 DEF ToSet
<1>3. Unlinked(q, k) = r
  BY DEF Unlinked
<1> HIDE DEF i
<1>4. /\ r \in Seq(S) /\ Len(r) = Len(q) - 1
      /\ \A j \in 1..(Len(q) - 1) : r[j] = IF j < i THEN q[j] ELSE q[j + 1]
  <2> DEFINE a == SubSeq(q, 1, i - 1)
             b == SubSeq(q, i + 1, Len(q))
  <2>1. /\ a \in Seq(S) /\ Len(a) = i - 1
        /\ \A j \in 1..(i - 1) : a[j] = q[j]
    BY <1>1, <1>2
  <2>2. /\ b \in Seq(S) /\ Len(b) = Len(q) - i
        /\ \A j \in 1..(Len(q) - i) : b[j] = q[i + j]
    <3>1. \A j \in (i + 1)..Len(q) : q[j] \in S
      BY <1>1, <1>2
    <3>2. i + 1 \in Int /\ Len(q) \in Int
      BY <1>1, <1>2
    <3>3. /\ b \in Seq(S)
          /\ Len(b) = IF i + 1 <= Len(q) THEN Len(q) - (i + 1) + 1 ELSE 0
          /\ \A j \in 1..(Len(q) - (i + 1) + 1) : b[j] = q[(i + 1) + j - 1]
      BY <3>1, <3>2, SubSeqProperties
    <3> HIDE DEF b
    <3>4. Len(q) - (i + 1) + 1 = Len(q) - i
      BY <1>1, <1>2
    <3>5. \A j \in 1..(Len(q) - i) : (i + 1) + j - 1 = i + j
      BY <1>1, <1>2
    <3>6. Len(b) = Len(q) - i
      <4>1. Len(b) = IF i + 1 <= Len(q) THEN Len(q) - (i + 1) + 1 ELSE 0
        BY <3>3
      <4>2. Len(q) \in Int /\ i \in Int /\ i <= Len(q)
        BY <1>1, <1>2
      <4> QED
        BY ONLY <4>1, <4>2
    <3>7. \A j \in 1..(Len(q) - i) : b[j] = q[i + j]
      BY <3>3, <3>4, <3>5
    <3> QED
      BY <3>3, <3>6, <3>7
  <2>3. r = a \o b
    BY DEF RemoveAt
  <2> HIDE DEF a, b, r
  <2>4. r \in Seq(S) /\ Len(r) = Len(q) - 1
    <3>1. r \in Seq(S) /\ Len(r) = Len(a) + Len(b)
      BY <2>1, <2>2, <2>3, ConcatProperties
    <3> QED
      BY <1>1, <1>2, <2>1, <2>2, <3>1
  <2>5. ASSUME NEW j \in 1..(Len(q) - 1)
        PROVE  r[j] = IF j < i THEN q[j] ELSE q[j + 1]
    <3>1. r[j] = IF j <= Len(a) THEN a[j] ELSE b[j - Len(a)]
      BY <1>1, <1>2, <2>1, <2>2, <2>3
    <3>2. CASE j < i
      <4>1. j \in 1..(i - 1)
        BY <1>1, <1>2, <3>2
      <4> QED
        BY <1>2, <2>1, <3>1, <3>2, <4>1
    <3>3. CASE ~(j < i)
      <4>1. j - (i - 1) \in 1..(Len(q) - i) /\ i + (j - (i - 1)) = j + 1
        BY <1>1, <1>2, <3>3
      <4> QED
        BY <1>2, <2>1, <2>2, <3>1, <3>3, <4>1
    <3> QED
      BY <3>2, <3>3
  <2> QED
    BY <2>4, <2>5
<1> HIDE DEF r
<1> QED
  BY <1>2, <1>3, <1>4

\* Taking a key off a list leaves the others, each once.
LEMMA UnlinkedIs ==
    ASSUME NEW S, NEW q \in Seq(S), Distinct(q), NEW k
    PROVE  /\ Unlinked(q, k) \in Seq(S)
           /\ Distinct(Unlinked(q, k))
           /\ ToSet(Unlinked(q, k)) = ToSet(q) \ {k}
<1>1. CASE k \notin ToSet(q)
  BY <1>1 DEF Unlinked
<1>2. CASE k \in ToSet(q)
  <2> DEFINE r == Unlinked(q, k)
  <2>1. Len(q) \in Nat /\ DOMAIN q = 1..Len(q)
    OBVIOUS
  <2>2. PICK i \in 1..Len(q) :
          /\ q[i] = k
          /\ r \in Seq(S) /\ Len(r) = Len(q) - 1
          /\ \A j \in 1..(Len(q) - 1) : r[j] = IF j < i THEN q[j] ELSE q[j + 1]
    BY <1>2, UnlinkedAt
  <2>3. /\ r \in Seq(S) /\ Len(r) = Len(q) - 1
        /\ \A j \in 1..(Len(q) - 1) : r[j] = IF j < i THEN q[j] ELSE q[j + 1]
    BY <2>2
  <2> HIDE DEF r
  <2>4. DOMAIN r = 1..(Len(q) - 1)
    BY <2>3
  <2>5. Distinct(r)
    BY <2>1, <2>2, <2>3 DEF Distinct
  <2>6. ToSet(r) = ToSet(q) \ {k}
    <3>1. ASSUME NEW x \in ToSet(r)
          PROVE  x \in ToSet(q) \ {k}
      <4>1. PICK j \in 1..(Len(q) - 1) : r[j] = x
        BY <2>4 DEF ToSet
      <4>2. PICK m \in 1..Len(q) : m # i /\ q[m] = x
        <5>1. CASE j < i
          BY <2>1, <2>2, <2>3, <4>1, <5>1
        <5>2. CASE ~(j < i)
          <6>1. j + 1 \in 1..Len(q) /\ j + 1 # i
            BY <2>1, <2>2, <5>2
          <6> QED
            BY <2>3, <4>1, <5>2, <6>1
        <5> QED
          BY <5>1, <5>2
      <4> QED
        BY <2>1, <2>2, <4>2 DEF Distinct, ToSet
    <3>2. ASSUME NEW x \in ToSet(q) \ {k}
          PROVE  x \in ToSet(r)
      <4>1. PICK m \in 1..Len(q) : q[m] = x
        BY <2>1 DEF ToSet
      <4>2. m # i
        BY <2>2, <4>1
      <4>3. PICK j \in 1..(Len(q) - 1) : r[j] = x
        <5>1. CASE m < i
          <6>1. m \in 1..(Len(q) - 1)
            BY <2>1, <2>2, <5>1
          <6> QED
            BY <2>3, <4>1, <5>1, <6>1
        <5>2. CASE ~(m < i)
          <6>1. m - 1 \in 1..(Len(q) - 1) /\ ~(m - 1 < i) /\ (m - 1) + 1 = m
            BY <2>1, <2>2, <4>2, <5>2
          <6> QED
            BY <2>3, <4>1, <6>1
        <5> QED
          BY <5>1, <5>2
      <4> QED
        BY <2>4, <4>3 DEF ToSet
    <3> QED
      BY <3>1, <3>2
  <2> QED
    BY <2>3, <2>5, <2>6 DEF r
<1> QED
  BY <1>1, <1>2

\* Taking a key off a list does not change the order of the others.
LEMMA UnlinkedOrder ==
    ASSUME NEW S, NEW q \in Seq(S), NEW k,
           NEW i \in 1..Len(q), NEW j \in 1..Len(q), i < j, q[i] # k, q[j] # k
    PROVE  \E a, b \in 1..Len(Unlinked(q, k)) :
              a < b /\ Unlinked(q, k)[a] = q[i] /\ Unlinked(q, k)[b] = q[j]
<1>1. CASE k \notin ToSet(q)
  BY <1>1 DEF Unlinked
<1>2. CASE k \in ToSet(q)
  <2> DEFINE r == Unlinked(q, k)
  <2>1. PICK m \in 1..Len(q) :
          /\ q[m] = k
          /\ r \in Seq(S) /\ Len(r) = Len(q) - 1
          /\ \A l \in 1..(Len(q) - 1) : r[l] = IF l < m THEN q[l] ELSE q[l + 1]
    BY <1>2, UnlinkedAt
  <2> HIDE DEF r
  <2>2. Len(q) \in Nat /\ m # i /\ m # j
    BY <2>1
  <2> DEFINE at(l) == IF l < m THEN l ELSE l - 1
  <2>3. ASSUME NEW l \in 1..Len(q), l # m
        PROVE  at(l) \in 1..Len(r) /\ r[at(l)] = q[l]
    <3>1. CASE l < m
      BY <2>1, <2>2, <3>1
    <3>2. CASE ~(l < m)
      <4>1. l - 1 \in 1..(Len(q) - 1) /\ ~(l - 1 < m) /\ (l - 1) + 1 = l
        BY <2>2, <2>3, <3>2
      <4> QED
        BY <2>1, <3>2, <4>1
    <3> QED
      BY <3>1, <3>2
  <2>4. at(i) < at(j)
    BY <2>2
  <2>5. /\ at(i) \in 1..Len(r) /\ r[at(i)] = q[i]
        /\ at(j) \in 1..Len(r) /\ r[at(j)] = q[j]
    BY <2>2, <2>3
  <2> HIDE DEF at
  <2> QED
    BY <2>4, <2>5 DEF r
<1> QED
  BY <1>1, <1>2

\* Putting a new key at the front keeps every key once.
LEMMA PushedIs ==
    ASSUME NEW S, NEW q \in Seq(S), Distinct(q), NEW k \in S, k \notin ToSet(q)
    PROVE  /\ <<k>> \o q \in Seq(S)
           /\ Distinct(<<k>> \o q)
           /\ ToSet(<<k>> \o q) = ToSet(q) \cup {k}
           /\ Len(<<k>> \o q) \in Nat \ {0}
           /\ (<<k>> \o q)[1] = k
<1> DEFINE r == <<k>> \o q
<1>1. Len(q) \in Nat /\ DOMAIN q = 1..Len(q)
  OBVIOUS
<1>2. /\ r \in Seq(S) /\ Len(r) = Len(q) + 1 /\ DOMAIN r = 1..(Len(q) + 1)
      /\ r[1] = k
      /\ \A j \in 1..Len(q) : r[j + 1] = q[j]
  OBVIOUS
<1> HIDE DEF r
<1>3. \A j \in 2..(Len(q) + 1) : j - 1 \in 1..Len(q) /\ r[j] = q[j - 1]
  <2> SUFFICES ASSUME NEW j \in 2..(Len(q) + 1)
               PROVE  j - 1 \in 1..Len(q) /\ r[j] = q[j - 1]
    OBVIOUS
  <2>1. j - 1 \in 1..Len(q) /\ (j - 1) + 1 = j
    BY <1>1
  <2> QED
    BY <1>2, <2>1
<1>4. \A j \in 1..Len(q) : q[j] # k
  BY <1>1 DEF ToSet
<1>5. Distinct(r)
  BY <1>1, <1>2, <1>3, <1>4 DEF Distinct
<1>6. ToSet(r) = ToSet(q) \cup {k}
  <2>1. ASSUME NEW x \in ToSet(r)
        PROVE  x \in ToSet(q) \cup {k}
    BY <1>1, <1>2, <1>3 DEF ToSet
  <2>2. ASSUME NEW x \in ToSet(q)
        PROVE  x \in ToSet(r)
    <3>1. PICK j \in 1..Len(q) : q[j] = x
      BY <1>1 DEF ToSet
    <3>2. j + 1 \in 1..(Len(q) + 1) /\ r[j + 1] = x
      BY <1>1, <1>2, <3>1
    <3> QED
      BY <1>2, <3>2 DEF ToSet
  <2>3. k \in ToSet(r)
    <3>1. 1 \in 1..(Len(q) + 1)
      BY <1>1
    <3> QED
      BY <1>2, <3>1 DEF ToSet
  <2> QED
    BY <2>1, <2>2, <2>3
<1> QED
  BY <1>1, <1>2, <1>5, <1>6 DEF r

\* What stays of a list that is cut at the back.
LEMMA PrefixIs ==
    ASSUME NEW S, NEW q \in Seq(S), Distinct(q), NEW n \in 0..Len(q)
    PROVE  /\ SubSeq(q, 1, n) \in Seq(S)
           /\ Distinct(SubSeq(q, 1, n))
           /\ Len(SubSeq(q, 1, n)) = n
           /\ ToSet(SubSeq(q, 1, n)) = ToSet(q) \ Behind(q, n)
           /\ Behind(q, n) \subseteq ToSet(q)
<1> DEFINE r == SubSeq(q, 1, n)
<1>1. Len(q) \in Nat /\ DOMAIN q = 1..Len(q)
  OBVIOUS
<1>2. /\ r \in Seq(S) /\ Len(r) = n /\ DOMAIN r = 1..n
      /\ \A j \in 1..n : r[j] = q[j]
  OBVIOUS
<1> HIDE DEF r
<1>3. Distinct(r)
  BY <1>1, <1>2 DEF Distinct
<1>4. Behind(q, n) \subseteq ToSet(q)
  BY <1>1 DEF Behind, ToSet
<1>5. ToSet(r) = ToSet(q) \ Behind(q, n)
  <2>1. ASSUME NEW x \in ToSet(r)
        PROVE  x \in ToSet(q) \ Behind(q, n)
    <3>1. PICK j \in 1..n : q[j] = x
      BY <1>2 DEF ToSet
    <3>2. j \in 1..Len(q) /\ \A i \in (n + 1)..Len(q) : i \in 1..Len(q) /\ i # j
      BY <1>1
    <3>3. x \notin Behind(q, n)
      BY <3>1, <3>2 DEF Behind, Distinct
    <3> QED
      BY <1>1, <3>1, <3>2, <3>3 DEF ToSet
  <2>2. ASSUME NEW x \in ToSet(q) \ Behind(q, n)
        PROVE  x \in ToSet(r)
    <3>1. PICK j \in 1..Len(q) : q[j] = x
      BY <1>1 DEF ToSet
    <3>2. j \in 1..n
      BY <1>1, <3>1 DEF Behind
    <3> QED
      BY <1>2, <3>1, <3>2 DEF ToSet
  <2> QED
    BY <2>1, <2>2
<1> QED
  BY <1>2, <1>3, <1>4, <1>5 DEF r

-----------------------------------------------------------------------------
Tables == [Keys -> Entries \cup {None}]

\* The keys of a shard that a table holds.
Held(tab, s) == {k \in Keys : ShardOf[k] = s /\ tab[k] # None}

\* A shard's list, account and table in step.
Kept(q, b, tab, s) ==
    /\ q \in Seq(Keys)
    /\ Distinct(q)
    /\ ToSet(q) = Held(tab, s)
    /\ b = SumFunctionOnSet(Sizes(tab), Held(tab, s))

\* Every key of a table has a size.
LEMMA SizesIs ==
    ASSUME NEW tab \in Tables
    PROVE  /\ Sizes(tab) \in [Keys -> Nat]
           /\ \A k \in Keys : tab[k] # None =>
                 tab[k].obj \in Objects /\ Sizes(tab)[k] = Size[tab[k].obj]
  BY CacheAssumption DEF Sizes, Tables, Entries

\* A shard's account is a natural number.
LEMMA AccountIs ==
    ASSUME NEW tab \in Tables, NEW S \in SUBSET Keys
    PROVE  IsFiniteSet(S) /\ SumFunctionOnSet(Sizes(tab), S) \in Nat
<1>1. IsFiniteSet(S)
  BY CacheAssumption, FS_Subset
<1>2. \A k \in S : Sizes(tab)[k] \in Nat
  BY SizesIs
<1> QED
  BY <1>1, <1>2, SumNat

\* The loop of evictOverLocked stops, at the first entry from the back at
\* which it may.
LEMMA LeftIs ==
    ASSUME NEW q \in Seq(Keys), NEW b, NEW tab, NEW share, NEW protect
    PROVE  LET n == Left(q, b, tab, share, protect)
           IN  /\ n \in 0..Len(q)
               /\ Stays(q, b, tab, share, protect, n)
               /\ \A m \in (n + 1)..Len(q) : ~Stays(q, b, tab, share, protect, m)
<1> DEFINE T == {n \in 0..Len(q) : Stays(q, b, tab, share, protect, n)}
           n == Left(q, b, tab, share, protect)
<1>1. Len(q) \in Nat
  OBVIOUS
<1>2. 0 \in T
  BY <1>1 DEF Stays
<1>3. n = Max(T)
  BY DEF Left
<1>4. n \in T /\ \A y \in T : y <= n
  <2>1. T \in SUBSET (0..Len(q)) /\ T # {}
    BY <1>2
  <2> HIDE DEF T, n
  <2> QED
    BY <1>1, <1>3, <2>1, MaxIs
<1> HIDE DEF n
<1>5. \A m \in (n + 1)..Len(q) : m \in 0..Len(q) /\ ~(m <= n)
  BY <1>1, <1>4
<1>6. \A m \in (n + 1)..Len(q) : m \notin T
  BY <1>4, <1>5
<1> QED
  BY <1>4, <1>5, <1>6 DEF n

\* Tables that agree on a shard's keys keep the shard in step.
LEMMA KeptSame ==
    ASSUME NEW s \in Shards, NEW q, NEW b, NEW tab \in Tables, NEW tab2 \in Tables,
           Kept(q, b, tab, s),
           \A k \in Keys : ShardOf[k] = s => tab2[k] = tab[k]
    PROVE  Kept(q, b, tab2, s)
<1>1. Held(tab2, s) = Held(tab, s)
  BY DEF Held
<1>2. \A k \in Held(tab, s) : Sizes(tab)[k] \in Int /\ Sizes(tab)[k] = Sizes(tab2)[k]
  BY SizesIs DEF Held, Sizes
<1>3. IsFiniteSet(Held(tab, s))
  BY AccountIs DEF Held
<1>4. SumFunctionOnSet(Sizes(tab), Held(tab, s)) = SumFunctionOnSet(Sizes(tab2), Held(tab, s))
  BY <1>2, <1>3, SumSame
<1> QED
  BY <1>1, <1>4 DEF Kept

\* Cutting a shard at the back, wherever, leaves it in step.
LEMMA KeptCut ==
    ASSUME NEW s \in Shards, NEW q, NEW b, NEW tab \in Tables, Kept(q, b, tab, s),
           NEW n \in 0..Len(q)
    PROVE  LET cut == [k \in Keys |-> IF k \in Behind(q, n) THEN None ELSE tab[k]]
           IN  /\ cut \in Tables
               /\ Kept(SubSeq(q, 1, n), BytesLeft(q, b, tab, n), cut, s)
<1> DEFINE cut == [k \in Keys |-> IF k \in Behind(q, n) THEN None ELSE tab[k]]
           r == SubSeq(q, 1, n)
<1>1. cut \in Tables
  BY DEF Tables
<1>2. /\ r \in Seq(Keys) /\ Distinct(r)
      /\ ToSet(r) = ToSet(q) \ Behind(q, n) /\ Behind(q, n) \subseteq ToSet(q)
  BY PrefixIs DEF Kept
<1>3. ToSet(q) = Held(tab, s)
  BY DEF Kept
<1>4. Held(cut, s) = Held(tab, s) \ Behind(q, n)
  BY DEF Held
<1>5. SumFunctionOnSet(Sizes(tab), Held(tab, s)) =
         SumFunctionOnSet(Sizes(tab), Held(cut, s)) + SumFunctionOnSet(Sizes(tab), Behind(q, n))
  <2>1. /\ Held(cut, s) \cup Behind(q, n) = Held(tab, s)
        /\ Held(cut, s) \cap Behind(q, n) = {}
    BY <1>2, <1>3, <1>4
  <2>2. IsFiniteSet(Held(cut, s)) /\ IsFiniteSet(Behind(q, n))
    BY <2>1, AccountIs DEF Held
  <2>3. \A k \in Held(cut, s) \cup Behind(q, n) : Sizes(tab)[k] \in Int
    <3>1. \A k \in Held(tab, s) : Sizes(tab)[k] \in Int
      BY SizesIs DEF Held
    <3> QED
      BY <2>1, <3>1
  <2> HIDE DEF cut
  <2> QED
    BY <2>1, <2>2, <2>3, SumUnion
<1>6. SumFunctionOnSet(Sizes(tab), Held(cut, s)) = SumFunctionOnSet(Sizes(cut), Held(cut, s))
  <2>1. IsFiniteSet(Held(cut, s))
    BY <1>1, AccountIs DEF Held
  <2>2. \A k \in Held(cut, s) : k \in Keys /\ cut[k] = tab[k]
    BY <1>4 DEF Held
  <2>3. \A k \in Held(cut, s) : Sizes(tab)[k] \in Int /\ Sizes(tab)[k] = Sizes(cut)[k]
    BY <2>2, SizesIs DEF Sizes
  <2> HIDE DEF cut
  <2> QED
    BY <2>1, <2>3, SumSame
<1>7. BytesLeft(q, b, tab, n) = SumFunctionOnSet(Sizes(cut), Held(cut, s))
  <2>1. b = SumFunctionOnSet(Sizes(tab), Held(tab, s))
    BY DEF Kept
  <2>2. /\ SumFunctionOnSet(Sizes(tab), Held(cut, s)) \in Nat
        /\ SumFunctionOnSet(Sizes(tab), Behind(q, n)) \in Nat
    BY <1>2, <1>3, AccountIs DEF Held
  <2> QED
    BY <1>5, <1>6, <2>1, <2>2 DEF BytesLeft
<1> QED
  BY <1>1, <1>2, <1>3, <1>4, <1>7 DEF Kept

\* What the loop leaves of a shard: it fits the share, unless it is empty or
\* the protected entry is the last one left.
LEMMA LeftFits ==
    ASSUME NEW s \in Shards, NEW q, NEW b, NEW tab \in Tables, Kept(q, b, tab, s),
           NEW share, NEW protect
    PROVE  LET n == Left(q, b, tab, share, protect)
           IN  \/ n = 0 /\ BytesLeft(q, b, tab, n) = 0
               \/ BytesLeft(q, b, tab, n) <= share
               \/ n \in 1..Len(q) /\ q[n] = protect
<1> DEFINE n == Left(q, b, tab, share, protect)
<1>1. q \in Seq(Keys) /\ Len(q) \in Nat
  BY DEF Kept
<1>2. n \in 0..Len(q) /\ Stays(q, b, tab, share, protect, n)
  BY <1>1, LeftIs
<1>3. CASE n = 0
  <2>1. Behind(q, 0) = Held(tab, s)
    BY <1>1 DEF Kept, Behind, ToSet
  <2>2. SumFunctionOnSet(Sizes(tab), Held(tab, s)) \in Nat
    BY AccountIs DEF Held
  <2>3. BytesLeft(q, b, tab, 0) = 0
    BY <2>1, <2>2 DEF BytesLeft, Kept
  <2> QED
    BY <1>3, <2>3
<1>4. CASE n # 0
  <2>1. n \in 1..Len(q)
    BY <1>1, <1>2, <1>4
  <2> QED
    BY <1>2, <2>1 DEF Stays
<1> QED
  BY <1>3, <1>4

-----------------------------------------------------------------------------
AllKept == \A s \in Shards : Kept(lru[s], bytes[s], items, s)

\* A larger budget has the larger shares.
LEMMA ShareMonotone ==
    ASSUME NEW a \in Nat, NEW b \in Nat, a <= b
    PROVE  Share(a) \in Nat /\ Share(a) <= Share(b)
<1>1. NShards \in Nat /\ NShards > 0
  BY CacheAssumption
<1>2. \A x \in Nat : x \div NShards \in Nat
  BY <1>1
<1> QED
  BY <1>1, <1>2 DEF Share

\* evictOverLocked leaves every shard in step, and the counters move with
\* the shard it works on.
LEMMA EvictOverKeeps ==
    ASSUME lru \in [Shards -> Seq(Keys)], bytes \in [Shards -> Nat],
           NEW s \in Shards, NEW q, NEW b, NEW tab \in Tables, Kept(q, b, tab, s),
           \A t \in Shards \ {s} : Kept(lru[t], bytes[t], tab, t),
           NEW share, NEW protect, NEW ec \in Int, NEW bc \in Int,
           EvictOver(s, q, b, tab, share, protect, ec, bc)
    PROVE  LET n == Left(q, b, tab, share, protect)
           IN  /\ n \in 0..Len(q)
               /\ items' = [k \in Keys |-> IF k \in Behind(q, n) THEN None ELSE tab[k]]
               /\ items' \in Tables
               /\ lru' \in [Shards -> Seq(Keys)] /\ bytes' \in [Shards -> Nat]
               /\ AllKept'
               /\ \A t \in Shards \ {s} : lru'[t] = lru[t] /\ bytes'[t] = bytes[t]
               /\ lru'[s] = SubSeq(q, 1, n) /\ Len(lru'[s]) = n
               /\ bytes'[s] = BytesLeft(q, b, tab, n)
               /\ entryCount' = ec - Len(q) + Len(lru'[s])
               /\ byteCount' = bc - b + bytes'[s]
<1> DEFINE n == Left(q, b, tab, share, protect)
           cut == [k \in Keys |-> IF k \in Behind(q, n) THEN None ELSE tab[k]]
           after == BytesLeft(q, b, tab, n)
<1>1. q \in Seq(Keys) /\ Len(q) \in Nat /\ b \in Nat
  BY AccountIs DEF Kept, Held
<1>2. n \in 0..Len(q)
  BY <1>1, LeftIs
<1>3. cut \in Tables /\ Kept(SubSeq(q, 1, n), after, cut, s)
  BY <1>2, KeptCut
<1>4. SubSeq(q, 1, n) \in Seq(Keys) /\ Len(SubSeq(q, 1, n)) = n /\ Behind(q, n) \subseteq ToSet(q)
  BY <1>1, <1>2, PrefixIs DEF Kept
<1>5. after \in Nat
  <2>1. after = SumFunctionOnSet(Sizes(cut), Held(cut, s))
    BY <1>3 DEF Kept
  <2>2. Held(cut, s) \in SUBSET Keys
    BY DEF Held
  <2> HIDE DEF after, cut
  <2> QED
    BY <1>3, <2>1, <2>2, AccountIs
<1>6. /\ lru' = [lru EXCEPT ![s] = SubSeq(q, 1, n)]
      /\ bytes' = [bytes EXCEPT ![s] = after]
      /\ items' = cut
      /\ entryCount' = ec - (Len(q) - n)
      /\ byteCount' = bc - (b - after)
  BY DEF EvictOver
<1> HIDE DEF n, cut, after
<1>7. lru' \in [Shards -> Seq(Keys)] /\ bytes' \in [Shards -> Nat]
  BY <1>4, <1>5, <1>6
<1>8. \A t \in Shards \ {s} : lru'[t] = lru[t] /\ bytes'[t] = bytes[t]
  BY <1>6
<1>9. lru'[s] = SubSeq(q, 1, n) /\ bytes'[s] = after
  BY <1>6
<1>10. AllKept'
  <2> SUFFICES ASSUME NEW t \in Shards
               PROVE  Kept(lru'[t], bytes'[t], items', t)
    BY DEF AllKept, Kept, Held, Sizes
  <2>1. CASE t = s
    BY <1>3, <1>6, <1>9, <2>1
  <2>2. CASE t # s
    <3>1. \A k \in Keys : ShardOf[k] = t => cut[k] = tab[k]
      <4>1. \A k \in Behind(q, n) : ShardOf[k] = s
        BY <1>4 DEF Kept, Held
      <4> QED
        BY <2>2, <4>1 DEF cut
    <3>2. Kept(lru[t], bytes[t], cut, t)
      BY <1>3, <2>2, <3>1, KeptSame
    <3> QED
      BY <1>6, <1>8, <2>2, <3>2
  <2> QED
    BY <2>1, <2>2
<1>11. entryCount' = ec - Len(q) + Len(lru'[s]) /\ byteCount' = bc - b + bytes'[s]
  BY <1>1, <1>2, <1>4, <1>5, <1>6, <1>9
<1> QED
  BY <1>2, <1>3, <1>4, <1>6, <1>7, <1>8, <1>9, <1>10, <1>11 DEF n, cut, after

-----------------------------------------------------------------------------
Lens(l) == [s \in Shards |-> Len(l[s])]

\* The totals over the shards move with the one shard that changes.
LEMMA TotalsMove ==
    ASSUME NEW l \in [Shards -> Seq(Keys)], NEW m \in [Shards -> Seq(Keys)],
           NEW b \in [Shards -> Nat], NEW d \in [Shards -> Nat], NEW s \in Shards,
           \A t \in Shards \ {s} : m[t] = l[t] /\ d[t] = b[t]
    PROVE  /\ SumFunction(Lens(l)) \in Nat /\ SumFunction(b) \in Nat
           /\ SumFunction(Lens(m)) \in Nat /\ SumFunction(d) \in Nat
           /\ SumFunction(Lens(m)) = SumFunction(Lens(l)) - Len(l[s]) + Len(m[s])
           /\ SumFunction(d) = SumFunction(b) - b[s] + d[s]
<1>1. IsFiniteSet(Shards)
  <2>1. 1 \in Int /\ NShards \in Int
    BY CacheAssumption
  <2> QED
    BY <2>1, FS_Interval DEF Shards
<1>2. Lens(l) \in [Shards -> Nat] /\ Lens(m) \in [Shards -> Nat]
  BY DEF Lens
<1>3. \A f \in [Shards -> Nat] : /\ SumFunction(f) = SumFunctionOnSet(f, Shards)
                                 /\ SumFunctionOnSet(f, Shards) \in Nat
  BY <1>1, SumDomain, SumNat
<1>4. SumFunctionOnSet(Lens(m), Shards) =
         SumFunctionOnSet(Lens(l), Shards) - Lens(l)[s] + Lens(m)[s]
  <2>1. \A t \in Shards : /\ Lens(l)[t] \in Int /\ Lens(m)[t] \in Int
                          /\ t # s => Lens(m)[t] = Lens(l)[t]
    BY DEF Lens
  <2> QED
    BY <1>1, <2>1, SumUpdate
<1>5. SumFunctionOnSet(d, Shards) = SumFunctionOnSet(b, Shards) - b[s] + d[s]
  <2>1. \A t \in Shards : b[t] \in Int /\ d[t] \in Int /\ (t # s => d[t] = b[t])
    OBVIOUS
  <2> QED
    BY <1>1, <2>1, SumUpdate
<1>6. Lens(l)[s] = Len(l[s]) /\ Lens(m)[s] = Len(m[s])
  BY DEF Lens
<1> QED
  BY <1>2, <1>3, <1>4, <1>5, <1>6

\* The callers that still owe the counters a removal, and how much.
Pending(cl) == {c \in Callers : cl[c].pc = "uncount"}
Owed(cl) == SumFunction([c \in Pending(cl) |-> cl[c].size])

\* Both are natural numbers.
LEMMA OwedIs ==
    ASSUME NEW cl \in [Callers -> Calls]
    PROVE  /\ IsFiniteSet(Pending(cl)) /\ Cardinality(Pending(cl)) \in Nat
           /\ \A c \in Pending(cl) : cl[c].size \in Nat
           /\ Owed(cl) = SumFunctionOnSet([c \in Pending(cl) |-> cl[c].size], Pending(cl))
           /\ Owed(cl) \in Nat
<1> DEFINE f == [c \in Pending(cl) |-> cl[c].size]
<1>1. IsFiniteSet(Pending(cl)) /\ Cardinality(Pending(cl)) \in Nat
  BY CacheAssumption, FS_Subset, FS_CardinalityType DEF Pending
<1>2. \A c \in Pending(cl) : cl[c].size \in Nat
  <2> SUFFICES ASSUME NEW c \in Pending(cl)
               PROVE  cl[c].size \in Nat
    OBVIOUS
  <2>1. cl[c] \in Calls /\ cl[c].pc = "uncount"
    BY DEF Pending
  <2>2. cl[c] \in [pc : {"uncount"}, size : {Size[o] : o \in Objects}]
    BY <2>1 DEF Calls, Idle
  <2> QED
    BY <2>2, CacheAssumption
<1>3. Owed(cl) = SumFunctionOnSet(f, Pending(cl))
  BY SumDomain DEF Owed
<1>4. \A c \in Pending(cl) : f[c] \in Nat
  BY <1>2
<1>5. SumFunctionOnSet(f, Pending(cl)) \in Nat
  <2> HIDE DEF f
  <2> QED
    BY <1>1, <1>4, SumNat
<1> QED
  BY <1>1, <1>2, <1>3, <1>5

\* A Get that removed an entry owes its size.
LEMMA OwedMore ==
    ASSUME NEW cl \in [Callers -> Calls], NEW cl2 \in [Callers -> Calls],
           NEW c \in Callers \ Pending(cl), c \in Pending(cl2),
           \A d \in Callers \ {c} : cl2[d] = cl[d]
    PROVE  /\ Cardinality(Pending(cl2)) = Cardinality(Pending(cl)) + 1
           /\ Owed(cl2) = Owed(cl) + cl2[c].size
<1> DEFINE f == [d \in Pending(cl) |-> cl[d].size]
           g == [d \in Pending(cl2) |-> cl2[d].size]
<1>1. Pending(cl2) = Pending(cl) \cup {c} /\ c \notin Pending(cl)
  BY DEF Pending
<1>2. IsFiniteSet(Pending(cl)) /\ \A d \in Pending(cl2) : g[d] = cl2[d].size /\ g[d] \in Int
  <2>1. IsFiniteSet(Pending(cl)) /\ \A d \in Pending(cl2) : cl2[d].size \in Nat
    BY OwedIs
  <2> QED
    BY <2>1
<1>3. \A d \in Pending(cl) : f[d] \in Int /\ f[d] = g[d]
  <2>1. \A d \in Pending(cl) : d \in Pending(cl2) /\ cl2[d] = cl[d]
    BY <1>1 DEF Pending
  <2>2. \A d \in Pending(cl) : cl[d].size \in Nat
    BY OwedIs
  <2> QED
    BY <2>1, <2>2
<1>4. SumFunctionOnSet(f, Pending(cl)) = SumFunctionOnSet(g, Pending(cl))
  <2> HIDE DEF f, g
  <2> QED
    BY <1>2, <1>3, SumSame
<1>5. SumFunctionOnSet(g, Pending(cl) \cup {c}) = SumFunctionOnSet(g, Pending(cl)) + g[c]
  <2> HIDE DEF f, g
  <2> QED
    BY <1>1, <1>2, SumAdd
<1>6. Owed(cl) = SumFunctionOnSet(f, Pending(cl)) /\ Owed(cl2) = SumFunctionOnSet(g, Pending(cl2))
  BY OwedIs
<1>7. Cardinality(Pending(cl) \cup {c}) = Cardinality(Pending(cl)) + 1
  BY <1>1, <1>2, FS_AddElement
<1> HIDE DEF f, g
<1> QED
  BY <1>1, <1>2, <1>4, <1>5, <1>6, <1>7

\* Callers that neither begin nor end to owe leave the debt as it is.
LEMMA OwedSame ==
    ASSUME NEW cl, NEW cl2, Pending(cl2) = Pending(cl),
           \A d \in Pending(cl) : cl2[d] = cl[d]
    PROVE  Owed(cl2) = Owed(cl)
  BY DEF Owed

-----------------------------------------------------------------------------
\* What the key k takes in a table: nothing when it is absent.
Taken(tab, k) == IF tab[k] # None THEN Size[tab[k].obj] ELSE 0

\* A key taken off its shard's list takes its size off the account.
LEMMA KeptUnlinked ==
    ASSUME NEW tab \in Tables, NEW k \in Keys, NEW q, NEW b, Kept(q, b, tab, ShardOf[k])
    PROVE  LET r == Unlinked(q, k)
               H == Held(tab, ShardOf[k]) \ {k}
           IN  /\ r \in Seq(Keys) /\ Distinct(r) /\ ToSet(r) = H
               /\ Len(r) = IF tab[k] # None THEN Len(q) - 1 ELSE Len(q)
               /\ b \in Nat /\ Taken(tab, k) \in Nat
               /\ SumFunctionOnSet(Sizes(tab), H) = b - Taken(tab, k)
               /\ SumFunctionOnSet(Sizes(tab), H) \in Nat
<1> DEFINE r == Unlinked(q, k)
           s == ShardOf[k]
           H == Held(tab, s) \ {k}
<1>1. q \in Seq(Keys) /\ Distinct(q) /\ ToSet(q) = Held(tab, s)
  BY DEF Kept
<1>2. r \in Seq(Keys) /\ Distinct(r) /\ ToSet(r) = H
  BY <1>1, UnlinkedIs
<1>3. Held(tab, s) \in SUBSET Keys /\ H \in SUBSET Keys
  BY DEF Held
<1>4. /\ b = SumFunctionOnSet(Sizes(tab), Held(tab, s)) /\ b \in Nat
      /\ SumFunctionOnSet(Sizes(tab), H) \in Nat
  BY <1>3, AccountIs DEF Kept
<1>5. /\ IsFiniteSet(Held(tab, s))
      /\ Len(q) = Cardinality(Held(tab, s)) /\ Len(r) = Cardinality(H)
  BY <1>1, <1>2, DistinctCount
<1>6. Len(q) \in Nat /\ Taken(tab, k) \in Nat
  BY <1>1, SizesIs DEF Taken
<1>7. CASE tab[k] # None
  <2>1. k \in Held(tab, s)
    BY <1>7 DEF Held
  <2>2. \A x \in Held(tab, s) : Sizes(tab)[x] \in Int
    BY <1>3, SizesIs
  <2>3. SumFunctionOnSet(Sizes(tab), Held(tab, s)) =
           SumFunctionOnSet(Sizes(tab), H) + Sizes(tab)[k]
    BY <1>5, <2>1, <2>2, SumRemove
  <2>4. Sizes(tab)[k] = Taken(tab, k)
    BY <1>7, SizesIs DEF Taken
  <2>5. Len(r) = Len(q) - 1
    BY <1>5, <2>1, FS_RemoveElement
  <2> QED
    BY <1>2, <1>4, <1>6, <1>7, <2>3, <2>4, <2>5
<1>8. CASE tab[k] = None
  <2>1. H = Held(tab, s)
    BY <1>8 DEF Held
  <2>2. Taken(tab, k) = 0 /\ b - Taken(tab, k) = b
    BY <1>4, <1>8 DEF Taken
  <2>3. SumFunctionOnSet(Sizes(tab), H) = b - Taken(tab, k)
    BY <1>4, <2>1, <2>2
  <2>4. Len(r) = Len(q)
    BY <1>5, <2>1
  <2> HIDE DEF r, H, s
  <2> QED
    BY <1>2, <1>4, <1>6, <1>8, <2>3, <2>4 DEF r, H, s
<1> QED
  BY <1>7, <1>8

\* An entry put at the front, over or without an earlier one, keeps its
\* shard in step.
LEMMA KeptPlaced ==
    ASSUME NEW tab \in Tables, NEW k \in Keys, NEW q, NEW b, Kept(q, b, tab, ShardOf[k]),
           NEW e \in Entries
    PROVE  LET r == <<k>> \o Unlinked(q, k)
               t == [tab EXCEPT ![k] = e]
           IN  /\ t \in Tables
               /\ Kept(r, b - Taken(tab, k) + Size[e.obj], t, ShardOf[k])
               /\ Len(r) = IF tab[k] # None THEN Len(q) ELSE Len(q) + 1
               /\ Len(r) \in Nat \ {0} /\ r[1] = k
<1> DEFINE u == Unlinked(q, k)
           r == <<k>> \o u
           s == ShardOf[k]
           H == Held(tab, s) \ {k}
           t == [tab EXCEPT ![k] = e]
<1>1. /\ u \in Seq(Keys) /\ Distinct(u) /\ ToSet(u) = H
      /\ Len(u) = IF tab[k] # None THEN Len(q) - 1 ELSE Len(q)
      /\ b \in Nat /\ Taken(tab, k) \in Nat
      /\ SumFunctionOnSet(Sizes(tab), H) = b - Taken(tab, k)
      /\ SumFunctionOnSet(Sizes(tab), H) \in Nat
  BY KeptUnlinked
<1> HIDE DEF u
<1>2. k \notin ToSet(u)
  BY <1>1
<1>3. /\ r \in Seq(Keys) /\ Distinct(r) /\ ToSet(r) = ToSet(u) \cup {k}
      /\ Len(r) \in Nat \ {0} /\ r[1] = k
  BY <1>1, <1>2, PushedIs
<1>4. q \in Seq(Keys) /\ Len(q) \in Nat /\ Len(u) \in Nat /\ Len(r) = Len(u) + 1
  BY <1>1 DEF Kept
<1>5. e # None /\ e.obj \in Objects /\ Size[e.obj] \in Nat
  BY CacheAssumption DEF Entries
<1>6. t \in Tables /\ t[k] = e /\ \A x \in Keys \ {k} : t[x] = tab[x]
  BY DEF Tables
<1> HIDE DEF r, t
<1>7. Held(t, s) = H \cup {k}
  BY <1>5, <1>6 DEF Held
<1>8. SumFunctionOnSet(Sizes(t), H \cup {k}) = b - Taken(tab, k) + Size[e.obj]
  <2>1. H \in SUBSET Keys /\ k \notin H
    BY DEF Held
  <2>2. IsFiniteSet(H)
    BY <2>1, AccountIs
  <2>3. \A x \in H \cup {k} : Sizes(t)[x] \in Int
    BY <1>6, <2>1, SizesIs
  <2>4. SumFunctionOnSet(Sizes(t), H \cup {k}) = SumFunctionOnSet(Sizes(t), H) + Sizes(t)[k]
    BY <2>1, <2>2, <2>3, SumAdd
  <2>5. Sizes(t)[k] = Size[e.obj]
    BY <1>5, <1>6, SizesIs
  <2>6. \A x \in H : Sizes(tab)[x] \in Int /\ Sizes(tab)[x] = Sizes(t)[x]
    BY <1>6, <2>1, SizesIs DEF Sizes
  <2>7. SumFunctionOnSet(Sizes(tab), H) = SumFunctionOnSet(Sizes(t), H)
    BY <2>2, <2>6, SumSame
  <2> QED
    BY <1>1, <2>4, <2>5, <2>7
<1>9. Kept(r, b - Taken(tab, k) + Size[e.obj], t, s)
  BY <1>1, <1>3, <1>7, <1>8 DEF Kept
<1>10. Len(r) = IF tab[k] # None THEN Len(q) ELSE Len(q) + 1
  BY <1>1, <1>4
<1> QED
  BY <1>3, <1>6, <1>9, <1>10 DEF r, t, u

\* An entry removed from the map, the list and the account keeps its shard
\* in step.
LEMMA RemoveKeeps ==
    ASSUME items \in Tables, lru \in [Shards -> Seq(Keys)], bytes \in [Shards -> Nat],
           AllKept, NEW k \in Keys, items[k] # None, RemoveLocked(k)
    PROVE  /\ items' \in Tables /\ lru' \in [Shards -> Seq(Keys)] /\ bytes' \in [Shards -> Nat]
           /\ AllKept'
           /\ \A t \in Shards \ {ShardOf[k]} : lru'[t] = lru[t] /\ bytes'[t] = bytes[t]
           /\ Len(lru'[ShardOf[k]]) = Len(lru[ShardOf[k]]) - 1
           /\ bytes'[ShardOf[k]] = bytes[ShardOf[k]] - SizeOf(k)
           /\ SizeOf(k) \in Nat
<1> DEFINE s == ShardOf[k]
           q == lru[s]
           r == Unlinked(q, k)
           H == Held(items, s) \ {k}
<1>1. s \in Shards
  BY CacheAssumption
<1>2. /\ r \in Seq(Keys) /\ Distinct(r) /\ ToSet(r) = H
      /\ Len(r) = Len(q) - 1
      /\ SizeOf(k) \in Nat
      /\ SumFunctionOnSet(Sizes(items), H) = bytes[s] - SizeOf(k)
      /\ SumFunctionOnSet(Sizes(items), H) \in Nat
  <2>1. Kept(q, bytes[s], items, s)
    BY <1>1 DEF AllKept
  <2>2. Taken(items, k) = SizeOf(k)
    BY DEF Taken, SizeOf
  <2> QED
    BY <2>1, <2>2, KeptUnlinked
<1>3. /\ items' = [items EXCEPT ![k] = None]
      /\ lru' = [lru EXCEPT ![s] = r]
      /\ bytes' = [bytes EXCEPT ![s] = bytes[s] - SizeOf(k)]
  BY DEF RemoveLocked
<1> HIDE DEF r
<1>4. items' \in Tables /\ items'[k] = None /\ \A x \in Keys \ {k} : items'[x] = items[x]
  BY <1>3 DEF Tables
<1>5. lru' \in [Shards -> Seq(Keys)] /\ bytes' \in [Shards -> Nat]
  <2>1. bytes[s] - SizeOf(k) \in Nat
    BY <1>2
  <2> QED
    BY <1>2, <1>3, <2>1
<1>6. /\ lru'[s] = r /\ bytes'[s] = bytes[s] - SizeOf(k)
      /\ \A t \in Shards \ {s} : lru'[t] = lru[t] /\ bytes'[t] = bytes[t]
  BY <1>1, <1>3
<1>7. AllKept'
  <2> SUFFICES ASSUME NEW t \in Shards
               PROVE  Kept(lru'[t], bytes'[t], items', t)
    BY DEF AllKept, Kept, Held, Sizes
  <2>1. CASE t = s
    <3>1. Held(items', s) = H
      BY <1>4 DEF Held
    <3>2. SumFunctionOnSet(Sizes(items), H) = SumFunctionOnSet(Sizes(items'), H)
      <4>1. H \in SUBSET Keys /\ k \notin H
        BY DEF Held
      <4>2. IsFiniteSet(H)
        BY <4>1, AccountIs
      <4>3. \A x \in H : Sizes(items)[x] \in Int /\ Sizes(items)[x] = Sizes(items')[x]
        BY <1>4, <4>1, SizesIs DEF Sizes
      <4> QED
        BY <4>2, <4>3, SumSame
    <3> QED
      BY <1>2, <1>6, <2>1, <3>1, <3>2 DEF Kept
  <2>2. CASE t # s
    <3>1. \A x \in Keys : ShardOf[x] = t => items'[x] = items[x]
      BY <1>4, <2>2
    <3>2. Kept(lru[t], bytes[t], items', t)
      BY <1>4, <3>1, KeptSame DEF AllKept
    <3> QED
      BY <1>6, <2>2, <3>2
  <2> QED
    BY <2>1, <2>2
<1> QED
  BY <1>2, <1>4, <1>5, <1>6, <1>7

-----------------------------------------------------------------------------
\* A Set under way was not refused: its object fits the budget it loaded.
Fits == \A c \in Callers : call[c].pc = "set" => Size[call[c].obj] <= call[c].budget

\* The counters' account of the entries, the bytes and the removals to come.
Counted == /\ entryCount = SumFunction(Lens(lru)) + Cardinality(Pending(call))
           /\ byteCount = SumFunction(bytes) + Owed(call)

IInv == TypeOK /\ AllKept /\ Counted /\ ShardBounded /\ Fits

\* What is checked of the shards follows from the lists being in step.
LEMMA KeptIsConsistent ==
    ASSUME TypeOK, AllKept
    PROVE  ShardsConsistent
<1> SUFFICES ASSUME NEW s \in Shards
             PROVE  /\ ToSet(lru[s]) = Stored(s)
                    /\ Len(lru[s]) = Cardinality(Stored(s))
                    /\ bytes[s] = SumFunctionOnSet(Sizes(items), Stored(s))
  BY DEF ShardsConsistent
<1>1. Kept(lru[s], bytes[s], items, s)
  BY DEF AllKept
<1>2. Held(items, s) = Stored(s)
  BY DEF Held, Stored
<1>3. Len(lru[s]) = Cardinality(Stored(s))
  BY <1>1, <1>2, DistinctCount DEF Kept
<1> QED
  BY <1>1, <1>2, <1>3 DEF Kept

\* The two accounts of the counters are one.
LEMMA CountedIsExact == CountersExact <=> Counted
  BY DEF CountersExact, Counted, Uncounting, Pending, Owed, Lens

\* The types in the words of these proofs.
LEMMA Typed ==
    ASSUME TypeOK
    PROVE  /\ items \in Tables /\ lru \in [Shards -> Seq(Keys)] /\ bytes \in [Shards -> Nat]
           /\ call \in [Callers -> Calls] /\ budget \in Nat /\ budget <= Target
           /\ \A c \in Callers : call[c].pc = "set" =>
                 /\ call[c].key \in Keys /\ call[c].obj \in Objects
                 /\ call[c].budget \in Nat /\ call[c].budget <= Target
<1>1. Budgets \in SUBSET Nat /\ \A b \in Budgets : b <= Target
  BY CacheAssumption DEF Budgets
<1>2. ASSUME NEW c \in Callers, call[c].pc = "set"
      PROVE  call[c] \in [pc : {"set"}, key : Keys, obj : Objects, budget : Budgets]
  BY <1>2 DEF TypeOK, Calls, Idle
<1> QED
  BY <1>1, <1>2 DEF TypeOK, Tables

\* A step in which one shard, at most, changes its list and its account, and
\* one caller, at most, its debt, leaves the counters exact when they move by
\* what the shard and the debt do.
LEMMA CountersMove ==
    ASSUME TypeOK, Counted,
           lru' \in [Shards -> Seq(Keys)], bytes' \in [Shards -> Nat],
           NEW s \in Shards,
           \A t \in Shards \ {s} : lru'[t] = lru[t] /\ bytes'[t] = bytes[t],
           call' \in [Callers -> Calls],
           NEW n \in Int, NEW x \in Int,
           Cardinality(Pending(call')) = Cardinality(Pending(call)) + n,
           Owed(call') = Owed(call) + x,
           entryCount' = entryCount - Len(lru[s]) + Len(lru'[s]) + n,
           byteCount' = byteCount - bytes[s] + bytes'[s] + x
    PROVE  Counted' /\ entryCount' \in Nat /\ byteCount' \in Nat
<1>1. /\ SumFunction(Lens(lru)) \in Nat /\ SumFunction(bytes) \in Nat
      /\ SumFunction(Lens(lru')) \in Nat /\ SumFunction(bytes') \in Nat
      /\ SumFunction(Lens(lru')) = SumFunction(Lens(lru)) - Len(lru[s]) + Len(lru'[s])
      /\ SumFunction(bytes') = SumFunction(bytes) - bytes[s] + bytes'[s]
  BY TotalsMove DEF TypeOK
<1>2. /\ Cardinality(Pending(call)) \in Nat /\ Owed(call) \in Nat
      /\ Cardinality(Pending(call')) \in Nat /\ Owed(call') \in Nat
  BY OwedIs DEF TypeOK
<1>3. /\ Len(lru[s]) \in Nat /\ Len(lru'[s]) \in Nat
      /\ bytes[s] \in Nat /\ bytes'[s] \in Nat
  BY DEF TypeOK
<1>4. /\ entryCount = SumFunction(Lens(lru)) + Cardinality(Pending(call))
      /\ byteCount = SumFunction(bytes) + Owed(call)
  BY DEF Counted
<1> DEFINE L == SumFunction(Lens(lru))
           L1 == SumFunction(Lens(lru'))
           B == SumFunction(bytes)
           B1 == SumFunction(bytes')
           P == Cardinality(Pending(call))
           P1 == Cardinality(Pending(call'))
           O == Owed(call)
           O1 == Owed(call')
           l == Len(lru[s])
           l1 == Len(lru'[s])
           b == bytes[s]
           b1 == bytes'[s]
<1>5. /\ L \in Nat /\ L1 \in Nat /\ B \in Nat /\ B1 \in Nat
      /\ P \in Nat /\ P1 \in Nat /\ O \in Nat /\ O1 \in Nat
      /\ l \in Nat /\ l1 \in Nat /\ b \in Nat /\ b1 \in Nat
      /\ L1 = L - l + l1 /\ B1 = B - b + b1
      /\ P1 = P + n /\ O1 = O + x
      /\ entryCount = L + P /\ byteCount = B + O
      /\ entryCount' = entryCount - l + l1 + n
      /\ byteCount' = byteCount - b + b1 + x
  BY <1>1, <1>2, <1>3, <1>4
<1>6. /\ entryCount' = L1 + P1 /\ byteCount' = B1 + O1
      /\ entryCount' \in Nat /\ byteCount' \in Nat
  <2> HIDE DEF L, L1, B, B1, P, P1, O, O1, l, l1, b, b1
  <2>1. n \in Int /\ x \in Int
    OBVIOUS
  <2>2. entryCount' = (L + P) - l + l1 + n /\ byteCount' = (B + O) - b + b1 + x
    BY <1>5
  <2>3. /\ (L + P) - l + l1 + n = (L - l + l1) + (P + n)
        /\ (B + O) - b + b1 + x = (B - b + b1) + (O + x)
    BY <1>5, <2>1
  <2>4. entryCount' = L1 + P1 /\ byteCount' = B1 + O1
    BY <1>5, <2>2, <2>3
  <2>5. L1 + P1 \in Nat /\ B1 + O1 \in Nat
    BY <1>5
  <2> QED
    BY <2>4, <2>5
<1>7. Counted'
  BY <1>6 DEF Counted, Lens, Pending, Owed
<1> QED
  BY <1>6, <1>7

\* A caller that neither begins nor ends to owe changes no debt.
LEMMA DebtSame ==
    ASSUME TypeOK, call' \in [Callers -> Calls], Pending(call') = Pending(call),
           \A d \in Pending(call) : call'[d] = call[d]
    PROVE  /\ Cardinality(Pending(call')) = Cardinality(Pending(call)) + 0
           /\ Owed(call') = Owed(call) + 0
<1>1. Owed(call') = Owed(call)
  BY OwedSame
<1>2. Cardinality(Pending(call)) \in Nat /\ Owed(call) \in Nat
  BY OwedIs DEF TypeOK
<1> QED
  BY <1>1, <1>2

-----------------------------------------------------------------------------
\* At the start everything is empty.
LEMMA InitIInv == Init => IInv
<1> SUFFICES ASSUME Init
             PROVE  IInv
  OBVIOUS
<1>0. IsFiniteSet(Shards)
  <2>1. 1 \in Int /\ NShards \in Int
    BY CacheAssumption
  <2> QED
    BY <2>1, FS_Interval DEF Shards
<1>1. TypeOK
  <2>1. Target \in Budgets /\ NShards + 1 \in 1..(NShards + 1)
    BY CacheAssumption DEF Budgets
  <2>2. sweep \in Sweeps
    BY <2>1 DEF Init, Sweeps
  <2>3. lru \in [Shards -> Seq(Keys)]
    BY DEF Init
  <2> QED
    BY <2>1, <2>2, <2>3 DEF Init, TypeOK, Calls
<1>2. AllKept
  <2> SUFFICES ASSUME NEW s \in Shards
               PROVE  Kept(lru[s], bytes[s], items, s)
    BY DEF AllKept
  <2>1. lru[s] = <<>> /\ bytes[s] = 0 /\ Held(items, s) = {}
    BY DEF Init, Held
  <2>2. <<>> \in Seq(Keys) /\ Distinct(<<>>) /\ ToSet(<<>>) = {}
    BY DEF Distinct, ToSet
  <2> QED
    BY <2>1, <2>2, SumEmpty DEF Kept
<1>3. Counted
  <2>1. SumFunction(Lens(lru)) = 0
    <3>1. DOMAIN Lens(lru) = Shards /\ \A s \in Shards : Lens(lru)[s] = 0
      BY DEF Init, Lens
    <3> QED
      BY <1>0, <3>1, SumDomain, SumZero
  <2>2. SumFunction(bytes) = 0
    <3>1. DOMAIN bytes = Shards /\ \A s \in Shards : bytes[s] = 0
      BY DEF Init
    <3> QED
      BY <1>0, <3>1, SumDomain, SumZero
  <2>3. Pending(call) = {}
    BY DEF Init, Pending, Idle
  <2>4. Cardinality(Pending(call)) = 0 /\ Owed(call) = 0
    <3>1. Owed(call) = SumFunctionOnSet([c \in Pending(call) |-> call[c].size], Pending(call))
      BY <1>1, OwedIs DEF TypeOK
    <3> QED
      BY <2>3, <3>1, SumEmpty, FS_EmptySet
  <2>5. entryCount = 0 /\ byteCount = 0
    BY DEF Init
  <2> QED
    BY <2>1, <2>2, <2>4, <2>5 DEF Counted
<1>4. ShardBounded
  <2>1. 0 \in Nat /\ Target \in Nat /\ 0 <= Target
    BY CacheAssumption
  <2>2. Share(Target) \in Nat
    BY <2>1, ShareMonotone
  <2> QED
    BY <2>2 DEF Init, ShardBounded
<1>5. Fits
  BY DEF Init, Fits, Idle
<1> QED
  BY <1>1, <1>2, <1>3, <1>4, <1>5 DEF IInv

-----------------------------------------------------------------------------
\* An empty list has an empty account.
LEMMA EmptyIsZero ==
    ASSUME NEW q, NEW b, NEW tab, NEW s, Kept(q, b, tab, s), Len(q) = 0
    PROVE  b = 0
<1>1. q \in Seq(Keys) /\ ToSet(q) = {}
  BY DEF Kept, ToSet
<1> QED
  BY <1>1, SumEmpty DEF Kept

\* A removal does not take a shard over its bound.
LEMMA RemoveBounded ==
    ASSUME IInv, NEW k \in Keys, items[k] # None, RemoveLocked(k)
    PROVE  ShardBounded'
<1>1. /\ lru' \in [Shards -> Seq(Keys)] /\ bytes' \in [Shards -> Nat]
      /\ AllKept'
      /\ \A t \in Shards \ {ShardOf[k]} : lru'[t] = lru[t] /\ bytes'[t] = bytes[t]
      /\ Len(lru'[ShardOf[k]]) = Len(lru[ShardOf[k]]) - 1
      /\ bytes'[ShardOf[k]] = bytes[ShardOf[k]] - SizeOf(k)
      /\ SizeOf(k) \in Nat
  BY Typed, RemoveKeeps DEF IInv
<1> SUFFICES ASSUME NEW s \in Shards
             PROVE  bytes'[s] <= Share(Target) \/ (Len(lru'[s]) = 1 /\ bytes'[s] <= Target)
  BY DEF ShardBounded
<1>2. bytes[s] <= Share(Target) \/ (Len(lru[s]) = 1 /\ bytes[s] <= Target)
  BY DEF IInv, ShardBounded
<1>3. Share(Target) \in Nat
  BY CacheAssumption, ShareMonotone
<1>4. CASE s # ShardOf[k]
  BY <1>1, <1>2, <1>4
<1>5. CASE s = ShardOf[k] /\ bytes[s] <= Share(Target)
  <2>1. bytes[s] \in Nat /\ bytes'[s] = bytes[s] - SizeOf(k)
    BY <1>1, <1>5, Typed DEF IInv
  <2> QED
    BY <1>1, <1>3, <1>5, <2>1
<1>6. CASE s = ShardOf[k] /\ Len(lru[s]) = 1
  <2>1. Len(lru'[s]) = 0
    BY <1>1, <1>6
  <2>2. Kept(lru'[s], bytes'[s], items', s)
    BY <1>1 DEF AllKept, Kept, Held, Sizes
  <2>3. bytes'[s] = 0
    BY <2>1, <2>2, EmptyIsZero
  <2> QED
    BY <1>3, <2>3
<1> QED
  BY <1>2, <1>4, <1>5, <1>6

\* A Get that hits.
LEMMA GetHitKeeps ==
    ASSUME IInv, NEW c \in Callers, NEW k \in Keys, GetHit(c, k)
    PROVE  IInv'
<1> USE DEF IInv
<1> DEFINE s == ShardOf[k]
           r == <<k>> \o Unlinked(lru[s], k)
<1>0. s \in Shards /\ items \in Tables /\ items[k] \in Entries
  BY CacheAssumption, Typed DEF GetHit, Tables
<1>1. Kept(r, bytes[s], items, s) /\ Len(r) = Len(lru[s])
  <2>1. [items EXCEPT ![k] = items[k]] = items
    BY <1>0 DEF Tables
  <2>2. /\ Kept(r, bytes[s] - Taken(items, k) + Size[items[k].obj], items, s)
        /\ Len(r) = Len(lru[s])
    <3> DEFINE e == items[k]
    <3>1. Kept(lru[s], bytes[s], items, s) /\ e \in Entries /\ e # None
      BY <1>0 DEF AllKept, GetHit
    <3> HIDE DEF e
    <3>2. /\ Kept(r, bytes[s] - Taken(items, k) + Size[e.obj], [items EXCEPT ![k] = e], s)
          /\ Len(r) = IF items[k] # None THEN Len(lru[s]) ELSE Len(lru[s]) + 1
      BY <1>0, <3>1, KeptPlaced
    <3> QED
      BY <2>1, <3>1, <3>2 DEF e
  <2>3. Taken(items, k) = Size[items[k].obj] /\ Taken(items, k) \in Nat /\ bytes[s] \in Nat
    BY <1>0, CacheAssumption, Typed DEF Taken, GetHit, Entries
  <2>4. bytes[s] - Taken(items, k) + Size[items[k].obj] = bytes[s]
    BY <2>3
  <2> QED
    BY <2>2, <2>4
<1>2. /\ lru' = [lru EXCEPT ![s] = r]
      /\ UNCHANGED <<items, bytes, entryCount, byteCount, budget, call, sweep, avail>>
  BY DEF GetHit
<1> HIDE DEF r
<1>3. /\ lru' \in [Shards -> Seq(Keys)] /\ lru'[s] = r
      /\ \A t \in Shards \ {s} : lru'[t] = lru[t]
  BY <1>0, <1>1, <1>2, Typed DEF Kept
<1>4. TypeOK'
  BY <1>2, <1>3 DEF TypeOK
<1>5. AllKept'
  <2> SUFFICES ASSUME NEW t \in Shards
               PROVE  Kept(lru'[t], bytes'[t], items', t)
    BY DEF AllKept, Kept, Held, Sizes
  <2>1. bytes' = bytes /\ items' = items
    BY <1>2
  <2> QED
    BY <1>1, <1>3, <2>1 DEF AllKept
<1>6. Counted'
  <2>1. Lens(lru') = Lens(lru)
    <3>1. \A t \in Shards : Len(lru'[t]) = Len(lru[t])
      BY <1>1, <1>3
    <3> QED
      BY <3>1 DEF Lens
  <2>2. Counted' <=> /\ entryCount' = SumFunction(Lens(lru')) + Cardinality(Pending(call'))
                     /\ byteCount' = SumFunction(bytes') + Owed(call')
    BY DEF Counted, Lens, Pending, Owed
  <2> QED
    BY <1>2, <2>1, <2>2 DEF Counted
<1>7. ShardBounded'
  BY <1>1, <1>2, <1>3 DEF ShardBounded
<1>8. Fits'
  BY <1>2 DEF Fits
<1> QED
  BY <1>4, <1>5, <1>6, <1>7, <1>8

\* A Get that removes a spent entry and has not subtracted it yet.
LEMMA GetSpentKeeps ==
    ASSUME IInv, NEW c \in Callers, NEW k \in Keys, GetSpent(c, k)
    PROVE  IInv'
<1> USE DEF IInv
<1> DEFINE s == ShardOf[k]
<1>0. s \in Shards /\ items[k] \in Entries /\ items[k] # None /\ RemoveLocked(k)
  BY CacheAssumption, Typed DEF GetSpent, Tables
<1>1. /\ items' \in Tables /\ lru' \in [Shards -> Seq(Keys)] /\ bytes' \in [Shards -> Nat]
      /\ AllKept'
      /\ \A t \in Shards \ {s} : lru'[t] = lru[t] /\ bytes'[t] = bytes[t]
      /\ Len(lru'[s]) = Len(lru[s]) - 1
      /\ bytes'[s] = bytes[s] - SizeOf(k)
      /\ SizeOf(k) \in Nat
  BY <1>0, Typed, RemoveKeeps
<1>2. /\ call[c] = Idle
      /\ call' = [call EXCEPT ![c] = [pc |-> "uncount", size |-> SizeOf(k)]]
      /\ UNCHANGED <<entryCount, byteCount, budget, sweep, avail>>
  BY DEF GetSpent
<1>3. call' \in [Callers -> Calls] /\ call \in [Callers -> Calls]
  <2>1. SizeOf(k) \in {Size[o] : o \in Objects}
    BY <1>0 DEF SizeOf, Entries
  <2>2. [pc |-> "uncount", size |-> SizeOf(k)] \in Calls
    BY <2>1 DEF Calls
  <2> QED
    BY <1>2, <2>2, Typed
<1>4. /\ call'[c].pc = "uncount" /\ call'[c].size = SizeOf(k)
      /\ \A d \in Callers \ {c} : call'[d] = call[d]
  BY <1>2, <1>3
<1>5. /\ Cardinality(Pending(call')) = Cardinality(Pending(call)) + 1
      /\ Owed(call') = Owed(call) + SizeOf(k)
  <2>1. c \in Callers \ Pending(call) /\ c \in Pending(call')
    BY <1>2, <1>4 DEF Pending, Idle
  <2> QED
    BY <1>3, <1>4, <2>1, OwedMore
<1>6. Counted' /\ entryCount' \in Nat /\ byteCount' \in Nat
  <2>1. /\ entryCount \in Nat /\ byteCount \in Nat
        /\ Len(lru[s]) \in Nat /\ bytes[s] \in Nat
    BY <1>0 DEF TypeOK
  <2>2. entryCount' = entryCount - Len(lru[s]) + Len(lru'[s]) + 1
    BY <1>1, <1>2, <2>1
  <2>3. byteCount' = byteCount - bytes[s] + bytes'[s] + SizeOf(k)
    BY <1>1, <1>2, <2>1
  <2>4. 1 \in Int /\ SizeOf(k) \in Int
    BY <1>1
  <2> QED
    BY <1>0, <1>1, <1>3, <1>5, <2>2, <2>3, <2>4, CountersMove
<1>7. TypeOK'
  BY <1>1, <1>2, <1>3, <1>6 DEF TypeOK, Tables
<1>8. ShardBounded'
  BY <1>0, RemoveBounded
<1>9. Fits'
  BY <1>4 DEF Fits
<1> QED
  BY <1>1, <1>6, <1>7, <1>8, <1>9

\* A Delete.
LEMMA DeleteKeeps ==
    ASSUME IInv, NEW k \in Keys, Delete(k)
    PROVE  IInv'
<1> USE DEF IInv
<1> DEFINE s == ShardOf[k]
<1>0. s \in Shards /\ items[k] # None /\ RemoveLocked(k)
  BY CacheAssumption DEF Delete
<1>1. /\ items' \in Tables /\ lru' \in [Shards -> Seq(Keys)] /\ bytes' \in [Shards -> Nat]
      /\ AllKept'
      /\ \A t \in Shards \ {s} : lru'[t] = lru[t] /\ bytes'[t] = bytes[t]
      /\ Len(lru'[s]) = Len(lru[s]) - 1
      /\ bytes'[s] = bytes[s] - SizeOf(k)
      /\ SizeOf(k) \in Nat
  BY <1>0, Typed, RemoveKeeps
<1>2. /\ entryCount' = entryCount - 1
      /\ byteCount' = byteCount - SizeOf(k)
      /\ UNCHANGED <<budget, call, sweep, avail>>
  BY DEF Delete
<1>3. call' \in [Callers -> Calls] /\ call' = call
  BY <1>2, Typed
<1>4. /\ Cardinality(Pending(call')) = Cardinality(Pending(call)) + 0
      /\ Owed(call') = Owed(call) + 0
  BY <1>3, DebtSame
<1>5. Counted' /\ entryCount' \in Nat /\ byteCount' \in Nat
  <2>1. /\ entryCount \in Nat /\ byteCount \in Nat
        /\ Len(lru[s]) \in Nat /\ bytes[s] \in Nat
    BY <1>0 DEF TypeOK
  <2>2. entryCount' = entryCount - Len(lru[s]) + Len(lru'[s]) + 0
    BY <1>1, <1>2, <2>1
  <2>3. byteCount' = byteCount - bytes[s] + bytes'[s] + 0
    BY <1>1, <1>2, <2>1
  <2>4. 0 \in Int
    OBVIOUS
  <2> QED
    BY <1>0, <1>1, <1>3, <1>4, <2>2, <2>3, <2>4, CountersMove
<1>6. TypeOK'
  BY <1>1, <1>2, <1>5 DEF TypeOK, Tables
<1>7. ShardBounded'
  BY <1>0, RemoveBounded
<1>8. Fits'
  BY <1>2 DEF Fits
<1> QED
  BY <1>1, <1>5, <1>6, <1>7, <1>8

-----------------------------------------------------------------------------
\* What SetStore hands to evictOverLocked: the list with the key in front,
\* the table and the account with the new object in them.
Queue(c) == <<call[c].key>> \o Unlinked(lru[ShardOf[call[c].key]], call[c].key)
Table(c) == [items EXCEPT ![call[c].key] = [obj |-> call[c].obj, spent |-> FALSE]]
Account(c) ==
    bytes[ShardOf[call[c].key]] - Taken(items, call[c].key) + Size[call[c].obj]
Cutoff(c) ==
    Left(Queue(c), Account(c), Table(c), Share(call[c].budget), call[c].key)

\* The shard of the key is in step before the cut, and so are the others;
\* the cut never reaches the key.
LEMMA Storing ==
    ASSUME TypeOK, AllKept, NEW c \in Callers, SetStore(c)
    PROVE  LET k == call[c].key
               s == ShardOf[k]
           IN  /\ k \in Keys /\ s \in Shards /\ Table(c) \in Tables
               /\ Kept(Queue(c), Account(c), Table(c), s)
               /\ \A t \in Shards \ {s} : Kept(lru[t], bytes[t], Table(c), t)
               /\ Len(Queue(c)) = IF items[k] # None THEN Len(lru[s]) ELSE Len(lru[s]) + 1
               /\ Queue(c)[1] = k
               /\ Taken(items, k) \in Nat /\ Size[call[c].obj] \in Nat
               /\ Cutoff(c) \in 1..Len(Queue(c))
               /\ k \notin Behind(Queue(c), Cutoff(c))
               /\ EvictOver(s, Queue(c), Account(c), Table(c), Share(call[c].budget), k,
                            entryCount + (IF items[k] # None THEN 0 ELSE 1),
                            byteCount - Taken(items, k) + Size[call[c].obj])
<1> DEFINE k == call[c].key
           o == call[c].obj
           s == ShardOf[k]
           e == [obj |-> o, spent |-> FALSE]
<1>1. k \in Keys /\ o \in Objects /\ s \in Shards /\ items \in Tables
  BY CacheAssumption, Typed DEF SetStore
<1>2. e \in Entries /\ e.obj = o
  BY <1>1 DEF Entries
<1>3. Kept(lru[s], bytes[s], items, s)
  BY <1>1 DEF AllKept
<1>4. Size[o] \in Nat /\ Taken(items, k) \in Nat
  BY <1>1, CacheAssumption, SizesIs DEF Taken
<1> HIDE DEF k, o, e
<1>5. /\ [items EXCEPT ![k] = e] \in Tables
      /\ Kept(<<k>> \o Unlinked(lru[s], k), bytes[s] - Taken(items, k) + Size[e.obj],
              [items EXCEPT ![k] = e], s)
      /\ Len(<<k>> \o Unlinked(lru[s], k)) =
            IF items[k] # None THEN Len(lru[s]) ELSE Len(lru[s]) + 1
      /\ Len(<<k>> \o Unlinked(lru[s], k)) \in Nat \ {0}
      /\ (<<k>> \o Unlinked(lru[s], k))[1] = k
  BY <1>1, <1>2, <1>3, KeptPlaced
<1>6. /\ Table(c) = [items EXCEPT ![k] = e] /\ Queue(c) = <<k>> \o Unlinked(lru[s], k)
      /\ Account(c) = bytes[s] - Taken(items, k) + Size[e.obj]
  BY <1>2 DEF Table, Queue, Account, k, o, e
<1>7. /\ Table(c) \in Tables
      /\ Kept(Queue(c), Account(c), Table(c), s)
      /\ Len(Queue(c)) = IF items[k] # None THEN Len(lru[s]) ELSE Len(lru[s]) + 1
      /\ Len(Queue(c)) \in Nat \ {0}
      /\ Queue(c)[1] = k
  BY <1>5, <1>6
<1>8. ASSUME NEW t \in Shards \ {s}
      PROVE  Kept(lru[t], bytes[t], Table(c), t)
  <2>1. \A x \in Keys : ShardOf[x] = t => Table(c)[x] = items[x]
    BY <1>1, <1>6 DEF Tables
  <2>2. Kept(lru[t], bytes[t], items, t)
    BY DEF AllKept
  <2> QED
    BY <1>1, <1>7, <2>1, <2>2, KeptSame
<1>9. EvictOver(s, Queue(c), Account(c), Table(c), Share(call[c].budget), k,
                entryCount + (IF items[k] # None THEN 0 ELSE 1),
                byteCount - Taken(items, k) + Size[call[c].obj])
  <2>1. Taken(items, k) = IF items[k] # None THEN SizeOf(k) ELSE 0
    BY DEF Taken, SizeOf
  <2> QED
    BY <2>1 DEF SetStore, Queue, Table, Account, k
<1>10. Cutoff(c) \in 1..Len(Queue(c)) /\ k \notin Behind(Queue(c), Cutoff(c))
  <2> DEFINE q == Queue(c)
             n == Cutoff(c)
  <2>1. q \in Seq(Keys) /\ Len(q) \in Nat \ {0} /\ q[1] = k /\ Distinct(q)
    BY <1>7 DEF Kept
  <2>2. /\ n \in 0..Len(q)
        /\ \A m \in (n + 1)..Len(q) :
              ~Stays(q, Account(c), Table(c), Share(call[c].budget), k, m)
    BY <2>1, LeftIs DEF Cutoff, k
  <2>3. Stays(q, Account(c), Table(c), Share(call[c].budget), k, 1)
    BY <2>1 DEF Stays
  <2> HIDE DEF q, n
  <2>4. n # 0
    <3>1. 1 \in (0 + 1)..Len(q)
      BY <2>1
    <3> QED
      BY <2>2, <2>3, <3>1
  <2>5. \A i \in (n + 1)..Len(q) : i \in 1..Len(q) /\ i # 1
    BY <2>1, <2>2, <2>4
  <2>6. 1 \in 1..Len(q)
    BY <2>1
  <2>7. k \notin Behind(q, n)
    BY <2>1, <2>5, <2>6 DEF Behind, Distinct
  <2> QED
    BY <2>2, <2>4, <2>7 DEF q, n
<1> QED
  BY <1>1, <1>4, <1>7, <1>8, <1>9, <1>10 DEF k, o

\* A Set that stores its object.
LEMMA SetStoreKeeps ==
    ASSUME IInv, NEW c \in Callers, SetStore(c)
    PROVE  IInv'
<1> USE DEF IInv
<1> DEFINE k == call[c].key
           s == ShardOf[k]
           q == Queue(c)
           b == Account(c)
           n == Cutoff(c)
           ec == entryCount + (IF items[k] # None THEN 0 ELSE 1)
           bc == byteCount - Taken(items, k) + Size[call[c].obj]
<1>1. /\ k \in Keys /\ s \in Shards /\ Table(c) \in Tables
      /\ Kept(q, b, Table(c), s)
      /\ \A t \in Shards \ {s} : Kept(lru[t], bytes[t], Table(c), t)
      /\ Len(q) = IF items[k] # None THEN Len(lru[s]) ELSE Len(lru[s]) + 1
      /\ q[1] = k
      /\ Taken(items, k) \in Nat /\ Size[call[c].obj] \in Nat
      /\ n \in 1..Len(q)
      /\ EvictOver(s, q, b, Table(c), Share(call[c].budget), k, ec, bc)
  BY Storing
<1>2. /\ call[c].pc = "set"
      /\ call' = [call EXCEPT ![c] = Idle]
      /\ UNCHANGED <<budget, sweep, avail>>
  BY DEF SetStore
<1>3. /\ entryCount \in Nat /\ byteCount \in Nat /\ Len(lru[s]) \in Nat /\ bytes[s] \in Nat
      /\ lru \in [Shards -> Seq(Keys)] /\ bytes \in [Shards -> Nat]
  BY <1>1 DEF TypeOK
<1>4. ec \in Int /\ bc \in Int
  BY <1>1, <1>3
<1> HIDE DEF ec, bc
<1>5. /\ items' = [x \in Keys |-> IF x \in Behind(q, n) THEN None ELSE Table(c)[x]]
      /\ items' \in Tables
      /\ lru' \in [Shards -> Seq(Keys)] /\ bytes' \in [Shards -> Nat]
      /\ AllKept'
      /\ \A t \in Shards \ {s} : lru'[t] = lru[t] /\ bytes'[t] = bytes[t]
      /\ lru'[s] = SubSeq(q, 1, n) /\ Len(lru'[s]) = n
      /\ bytes'[s] = BytesLeft(q, b, Table(c), n)
      /\ entryCount' = ec - Len(q) + Len(lru'[s])
      /\ byteCount' = bc - b + bytes'[s]
  <2> DEFINE tab == Table(c)
             share == Share(call[c].budget)
  <2>1. /\ s \in Shards /\ tab \in Tables /\ Kept(q, b, tab, s)
        /\ \A t \in Shards \ {s} : Kept(lru[t], bytes[t], tab, t)
        /\ EvictOver(s, q, b, tab, share, k, ec, bc)
    BY <1>1
  <2>2. n = Left(q, b, tab, share, k)
    BY DEF Cutoff
  <2> HIDE DEF s, q, b, tab, share, k, n
  <2>3. /\ items' = [x \in Keys |-> IF x \in Behind(q, n) THEN None ELSE tab[x]]
        /\ items' \in Tables
        /\ lru' \in [Shards -> Seq(Keys)] /\ bytes' \in [Shards -> Nat]
        /\ AllKept'
        /\ \A t \in Shards \ {s} : lru'[t] = lru[t] /\ bytes'[t] = bytes[t]
        /\ lru'[s] = SubSeq(q, 1, n) /\ Len(lru'[s]) = n
        /\ bytes'[s] = BytesLeft(q, b, tab, n)
        /\ entryCount' = ec - Len(q) + Len(lru'[s])
        /\ byteCount' = bc - b + bytes'[s]
    BY <1>3, <1>4, <2>1, <2>2, EvictOverKeeps
  <2> QED
    BY <2>3 DEF tab
<1>6. call' \in [Callers -> Calls] /\ \A d \in Callers \ {c} : call'[d] = call[d]
  BY <1>2, Typed DEF Calls
<1>7. /\ Cardinality(Pending(call')) = Cardinality(Pending(call)) + 0
      /\ Owed(call') = Owed(call) + 0
  <2>1. c \notin Pending(call) /\ c \notin Pending(call')
    BY <1>2, <1>6, Typed DEF Pending, Idle
  <2>2. Pending(call') = Pending(call)
    BY <1>6, <2>1 DEF Pending
  <2>3. \A d \in Pending(call) : call'[d] = call[d]
    BY <1>6, <2>1 DEF Pending
  <2> QED
    BY <1>6, <2>2, <2>3, DebtSame
<1>8. Counted' /\ entryCount' \in Nat /\ byteCount' \in Nat
  <2>1. entryCount' = entryCount - Len(lru[s]) + Len(lru'[s]) + 0
    <3>1. Len(lru'[s]) \in Nat /\ Len(q) \in Nat
      BY <1>1, <1>3, <1>5
    <3>2. entryCount' = ec - Len(q) + Len(lru'[s])
      BY <1>5
    <3>3. ec - Len(q) = entryCount - Len(lru[s])
      <4>1. CASE items[k] # None
        BY <1>1, <1>3, <3>1, <4>1 DEF ec
      <4>2. CASE items[k] = None
        BY <1>1, <1>3, <3>1, <4>2 DEF ec
      <4> QED
        BY <4>1, <4>2
    <3>4. entryCount' = (entryCount - Len(lru[s])) + Len(lru'[s])
      BY <3>2, <3>3
    <3> QED
      BY <1>3, <3>1, <3>4
  <2>2. byteCount' = byteCount - bytes[s] + bytes'[s] + 0
    <3>1. bytes'[s] \in Nat
      BY <1>1, <1>5
    <3>2. bc - b = byteCount - bytes[s]
      BY <1>1, <1>3 DEF bc, Account
    <3> QED
      BY <1>3, <1>5, <3>1, <3>2
  <2>3. 0 \in Int
    OBVIOUS
  <2> QED
    BY <1>1, <1>5, <1>6, <1>7, <2>1, <2>2, <2>3, CountersMove
<1>9. TypeOK'
  BY <1>2, <1>5, <1>6, <1>8 DEF TypeOK, Tables
<1>10. ShardBounded'
  <2>1. bytes'[s] <= Share(Target) \/ (Len(lru'[s]) = 1 /\ bytes'[s] <= Target)
    <3>1. /\ call[c].budget \in Nat /\ call[c].budget <= Target /\ Target \in Nat
          /\ Size[call[c].obj] <= call[c].budget /\ call[c].obj \in Objects
      BY <1>2, CacheAssumption, Typed DEF Fits
    <3>2. /\ Share(call[c].budget) \in Nat /\ Share(call[c].budget) <= Share(Target)
          /\ Share(Target) \in Nat
      BY <3>1, ShareMonotone
    <3>3. bytes'[s] \in Nat
      BY <1>1, <1>5
    <3>4. CASE bytes'[s] <= Share(call[c].budget)
      BY <3>2, <3>3, <3>4
    <3>5. CASE q[n] = k
      <4>1. n = 1
        BY <1>1, <3>5 DEF Kept, Distinct
      <4>2. lru'[s] = SubSeq(q, 1, n) /\ Kept(lru'[s], bytes'[s], items', s)
        BY <1>1, <1>5 DEF AllKept, Kept, Held, Sizes
      <4>3. ToSet(lru'[s]) = {k} /\ k \in Keys
        <5>1. lru'[s] \in Seq(Keys) /\ Len(lru'[s]) = 1 /\ lru'[s][1] = k
          BY <1>1, <1>5, <4>1, <4>2 DEF Kept
        <5>2. DOMAIN lru'[s] = {1}
          BY <5>1
        <5> QED
          BY <1>1, <5>1, <5>2 DEF ToSet
      <4>4. items'[k] = Table(c)[k] /\ Table(c)[k] = [obj |-> call[c].obj, spent |-> FALSE]
        <5>1. k \notin Behind(q, n)
          BY Storing
        <5>2. items \in Tables
          BY Typed
        <5> QED
          BY <1>1, <1>5, <5>1, <5>2 DEF Table, Tables
      <4>5. bytes'[s] = SumFunctionOnSet(Sizes(items'), {k})
        BY <4>2, <4>3 DEF Kept
      <4>6. Sizes(items')[k] = Size[call[c].obj]
        <5>1. items'[k] # None
          <6>1. [obj |-> call[c].obj, spent |-> FALSE] \in Entries
            BY <3>1 DEF Entries
          <6> QED
            BY <4>4, <6>1, CacheAssumption
        <5> QED
          BY <1>1, <4>4, <5>1 DEF Sizes
      <4>7. SumFunctionOnSet(Sizes(items'), {k}) = Size[call[c].obj]
        <5>1. Sizes(items')[k] \in Int
          BY <1>1, <4>6
        <5>2. SumFunctionOnSet(Sizes(items'), {} \cup {k}) =
                 SumFunctionOnSet(Sizes(items'), {}) + Sizes(items')[k]
          BY <5>1, FS_EmptySet, SumAdd
        <5>3. {} \cup {k} = {k} /\ SumFunctionOnSet(Sizes(items'), {}) = 0
          BY SumEmpty
        <5> QED
          BY <1>1, <4>6, <5>2, <5>3
      <4> QED
        BY <1>1, <1>5, <3>1, <4>1, <4>5, <4>7
    <3> QED
      <4>1. \/ n = 0
            \/ BytesLeft(q, b, Table(c), n) <= Share(call[c].budget)
            \/ q[n] = k
        BY <1>1, LeftFits DEF Cutoff
      <4> QED
        BY <1>1, <1>5, <3>4, <3>5, <4>1
  <2> QED
    BY <1>5, <2>1 DEF ShardBounded
<1>11. Fits'
  BY <1>2, <1>6, Typed DEF Fits, Idle
<1> QED
  BY <1>5, <1>8, <1>9, <1>10, <1>11

\* A shard that SetBudget cuts.
LEMMA SweepShardKeeps ==
    ASSUME IInv, SweepShard
    PROVE  IInv'
<1> USE DEF IInv
<1> DEFINE s == sweep.next
           q == lru[s]
           share == sweep.share
           n == Left(q, bytes[s], items, share, None)
<1>1. /\ s \in Shards /\ sweep' = [sweep EXCEPT !.next = s + 1]
      /\ UNCHANGED <<budget, call, avail>>
      /\ EvictOver(s, q, bytes[s], items, share, None, entryCount, byteCount)
  BY CacheAssumption DEF SweepShard, NextShard, Sweeping, TypeOK, Sweeps, Shards
<1>2. /\ items \in Tables /\ lru \in [Shards -> Seq(Keys)] /\ bytes \in [Shards -> Nat]
      /\ Kept(q, bytes[s], items, s)
      /\ \A t \in Shards \ {s} : Kept(lru[t], bytes[t], items, t)
      /\ entryCount \in Nat /\ byteCount \in Nat /\ bytes[s] \in Nat
      /\ q \in Seq(Keys) /\ Len(q) \in Nat
  BY <1>1, Typed DEF AllKept, TypeOK
<1> HIDE DEF s, q, share
<1>3. /\ n \in 0..Len(q)
      /\ items' \in Tables
      /\ lru' \in [Shards -> Seq(Keys)] /\ bytes' \in [Shards -> Nat]
      /\ AllKept'
      /\ \A t \in Shards \ {s} : lru'[t] = lru[t] /\ bytes'[t] = bytes[t]
      /\ bytes'[s] = BytesLeft(q, bytes[s], items, n)
      /\ entryCount' = entryCount - Len(q) + Len(lru'[s])
      /\ byteCount' = byteCount - bytes[s] + bytes'[s]
  <2> DEFINE b == bytes[s]
             ec == entryCount
             bc == byteCount
  <2>1. ec \in Int /\ bc \in Int
    BY <1>2
  <2> DEFINE tab == items
  <2>2. /\ s \in Shards /\ lru \in [Shards -> Seq(Keys)] /\ bytes \in [Shards -> Nat]
        /\ tab \in Tables /\ Kept(q, b, tab, s)
        /\ \A t \in Shards \ {s} : Kept(lru[t], bytes[t], tab, t)
        /\ EvictOver(s, q, b, tab, share, None, ec, bc)
    BY <1>1, <1>2
  <2>3. n = Left(q, b, tab, share, None)
    OBVIOUS
  <2> HIDE DEF b, ec, bc, tab, n
  <2>4. /\ n \in 0..Len(q)
        /\ items' \in Tables
        /\ lru' \in [Shards -> Seq(Keys)] /\ bytes' \in [Shards -> Nat]
        /\ AllKept'
        /\ \A t \in Shards \ {s} : lru'[t] = lru[t] /\ bytes'[t] = bytes[t]
        /\ bytes'[s] = BytesLeft(q, b, tab, n)
        /\ entryCount' = ec - Len(q) + Len(lru'[s])
        /\ byteCount' = bc - b + bytes'[s]
    BY <2>1, <2>2, <2>3, EvictOverKeeps
  <2> QED
    BY <2>4 DEF b, ec, bc, tab
<1>4. call' \in [Callers -> Calls] /\ call' = call
  BY <1>1, Typed
<1>5. /\ Cardinality(Pending(call')) = Cardinality(Pending(call)) + 0
      /\ Owed(call') = Owed(call) + 0
  BY <1>4, DebtSame
<1>6. Counted' /\ entryCount' \in Nat /\ byteCount' \in Nat
  <2>1. /\ Len(lru'[s]) \in Nat /\ bytes'[s] \in Nat /\ q = lru[s]
    BY <1>1, <1>3 DEF q
  <2>2. entryCount' = entryCount - Len(lru[s]) + Len(lru'[s]) + 0
    BY <1>2, <1>3, <2>1
  <2>3. byteCount' = byteCount - bytes[s] + bytes'[s] + 0
    BY <1>2, <1>3, <2>1
  <2>4. 0 \in Int
    OBVIOUS
  <2> QED
    BY <1>1, <1>3, <1>4, <1>5, <2>2, <2>3, <2>4, CountersMove
<1>7. sweep' \in Sweeps
  <2>1. sweep \in Sweeps /\ s \in 1..NShards /\ NShards \in Nat
    BY <1>1, CacheAssumption DEF TypeOK, Shards
  <2>2. s + 1 \in 1..(NShards + 1)
    BY <2>1
  <2> QED
    BY <1>1, <2>1, <2>2 DEF Sweeps
<1>8. TypeOK'
  BY <1>1, <1>3, <1>4, <1>6, <1>7 DEF TypeOK, Tables
<1>9. ShardBounded'
  <2>1. Share(Target) \in Nat /\ share <= Share(Target) /\ share \in Nat
    <3>1. PICK b \in Budgets : share = Share(b)
      BY DEF TypeOK, Sweeps, share
    <3>2. b \in Nat /\ b <= Target /\ Target \in Nat
      BY CacheAssumption DEF Budgets
    <3> QED
      BY <3>1, <3>2, ShareMonotone
  <2>2. \/ n = 0 /\ BytesLeft(q, bytes[s], items, n) = 0
        \/ BytesLeft(q, bytes[s], items, n) <= share
        \/ n \in 1..Len(q) /\ q[n] = None
    BY <1>1, <1>2, LeftFits
  <2>3. ~(n \in 1..Len(q) /\ q[n] = None)
    BY <1>2, CacheAssumption
  <2>4. bytes'[s] \in Nat
    BY <1>1, <1>3
  <2>5. bytes'[s] <= Share(Target)
    BY <1>3, <2>1, <2>2, <2>3, <2>4
  <2> QED
    BY <1>3, <2>5 DEF ShardBounded
<1>10. Fits'
  BY <1>4 DEF Fits
<1> QED
  BY <1>3, <1>6, <1>8, <1>9, <1>10

-----------------------------------------------------------------------------
\* The steps outside the locks leave the shards alone.
LEMMA OutsideKeeps ==
    ASSUME IInv, UNCHANGED <<items, lru, bytes>>
    PROVE  AllKept' /\ ShardBounded'
  BY DEF IInv, AllKept, Kept, Held, Sizes, ShardBounded

\* A Set that has loaded the budget.
LEMMA SetLoadKeeps ==
    ASSUME IInv, NEW c \in Callers, NEW k \in Keys, NEW o \in Objects, SetLoad(c, k, o)
    PROVE  IInv'
<1> USE DEF IInv
<1>1. /\ call[c] = Idle /\ Size[o] <= budget
      /\ call' = [call EXCEPT ![c] = [pc |-> "set", key |-> k, obj |-> o, budget |-> budget]]
      /\ UNCHANGED <<items, lru, bytes, entryCount, byteCount, budget, sweep, avail>>
  BY DEF SetLoad
<1>2. call' \in [Callers -> Calls]
  <2>1. [pc |-> "set", key |-> k, obj |-> o, budget |-> budget] \in Calls
    BY DEF Calls, TypeOK
  <2> QED
    BY <1>1, <2>1, Typed
<1>3. /\ \A d \in Callers \ {c} : call'[d] = call[d]
      /\ call'[c] = [pc |-> "set", key |-> k, obj |-> o, budget |-> budget]
  BY <1>1, Typed
<1>4. Pending(call') = Pending(call) /\ \A d \in Pending(call) : call'[d] = call[d]
  BY <1>1, <1>3 DEF Pending, Idle
<1>5. Counted'
  <2>1. /\ Cardinality(Pending(call')) = Cardinality(Pending(call))
        /\ Owed(call') = Owed(call)
    BY <1>4, OwedSame
  <2>2. Counted' <=> /\ entryCount' = SumFunction(Lens(lru')) + Cardinality(Pending(call'))
                     /\ byteCount' = SumFunction(bytes') + Owed(call')
    BY DEF Counted, Lens, Pending, Owed
  <2> QED
    BY <1>1, <2>1, <2>2 DEF Counted
<1>6. TypeOK'
  BY <1>1, <1>2 DEF TypeOK
<1>7. Fits'
  BY <1>1, <1>3 DEF Fits
<1> QED
  BY <1>1, <1>5, <1>6, <1>7, OutsideKeeps

\* A Get that subtracts what it removed.
LEMMA UncountKeeps ==
    ASSUME IInv, NEW c \in Callers, Uncount(c)
    PROVE  IInv'
<1> USE DEF IInv
<1>1. /\ call[c].pc = "uncount"
      /\ entryCount' = entryCount - 1 /\ byteCount' = byteCount - call[c].size
      /\ call' = [call EXCEPT ![c] = Idle]
      /\ UNCHANGED <<items, lru, bytes, budget, sweep, avail>>
  BY DEF Uncount
<1>2. /\ call \in [Callers -> Calls] /\ call' \in [Callers -> Calls] /\ call'[c] = Idle
      /\ \A d \in Callers \ {c} : call'[d] = call[d]
  BY <1>1, Typed DEF Calls
<1>3. c \in Pending(call) /\ c \notin Pending(call')
  BY <1>1, <1>2 DEF Pending, Idle
<1>4. /\ Cardinality(Pending(call)) = Cardinality(Pending(call')) + 1
      /\ Owed(call) = Owed(call') + call[c].size
  <2>1. c \in Callers \ Pending(call')
    BY <1>3
  <2>2. \A d \in Callers \ {c} : call[d] = call'[d]
    BY <1>2
  <2> QED
    BY <1>2, <1>3, <2>1, <2>2, OwedMore
<1>5. /\ Cardinality(Pending(call)) \in Nat /\ Owed(call) \in Nat
      /\ Cardinality(Pending(call')) \in Nat /\ Owed(call') \in Nat
      /\ call[c].size \in Nat
  BY <1>2, <1>3, OwedIs
<1>6. Counted' /\ entryCount' \in Nat /\ byteCount' \in Nat
  <2>1. PICK s \in Shards : TRUE
    BY CacheAssumption DEF Shards
  <2>2. /\ lru' \in [Shards -> Seq(Keys)] /\ bytes' \in [Shards -> Nat]
        /\ \A t \in Shards \ {s} : lru'[t] = lru[t] /\ bytes'[t] = bytes[t]
    BY <1>1, Typed
  <2>3. /\ entryCount \in Nat /\ byteCount \in Nat
        /\ Len(lru[s]) \in Nat /\ bytes[s] \in Nat
    BY DEF TypeOK
  <2> DEFINE m == 0 - 1
             x == 0 - call[c].size
  <2>4. m \in Int /\ x \in Int
    BY <1>5
  <2>5. /\ Cardinality(Pending(call')) = Cardinality(Pending(call)) + m
        /\ Owed(call') = Owed(call) + x
    <3> DEFINE P == Cardinality(Pending(call))
               P1 == Cardinality(Pending(call'))
               O == Owed(call)
               O1 == Owed(call')
               z == call[c].size
    <3>1. /\ P \in Nat /\ P1 \in Nat /\ O \in Nat /\ O1 \in Nat /\ z \in Nat
          /\ P = P1 + 1 /\ O = O1 + z /\ x = 0 - z
      BY <1>4, <1>5
    <3> HIDE DEF P, P1, O, O1, z, x
    <3>2. P1 = P + m /\ O1 = O + x
      BY <3>1
    <3> QED
      BY <3>2 DEF P, P1, O, O1
  <2>6. /\ entryCount' = entryCount - Len(lru[s]) + Len(lru'[s]) + m
        /\ byteCount' = byteCount - bytes[s] + bytes'[s] + x
    BY <1>1, <1>5, <2>3
  <2> HIDE DEF m, x
  <2> QED
    BY <1>2, <2>2, <2>4, <2>5, <2>6, CountersMove
<1>7. TypeOK'
  BY <1>1, <1>2, <1>6 DEF TypeOK
<1>8. Fits'
  BY <1>2 DEF Fits, Idle
<1> QED
  BY <1>1, <1>6, <1>7, <1>8, OutsideKeeps

\* An entry that outlives its stale window.
LEMMA ExpireKeeps ==
    ASSUME IInv, NEW k \in Keys, Expire(k)
    PROVE  IInv'
<1> USE DEF IInv
<1>1. /\ items[k] # None
      /\ items' = [items EXCEPT ![k].spent = TRUE]
      /\ UNCHANGED <<lru, bytes, entryCount, byteCount, budget, call, sweep, avail>>
  BY DEF Expire
<1>2. /\ items \in Tables /\ items' \in Tables
      /\ \A x \in Keys : /\ items'[x] # None <=> items[x] # None
                         /\ items[x] # None => items'[x].obj = items[x].obj
  BY <1>1, Typed, CacheAssumption DEF Tables, Entries
<1>3. Sizes(items') = Sizes(items) /\ \A s \in Shards : Held(items', s) = Held(items, s)
  BY <1>2 DEF Sizes, Held
<1>4. AllKept'
  <2>1. AllKept' <=> \A s \in Shards : Kept(lru'[s], bytes'[s], items', s)
    BY DEF AllKept, Kept, Held, Sizes
  <2> QED
    BY <1>1, <1>3, <2>1 DEF AllKept, Kept
<1>5. TypeOK' /\ Counted' /\ ShardBounded' /\ Fits'
  BY <1>1, <1>2 DEF TypeOK, Tables, Counted, Lens, Pending, Owed, ShardBounded, Fits
<1> QED
  BY <1>4, <1>5

\* A tick keeps the budget between the floor and the target.
LEMMA TickKeeps ==
    ASSUME IInv, Tick
    PROVE  IInv'
<1> USE DEF IInv
<1>1. PICK b \in Budgets : budget' = b /\ sweep' = [share |-> Share(b), next |-> 1]
  <2>1. budget \in Budgets /\ Target \in Nat /\ Floor \in Nat
    BY CacheAssumption DEF TypeOK
  <2>2. CASE Shrink
    <3>1. Shrunk(budget) \in Budgets
      BY <2>1, <2>2 DEF Shrink, Shrunk, Budgets
    <3> QED
      BY <2>2, <3>1 DEF Shrink, SetBudget
  <2>3. CASE Grow
    <3>1. Grown(budget) \in Budgets
      BY <2>1, <2>3 DEF Grow, Grown, Budgets
    <3> QED
      BY <2>3, <3>1 DEF Grow, SetBudget
  <2> QED
    BY <2>2, <2>3 DEF Tick
<1>2. UNCHANGED <<items, lru, bytes, entryCount, byteCount, call, avail>>
  BY DEF Tick
<1>3. sweep' \in Sweeps
  BY <1>1, CacheAssumption DEF Sweeps
<1>4. TypeOK' /\ Counted' /\ Fits'
  BY <1>1, <1>2, <1>3 DEF TypeOK, Counted, Lens, Pending, Owed, Fits
<1> QED
  BY <1>2, <1>4, OutsideKeeps

\* Steps of the host and stuttering.
LEMMA IdleKeeps ==
    ASSUME IInv, MemoryMoves \/ UNCHANGED vars
    PROVE  IInv'
<1> USE DEF IInv
<1>1. /\ UNCHANGED <<items, lru, bytes, entryCount, byteCount, budget, call, sweep>>
      /\ avail' \in {"low", "middle", "high"}
  BY DEF MemoryMoves, vars, TypeOK
<1>2. TypeOK' /\ Counted' /\ Fits'
  BY <1>1 DEF TypeOK, Counted, Lens, Pending, Owed, Fits
<1> QED
  BY <1>1, <1>2, OutsideKeeps

\* Every step keeps the invariant.
LEMMA NextIInv == IInv /\ [Next]_vars => IInv'
<1> SUFFICES ASSUME IInv, [Next]_vars
             PROVE  IInv'
  OBVIOUS
<1>1. ASSUME NEW c \in Callers, NEW k \in Keys, GetHit(c, k)
      PROVE  IInv'
  BY <1>1, GetHitKeeps
<1>2. ASSUME NEW c \in Callers, NEW k \in Keys, GetSpent(c, k)
      PROVE  IInv'
  BY <1>2, GetSpentKeeps
<1>3. ASSUME NEW c \in Callers, NEW k \in Keys, NEW o \in Objects, SetLoad(c, k, o)
      PROVE  IInv'
  BY <1>3, SetLoadKeeps
<1>4. ASSUME NEW c \in Callers, Uncount(c)
      PROVE  IInv'
  BY <1>4, UncountKeeps
<1>5. ASSUME NEW c \in Callers, SetStore(c)
      PROVE  IInv'
  BY <1>5, SetStoreKeeps
<1>6. ASSUME NEW k \in Keys, Delete(k)
      PROVE  IInv'
  BY <1>6, DeleteKeeps
<1>7. ASSUME NEW k \in Keys, Expire(k)
      PROVE  IInv'
  BY <1>7, ExpireKeeps
<1>8. CASE Tick
  BY <1>8, TickKeeps
<1>9. CASE SweepShard
  BY <1>9, SweepShardKeeps
<1>10. CASE MemoryMoves \/ UNCHANGED vars
  BY <1>10, IdleKeeps
<1> QED
  BY <1>1, <1>2, <1>3, <1>4, <1>5, <1>6, <1>7, <1>8, <1>9, <1>10 DEF Next

\* The inductive invariant of the cache.
LEMMA IInvHolds == Spec => []IInv
  BY InitIInv, NextIInv, PTL DEF Spec

-----------------------------------------------------------------------------
\* Every reachable state has the types, the budget between the floor and the
\* target among them.
THEOREM CacheTyped == Spec => []TypeOK
  BY IInvHolds, PTL DEF IInv

\* The map, the list and the account of every shard agree, and the global
\* counters are off by the removals under way only.
THEOREM AccountsExact == Spec => [](ShardsConsistent /\ CountersExact)
<1>1. IInv => ShardsConsistent /\ CountersExact
  BY KeptIsConsistent, CountedIsExact DEF IInv
<1> QED
  BY <1>1, IInvHolds, PTL

\* No race of Sets with budget changes takes a shard over its bound.
THEOREM ShardsStayBounded == Spec => []ShardBounded
  BY IInvHolds, PTL DEF IInv

-----------------------------------------------------------------------------
\* A Set that completes in a step is a SetStore.
LEMMA JustSetStores ==
    ASSUME TypeOK, [Next]_vars, JustSet # {}
    PROVE  \E c \in Callers : SetStore(c) /\ call[c].key \in JustSet
<1>1. PICK c \in Callers : call[c].pc = "set" /\ call'[c] = Idle
  BY DEF JustSet
<1>2. call[c] # Idle /\ call \in [Callers -> Calls]
  BY <1>1, Typed DEF Idle
<1>3. call[c].key \in JustSet
  BY <1>1 DEF JustSet
<1>4. CASE call' = call
  BY <1>1, <1>2, <1>4
<1>5. ASSUME NEW d \in Callers, NEW x, call' = [call EXCEPT ![d] = x], d # c
      PROVE  FALSE
  BY <1>1, <1>2, <1>5
<1>6. ASSUME NEW d \in Callers, NEW k \in Keys, GetSpent(d, k) \/ \E o \in Objects : SetLoad(d, k, o)
      PROVE  FALSE
  <2>1. call[d] = Idle /\ \E x : call' = [call EXCEPT ![d] = x]
    BY <1>6 DEF GetSpent, SetLoad
  <2> QED
    BY <1>2, <1>5, <2>1
<1>7. ASSUME NEW d \in Callers, Uncount(d)
      PROVE  FALSE
  <2>1. call[d].pc = "uncount" /\ \E x : call' = [call EXCEPT ![d] = x]
    BY <1>7 DEF Uncount
  <2> QED
    BY <1>1, <1>5, <2>1
<1>8. ASSUME NEW d \in Callers, SetStore(d)
      PROVE  d = c
  <2>1. \E x : call' = [call EXCEPT ![d] = x]
    BY <1>8 DEF SetStore
  <2> QED
    BY <1>5, <2>1
<1>9. \/ call' = call
      \/ \E d \in Callers, k \in Keys : GetSpent(d, k) \/ \E o \in Objects : SetLoad(d, k, o)
      \/ \E d \in Callers : Uncount(d) \/ SetStore(d)
  BY DEF Next, vars, GetHit, Delete, Expire, Tick, SweepShard, MemoryMoves
<1> QED
  BY <1>3, <1>4, <1>6, <1>7, <1>8, <1>9

\* Cutting a list at the back takes with an entry all that are behind it.
LEMMA CutTakesRest ==
    ASSUME NEW S, NEW q \in Seq(S), Distinct(q), NEW n \in Nat,
           NEW a \in 1..Len(q), NEW b \in 1..Len(q), a < b, q[a] \in Behind(q, n)
    PROVE  q[b] \in Behind(q, n)
<1>1. Len(q) \in Nat
  OBVIOUS
<1>2. PICK i \in (n + 1)..Len(q) : q[i] = q[a]
  BY DEF Behind
<1>3. i = a
  <2>1. i \in 1..Len(q)
    BY <1>1, <1>2
  <2> QED
    BY <1>2, <2>1 DEF Distinct
<1>4. b \in (n + 1)..Len(q)
  BY <1>1, <1>2, <1>3
<1> QED
  BY <1>4 DEF Behind

\* A sweep, or the Set of a key, takes entries from the least recently used
\* end of a shard, whatever its list, and never the key being set.
THEOREM EvictionInOrder == Spec => EvictsLeastRecent
<1> DEFINE A == SweepShard \/ JustSet # {} =>
                  \A s \in Shards : \A i \in 1..Len(lru[s]) :
                     items'[lru[s][i]] = None =>
                         \A k \in Behind(lru[s], i) \ JustSet : items'[k] = None
<1>1. ASSUME IInv, [Next]_vars
      PROVE  [A]_vars
  <2> SUFFICES ASSUME SweepShard \/ JustSet # {},
                      NEW s \in Shards, NEW i \in 1..Len(lru[s]), items'[lru[s][i]] = None,
                      NEW k \in Behind(lru[s], i) \ JustSet
               PROVE  items'[k] = None
    OBVIOUS
  <2> DEFINE l == lru[s]
  <2>0. TypeOK /\ AllKept
    BY <1>1 DEF IInv
  <2>1. /\ items \in Tables /\ l \in Seq(Keys) /\ Len(l) \in Nat /\ Distinct(l)
        /\ ToSet(l) = Held(items, s)
    BY <2>0, Typed DEF AllKept, Kept
  <2>2. PICK j \in 1..Len(l) : i < j /\ l[j] = k
    BY <2>1 DEF Behind
  <2>3. l[i] \in Held(items, s) /\ k \in Held(items, s)
    BY <2>1, <2>2 DEF ToSet
  <2> HIDE DEF l
  <2>4. CASE SweepShard
    <3> DEFINE t == sweep.next
               q == lru[t]
               n == Left(q, bytes[t], items, sweep.share, None)
    <3>1. t \in Shards /\ EvictOver(t, q, bytes[t], items, sweep.share, None, entryCount, byteCount)
      BY <2>0, <2>4, CacheAssumption DEF SweepShard, NextShard, Sweeping, TypeOK, Sweeps, Shards
    <3>2. /\ q \in Seq(Keys) /\ Distinct(q) /\ ToSet(q) = Held(items, t)
      BY <2>0, <3>1 DEF AllKept, Kept
    <3>3. n \in 0..Len(q) /\ items' = [x \in Keys |-> IF x \in Behind(q, n) THEN None ELSE items[x]]
      BY <3>1, <3>2, LeftIs DEF EvictOver
    <3> HIDE DEF n
    <3>4. l[i] \in Behind(q, n)
      BY <2>3, <3>3 DEF l, Held
    <3>5. s = t
      <4>1. Behind(q, n) \subseteq ToSet(q)
        BY <3>2, <3>3, PrefixIs
      <4> QED
        BY <2>3, <3>2, <3>4, <4>1 DEF Held
    <3>6. k \in Behind(q, n)
      <4>1. n \in Nat /\ q = l
        BY <3>3, <3>5 DEF l
      <4> QED
        BY <2>1, <2>2, <3>4, <4>1, CutTakesRest
    <3> QED
      BY <2>3, <3>3, <3>6 DEF Held
  <2>5. CASE JustSet # {}
    <3>1. PICK c \in Callers : SetStore(c) /\ call[c].key \in JustSet
      BY <1>1, <2>0, <2>5, JustSetStores
    <3> DEFINE k0 == call[c].key
               t == ShardOf[k0]
               q == Queue(c)
               n == Cutoff(c)
    <3>2. /\ k0 \in Keys /\ t \in Shards
          /\ q \in Seq(Keys) /\ Distinct(q) /\ ToSet(q) = Held(Table(c), t)
          /\ n \in 1..Len(q) /\ k0 \notin Behind(q, n)
          /\ EvictOver(t, q, Account(c), Table(c), Share(call[c].budget), k0,
                       entryCount + (IF items[k0] # None THEN 0 ELSE 1),
                       byteCount - Taken(items, k0) + Size[call[c].obj])
      BY <2>0, <3>1, Storing DEF Kept
    <3>3. items' = [x \in Keys |-> IF x \in Behind(q, n) THEN None ELSE Table(c)[x]]
      BY <3>2 DEF EvictOver, Cutoff
    <3>4. k # k0 /\ \A x \in Keys \ {k0} : Table(c)[x] = items[x]
      BY <2>1, <3>1 DEF Table, Tables
    <3>5. l[i] # k0
      <4>1. items'[k0] = [obj |-> call[c].obj, spent |-> FALSE]
        BY <2>1, <3>2, <3>3 DEF Table, Tables
      <4>2. call[c].obj \in Objects
        BY <2>0, <3>1, Typed DEF SetStore
      <4>3. items'[k0] # None
        <5>1. [obj |-> call[c].obj, spent |-> FALSE] \in Entries
          BY <4>2 DEF Entries
        <5> QED
          BY <4>1, <5>1, CacheAssumption
      <4> QED
        BY <4>3 DEF l
    <3>6. l[i] \in Behind(q, n)
      BY <2>3, <3>3, <3>4, <3>5 DEF l, Held
    <3>7. s = t
      <4>1. Behind(q, n) \subseteq ToSet(q)
        <5>1. n \in 0..Len(q)
          BY <3>2
        <5> HIDE DEF q, n
        <5> QED
          BY <3>2, <5>1, PrefixIs
      <4> QED
        BY <2>3, <3>2, <3>6, <4>1 DEF Held
    <3>8. PICK a, b \in 1..Len(q) : a < b /\ q[a] = l[i] /\ q[b] = k
      <4> DEFINE u == Unlinked(l, k0)
      <4>1. PICK a, b \in 1..Len(u) : a < b /\ u[a] = l[i] /\ u[b] = l[j]
        BY <2>1, <2>2, <3>4, <3>5, UnlinkedOrder DEF l
      <4>2. u \in Seq(Keys) /\ q = <<k0>> \o u
        BY <2>1, <3>7, UnlinkedIs DEF Queue, l
      <4> HIDE DEF u, q, k0
      <4>3. /\ a + 1 \in 1..Len(q) /\ b + 1 \in 1..Len(q) /\ a + 1 < b + 1
            /\ q[a + 1] = u[a] /\ q[b + 1] = u[b]
        BY <4>1, <4>2, <3>2
      <4> QED
        BY <2>2, <4>1, <4>3
    <3>9. k \in Behind(q, n)
      <4>1. n \in Nat
        BY <3>2
      <4> HIDE DEF q, n
      <4> QED
        BY <3>2, <3>6, <3>8, <4>1, CutTakesRest
    <3> QED
      BY <2>3, <3>3, <3>9 DEF Held
  <2> QED
    BY <2>4, <2>5
<1> QED
  BY <1>1, IInvHolds, PTL DEF Spec, EvictsLeastRecent

-----------------------------------------------------------------------------
(***************************************************************************)
(* Cuts of the budget.                                                     *)
(***************************************************************************)

\* The latest SetBudget, under way or over, imposes the shares of the budget.
ShareCurrent == sweep.share = Share(budget)

\* Only SetBudget moves either of them.
LEMMA ShareStaysCurrent == Spec => []ShareCurrent
<1>1. Init => ShareCurrent
  BY DEF Init, ShareCurrent
<1>2. ASSUME TypeOK, ShareCurrent, [Next]_vars PROVE ShareCurrent'
  <2>1. CASE UNCHANGED <<budget, sweep>>
    BY <1>2, <2>1 DEF ShareCurrent, Share
  <2>2. CASE Tick
    <3>1. \E b : budget' = b /\ sweep' = [share |-> Share(b), next |-> 1]
      BY <2>2 DEF Tick, Shrink, Grow, SetBudget
    <3> QED
      BY <3>1 DEF ShareCurrent, Share
  <2>3. CASE SweepShard
    <3>1. budget' = budget /\ sweep' = [sweep EXCEPT !.next = @ + 1] /\ sweep \in Sweeps
      BY <1>2, <2>3 DEF SweepShard, NextShard, TypeOK
    <3>2. sweep'.share = sweep.share
      BY <3>1 DEF Sweeps
    <3> QED
      BY <1>2, <3>1, <3>2 DEF ShareCurrent, Share
  <2> QED
    BY <1>2, <2>1, <2>2, <2>3
       DEF Next, vars, GetHit, GetSpent, SetLoad, Uncount, SetStore, Delete, Expire, MemoryMoves
<1> QED
  BY <1>1, <1>2, CacheTyped, PTL DEF Spec

\* The shard that a sweep visits fits the share, the others stay as they are.
LEMMA SweepFits ==
    ASSUME IInv, SweepShard
    PROVE  /\ sweep.next \in Shards /\ bytes'[sweep.next] \in Nat
           /\ bytes'[sweep.next] <= sweep.share
           /\ \A t \in Shards \ {sweep.next} : lru'[t] = lru[t] /\ bytes'[t] = bytes[t]
<1> DEFINE s == sweep.next
           q == lru[s]
           b == bytes[s]
           ec == entryCount
           bc == byteCount
           tab == items
           share == sweep.share
           n == Left(q, b, tab, share, None)
<1>1. /\ s \in Shards /\ share \in Nat
      /\ EvictOver(s, q, b, tab, share, None, ec, bc)
  <2>1. s \in Shards /\ sweep \in Sweeps
    BY CacheAssumption DEF IInv, SweepShard, NextShard, Sweeping, TypeOK, Sweeps, Shards
  <2>2. PICK x \in Budgets : share = Share(x)
    BY <2>1 DEF Sweeps
  <2>3. x \in Nat
    BY CacheAssumption DEF Budgets
  <2>4. share \in Nat
    BY <2>2, <2>3, ShareMonotone
  <2> QED
    BY <2>1, <2>4 DEF SweepShard
<1>2. /\ tab \in Tables /\ lru \in [Shards -> Seq(Keys)] /\ bytes \in [Shards -> Nat]
      /\ Kept(q, b, tab, s)
      /\ \A t \in Shards \ {s} : Kept(lru[t], bytes[t], tab, t)
      /\ ec \in Int /\ bc \in Int /\ q \in Seq(Keys)
  BY <1>1, Typed DEF IInv, AllKept, TypeOK
<1> HIDE DEF s, q, b, ec, bc, tab, share
<1>3. /\ bytes' \in [Shards -> Nat]
      /\ \A t \in Shards \ {s} : lru'[t] = lru[t] /\ bytes'[t] = bytes[t]
      /\ bytes'[s] = BytesLeft(q, b, tab, n)
  <2>1. n = Left(q, b, tab, share, None)
    OBVIOUS
  <2>2. ec \in Int /\ bc \in Int
    BY <1>2
  <2>3. /\ s \in Shards /\ lru \in [Shards -> Seq(Keys)] /\ bytes \in [Shards -> Nat]
        /\ tab \in Tables /\ Kept(q, b, tab, s)
        /\ \A t \in Shards \ {s} : Kept(lru[t], bytes[t], tab, t)
        /\ EvictOver(s, q, b, tab, share, None, ec, bc)
    BY <1>1, <1>2
  <2> HIDE DEF n
  <2>4. /\ n \in 0..Len(q)
        /\ items' \in Tables
        /\ lru' \in [Shards -> Seq(Keys)] /\ bytes' \in [Shards -> Nat]
        /\ AllKept'
        /\ \A t \in Shards \ {s} : lru'[t] = lru[t] /\ bytes'[t] = bytes[t]
        /\ bytes'[s] = BytesLeft(q, b, tab, n)
        /\ entryCount' = ec - Len(q) + Len(lru'[s])
        /\ byteCount' = bc - b + bytes'[s]
    BY <2>1, <2>2, <2>3, EvictOverKeeps
  <2> QED
    BY <2>4
<1>4. \/ n = 0 /\ BytesLeft(q, b, tab, n) = 0
      \/ BytesLeft(q, b, tab, n) <= share
      \/ n \in 1..Len(q) /\ q[n] = None
  BY <1>1, <1>2, LeftFits
<1>5. ~(n \in 1..Len(q) /\ q[n] = None)
  BY <1>2, CacheAssumption
<1>6. bytes'[s] \in Nat /\ bytes'[s] <= share
  BY <1>1, <1>3, <1>4, <1>5
<1> QED
  BY <1>1, <1>3, <1>6 DEF s, share

\* The shard a Set stores in fits the share of the budget it loaded, or holds
\* nothing but the object stored; the others stay as they are.
LEMMA SetFits ==
    ASSUME IInv, NEW c \in Callers, SetStore(c)
    PROVE  LET s == ShardOf[call[c].key]
           IN  /\ s \in Shards /\ bytes'[s] \in Nat /\ Len(lru'[s]) \in Nat
               /\ Len(lru'[s]) <= 1 \/ bytes'[s] <= Share(call[c].budget)
               /\ \A t \in Shards \ {s} : lru'[t] = lru[t] /\ bytes'[t] = bytes[t]
<1> DEFINE k == call[c].key
           s == ShardOf[k]
           q == Queue(c)
           b == Account(c)
           tab == Table(c)
           share == Share(call[c].budget)
           ec == entryCount + (IF items[k] # None THEN 0 ELSE 1)
           bc == byteCount - Taken(items, k) + Size[call[c].obj]
           n == Left(q, b, tab, share, k)
<1>1. /\ s \in Shards /\ tab \in Tables /\ Kept(q, b, tab, s)
      /\ \A t \in Shards \ {s} : Kept(lru[t], bytes[t], tab, t)
      /\ q[1] = k /\ n \in 1..Len(q)
      /\ Taken(items, k) \in Nat /\ Size[call[c].obj] \in Nat
      /\ EvictOver(s, q, b, tab, share, k, ec, bc)
  BY Storing DEF IInv, Cutoff
<1>2. /\ lru \in [Shards -> Seq(Keys)] /\ bytes \in [Shards -> Nat]
      /\ entryCount \in Nat /\ byteCount \in Nat
  BY Typed DEF IInv, TypeOK
<1>3. ec \in Int /\ bc \in Int
  BY <1>1, <1>2
<1> HIDE DEF s, q, b, tab, share, ec, bc, k
<1>4. /\ bytes' \in [Shards -> Nat] /\ Len(lru'[s]) = n
      /\ \A t \in Shards \ {s} : lru'[t] = lru[t] /\ bytes'[t] = bytes[t]
      /\ bytes'[s] = BytesLeft(q, b, tab, n)
  <2>1. n = Left(q, b, tab, share, k)
    OBVIOUS
  <2>2. /\ s \in Shards /\ tab \in Tables /\ Kept(q, b, tab, s)
        /\ \A t \in Shards \ {s} : Kept(lru[t], bytes[t], tab, t)
        /\ EvictOver(s, q, b, tab, share, k, ec, bc)
    BY <1>1
  <2> HIDE DEF n
  <2>3. /\ items' = [x \in Keys |-> IF x \in Behind(q, n) THEN None ELSE tab[x]]
        /\ items' \in Tables
        /\ lru' \in [Shards -> Seq(Keys)] /\ bytes' \in [Shards -> Nat]
        /\ AllKept'
        /\ \A t \in Shards \ {s} : lru'[t] = lru[t] /\ bytes'[t] = bytes[t]
        /\ lru'[s] = SubSeq(q, 1, n) /\ Len(lru'[s]) = n
        /\ bytes'[s] = BytesLeft(q, b, tab, n)
        /\ entryCount' = ec - Len(q) + Len(lru'[s])
        /\ byteCount' = bc - b + bytes'[s]
    BY <1>2, <1>3, <2>1, <2>2, EvictOverKeeps
  <2> QED
    BY <2>3
<1>5. \/ n = 0
      \/ BytesLeft(q, b, tab, n) <= share
      \/ q[n] = k
  BY <1>1, LeftFits
<1>6. n <= 1 \/ bytes'[s] <= share
  <2>1. CASE q[n] = k
    <3>1. n = 1
      BY <1>1, <2>1 DEF Kept, Distinct
    <3> QED
      BY <3>1
  <2>2. n # 0 /\ n \in Nat
    BY <1>1
  <2> QED
    BY <1>4, <1>5, <2>1, <2>2
<1>7. n \in Nat
  BY <1>1
<1> QED
  BY <1>1, <1>4, <1>6, <1>7 DEF s, k, share

\* A removal makes no shard exceed its share.
LEMMA RemoveFits ==
    ASSUME IInv, NEW k \in Keys, items[k] # None, RemoveLocked(k), budget' = budget,
           NEW s \in Shards, Exceeds(s)'
    PROVE  Exceeds(s)
<1>1. /\ \A t \in Shards \ {ShardOf[k]} : lru'[t] = lru[t] /\ bytes'[t] = bytes[t]
      /\ Len(lru'[ShardOf[k]]) = Len(lru[ShardOf[k]]) - 1
      /\ bytes'[ShardOf[k]] = bytes[ShardOf[k]] - SizeOf(k)
      /\ SizeOf(k) \in Nat
  BY Typed, RemoveKeeps DEF IInv
<1>2. /\ Len(lru[s]) \in Nat /\ bytes[s] \in Nat /\ budget \in Nat
      /\ Share(budget) \in Nat
  BY Typed, ShareMonotone DEF IInv
<1>3. Len(lru'[s]) > 1 /\ bytes'[s] > Share(budget)
  BY DEF Exceeds, Share
<1>4. CASE s = ShardOf[k]
  BY <1>1, <1>2, <1>3, <1>4 DEF Exceeds
<1>5. CASE s # ShardOf[k]
  BY <1>1, <1>3, <1>5 DEF Exceeds
<1> QED
  BY <1>4, <1>5

\* A hit moves an entry within its list.
LEMMA HitFits ==
    ASSUME IInv, NEW c \in Callers, NEW k \in Keys, GetHit(c, k), NEW s \in Shards, Exceeds(s)'
    PROVE  Exceeds(s)
<1> DEFINE p == ShardOf[k]
           r == <<k>> \o Unlinked(lru[p], k)
<1>1. Len(r) = Len(lru[p])
  <2> DEFINE e == items[k]
  <2>1. p \in Shards /\ items \in Tables /\ e # None /\ e \in Entries
    BY CacheAssumption, Typed DEF IInv, GetHit, Tables
  <2>2. Kept(lru[p], bytes[p], items, p)
    BY <2>1 DEF IInv, AllKept
  <2>3. items[k] # None
    BY <2>1
  <2> HIDE DEF e
  <2>4. /\ Kept(r, bytes[p] - Taken(items, k) + Size[e.obj], [items EXCEPT ![k] = e], p)
        /\ Len(r) = IF items[k] # None THEN Len(lru[p]) ELSE Len(lru[p]) + 1
    BY <2>1, <2>2, KeptPlaced
  <2> QED
    BY <2>3, <2>4
<1>2. lru' = [lru EXCEPT ![p] = r] /\ UNCHANGED <<bytes, budget>>
  BY DEF GetHit
<1> HIDE DEF r
<1>3. Len(lru'[s]) = Len(lru[s])
  BY <1>1, <1>2, Typed DEF IInv
<1> QED
  BY <1>2, <1>3 DEF Exceeds, Share

\* A cut takes hold of every shard, one after the other, and what is stored
\* under a larger budget that is no longer valid is all that undoes it.
THEOREM CutsHold == Spec => CutsTakeHold
<1> DEFINE A == /\ SweepShard => bytes'[sweep.next] <= Share(budget)
                /\ \A s \in Shards : Exceeds(s)' /\ ~Exceeds(s) => Tick \/ LateSet(s)
<1>1. ASSUME IInv, ShareCurrent, [Next]_vars
      PROVE  A
  <2>1. SweepShard => bytes'[sweep.next] <= Share(budget)
    BY <1>1, SweepFits DEF ShareCurrent
  <2>2. SUFFICES ASSUME NEW s \in Shards, Exceeds(s)', ~Exceeds(s), ~Tick
                 PROVE  LateSet(s)
    BY <2>1
  <2>3. ASSUME UNCHANGED <<lru, bytes, budget>> PROVE FALSE
    BY <2>2, <2>3 DEF Exceeds, Share
  <2>4. ASSUME NEW c \in Callers, NEW k \in Keys, GetHit(c, k) PROVE FALSE
    BY <1>1, <2>2, <2>4, HitFits
  <2>5. ASSUME NEW k \in Keys, Delete(k) \/ \E c \in Callers : GetSpent(c, k) PROVE FALSE
    BY <1>1, <2>2, <2>5, RemoveFits DEF Delete, GetSpent
  <2>6. CASE SweepShard
    <3>1. /\ bytes'[sweep.next] \in Nat /\ bytes'[sweep.next] <= Share(budget)
          /\ \A t \in Shards \ {sweep.next} : lru'[t] = lru[t] /\ bytes'[t] = bytes[t]
      BY <1>1, <2>6, SweepFits DEF ShareCurrent
    <3>2. budget' = budget /\ Share(budget) \in Nat
      BY <1>1, <2>6, Typed, ShareMonotone DEF IInv, SweepShard, NextShard
    <3>3. CASE s = sweep.next
      BY <2>2, <3>1, <3>2, <3>3 DEF Exceeds, Share
    <3>4. CASE s # sweep.next
      BY <2>2, <3>1, <3>2, <3>4 DEF Exceeds, Share
    <3> QED
      BY <3>3, <3>4
  <2>7. ASSUME NEW c \in Callers, SetStore(c) PROVE LateSet(s)
    <3> DEFINE b == call[c].budget
    <3>1. /\ bytes'[ShardOf[call[c].key]] \in Nat /\ Len(lru'[ShardOf[call[c].key]]) \in Nat
          /\ Len(lru'[ShardOf[call[c].key]]) <= 1 \/ bytes'[ShardOf[call[c].key]] <= Share(b)
          /\ \A t \in Shards \ {ShardOf[call[c].key]} : lru'[t] = lru[t] /\ bytes'[t] = bytes[t]
      BY <1>1, <2>7, SetFits
    <3>2. budget' = budget /\ call[c].pc = "set" /\ b \in Nat /\ budget \in Nat
      BY <1>1, <2>7, Typed DEF IInv, SetStore
    <3>3. call'[c] = Idle
      BY <1>1, <2>7, Typed DEF IInv, SetStore
    <3>4. s = ShardOf[call[c].key]
      BY <2>2, <3>1, <3>2 DEF Exceeds, Share
    <3>5. ~(b <= budget)
      <4>1. ASSUME b <= budget PROVE FALSE
        <5>1. Share(b) \in Nat /\ Share(b) <= Share(budget) /\ Share(budget) \in Nat
          BY <3>2, <4>1, ShareMonotone
        <5>2. Len(lru'[s]) > 1 /\ bytes'[s] > Share(budget)
          BY <2>2, <3>2 DEF Exceeds, Share
        <5> HIDE DEF b
        <5> QED
          BY <3>1, <3>4, <5>1, <5>2
      <4> QED
        BY <4>1
    <3> QED
      BY <3>2, <3>3, <3>4, <3>5 DEF LateSet
  <2> QED
    BY <1>1, <2>2, <2>3, <2>4, <2>5, <2>6, <2>7
       DEF Next, vars, SetLoad, Uncount, Expire, MemoryMoves
<1>2. IInv /\ ShareCurrent /\ [Next]_vars => [A]_vars
  BY <1>1
<1> QED
  BY <1>2, IInvHolds, ShareStaysCurrent, PTL DEF Spec, CutsTakeHold

-----------------------------------------------------------------------------
\* The cache as its callers see it.
StoreBar == [k \in Keys |-> IF items[k] = None THEN None ELSE items[k].obj]
OfferBar == [c \in Callers |-> IF call[c].pc = "set"
                               THEN [key |-> call[c].key, obj |-> call[c].obj]
                               ELSE None]

\* A step that takes entries out of the map, and leaves the others' objects
\* alone, is one that forgets.
LEMMA ForgetsSome ==
    ASSUME NEW out \in SUBSET Keys,
           \A k \in Keys : IF k \in out THEN items'[k] = None
                           ELSE /\ items'[k] = None <=> items[k] = None
                                /\ items[k] # None => items'[k].obj = items[k].obj,
           OfferBar' = OfferBar
    PROVE  Dictionary!Forget
<1>1. StoreBar' = [k \in Keys |-> IF k \in out THEN None ELSE StoreBar[k]]
  BY DEF StoreBar
<1>2. \E lost \in SUBSET Keys :
         StoreBar' = [k \in Keys |-> IF k \in lost THEN None ELSE StoreBar[k]]
  BY <1>1
<1> QED
  BY <1>2 DEF Dictionary!Forget, StoreBar, OfferBar

\* Every step of the cache is a step of the store that only forgets.
LEMMA StepMaps == IInv /\ [Next]_vars => [Dictionary!Next]_(Dictionary!vars)
<1> SUFFICES ASSUME IInv, [Next]_vars
             PROVE  Dictionary!Next \/ UNCHANGED Dictionary!vars
  OBVIOUS
<1>0. TypeOK /\ AllKept /\ items \in Tables /\ call \in [Callers -> Calls]
  BY Typed DEF IInv
<1>1. (UNCHANGED <<items, call>>) => UNCHANGED Dictionary!vars
  BY DEF Dictionary!vars
<1>2. ASSUME NEW c \in Callers, NEW k \in Keys, GetSpent(c, k)
      PROVE  Dictionary!Forget
  <2>1. items' = [items EXCEPT ![k] = None]
    BY <1>2 DEF GetSpent, RemoveLocked
  <2>2. OfferBar' = OfferBar
    <3>1. /\ call[c].pc # "set" /\ call'[c].pc # "set"
          /\ \A d \in Callers \ {c} : call'[d] = call[d]
      BY <1>0, <1>2 DEF GetSpent, Idle
    <3> QED
      BY <3>1 DEF OfferBar
  <2>3. \A x \in Keys : IF x \in {k} THEN items'[x] = None ELSE items'[x] = items[x]
    BY <1>0, <2>1 DEF Tables
  <2> QED
    BY <2>2, <2>3, ForgetsSome
<1>3. ASSUME NEW k \in Keys, Delete(k)
      PROVE  Dictionary!Forget
  <2>1. items' = [items EXCEPT ![k] = None] /\ call' = call
    BY <1>3 DEF Delete, RemoveLocked
  <2>2. OfferBar' = OfferBar
    BY <2>1 DEF OfferBar
  <2>3. \A x \in Keys : IF x \in {k} THEN items'[x] = None ELSE items'[x] = items[x]
    BY <1>0, <2>1 DEF Tables
  <2> QED
    BY <2>2, <2>3, ForgetsSome
<1>4. ASSUME NEW k \in Keys, Expire(k)
      PROVE  Dictionary!Forget
  <2>1. items' = [items EXCEPT ![k].spent = TRUE] /\ call' = call /\ items[k] # None
    BY <1>4 DEF Expire
  <2>2. OfferBar' = OfferBar
    BY <2>1 DEF OfferBar
  <2>3. \A x \in Keys : /\ items'[x] = None <=> items[x] = None
                        /\ items[x] # None => items'[x].obj = items[x].obj
    BY <1>0, <2>1, CacheAssumption DEF Tables, Entries
  <2>4. {} \in SUBSET Keys
    OBVIOUS
  <2> QED
    BY <2>2, <2>3, <2>4, ForgetsSome
<1>5. ASSUME SweepShard
      PROVE  Dictionary!Forget
  <2> DEFINE q == lru[sweep.next]
             n == Left(q, bytes[sweep.next], items, sweep.share, None)
             out == Behind(q, n) \cap Keys
  <2>1. items' = [x \in Keys |-> IF x \in Behind(q, n) THEN None ELSE items[x]] /\ call' = call
    BY <1>5 DEF SweepShard, EvictOver
  <2> HIDE DEF n, q
  <2>2. OfferBar' = OfferBar
    BY <2>1 DEF OfferBar
  <2>3. \A x \in Keys : IF x \in out THEN items'[x] = None ELSE items'[x] = items[x]
    BY <2>1
  <2>4. out \in SUBSET Keys
    OBVIOUS
  <2> QED
    BY <2>2, <2>3, <2>4, ForgetsSome
<1>6. ASSUME NEW c \in Callers, Uncount(c)
      PROVE  UNCHANGED Dictionary!vars
  <2>1. /\ call[c].pc # "set" /\ call'[c].pc # "set" /\ items' = items
        /\ \A d \in Callers \ {c} : call'[d] = call[d]
    BY <1>0, <1>6 DEF Uncount, Idle
  <2> QED
    BY <2>1 DEF Dictionary!vars
<1>7. ASSUME NEW c \in Callers, NEW k \in Keys, NEW o \in Objects, SetLoad(c, k, o)
      PROVE  Dictionary!Offer(c)
  <2> DEFINE x == [key |-> k, obj |-> o]
  <2>1. /\ call[c] = Idle /\ items' = items
        /\ call' = [call EXCEPT ![c] =
                      [pc |-> "set", key |-> k, obj |-> o, budget |-> budget]]
    BY <1>7 DEF SetLoad
  <2>2. OfferBar[c] = None /\ StoreBar' = StoreBar
    BY <2>1 DEF OfferBar, StoreBar, Idle
  <2>3. OfferBar' = [OfferBar EXCEPT ![c] = x]
    <3>1. /\ call'[c].pc = "set" /\ call'[c].key = k /\ call'[c].obj = o
          /\ \A d \in Callers \ {c} : call'[d] = call[d]
      BY <1>0, <2>1
    <3> QED
      BY <3>1 DEF OfferBar
  <2>4. x \in Dictionary!Offers
    BY DEF Dictionary!Offers
  <2> QED
    BY <2>2, <2>3, <2>4 DEF Dictionary!Offer, OfferBar, StoreBar
<1>8. ASSUME NEW c \in Callers, SetStore(c)
      PROVE  Dictionary!Accept(c)
  <2> DEFINE k == call[c].key
             o == call[c].obj
             q == Queue(c)
             n == Cutoff(c)
             lost == Behind(q, n) \cap Keys
  <2>1. /\ k \in Keys /\ k \notin Behind(q, n) /\ o \in Objects
        /\ items' = [x \in Keys |-> IF x \in Behind(q, n) THEN None ELSE Table(c)[x]]
        /\ call[c].pc = "set" /\ call' = [call EXCEPT ![c] = Idle]
    <3>1. EvictOver(ShardOf[k], q, Account(c), Table(c), Share(call[c].budget), k,
                    entryCount + (IF items[k] # None THEN 0 ELSE 1),
                    byteCount - Taken(items, k) + Size[call[c].obj])
      BY <1>0, <1>8, Storing
    <3>2. items' = [x \in Keys |-> IF x \in Behind(q, n) THEN None ELSE Table(c)[x]]
      BY <3>1 DEF EvictOver, Cutoff
    <3>3. k \in Keys /\ k \notin Behind(q, n)
      BY <1>0, <1>8, Storing
    <3>4. call[c].pc = "set" /\ call' = [call EXCEPT ![c] = Idle] /\ o \in Objects
      BY <1>0, <1>8, Typed DEF SetStore
    <3> QED
      BY <3>2, <3>3, <3>4
  <2>2. OfferBar[c] = [key |-> k, obj |-> o] /\ OfferBar[c] # None
    <3>1. OfferBar[c] = [key |-> k, obj |-> o]
      BY <2>1 DEF OfferBar
    <3>2. [key |-> k, obj |-> o] \in [key : Keys, obj : Objects]
      BY <2>1
    <3> QED
      BY <3>1, <3>2, CacheAssumption
  <2>3. OfferBar' = [OfferBar EXCEPT ![c] = None]
    <3>1. call'[c].pc # "set" /\ \A d \in Callers \ {c} : call'[d] = call[d]
      BY <1>0, <2>1 DEF Idle
    <3> HIDE DEF k, o
    <3> QED
      BY <3>1 DEF OfferBar
  <2>4. [obj |-> o, spent |-> FALSE] # None
    <3>1. [obj |-> o, spent |-> FALSE] \in Entries
      BY <2>1 DEF Entries
    <3> QED
      BY <3>1, CacheAssumption
  <2>5. items'[k] = [obj |-> o, spent |-> FALSE]
    BY <1>0, <2>1 DEF Table, Tables
  <2>6. \A x \in Keys \ {k} : items'[x] = IF x \in lost THEN None ELSE items[x]
    BY <1>0, <2>1 DEF Table, Tables
  <2>7. lost \in SUBSET (Keys \ {k})
    BY <2>1
  <2> HIDE DEF lost, q, n, k, o
  <2>8. StoreBar' = [x \in Keys |-> IF x = k THEN o ELSE IF x \in lost THEN None ELSE StoreBar[x]]
    <3>1. items'[k].obj = o /\ items'[k] # None
      BY <2>4, <2>5
    <3> QED
      BY <2>6, <3>1 DEF StoreBar
  <2>9. /\ OfferBar[c] # None
        /\ \E gone \in SUBSET (Keys \ {OfferBar[c].key}) :
             StoreBar' = [x \in Keys |-> IF x = OfferBar[c].key THEN OfferBar[c].obj
                                         ELSE IF x \in gone THEN None ELSE StoreBar[x]]
        /\ OfferBar' = [OfferBar EXCEPT ![c] = None]
    <3>1. OfferBar[c].key = k /\ OfferBar[c].obj = o
      BY <2>2
    <3> QED
      BY <2>2, <2>3, <2>7, <2>8, <3>1
  <2> QED
    BY <2>9 DEF Dictionary!Accept, OfferBar, StoreBar
<1>9. \/ UNCHANGED <<items, call>>
      \/ \E c \in Callers, k \in Keys : GetSpent(c, k) \/ \E o \in Objects : SetLoad(c, k, o)
      \/ \E c \in Callers : Uncount(c) \/ SetStore(c)
      \/ \E k \in Keys : Delete(k) \/ Expire(k)
      \/ SweepShard
  BY DEF Next, vars, GetHit, Tick, MemoryMoves
<1> QED
  BY <1>1, <1>2, <1>3, <1>4, <1>5, <1>6, <1>7, <1>8, <1>9 DEF Dictionary!Next

\* What Get returns under a key is what the latest completed Set stored
\* there: the cache implements the store that only ever forgets.
THEOREM CacheIsLossyStore == Spec => ImplementsLossyStore
<1>1. Init => Dictionary!Init
  BY DEF Init, Dictionary!Init, Idle
<1> QED
  BY <1>1, StepMaps, IInvHolds, PTL DEF Spec, ImplementsLossyStore, Dictionary!Spec

-----------------------------------------------------------------------------
(***************************************************************************)
(* What BudgetRecovers and PressureRelieved rest on, fairness aside.       *)
(***************************************************************************)

\* Every tick of the watchdog under pressure takes something off the budget,
\* and every one with plenty of memory adds something, neither past its bound;
\* and nothing else moves the budget.
TicksMove ==
    [][/\ Shrink => Floor <= budget' /\ budget' < budget
       /\ Grow => budget < budget' /\ budget' <= Target
       /\ budget' # budget => Shrink \/ Grow]_vars

\* A cut of a quarter is one of at least 1, unless it ends at the floor.
LEMMA CutIsLess ==
    ASSUME NEW b \in Nat, NEW f \in Nat, b > f
    PROVE  (b * 3) \div 4 < b
  OBVIOUS

\* A tenth of at least 10 is at least 1.
LEMMA TenthIsSome ==
    ASSUME NEW b \in Nat, b >= 10
    PROVE  b \div 10 \in Nat /\ b \div 10 >= 1
  OBVIOUS

\* The floor, if it is at least 10, keeps the watchdog going: no rounding stops
\* it between the floor and the target.
THEOREM WatchdogMoves == Floor >= 10 => (Spec => TicksMove)
<1>1. ASSUME Floor >= 10, TypeOK, [Next]_vars
      PROVE  /\ Shrink => Floor <= budget' /\ budget' < budget
             /\ Grow => budget < budget' /\ budget' <= Target
             /\ budget' # budget => Shrink \/ Grow
  <2>1. /\ budget \in Nat /\ Target \in Nat /\ Floor \in Nat
        /\ budget <= Target /\ (budget >= Floor \/ budget = Target)
    BY <1>1, CacheAssumption DEF TypeOK, Budgets
  <2>2. ASSUME Shrink PROVE Floor <= budget' /\ budget' < budget
    <3>1. budget > Floor /\ budget' = Shrunk(budget)
      BY <2>2 DEF Shrink, SetBudget
    <3>2. (budget * 3) \div 4 < budget /\ (budget * 3) \div 4 \in Int
      BY <2>1, <3>1, CutIsLess
    <3> QED
      BY <2>1, <3>1, <3>2 DEF Shrunk
  <2>3. ASSUME Grow PROVE budget < budget' /\ budget' <= Target
    <3>1. budget < Target /\ budget' = Grown(budget)
      BY <2>3 DEF Grow, SetBudget
    <3>2. budget \div 10 \in Nat /\ budget \div 10 >= 1
      BY <1>1, <2>1, <3>1, TenthIsSome
    <3> QED
      BY <2>1, <3>1, <3>2 DEF Grown
  <2>4. budget' # budget => Shrink \/ Grow
    BY <1>1 DEF Next, vars, GetHit, GetSpent, SetLoad, Uncount, SetStore, Delete, Expire, Tick,
                SweepShard, NextShard, MemoryMoves
  <2> QED
    BY <2>2, <2>3, <2>4
<1> SUFFICES ASSUME Floor >= 10 PROVE Spec => TicksMove
  OBVIOUS
<1>2. TypeOK /\ [Next]_vars =>
        [/\ Shrink => Floor <= budget' /\ budget' < budget
         /\ Grow => budget < budget' /\ budget' <= Target
         /\ budget' # budget => Shrink \/ Grow]_vars
  BY <1>1
<1> QED
  BY <1>2, CacheTyped, PTL DEF Spec, TicksMove
=============================================================================

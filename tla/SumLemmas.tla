----------------------------- MODULE SumLemmas -----------------------------
(***************************************************************************)
(* Facts about SumFunctionOnSet, the sum in which ObjectCache keeps its    *)
(* accounts and ImagePixels the window of a blur.  The community module    *)
(* defines it by a fold whose order is a CHOOSE; here that fold is shown   *)
(* to be well defined, and the sum not to depend on the order.  The        *)
(* inductions are over sets of numbers and of sets, which follow, like     *)
(* that some indices have a last, from well-foundedness.                   *)
(***************************************************************************)
EXTENDS Functions, FiniteSetTheorems, WellFoundedInduction, TLAPS

\* Induction over the naturals, with a set in place of a predicate.
LEMMA NatInductionSet ==
    ASSUME NEW P \in SUBSET Nat, 0 \in P, \A n \in P : n + 1 \in P
    PROVE  P = Nat
<1> DEFINE R == {p \in Nat \X Nat : p[1] < p[2]}
           T == Nat \ P
<1>1. IsWellFoundedOn(R, Nat)
  <2>1. R = OpToRel(<, Nat)
    BY DEF OpToRel
  <2> QED
    BY <2>1, NatLessThanWellFounded
<1>2. CASE T # {}
  <2>1. PICK n \in T : \A m \in T : <<m, n>> \notin R
    <3> HIDE DEF R
    <3> QED
      BY <1>1, <1>2, WFMin
  <2>2. n # 0 /\ n \in Nat
    OBVIOUS
  <2>3. n - 1 \in Nat /\ n - 1 < n
    BY <2>2
  <2>4. n - 1 \in P
    BY <2>1, <2>2, <2>3
  <2>5. (n - 1) + 1 = n
    BY <2>2
  <2> QED
    BY <2>4, <2>5
<1> QED
  BY <1>2

\* Of some indices of a sequence one is the last.
LEMMA LastIndex ==
    ASSUME NEW n \in Nat, NEW S \in SUBSET (1..n), S # {}
    PROVE  \E i \in S : \A j \in S : j <= i
<1> DEFINE R == {p \in Nat \X Nat : p[1] < p[2]}
           T == {n - i : i \in S}
<1>1. R = OpToRel(<, Nat)
  BY DEF OpToRel
<1>2. IsWellFoundedOn(R, Nat)
  BY <1>1, NatLessThanWellFounded
<1>3. T \subseteq Nat /\ T # {}
  <2>1. \A i \in S : n - i \in Nat
    OBVIOUS
  <2>2. PICK i \in S : TRUE
    OBVIOUS
  <2>3. n - i \in T
    BY <2>2
  <2> QED
    BY <2>1, <2>3
<1>4. PICK x \in T : \A y \in T : <<y, x>> \notin R
  <2> HIDE DEF R, T
  <2> QED
    BY <1>2, <1>3, WFMin
<1>5. PICK i \in S : x = n - i
  OBVIOUS
<1>6. ASSUME NEW j \in S
      PROVE  j <= i
  <2>1. n - j \in T /\ n - j \in Nat /\ x \in Nat
    BY <1>3
  <2>2. ~(n - j < x)
    BY <2>1, <1>4
  <2> QED
    BY <2>2, <1>5
<1> QED
  BY <1>6

\* Induction over the subsets of a finite set, one element at a time.
LEMMA SubsetInduction ==
    ASSUME NEW S, IsFiniteSet(S), NEW Q \in SUBSET SUBSET S,
           {} \in Q, \A T \in Q : \A x \in S \ T : T \cup {x} \in Q
    PROVE  Q = SUBSET S
<1> DEFINE P == {n \in Nat : \A T \in SUBSET S : Cardinality(T) = n => T \in Q}
<1>1. \A T \in SUBSET S : IsFiniteSet(T) /\ Cardinality(T) \in Nat
  BY FS_Subset, FS_CardinalityType
<1>2. 0 \in P
  BY <1>1, FS_EmptySet
<1>3. ASSUME NEW n \in P
      PROVE  n + 1 \in P
  <2> SUFFICES ASSUME NEW T \in SUBSET S, Cardinality(T) = n + 1
               PROVE  T \in Q
    OBVIOUS
  <2>1. T # {}
    BY FS_EmptySet
  <2>2. PICK x \in T : TRUE
    BY <2>1
  <2>3. Cardinality(T \ {x}) = n
    BY <1>1, <2>2, FS_RemoveElement
  <2>4. T \ {x} \in Q
    BY <2>3
  <2>5. (T \ {x}) \cup {x} \in Q
    BY <2>4
  <2>6. (T \ {x}) \cup {x} = T
    BY <2>2
  <2> QED
    BY <2>5, <2>6
<1>4. P = Nat
  <2> HIDE DEF P
  <2> QED
    BY <1>2, <1>3, NatInductionSet DEF P
<1> QED
  BY <1>1, <1>4

\* The element that the fold takes first.
Pick(s) == CHOOSE x \in s : TRUE

\* The equation that the fold's iterator satisfies.
Iterates(g, f, D) ==
    g = [s \in D |-> IF s = {} THEN 0 ELSE f[Pick(s)] + g[s \ {Pick(s)}]]

\* The sum is what some iterator over the subsets of S gives for S.
LEMMA SumIs ==
    ASSUME NEW f, NEW S
    PROVE  SumFunctionOnSet(f, S) = (CHOOSE g : Iterates(g, f, SUBSET S))[S]
  BY DEF SumFunctionOnSet, FoldFunctionOnSet, MapThenFoldSet, Iterates, Pick

\* There is an iterator for every finite set: it is built up by cardinality.
LEMMA Iterator ==
    ASSUME NEW f, NEW S, IsFiniteSet(S)
    PROVE  \E g : Iterates(g, f, SUBSET S)
<1> DEFINE Small(n) == {s \in SUBSET S : Cardinality(s) <= n}
           P == {n \in Nat : \E g : Iterates(g, f, Small(n))}
<1>1. \A T \in SUBSET S : IsFiniteSet(T) /\ Cardinality(T) \in Nat
  BY FS_Subset, FS_CardinalityType
<1>2. \A s \in SUBSET S : s # {} =>
         Pick(s) \in s /\ Cardinality(s \ {Pick(s)}) = Cardinality(s) - 1
  BY <1>1, FS_RemoveElement DEF Pick
<1>3. 0 \in P
  <2> DEFINE g == [s \in Small(0) |-> 0]
  <2>1. \A s \in Small(0) : s = {}
    BY <1>1, FS_EmptySet
  <2>2. Iterates(g, f, Small(0))
    BY <2>1 DEF Iterates
  <2> QED
    BY <2>2
<1>4. ASSUME NEW n \in P
      PROVE  n + 1 \in P
  <2>1. PICK g : Iterates(g, f, Small(n))
    OBVIOUS
  <2> DEFINE h == [s \in Small(n + 1) |->
                     IF s = {} THEN 0 ELSE f[Pick(s)] + g[s \ {Pick(s)}]]
  <2>2. \A s \in Small(n) : h[s] = g[s]
    <3>1. Small(n) \subseteq Small(n + 1)
      BY <1>1
    <3> QED
      BY <2>1, <3>1 DEF Iterates
  <2>3. \A s \in Small(n + 1) : s # {} => s \ {Pick(s)} \in Small(n)
    BY <1>1, <1>2
  <2>4. Iterates(h, f, Small(n + 1))
    <3> HIDE DEF Small
    <3> QED
      BY <2>2, <2>3 DEF Iterates
  <2>5. \E k : Iterates(k, f, Small(n + 1))
    <3> HIDE DEF h, Small
    <3> QED
      BY <2>4
  <2>6. n + 1 \in Nat
    OBVIOUS
  <2> HIDE DEF Small
  <2> QED
    BY <2>5, <2>6
<1>5. P = Nat
  <2> HIDE DEF P
  <2> QED
    BY <1>3, <1>4, NatInductionSet DEF P
<1>6. Cardinality(S) \in P /\ Cardinality(S) \in Nat
  BY <1>1, <1>5
<1>7. Small(Cardinality(S)) = SUBSET S
  BY <1>1, FS_Subset
<1> QED
  BY <1>6, <1>7

\* Two iterators agree wherever both are defined.
LEMMA IteratorsAgree ==
    ASSUME NEW f, NEW S, NEW T \in SUBSET S, IsFiniteSet(S), NEW g, NEW h,
           Iterates(g, f, SUBSET S), Iterates(h, f, SUBSET T)
    PROVE  g[T] = h[T]
<1> DEFINE P == {n \in Nat : \A s \in SUBSET T : Cardinality(s) = n => g[s] = h[s]}
<1>1. \A s \in SUBSET S : IsFiniteSet(s) /\ Cardinality(s) \in Nat
  BY FS_Subset, FS_CardinalityType
<1>2. \A s \in SUBSET S : s # {} =>
         Pick(s) \in s /\ Cardinality(s \ {Pick(s)}) = Cardinality(s) - 1
  BY <1>1, FS_RemoveElement DEF Pick
<1>3. \A s \in SUBSET T : /\ g[s] = IF s = {} THEN 0 ELSE f[Pick(s)] + g[s \ {Pick(s)}]
                          /\ h[s] = IF s = {} THEN 0 ELSE f[Pick(s)] + h[s \ {Pick(s)}]
  BY DEF Iterates
<1>4. 0 \in P
  BY <1>1, <1>3, FS_EmptySet
<1>5. ASSUME NEW n \in P
      PROVE  n + 1 \in P
  <2> SUFFICES ASSUME NEW s \in SUBSET T, Cardinality(s) = n + 1
               PROVE  g[s] = h[s]
    OBVIOUS
  <2>1. s # {}
    <3>1. n \in Nat /\ n + 1 # 0
      OBVIOUS
    <3> QED
      BY <3>1, FS_EmptySet
  <2>2. s \ {Pick(s)} \in SUBSET T /\ Cardinality(s \ {Pick(s)}) = n
    BY <1>2, <2>1
  <2>3. g[s \ {Pick(s)}] = h[s \ {Pick(s)}]
    BY <2>2
  <2> QED
    BY <1>3, <2>1, <2>3
<1>6. P = Nat
  <2> HIDE DEF P
  <2> QED
    BY <1>4, <1>5, NatInductionSet DEF P
<1> QED
  BY <1>1, <1>6

\* The sum unfolds at the element the fold picks.
LEMMA SumRecursion ==
    ASSUME NEW f, NEW S, IsFiniteSet(S)
    PROVE  SumFunctionOnSet(f, S) =
              IF S = {} THEN 0 ELSE f[Pick(S)] + SumFunctionOnSet(f, S \ {Pick(S)})
<1> DEFINE g == CHOOSE g : Iterates(g, f, SUBSET S)
           T == S \ {Pick(S)}
           h == CHOOSE h : Iterates(h, f, SUBSET T)
<1>1. IsFiniteSet(T)
  BY FS_Subset
<1>2. Iterates(g, f, SUBSET S)
  BY Iterator
<1>3. Iterates(h, f, SUBSET T)
  BY <1>1, Iterator
<1>4. SumFunctionOnSet(f, S) = g[S] /\ SumFunctionOnSet(f, T) = h[T]
  BY SumIs
<1>5. g[T] = h[T]
  <2> HIDE DEF g, h
  <2> QED
    BY <1>2, <1>3, IteratorsAgree
<1>6. g[S] = IF S = {} THEN 0 ELSE f[Pick(S)] + g[T]
  <2> HIDE DEF g
  <2> QED
    BY <1>2 DEF Iterates
<1> QED
  BY <1>4, <1>5, <1>6

-----------------------------------------------------------------------------
\* An empty account is zero.
LEMMA SumEmpty ==
    ASSUME NEW f
    PROVE  SumFunctionOnSet(f, {}) = 0
  BY SumRecursion, FS_EmptySet

\* A sum of integers is one.
LEMMA SumInt ==
    ASSUME NEW f, NEW S, IsFiniteSet(S), \A x \in S : f[x] \in Int
    PROVE  SumFunctionOnSet(f, S) \in Int
<1> DEFINE P == {n \in Nat : \A T \in SUBSET S : Cardinality(T) = n => SumFunctionOnSet(f, T) \in Int}
<1>1. \A T \in SUBSET S : IsFiniteSet(T) /\ Cardinality(T) \in Nat
  BY FS_Subset, FS_CardinalityType
<1>2. 0 \in P
  BY <1>1, FS_EmptySet, SumEmpty
<1>3. ASSUME NEW n \in P
      PROVE  n + 1 \in P
  <2> SUFFICES ASSUME NEW T \in SUBSET S, Cardinality(T) = n + 1
               PROVE  SumFunctionOnSet(f, T) \in Int
    OBVIOUS
  <2>1. n \in Nat /\ n + 1 # 0
    OBVIOUS
  <2>2. T # {}
    BY <2>1, FS_EmptySet
  <2>3. Pick(T) \in T
    BY <2>2 DEF Pick
  <2>4. Cardinality(T \ {Pick(T)}) = n
    <3>1. IsFiniteSet(T) /\ Cardinality(T) = n + 1
      BY <1>1
    <3>2. Cardinality(T \ {Pick(T)}) = Cardinality(T) - 1
      BY ONLY <3>1, <2>3, FS_RemoveElement
    <3> QED
      BY ONLY <3>1, <3>2, <2>1
  <2>5. SumFunctionOnSet(f, T \ {Pick(T)}) \in Int
    BY <2>4
  <2> QED
    BY <1>1, <2>2, <2>3, <2>5, SumRecursion
<1>4. P = Nat
  <2> HIDE DEF P
  <2> QED
    BY <1>2, <1>3, NatInductionSet DEF P
<1> QED
  BY <1>1, <1>4

\* Which element comes first does not matter.
LEMMA SumRemove ==
    ASSUME NEW f, NEW S, IsFiniteSet(S), \A x \in S : f[x] \in Int, NEW y \in S
    PROVE  SumFunctionOnSet(f, S) = SumFunctionOnSet(f, S \ {y}) + f[y]
<1> DEFINE Sum(T) == SumFunctionOnSet(f, T)
           P == {n \in Nat : \A T \in SUBSET S : \A x \in T :
                    Cardinality(T) = n => Sum(T) = Sum(T \ {x}) + f[x]}
<1>1. \A T \in SUBSET S : IsFiniteSet(T) /\ Cardinality(T) \in Nat /\ Sum(T) \in Int
  BY FS_Subset, FS_CardinalityType, SumInt
<1>2. 0 \in P
  BY <1>1, FS_EmptySet
<1>3. ASSUME NEW n \in P
      PROVE  n + 1 \in P
  <2> SUFFICES ASSUME NEW T \in SUBSET S, NEW x \in T, Cardinality(T) = n + 1
               PROVE  Sum(T) = Sum(T \ {x}) + f[x]
    OBVIOUS
  <2> DEFINE z == Pick(T)
  <2>1. n \in Nat /\ z \in T
    BY DEF Pick
  <2>2. Sum(T) = f[z] + Sum(T \ {z})
    BY <1>1, SumRecursion
  <2>3. f[z] \in Int /\ f[x] \in Int /\ Sum(T \ {z}) \in Int
    BY <1>1, <2>1
  <2> HIDE DEF z, Sum
  <2>4. CASE x = z
    BY <2>2, <2>3, <2>4
  <2>5. CASE x # z
    <3>1. Cardinality(T \ {z}) = n /\ Cardinality(T \ {x}) = n
      <4>1. \A v \in T : Cardinality(T \ {v}) = Cardinality(T) - 1
        BY <1>1, FS_RemoveElement
      <4> HIDE DEF P
      <4> QED
        BY <2>1, <4>1
    <3>2. Sum(T \ {z}) = Sum((T \ {z}) \ {x}) + f[x]
      BY <2>1, <2>5, <3>1
    <3>3. Sum(T \ {x}) = Sum((T \ {x}) \ {z}) + f[z]
      BY <2>1, <2>5, <3>1
    <3>4. (T \ {z}) \ {x} = (T \ {x}) \ {z}
      OBVIOUS
    <3>5. Sum((T \ {x}) \ {z}) \in Int
      BY <1>1
    <3> QED
      BY <2>2, <2>3, <3>2, <3>3, <3>4, <3>5
  <2> QED
    BY <2>4, <2>5
<1>4. P = Nat
  <2> HIDE DEF P
  <2> QED
    BY <1>2, <1>3, NatInductionSet DEF P
<1> QED
  BY <1>1, <1>4

\* An element that is not there yet adds its value.
LEMMA SumAdd ==
    ASSUME NEW f, NEW S, IsFiniteSet(S), NEW x, x \notin S,
           \A y \in S \cup {x} : f[y] \in Int
    PROVE  SumFunctionOnSet(f, S \cup {x}) = SumFunctionOnSet(f, S) + f[x]
<1>1. IsFiniteSet(S \cup {x})
  BY FS_AddElement
<1>2. (S \cup {x}) \ {x} = S
  OBVIOUS
<1>3. SumFunctionOnSet(f, S \cup {x}) = SumFunctionOnSet(f, (S \cup {x}) \ {x}) + f[x]
  BY <1>1, SumRemove
<1> QED
  BY <1>2, <1>3

\* A sum looks at its function on the summed set only.
LEMMA SumSame ==
    ASSUME NEW f, NEW g, NEW S, IsFiniteSet(S),
           \A x \in S : f[x] \in Int /\ f[x] = g[x]
    PROVE  SumFunctionOnSet(f, S) = SumFunctionOnSet(g, S)
<1> DEFINE Q == {T \in SUBSET S : SumFunctionOnSet(f, T) = SumFunctionOnSet(g, T)}
<1>0. Q \in SUBSET SUBSET S
  OBVIOUS
<1>1. {} \in Q
  BY SumEmpty
<1>2. ASSUME NEW T \in Q, NEW x \in S \ T
      PROVE  T \cup {x} \in Q
  <2>1. IsFiniteSet(T)
    BY FS_Subset
  <2>2. SumFunctionOnSet(f, T \cup {x}) = SumFunctionOnSet(f, T) + f[x]
    BY <2>1, SumAdd
  <2>3. SumFunctionOnSet(g, T \cup {x}) = SumFunctionOnSet(g, T) + g[x]
    BY <2>1, SumAdd
  <2> QED
    BY <2>2, <2>3
<1>3. Q = SUBSET S
  <2> HIDE DEF Q
  <2> QED
    BY <1>0, <1>1, <1>2, SubsetInduction
<1> QED
  BY <1>3

\* A sum of zeros is zero.
LEMMA SumZero ==
    ASSUME NEW f, NEW S, IsFiniteSet(S), \A x \in S : f[x] = 0
    PROVE  SumFunctionOnSet(f, S) = 0
<1> DEFINE Q == {T \in SUBSET S : SumFunctionOnSet(f, T) = 0}
<1>0. Q \in SUBSET SUBSET S
  OBVIOUS
<1>1. {} \in Q
  BY SumEmpty
<1>2. ASSUME NEW T \in Q, NEW x \in S \ T
      PROVE  T \cup {x} \in Q
  <2>1. IsFiniteSet(T)
    BY FS_Subset
  <2>2. SumFunctionOnSet(f, T \cup {x}) = SumFunctionOnSet(f, T) + f[x]
    BY <2>1, SumAdd
  <2> QED
    BY <2>2
<1>3. Q = SUBSET S
  <2> HIDE DEF Q
  <2> QED
    BY <1>0, <1>1, <1>2, SubsetInduction
<1> QED
  BY <1>3

\* A sum of naturals is one.
LEMMA SumNat ==
    ASSUME NEW f, NEW S, IsFiniteSet(S), \A x \in S : f[x] \in Nat
    PROVE  SumFunctionOnSet(f, S) \in Nat
<1> DEFINE Q == {T \in SUBSET S : SumFunctionOnSet(f, T) \in Nat}
<1>0. Q \in SUBSET SUBSET S
  OBVIOUS
<1>1. {} \in Q
  BY SumEmpty
<1>2. ASSUME NEW T \in Q, NEW x \in S \ T
      PROVE  T \cup {x} \in Q
  <2>1. IsFiniteSet(T)
    BY FS_Subset
  <2>2. SumFunctionOnSet(f, T \cup {x}) = SumFunctionOnSet(f, T) + f[x]
    BY <2>1, SumAdd
  <2>3. SumFunctionOnSet(f, T) \in Nat /\ f[x] \in Nat
    OBVIOUS
  <2> QED
    BY <2>2, <2>3
<1>3. Q = SUBSET S
  <2> HIDE DEF Q
  <2> QED
    BY <1>0, <1>1, <1>2, SubsetInduction
<1> QED
  BY <1>3

\* The sum over two disjoint sets splits.
LEMMA SumUnion ==
    ASSUME NEW f, NEW S, IsFiniteSet(S), NEW T, IsFiniteSet(T), S \cap T = {},
           \A x \in S \cup T : f[x] \in Int
    PROVE  SumFunctionOnSet(f, S \cup T) = SumFunctionOnSet(f, S) + SumFunctionOnSet(f, T)
<1> DEFINE Sum(U) == SumFunctionOnSet(f, U)
           Q == {U \in SUBSET T : Sum(S \cup U) = Sum(S) + Sum(U)}
<1>0. Q \in SUBSET SUBSET T
  OBVIOUS
<1>1. {} \in Q
  <2>1. Sum({}) = 0 /\ Sum(S) \in Int
    BY SumEmpty, SumInt
  <2>2. S \cup {} = S
    OBVIOUS
  <2> HIDE DEF Sum
  <2> QED
    BY <2>1, <2>2
<1>2. ASSUME NEW U \in Q, NEW x \in T \ U
      PROVE  U \cup {x} \in Q
  <2>1. IsFiniteSet(U) /\ IsFiniteSet(S \cup U)
    <3>1. IsFiniteSet(U)
      BY FS_Subset
    <3> QED
      BY <3>1, FS_Union
  <2>2. Sum(U \cup {x}) = Sum(U) + f[x]
    BY <2>1, SumAdd
  <2>3. Sum((S \cup U) \cup {x}) = Sum(S \cup U) + f[x]
    BY <2>1, SumAdd
  <2>4. Sum(S) \in Int /\ Sum(U) \in Int /\ f[x] \in Int
    BY <2>1, SumInt
  <2>5. S \cup (U \cup {x}) = (S \cup U) \cup {x}
    OBVIOUS
  <2>6. Sum(S \cup U) = Sum(S) + Sum(U)
    OBVIOUS
  <2>7. Sum(S \cup (U \cup {x})) = Sum(S \cup U) + f[x]
    BY <2>3, <2>5
  <2>8. Sum(S \cup (U \cup {x})) = Sum(S) + Sum(U \cup {x})
    <3> HIDE DEF Sum, Q
    <3> QED
      BY <2>2, <2>4, <2>6, <2>7
  <2> QED
    BY <2>8
<1>3. Q = SUBSET T
  <2> HIDE DEF Q
  <2> QED
    BY <1>0, <1>1, <1>2, SubsetInduction
<1> QED
  BY <1>3

\* Changing one value changes the sum by the difference.
LEMMA SumUpdate ==
    ASSUME NEW S, IsFiniteSet(S), NEW f, NEW g, NEW y \in S,
           \A x \in S : f[x] \in Int /\ g[x] \in Int /\ (x # y => g[x] = f[x])
    PROVE  SumFunctionOnSet(g, S) = SumFunctionOnSet(f, S) - f[y] + g[y]
<1>1. IsFiniteSet(S \ {y})
  BY FS_Subset
<1>2. SumFunctionOnSet(f, S) = SumFunctionOnSet(f, S \ {y}) + f[y]
  BY SumRemove
<1>3. SumFunctionOnSet(g, S) = SumFunctionOnSet(g, S \ {y}) + g[y]
  BY SumRemove
<1>4. SumFunctionOnSet(f, S \ {y}) = SumFunctionOnSet(g, S \ {y})
  BY <1>1, SumSame
<1>5. SumFunctionOnSet(f, S \ {y}) \in Int
  BY <1>1, SumInt
<1> QED
  BY <1>2, <1>3, <1>4, <1>5

\* The sum of a function is the sum over its domain.
LEMMA SumDomain ==
    ASSUME NEW f
    PROVE  SumFunction(f) = SumFunctionOnSet(f, DOMAIN f)
  BY DEF SumFunction, SumFunctionOnSet, FoldFunction

\* A sum may be taken under other names of its terms.
LEMMA SumReindex ==
    ASSUME NEW f, NEW g, NEW b, NEW S, IsFiniteSet(S),
           \A x \in S : f[x] \in Int /\ f[x] = g[b[x]],
           \A x, y \in S : b[x] = b[y] => x = y
    PROVE  SumFunctionOnSet(g, {b[x] : x \in S}) = SumFunctionOnSet(f, S)
<1> DEFINE Image(T) == {b[x] : x \in T}
           Q == {T \in SUBSET S : /\ IsFiniteSet(Image(T))
                                  /\ SumFunctionOnSet(g, Image(T)) = SumFunctionOnSet(f, T)}
<1>0. Q \in SUBSET SUBSET S
  OBVIOUS
<1>1. {} \in Q
  <2>1. Image({}) = {}
    OBVIOUS
  <2> HIDE DEF Image
  <2> QED
    BY <2>1, SumEmpty, FS_EmptySet
<1>2. ASSUME NEW T \in Q, NEW x \in S \ T
      PROVE  T \cup {x} \in Q
  <2>1. IsFiniteSet(T) /\ T \in SUBSET S
    BY FS_Subset
  <2>2. Image(T \cup {x}) = Image(T) \cup {b[x]} /\ b[x] \notin Image(T)
    BY <2>1
  <2>3. \A y \in Image(T) \cup {b[x]} : g[y] \in Int
    BY <2>1
  <2>4. IsFiniteSet(Image(T)) /\ SumFunctionOnSet(g, Image(T)) = SumFunctionOnSet(f, T)
    OBVIOUS
  <2> HIDE DEF Image, Q
  <2>5. IsFiniteSet(Image(T) \cup {b[x]})
    BY ONLY <2>4, FS_AddElement
  <2>6. SumFunctionOnSet(g, Image(T) \cup {b[x]}) = SumFunctionOnSet(g, Image(T)) + g[b[x]]
    BY ONLY <2>2, <2>3, <2>4, SumAdd
  <2>7. SumFunctionOnSet(f, T \cup {x}) = SumFunctionOnSet(f, T) + f[x]
    BY <2>1, SumAdd
  <2> QED
    BY <2>1, <2>2, <2>4, <2>5, <2>6, <2>7 DEF Q
<1>3. Q = SUBSET S
  <2> HIDE DEF Q
  <2> QED
    BY <1>0, <1>1, <1>2, SubsetInduction
<1> QED
  BY <1>3

\* A sum of equal terms is a product.
LEMMA SumConstant ==
    ASSUME NEW f, NEW S, IsFiniteSet(S), NEW c \in Int, \A x \in S : f[x] = c
    PROVE  SumFunctionOnSet(f, S) = c * Cardinality(S)
<1> DEFINE Q == {T \in SUBSET S : SumFunctionOnSet(f, T) = c * Cardinality(T)}
<1>0. Q \in SUBSET SUBSET S
  OBVIOUS
<1>1. {} \in Q
  BY SumEmpty, FS_EmptySet
<1>2. ASSUME NEW T \in Q, NEW x \in S \ T
      PROVE  T \cup {x} \in Q
  <2>1. IsFiniteSet(T)
    BY FS_Subset
  <2>2. SumFunctionOnSet(f, T \cup {x}) = SumFunctionOnSet(f, T) + c
    BY <2>1, SumAdd
  <2>3. PICK n \in Nat : n = Cardinality(T) /\ Cardinality(T \cup {x}) = n + 1
    BY <2>1, FS_AddElement, FS_CardinalityType
  <2>4. c * (n + 1) = c * n + c
    OBVIOUS
  <2> QED
    BY <2>2, <2>3, <2>4
<1>3. Q = SUBSET S
  <2> HIDE DEF Q
  <2> QED
    BY <1>0, <1>1, <1>2, SubsetInduction
<1> QED
  BY <1>3

\* A sum of terms that are at most c is at most what c in each place makes.
LEMMA SumAtMost ==
    ASSUME NEW f, NEW S, IsFiniteSet(S), NEW c \in Int, \A x \in S : f[x] \in Int /\ f[x] <= c
    PROVE  SumFunctionOnSet(f, S) <= c * Cardinality(S)
<1> DEFINE Q == {T \in SUBSET S : SumFunctionOnSet(f, T) <= c * Cardinality(T)}
<1>0. Q \in SUBSET SUBSET S
  OBVIOUS
<1>1. {} \in Q
  <2>1. SumFunctionOnSet(f, {}) = 0 /\ Cardinality({}) = 0 /\ c * 0 = 0
    BY SumEmpty, FS_EmptySet
  <2> QED
    BY <2>1
<1>2. ASSUME NEW T \in Q, NEW x \in S \ T
      PROVE  T \cup {x} \in Q
  <2>1. IsFiniteSet(T) /\ SumFunctionOnSet(f, T) \in Int
    <3>1. IsFiniteSet(T)
      BY FS_Subset
    <3> QED
      BY <3>1, SumInt
  <2>2. SumFunctionOnSet(f, T \cup {x}) = SumFunctionOnSet(f, T) + f[x]
    BY <2>1, SumAdd
  <2>3. PICK n \in Nat : n = Cardinality(T) /\ Cardinality(T \cup {x}) = n + 1
    BY <2>1, FS_AddElement, FS_CardinalityType
  <2>4. c * (n + 1) = c * n + c /\ f[x] \in Int /\ f[x] <= c
    OBVIOUS
  <2> QED
    BY <2>1, <2>2, <2>3, <2>4
<1>3. Q = SUBSET S
  <2> HIDE DEF Q
  <2> QED
    BY <1>0, <1>1, <1>2, SubsetInduction
<1> QED
  BY <1>3

\* ... and less if one of them is less.
LEMMA SumBelow ==
    ASSUME NEW f, NEW S, IsFiniteSet(S), NEW c \in Int,
           \A x \in S : f[x] \in Int /\ f[x] <= c, NEW y \in S, f[y] < c
    PROVE  SumFunctionOnSet(f, S) < c * Cardinality(S)
<1>1. IsFiniteSet(S \ {y})
  BY FS_Subset
<1>2. SumFunctionOnSet(f, S) = SumFunctionOnSet(f, S \ {y}) + f[y]
  BY SumRemove
<1>3. SumFunctionOnSet(f, S \ {y}) <= c * Cardinality(S \ {y})
  BY <1>1, SumAtMost
<1>4. SumFunctionOnSet(f, S \ {y}) \in Int
  BY <1>1, SumInt
<1>5. PICK n \in Nat : n = Cardinality(S \ {y}) /\ Cardinality(S) = n + 1
  <2>1. Cardinality(S) \in Nat /\ Cardinality(S \ {y}) \in Nat
    BY <1>1, FS_CardinalityType
  <2>2. Cardinality(S \ {y}) = Cardinality(S) - 1
    BY FS_RemoveElement
  <2> QED
    BY <2>1, <2>2
<1>6. c * (n + 1) = c * n + c /\ f[y] \in Int
  OBVIOUS
<1> QED
  BY <1>2, <1>3, <1>4, <1>5, <1>6
=============================================================================

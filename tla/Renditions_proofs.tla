------------------------- MODULE Renditions_proofs -------------------------
(***************************************************************************)
(* Facts about ImageParams and ImagePixels, which are functions, for       *)
(* images and radii of any size and any caps: renditions have the size and *)
(* shape that was asked for, as docs/images.md has it; the sliding window  *)
(* of a blur computes the mean of each pixel's surroundings, in no         *)
(* direction more than in another, and leaves an image opaque or           *)
(* transparent.                                                            *)
(*                                                                         *)
(* Sizes are quotients, rounded down or to the nearest; the lemmas on them *)
(* say how far a product with the divisor is from the dividend.  The blur  *)
(* is a recursion along a line: the function of all window sums satisfies  *)
(* its equation, and by induction no other does.                           *)
(***************************************************************************)
EXTENDS ImageParams, ImagePixels, SumLemmas

\* A quotient is rounded down.
LEMMA Quotient ==
    ASSUME NEW a \in Int, NEW b \in Nat \ {0}
    PROVE  a \div b \in Int /\ b * (a \div b) <= a /\ a < b * (a \div b) + b
  OBVIOUS

\* ... and the only one.
LEMMA QuotientIs ==
    ASSUME NEW a \in Int, NEW b \in Nat \ {0}, NEW q \in Int, b * q <= a, a < b * q + b
    PROVE  a \div b = q
  OBVIOUS

\* A product of factors that grow grows.
LEMMA Grows ==
    ASSUME NEW a \in Int, NEW b \in Int, NEW c \in Nat, a <= b
    PROVE  c * a <= c * b
  OBVIOUS

\* A quotient of naturals that is kept at one or more is exact but for what is
\* less than the divisor.
LEMMA AtLeastOneIs ==
    ASSUME NEW a \in Nat, NEW b \in Nat \ {0}
    PROVE  LET q == AtLeastOne(a \div b)
           IN  /\ q \in Nat \ {0}
               /\ a < b * q + b
               /\ q = 1 \/ b * q <= a
<1> SUFFICES ASSUME NEW d \in Int, b * d <= a, a < b * d + b
             PROVE  /\ AtLeastOne(d) \in Nat \ {0}
                    /\ a < b * AtLeastOne(d) + b
                    /\ AtLeastOne(d) = 1 \/ b * AtLeastOne(d) <= a
  <2>1. a \div b \in Int /\ b * (a \div b) <= a /\ a < b * (a \div b) + b
    BY Quotient
  <2> DEFINE d == a \div b
  <2> HIDE DEF d
  <2> QED
    BY <2>1 DEF d
<1>1. CASE d < 1
  <2>1. b * d <= 0
    BY <1>1
  <2> QED
    BY <1>1, <2>1 DEF AtLeastOne
<1>2. CASE ~(d < 1)
  BY <1>2 DEF AtLeastOne
<1> QED
  BY <1>1, <1>2

\* It stays within a bound that the dividend respects.
LEMMA AtLeastOneWithin ==
    ASSUME NEW a \in Nat, NEW b \in Nat \ {0}, NEW c \in Nat \ {0}, a < b * c + b
    PROVE  AtLeastOne(a \div b) <= c
<1>1. a \div b \in Int /\ b * (a \div b) <= a
  BY Quotient
<1>2. ASSUME a \div b > c
      PROVE  FALSE
  <2> DEFINE d == a \div b
  <2>1. d \in Int /\ c + 1 <= d
    BY <1>1, <1>2
  <2>2. b * (c + 1) <= b * d
    <3> HIDE DEF d
    <3> QED
      BY <2>1, Grows
  <2>3. b * d <= a
    BY <1>1
  <2> HIDE DEF d
  <2> QED
    BY <2>1, <2>2, <2>3
<1> QED
  BY <1>1, <1>2 DEF AtLeastOne
-----------------------------------------------------------------------------
\* Options that Parse may return with a number for dpr.
Wanted(p) == /\ p.width \in 0..MaxDim /\ p.height \in 0..MaxDim
             /\ p.fit \in Fits /\ p.dpr \in (One \div 2)..(3 * One)

\* A side that is wanted does not vanish by a small dpr, nor does one appear.
LEMMA ScaleDimIs ==
    ASSUME NEW dim \in 0..MaxDim, NEW dpr \in (One \div 2)..(3 * One)
    PROVE  ScaleDim(dim, dpr) \in 0..MaxDim /\ (ScaleDim(dim, dpr) = 0 <=> dim = 0)
<1> DEFINE n == 2 * dim * dpr + One
<1>1. One \in Nat \ {0} /\ One = 2 * (One \div 2) /\ MaxDim \in Nat \ {0}
  BY ParamsAssumption
<1>2. dpr \in Nat \ {0} /\ 2 * dpr >= One /\ dim \in Nat
  BY <1>1
<1>3. n \in Nat /\ 2 * One \in Nat \ {0}
  BY <1>1, <1>2
<1>4. dim # 0 => n >= 2 * One
  <2>1. dim # 0 => dim * dpr >= 1 * dpr
    BY <1>2
  <2> QED
    BY <1>1, <1>2, <2>1
<1>5. dim = 0 => n = One
  <2>1. 2 * 0 * dpr = 0 /\ 0 + One = One
    BY <1>1, <1>2
  <2> QED
    BY <2>1
<1>6. PICK q \in Int : /\ q = n \div (2 * One)
                       /\ (2 * One) * q <= n /\ n < (2 * One) * q + 2 * One
  <2> HIDE DEF n
  <2>1. PICK b \in Nat \ {0} : b = 2 * One
    BY <1>3
  <2>2. n \div b \in Int /\ b * (n \div b) <= n /\ n < b * (n \div b) + b
    BY <1>3, Quotient
  <2> QED
    BY <2>1, <2>2
<1>7. q >= 0 /\ (q = 0 <=> dim = 0)
  <2>1. q >= 0
    BY <1>1, <1>3, <1>6
  <2>2. dim = 0 => q < 1
    BY <1>1, <1>5, <1>6
  <2>3. dim # 0 => q # 0
    BY <1>1, <1>4, <1>6
  <2> QED
    BY <2>1, <2>2, <2>3
<1>8. ScaleDim(dim, dpr) = IF q > MaxDim THEN MaxDim ELSE q
  BY <1>6 DEF ScaleDim
<1> QED
  BY <1>1, <1>7, <1>8

\* What resize asks for: what is wanted, or the cap of the longer side.
LEMMA AskedIs ==
    ASSUME NEW img, Sized(img), NEW p, Wanted(p)
    PROVE  LET asked == Asked(img, p)
               w == ScaleDim(p.width, p.dpr)
               h == ScaleDim(p.height, p.dpr)
           IN  \/ asked = [w |-> w, h |-> h] /\ (p.width # 0 \/ p.height # 0)
               \/ /\ p.width = 0 /\ p.height = 0
                  /\ \/ /\ asked = [w |-> 0, h |-> 0]
                        /\ img.w <= DefaultMaxDim /\ img.h <= DefaultMaxDim
                     \/ /\ asked = [w |-> DefaultMaxDim, h |-> 0]
                        /\ img.h <= img.w /\ DefaultMaxDim < img.w
                     \/ /\ asked = [w |-> 0, h |-> DefaultMaxDim]
                        /\ img.w <= img.h /\ DefaultMaxDim < img.h
<1>1. /\ ScaleDim(p.width, p.dpr) = 0 <=> p.width = 0
      /\ ScaleDim(p.height, p.dpr) = 0 <=> p.height = 0
  BY ScaleDimIs DEF Wanted
<1>2. img.w \in Nat /\ img.h \in Nat /\ DefaultMaxDim \in Nat
  BY ParamsAssumption DEF Sized
<1> QED
  BY <1>1, <1>2 DEF Asked

\* Scaling by the ratio of one side gives this side exactly, and the other
\* rounded to the nearest, within what the ratio allows.
LEMMA ScaledIs ==
    ASSUME NEW n \in Nat \ {0}, NEW m \in Nat \ {0}, NEW num \in Nat \ {0}
    PROVE  LET s == Scaled(m, [num |-> num, den |-> n])
           IN  /\ Scaled(n, [num |-> num, den |-> n]) = num
               /\ s \in Nat \ {0}
               /\ s = 1 \/ (-n <= 2 * (num * m - s * n) /\ 2 * (num * m - s * n) <= n)
               /\ \A b \in Nat \ {0} : num * m <= b * n => s <= b
<1> DEFINE s == AtLeastOne((2 * m * num + n) \div (2 * n))
<1>1. Scaled(m, [num |-> num, den |-> n]) = s
  BY DEF Scaled
<1>2. Scaled(n, [num |-> num, den |-> n]) = num
  <2>1. 2 * n \in Nat \ {0} /\ 2 * n * num + n \in Nat
    OBVIOUS
  <2>2. (2 * n) * num <= 2 * n * num + n /\ 2 * n * num + n < (2 * n) * num + 2 * n
    OBVIOUS
  <2>3. (2 * n * num + n) \div (2 * n) = num
    BY <2>1, <2>2, QuotientIs
  <2> QED
    BY <2>3 DEF Scaled, AtLeastOne
<1>3. 2 * n \in Nat \ {0} /\ 2 * m * num + n \in Nat
  OBVIOUS
<1>4. /\ s \in Nat \ {0} /\ 2 * m * num + n < (2 * n) * s + 2 * n
      /\ s = 1 \/ (2 * n) * s <= 2 * m * num + n
  BY <1>3, AtLeastOneIs
<1>5. ASSUME NEW b \in Nat \ {0}, num * m <= b * n
      PROVE  s <= b
  <2>1. 2 * m * num + n < (2 * n) * b + 2 * n
    BY <1>5
  <2> QED
    BY <1>3, <2>1, AtLeastOneWithin
<1> HIDE DEF s
<1>6. s = 1 \/ (-n <= 2 * (num * m - s * n) /\ 2 * (num * m - s * n) <= n)
  BY <1>4
<1> QED
  BY <1>1, <1>2, <1>4, <1>5, <1>6

\* A side that was not asked for: in proportion, within what the proportion
\* allows.
LEMMA DerivedIs ==
    ASSUME NEW n \in Nat \ {0}, NEW m \in Nat \ {0}, NEW k \in Nat \ {0}
    PROVE  LET q == AtLeastOne((m * k) \div n)
           IN  /\ q \in Nat \ {0}
               /\ q = 1 \/ (0 <= k * m - q * n /\ k * m - q * n <= n)
               /\ \A b \in Nat \ {0} : m * k <= b * n => q <= b
<1> DEFINE q == AtLeastOne((m * k) \div n)
<1>1. m * k \in Nat /\ k * m = m * k
  OBVIOUS
<1>2. /\ q \in Nat \ {0} /\ m * k < n * q + n
      /\ q = 1 \/ n * q <= m * k
  BY <1>1, AtLeastOneIs
<1>3. ASSUME NEW b \in Nat \ {0}, m * k <= b * n
      PROVE  q <= b
  <2>1. m * k < n * b + n
    BY <1>3
  <2> QED
    BY <1>1, <2>1, AtLeastOneWithin
<1> HIDE DEF q
<1>4. q = 1 \/ (0 <= k * m - q * n /\ k * m - q * n <= n)
  BY <1>1, <1>2
<1> QED
  BY ONLY <1>2, <1>3, <1>4 DEF q

\* The proportions of an image whose height follows from its width, or whose
\* width from its height.
LEMMA InProportionIs ==
    ASSUME NEW a, NEW b, Sized(a), Sized(b),
           \/ a.w = 1 \/ a.h = 1
           \/ -b.w <= a.w * b.h - a.h * b.w /\ a.w * b.h - a.h * b.w <= b.w
           \/ -b.h <= a.w * b.h - a.h * b.w /\ a.w * b.h - a.h * b.w <= b.h
    PROVE  InProportion(a, b)
<1>1. PICK e \in Int : e = a.w * b.h - a.h * b.w
  BY DEF Sized
<1>2. b.w \in Nat /\ b.h \in Nat
  BY DEF Sized
<1>3. InProportion(a, b)
        <=> LET slack == IF b.w > b.h THEN b.w ELSE b.h
            IN  a.w = 1 \/ a.h = 1 \/ (-slack <= e /\ e <= slack)
  BY <1>1 DEF InProportion
<1> QED
  BY <1>1, <1>2, <1>3

-----------------------------------------------------------------------------
\* What was asked for, one side at least.
Asking(asked) == /\ asked \in [w : 0..MaxDim, h : 0..MaxDim]
                 /\ asked.w # 0 \/ asked.h # 0

\* "contain" and "scaledown": one side is met and the other stays within, the
\* image keeps its shape, and it does not grow but by a ratio over one.
LEMMA FittedIs ==
    ASSUME NEW img, Sized(img), NEW asked, Asking(asked)
    PROVE  LET ratio == Ratio(img, asked)
               out   == [w |-> Scaled(img.w, ratio), h |-> Scaled(img.h, ratio)]
           IN  /\ Sized(out) /\ InProportion(out, img)
               /\ \/ asked.w # 0 /\ out.w = asked.w /\ (asked.h = 0 \/ out.h <= asked.h)
                  \/ asked.h # 0 /\ out.h = asked.h /\ (asked.w = 0 \/ out.w <= asked.w)
               /\ ratio.num < ratio.den => out.w <= img.w /\ out.h <= img.h
               /\ asked.h = 0 /\ img.h <= img.w => out.h <= asked.w
               /\ asked.w = 0 /\ img.w <= img.h => out.w <= asked.h
<1> DEFINE ratio == Ratio(img, asked)
           out   == [w |-> Scaled(img.w, ratio), h |-> Scaled(img.h, ratio)]
<1>1. img.w \in Nat \ {0} /\ img.h \in Nat \ {0}
  BY DEF Sized
<1>2. asked.w \in Nat /\ asked.h \in Nat /\ (asked.w # 0 \/ asked.h # 0)
  BY ParamsAssumption DEF Asking
<1>3. CASE asked.h = 0 \/ (asked.w # 0 /\ asked.w * img.h <= asked.h * img.w)
  <2>1. ratio = [num |-> asked.w, den |-> img.w] /\ asked.w \in Nat \ {0}
    BY <1>2, <1>3 DEF Ratio
  <2>2. /\ out.w = asked.w /\ out.h \in Nat \ {0}
        /\ out.h = 1 \/ /\ -img.w <= 2 * (asked.w * img.h - out.h * img.w)
                        /\ 2 * (asked.w * img.h - out.h * img.w) <= img.w
        /\ \A b \in Nat \ {0} : asked.w * img.h <= b * img.w => out.h <= b
    <3> DEFINE n == img.w  m == img.h  num == asked.w
               s == Scaled(m, [num |-> num, den |-> n])
    <3>1. n \in Nat \ {0} /\ m \in Nat \ {0} /\ num \in Nat \ {0}
      BY <1>1, <2>1
    <3> HIDE DEF n, m, num
    <3>2. /\ Scaled(n, [num |-> num, den |-> n]) = num /\ s \in Nat \ {0}
          /\ s = 1 \/ (-n <= 2 * (num * m - s * n) /\ 2 * (num * m - s * n) <= n)
          /\ \A b \in Nat \ {0} : num * m <= b * n => s <= b
      BY ONLY <3>1, ScaledIs
    <3> HIDE DEF s
    <3>3. out = [w |-> num, h |-> s]
      BY ONLY <2>1, <3>2 DEF n, m, num, s, out
    <3> HIDE DEF out
    <3> QED
      BY ONLY <3>2, <3>3 DEF n, m, num
  <2>3. Sized(out)
    BY <2>1, <2>2 DEF Sized
  <2> HIDE DEF out
  <2>4. PICK e \in Int : e = out.w * img.h - out.h * img.w
    BY <1>1, <2>1, <2>2
  <2>5. out.h = 1 \/ (-img.w <= e /\ e <= img.w)
    <3>1. asked.w * img.h - out.h * img.w = e
      BY <1>1, <2>1, <2>2, <2>4
    <3> QED
      BY ONLY <1>1, <2>2, <2>4, <3>1
  <2>6. InProportion(out, img)
    BY <2>3, <2>4, <2>5, InProportionIs
  <2>7. asked.h = 0 \/ out.h <= asked.h
    BY <1>2, <1>3, <2>2
  <2>8. ratio.num < ratio.den => out.w <= img.w /\ out.h <= img.h
    <3>1. asked.w < img.w => asked.w * img.h <= img.h * img.w
      BY <1>1, <2>1
    <3> QED
      BY <1>1, <2>1, <2>2, <3>1
  <2>9. img.h <= img.w => out.h <= asked.w
    <3>1. img.h <= img.w => asked.w * img.h <= asked.w * img.w
      BY <1>1, <2>1
    <3> QED
      BY <2>1, <2>2, <3>1
  <2> QED
    BY <2>1, <2>2, <2>3, <2>6, <2>7, <2>8, <2>9 DEF out
<1>4. CASE ~(asked.h = 0 \/ (asked.w # 0 /\ asked.w * img.h <= asked.h * img.w))
  <2>1. ratio = [num |-> asked.h, den |-> img.h] /\ asked.h \in Nat \ {0}
    BY <1>2, <1>4 DEF Ratio
  <2>2. /\ out.h = asked.h /\ out.w \in Nat \ {0}
        /\ out.w = 1 \/ /\ -img.h <= 2 * (asked.h * img.w - out.w * img.h)
                        /\ 2 * (asked.h * img.w - out.w * img.h) <= img.h
        /\ \A b \in Nat \ {0} : asked.h * img.w <= b * img.h => out.w <= b
    <3> DEFINE n == img.h  m == img.w  num == asked.h
               s == Scaled(m, [num |-> num, den |-> n])
    <3>1. n \in Nat \ {0} /\ m \in Nat \ {0} /\ num \in Nat \ {0}
      BY <1>1, <2>1
    <3> HIDE DEF n, m, num
    <3>2. /\ Scaled(n, [num |-> num, den |-> n]) = num /\ s \in Nat \ {0}
          /\ s = 1 \/ (-n <= 2 * (num * m - s * n) /\ 2 * (num * m - s * n) <= n)
          /\ \A b \in Nat \ {0} : num * m <= b * n => s <= b
      BY ONLY <3>1, ScaledIs
    <3> HIDE DEF s
    <3>3. out = [w |-> s, h |-> num]
      BY ONLY <2>1, <3>2 DEF n, m, num, s, out
    <3> HIDE DEF out
    <3> QED
      BY ONLY <3>2, <3>3 DEF n, m, num
  <2>3. Sized(out)
    BY <2>1, <2>2 DEF Sized
  <2> HIDE DEF out
  <2>4. PICK e \in Int : e = out.w * img.h - out.h * img.w
    BY <1>1, <2>1, <2>2
  <2>5. out.w = 1 \/ (-img.h <= e /\ e <= img.h)
    <3>1. asked.h * img.w - out.w * img.h = -e
      BY <1>1, <2>1, <2>2, <2>4
    <3> QED
      BY ONLY <1>1, <2>2, <2>4, <3>1
  <2>6. InProportion(out, img)
    BY <2>3, <2>4, <2>5, InProportionIs
  <2>7. asked.w = 0 \/ out.w <= asked.w
    <3>1. asked.w # 0 => asked.h * img.w <= asked.w * img.h
      BY <1>1, <1>2, <1>4
    <3> QED
      BY <1>2, <2>2, <3>1
  <2>8. ratio.num < ratio.den => out.w <= img.w /\ out.h <= img.h
    <3>1. asked.h < img.h => asked.h * img.w <= img.w * img.h
      BY <1>1, <2>1
    <3> QED
      BY <1>1, <2>1, <2>2, <3>1
  <2>9. img.w <= img.h => out.w <= asked.h
    <3>1. img.w <= img.h => asked.h * img.w <= asked.h * img.h
      BY <1>1, <2>1
    <3> QED
      BY <2>1, <2>2, <3>1
  <2> QED
    BY <2>1, <2>2, <2>3, <2>6, <2>7, <2>8, <2>9 DEF out
<1> QED
  BY <1>3, <1>4

\* "fill" and "cover": the box has the sides asked for, and one that was not
\* follows from the other.
LEMMA BoxIs ==
    ASSUME NEW img, Sized(img), NEW asked, Asking(asked)
    PROVE  LET box == Box(img, asked)
           IN  /\ Sized(box)
               /\ asked.w # 0 => box.w = asked.w
               /\ asked.h # 0 => box.h = asked.h
               /\ asked.w = 0 \/ asked.h = 0 => InProportion(box, img)
               /\ asked.h = 0 /\ img.h <= img.w => box.h <= asked.w
               /\ asked.w = 0 /\ img.w <= img.h => box.w <= asked.h
<1> DEFINE box == Box(img, asked)
<1>1. img.w \in Nat \ {0} /\ img.h \in Nat \ {0}
  BY DEF Sized
<1>2. asked.w \in Nat /\ asked.h \in Nat /\ (asked.w # 0 \/ asked.h # 0)
  BY ParamsAssumption DEF Asking
<1>3. CASE asked.w # 0 /\ asked.h # 0
  BY <1>2, <1>3 DEF Box, Sized
<1>4. CASE asked.h = 0
  <2>1. asked.w \in Nat \ {0} /\ box.w = asked.w
        /\ box.h = AtLeastOne((img.h * asked.w) \div img.w)
    BY <1>2, <1>4 DEF Box
  <2>2. /\ box.h \in Nat \ {0}
        /\ \/ box.h = 1
           \/ /\ 0 <= asked.w * img.h - box.h * img.w
              /\ asked.w * img.h - box.h * img.w <= img.w
        /\ \A b \in Nat \ {0} : img.h * asked.w <= b * img.w => box.h <= b
    <3> DEFINE n == img.w  m == img.h  k == asked.w
               q == AtLeastOne((m * k) \div n)
    <3>1. n \in Nat \ {0} /\ m \in Nat \ {0} /\ k \in Nat \ {0}
      BY <1>1, <2>1
    <3> HIDE DEF n, m, k
    <3>2. /\ q \in Nat \ {0}
          /\ q = 1 \/ (0 <= k * m - q * n /\ k * m - q * n <= n)
          /\ \A b \in Nat \ {0} : m * k <= b * n => q <= b
      BY ONLY <3>1, DerivedIs
    <3>3. box.h = q
      BY ONLY <2>1 DEF n, m, k
    <3> HIDE DEF q, box
    <3> QED
      BY ONLY <3>2, <3>3 DEF n, m, k
  <2>3. Sized(box)
    BY <2>1, <2>2 DEF Sized
  <2> HIDE DEF box
  <2>4. PICK e \in Int : e = box.w * img.h - box.h * img.w
    BY <1>1, <2>1, <2>2
  <2>5. box.h = 1 \/ (-img.w <= e /\ e <= img.w)
    BY <1>1, <2>1, <2>2, <2>4
  <2>6. InProportion(box, img)
    BY <2>3, <2>4, <2>5, InProportionIs
  <2>7. img.h <= img.w => box.h <= asked.w
    <3>1. img.h <= img.w => img.h * asked.w <= asked.w * img.w
      BY <1>1, <2>1
    <3> QED
      BY <2>1, <2>2, <3>1
  <2> QED
    BY <1>4, <2>1, <2>3, <2>6, <2>7 DEF box
<1>5. CASE asked.w = 0
  <2>1. asked.h \in Nat \ {0} /\ box.h = asked.h
        /\ box.w = AtLeastOne((img.w * asked.h) \div img.h)
    BY <1>2, <1>5 DEF Box
  <2>2. /\ box.w \in Nat \ {0}
        /\ \/ box.w = 1
           \/ /\ 0 <= asked.h * img.w - box.w * img.h
              /\ asked.h * img.w - box.w * img.h <= img.h
        /\ \A b \in Nat \ {0} : img.w * asked.h <= b * img.h => box.w <= b
    <3> DEFINE n == img.h  m == img.w  k == asked.h
               q == AtLeastOne((m * k) \div n)
    <3>1. n \in Nat \ {0} /\ m \in Nat \ {0} /\ k \in Nat \ {0}
      BY <1>1, <2>1
    <3> HIDE DEF n, m, k
    <3>2. /\ q \in Nat \ {0}
          /\ q = 1 \/ (0 <= k * m - q * n /\ k * m - q * n <= n)
          /\ \A b \in Nat \ {0} : m * k <= b * n => q <= b
      BY ONLY <3>1, DerivedIs
    <3>3. box.w = q
      BY ONLY <2>1 DEF n, m, k
    <3> HIDE DEF q, box
    <3> QED
      BY ONLY <3>2, <3>3 DEF n, m, k
  <2>3. Sized(box)
    BY <2>1, <2>2 DEF Sized
  <2> HIDE DEF box
  <2>4. PICK e \in Int : e = box.w * img.h - box.h * img.w
    BY <1>1, <2>1, <2>2
  <2>5. box.w = 1 \/ (-img.h <= e /\ e <= img.h)
    BY <1>1, <2>1, <2>2, <2>4
  <2>6. InProportion(box, img)
    BY <2>3, <2>4, <2>5, InProportionIs
  <2>7. img.w <= img.h => box.w <= asked.h
    <3>1. img.w <= img.h => img.w * asked.h <= asked.h * img.h
      BY <1>1, <2>1
    <3> QED
      BY <2>1, <2>2, <3>1
  <2> QED
    BY <1>5, <2>1, <2>3, <2>6, <2>7 DEF box
<1> QED
  BY <1>3, <1>4, <1>5

\* What "cover" cuts out lies inside the source and has the box's shape.
LEMMA CropIs ==
    ASSUME NEW img, Sized(img), NEW box, Sized(box)
    PROVE  LET crop == Crop(img, box)
           IN  /\ Sized(crop) /\ crop.w <= img.w /\ crop.h <= img.h
               /\ InProportion(crop, box)
<1> DEFINE crop == Crop(img, box)
<1>1. /\ img.w \in Nat \ {0} /\ img.h \in Nat \ {0}
      /\ box.w \in Nat \ {0} /\ box.h \in Nat \ {0}
  BY DEF Sized
<1>2. CASE img.w * box.h > img.h * box.w
  <2>1. crop.h = img.h /\ crop.w = AtLeastOne((img.h * box.w) \div box.h)
    BY <1>2 DEF Crop
  <2>2. /\ crop.w \in Nat \ {0}
        /\ \/ crop.w = 1
           \/ /\ 0 <= box.w * img.h - crop.w * box.h
              /\ box.w * img.h - crop.w * box.h <= box.h
        /\ \A b \in Nat \ {0} : img.h * box.w <= b * box.h => crop.w <= b
    <3> DEFINE n == box.h  m == img.h  k == box.w
               q == AtLeastOne((m * k) \div n)
    <3>1. n \in Nat \ {0} /\ m \in Nat \ {0} /\ k \in Nat \ {0}
      BY <1>1, <2>1
    <3> HIDE DEF n, m, k
    <3>2. /\ q \in Nat \ {0}
          /\ q = 1 \/ (0 <= k * m - q * n /\ k * m - q * n <= n)
          /\ \A b \in Nat \ {0} : m * k <= b * n => q <= b
      BY ONLY <3>1, DerivedIs
    <3>3. crop.w = q
      BY ONLY <2>1 DEF n, m, k
    <3> HIDE DEF q, crop
    <3> QED
      BY ONLY <3>2, <3>3 DEF n, m, k
  <2>3. Sized(crop)
    BY <1>1, <2>1, <2>2 DEF Sized
  <2> HIDE DEF crop
  <2>4. PICK e \in Int : e = crop.w * box.h - crop.h * box.w
    BY <1>1, <2>1, <2>2
  <2>5. crop.w = 1 \/ (-box.h <= e /\ e <= box.h)
    BY <1>1, <2>1, <2>2, <2>4
  <2>6. InProportion(crop, box)
    BY <2>3, <2>4, <2>5, InProportionIs
  <2>7. crop.w <= img.w
    <3>1. img.h * box.w <= img.w * box.h
      BY <1>1, <1>2
    <3> QED
      BY <1>1, <2>2, <3>1
  <2> QED
    BY <1>1, <2>1, <2>3, <2>6, <2>7 DEF crop
<1>3. CASE ~(img.w * box.h > img.h * box.w)
  <2>1. crop.w = img.w /\ crop.h = AtLeastOne((img.w * box.h) \div box.w)
    BY <1>3 DEF Crop
  <2>2. /\ crop.h \in Nat \ {0}
        /\ \/ crop.h = 1
           \/ /\ 0 <= box.h * img.w - crop.h * box.w
              /\ box.h * img.w - crop.h * box.w <= box.w
        /\ \A b \in Nat \ {0} : img.w * box.h <= b * box.w => crop.h <= b
    <3> DEFINE n == box.w  m == img.w  k == box.h
               q == AtLeastOne((m * k) \div n)
    <3>1. n \in Nat \ {0} /\ m \in Nat \ {0} /\ k \in Nat \ {0}
      BY <1>1, <2>1
    <3> HIDE DEF n, m, k
    <3>2. /\ q \in Nat \ {0}
          /\ q = 1 \/ (0 <= k * m - q * n /\ k * m - q * n <= n)
          /\ \A b \in Nat \ {0} : m * k <= b * n => q <= b
      BY ONLY <3>1, DerivedIs
    <3>3. crop.h = q
      BY ONLY <2>1 DEF n, m, k
    <3> HIDE DEF q, crop
    <3> QED
      BY ONLY <3>2, <3>3 DEF n, m, k
  <2>3. Sized(crop)
    BY <1>1, <2>1, <2>2 DEF Sized
  <2> HIDE DEF crop
  <2>4. PICK e \in Int : e = crop.w * box.h - crop.h * box.w
    BY <1>1, <2>1, <2>2
  <2>5. crop.h = 1 \/ (-box.w <= e /\ e <= box.w)
    BY <1>1, <2>1, <2>2, <2>4
  <2>6. InProportion(crop, box)
    BY <2>3, <2>4, <2>5, InProportionIs
  <2>7. crop.h <= img.h
    <3>1. img.w * box.h <= img.h * box.w
      BY <1>1, <1>3
    <3> QED
      BY <1>1, <2>2, <3>1
  <2> QED
    BY <1>1, <2>1, <2>3, <2>6, <2>7 DEF crop
<1> QED
  BY <1>2, <1>3

\* An image has its own shape.
LEMMA OwnShape ==
    ASSUME NEW img, Sized(img)
    PROVE  InProportion(img, img)
<1>1. PICK a \in Nat : a = img.w * img.h /\ a = img.h * img.w
  BY DEF Sized
<1>2. img.w \in Nat /\ img.h \in Nat /\ a - a = 0
  BY DEF Sized
<1>3. \/ img.w = 1 \/ img.h = 1
      \/ -img.w <= img.w * img.h - img.h * img.w /\ img.w * img.h - img.h * img.w <= img.w
  BY <1>1, <1>2
<1> QED
  BY <1>3, InProportionIs

\* The four ways through resize.
LEMMA ResizedIs ==
    ASSUME NEW img, Sized(img), NEW p, Wanted(p)
    PROVE  LET asked == Asked(img, p)
               ratio == Ratio(img, asked)
               out   == Resized(img, p)
           IN  \/ asked = [w |-> 0, h |-> 0] /\ out = img
               \/ /\ Asking(asked)
                  /\ \/ p.fit \in {"fill", "cover"} /\ out = Box(img, asked)
                     \/ p.fit = "scaledown" /\ out = img /\ ~(ratio.num < ratio.den)
                     \/ /\ p.fit \in {"contain", "scaledown"}
                        /\ p.fit = "scaledown" => ratio.num < ratio.den
                        /\ out = [w |-> Scaled(img.w, ratio), h |-> Scaled(img.h, ratio)]
<1> DEFINE asked == Asked(img, p)
           ratio == Ratio(img, asked)
<1>1. asked = [w |-> 0, h |-> 0] \/ Asking(asked)
  <2>1. /\ ScaleDim(p.width, p.dpr) \in 0..MaxDim /\ ScaleDim(p.height, p.dpr) \in 0..MaxDim
        /\ ScaleDim(p.width, p.dpr) = 0 <=> p.width = 0
        /\ ScaleDim(p.height, p.dpr) = 0 <=> p.height = 0
    BY ScaleDimIs DEF Wanted
  <2>2. DefaultMaxDim \in 0..MaxDim /\ 0 \in 0..MaxDim /\ DefaultMaxDim # 0
    BY ParamsAssumption
  <2> QED
    BY AskedIs, <2>1, <2>2 DEF Asking
<1>2. Asking(asked) => asked # [w |-> 0, h |-> 0]
  BY DEF Asking
<1>3. Asking(asked) => ratio.num \in Int /\ ratio.den \in Int
  BY ParamsAssumption DEF Asking, Sized, Ratio
<1>4. p.fit \in {"scaledown", "contain", "cover", "fill"}
  BY DEF Wanted, Fits
<1>5. Resized(img, p) =
        IF asked = [w |-> 0, h |-> 0] THEN img
        ELSE IF p.fit \in {"fill", "cover"} THEN Box(img, asked)
        ELSE IF p.fit = "scaledown" /\ ratio.num >= ratio.den THEN img
        ELSE [w |-> Scaled(img.w, ratio), h |-> Scaled(img.h, ratio)]
  BY DEF Resized
<1> HIDE DEF asked, ratio
<1>6. Asking(asked) => (ratio.num >= ratio.den <=> ~(ratio.num < ratio.den))
  BY <1>3
<1>7. QED
  BY ONLY <1>1, <1>2, <1>4, <1>5, <1>6 DEF asked, ratio

\* "scaledown" never upscales.
LEMMA NeverUpscaled ==
    ASSUME NEW img, Sized(img), NEW p, Wanted(p)
    PROVE  NotUpscaled(img, p)
<1>1. img.w <= img.w /\ img.h <= img.h
  BY DEF Sized
<1> QED
  BY <1>1, ResizedIs, FittedIs DEF NotUpscaled

\* The sides that are wanted are met.
LEMMA SizesMet ==
    ASSUME NEW img, Sized(img), NEW p, Wanted(p)
    PROVE  SizeMet(img, p)
<1> DEFINE asked == Asked(img, p)
           ratio == Ratio(img, asked)
           out   == Resized(img, p)
           w == ScaleDim(p.width, p.dpr)
           h == ScaleDim(p.height, p.dpr)
<1>1. /\ w \in 0..MaxDim /\ h \in 0..MaxDim
      /\ w = 0 <=> p.width = 0
      /\ h = 0 <=> p.height = 0
  BY ScaleDimIs DEF Wanted
<1>2. w <= MaxDim /\ h <= MaxDim
  BY <1>1, ParamsAssumption
<1>3. w # 0 \/ h # 0 => asked.w = w /\ asked.h = h /\ asked # [w |-> 0, h |-> 0]
  BY <1>1, AskedIs
<1>4. ASSUME w # 0 \/ h # 0, p.fit \in {"fill", "cover"}
      PROVE  (w # 0 => out.w = w) /\ (h # 0 => out.h = h)
  BY <1>3, <1>4, ResizedIs, BoxIs
<1>5. ASSUME w # 0 \/ h # 0, p.fit \in {"contain", "scaledown"}
      PROVE  \/ p.fit = "scaledown" /\ out = img
             \/ w # 0 /\ out.w = w /\ (h = 0 \/ out.h <= h)
             \/ h # 0 /\ out.h = h /\ (w = 0 \/ out.w <= w)
  BY <1>3, <1>5, ResizedIs, FittedIs
<1> QED
  BY <1>2, <1>4, <1>5 DEF SizeMet

\* With nothing wanted, the longest side is capped.
LEMMA SizesCapped ==
    ASSUME NEW img, Sized(img), NEW p, Wanted(p)
    PROVE  SizeCapped(img, p)
<1> SUFFICES ASSUME p.width = 0, p.height = 0
             PROVE  /\ Resized(img, p).w <= DefaultMaxDim
                    /\ Resized(img, p).h <= DefaultMaxDim
  BY DEF SizeCapped
<1> DEFINE asked == Asked(img, p)
           ratio == Ratio(img, asked)
           out   == Resized(img, p)
<1>1. DefaultMaxDim \in Nat \ {0} /\ img.w \in Nat /\ img.h \in Nat
  BY ParamsAssumption DEF Sized
<1>2. CASE asked = [w |-> 0, h |-> 0] /\ img.w <= DefaultMaxDim /\ img.h <= DefaultMaxDim
  <2>1. ~Asking(asked)
    BY <1>2 DEF Asking
  <2>2. out = img
    BY <2>1, ResizedIs
  <2> QED
    BY <1>2, <2>2
<1>3. CASE asked = [w |-> DefaultMaxDim, h |-> 0] /\ img.h <= img.w /\ DefaultMaxDim < img.w
  <2>1. asked.w = DefaultMaxDim /\ asked.h = 0 /\ asked.w # 0
    BY <1>1, <1>3
  <2>2. ratio.num < ratio.den
    BY <1>3, <2>1 DEF Ratio
  <2>3. \/ out = Box(img, asked)
        \/ out = [w |-> Scaled(img.w, ratio), h |-> Scaled(img.h, ratio)]
    BY <2>1, <2>2, ResizedIs
  <2>4. Asking(asked)
    BY <2>1, ResizedIs
  <2>5. out.w = asked.w /\ out.h <= asked.w
    BY <1>3, <2>1, <2>3, <2>4, BoxIs, FittedIs
  <2> QED
    BY <1>1, <2>1, <2>5
<1>4. CASE asked = [w |-> 0, h |-> DefaultMaxDim] /\ img.w <= img.h /\ DefaultMaxDim < img.h
  <2>1. asked.h = DefaultMaxDim /\ asked.w = 0 /\ asked.h # 0
    BY <1>1, <1>4
  <2>2. ratio.num < ratio.den
    BY <1>4, <2>1 DEF Ratio
  <2>3. \/ out = Box(img, asked)
        \/ out = [w |-> Scaled(img.w, ratio), h |-> Scaled(img.h, ratio)]
    BY <2>1, <2>2, ResizedIs
  <2>4. Asking(asked)
    BY <2>1, ResizedIs
  <2>5. out.h = asked.h /\ out.w <= asked.h
    BY <1>4, <2>1, <2>3, <2>4, BoxIs, FittedIs
  <2> QED
    BY <1>1, <2>1, <2>5
<1> QED
  BY <1>2, <1>3, <1>4, AskedIs

\* The shape is kept where it has to be, by what "cover" cuts out too.
LEMMA ShapesKept ==
    ASSUME NEW img, Sized(img), NEW p, Wanted(p)
    PROVE  ShapeKept(img, p)
<1> DEFINE asked == Asked(img, p)
           ratio == Ratio(img, asked)
           out   == Resized(img, p)
<1>1. Sized(out)
  BY ResizedIs, BoxIs, FittedIs
<1>2. p.fit \in {"contain", "scaledown"} => InProportion(out, img)
  BY ResizedIs, FittedIs, OwnShape
<1>3. ASSUME p.width = 0 \/ p.height = 0
      PROVE  InProportion(out, img)
  <2>1. asked.w = 0 \/ asked.h = 0
    <3>1. p.width = 0 => ScaleDim(p.width, p.dpr) = 0
      BY ScaleDimIs DEF Wanted
    <3>2. p.height = 0 => ScaleDim(p.height, p.dpr) = 0
      BY ScaleDimIs DEF Wanted
    <3> QED
      BY <1>3, <3>1, <3>2, AskedIs
  <2> QED
    BY <2>1, ResizedIs, FittedIs, BoxIs, OwnShape
<1>4. LET crop == Crop(img, out)
      IN  crop.w <= img.w /\ crop.h <= img.h /\ InProportion(crop, out)
  BY <1>1, CropIs
<1> QED
  BY <1>2, <1>3, <1>4 DEF ShapeKept

-----------------------------------------------------------------------------
\* The value of an option that is given is that of one of its pairs.
LEMMA ValueIs ==
    ASSUME NEW text, WellTyped(text), NEW key, NEW default
    PROVE  \/ Value(text, key, default) = default
           \/ \E i \in DOMAIN text : /\ text[i].key = key
                                     /\ Value(text, key, default) = text[i].value
<1>1. CASE Given(text, key) = {}
  BY <1>1 DEF Value
<1>2. CASE Given(text, key) # {}
  <2> DEFINE last == CHOOSE i \in Given(text, key) : \A j \in Given(text, key) : j <= i
  <2>1. Len(text) \in Nat /\ Given(text, key) \in SUBSET (1..Len(text))
    BY DEF WellTyped, Given
  <2>2. last \in Given(text, key)
    BY <1>2, <2>1, LastIndex
  <2>3. Value(text, key, default) = text[last].value
    BY <1>2 DEF Value
  <2> HIDE DEF last
  <2> QED
    BY <2>2, <2>3 DEF Given
<1> QED
  BY <1>1, <1>2

\* The sides that an accepted option string asks for are within the cap.
LEMMA DimsWithin ==
    ASSUME NEW text, WellTyped(text), Accepted(text)
    PROVE  Params(text).width \in 0..MaxDim /\ Params(text).height \in 0..MaxDim
<1>1. MaxDim \in Nat
  BY ParamsAssumption
<1>2. ASSUME NEW key \in {"width", "height"}
      PROVE  Value(text, key, 0) \in 0..MaxDim
  <2>1. CASE Value(text, key, 0) = 0
    BY <1>1, <2>1
  <2>2. ASSUME NEW i \in DOMAIN text, text[i].key = key, Value(text, key, 0) = text[i].value
        PROVE  Value(text, key, 0) \in 0..MaxDim
    <3>1. text[i].value \in Int
      BY <2>2 DEF WellTyped
    <3>2. Dim(text[i].value)
      <4>1. Accepts(text[i])
        BY DEF Accepted
      <4> QED
        BY <2>2, <4>1 DEF Accepts
    <3> QED
      BY <1>1, <2>2, <3>1, <3>2 DEF Dim
  <2> QED
    BY <2>1, <2>2, ValueIs
<1> QED
  BY <1>2 DEF Params

\* Every radius up to that of an option string is a number.
LEMMA RadiusNumber ==
    ASSUME NEW text, WellTyped(text)
    PROVE  Radius(Params(text).blur) \in Int
<1>1. Value(text, "blur", 0) \in Int \cup {NaN}
  BY ValueIs DEF WellTyped
<1>2. One \in Nat \ {0}
  BY ParamsAssumption
<1>3. \A n \in Int : n \div (2 * One) \in Int
  BY <1>2
<1>4. \A b \in Int : 2 * b + One \in Int
  BY <1>2
<1> QED
  BY <1>1, <1>3, <1>4 DEF Params, Radius

-----------------------------------------------------------------------------
\* Beyond its ends a line still has bytes, those at its ends.
LEMMA ExtendedIs ==
    ASSUME NEW n \in Nat \ {0}, NEW line \in [Side(n) -> Byte], NEW j \in Int
    PROVE  /\ Extended(line, j) = line[ClampInt(j, 0, n - 1)]
           /\ ClampInt(j, 0, n - 1) \in Side(n)
           /\ Extended(line, j) \in Byte
           /\ j \in Side(n) => Extended(line, j) = line[j]
<1>1. Cardinality(0..(n - 1)) = n
  <2>1. 0 \in Int /\ n - 1 \in Int /\ ~(0 > n - 1) /\ (n - 1) - 0 + 1 = n
    OBVIOUS
  <2> QED
    BY ONLY <2>1, FS_Interval
<1>2. Extended(line, j) = line[ClampInt(j, 0, n - 1)]
  BY <1>1 DEF Extended, Side
<1>3. ClampInt(j, 0, n - 1) \in Side(n) /\ (j \in Side(n) => ClampInt(j, 0, n - 1) = j)
  BY DEF ClampInt, Side
<1> QED
  BY <1>2, <1>3

\* The sum of what is at most radius away from i.
Window(line, radius, i) == SumFunction([d \in -radius..radius |-> Extended(line, i + d)])

\* A line beyond its ends, as a function.
Beyond(line) == [j \in Int |-> Extended(line, j)]

\* The window is an interval of the line.
LEMMA WindowIs ==
    ASSUME NEW n \in Nat \ {0}, NEW line \in [Side(n) -> Byte], NEW radius \in Nat, NEW i \in Int
    PROVE  Window(line, radius, i)
             = SumFunctionOnSet(Beyond(line), (i - radius)..(i + radius))
<1> DEFINE S == -radius..radius
           f == [d \in S |-> Extended(line, i + d)]
           b == [d \in S |-> i + d]
<1>1. IsFiniteSet(S)
  <2>1. -radius \in Int /\ radius \in Int
    OBVIOUS
  <2> QED
    BY <2>1, FS_Interval
<1>2. \A d \in S : f[d] \in Int /\ f[d] = Beyond(line)[b[d]]
  <2> SUFFICES ASSUME NEW d \in S PROVE f[d] \in Int /\ f[d] = Beyond(line)[b[d]]
    OBVIOUS
  <2>1. i + d \in Int
    OBVIOUS
  <2>2. Extended(line, i + d) \in Byte
    BY <2>1, ExtendedIs
  <2> QED
    BY <2>1, <2>2 DEF Beyond, Byte
<1>3. \A c, d \in S : b[c] = b[d] => c = d
  OBVIOUS
<1>4. {b[d] : d \in S} = (i - radius)..(i + radius)
  <2>1. ASSUME NEW j \in (i - radius)..(i + radius)
        PROVE  j \in {b[d] : d \in S}
    <3>1. j - i \in S /\ i + (j - i) = j
      OBVIOUS
    <3>2. b[j - i] = j
      BY <3>1
    <3> QED
      BY <3>1, <3>2
  <2>2. ASSUME NEW d \in S
        PROVE  b[d] \in (i - radius)..(i + radius)
    OBVIOUS
  <2> QED
    BY <2>1, <2>2
<1>5. SumFunctionOnSet(Beyond(line), {b[d] : d \in S}) = SumFunctionOnSet(f, S)
  <2> HIDE DEF S, f, b
  <2> QED
    BY <1>1, <1>2, <1>3, SumReindex
<1>6. Window(line, radius, i) = SumFunctionOnSet(f, S)
  <2>1. DOMAIN f = S
    OBVIOUS
  <2> QED
    BY <2>1, SumDomain DEF Window
<1> QED
  BY <1>4, <1>5, <1>6

\* One step to the right, one pixel enters the window and one leaves it.
LEMMA WindowSlides ==
    ASSUME NEW n \in Nat \ {0}, NEW line \in [Side(n) -> Byte], NEW radius \in Nat, NEW i \in Int
    PROVE  Window(line, radius, i) = Window(line, radius, i - 1)
             + Extended(line, i + radius) - Extended(line, i - 1 - radius)
<1> DEFINE e == Beyond(line)
           Old == ((i - 1) - radius)..((i - 1) + radius)
           New == (i - radius)..(i + radius)
           first == i - 1 - radius
           last == i + radius
<1>1. /\ IsFiniteSet(Old) /\ IsFiniteSet(New)
      /\ last \notin Old /\ first \notin New
      /\ Old \cup {last} = New \cup {first}
      /\ first \in Int /\ last \in Int
  <2>1. /\ (i - 1) - radius \in Int /\ (i - 1) + radius \in Int
        /\ i - radius \in Int /\ i + radius \in Int
    OBVIOUS
  <2>2. IsFiniteSet(Old) /\ IsFiniteSet(New)
    BY <2>1, FS_Interval
  <2> QED
    BY <2>2
<1>2. \A j \in Int : e[j] \in Int /\ e[j] = Extended(line, j)
  <2> SUFFICES ASSUME NEW j \in Int PROVE e[j] \in Int /\ e[j] = Extended(line, j)
    OBVIOUS
  <2>1. Extended(line, j) \in 0..255
    BY ExtendedIs DEF Byte
  <2>2. e[j] = Extended(line, j)
    BY DEF Beyond
  <2> QED
    BY ONLY <2>1, <2>2
<1>3. Old \subseteq Int /\ New \subseteq Int
  OBVIOUS
<1>4. Window(line, radius, i) = SumFunctionOnSet(e, New)
  BY WindowIs
<1>5. Window(line, radius, i - 1) = SumFunctionOnSet(e, Old)
  <2>1. i - 1 \in Int
    OBVIOUS
  <2> HIDE DEF e
  <2>2. Window(line, radius, i - 1)
          = SumFunctionOnSet(Beyond(line), ((i - 1) - radius)..((i - 1) + radius))
    BY <2>1, WindowIs
  <2> QED
    BY ONLY <2>2 DEF e, Old
<1>6. e[first] = Extended(line, i - 1 - radius) /\ e[last] = Extended(line, i + radius)
  BY <1>1, <1>2
<1> HIDE DEF e, Old, New, first, last
<1>7. SumFunctionOnSet(e, Old \cup {last}) = SumFunctionOnSet(e, Old) + e[last]
  BY <1>1, <1>2, <1>3, SumAdd
<1>8. SumFunctionOnSet(e, New \cup {first}) = SumFunctionOnSet(e, New) + e[first]
  BY <1>1, <1>2, <1>3, SumAdd
<1>9. SumFunctionOnSet(e, Old) \in Int /\ SumFunctionOnSet(e, New) \in Int
  BY <1>1, <1>2, <1>3, SumInt
<1>10. SumFunctionOnSet(e, New) = SumFunctionOnSet(e, Old) + e[last] - e[first]
  <2>1. SumFunctionOnSet(e, Old \cup {last}) = SumFunctionOnSet(e, New \cup {first})
    BY ONLY <1>1
  <2>2. e[first] \in Int /\ e[last] \in Int
    BY ONLY <1>1, <1>2
  <2> QED
    BY ONLY <1>7, <1>8, <1>9, <2>1, <2>2
<1> QED
  BY <1>4, <1>5, <1>6, <1>10

\* What the recursion of Sums computes is the sum of each window.
LEMMA SumsIs ==
    ASSUME NEW n \in Nat \ {0}, NEW line \in [Side(n) -> Byte], NEW radius \in Nat
    PROVE  Sums(line, radius) = [i \in Side(n) |-> Window(line, radius, i)]
<1> DEFINE Slid(sum) ==
             [i \in Side(n) |->
                IF i = 0 THEN Window(line, radius, 0)
                ELSE sum[i - 1] + Extended(line, i + radius) - Extended(line, i - 1 - radius)]
           window == [i \in Side(n) |-> Window(line, radius, i)]
           sums == Sums(line, radius)
<1>1. \A i \in Side(n) : i \in Nat /\ (i # 0 => i - 1 \in Side(n))
  BY DEF Side
<1>2. window = Slid(window)
  <2>1. ASSUME NEW i \in Side(n), i # 0
        PROVE  window[i] = window[i - 1] + Extended(line, i + radius)
                             - Extended(line, i - 1 - radius)
    BY <1>1, <2>1, WindowSlides
  <2> QED
    BY <2>1
<1>3. sums = CHOOSE sum : sum = Slid(sum)
  <2>1. Window(line, radius, 0) = SumFunction([d \in -radius..radius |-> Extended(line, d)])
    <3>1. \A d \in -radius..radius : 0 + d = d
      OBVIOUS
    <3> QED
      BY <3>1 DEF Window
  <2>2. DOMAIN line = Side(n)
    OBVIOUS
  <2> QED
    BY <2>1, <2>2 DEF Sums
<1>4. sums = Slid(sums)
  <2> HIDE DEF sums, window, Slid
  <2> QED
    BY <1>2, <1>3
<1> DEFINE P == {i \in Nat : i \in Side(n) => sums[i] = window[i]}
<1>5. 0 \in P
  BY <1>4
<1>6. ASSUME NEW i \in P
      PROVE  i + 1 \in P
  <2> SUFFICES ASSUME i + 1 \in Side(n) PROVE sums[i + 1] = window[i + 1]
    OBVIOUS
  <2>1. i \in Nat /\ i + 1 # 0 /\ (i + 1) - 1 = i /\ i \in Side(n)
    BY DEF Side
  <2>2. sums[i] = window[i]
    BY <2>1
  <2> HIDE DEF sums, window
  <2> QED
    BY <1>2, <1>4, <2>1, <2>2
<1>7. P = Nat
  <2> HIDE DEF P
  <2> QED
    BY <1>5, <1>6, NatInductionSet DEF P
<1>8. \A i \in Side(n) : sums[i] = window[i]
  <2> HIDE DEF sums, window
  <2> QED
    BY <1>1, <1>7
<1>9. DOMAIN sums = Side(n) /\ sums = [i \in Side(n) |-> sums[i]]
  <2> HIDE DEF sums
  <2> QED
    BY <1>4
<1> HIDE DEF sums
<1> QED
  BY <1>8, <1>9 DEF sums

\* The sum of a window of bytes: all of it exactly if every byte is 255.
LEMMA WindowBounds ==
    ASSUME NEW n \in Nat \ {0}, NEW line \in [Side(n) -> Byte], NEW radius \in Nat, NEW i \in Int
    PROVE  /\ Window(line, radius, i) \in 0..(255 * (2 * radius + 1))
           /\ (\A j \in Side(n) : line[j] = 255)
                => Window(line, radius, i) = 255 * (2 * radius + 1)
           /\ i \in Side(n) /\ line[i] # 255
                => Window(line, radius, i) < 255 * (2 * radius + 1)
<1> DEFINE S == -radius..radius
           f == [d \in S |-> Extended(line, i + d)]
<1>1. IsFiniteSet(S) /\ Cardinality(S) = 2 * radius + 1
  <2>1. /\ -radius \in Int /\ radius \in Int /\ ~(-radius > radius)
        /\ radius - (-radius) + 1 = 2 * radius + 1
    OBVIOUS
  <2> QED
    BY <2>1, FS_Interval
<1>2. \A d \in S : /\ i + d \in Int /\ f[d] = Extended(line, i + d)
                   /\ f[d] \in Nat /\ f[d] \in Int /\ f[d] <= 255
  <2> SUFFICES ASSUME NEW d \in S
               PROVE  i + d \in Int /\ f[d] = Extended(line, i + d) /\ f[d] \in Byte
    BY DEF Byte
  <2>1. i + d \in Int
    OBVIOUS
  <2> QED
    BY <2>1, ExtendedIs
<1>3. Window(line, radius, i) = SumFunctionOnSet(f, S)
  <2>1. DOMAIN f = S
    OBVIOUS
  <2> QED
    BY <2>1, SumDomain DEF Window
<1>4. ASSUME \A j \in Side(n) : line[j] = 255
      PROVE  \A d \in S : f[d] = 255
  BY <1>2, <1>4, ExtendedIs
<1>5. ASSUME i \in Side(n), line[i] # 255
      PROVE  0 \in S /\ f[0] < 255
  <2>1. 0 \in S /\ i + 0 = i
    BY <1>5
  <2>2. f[0] = line[i] /\ f[0] \in Nat /\ f[0] <= 255
    BY <1>2, <1>5, <2>1, ExtendedIs
  <2> QED
    BY <1>5, <2>1, <2>2
<1> HIDE DEF S, f
<1>6. SumFunctionOnSet(f, S) \in Nat /\ SumFunctionOnSet(f, S) <= 255 * Cardinality(S)
  BY <1>1, <1>2, SumNat, SumAtMost
<1>7. (\A d \in S : f[d] = 255) => SumFunctionOnSet(f, S) = 255 * Cardinality(S)
  BY <1>1, SumConstant
<1>8. 0 \in S /\ f[0] < 255 => SumFunctionOnSet(f, S) < 255 * Cardinality(S)
  BY <1>1, <1>2, SumBelow
<1> QED
  BY ONLY <1>1, <1>3, <1>4, <1>5, <1>6, <1>7, <1>8, radius \in Nat

\* The mean of bytes is a byte.
LEMMA ByteMean ==
    ASSUME NEW b \in Nat \ {0}, NEW sum \in 0..(255 * b)
    PROVE  /\ sum \div b \in Byte
           /\ sum = 255 * b => sum \div b = 255
           /\ sum < 255 * b => sum \div b # 255
<1>1. sum \in Int
  OBVIOUS
<1>2. PICK q \in Int : q = sum \div b /\ b * q <= sum /\ sum < b * q + b
  BY <1>1, Quotient
<1>3. q >= 0
  <2> SUFFICES ASSUME q + 1 <= 0 PROVE FALSE
    BY <1>2
  <2>1. b * (q + 1) <= b * 0
    BY Grows
  <2> QED
    BY <1>2, <2>1
<1>4. q <= 255
  <2> SUFFICES ASSUME 256 <= q PROVE FALSE
    BY <1>2
  <2>1. b * 256 <= b * q
    BY Grows
  <2> QED
    BY <1>2, <2>1
<1>5. sum = 255 * b => q >= 255
  <2> SUFFICES ASSUME sum = 255 * b, q <= 254 PROVE FALSE
    BY <1>2
  <2>1. b * q <= b * 254
    BY Grows
  <2> QED
    BY <1>2, <2>1
<1>6. sum < 255 * b => q # 255
  BY <1>2
<1> QED
  BY <1>2, <1>3, <1>4, <1>5, <1>6 DEF Byte

\* What blurring does to a line.
LEMMA BlurLineIs ==
    ASSUME NEW n \in Nat \ {0}, NEW line \in [Side(n) -> Byte], NEW radius \in Nat
    PROVE  /\ BlurLine(line, radius) = [i \in Side(n) |-> Mean(line, radius, i)]
           /\ \A i \in Side(n) :
                /\ Mean(line, radius, i) \in Byte
                /\ (\A j \in Side(n) : line[j] = 255) => Mean(line, radius, i) = 255
                /\ line[i] # 255 => Mean(line, radius, i) # 255
<1>1. \A i \in Side(n) : i \in Int
  BY DEF Side
<1>2. 2 * radius + 1 \in Nat \ {0}
  OBVIOUS
<1>3. \A i : Mean(line, radius, i) = Window(line, radius, i) \div (2 * radius + 1)
  BY DEF Mean, Window
<1>4. ASSUME NEW i \in Side(n)
      PROVE  /\ Mean(line, radius, i) \in Byte
             /\ (\A j \in Side(n) : line[j] = 255) => Mean(line, radius, i) = 255
             /\ line[i] # 255 => Mean(line, radius, i) # 255
  <2> DEFINE b == 2 * radius + 1
             w == Window(line, radius, i)
  <2>1. /\ w \in 0..(255 * b)
        /\ (\A j \in Side(n) : line[j] = 255) => w = 255 * b
        /\ line[i] # 255 => w < 255 * b
    <3>1. i \in Int
      BY <1>1
    <3> HIDE DEF b, w
    <3>2. /\ Window(line, radius, i) \in 0..(255 * (2 * radius + 1))
          /\ (\A j \in Side(n) : line[j] = 255)
               => Window(line, radius, i) = 255 * (2 * radius + 1)
          /\ i \in Side(n) /\ line[i] # 255
               => Window(line, radius, i) < 255 * (2 * radius + 1)
      BY <3>1, WindowBounds
    <3> QED
      BY ONLY <3>2, i \in Side(n) DEF b, w
  <2>2. b \in Nat \ {0} /\ Mean(line, radius, i) = w \div b
    BY <1>2, <1>3
  <2> HIDE DEF b, w
  <2>3. /\ w \div b \in Byte
        /\ w = 255 * b => w \div b = 255
        /\ w < 255 * b => w \div b # 255
    BY ONLY <2>1, <2>2, ByteMean
  <2> QED
    BY ONLY <2>1, <2>2, <2>3
<1>5. ASSUME NEW i \in Side(n)
      PROVE  (Window(line, radius, i) \div (2 * radius + 1)) % 256 = Mean(line, radius, i)
  <2>1. Mean(line, radius, i) \in 0..255
    BY <1>4 DEF Byte
  <2>2. \A v \in 0..255 : v % 256 = v
    OBVIOUS
  <2> QED
    BY <1>3, <2>1, <2>2
<1>6. BlurLine(line, radius)
        = [i \in Side(n) |-> (Window(line, radius, i) \div (2 * radius + 1)) % 256]
  <2>1. Sums(line, radius) = [i \in Side(n) |-> Window(line, radius, i)]
    BY SumsIs
  <2>2. DOMAIN line = Side(n)
    OBVIOUS
  <2> QED
    BY <2>1, <2>2 DEF BlurLine
<1> QED
  BY <1>4, <1>5, <1>6

\* The mean does not see in which direction a line is read.
LEMMA MeanMirrored ==
    ASSUME NEW n \in Nat \ {0}, NEW line \in [Side(n) -> Byte], NEW mirrored \in [Side(n) -> Byte],
           \A i \in Side(n) : mirrored[i] = line[n - 1 - i],
           NEW radius \in Nat, NEW i \in Side(n)
    PROVE  Mean(mirrored, radius, i) = Mean(line, radius, n - 1 - i)
<1> DEFINE S == -radius..radius
           f == [d \in S |-> Extended(mirrored, i + d)]
           g == [d \in S |-> Extended(line, (n - 1 - i) + d)]
           b == [d \in S |-> -d]
<1>1. IsFiniteSet(S)
  <2>1. -radius \in Int /\ radius \in Int
    OBVIOUS
  <2> QED
    BY <2>1, FS_Interval
<1>2. i \in Int /\ n - 1 - i \in Int
  BY DEF Side
<1>3. ASSUME NEW j \in Int
      PROVE  Extended(mirrored, j) = Extended(line, (n - 1) - j) /\ Extended(mirrored, j) \in Int
  <2>1. (n - 1) - j \in Int
    OBVIOUS
  <2>2. /\ Extended(mirrored, j) = mirrored[ClampInt(j, 0, n - 1)]
        /\ ClampInt(j, 0, n - 1) \in Side(n)
        /\ Extended(mirrored, j) \in Byte
    BY ExtendedIs
  <2>3. Extended(line, (n - 1) - j) = line[ClampInt((n - 1) - j, 0, n - 1)]
    BY <2>1, ExtendedIs
  <2>4. ClampInt((n - 1) - j, 0, n - 1) = n - 1 - ClampInt(j, 0, n - 1)
    BY DEF ClampInt
  <2> QED
    BY <2>2, <2>3, <2>4 DEF Byte
<1>4. \A d \in S : b[d] \in S /\ i + d \in Int /\ (n - 1) - (i + d) = (n - 1 - i) + b[d]
  BY <1>2
<1>5. \A d \in S : f[d] \in Int /\ f[d] = g[b[d]]
  <2> SUFFICES ASSUME NEW d \in S PROVE f[d] \in Int /\ f[d] = g[b[d]]
    OBVIOUS
  <2>1. f[d] = Extended(mirrored, i + d) /\ g[b[d]] = Extended(line, (n - 1 - i) + b[d])
    BY <1>4
  <2> HIDE DEF b
  <2> QED
    BY <1>3, <1>4, <2>1
<1>6. \A c, d \in S : b[c] = b[d] => c = d
  OBVIOUS
<1>7. {b[d] : d \in S} = S
  <2>1. ASSUME NEW d \in S
        PROVE  d \in {b[c] : c \in S}
    <3>1. -d \in S /\ -(-d) = d
      OBVIOUS
    <3>2. b[-d] = d
      BY <3>1
    <3> QED
      BY <3>1, <3>2
  <2>2. {b[d] : d \in S} \subseteq S
    <3> HIDE DEF b, S
    <3> QED
      BY <1>4
  <2> QED
    BY <2>1, <2>2
<1>8. SumFunctionOnSet(g, {b[d] : d \in S}) = SumFunctionOnSet(f, S)
  <2> HIDE DEF S, f, g, b
  <2> QED
    BY <1>1, <1>5, <1>6, SumReindex
<1>9. SumFunction(g) = SumFunction(f)
  <2>1. DOMAIN f = S /\ DOMAIN g = S
    OBVIOUS
  <2> HIDE DEF f, g, S, b
  <2> QED
    BY <1>7, <1>8, <2>1, SumDomain
<1> QED
  BY <1>9 DEF Mean

-----------------------------------------------------------------------------
\* Where a pixel is in the bytes of its image.
LEMMA Places ==
    ASSUME NEW w \in Nat \ {0}, NEW h \in Nat \ {0}, NEW x \in Side(w), NEW y \in Side(h)
    PROVE  /\ y * w + x \in Side(w * h)
           /\ (y * w + x) \div w = y /\ (y * w + x) % w = x
<1>1. x \in Nat /\ x < w /\ y \in Nat /\ y <= h - 1
  BY DEF Side
<1>2. w * y <= w * (h - 1)
  <2>1. h - 1 \in Int
    OBVIOUS
  <2> QED
    BY <1>1, <2>1, Grows
<1>3. PICK k \in Nat : k = w * y /\ k = y * w
  BY <1>1
<1>4. PICK m \in Nat : m = w * h /\ w * (h - 1) = m - w
  OBVIOUS
<1>5. k + x \in 0..(m - 1)
  BY <1>1, <1>2, <1>3, <1>4
<1>6. (y * w + x) \div w = y
  <2>1. y * w + x \in Int /\ w * y <= y * w + x /\ y * w + x < w * y + w
    BY <1>1, <1>3
  <2> QED
    BY <1>1, <2>1, QuotientIs
<1>7. (y * w + x) % w = x
  BY <1>1
<1> QED
  BY <1>3, <1>4, <1>5, <1>6, <1>7 DEF Side

\* Every byte is one of a pixel.
LEMMA Coordinates ==
    ASSUME NEW w \in Nat \ {0}, NEW h \in Nat \ {0}, NEW n \in Side(w * h)
    PROVE  n % w \in Side(w) /\ n \div w \in Side(h) /\ (n \div w) * w + (n % w) = n
<1>1. PICK m \in Nat : m = w * h
  OBVIOUS
<1>2. n \in Nat /\ n < w * h
  BY <1>1 DEF Side
<1>3. PICK q \in Int : q = n \div w /\ w * q <= n /\ n < w * q + w
  BY <1>2, Quotient
<1>4. q >= 0
  <2> SUFFICES ASSUME q + 1 <= 0 PROVE FALSE
    BY <1>3
  <2>1. w * (q + 1) <= w * 0
    BY Grows
  <2> QED
    BY <1>2, <1>3, <2>1
<1>5. q <= h - 1
  <2> SUFFICES ASSUME h <= q PROVE FALSE
    BY <1>3
  <2>1. w * h <= w * q
    BY Grows
  <2> QED
    BY <1>1, <1>2, <1>3, <2>1
<1>6. n % w \in 0..(w - 1) /\ (n \div w) * w + (n % w) = n
  BY <1>2
<1> QED
  BY <1>3, <1>4, <1>5, <1>6 DEF Side

\* A pixel, and the lines of them.
Pixel(img, x, y) == img.pix[y * img.w + x]
Row(img, y) == [x \in Side(img.w) |-> Pixel(img, x, y)]
Column(img, x) == [y \in Side(img.h) |-> Pixel(img, x, y)]

\* An image has a byte for each of its pixels.
LEMMA ChannelIs ==
    ASSUME NEW img, IsChannel(img)
    PROVE  /\ img.w \in Nat \ {0} /\ img.h \in Nat \ {0}
           /\ img = [w |-> img.w, h |-> img.h, pix |-> img.pix]
           /\ img.pix \in [Side(img.w * img.h) -> Byte]
           /\ \A x \in Side(img.w), y \in Side(img.h) : Pixel(img, x, y) \in Byte
           /\ \A y \in Side(img.h) : Row(img, y) \in [Side(img.w) -> Byte]
           /\ \A x \in Side(img.w) : Column(img, x) \in [Side(img.h) -> Byte]
<1>1. /\ img.w \in Nat \ {0} /\ img.h \in Nat \ {0}
      /\ img = [w |-> img.w, h |-> img.h, pix |-> img.pix]
      /\ img.pix \in [Side(img.w * img.h) -> Byte]
  BY DEF IsChannel
<1>2. \A x \in Side(img.w), y \in Side(img.h) : Pixel(img, x, y) \in Byte
  <2> SUFFICES ASSUME NEW x \in Side(img.w), NEW y \in Side(img.h)
               PROVE  Pixel(img, x, y) \in Byte
    OBVIOUS
  <2>1. y * img.w + x \in Side(img.w * img.h)
    BY <1>1, Places
  <2> QED
    BY <1>1, <2>1 DEF Pixel
<1> QED
  BY <1>1, <1>2 DEF Row, Column

\* Images of the same size and pixels are the same.
LEMMA SameChannel ==
    ASSUME NEW a, NEW b, IsChannel(a), IsChannel(b), a.w = b.w, a.h = b.h,
           \A x \in Side(a.w), y \in Side(a.h) : Pixel(a, x, y) = Pixel(b, x, y)
    PROVE  a = b
<1>1. ASSUME NEW n \in Side(a.w * a.h)
      PROVE  a.pix[n] = b.pix[n]
  <2>1. /\ n % a.w \in Side(a.w) /\ n \div a.w \in Side(a.h)
        /\ (n \div a.w) * a.w + (n % a.w) = n
    BY ChannelIs, Coordinates
  <2>2. Pixel(a, n % a.w, n \div a.w) = Pixel(b, n % a.w, n \div a.w)
    BY <2>1
  <2> QED
    BY <2>1, <2>2 DEF Pixel
<1>2. a.pix = b.pix
  BY <1>1, ChannelIs
<1> QED
  BY <1>2, ChannelIs

\* The lines of an image are its rows, or its columns.
LEMMA LinesAre ==
    ASSUME NEW img, IsChannel(img)
    PROVE  /\ Lines(img, TRUE) = [y \in Side(img.h) |-> Row(img, y)]
           /\ Lines(img, FALSE) = [x \in Side(img.w) |-> Column(img, x)]
  BY DEF Lines, Idx, Row, Column, Pixel

\* An image with other bytes, one for each pixel.
LEMMA Repainted ==
    ASSUME NEW img, IsChannel(img), NEW pix, pix = [n \in DOMAIN img.pix |-> pix[n]],
           \A x \in Side(img.w), y \in Side(img.h) : pix[y * img.w + x] \in Byte
    PROVE  LET made == [img EXCEPT !.pix = pix]
           IN  /\ IsChannel(made) /\ made.w = img.w /\ made.h = img.h
               /\ \A x \in Side(img.w), y \in Side(img.h) :
                      Pixel(made, x, y) = pix[y * img.w + x]
<1> DEFINE made == [img EXCEPT !.pix = pix]
<1>1. \A n \in Side(img.w * img.h) : pix[n] \in Byte
  <2> SUFFICES ASSUME NEW n \in Side(img.w * img.h) PROVE pix[n] \in Byte
    OBVIOUS
  <2>1. /\ n % img.w \in Side(img.w) /\ n \div img.w \in Side(img.h)
        /\ (n \div img.w) * img.w + (n % img.w) = n
    BY ChannelIs, Coordinates
  <2>2. pix[(n \div img.w) * img.w + (n % img.w)] \in Byte
    BY <2>1
  <2> QED
    BY <2>1, <2>2
<1>2. pix \in [Side(img.w * img.h) -> Byte]
  <2>1. DOMAIN img.pix = Side(img.w * img.h)
    BY ChannelIs
  <2> QED
    BY <1>1, <2>1
<1>3. made.w = img.w /\ made.h = img.h /\ made.pix = pix
  BY DEF IsChannel
<1>4. made \in [w : {img.w}, h : {img.h}, pix : [Side(img.w * img.h) -> Byte]]
  BY <1>2 DEF IsChannel
<1> HIDE DEF made
<1>5. IsChannel(made)
  BY <1>3, <1>4, ChannelIs DEF IsChannel
<1>6. \A x \in Side(img.w), y \in Side(img.h) : Pixel(made, x, y) = pix[y * img.w + x]
  BY <1>3 DEF Pixel
<1> QED
  BY <1>3, <1>5, <1>6 DEF made

\* Blurring along the rows.
LEMMA RowsBlurred ==
    ASSUME NEW img, IsChannel(img), NEW radius \in Nat
    PROVE  LET made == BlurAxis(img, radius, TRUE)
           IN  /\ IsChannel(made) /\ made.w = img.w /\ made.h = img.h
               /\ \A x \in Side(img.w), y \in Side(img.h) :
                      Pixel(made, x, y) = Mean(Row(img, y), radius, x)
<1> DEFINE blurred == [o \in DOMAIN Lines(img, TRUE) |-> BlurLine(Lines(img, TRUE)[o], radius)]
           pix == [n \in DOMAIN img.pix |-> blurred[n \div img.w][n % img.w]]
<1>1. BlurAxis(img, radius, TRUE) = [img EXCEPT !.pix = pix]
  BY DEF BlurAxis
<1>2. ASSUME NEW y \in Side(img.h)
      PROVE  blurred[y] = [x \in Side(img.w) |-> Mean(Row(img, y), radius, x)]
  <2>1. Row(img, y) \in [Side(img.w) -> Byte] /\ img.w \in Nat \ {0}
    BY ChannelIs
  <2>2. BlurLine(Row(img, y), radius)
          = [x \in Side(img.w) |-> Mean(Row(img, y), radius, x)]
    BY <2>1, BlurLineIs
  <2>3. y \in DOMAIN Lines(img, TRUE) /\ Lines(img, TRUE)[y] = Row(img, y)
    BY LinesAre
  <2>4. blurred[y] = BlurLine(Row(img, y), radius)
    BY <2>3
  <2> QED
    BY <2>2, <2>4
<1> HIDE DEF blurred
<1>3. ASSUME NEW x \in Side(img.w), NEW y \in Side(img.h)
      PROVE  /\ pix[y * img.w + x] = Mean(Row(img, y), radius, x)
             /\ pix[y * img.w + x] \in Byte
  <2>1. /\ y * img.w + x \in Side(img.w * img.h)
        /\ (y * img.w + x) \div img.w = y /\ (y * img.w + x) % img.w = x
    BY ChannelIs, Places
  <2>2. pix[y * img.w + x] = blurred[y][x]
    <3>1. y * img.w + x \in DOMAIN img.pix
      BY <2>1, ChannelIs
    <3> QED
      BY <2>1, <3>1
  <2>3. Mean(Row(img, y), radius, x) \in Byte
    <3>1. Row(img, y) \in [Side(img.w) -> Byte] /\ img.w \in Nat \ {0}
      BY ChannelIs
    <3> QED
      BY <3>1, BlurLineIs
  <2> QED
    BY <1>2, <2>2, <2>3
<1>4. pix = [n \in DOMAIN img.pix |-> pix[n]]
  OBVIOUS
<1> HIDE DEF pix
<1>5. LET made == [img EXCEPT !.pix = pix]
      IN  /\ IsChannel(made) /\ made.w = img.w /\ made.h = img.h
          /\ \A x \in Side(img.w), y \in Side(img.h) : Pixel(made, x, y) = pix[y * img.w + x]
  BY <1>3, <1>4, Repainted
<1> QED
  BY <1>1, <1>3, <1>5

\* Blurring along the columns.
LEMMA ColumnsBlurred ==
    ASSUME NEW img, IsChannel(img), NEW radius \in Nat
    PROVE  LET made == BlurAxis(img, radius, FALSE)
           IN  /\ IsChannel(made) /\ made.w = img.w /\ made.h = img.h
               /\ \A x \in Side(img.w), y \in Side(img.h) :
                      Pixel(made, x, y) = Mean(Column(img, x), radius, y)
<1> DEFINE blurred == [o \in DOMAIN Lines(img, FALSE) |-> BlurLine(Lines(img, FALSE)[o], radius)]
           pix == [n \in DOMAIN img.pix |-> blurred[n % img.w][n \div img.w]]
<1>1. BlurAxis(img, radius, FALSE) = [img EXCEPT !.pix = pix]
  BY DEF BlurAxis
<1>2. ASSUME NEW x \in Side(img.w)
      PROVE  blurred[x] = [y \in Side(img.h) |-> Mean(Column(img, x), radius, y)]
  <2>1. Column(img, x) \in [Side(img.h) -> Byte] /\ img.h \in Nat \ {0}
    BY ChannelIs
  <2>2. BlurLine(Column(img, x), radius)
          = [y \in Side(img.h) |-> Mean(Column(img, x), radius, y)]
    BY <2>1, BlurLineIs
  <2>3. x \in DOMAIN Lines(img, FALSE) /\ Lines(img, FALSE)[x] = Column(img, x)
    BY LinesAre
  <2>4. blurred[x] = BlurLine(Column(img, x), radius)
    BY <2>3
  <2> QED
    BY <2>2, <2>4
<1> HIDE DEF blurred
<1>3. ASSUME NEW x \in Side(img.w), NEW y \in Side(img.h)
      PROVE  /\ pix[y * img.w + x] = Mean(Column(img, x), radius, y)
             /\ pix[y * img.w + x] \in Byte
  <2>1. /\ y * img.w + x \in Side(img.w * img.h)
        /\ (y * img.w + x) \div img.w = y /\ (y * img.w + x) % img.w = x
    BY ChannelIs, Places
  <2>2. pix[y * img.w + x] = blurred[x][y]
    <3>1. y * img.w + x \in DOMAIN img.pix
      BY <2>1, ChannelIs
    <3> QED
      BY <2>1, <3>1
  <2>3. Mean(Column(img, x), radius, y) \in Byte
    <3>1. Column(img, x) \in [Side(img.h) -> Byte] /\ img.h \in Nat \ {0}
      BY ChannelIs
    <3> QED
      BY <3>1, BlurLineIs
  <2> QED
    BY <1>2, <2>2, <2>3
<1>4. pix = [n \in DOMAIN img.pix |-> pix[n]]
  OBVIOUS
<1> HIDE DEF pix
<1>5. LET made == [img EXCEPT !.pix = pix]
      IN  /\ IsChannel(made) /\ made.w = img.w /\ made.h = img.h
          /\ \A x \in Side(img.w), y \in Side(img.h) : Pixel(made, x, y) = pix[y * img.w + x]
  BY <1>3, <1>4, Repainted
<1> QED
  BY <1>1, <1>3, <1>5

\* A position seen in a mirror, if there is one.
Seen(i, n, mirror) == IF mirror THEN n - 1 - i ELSE i

\* What mirroring does to the pixels.
LEMMA FlipIs ==
    ASSUME NEW img, IsChannel(img), NEW a \in BOOLEAN, NEW b \in BOOLEAN
    PROVE  LET made == Flip(img, a, b)
           IN  /\ IsChannel(made) /\ made.w = img.w /\ made.h = img.h
               /\ \A x \in Side(img.w), y \in Side(img.h) :
                    /\ Seen(x, img.w, a) \in Side(img.w) /\ Seen(y, img.h, b) \in Side(img.h)
                    /\ Pixel(made, x, y) = Pixel(img, Seen(x, img.w, a), Seen(y, img.h, b))
<1> DEFINE pix == [n \in DOMAIN img.pix |->
                     img.pix[Seen(n \div img.w, img.h, b) * img.w + Seen(n % img.w, img.w, a)]]
<1>1. Flip(img, a, b) = [img EXCEPT !.pix = pix]
  BY DEF Flip, Seen
<1>2. ASSUME NEW x \in Side(img.w), NEW y \in Side(img.h)
      PROVE  /\ Seen(x, img.w, a) \in Side(img.w) /\ Seen(y, img.h, b) \in Side(img.h)
             /\ pix[y * img.w + x] = Pixel(img, Seen(x, img.w, a), Seen(y, img.h, b))
             /\ pix[y * img.w + x] \in Byte
  <2>1. /\ y * img.w + x \in Side(img.w * img.h)
        /\ (y * img.w + x) \div img.w = y /\ (y * img.w + x) % img.w = x
    BY ChannelIs, Places
  <2>2. Seen(x, img.w, a) \in Side(img.w) /\ Seen(y, img.h, b) \in Side(img.h)
    <3>1. img.w \in Nat /\ img.h \in Nat
      BY ChannelIs
    <3> QED
      BY <3>1 DEF Seen, Side
  <2>3. pix[y * img.w + x] = Pixel(img, Seen(x, img.w, a), Seen(y, img.h, b))
    <3>1. y * img.w + x \in DOMAIN img.pix
      BY <2>1, ChannelIs
    <3> QED
      BY <2>1, <3>1 DEF Pixel
  <2>4. Pixel(img, Seen(x, img.w, a), Seen(y, img.h, b)) \in Byte
    BY <2>2, ChannelIs
  <2> QED
    BY ONLY <2>2, <2>3, <2>4
<1>3. pix = [n \in DOMAIN img.pix |-> pix[n]]
  OBVIOUS
<1> HIDE DEF pix
<1>4. LET made == [img EXCEPT !.pix = pix]
      IN  /\ IsChannel(made) /\ made.w = img.w /\ made.h = img.h
          /\ \A x \in Side(img.w), y \in Side(img.h) : Pixel(made, x, y) = pix[y * img.w + x]
  BY <1>2, <1>3, Repainted
<1> QED
  BY <1>1, <1>2, <1>4

\* Mirroring twice is nothing.
LEMMA FlipTwice ==
    ASSUME NEW img, IsChannel(img), NEW a \in BOOLEAN, NEW b \in BOOLEAN
    PROVE  Flip(Flip(img, a, b), a, b) = img
<1> DEFINE once == Flip(img, a, b)
           twice == Flip(once, a, b)
<1>1. /\ IsChannel(once) /\ once.w = img.w /\ once.h = img.h
      /\ \A x \in Side(img.w), y \in Side(img.h) :
           /\ Seen(x, img.w, a) \in Side(img.w) /\ Seen(y, img.h, b) \in Side(img.h)
           /\ Pixel(once, x, y) = Pixel(img, Seen(x, img.w, a), Seen(y, img.h, b))
  BY FlipIs
<1> HIDE DEF once
<1>2. /\ IsChannel(twice) /\ twice.w = img.w /\ twice.h = img.h
      /\ \A x \in Side(img.w), y \in Side(img.h) :
           Pixel(twice, x, y) = Pixel(once, Seen(x, img.w, a), Seen(y, img.h, b))
  BY <1>1, FlipIs
<1> HIDE DEF twice
<1>3. \A n \in Nat \ {0}, m \in BOOLEAN : \A i \in Side(n) : Seen(Seen(i, n, m), n, m) = i
  BY DEF Seen, Side
<1>4. img.w \in Nat \ {0} /\ img.h \in Nat \ {0}
  BY ChannelIs
<1>5. ASSUME NEW x \in Side(img.w), NEW y \in Side(img.h)
      PROVE  Pixel(twice, x, y) = Pixel(img, x, y)
  <2>1. Seen(x, img.w, a) \in Side(img.w) /\ Seen(y, img.h, b) \in Side(img.h)
    BY <1>1
  <2>2. Pixel(twice, x, y) = Pixel(once, Seen(x, img.w, a), Seen(y, img.h, b))
    BY <1>2
  <2>3. Pixel(once, Seen(x, img.w, a), Seen(y, img.h, b))
          = Pixel(img, Seen(Seen(x, img.w, a), img.w, a), Seen(Seen(y, img.h, b), img.h, b))
    BY <1>1, <2>1
  <2>4. Seen(Seen(x, img.w, a), img.w, a) = x /\ Seen(Seen(y, img.h, b), img.h, b) = y
    BY <1>3, <1>4
  <2> QED
    BY <2>2, <2>3, <2>4
<1>6. twice = img
  BY <1>2, <1>5, SameChannel
<1> QED
  BY <1>6 DEF twice, once

\* The mean of a line that is seen in a mirror, if there is one.
LEMMA MeanSeen ==
    ASSUME NEW n \in Nat \ {0}, NEW line \in [Side(n) -> Byte], NEW other \in [Side(n) -> Byte],
           NEW mirror \in BOOLEAN, \A i \in Side(n) : other[i] = line[Seen(i, n, mirror)],
           NEW radius \in Nat, NEW i \in Side(n)
    PROVE  Mean(other, radius, i) = Mean(line, radius, Seen(i, n, mirror))
<1>1. CASE mirror
  <2>1. \A j \in Side(n) : other[j] = line[n - 1 - j]
    BY <1>1 DEF Seen
  <2>2. Mean(other, radius, i) = Mean(line, radius, n - 1 - i)
    BY <2>1, MeanMirrored
  <2> QED
    BY <1>1, <2>2 DEF Seen
<1>2. CASE ~mirror
  <2>1. \A j \in Side(n) : other[j] = line[j]
    BY <1>2 DEF Seen
  <2>2. other = line
    BY <2>1
  <2> QED
    BY <1>2, <2>2 DEF Seen
<1> QED
  BY <1>1, <1>2

\* It makes no difference whether rows are blurred before or after mirroring.
LEMMA RowsMirrored ==
    ASSUME NEW img, IsChannel(img), NEW radius \in Nat, NEW a \in BOOLEAN, NEW b \in BOOLEAN
    PROVE  BlurAxis(Flip(img, a, b), radius, TRUE) = Flip(BlurAxis(img, radius, TRUE), a, b)
<1> DEFINE seen    == Flip(img, a, b)
           left    == BlurAxis(seen, radius, TRUE)
           blurred == BlurAxis(img, radius, TRUE)
           right   == Flip(blurred, a, b)
<1>1. /\ IsChannel(seen) /\ seen.w = img.w /\ seen.h = img.h
      /\ \A x \in Side(img.w), y \in Side(img.h) :
           /\ Seen(x, img.w, a) \in Side(img.w) /\ Seen(y, img.h, b) \in Side(img.h)
           /\ Pixel(seen, x, y) = Pixel(img, Seen(x, img.w, a), Seen(y, img.h, b))
  BY FlipIs
<1>2. /\ IsChannel(blurred) /\ blurred.w = img.w /\ blurred.h = img.h
      /\ \A x \in Side(img.w), y \in Side(img.h) :
           Pixel(blurred, x, y) = Mean(Row(img, y), radius, x)
  BY RowsBlurred
<1> HIDE DEF seen, blurred
<1>3. /\ IsChannel(left) /\ left.w = img.w /\ left.h = img.h
      /\ \A x \in Side(img.w), y \in Side(img.h) :
           Pixel(left, x, y) = Mean(Row(seen, y), radius, x)
  <2>1. /\ IsChannel(left) /\ left.w = seen.w /\ left.h = seen.h
        /\ \A x \in Side(seen.w), y \in Side(seen.h) :
             Pixel(left, x, y) = Mean(Row(seen, y), radius, x)
    BY <1>1, RowsBlurred
  <2> HIDE DEF left
  <2> QED
    BY ONLY <1>1, <2>1
<1>4. /\ IsChannel(right) /\ right.w = img.w /\ right.h = img.h
      /\ \A x \in Side(img.w), y \in Side(img.h) :
           Pixel(right, x, y) = Pixel(blurred, Seen(x, img.w, a), Seen(y, img.h, b))
  BY <1>2, FlipIs
<1> HIDE DEF left, right
<1>5. ASSUME NEW x \in Side(img.w), NEW y \in Side(img.h)
      PROVE  Pixel(left, x, y) = Pixel(right, x, y)
  <2> DEFINE s == Seen(y, img.h, b)
  <2>1. Seen(y, img.h, b) \in Side(img.h) /\ Seen(x, img.w, a) \in Side(img.w)
    BY <1>1
  <2>2. /\ img.w \in Nat \ {0}
        /\ Row(img, s) \in [Side(img.w) -> Byte]
        /\ Row(seen, y) \in [Side(img.w) -> Byte]
    BY <1>1, <2>1, ChannelIs
  <2>3. \A i \in Side(img.w) : Row(seen, y)[i] = Row(img, s)[Seen(i, img.w, a)]
    BY <1>1, <2>1 DEF Row
  <2>4. Mean(Row(seen, y), radius, x) = Mean(Row(img, s), radius, Seen(x, img.w, a))
    <3> HIDE DEF s
    <3> QED
      BY <2>2, <2>3, MeanSeen
  <2>5. Pixel(left, x, y) = Mean(Row(seen, y), radius, x)
    BY <1>3
  <2>6. Pixel(right, x, y) = Mean(Row(img, s), radius, Seen(x, img.w, a))
    BY <1>2, <1>4, <2>1
  <2> QED
    BY <2>4, <2>5, <2>6
<1>6. left = right
  BY <1>3, <1>4, <1>5, SameChannel
<1> QED
  BY <1>6 DEF left, right, seen, blurred

\* ... nor whether columns are.
LEMMA ColumnsMirrored ==
    ASSUME NEW img, IsChannel(img), NEW radius \in Nat, NEW a \in BOOLEAN, NEW b \in BOOLEAN
    PROVE  BlurAxis(Flip(img, a, b), radius, FALSE) = Flip(BlurAxis(img, radius, FALSE), a, b)
<1> DEFINE seen    == Flip(img, a, b)
           left    == BlurAxis(seen, radius, FALSE)
           blurred == BlurAxis(img, radius, FALSE)
           right   == Flip(blurred, a, b)
<1>1. /\ IsChannel(seen) /\ seen.w = img.w /\ seen.h = img.h
      /\ \A x \in Side(img.w), y \in Side(img.h) :
           /\ Seen(x, img.w, a) \in Side(img.w) /\ Seen(y, img.h, b) \in Side(img.h)
           /\ Pixel(seen, x, y) = Pixel(img, Seen(x, img.w, a), Seen(y, img.h, b))
  BY FlipIs
<1>2. /\ IsChannel(blurred) /\ blurred.w = img.w /\ blurred.h = img.h
      /\ \A x \in Side(img.w), y \in Side(img.h) :
           Pixel(blurred, x, y) = Mean(Column(img, x), radius, y)
  BY ColumnsBlurred
<1> HIDE DEF seen, blurred
<1>3. /\ IsChannel(left) /\ left.w = img.w /\ left.h = img.h
      /\ \A x \in Side(img.w), y \in Side(img.h) :
           Pixel(left, x, y) = Mean(Column(seen, x), radius, y)
  <2>1. /\ IsChannel(left) /\ left.w = seen.w /\ left.h = seen.h
        /\ \A x \in Side(seen.w), y \in Side(seen.h) :
             Pixel(left, x, y) = Mean(Column(seen, x), radius, y)
    BY <1>1, ColumnsBlurred
  <2> HIDE DEF left
  <2> QED
    BY ONLY <1>1, <2>1
<1>4. /\ IsChannel(right) /\ right.w = img.w /\ right.h = img.h
      /\ \A x \in Side(img.w), y \in Side(img.h) :
           Pixel(right, x, y) = Pixel(blurred, Seen(x, img.w, a), Seen(y, img.h, b))
  BY <1>2, FlipIs
<1> HIDE DEF left, right
<1>5. ASSUME NEW x \in Side(img.w), NEW y \in Side(img.h)
      PROVE  Pixel(left, x, y) = Pixel(right, x, y)
  <2> DEFINE s == Seen(x, img.w, a)
  <2>1. Seen(x, img.w, a) \in Side(img.w) /\ Seen(y, img.h, b) \in Side(img.h)
    BY <1>1
  <2>2. /\ img.h \in Nat \ {0}
        /\ Column(img, s) \in [Side(img.h) -> Byte]
        /\ Column(seen, x) \in [Side(img.h) -> Byte]
    BY <1>1, <2>1, ChannelIs
  <2>3. \A i \in Side(img.h) : Column(seen, x)[i] = Column(img, s)[Seen(i, img.h, b)]
    BY <1>1, <2>1 DEF Column
  <2>4. Mean(Column(seen, x), radius, y) = Mean(Column(img, s), radius, Seen(y, img.h, b))
    <3> HIDE DEF s
    <3> QED
      BY <2>2, <2>3, MeanSeen
  <2>5. Pixel(left, x, y) = Mean(Column(seen, x), radius, y)
    BY <1>3
  <2>6. Pixel(right, x, y) = Mean(Column(img, s), radius, Seen(y, img.h, b))
    BY <1>2, <1>4, <2>1
  <2> QED
    BY <2>4, <2>5, <2>6
<1>6. left = right
  BY <1>3, <1>4, <1>5, SameChannel
<1> QED
  BY <1>6 DEF left, right, seen, blurred

\* What is transparent is a pixel.
LEMMA AlphaIs ==
    ASSUME NEW img, IsChannel(img)
    PROVE  HasAlpha(img) <=> \E x \in Side(img.w), y \in Side(img.h) : Pixel(img, x, y) # 255
<1>1. DOMAIN img.pix = Side(img.w * img.h)
  BY ChannelIs
<1>2. ASSUME NEW n \in DOMAIN img.pix, img.pix[n] # 255
      PROVE  \E x \in Side(img.w), y \in Side(img.h) : Pixel(img, x, y) # 255
  <2>1. /\ n % img.w \in Side(img.w) /\ n \div img.w \in Side(img.h)
        /\ (n \div img.w) * img.w + (n % img.w) = n
    BY <1>1, ChannelIs, Coordinates
  <2>2. Pixel(img, n % img.w, n \div img.w) # 255
    BY <1>2, <2>1 DEF Pixel
  <2> QED
    BY <2>1, <2>2
<1>3. ASSUME NEW x \in Side(img.w), NEW y \in Side(img.h), Pixel(img, x, y) # 255
      PROVE  HasAlpha(img)
  <2>1. y * img.w + x \in DOMAIN img.pix
    BY <1>1, ChannelIs, Places
  <2> QED
    BY <1>3, <2>1 DEF HasAlpha, Pixel
<1> QED
  BY <1>2, <1>3 DEF HasAlpha

\* Blurring along an axis leaves an image of the same size, which has a
\* transparent pixel if it had one before.
LEMMA AxisKeeps ==
    ASSUME NEW img, IsChannel(img), NEW radius \in Nat, NEW horizontal \in BOOLEAN
    PROVE  /\ IsChannel(BlurAxis(img, radius, horizontal))
           /\ HasAlpha(BlurAxis(img, radius, horizontal)) <=> HasAlpha(img)
<1>1. img.w \in Nat \ {0} /\ img.h \in Nat \ {0}
  BY ChannelIs
<1>2. CASE horizontal = TRUE
  <2> DEFINE made == BlurAxis(img, radius, TRUE)
  <2>1. /\ IsChannel(made) /\ made.w = img.w /\ made.h = img.h
        /\ \A x \in Side(img.w), y \in Side(img.h) :
             Pixel(made, x, y) = Mean(Row(img, y), radius, x)
    BY RowsBlurred
  <2> HIDE DEF made
  <2>2. ASSUME NEW x \in Side(img.w), NEW y \in Side(img.h)
        PROVE  /\ Pixel(img, x, y) # 255 => Pixel(made, x, y) # 255
               /\ (\A i \in Side(img.w) : Pixel(img, i, y) = 255) => Pixel(made, x, y) = 255
    <3>1. Row(img, y) \in [Side(img.w) -> Byte]
      BY ChannelIs
    <3>2. \A i \in Side(img.w) : Row(img, y)[i] = Pixel(img, i, y)
      BY DEF Row
    <3>3. /\ (\A j \in Side(img.w) : Row(img, y)[j] = 255) => Mean(Row(img, y), radius, x) = 255
          /\ Row(img, y)[x] # 255 => Mean(Row(img, y), radius, x) # 255
      BY <1>1, <3>1, BlurLineIs
    <3> QED
      BY <2>1, <3>2, <3>3
  <2>3. HasAlpha(made) <=> \E x \in Side(img.w), y \in Side(img.h) : Pixel(made, x, y) # 255
    BY <2>1, AlphaIs
  <2>4. HasAlpha(img) <=> \E x \in Side(img.w), y \in Side(img.h) : Pixel(img, x, y) # 255
    BY AlphaIs
  <2>5. HasAlpha(made) <=> HasAlpha(img)
    BY ONLY <2>2, <2>3, <2>4
  <2> QED
    BY <1>2, <2>1, <2>5 DEF made
<1>3. CASE horizontal = FALSE
  <2> DEFINE made == BlurAxis(img, radius, FALSE)
  <2>1. /\ IsChannel(made) /\ made.w = img.w /\ made.h = img.h
        /\ \A x \in Side(img.w), y \in Side(img.h) :
             Pixel(made, x, y) = Mean(Column(img, x), radius, y)
    BY ColumnsBlurred
  <2> HIDE DEF made
  <2>2. ASSUME NEW x \in Side(img.w), NEW y \in Side(img.h)
        PROVE  /\ Pixel(img, x, y) # 255 => Pixel(made, x, y) # 255
               /\ (\A i \in Side(img.h) : Pixel(img, x, i) = 255) => Pixel(made, x, y) = 255
    <3>1. Column(img, x) \in [Side(img.h) -> Byte]
      BY ChannelIs
    <3>2. \A i \in Side(img.h) : Column(img, x)[i] = Pixel(img, x, i)
      BY DEF Column
    <3>3. /\ (\A j \in Side(img.h) : Column(img, x)[j] = 255) => Mean(Column(img, x), radius, y) = 255
          /\ Column(img, x)[y] # 255 => Mean(Column(img, x), radius, y) # 255
      BY <1>1, <3>1, BlurLineIs
    <3> QED
      BY <2>1, <3>2, <3>3
  <2>3. HasAlpha(made) <=> \E x \in Side(img.w), y \in Side(img.h) : Pixel(made, x, y) # 255
    BY <2>1, AlphaIs
  <2>4. HasAlpha(img) <=> \E x \in Side(img.w), y \in Side(img.h) : Pixel(img, x, y) # 255
    BY AlphaIs
  <2>5. HasAlpha(made) <=> HasAlpha(img)
    BY ONLY <2>2, <2>3, <2>4
  <2> QED
    BY <1>3, <2>1, <2>5 DEF made
<1> QED
  BY <1>2, <1>3

\* One pass of boxBlur.
Pass(img, radius) == BlurAxis(BlurAxis(img, radius, TRUE), radius, FALSE)

\* A pass leaves size and transparency, and commutes with mirroring.
LEMMA PassIs ==
    ASSUME NEW img, IsChannel(img), NEW radius \in Nat, NEW a \in BOOLEAN, NEW b \in BOOLEAN
    PROVE  /\ IsChannel(Pass(img, radius))
           /\ HasAlpha(Pass(img, radius)) <=> HasAlpha(img)
           /\ Pass(Flip(img, a, b), radius) = Flip(Pass(img, radius), a, b)
<1> DEFINE half == BlurAxis(img, radius, TRUE)
<1>1. IsChannel(half) /\ (HasAlpha(half) <=> HasAlpha(img))
  BY AxisKeeps
<1>2. BlurAxis(Flip(img, a, b), radius, TRUE) = Flip(half, a, b)
  BY RowsMirrored
<1>3. Pass(img, radius) = BlurAxis(half, radius, FALSE)
  BY DEF Pass
<1>4. Pass(Flip(img, a, b), radius) = BlurAxis(Flip(half, a, b), radius, FALSE)
  BY <1>2 DEF Pass
<1> HIDE DEF half
<1>5. /\ IsChannel(BlurAxis(half, radius, FALSE))
      /\ HasAlpha(BlurAxis(half, radius, FALSE)) <=> HasAlpha(half)
  BY <1>1, AxisKeeps
<1>6. BlurAxis(Flip(half, a, b), radius, FALSE) = Flip(BlurAxis(half, radius, FALSE), a, b)
  BY <1>1, ColumnsMirrored
<1> QED
  BY <1>1, <1>3, <1>4, <1>5, <1>6

\* So does boxBlur.
LEMMA BoxBlurIs ==
    ASSUME NEW img, IsChannel(img), NEW radius \in Nat, NEW a \in BOOLEAN, NEW b \in BOOLEAN
    PROVE  /\ HasAlpha(BoxBlur(img, radius)) <=> HasAlpha(img)
           /\ BoxBlur(Flip(img, a, b), radius) = Flip(BoxBlur(img, radius), a, b)
<1>1. \A i : BoxBlur(i, radius) = IF radius < 1 THEN i ELSE Pass(Pass(i, radius), radius)
  BY DEF BoxBlur, Pass
<1> DEFINE once == Pass(img, radius)
<1>2. /\ IsChannel(once) /\ (HasAlpha(once) <=> HasAlpha(img))
      /\ Pass(Flip(img, a, b), radius) = Flip(once, a, b)
  BY PassIs
<1>3. Pass(Pass(Flip(img, a, b), radius), radius) = Pass(Flip(once, a, b), radius)
  BY <1>2
<1> HIDE DEF once
<1>4. /\ HasAlpha(Pass(once, radius)) <=> HasAlpha(once)
      /\ Pass(Flip(once, a, b), radius) = Flip(Pass(once, radius), a, b)
  BY <1>2, PassIs
<1> QED
  BY <1>1, <1>2, <1>3, <1>4 DEF once

\* Blurring along an axis makes every pixel the mean of its surroundings.
LEMMA MeansBlurred ==
    ASSUME NEW img, IsChannel(img), NEW radius \in Nat
    PROVE  BlurMeans(img, radius)
<1>1. ASSUME NEW o \in DOMAIN Lines(img, TRUE)
      PROVE  Lines(BlurAxis(img, radius, TRUE), TRUE)[o]
               = [i \in DOMAIN Lines(img, TRUE)[o] |-> Mean(Lines(img, TRUE)[o], radius, i)]
  <2> DEFINE made == BlurAxis(img, radius, TRUE)
  <2>1. /\ IsChannel(made) /\ made.w = img.w /\ made.h = img.h
        /\ \A x \in Side(img.w), y \in Side(img.h) :
             Pixel(made, x, y) = Mean(Row(img, y), radius, x)
    BY RowsBlurred
  <2> HIDE DEF made
  <2>2. /\ o \in Side(img.h) /\ Lines(img, TRUE)[o] = Row(img, o)
        /\ Lines(made, TRUE)[o] = Row(made, o)
    <3>1. Lines(img, TRUE) = [y \in Side(img.h) |-> Row(img, y)]
      BY LinesAre
    <3>2. Lines(made, TRUE) = [y \in Side(made.h) |-> Row(made, y)]
      BY <2>1, LinesAre
    <3>3. o \in Side(img.h) /\ o \in Side(made.h)
      BY ONLY <2>1, <3>1, o \in DOMAIN Lines(img, TRUE)
    <3> QED
      BY ONLY <3>1, <3>2, <3>3
  <2>3. Row(made, o) = [x \in Side(img.w) |-> Mean(Row(img, o), radius, x)]
    BY <2>1, <2>2 DEF Row
  <2>4. DOMAIN Row(img, o) = Side(img.w)
    BY DEF Row
  <2> QED
    BY <2>2, <2>3, <2>4 DEF made
<1>2. ASSUME NEW o \in DOMAIN Lines(img, FALSE)
      PROVE  Lines(BlurAxis(img, radius, FALSE), FALSE)[o]
               = [i \in DOMAIN Lines(img, FALSE)[o] |-> Mean(Lines(img, FALSE)[o], radius, i)]
  <2> DEFINE made == BlurAxis(img, radius, FALSE)
  <2>1. /\ IsChannel(made) /\ made.w = img.w /\ made.h = img.h
        /\ \A x \in Side(img.w), y \in Side(img.h) :
             Pixel(made, x, y) = Mean(Column(img, x), radius, y)
    BY ColumnsBlurred
  <2> HIDE DEF made
  <2>2. /\ o \in Side(img.w) /\ Lines(img, FALSE)[o] = Column(img, o)
        /\ Lines(made, FALSE)[o] = Column(made, o)
    <3>1. Lines(img, FALSE) = [x \in Side(img.w) |-> Column(img, x)]
      BY LinesAre
    <3>2. Lines(made, FALSE) = [x \in Side(made.w) |-> Column(made, x)]
      BY <2>1, LinesAre
    <3>3. o \in Side(img.w) /\ o \in Side(made.w)
      BY ONLY <2>1, <3>1, o \in DOMAIN Lines(img, FALSE)
    <3> QED
      BY ONLY <3>1, <3>2, <3>3
  <2>3. Column(made, o) = [y \in Side(img.h) |-> Mean(Column(img, o), radius, y)]
    BY <2>1, <2>2 DEF Column
  <2>4. DOMAIN Column(img, o) = Side(img.h)
    BY DEF Column
  <2> QED
    BY <2>2, <2>3, <2>4 DEF made
<1> QED
  BY <1>1, <1>2 DEF BlurMeans

\* Blurring prefers no direction.
LEMMA MirrorsBlurred ==
    ASSUME NEW img, IsChannel(img), NEW radius \in Nat
    PROVE  BlurMirrors(img, radius)
  BY BoxBlurIs, FlipTwice DEF BlurMirrors

\* Blurring makes nothing transparent, nor opaque what is transparent.
LEMMA AlphaBlurred ==
    ASSUME NEW img, IsChannel(img), NEW radius \in Nat
    PROVE  BlurKeepsAlpha(img, radius)
<1>1. HasAlpha(BoxBlur(img, radius)) <=> HasAlpha(img)
  BY BoxBlurIs
<1> QED
  BY <1>1 DEF BlurKeepsAlpha, Encoding
=============================================================================

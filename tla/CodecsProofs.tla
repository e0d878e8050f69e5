----------------------------- MODULE CodecsProofs -----------------------------
(* What the codecs give back of what they are given, and the induction that     *)
(* this takes.  An inductive claim is stated of the set of arguments for which  *)
(* it holds: the library's induction theorems take an operator for it.          *)
EXTENDS Codecs, FiniteSetTheorems, NaturalsInduction, SequenceTheorems, TLAPS

(* A set of naturals has a least one. *)
LEMMA LeastNatural ==
  ASSUME NEW S \in SUBSET Nat, S # {}
  PROVE  \E m \in S : \A n \in S : m <= n
<1>1. PICK m \in S : \A n \in S : ~(<<n, m>> \in OpToRel(<, Nat))
  BY NatLessThanWellFounded, WFMin
<1>2. ASSUME NEW n \in S PROVE m <= n
  <2>1. m \in Nat /\ n \in Nat
    OBVIOUS
  <2>2. n < m => <<n, m>> \in OpToRel(<, Nat)
    BY <2>1 DEF OpToRel
  <2>3. ~(n < m)
    BY <1>1, <2>2, Zenon
  <2> QED  BY <2>1, <2>3
<1> QED  BY <1>2

LEMMA Induction ==
  ASSUME NEW T, 0 \in T, \A n \in Nat : n \in T => n + 1 \in T
  PROVE  \A n \in Nat : n \in T
<1> SUFFICES ASSUME NEW n \in Nat, n \notin T PROVE FALSE
  OBVIOUS
<1> DEFINE S == Nat \ T
<1>1. PICK m \in S : \A k \in S : m <= k
  <2>1. S \in SUBSET Nat /\ S # {}
    OBVIOUS
  <2> QED  BY <2>1, LeastNatural
<1>2. m \in Nat /\ m # 0 /\ m \notin T
  OBVIOUS
<1>3. m - 1 \in Nat /\ m - 1 \in T
  BY <1>1, <1>2
<1>4. (m - 1) + 1 \in T
  BY <1>3
<1> QED  BY <1>2, <1>4

LEMMA Recursion ==
  ASSUME NEW d \in [Nat -> Int], NEW b \in Int, NEW c \in Int
  PROVE  \E f \in [Nat -> Int] : f[0] = c /\ \A n \in Nat \ {0} : f[n] = b * f[n - 1] + d[n]
<1> DEFINE Upto(n, f) == /\ f \in [Nat -> Int]
                         /\ f[0] = c
                         /\ \A k \in 1..n : f[k] = b * f[k - 1] + d[k]
           T == {n \in Nat : \E f : Upto(n, f)}
           R == {n \in Nat : \A f, g : Upto(n, f) /\ Upto(n, g) => f[n] = g[n]}
<1>1. 0 \in T
  <2>1. Upto(0, [n \in Nat |-> c])
    OBVIOUS
  <2> QED  BY <2>1
<1>2. ASSUME NEW n \in Nat, n \in T PROVE n + 1 \in T
  <2>1. PICK f : Upto(n, f)
    BY <1>2
  <2> DEFINE g == [f EXCEPT ![n + 1] = b * f[n] + d[n + 1]]
  <2>2. g \in [Nat -> Int] /\ g[0] = c
    BY <2>1
  <2>3. ASSUME NEW k \in 1..n + 1 PROVE g[k] = b * g[k - 1] + d[k]
    <3>1. CASE k = n + 1
      BY <2>1, <3>1
    <3>2. CASE k # n + 1
      <4>1. k \in 1..n /\ k - 1 \in Nat /\ k - 1 # n + 1 /\ k \in Nat
        BY <3>2
      <4>2. g[k] = f[k] /\ g[k - 1] = f[k - 1]
        BY <2>1, <3>2, <4>1
      <4> QED  BY <2>1, <4>1, <4>2
    <3> QED  BY <3>1, <3>2
  <2>4. Upto(n + 1, g)
    BY <2>2, <2>3
  <2> HIDE DEF g, Upto
  <2> QED  BY <2>4
<1>3. \A n \in Nat : n \in T
  <2> HIDE DEF T
  <2> QED  BY <1>1, <1>2, Induction
<1>4. \A n \in Nat : n \in R
  <2>1. 0 \in R
    OBVIOUS
  <2>2. ASSUME NEW n \in Nat, n \in R PROVE n + 1 \in R
    <3> SUFFICES ASSUME NEW f, NEW g, Upto(n + 1, f), Upto(n + 1, g)
                 PROVE  f[n + 1] = g[n + 1]
      OBVIOUS
    <3>1. Upto(n, f) /\ Upto(n, g)
      OBVIOUS
    <3>2. f[n] = g[n]
      BY <2>2, <3>1
    <3>3. n + 1 \in 1..n + 1 /\ (n + 1) - 1 = n
      OBVIOUS
    <3>4. f[n + 1] = b * f[n] + d[n + 1] /\ g[n + 1] = b * g[n] + d[n + 1]
      BY <3>3
    <3> QED  BY <3>2, <3>4
  <2> HIDE DEF R
  <2> QED  BY <2>1, <2>2, Induction
<1> DEFINE F(n) == CHOOSE f : Upto(n, f)
           h == [n \in Nat |-> F(n)[n]]
<1>5. \A n \in Nat : Upto(n, F(n))
  <2> SUFFICES ASSUME NEW n \in Nat PROVE Upto(n, F(n))
    OBVIOUS
  <2>1. \E f : Upto(n, f)
    BY <1>3
  <2> HIDE DEF Upto
  <2> QED  BY <2>1
<1>6. h \in [Nat -> Int] /\ h[0] = c
  <2>1. \A n \in Nat : F(n)[n] \in Int
    <3> HIDE DEF F
    <3> QED  BY <1>5
  <2>2. F(0)[0] = c
    <3> HIDE DEF F
    <3> QED  BY <1>5
  <2> HIDE DEF F
  <2> QED  BY <2>1, <2>2
<1>7. ASSUME NEW n \in Nat \ {0} PROVE h[n] = b * h[n - 1] + d[n]
  <2>1. n \in Nat /\ n - 1 \in Nat /\ n \in 1..n
    OBVIOUS
  <2>2. Upto(n, F(n)) /\ Upto(n - 1, F(n)) /\ Upto(n - 1, F(n - 1))
    <3>1. Upto(n, F(n)) /\ Upto(n - 1, F(n - 1))
      <4> HIDE DEF Upto, F
      <4> QED  BY <1>5, <2>1
    <3> HIDE DEF F
    <3>2. Upto(n - 1, F(n))
      BY <3>1, <2>1
    <3> QED  BY <3>1, <3>2
  <2>3. F(n)[n - 1] = F(n - 1)[n - 1]
    <3>1. n - 1 \in R
      BY <1>4, <2>1
    <3> HIDE DEF Upto, F
    <3> QED  BY <3>1, <2>2
  <2>4. F(n)[n] = b * F(n)[n - 1] + d[n]
    <3> HIDE DEF F
    <3> QED  BY <2>1, <2>2
  <2>5. h[n] = F(n)[n] /\ h[n - 1] = F(n - 1)[n - 1]
    <3> HIDE DEF F
    <3> QED  BY <2>1
  <2> HIDE DEF F, h
  <2> QED  BY <2>3, <2>4, <2>5
<1> HIDE DEF h
<1> QED  BY <1>6, <1>7

-----------------------------------------------------------------------------
(* The powers of a byte's size *)

LEMMA PowerEquation ==
  Power[0] = 1 /\ \A n \in Nat \ {0} : Power[n] = Base * Power[n - 1]
<1> DEFINE Def(p) == p = [n \in Nat |-> IF n = 0 THEN 1 ELSE Base * p[n - 1]]
<1>1. \E p : Def(p)
  <2> DEFINE zero == [n \in Nat |-> 0]
  <2>1. zero \in [Nat -> Int] /\ Base \in Int /\ 1 \in Int
    BY BaseIsEven
  <2>2. PICK p \in [Nat -> Int] :
          p[0] = 1 /\ \A n \in Nat \ {0} : p[n] = Base * p[n - 1] + zero[n]
    <3> HIDE DEF zero
    <3> QED  BY <2>1, Recursion, Zenon
  <2>3. ASSUME NEW n \in Nat PROVE p[n] = IF n = 0 THEN 1 ELSE Base * p[n - 1]
    <3>1. CASE n = 0
      BY <2>2, <3>1
    <3>2. CASE n # 0
      <4>1. p[n] = Base * p[n - 1] + 0 /\ n - 1 \in Nat
        BY <2>2, <3>2
      <4>2. Base * p[n - 1] \in Int
        BY <2>1, <4>1
      <4> QED  BY <3>2, <4>1, <4>2
    <3> QED  BY <3>1, <3>2
  <2>4. Def(p)
    BY <2>3
  <2> HIDE DEF Def
  <2> QED  BY <2>4
<1>2. Power = CHOOSE p : Def(p)
  BY DEF Power
<1> HIDE DEF Def
<1>3. Def(Power)
  BY <1>1, <1>2
<1> QED  BY <1>3 DEF Def

LEMMA PowerPositive == \A n \in Nat : Power[n] \in Nat /\ Power[n] >= 1
<1> DEFINE T == {n \in Nat : Power[n] \in Nat /\ Power[n] >= 1}
<1>1. 0 \in T
  BY PowerEquation
<1>2. ASSUME NEW n \in Nat, n \in T PROVE n + 1 \in T
  <2>1. Power[n + 1] = Base * Power[n]
    BY PowerEquation
  <2>2. Base \in Nat /\ Base >= 1
    BY BaseIsEven
  <2>3. \A p \in Nat : p >= 1 => Base * p \in Nat /\ Base * p >= 1
    BY <2>2
  <2> QED  BY <1>2, <2>1, <2>3
<1> HIDE DEF T
<1>3. \A n \in Nat : n \in T
  BY <1>1, <1>2, Induction
<1> QED  BY <1>3 DEF T
-----------------------------------------------------------------------------
(* Quotients *)

(* An integer quotient is the largest integer whose multiple is not above the   *)
(* dividend.                                                                     *)
LEMMA Quotient ==
  ASSUME NEW a \in Int, NEW b \in Int, b > 0
  PROVE  /\ a \div b \in Int
         /\ b * (a \div b) <= a
         /\ a < b * (a \div b) + b
  OBVIOUS

LEMMA Monotone ==
  ASSUME NEW n \in Int, n > 0, NEW a \in Int, NEW b \in Int, a <= b
  PROVE  n * a <= n * b
  OBVIOUS

LEMMA QuotientIs ==
  ASSUME NEW a \in Int, NEW b \in Int, b > 0, NEW q \in Int,
         b * q <= a, a < b * q + b
  PROVE  a \div b = q
<1> DEFINE d == a \div b
<1>1. d \in Int /\ b * d <= a /\ a < b * d + b
  BY Quotient
<1> HIDE DEF d
<1>2. ~(d + 1 <= q)
  <2> SUFFICES ASSUME d + 1 <= q PROVE FALSE
    OBVIOUS
  <2>1. b * (d + 1) <= b * q
    BY <1>1, Monotone
  <2>2. b * (d + 1) = b * d + b
    BY <1>1
  <2> QED
    BY <1>1, <2>1, <2>2
<1>3. ~(q + 1 <= d)
  <2> SUFFICES ASSUME q + 1 <= d PROVE FALSE
    OBVIOUS
  <2>1. b * (q + 1) <= b * d
    BY <1>1, Monotone
  <2>2. b * (q + 1) = b * q + b
    OBVIOUS
  <2> QED
    BY <1>1, <2>1, <2>2
<1>4. d = q
  BY <1>1, <1>2, <1>3
<1> QED
  BY <1>4 DEF d

LEMMA QuotientTwice ==
  ASSUME NEW x \in Int, NEW a \in Int, a > 0, NEW b \in Int, b > 0
  PROVE  (x \div a) \div b = x \div (a * b)
<1> DEFINE y == x \div a
           z == y \div b
           c == a * b
<1>1. y \in Int /\ a * y <= x /\ x < a * y + a
  BY Quotient
<1> HIDE DEF y
<1>2. z \in Int /\ b * z <= y /\ y < b * z + b
  BY <1>1, Quotient
<1> HIDE DEF z
<1>3. c \in Int /\ c > 0
  OBVIOUS
<1>4. a * (b * z) = c * z /\ a * (b * z + b) = c * z + c
  BY <1>2
<1>5. c * z <= x
  <2>1. b * z \in Int
    BY <1>2
  <2>2. a * (b * z) <= a * y
    BY <1>1, <1>2, <2>1, Monotone
  <2> QED  BY <1>1, <1>2, <1>3, <1>4, <2>1, <2>2
<1>6. x < c * z + c
  <2>1. b * z + b \in Int /\ y + 1 \in Int /\ y + 1 <= b * z + b
    BY <1>1, <1>2
  <2>2. a * (y + 1) <= a * (b * z + b)
    BY <2>1, Monotone
  <2>3. a * (y + 1) = a * y + a
    BY <1>1
  <2>4. c * z \in Int /\ a * y \in Int
    BY <1>1, <1>2, <1>3
  <2> QED  BY <1>1, <1>3, <1>4, <2>2, <2>3, <2>4
<1> HIDE DEF c
<1>7. x \div c = z
  BY <1>2, <1>3, <1>5, <1>6, QuotientIs
<1> QED  BY <1>7 DEF z, y, c

-----------------------------------------------------------------------------
(* The number that a blob stands for *)

(* The number of a blob's first k bytes, for each k. *)
LEMMA Prefixes ==
  ASSUME NEW blob \in Seq(Int)
  PROVE  \E f \in [Nat -> Int] :
           f[0] = 0 /\ \A k \in 1..Len(blob) : f[k] = Base * f[k - 1] + blob[k]
<1> DEFINE d == [n \in Nat |-> IF n \in 1..Len(blob) THEN blob[n] ELSE 0]
<1>1. d \in [Nat -> Int] /\ Base \in Int /\ 0 \in Int
  BY BaseIsEven
<1>2. \A k \in 1..Len(blob) : k \in Nat \ {0} /\ d[k] = blob[k]
  OBVIOUS
<1> HIDE DEF d
<1>3. PICK f \in [Nat -> Int] :
        f[0] = 0 /\ \A n \in Nat \ {0} : f[n] = Base * f[n - 1] + d[n]
  BY <1>1, Recursion, Zenon
<1> QED  BY <1>2, <1>3

LEMMA UnsignedIs ==
  ASSUME NEW blob \in Seq(Int), NEW f,
         f[0] = 0, \A k \in 1..Len(blob) : f[k] = Base * f[k - 1] + blob[k]
  PROVE  Unsigned(blob) = f[Len(blob)]
<1> DEFINE n == Len(blob)
           Def(v) == v = [i \in 0..n |-> IF i = 0 THEN 0 ELSE Base * v[i - 1] + blob[i]]
           value == CHOOSE v : Def(v)
<1>1. n \in Nat
  OBVIOUS
<1>2. Unsigned(blob) = value[n]
  BY DEF Unsigned
<1> HIDE DEF n
<1>3. \E v : Def(v)
  <2> DEFINE v == [i \in 0..n |-> f[i]]
  <2>1. ASSUME NEW i \in 0..n PROVE v[i] = IF i = 0 THEN 0 ELSE Base * v[i - 1] + blob[i]
    <3>1. CASE i = 0
      BY <3>1, <1>1
    <3>2. CASE i # 0
      <4>1. i \in 1..Len(blob) /\ i - 1 \in 0..n
        BY <1>1, <3>2 DEF n
      <4>2. v[i] = f[i] /\ v[i - 1] = f[i - 1]
        BY <4>1
      <4> QED  BY <3>2, <4>1, <4>2
    <3> QED  BY <3>1, <3>2
  <2>2. Def(v)
    BY <2>1
  <2> HIDE DEF Def, v
  <2> QED  BY <2>2
<1> HIDE DEF Def
<1>4. Def(value)
  BY <1>3
<1> HIDE DEF value
<1> DEFINE T == {i \in Nat : i <= n => value[i] = f[i]}
<1>5. 0 \in T
  BY <1>1, <1>4 DEF Def
<1>6. ASSUME NEW i \in Nat, i \in T PROVE i + 1 \in T
  <2> SUFFICES ASSUME i + 1 <= n PROVE value[i + 1] = f[i + 1]
    OBVIOUS
  <2>1. i <= n /\ i + 1 \in 1..n /\ i + 1 \in 0..n /\ i + 1 # 0 /\ (i + 1) - 1 = i
    BY <1>1
  <2>2. value[i] = f[i]
    BY <1>6, <2>1
  <2>3. value[i + 1] = Base * value[i] + blob[i + 1]
    BY <1>4, <2>1 DEF Def
  <2>4. f[i + 1] = Base * f[i] + blob[i + 1]
    BY <2>1 DEF n
  <2> QED  BY <2>2, <2>3, <2>4
<1> HIDE DEF T
<1>7. n \in T
  BY <1>1, <1>5, <1>6, Induction
<1> QED  BY <1>1, <1>2, <1>7 DEF T, n

LEMMA UnsignedType == ASSUME NEW blob \in Seq(Int) PROVE Unsigned(blob) \in Int
<1>1. PICK f \in [Nat -> Int] :
        f[0] = 0 /\ \A k \in 1..Len(blob) : f[k] = Base * f[k - 1] + blob[k]
  BY Prefixes
<1>2. Unsigned(blob) = f[Len(blob)]
  BY <1>1, UnsignedIs
<1> QED  BY <1>2
-----------------------------------------------------------------------------
(* What is packed is restored *)

LEMMA PackType ==
  ASSUME NEW x \in Int, NEW w \in Nat
  PROVE  Pack(x, w) \in Seq(Byte) /\ Pack(x, w) \in Seq(Int) /\ Len(Pack(x, w)) = w
<1>1. ASSUME NEW i \in 1..w PROVE (x \div Power[w - i]) % Base \in Byte
  <2>1. w - i \in Nat
    OBVIOUS
  <2>2. x \div Power[w - i] \in Int
    BY <2>1, PowerPositive, Quotient
  <2> QED  BY <2>2, BaseIsEven DEF Byte
<1>2. Byte \subseteq Int
  BY BaseIsEven DEF Byte
<1>3. Pack(x, w) \in [1..w -> Byte]
  BY <1>1 DEF Pack
<1>4. \A S, f : f \in [1..w -> S] => f \in Seq(S) /\ Len(f) = w
  BY LenProperties
<1> QED  BY <1>2, <1>3, <1>4

LEMMA PackedDigit ==
  ASSUME NEW x \in Int, NEW w \in Nat, NEW i \in 1..w
  PROVE  /\ x \div Power[w - i] \in Int /\ x \div Power[w - (i - 1)] \in Int
         /\ x \div Power[w - i] = Base * (x \div Power[w - (i - 1)]) + Pack(x, w)[i]
<1> DEFINE p == Power[w - i]
           y == x \div p
<1>1. p \in Nat /\ p > 0 /\ Power[w - (i - 1)] = Base * p /\ Base \in Nat /\ Base > 0
  <2>1. w - i \in Nat /\ w - (i - 1) \in Nat \ {0} /\ (w - (i - 1)) - 1 = w - i
    OBVIOUS
  <2> QED  BY <2>1, PowerEquation, PowerPositive, BaseIsEven
<1>2. y \in Int
  BY <1>1, Quotient
<1>3. x \div Power[w - (i - 1)] = y \div Base
  <2>1. Base * p = p * Base
    BY <1>1
  <2> QED  BY <1>1, <2>1, QuotientTwice
<1>4. Pack(x, w)[i] = y % Base
  BY DEF Pack
<1> HIDE DEF y, p
<1>5. y = Base * (y \div Base) + (y % Base) /\ y \div Base \in Int
  BY <1>1, <1>2
<1> QED  BY <1>2, <1>3, <1>4, <1>5 DEF y, p

LEMMA Distribute ==
  ASSUME NEW b \in Int, NEW y \in Int, NEW z \in Int
  PROVE  b * (y + z) = b * y + b * z
  OBVIOUS

LEMMA UnsignedPack ==
  ASSUME NEW x \in Int, NEW w \in Nat, NEW s \in {0, 1}, x \div Power[w] = -s
  PROVE  Unsigned(Pack(x, w)) = x + s * Power[w]
<1> DEFINE f == [k \in 0..w |-> x \div Power[w - k] + s * Power[k]]
<1>1. f[0] = 0
  BY PowerEquation
<1>2. ASSUME NEW k \in 1..w PROVE f[k] = Base * f[k - 1] + Pack(x, w)[k]
  <2>1. k \in Nat \ {0} /\ k - 1 \in Nat /\ k \in 0..w /\ k - 1 \in 0..w
    OBVIOUS
  <2>2. Power[k] = Base * Power[k - 1] /\ Power[k - 1] \in Nat
    BY <2>1, PowerEquation, PowerPositive
  <2>3. Pack(x, w)[k] \in Int
    BY PackType
  <2> DEFINE y == x \div Power[w - k]
             z == x \div Power[w - (k - 1)]
  <2>4. y \in Int /\ z \in Int /\ y = Base * z + Pack(x, w)[k]
    BY PackedDigit
  <2>5. f[k] = y + s * Power[k] /\ f[k - 1] = z + s * Power[k - 1]
    BY <2>1
  <2> HIDE DEF f, y, z
  <2>6. CASE s = 0
    <3>1. f[k] = y /\ f[k - 1] = z
      BY <2>2, <2>4, <2>5, <2>6, PowerPositive
    <3> QED  BY <2>4, <3>1
  <2>7. CASE s = 1
    <3>1. f[k] = y + Power[k] /\ f[k - 1] = z + Power[k - 1]
      BY <2>1, <2>4, <2>5, <2>7, PowerPositive
    <3>2. Base * (z + Power[k - 1]) = Base * z + Power[k]
      BY <2>2, <2>4, Distribute, BaseIsEven
    <3>3. Base * z \in Int /\ Power[k] \in Int
      BY <2>1, <2>4, BaseIsEven, PowerPositive
    <3> QED  BY <2>3, <2>4, <3>1, <3>2, <3>3
  <2> QED  BY <2>6, <2>7
<1>3. f[w] = x + s * Power[w]
  <2>1. w - w = 0 /\ w \in 0..w /\ x \div 1 = x
    OBVIOUS
  <2> QED  BY <2>1, PowerEquation
<1> HIDE DEF f
<1>4. Pack(x, w) \in Seq(Int) /\ Len(Pack(x, w)) = w
  BY PackType
<1>5. Unsigned(Pack(x, w)) = f[w]
  BY <1>1, <1>2, <1>4, UnsignedIs
<1> QED  BY <1>3, <1>5

(* struct.unpack of what struct.pack made of a number without sign. *)
LEMMA NaturalRestored ==
  ASSUME NEW w \in Nat, NEW x \in 0..Power[w] - 1
  PROVE  Unsigned(Pack(x, w)) = x
<1>1. Power[w] \in Nat /\ Power[w] > 0
  BY PowerPositive
<1>2. x \div Power[w] = -0
  BY <1>1, QuotientIs
<1>3. Unsigned(Pack(x, w)) = x + 0 * Power[w]
  BY <1>2, UnsignedPack
<1> QED  BY <1>1, <1>3

(* And of a number with a sign, which the first byte tells. *)
LEMMA IntegerRestored ==
  ASSUME NEW w \in Nat \ {0}, NEW x \in SignedRange(w)
  PROVE  /\ Signed(Pack(x, w)) = x
         /\ x >= 0 <=> Pack(x, w)[1] < Base \div 2
<1> DEFINE p == Power[w - 1]
           h == Base \div 2
           q == x \div p
<1>1. h \in Nat /\ h > 0 /\ Base = 2 * h /\ p \in Nat /\ p > 0 /\ Power[w] = Base * p
  BY BaseIsEven, PowerEquation, PowerPositive
<1> HIDE DEF h, p
<1>2. h * p \in Nat /\ Power[w] = 2 * (h * p) /\ p * h = h * p
  BY <1>1
<1>3. Power[w] \div 2 = h * p
  BY <1>2
<1>4. x \in Int /\ -(h * p) <= x /\ x < h * p
  BY <1>2, <1>3 DEF SignedRange
<1>5. q \in Int /\ p * q <= x /\ x < p * q + p
  BY <1>1, <1>4, Quotient
<1>6. Pack(x, w)[1] = q % Base
  BY DEF Pack, p
<1> HIDE DEF q
<1>7. q < h
  <2> SUFFICES ASSUME h <= q PROVE FALSE
    BY <1>1, <1>5
  <2>1. p * h <= p * q
    BY <1>1, <1>5, Monotone
  <2> QED  BY <1>1, <1>2, <1>4, <1>5, <2>1
<1>8. -h <= q
  <2> SUFFICES ASSUME q + 1 <= -h PROVE FALSE
    BY <1>1, <1>5
  <2>1. p * (q + 1) <= p * (-h)
    BY <1>1, <1>5, Monotone
  <2>2. p * (q + 1) = p * q + p /\ p * (-h) = -(h * p)
    BY <1>1, <1>5
  <2> QED  BY <1>1, <1>2, <1>4, <1>5, <2>1, <2>2
<1>9. x >= 0 <=> q >= 0
  <2>1. ASSUME x >= 0, q + 1 <= 0 PROVE FALSE
    <3>1. p * (q + 1) <= p * 0
      BY <1>1, <1>5, <2>1, Monotone
    <3>2. p * (q + 1) = p * q + p /\ p * 0 = 0
      BY <1>1, <1>5
    <3> QED  BY <1>1, <1>4, <1>5, <2>1, <3>1, <3>2
  <2>2. ASSUME q >= 0 PROVE x >= 0
    <3>1. p * q \in Nat
      BY <1>1, <1>5, <2>2
    <3> QED  BY <1>4, <1>5, <3>1
  <2> QED  BY <1>4, <1>5, <2>1, <2>2
<1>10. Len(Pack(x, w)) = w
  BY <1>4, PackType
<1>11. CASE q >= 0
  <2>1. Pack(x, w)[1] = q
    BY <1>1, <1>5, <1>6, <1>7, <1>11
  <2>2. x \in 0..Power[w] - 1
    BY <1>2, <1>4, <1>9, <1>11
  <2>3. Unsigned(Pack(x, w)) = x
    BY <2>2, NaturalRestored
  <2> QED  BY <1>5, <1>7, <1>9, <1>11, <2>1, <2>3 DEF Signed, h
<1>12. CASE q < 0
  <2>1. Pack(x, w)[1] = q + Base
    BY <1>1, <1>5, <1>6, <1>8, <1>12
  <2>2. ~(Pack(x, w)[1] < h)
    BY <1>1, <1>5, <1>8, <2>1
  <2>3. x \div Power[w] = -1
    <3>1. x < 0
      BY <1>4, <1>5, <1>9, <1>12
    <3>2. Power[w] * (-1) = -Power[w] /\ Power[w] > 0
      BY <1>1, <1>2, PowerPositive
    <3> QED  BY <1>2, <1>4, <3>1, <3>2, QuotientIs
  <2>4. Unsigned(Pack(x, w)) = x + 1 * Power[w]
    BY <1>4, <2>3, UnsignedPack
  <2> QED  BY <1>2, <1>4, <1>5, <1>9, <1>10, <1>12, <2>2, <2>4 DEF Signed, h
<1> QED  BY <1>5, <1>11, <1>12

-----------------------------------------------------------------------------
(* Terms: the atoms of the relations that atoms were given *)

LEMMA RelationsShape ==
  ASSUME NEW S, NEW atoms \in Seq(S)
  PROVE  /\ DOMAIN Relations(atoms) = 0..Len(atoms) - 1
         /\ DOMAIN Relations(atoms) \subseteq Nat
         /\ IsFiniteSet(DOMAIN Relations(atoms))
         /\ Cardinality(DOMAIN Relations(atoms)) = Len(atoms)
         /\ \A order \in 0..Len(atoms) - 1 : Relations(atoms)[order] = atoms[order + 1]
<1> DEFINE n == Len(atoms)
<1>1. n \in Nat
  OBVIOUS
<1>2. DOMAIN Relations(atoms) = 0..n - 1
  BY DEF Relations
<1>3. IsFiniteSet(0..n - 1) /\ Cardinality(0..n - 1) = n
  <2>1. 0 \in Int /\ n - 1 \in Int
    BY <1>1
  <2>2. /\ IsFiniteSet(0..n - 1)
        /\ Cardinality(0..n - 1) = IF 0 > n - 1 THEN 0 ELSE (n - 1) - 0 + 1
    BY <2>1, FS_Interval
  <2> HIDE DEF n
  <2> QED  BY <1>1, <2>2
<1> QED  BY <1>1, <1>2, <1>3 DEF Relations

LEMMA OrdersOfRelations ==
  ASSUME NEW S, NEW atoms \in Seq(S)
  PROVE  OrdersOf(Relations(atoms)) = [i \in 1..Len(atoms) |-> i - 1]
<1> DEFINE n == Len(atoms)
           D == 0..n - 1
<1>1. n \in Nat
  OBVIOUS
<1>2. DOMAIN Relations(atoms) = D /\ Cardinality(D) = n
  BY RelationsShape
<1> HIDE DEF n
<1>3. ASSUME NEW o \in D PROVE Cardinality({p \in D : p < o}) = o
  <2>1. {p \in D : p < o} = 0..o - 1
    BY <1>1
  <2>2. 0 \in Int /\ o - 1 \in Int /\ o \in Nat
    BY <1>1
  <2>3. Cardinality(0..o - 1) = IF 0 > o - 1 THEN 0 ELSE (o - 1) - 0 + 1
    BY <2>2, FS_Interval
  <2>4. Cardinality(0..o - 1) = o
    BY <2>2, <2>3
  <2> QED  BY <2>1, <2>4
<1>4. ASSUME NEW i \in 1..n
      PROVE  (CHOOSE o \in D : Cardinality({p \in D : p < o}) = i - 1) = i - 1
  <2>1. i - 1 \in D /\ Cardinality({p \in D : p < i - 1}) = i - 1
    BY <1>1, <1>3
  <2>2. \A o \in D : Cardinality({p \in D : p < o}) = i - 1 => o = i - 1
    BY <1>3
  <2> HIDE DEF D
  <2> QED  BY <2>1, <2>2
<1>5. OrdersOf(Relations(atoms)) =
        [i \in 1..n |-> CHOOSE o \in D : Cardinality({p \in D : p < o}) = i - 1]
  BY <1>2 DEF OrdersOf
<1> HIDE DEF D
<1>6. OrdersOf(Relations(atoms)) = [i \in 1..n |-> i - 1]
  BY <1>4, <1>5
<1> QED  BY <1>6 DEF n

LEMMA AtomsOfRelations ==
  ASSUME NEW S, NEW atoms \in Seq(S)
  PROVE  AtomsOf(Relations(atoms)) = atoms
<1>1. OrdersOf(Relations(atoms)) = [i \in 1..Len(atoms) |-> i - 1]
  BY OrdersOfRelations
<1>2. AtomsOf(Relations(atoms)) = [i \in 1..Len(atoms) |-> Relations(atoms)[i - 1]]
  BY <1>1 DEF AtomsOf
<1>3. \A i \in 1..Len(atoms) : Relations(atoms)[i - 1] = atoms[i]
  BY RelationsShape
<1> QED  BY <1>2, <1>3

-----------------------------------------------------------------------------
(* Observations: what is encoded is restored, to half a unit *)

LEMMA HalfUpType == ASSUME NEW x \in Int, NEW unit \in {10, 100} PROVE HalfUp(x, unit) \in Int
  BY DEF HalfUp

LEMMA HalfUpExact ==
  ASSUME NEW x \in Int, NEW unit \in {10, 100}, x % unit = 0
  PROVE  unit * HalfUp(x, unit) = x
<1>1. CASE unit = 10
  BY <1>1 DEF HalfUp
<1>2. CASE unit = 100
  BY <1>2 DEF HalfUp
<1> QED  BY <1>1, <1>2

LEMMA HalfUpNear ==
  ASSUME NEW x \in Int, NEW unit \in {10, 100}
  PROVE  2 * (unit * HalfUp(x, unit) - x) \in -unit..unit
<1>1. CASE unit = 10
  BY <1>1 DEF HalfUp
<1>2. CASE unit = 100
  BY <1>2 DEF HalfUp
<1> QED  BY <1>1, <1>2

(* The four numbers of an observation, in bytes. *)
LEMMA NumbersRestored ==
  ASSUME NEW time \in Dates, NEW t \in SignedRange(2), NEW w \in {2, 4},
         NEW p \in 0..Power[w] - 1, NEW h \in 0..Power[2] - 1
  PROVE  /\ Pack(time, 8) \in Seq(Byte) /\ Len(Pack(time, 8)) = 8
         /\ Signed(Pack(time, 8)) = time
         /\ Pack(t, 2) \in Seq(Byte) /\ Len(Pack(t, 2)) = 2 /\ Signed(Pack(t, 2)) = t
         /\ Pack(p, w) \in Seq(Byte) /\ Len(Pack(p, w)) = w /\ Unsigned(Pack(p, w)) = p
         /\ Pack(h, 2) \in Seq(Byte) /\ Len(Pack(h, 2)) = 2 /\ Unsigned(Pack(h, 2)) = h
<1>1. time \in SignedRange(8) /\ \A n \in Nat : SignedRange(n) \subseteq Int
  BY DatesFit, PowerPositive DEF SignedRange
<1>2. time \in Int /\ t \in Int /\ p \in Int /\ h \in Int /\ w \in Nat
  BY <1>1, PowerPositive
<1>3. Pack(time, 8) \in Seq(Byte) /\ Len(Pack(time, 8)) = 8
  BY <1>2, PackType
<1>4. Pack(t, 2) \in Seq(Byte) /\ Len(Pack(t, 2)) = 2
  BY <1>2, PackType
<1>5. Pack(p, w) \in Seq(Byte) /\ Len(Pack(p, w)) = w
  BY <1>2, PackType
<1>6. Pack(h, 2) \in Seq(Byte) /\ Len(Pack(h, 2)) = 2
  BY <1>2, PackType
<1>7. Signed(Pack(time, 8)) = time /\ Signed(Pack(t, 2)) = t
  BY <1>1, IntegerRestored
<1>8. Unsigned(Pack(p, w)) = p /\ Unsigned(Pack(h, 2)) = h
  BY <1>2, NaturalRestored
<1> QED  BY <1>3, <1>4, <1>5, <1>6, <1>7, <1>8

LEMMA Encoded ==
  ASSUME NEW o \in Observation, Encodable(o)
  PROVE  LET x == EncodeObservation(o)
         IN  /\ x \in Seq(Seq(Byte)) /\ Len(x) = 5 /\ x[1] = o.source
             /\ Len(x[2]) = 8 /\ Len(x[3]) = 2 /\ Len(x[4]) = 2 /\ Len(x[5]) = 2
             /\ Signed(x[2]) = o.time
             /\ Signed(x[3]) = TemperatureUnits(o.temperature)
             /\ Unsigned(x[4]) = PressureUnits(o.pressure)
             /\ Unsigned(x[5]) = HumidityUnits(o.humidity)
<1> DEFINE t == TemperatureUnits(o.temperature)
           p == PressureUnits(o.pressure)
           h == HumidityUnits(o.humidity)
<1>1. o.source \in Seq(Byte) /\ o.time \in Dates
  BY DEF Observation
<1>2. t \in SignedRange(2) /\ p \in 0..Power[2] - 1 /\ h \in 0..Power[2] - 1
  BY HumidityFits, PowerPositive DEF Encodable
<1>3. EncodeObservation(o) = <<o.source, Pack(o.time, 8), Pack(t, 2), Pack(p, 2), Pack(h, 2)>>
  BY DEF EncodeObservation
<1> HIDE DEF t, p, h
<1>4. /\ Pack(o.time, 8) \in Seq(Byte) /\ Len(Pack(o.time, 8)) = 8
      /\ Signed(Pack(o.time, 8)) = o.time
      /\ Pack(t, 2) \in Seq(Byte) /\ Len(Pack(t, 2)) = 2 /\ Signed(Pack(t, 2)) = t
      /\ Pack(p, 2) \in Seq(Byte) /\ Len(Pack(p, 2)) = 2 /\ Unsigned(Pack(p, 2)) = p
      /\ Pack(h, 2) \in Seq(Byte) /\ Len(Pack(h, 2)) = 2 /\ Unsigned(Pack(h, 2)) = h
  <2>1. 2 \in {2, 4}
    OBVIOUS
  <2> QED  BY <1>1, <1>2, <2>1, NumbersRestored
<1> QED  BY <1>1, <1>3, <1>4 DEF t, p, h

LEMMA EncodedDecodes ==
  ASSUME NEW o \in Observation, Encodable(o)
  PROVE  LET x == EncodeObservation(o)
         IN  /\ ~Breaks(x) /\ ~IsPrecise(x) /\ ~IsAirQuality(x)
             /\ Decodes(x) <=> IsUtf8(o.source)
             /\ DecodeObservation(x) =
                  [source |-> o.source, time |-> o.time,
                   temperature |-> 10 * TemperatureUnits(o.temperature),
                   pressure |-> 100 * PressureUnits(o.pressure),
                   humidity |-> 10 * HumidityUnits(o.humidity)]
<1> DEFINE x == EncodeObservation(o)
<1>1. o.time \in Dates
  BY DEF Observation
<1>2. /\ Len(x) = 5 /\ x[1] = o.source
      /\ Len(x[2]) = 8 /\ Len(x[3]) = 2 /\ Len(x[4]) = 2 /\ Len(x[5]) = 2
      /\ Signed(x[2]) = o.time
      /\ Signed(x[3]) = TemperatureUnits(o.temperature)
      /\ Unsigned(x[4]) = PressureUnits(o.pressure)
      /\ Unsigned(x[5]) = HumidityUnits(o.humidity)
  BY Encoded
<1> HIDE DEF x
<1>3. ~Breaks(x) /\ ~IsPrecise(x) /\ ~IsAirQuality(x)
  BY <1>1, <1>2 DEF Breaks, IsPrecise, IsAirQuality
<1>4. Decodes(x) <=> IsUtf8(o.source)
  BY <1>2, <1>3 DEF Decodes, Refused
<1>5. DecodeObservation(x) =
        [source |-> o.source, time |-> o.time,
         temperature |-> 10 * TemperatureUnits(o.temperature),
         pressure |-> 100 * PressureUnits(o.pressure),
         humidity |-> 10 * HumidityUnits(o.humidity)]
  BY <1>2, <1>3 DEF DecodeObservation
<1> QED  BY <1>3, <1>4, <1>5 DEF x

(* An observation in whole units comes back as it was. *)
LEMMA RoundedRestored ==
  ASSUME NEW o, Rounded(o)
  PROVE  DecodeObservation(EncodeObservation(o)) = o
<1>1. o \in Observation /\ Encodable(o)
  BY DEF Rounded
<1>2. o.temperature \in Int /\ o.pressure \in Int /\ o.humidity \in Int
  BY <1>1 DEF Observation
<1>3. /\ 10 * TemperatureUnits(o.temperature) = o.temperature
      /\ 100 * PressureUnits(o.pressure) = o.pressure
      /\ 10 * HumidityUnits(o.humidity) = o.humidity
  BY <1>2, HalfUpExact DEF Rounded, TemperatureUnits, PressureUnits, HumidityUnits
<1>4. o = [source |-> o.source, time |-> o.time, temperature |-> o.temperature,
           pressure |-> o.pressure, humidity |-> o.humidity]
  BY <1>1 DEF Observation
<1> QED  BY <1>1, <1>3, <1>4, EncodedDecodes
=============================================================================

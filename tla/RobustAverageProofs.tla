-------------------------- MODULE RobustAverageProofs --------------------------
(* What an average of samples is worth: medians and sums of any number of       *)
(* samples, what the rejection of outliers leaves, and the two ways an average  *)
(* is rounded.                                                                  *)
EXTENDS RobustAverage, CodecsProofs

-----------------------------------------------------------------------------
(* Sums over finite sets *)

(* What holds of a set when it holds of all its parts holds of finite sets. *)
LEMMA SubsetInduction ==
  ASSUME NEW S, IsFiniteSet(S), NEW T,
         \A A \in SUBSET S : (\A B \in SUBSET A : B # A => B \in T) => A \in T
  PROVE  \A A \in SUBSET S : A \in T
<1> SUFFICES ASSUME NEW C \in SUBSET S, C \notin T PROVE FALSE
  OBVIOUS
<1> DEFINE U == {A \in SUBSET S : A \notin T}
           R == StrictSubsetOrdering(S)
<1>1. IsWellFoundedOn(R, SUBSET S)
  <2>1. IsWellFoundedOn(R, FiniteSubsetsOf(S))
    BY FS_StrictSubsetOrderingWellFounded
  <2>2. FiniteSubsetsOf(S) = SUBSET S
    BY FS_FiniteSubsetsOfFinite
  <2> QED  BY <2>1, <2>2
<1>2. U \subseteq SUBSET S /\ U # {}
  OBVIOUS
<1>3. PICK A \in U : \A B \in U : ~(<<B, A>> \in R)
  <2> HIDE DEF U, R
  <2> QED  BY <1>1, <1>2, WFMin
<1>4. ASSUME NEW B \in SUBSET A, B # A PROVE B \in T
  <2>1. <<B, A>> \in R
    BY <1>4 DEF StrictSubsetOrdering
  <2> QED  BY <1>3, <2>1
<1>5. A \in SUBSET S /\ A \notin T
  OBVIOUS
<1> QED  BY <1>4, <1>5

Sum(fun, S) == FoldFunctionOnSet(+, 0, fun, S)

LEMMA SumEquation ==
  ASSUME NEW fun, NEW S, IsFiniteSet(S)
  PROVE  Sum(fun, S) =
           IF S = {} THEN 0
           ELSE fun[CHOOSE x \in S : TRUE] + Sum(fun, S \ {CHOOSE x \in S : TRUE})
<1> DEFINE Pick(s) == CHOOSE x \in s : TRUE
           Def(A, it) == it = [s \in SUBSET A |-> IF s = {} THEN 0
                                                  ELSE fun[Pick(s)] + it[s \ {Pick(s)}]]
           Value(A) == (CHOOSE it : Def(A, it))[A]
           T == {A \in SUBSET S : \E it : Def(A, it)}
           U == {A \in SUBSET S : \A B, C, f, g :
                   A \subseteq B /\ A \subseteq C /\ Def(B, f) /\ Def(C, g) => f[A] = g[A]}
<1>1. \A A : Sum(fun, A) = Value(A)
  BY DEF Sum, FoldFunctionOnSet, MapThenFoldSet
<1>2. \A s : s # {} => Pick(s) \in s
  OBVIOUS
<1> HIDE DEF Pick
<1>3. ASSUME NEW A, NEW f, Def(A, f), NEW s \in SUBSET A
      PROVE  /\ s = {} => f[s] = 0
             /\ s # {} => f[s] = fun[Pick(s)] + f[s \ {Pick(s)}]
  BY <1>3
<1> HIDE DEF Def
<1>4. \A A \in SUBSET S : A \in U
  <2>1. ASSUME NEW A \in SUBSET S, \A B \in SUBSET A : B # A => B \in U PROVE A \in U
    <3> SUFFICES ASSUME NEW B, NEW C, NEW f, NEW g, A \subseteq B, A \subseteq C,
                        Def(B, f), Def(C, g)
                 PROVE  f[A] = g[A]
      OBVIOUS
    <3>1. CASE A = {}
      BY <1>3, <3>1
    <3>2. CASE A # {}
      <4> DEFINE P == A \ {Pick(A)}
      <4>1. P \in SUBSET A /\ P # A
        BY <1>2, <3>2
      <4>2. P \in U
        BY <2>1, <4>1
      <4>3. f[P] = g[P]
        BY <4>1, <4>2
      <4>4. f[A] = fun[Pick(A)] + f[P] /\ g[A] = fun[Pick(A)] + g[P]
        BY <1>3, <3>2
      <4> QED  BY <4>3, <4>4
    <3> QED  BY <3>1, <3>2
  <2> HIDE DEF U
  <2> QED  BY <2>1, SubsetInduction
<1>5. ASSUME NEW A, NEW B, A \in SUBSET S, B \in SUBSET A, A \in T, B \in T, NEW f, Def(A, f)
      PROVE  Value(B) = f[B]
  <2>1. PICK g : Def(B, g)
    BY <1>5
  <2>2. Def(B, CHOOSE it : Def(B, it))
    BY <2>1
  <2>3. B \in U
    BY <1>4, <1>5
  <2> QED  BY <1>5, <2>2, <2>3
<1>6. \A A \in SUBSET S : A \in T
  <2>1. ASSUME NEW A \in SUBSET S, \A B \in SUBSET A : B # A => B \in T PROVE A \in T
    <3> DEFINE it == [s \in SUBSET A |-> IF s = {} THEN 0
                                         ELSE fun[Pick(s)] + Value(s \ {Pick(s)})]
    <3>1. ASSUME NEW s \in SUBSET A, s # {}
          PROVE  it[s] = fun[Pick(s)] + it[s \ {Pick(s)}]
      <4> DEFINE B == s \ {Pick(s)}
      <4>1. B \in SUBSET A /\ B # A /\ B \in SUBSET S /\ B \in T
        BY <1>2, <2>1, <3>1
      <4>2. PICK g : Def(B, g)
        BY <4>1
      <4>3. Value(B) = g[B]
        BY <1>5, <4>1, <4>2
      <4>4. it[s] = fun[Pick(s)] + Value(B)
        BY <3>1
      <4>5. Value(B) = it[B]
        <5>1. CASE B = {}
          <6>1. g[B] = 0
            BY <1>3, <4>2, <5>1
          <6> QED  BY <4>1, <4>3, <5>1, <6>1
        <5>2. CASE B # {}
          <6> DEFINE C == B \ {Pick(B)}
          <6>1. C \in SUBSET B /\ C \in SUBSET A /\ C # A /\ C \in T
            BY <1>2, <2>1, <4>1, <5>2
          <6>2. Value(C) = g[C]
            BY <1>5, <4>1, <4>2, <6>1
          <6>3. g[B] = fun[Pick(B)] + g[C]
            <7>1. B \in SUBSET B
              OBVIOUS
            <7> HIDE DEF B, it, Value
            <7> QED  BY <1>3, <4>2, <5>2, <7>1
          <6>4. it[B] = fun[Pick(B)] + Value(C)
            <7> HIDE DEF Value
            <7> QED  BY <4>1, <5>2
          <6> HIDE DEF it, C, B, Value
          <6> QED  BY <4>3, <6>2, <6>3, <6>4
        <5> QED  BY <5>1, <5>2
      <4> QED  BY <4>4, <4>5
    <3>2. it[{}] = 0 /\ it = [s \in SUBSET A |-> it[s]]
      OBVIOUS
    <3> HIDE DEF it
    <3>3. Def(A, it)
      <4>1. it = [s \in SUBSET A |-> IF s = {} THEN 0 ELSE fun[Pick(s)] + it[s \ {Pick(s)}]]
        BY <3>1, <3>2
      <4> QED  BY <4>1 DEF Def
    <3> QED  BY <3>3
  <2> HIDE DEF T
  <2> QED  BY <2>1, SubsetInduction
<1>7. PICK f : Def(S, f)
  BY <1>6
<1>8. Value(S) = f[S]
  BY <1>5, <1>6, <1>7
<1>9. CASE S = {}
  BY <1>1, <1>3, <1>7, <1>8, <1>9
<1>10. CASE S # {}
  <2> DEFINE P == S \ {Pick(S)}
  <2>1. P \in SUBSET S
    OBVIOUS
  <2>2. Value(P) = f[P]
    BY <1>5, <1>6, <1>7, <2>1
  <2>3. f[S] = fun[Pick(S)] + f[P]
    BY <1>3, <1>7, <1>10
  <2>4. Sum(fun, S) = fun[Pick(S)] + Sum(fun, P)
    BY <1>1, <1>8, <2>2, <2>3
  <2> QED  BY <1>10, <2>4 DEF Pick
<1> QED  BY <1>9, <1>10

LEMMA SumBounded ==
  ASSUME NEW fun, NEW S, IsFiniteSet(S), \A x \in S : fun[x] \in Int,
         NEW a \in Int, NEW b \in Int, NEW c \in Int, \A x \in S : a * (fun[x] - c) <= b
  PROVE  /\ Sum(fun, S) \in Int /\ Cardinality(S) \in Nat
         /\ a * (Sum(fun, S) - c * Cardinality(S)) <= b * Cardinality(S)
<1> DEFINE Holds(A) == /\ Sum(fun, A) \in Int
                       /\ a * (Sum(fun, A) - c * Cardinality(A)) <= b * Cardinality(A)
           T == {A \in SUBSET S : Holds(A)}
<1>1. ASSUME NEW A \in SUBSET S, \A B \in SUBSET A : B # A => B \in T PROVE Holds(A)
  <2>1. IsFiniteSet(A)
    BY FS_Subset
  <2>2. CASE A = {}
    <3>1. Sum(fun, A) = 0 /\ Cardinality(A) = 0
      BY <2>1, <2>2, SumEquation, FS_EmptySet
    <3> QED  BY <3>1
  <2>3. CASE A # {}
    <3> DEFINE x == CHOOSE y \in A : TRUE
               B == A \ {x}
    <3>1. x \in A
      BY <2>3
    <3>2. Sum(fun, A) = fun[x] + Sum(fun, B)
      BY <2>1, <2>3, SumEquation
    <3> HIDE DEF x
    <3>3. B \in SUBSET A /\ B # A
      BY <3>1
    <3>4. Holds(B)
      BY <1>1, <3>3
    <3>5. Cardinality(B) \in Nat /\ Cardinality(A) = Cardinality(B) + 1
      <4>1. IsFiniteSet(B) /\ Cardinality(B) = Cardinality(A) - 1
        BY <2>1, <3>1, FS_RemoveElement
      <4>2. Cardinality(B) \in Nat /\ Cardinality(A) \in Nat
        BY <2>1, <4>1, FS_CardinalityType
      <4> QED  BY <4>1, <4>2
    <3> DEFINE s == Sum(fun, B)
               n == Cardinality(B)
               v == fun[x]
    <3>6. v \in Int /\ a * (v - c) <= b
      BY <3>1
    <3>7. s \in Int /\ n \in Nat /\ a * (s - c * n) <= b * n
      BY <3>4, <3>5
    <3> HIDE DEF s, n, v, B
    <3>8. a * ((v + s) - c * (n + 1)) <= b * (n + 1)
      <4>1. (v + s) - c * (n + 1) = (v - c) + (s - c * n)
        BY <3>6, <3>7
      <4>2. a * ((v - c) + (s - c * n)) = a * (v - c) + a * (s - c * n)
        BY <3>6, <3>7
      <4>3. b * (n + 1) = b + b * n
        BY <3>7
      <4>4. a * (v - c) \in Int /\ a * (s - c * n) \in Int /\ b * n \in Int
        BY <3>6, <3>7
      <4> QED  BY <3>6, <3>7, <4>1, <4>2, <4>3, <4>4
    <3>9. Sum(fun, A) = v + s /\ Cardinality(A) = n + 1
      BY <3>2, <3>5 DEF s, n, v
    <3> QED  BY <3>6, <3>7, <3>8, <3>9
  <2> QED  BY <2>2, <2>3
<1>2. \A A \in SUBSET S : A \in T
  <2>1. \A A \in SUBSET S : (\A B \in SUBSET A : B # A => B \in T) => A \in T
    BY <1>1
  <2> HIDE DEF T
  <2> QED  BY <2>1, SubsetInduction
<1>3. Holds(S)
  BY <1>2
<1> QED  BY <1>3, FS_CardinalityType

LEMMA SumType ==
  ASSUME NEW fun, NEW S, IsFiniteSet(S), \A x \in S : fun[x] \in Int
  PROVE  Sum(fun, S) \in Int
<1>1. 0 \in Int /\ \A x \in S : 0 * (fun[x] - 0) <= 0
  OBVIOUS
<1> QED  BY <1>1, SumBounded, Zenon

-----------------------------------------------------------------------------
(* Ranks *)

LEMMA LeastValue ==
  ASSUME NEW D, IsFiniteSet(D), NEW values, \A i \in D : values[i] \in Int,
         NEW S \in SUBSET D, S # {}
  PROVE  \E i \in S : \A j \in S : values[i] <= values[j]
<1> DEFINE Least(A) == \E i \in A : \A j \in A : values[i] <= values[j]
           T == {A \in SUBSET D : A # {} => Least(A)}
<1>1. ASSUME NEW A \in SUBSET D, \A B \in SUBSET A : B # A => B \in T, A # {}
      PROVE  Least(A)
  <2>1. PICK x \in A : TRUE
    BY <1>1
  <2> DEFINE B == A \ {x}
  <2>2. B \in T
    BY <1>1
  <2>3. CASE B = {}
    <3>1. \A j \in A : j = x
      BY <2>3
    <3> QED  BY <2>1, <3>1
  <2>4. CASE B # {}
    <3>1. PICK y \in B : \A j \in B : values[y] <= values[j]
      BY <2>2, <2>4
    <3>2. \A j \in A : values[j] \in Int
      OBVIOUS
    <3>3. CASE values[x] <= values[y]
      <4>1. \A j \in A : values[x] <= values[j]
        BY <3>1, <3>2, <3>3
      <4> QED  BY <4>1
    <3>4. CASE ~(values[x] <= values[y])
      <4>1. \A j \in A : values[y] <= values[j]
        BY <3>1, <3>2, <3>4
      <4> QED  BY <4>1
    <3> QED  BY <3>3, <3>4
  <2> QED  BY <2>3, <2>4
<1>2. \A A \in SUBSET D : A \in T
  <2>1. \A A \in SUBSET D : (\A B \in SUBSET A : B # A => B \in T) => A \in T
    BY <1>1
  <2> HIDE DEF T
  <2> QED  BY <2>1, SubsetInduction
<1> QED  BY <1>2

LEMMA GreatestValue ==
  ASSUME NEW D, IsFiniteSet(D), NEW values, \A i \in D : values[i] \in Int,
         NEW S \in SUBSET D, S # {}
  PROVE  \E i \in S : \A j \in S : values[j] <= values[i]
<1> DEFINE negative == [i \in D |-> -values[i]]
<1>1. \A i \in D : negative[i] \in Int /\ negative[i] = -values[i]
  OBVIOUS
<1> HIDE DEF negative
<1>2. PICK i \in S : \A j \in S : negative[i] <= negative[j]
  BY <1>1, LeastValue
<1>3. \A j \in S : values[j] <= values[i]
  BY <1>1, <1>2
<1> QED  BY <1>3

Below(values, v) == {i \in DOMAIN values : values[i] < v}
UpTo(values, v) == {i \in DOMAIN values : values[i] <= v}

(* There is a k-th smallest value. *)
LEMMA KthExists ==
  ASSUME NEW n \in Nat, NEW values \in [1..n -> Int], NEW k \in 1..n
  PROVE  /\ \E i \in 1..n : Kth(values, k) = values[i]
         /\ Cardinality(Below(values, Kth(values, k))) < k
         /\ Cardinality(UpTo(values, Kth(values, k))) >= k
<1> DEFINE D == 1..n
           IsKth(v) == Cardinality(Below(values, v)) < k /\ Cardinality(UpTo(values, v)) >= k
           S == {i \in D : Cardinality(UpTo(values, values[i])) >= k}
<1>1. IsFiniteSet(D) /\ Cardinality(D) = n /\ DOMAIN values = D /\ \A i \in D : values[i] \in Int
  BY FS_Interval
<1>2. D # {} /\ D \in SUBSET D /\ n \in D
  OBVIOUS
<1>3. PICK g \in D : \A j \in D : values[j] <= values[g]
  BY <1>1, <1>2, GreatestValue
<1>4. UpTo(values, values[g]) = D
  BY <1>1, <1>3 DEF UpTo
<1>5. S \in SUBSET D /\ S # {}
  BY <1>1, <1>4
<1>6. PICK i \in S : \A j \in S : values[i] <= values[j]
  <2> HIDE DEF D, S
  <2> QED  BY <1>1, <1>5, LeastValue
<1> DEFINE v == values[i]
<1>7. i \in D /\ Cardinality(UpTo(values, v)) >= k
  BY <1>6
<1>8. Cardinality(Below(values, v)) < k
  <2> DEFINE B == Below(values, v)
  <2>1. B \in SUBSET D
    BY <1>1 DEF Below
  <2>2. IsFiniteSet(B) /\ Cardinality(B) \in Nat
    BY <1>1, <2>1, FS_Subset, FS_CardinalityType
  <2> SUFFICES ASSUME Cardinality(B) >= k PROVE FALSE
    BY <2>2
  <2>3. B # {}
    BY <2>2, FS_EmptySet
  <2>4. PICK j \in B : \A m \in B : values[m] <= values[j]
    <3> HIDE DEF B, D
    <3> QED  BY <1>1, <2>1, <2>3, GreatestValue
  <2>5. j \in D /\ values[j] < v /\ v \in Int
    BY <1>1, <1>7, <2>1, <2>4 DEF Below
  <2>6. UpTo(values, values[j]) = B
    <3>1. \A m \in D : values[m] <= values[j] => values[m] < v
      BY <1>1, <1>7, <2>5
    <3>2. \A m \in D : values[m] < v => values[m] <= values[j]
      BY <1>1, <2>4 DEF Below
    <3> HIDE DEF D, v
    <3> QED  BY <1>1, <3>1, <3>2 DEF UpTo, Below
  <2>7. j \in S
    BY <2>5, <2>6
  <2>8. v <= values[j]
    BY <1>6, <2>7
  <2> QED  BY <1>1, <2>5, <2>8
<1>9. v \in Range(values) /\ IsKth(v)
  BY <1>1, <1>7, <1>8 DEF Range
<1>10. Kth(values, k) = CHOOSE u \in Range(values) : IsKth(u)
  BY DEF Kth, Below, UpTo
<1> HIDE DEF v, IsKth
<1>11. Kth(values, k) \in Range(values) /\ IsKth(Kth(values, k))
  BY <1>9, <1>10
<1> QED  BY <1>1, <1>11 DEF Range, IsKth

LEMMA KthType ==
  ASSUME NEW n \in Nat, NEW values \in [1..n -> Int], NEW k \in 1..n
  PROVE  Kth(values, k) \in Int
  BY KthExists

(* It lies within what enough of the values span. *)
LEMMA KthWithin ==
  ASSUME NEW n \in Nat, NEW values \in [1..n -> Int], NEW k \in 1..n,
         NEW others \in SUBSET (1..n), Cardinality(others) + k > n, k <= Cardinality(others),
         NEW low \in Int, NEW high \in Int,
         \A i \in others : low <= values[i] /\ values[i] <= high
  PROVE  low <= Kth(values, k) /\ Kth(values, k) <= high
<1> DEFINE v == Kth(values, k)
           D == 1..n
<1>1. IsFiniteSet(D) /\ Cardinality(D) = n /\ DOMAIN values = D /\ \A i \in D : values[i] \in Int
  BY FS_Interval
<1>2. v \in Int /\ Cardinality(Below(values, v)) < k /\ Cardinality(UpTo(values, v)) >= k
  BY KthExists, KthType
<1> HIDE DEF v
<1>3. UpTo(values, v) \subseteq D /\ Below(values, v) \subseteq D
  BY <1>1 DEF UpTo, Below
<1>4. /\ IsFiniteSet(others) /\ Cardinality(others) \in Nat
      /\ Cardinality(UpTo(values, v)) \in Nat
      /\ IsFiniteSet(Below(values, v)) /\ Cardinality(Below(values, v)) \in Nat
  BY <1>1, <1>3, FS_Subset, FS_CardinalityType
<1>5. low <= v
  <2>1. Cardinality(UpTo(values, v)) + Cardinality(others) > Cardinality(D)
    BY <1>1, <1>2, <1>4
  <2>2. PICK i \in D : i \in UpTo(values, v) /\ i \in others
    <3>1. UpTo(values, v) \cap others # {}
      <4> HIDE DEF D
      <4> QED  BY <1>1, <1>3, <2>1, FS_MajoritiesIntersect DEF D
    <3> QED  BY <3>1
  <2>3. values[i] \in Int /\ values[i] <= v /\ low <= values[i]
    BY <1>1, <2>2 DEF UpTo
  <2> QED  BY <1>2, <2>3
<1>6. v <= high
  <2> SUFFICES ASSUME high < v PROVE FALSE
    BY <1>2
  <2>1. others \in SUBSET Below(values, v)
    <3>1. \A i \in others : values[i] \in Int /\ values[i] < v
      BY <1>1, <1>2
    <3> QED  BY <1>1, <3>1 DEF Below
  <2>2. Cardinality(others) <= Cardinality(Below(values, v))
    BY <1>4, <2>1, FS_Subset
  <2> QED  BY <1>2, <1>4, <2>2
<1> QED  BY <1>5, <1>6 DEF v

LEMMA KthMonotone ==
  ASSUME NEW n \in Nat, NEW values \in [1..n -> Int], NEW k \in 1..n, NEW m \in 1..n, k <= m
  PROVE  Kth(values, k) <= Kth(values, m)
<1> DEFINE v == Kth(values, k)
           w == Kth(values, m)
<1>1. IsFiniteSet(1..n) /\ DOMAIN values = 1..n /\ \A i \in 1..n : values[i] \in Int
  BY FS_Interval
<1>2. /\ v \in Int /\ Cardinality(Below(values, v)) < k
      /\ w \in Int /\ Cardinality(UpTo(values, w)) >= m
  BY KthExists, KthType
<1> HIDE DEF v, w
<1> SUFFICES ASSUME w < v PROVE FALSE
  BY <1>2 DEF v, w
<1>3. UpTo(values, w) \in SUBSET Below(values, v) /\ Below(values, v) \in SUBSET (1..n)
  BY <1>1, <1>2 DEF UpTo, Below
<1>4. IsFiniteSet(Below(values, v))
  BY <1>1, <1>3, FS_Subset
<1>5. /\ Cardinality(UpTo(values, w)) <= Cardinality(Below(values, v))
      /\ IsFiniteSet(UpTo(values, w))
  BY <1>3, <1>4, FS_Subset
<1>6. Cardinality(UpTo(values, w)) \in Nat /\ Cardinality(Below(values, v)) \in Nat
  BY <1>4, <1>5, FS_CardinalityType
<1> QED  BY <1>2, <1>5, <1>6

-----------------------------------------------------------------------------
(* What one field's values and rejections are *)

LEMMA Halves ==
  ASSUME NEW n \in Nat, n > 0
  PROVE  /\ (n + 1) \div 2 \in 1..n /\ n \div 2 + 1 \in Int
         /\ n > 1 => n \div 2 + 1 \in 1..n
         /\ (n + 1) \div 2 <= n \div 2 + 1
         /\ \A m \in Nat : 2 * m > n => m >= n \div 2 + 1 /\ m + (n + 1) \div 2 > n
  OBVIOUS

LEMMA TwiceMedianWithin ==
  ASSUME NEW n \in Nat, n > 1, NEW values \in [1..n -> Int],
         NEW others \in SUBSET (1..n), 2 * Cardinality(others) > n,
         NEW low \in Int, NEW high \in Int,
         \A i \in others : low <= values[i] /\ values[i] <= high
  PROVE  /\ TwiceMedian(values) \in Int
         /\ 2 * low <= TwiceMedian(values) /\ TwiceMedian(values) <= 2 * high
<1> DEFINE k == (n + 1) \div 2
           m == n \div 2 + 1
<1>1. Cardinality(others) \in Nat
  <2>1. IsFiniteSet(1..n)
    BY FS_Interval
  <2>2. IsFiniteSet(others)
    BY <2>1, FS_Subset
  <2> QED  BY <2>2, FS_CardinalityType
<1>2. k \in 1..n /\ m \in 1..n /\ k <= m
  BY Halves
<1>3. /\ k <= Cardinality(others) /\ Cardinality(others) + k > n
      /\ m <= Cardinality(others) /\ Cardinality(others) + m > n
  <2>1. Cardinality(others) >= m /\ Cardinality(others) + k > n
    BY <1>1, Halves
  <2> QED  BY <1>1, <1>2, <2>1
<1>4. Len(values) = n
  OBVIOUS
<1> HIDE DEF k, m
<1>5. Kth(values, k) \in Int /\ low <= Kth(values, k) /\ Kth(values, k) <= high
  <2>1. Kth(values, k) \in Int
    BY <1>2, KthType
  <2> QED  BY <1>2, <1>3, <2>1, KthWithin
<1>6. Kth(values, m) \in Int /\ low <= Kth(values, m) /\ Kth(values, m) <= high
  <2>1. Kth(values, m) \in Int
    BY <1>2, KthType
  <2> QED  BY <1>2, <1>3, <2>1, KthWithin
<1>7. TwiceMedian(values) = Kth(values, k) + Kth(values, m)
  BY <1>4 DEF TwiceMedian, k, m
<1> QED  BY <1>5, <1>6, <1>7

Numbers == readings \in Seq([Fields -> Int]) /\ Len(readings) > 1

LEMMA ColumnType ==
  ASSUME Numbers, NEW field \in Fields
  PROVE  /\ Len(readings) \in Nat /\ DOMAIN readings = 1..Len(readings)
         /\ Column(field) \in [1..Len(readings) -> Int]
         /\ \A i \in 1..Len(readings) : Column(field)[i] = readings[i][field]
<1>1. Len(readings) \in Nat /\ DOMAIN readings = 1..Len(readings)
  BY LenProperties DEF Numbers
<1>2. \A i \in 1..Len(readings) : readings[i][field] \in Int
  BY ElementOfSeq DEF Numbers
<1> QED  BY <1>1, <1>2 DEF Column

LEMMA MedianType ==
  ASSUME NEW n \in Nat, n > 1, NEW values \in [1..n -> Int]
  PROVE  /\ TwiceMedian(values) = Kth(values, (n + 1) \div 2) + Kth(values, n \div 2 + 1)
         /\ Kth(values, (n + 1) \div 2) \in Int /\ Kth(values, n \div 2 + 1) \in Int
         /\ Kth(values, (n + 1) \div 2) <= Kth(values, n \div 2 + 1)
<1> DEFINE k == (n + 1) \div 2
           m == n \div 2 + 1
<1>1. k \in 1..n /\ m \in 1..n /\ k <= m
  BY Halves
<1>2. TwiceMedian(values) = Kth(values, k) + Kth(values, m)
  BY DEF TwiceMedian
<1> HIDE DEF k, m
<1>3. Kth(values, k) \in Int /\ Kth(values, m) \in Int /\ Kth(values, k) <= Kth(values, m)
  BY <1>1, KthType, KthMonotone
<1> QED  BY <1>2, <1>3 DEF k, m

LEMMA DeviationsType ==
  ASSUME Numbers, NEW field \in Fields
  PROVE  LET centre == TwiceMedian(Column(field))
             deviations == TwiceDeviations(field)
         IN  /\ centre \in Int
             /\ deviations \in [1..Len(readings) -> Int]
             /\ \A i \in 1..Len(readings) :
                  /\ readings[i][field] \in Int
                  /\ deviations[i] >= 0
                  /\ deviations[i] >= 2 * readings[i][field] - centre
                  /\ deviations[i] >= centre - 2 * readings[i][field]
                  /\ \/ deviations[i] = 2 * readings[i][field] - centre
                     \/ deviations[i] = centre - 2 * readings[i][field]
<1> DEFINE centre == TwiceMedian(Column(field))
           deviations == TwiceDeviations(field)
           n == Len(readings)
<1>1. /\ n \in Nat /\ n > 1 /\ DOMAIN readings = 1..n
      /\ Column(field) \in [1..n -> Int]
      /\ \A i \in 1..n : Column(field)[i] = readings[i][field]
  BY ColumnType DEF Numbers
<1>2. centre \in Int
  <2> HIDE DEF n
  <2> QED  BY <1>1, MedianType
<1>3. deviations = [i \in 1..n |-> Absolute(2 * readings[i][field] - centre)]
  BY <1>1 DEF TwiceDeviations
<1> HIDE DEF centre, deviations, n
<1>4. \A i \in 1..n : readings[i][field] \in Int
  BY <1>1
<1>5. \A i \in 1..n : /\ deviations[i] \in Int
                      /\ deviations[i] >= 0
                      /\ deviations[i] >= 2 * readings[i][field] - centre
                      /\ deviations[i] >= centre - 2 * readings[i][field]
                      /\ \/ deviations[i] = 2 * readings[i][field] - centre
                         \/ deviations[i] = centre - 2 * readings[i][field]
  BY <1>2, <1>3, <1>4 DEF Absolute
<1>6. deviations \in [1..n -> Int]
  BY <1>3, <1>5
<1> QED  BY <1>2, <1>4, <1>5, <1>6 DEF centre, deviations, n

(* A field never rejects more than about half of the samples. *)
LEMMA HalfIsKept ==
  ASSUME Numbers, NEW field \in Fields, Threshold >= Scale
  PROVE  \E near \in SUBSET (DOMAIN readings \ Outliers(field)) :
           /\ IsFiniteSet(near)
           /\ Cardinality(near) >= (Len(readings) + 1) \div 2
<1> DEFINE deviations == TwiceDeviations(field)
           mad == TwiceMedian(deviations)
           n == Len(readings)
           k == (n + 1) \div 2
           v == Kth(deviations, k)
           w == Kth(deviations, n \div 2 + 1)
           near == UpTo(deviations, v)
<1>1. n \in Nat /\ n > 1 /\ DOMAIN readings = 1..n
  BY ColumnType DEF Numbers
<1>2. deviations \in [1..n -> Int] /\ \A i \in 1..n : deviations[i] >= 0
  BY DeviationsType
<1>3. Outliers(field) =
        {i \in 1..n : mad # 0 /\ 2 * Scale * deviations[i] > Threshold * mad}
  BY <1>1 DEF Outliers
<1>4. k \in 1..n
  BY <1>1, Halves
<1> HIDE DEF n, deviations
<1>5. mad = v + w /\ v \in Int /\ w \in Int /\ v <= w
  BY <1>1, <1>2, MedianType
<1> HIDE DEF k, w, mad
<1>6. Cardinality(near) >= k /\ \E i \in 1..n : v = deviations[i]
  BY <1>1, <1>2, <1>4, KthExists
<1>7. v >= 0
  BY <1>2, <1>6
<1> HIDE DEF v
<1>8. near \in SUBSET (1..n) /\ IsFiniteSet(near)
  <2>1. near \in SUBSET (1..n) /\ IsFiniteSet(1..n)
    BY <1>1, <1>2, FS_Interval DEF UpTo
  <2> QED  BY <2>1, FS_Subset
<1>9. near \cap Outliers(field) = {}
  <2> SUFFICES ASSUME NEW i \in 1..n, i \in near, 2 * Scale * deviations[i] > Threshold * mad
               PROVE  FALSE
    BY <1>3
  <2>1. deviations[i] \in Int /\ deviations[i] >= 0 /\ deviations[i] <= v
    BY <1>2 DEF UpTo
  <2>2. Scale * (2 * deviations[i]) <= Scale * mad
    <3>1. 2 * deviations[i] <= mad
      BY <1>5, <2>1
    <3> QED  BY <1>5, <2>1, <3>1 DEF Scale
  <2>3. Scale * mad <= Threshold * mad
    <3>1. mad * Scale <= mad * Threshold \/ mad = 0
      BY <1>5, <1>7, Monotone, ThresholdIsPositive DEF Scale
    <3>2. mad * Scale = Scale * mad /\ mad * Threshold = Threshold * mad
      BY <1>5, ThresholdIsPositive DEF Scale
    <3> QED  BY <1>5, <3>1, <3>2, ThresholdIsPositive DEF Scale
  <2>4. 2 * Scale * deviations[i] = Scale * (2 * deviations[i])
    BY <2>1 DEF Scale
  <2>5. Threshold * mad \in Int /\ Scale * mad \in Int /\ Scale * (2 * deviations[i]) \in Int
    BY <1>5, <2>1, ThresholdIsPositive DEF Scale
  <2> QED  BY <2>2, <2>3, <2>4, <2>5
<1>10. near \in SUBSET (DOMAIN readings \ Outliers(field))
  BY <1>1, <1>8, <1>9
<1> QED  BY <1>6, <1>8, <1>10 DEF k, n

(* However a minority reads, a sample that is kept lies within what the others  *)
(* span, give or take the threshold.                                             *)
LEMMA KeptIsNear ==
  ASSUME Numbers, NEW field \in Fields, FourMad(field) # 0,
         NEW others \in SUBSET DOMAIN readings, 2 * Cardinality(others) > Len(readings),
         NEW low \in Int, NEW high \in Int,
         \A i \in others : low <= readings[i][field] /\ readings[i][field] <= high,
         NEW i \in Retained
  PROVE  /\ readings[i][field] \in Int
         /\ Scale * (readings[i][field] - high) <= Threshold * (high - low)
         /\ Scale * (low - readings[i][field]) <= Threshold * (high - low)
<1> DEFINE n == Len(readings)
           values == Column(field)
           centre == TwiceMedian(values)
           deviations == TwiceDeviations(field)
           mad == TwiceMedian(deviations)
           x == readings[i][field]
           d == deviations[i]
           span == high - low
<1>1. /\ n \in Nat /\ n > 1 /\ DOMAIN readings = 1..n
      /\ values \in [1..n -> Int]
      /\ \A j \in 1..n : values[j] = readings[j][field]
  BY ColumnType DEF Numbers
<1>2. /\ deviations \in [1..n -> Int]
      /\ \A j \in 1..n :
           /\ readings[j][field] \in Int
           /\ deviations[j] >= 0
           /\ deviations[j] >= 2 * readings[j][field] - centre
           /\ deviations[j] >= centre - 2 * readings[j][field]
           /\ \/ deviations[j] = 2 * readings[j][field] - centre
              \/ deviations[j] = centre - 2 * readings[j][field]
  BY DeviationsType
<1>3. i \in 1..n /\ i \notin Outliers(field)
  BY <1>1 DEF Retained
<1>4. mad # 0 /\ ~(2 * Scale * d > Threshold * mad)
  BY <1>1, <1>3 DEF Outliers, FourMad
<1> HIDE DEF n, values, deviations
<1>5. others \in SUBSET (1..n) /\ 2 * Cardinality(others) > n
  BY <1>1 DEF n
<1>6. centre \in Int /\ 2 * low <= centre /\ centre <= 2 * high
  <2>1. \A j \in others : low <= values[j] /\ values[j] <= high
    BY <1>1, <1>5
  <2> QED  BY <1>1, <1>5, <2>1, TwiceMedianWithin
<1> HIDE DEF centre
<1>7. span \in Int
  OBVIOUS
<1>8. \A j \in others : 0 <= deviations[j] /\ deviations[j] <= 2 * span
  <2> SUFFICES ASSUME NEW j \in others
               PROVE  0 <= deviations[j] /\ deviations[j] <= 2 * span
    OBVIOUS
  <2>1. j \in 1..n /\ low <= readings[j][field] /\ readings[j][field] <= high
    BY <1>5
  <2>2. /\ readings[j][field] \in Int /\ deviations[j] \in Int /\ deviations[j] >= 0
        /\ \/ deviations[j] = 2 * readings[j][field] - centre
           \/ deviations[j] = centre - 2 * readings[j][field]
    BY <1>2, <2>1
  <2> QED  BY <1>6, <2>1, <2>2
<1>9. mad \in Int /\ mad <= 2 * (2 * span)
  <2>1. 2 * span \in Int /\ 0 \in Int
    BY <1>7
  <2> HIDE DEF span
  <2> QED  BY <1>1, <1>2, <1>5, <1>8, <2>1, TwiceMedianWithin
<1>10. x \in Int /\ d \in Int /\ 2 * (x - high) <= d /\ 2 * (low - x) <= d
  <2>1. x \in Int /\ d \in Int /\ d >= 2 * x - centre /\ d >= centre - 2 * x
    BY <1>2, <1>3
  <2> QED  BY <1>6, <2>1
<1> HIDE DEF x, d, mad
<1>11. Threshold * mad <= Threshold * (2 * (2 * span))
  BY <1>7, <1>9, Monotone, ThresholdIsPositive
<1>12. Threshold * (2 * (2 * span)) = 4 * (Threshold * span) /\ Threshold * span \in Int
  BY <1>7, ThresholdIsPositive
<1>13. Scale * d <= 2 * (Threshold * span)
  <2>1. Threshold * mad \in Int /\ 2 * Scale * d = 2 * (Scale * d) /\ Scale * d \in Int
    BY <1>9, <1>10, ThresholdIsPositive DEF Scale
  <2> QED  BY <1>4, <1>11, <1>12, <2>1
<1>14. Scale * (x - high) <= Threshold * span /\ Scale * (low - x) <= Threshold * span
  <2> HIDE DEF span
  <2> QED  BY <1>10, <1>12, <1>13 DEF Scale
<1> QED  BY <1>10, <1>14 DEF x, span

-----------------------------------------------------------------------------
(* The invariant: what is kept of a collection until its end *)

Collected ==
  /\ pc = "idle" => readings = <<>> /\ average = None /\ stored = None
  /\ pc # "idle" => count \in Counts
  /\ pc = "reading" => average = None /\ stored = None
  /\ pc \in {"averaged", "starved"} => Len(readings) = count /\ stored = None
  /\ pc = "averaged" => average \in AveragesOf(Retained)
  /\ pc = "starved" => Cardinality(Retained) < 3 /\ average = None

IInv == AverageTypeOK /\ Collected

LEMMA AverageType ==
  ASSUME readings \in Seq(Samples), Len(readings) > 1, Cardinality(Retained) >= 3
  PROVE  AveragesOf(Retained) \subseteq
           [sum : [Fields -> Int], count : 3..Len(readings), drift : [Fields -> -Drift..Drift]]
<1>1. Numbers
  BY SamplesAreNumbers, SeqMonotonic DEF Numbers
<1>2. Len(readings) \in Nat /\ Retained \in SUBSET (1..Len(readings))
  BY LenProperties DEF Retained
<1>3. IsFiniteSet(1..Len(readings)) /\ Cardinality(1..Len(readings)) = Len(readings)
  BY <1>2, FS_Interval
<1>4. IsFiniteSet(Retained) /\ Cardinality(Retained) <= Len(readings)
  BY <1>2, <1>3, FS_Subset
<1>5. Cardinality(Retained) \in 3..Len(readings)
  BY <1>2, <1>4, FS_CardinalityType
<1>6. ASSUME NEW field \in Fields
      PROVE  FoldFunctionOnSet(+, 0, Column(field), Retained) \in Int
  <2>1. \A i \in Retained : Column(field)[i] \in Int
    BY <1>1, <1>2, ColumnType
  <2>2. Sum(Column(field), Retained) \in Int
    BY <1>4, <2>1, SumType
  <2> QED  BY <2>2 DEF Sum
<1>7. [field \in Fields |-> FoldFunctionOnSet(+, 0, Column(field), Retained)] \in [Fields -> Int]
  BY <1>6
<1> QED  BY <1>5, <1>7 DEF AveragesOf

LEMMA Initially == Init => IInv
  BY EmptySeq DEF Init, IInv, AverageTypeOK, Collected, None

(* Nothing but the samples decides what is kept. *)
LEMMA SameSamples ==
  ASSUME readings' = readings
  PROVE  Retained' = Retained /\ AveragesOf(Retained)' = AveragesOf(Retained)
<1>1. \A field : Column(field)' = Column(field)
  BY DEF Column
<1>2. \A field : TwiceDeviations(field)' = TwiceDeviations(field)
  BY <1>1 DEF TwiceDeviations
<1>3. \A field : Outliers(field)' = Outliers(field)
  BY <1>2 DEF Outliers
<1>4. Retained' = Retained
  BY <1>3 DEF Retained
<1> DEFINE Sums == [field \in Fields |-> Sum(Column(field), Retained)]
           Averaged == [sum : {Sums}, count : {Cardinality(Retained)},
                        drift : [Fields -> -Drift..Drift]]
<1>5. AveragesOf(Retained) = Averaged
  BY DEF AveragesOf, Sum
<1>6. AveragesOf(Retained)' = Averaged'
  BY DEF AveragesOf, Sum
<1>7. Averaged' = Averaged
  BY <1>1, <1>4
<1> QED  BY <1>4, <1>5, <1>6, <1>7

LEMMA Preserved == IInv /\ [Next]_vars => IInv'
<1> SUFFICES ASSUME IInv, [Next]_vars PROVE IInv'
  OBVIOUS
<1> USE DEF IInv, AverageTypeOK, Collected
<1>1. CASE Start
  <2>1. readings' = <<>> /\ Len(readings') = 0 /\ average' = None /\ stored' = None
    BY <1>1, EmptySeq DEF Start
  <2>2. count' \in Counts /\ count' \in Nat /\ pc' = "reading" /\ readings' \in Seq(Samples)
    BY <1>1, CountsSuffice DEF Start
  <2> QED  BY <2>1, <2>2
<1>2. CASE Read
  <2>1. PICK sample \in Samples : readings' = Append(readings, sample)
    BY <1>2 DEF Read
  <2>2. readings' \in Seq(Samples) /\ Len(readings') = Len(readings) + 1
    BY <2>1, AppendProperties
  <2>3. Len(readings) \in Nat /\ count \in Nat
    BY <1>2, CountsSuffice, LenProperties DEF Read
  <2> QED  BY <1>2, <2>2, <2>3 DEF Read
<1>3. CASE NoReading
  BY <1>3 DEF NoReading
<1>4. CASE Average
  <2>1. Retained' = Retained /\ AveragesOf(Retained)' = AveragesOf(Retained)
    BY <1>4, SameSamples DEF Average
  <2>2. CASE Cardinality(Retained) < 3
    BY <1>4, <2>1, <2>2 DEF Average
  <2>3. CASE ~(Cardinality(Retained) < 3)
    <3>1. count \in Counts /\ count \in Nat /\ count >= 5 /\ Len(readings) = count
      BY <1>4, CountsSuffice DEF Average
    <3>2. Cardinality(Retained) >= 3
      <4>1. IsFiniteSet(1..Len(readings)) /\ Retained \in SUBSET (1..Len(readings))
        BY <3>1, FS_Interval, LenProperties DEF Retained
      <4>2. Cardinality(Retained) \in Nat
        BY <4>1, FS_Subset, FS_CardinalityType
      <4> QED  BY <2>3, <4>2
    <3>3. average' \in AveragesOf(Retained)
      BY <1>4, <2>3 DEF Average
    <3>4. average' \in [sum : [Fields -> Int], count : 3..count,
                        drift : [Fields -> -Drift..Drift]]
      BY <3>1, <3>2, <3>3, AverageType
    <3> QED  BY <1>4, <2>1, <2>3, <3>3, <3>4 DEF Average
  <2> QED  BY <2>2, <2>3
<1>5. ASSUME NEW units, Store(units) PROVE IInv'
  <2>1. Retained' = Retained /\ AveragesOf(Retained)' = AveragesOf(Retained)
    BY <1>5, SameSamples DEF Store
  <2>2. CASE Accepted(units)
    <3>1. Accepted(units)'
      BY <2>2 DEF Accepted
    <3> QED  BY <1>5, <2>1, <2>2, <3>1 DEF Store
  <2>3. CASE ~Accepted(units)
    BY <1>5, <2>1, <2>3 DEF Store
  <2> QED  BY <2>2, <2>3
<1>6. CASE End
  BY <1>6, EmptySeq DEF End, None
<1>7. CASE UNCHANGED vars
  <2>1. Retained' = Retained /\ AveragesOf(Retained)' = AveragesOf(Retained)
    BY <1>7, SameSamples DEF vars
  <2> QED  BY <1>7, <2>1 DEF vars, Accepted
<1> QED  BY <1>1, <1>2, <1>3, <1>4, <1>5, <1>6, <1>7 DEF Next, Record, RecordNatively

LEMMA Collecting == Spec => []IInv
  BY Initially, Preserved, PTL DEF Spec

-----------------------------------------------------------------------------
(* Theorems *)

(* Whatever is read, an average is of three samples or more and of no more than  *)
(* were asked for, and what is stored has passed the encoder's ranges.            *)
THEOREM AverageTypes == Spec => []AverageTypeOK
<1>1. IInv => AverageTypeOK
  BY DEF IInv
<1> QED  BY <1>1, Collecting, PTL

(* In a field that is not flat, less than half of the samples move the average   *)
(* at most Threshold / 0.6745 times the span of the others beyond that span: for *)
(* any number of samples, any values and any threshold.                          *)
THEOREM Undistorted == Spec => []MinorityCannotDistort
<1>1. ASSUME IInv PROVE MinorityCannotDistort
  <2> SUFFICES ASSUME pc = "averaged",
                      NEW field \in Fields, FourMad(field) # 0,
                      NEW others \in SUBSET DOMAIN readings,
                      2 * Cardinality(others) > count
               PROVE  LET values == {readings[i][field] : i \in others}
                          low == CHOOSE v \in values : \A w \in values : v <= w
                          high == CHOOSE v \in values : \A w \in values : v >= w
                          slack == Threshold * (high - low) * average.count
                          sum == average.sum[field]
                      IN  /\ Scale * (sum - high * average.count) <= slack
                          /\ Scale * (low * average.count - sum) <= slack
    BY DEF MinorityCannotDistort
  <2> DEFINE values == {readings[i][field] : i \in others}
             low == CHOOSE v \in values : \A w \in values : v <= w
             high == CHOOSE v \in values : \A w \in values : v >= w
             total == average.sum[field]
             n == average.count
  <2>1. /\ readings \in Seq(Samples) /\ Len(readings) = count /\ count \in Nat /\ count >= 5
        /\ average \in AveragesOf(Retained)
    BY <1>1, CountsSuffice DEF IInv, AverageTypeOK, Collected
  <2>2. Numbers
    BY <2>1, SamplesAreNumbers, SeqMonotonic DEF Numbers
  <2>3. /\ DOMAIN readings = 1..count
        /\ Column(field) \in [1..count -> Int]
        /\ \A i \in 1..count : Column(field)[i] = readings[i][field]
    BY <2>1, <2>2, ColumnType
  <2>4. IsFiniteSet(1..count) /\ others \in SUBSET (1..count) /\ others # {}
    <3>1. others # {}
      <4> SUFFICES ASSUME others = {} PROVE FALSE
        OBVIOUS
      <4>1. Cardinality(others) = 0
        BY FS_EmptySet
      <4> QED  BY <2>1, <4>1
    <3>2. IsFiniteSet(1..count)
      BY <2>1, FS_Interval
    <3>3. others \in SUBSET (1..count)
      BY <2>3
    <3> QED  BY <3>1, <3>2, <3>3
  <2>5. low \in values /\ \A w \in values : low <= w
    <3>1. PICK i \in others : \A j \in others : Column(field)[i] <= Column(field)[j]
      BY <2>3, <2>4, LeastValue
    <3>2. readings[i][field] \in values /\ \A w \in values : readings[i][field] <= w
      BY <2>3, <2>4, <3>1
    <3> HIDE DEF values
    <3> QED  BY <3>2
  <2>6. high \in values /\ \A w \in values : high >= w
    <3>1. PICK i \in others : \A j \in others : Column(field)[j] <= Column(field)[i]
      BY <2>3, <2>4, GreatestValue
    <3>2. readings[i][field] \in values /\ \A w \in values : readings[i][field] >= w
      BY <2>3, <2>4, <3>1
    <3> HIDE DEF values
    <3> QED  BY <3>2
  <2> HIDE DEF low, high
  <2>7. low \in Int /\ high \in Int
    BY <2>3, <2>4, <2>5, <2>6
  <2>8. \A i \in others : low <= readings[i][field] /\ readings[i][field] <= high
    <3>1. \A i \in others : readings[i][field] \in values
      OBVIOUS
    <3>2. \A i \in others : readings[i][field] \in Int
      BY <2>3, <2>4
    <3> QED  BY <2>5, <2>6, <2>7, <3>1, <3>2
  <2> HIDE DEF values
  <2> DEFINE fun == Column(field)
             b == Threshold * (high - low)
  <2>9. \A i \in Retained : /\ fun[i] \in Int
                            /\ Scale * (fun[i] - high) <= b
                            /\ Scale * (low - fun[i]) <= b
    <3>1. \A i \in Retained : i \in 1..count
      BY <2>3 DEF Retained
    <3>2. \A i \in Retained : /\ readings[i][field] \in Int
                              /\ Scale * (readings[i][field] - high) <= b
                              /\ Scale * (low - readings[i][field]) <= b
      BY <2>1, <2>2, <2>7, <2>8, KeptIsNear
    <3> QED  BY <2>3, <3>1, <3>2
  <2>10. IsFiniteSet(Retained)
    <3>1. Retained \in SUBSET (1..count)
      BY <2>3 DEF Retained
    <3> QED  BY <2>4, <3>1, FS_Subset
  <2>11. total = Sum(fun, Retained) /\ n = Cardinality(Retained)
    BY <2>1 DEF AveragesOf, Sum
  <2>12. b \in Int
    BY <2>7, ThresholdIsPositive
  <2> HIDE DEF fun, b, total, n
  <2>13. total \in Int /\ n \in Nat /\ Scale * (total - high * n) <= b * n
    <3>1. Scale \in Int
      BY DEF Scale
    <3>2. /\ Sum(fun, Retained) \in Int /\ Cardinality(Retained) \in Nat
          /\ Scale * (Sum(fun, Retained) - high * Cardinality(Retained))
               <= b * Cardinality(Retained)
      BY <2>7, <2>9, <2>10, <2>12, <3>1, SumBounded
    <3> QED  BY <2>11, <3>2
  <2>14. Scale * (low * n - total) <= b * n
    <3>1. \A i \in Retained : (-Scale) * (fun[i] - low) <= b
      BY <2>7, <2>9 DEF Scale
    <3>2. -Scale \in Int
      BY DEF Scale
    <3>3. (-Scale) * (total - low * n) <= b * n
      BY <2>7, <2>9, <2>10, <2>11, <2>12, <3>1, <3>2, SumBounded
    <3>4. (-Scale) * (total - low * n) = Scale * (low * n - total)
      <4>1. low * n \in Int
        BY <2>7, <2>13
      <4> QED  BY <2>13, <4>1 DEF Scale
    <3> QED  BY <3>3, <3>4
  <2> QED  BY <2>13, <2>14 DEF b, n, total, low, high, values
<1> QED  BY <1>1, Collecting, PTL

(* Fewer than three samples remain only when two fields or more reject some: one *)
(* field keeps at least half of five or more.                                    *)
THEOREM NeverStarved == Spec => []OneNoisyFieldNeverStarves
<1>1. ASSUME IInv PROVE OneNoisyFieldNeverStarves
  <2> DEFINE noisy == {field \in Fields : Outliers(field) # {}}
  <2> SUFFICES ASSUME pc = "starved", Threshold > Scale, ~(Cardinality(noisy) > 1)
               PROVE  FALSE
    BY DEF OneNoisyFieldNeverStarves
  <2>1. /\ readings \in Seq(Samples) /\ Len(readings) = count /\ count \in Nat /\ count >= 5
        /\ Cardinality(Retained) < 3
    BY <1>1, CountsSuffice DEF IInv, AverageTypeOK, Collected
  <2>2. Numbers
    BY <2>1, SamplesAreNumbers, SeqMonotonic DEF Numbers
  <2>3. PICK field \in Fields : noisy \subseteq {field}
    <3>1. IsFiniteSet(Fields)
      <4>1. IsFiniteSet({"temperature"} \cup {"pressure"} \cup {"humidity"})
        BY FS_Singleton, FS_Union
      <4>2. Fields = {"temperature"} \cup {"pressure"} \cup {"humidity"}
        BY DEF Fields
      <4> QED  BY <4>1, <4>2
    <3>2. noisy \in SUBSET Fields
      OBVIOUS
    <3>3. IsFiniteSet(noisy)
      BY <3>1, <3>2, FS_Subset
    <3>4. Cardinality(noisy) \in Nat
      BY <3>3, FS_CardinalityType
    <3>5. Cardinality(noisy) = 0 \/ Cardinality(noisy) = 1
      BY <3>4
    <3>6. noisy = {} \/ \E x : noisy = {x}
      BY <3>3, <3>5, FS_EmptySet, FS_Singleton
    <3>7. "pressure" \in Fields
      BY DEF Fields
    <3> QED  BY <3>2, <3>6, <3>7
  <2>4. Retained = DOMAIN readings \ Outliers(field)
    <3>1. \A f \in Fields : f # field => Outliers(f) = {}
      BY <2>3
    <3> QED  BY <3>1 DEF Retained
  <2>5. PICK near \in SUBSET (DOMAIN readings \ Outliers(field)) :
          IsFiniteSet(near) /\ Cardinality(near) >= (Len(readings) + 1) \div 2
    <3>1. Threshold >= Scale
      BY ThresholdIsPositive DEF Scale
    <3> QED  BY <2>2, <3>1, HalfIsKept
  <2>6. DOMAIN readings = 1..count /\ IsFiniteSet(1..count)
    BY <2>1, LenProperties, FS_Interval
  <2>7. IsFiniteSet(Retained)
    <3>1. Retained \in SUBSET (1..count)
      BY <2>4, <2>6
    <3> QED  BY <2>6, <3>1, FS_Subset
  <2>8. near \in SUBSET Retained
    BY <2>4
  <2>9. Cardinality(near) <= Cardinality(Retained)
    BY <2>7, <2>8, FS_Subset
  <2>10. Cardinality(near) \in Nat /\ Cardinality(Retained) \in Nat
    BY <2>5, <2>7, FS_CardinalityType
  <2>11. (count + 1) \div 2 >= 3
    BY <2>1
  <2>12. (count + 1) \div 2 \in Int
    BY <2>1
  <2> QED  BY <2>1, <2>5, <2>9, <2>10, <2>11, <2>12
<1> QED  BY <1>1, Collecting, PTL

-----------------------------------------------------------------------------
(* Rounding a mean of n samples that is off by d of k steps of a millionth: by  *)
(* way of millionths, and at once.  The mean is scaled to k * n steps.          *)

(* d of k steps are less than half a millionth, and h is half a unit. *)
Drifted(n, k, d, h) ==
  n \in 1..10000 /\ k \in Nat /\ d \in Int /\ 2 * d < k /\ -k < 2 * d /\ h \in {5, 50}

MeanInSteps(s, n, k, d, h, r) ==
  LET a == k * n
      g == k * s
      e == n * d
      ha == h * a
      hy == h * (a * r)
  IN  /\ a \in Int /\ g \in Int /\ e \in Int /\ ha \in Int /\ hy \in Int
      /\ a > 0 /\ ha >= a /\ 10000 * k >= a /\ 2 * e < a /\ -a < 2 * e
      /\ 10000 * k * s + n * d = 10000 * g + e
      /\ 2 * hy <= g + ha /\ g + ha + k <= 2 * hy + 2 * ha
      /\ \/ 2 * hy + k <= g + ha
         \/ 2 * hy = g + ha /\ 2 * s + 2 * h * n = (2 * (2 * h * n)) * r

LEMMA MeanIsNear ==
  ASSUME NEW s \in Nat, NEW n, NEW k, NEW d, NEW h, Drifted(n, k, d, h),
         NEW r \in Int, r = HalfUp(s, 2 * h * n)
  PROVE  MeanInSteps(s, n, k, d, h, r)
<1> DEFINE a == k * n
           y == n * r
           hn == h * n
           hny == h * y
           low == s + hn - 2 * hny
<1>0. /\ n \in Nat \ {0} /\ n <= 10000 /\ k \in Nat /\ d \in Int
      /\ 2 * d < k /\ -k < 2 * d /\ h \in {5, 50}
  BY DEF Drifted
<1>1. k > 0 /\ h \in Int /\ 2 * h * n \in Nat \ {0}
  BY <1>0
<1>2. /\ (2 * (2 * h * n)) * r <= 2 * s + 2 * h * n
      /\ 2 * s + 2 * h * n < (2 * (2 * h * n)) * r + 2 * (2 * h * n)
  <2> DEFINE u == 2 * h * n
  <2>1. r = (2 * s + u) \div (2 * u)
    BY <1>0 DEF HalfUp
  <2>2. 2 * u \in Int /\ 2 * u > 0 /\ 2 * s + u \in Int
    BY <1>0, <1>1
  <2> DEFINE top == 2 * s + u
             bottom == 2 * u
  <2> HIDE DEF top, bottom
  <2>3. bottom * r <= top /\ top < bottom * r + bottom
    BY <1>0, <2>1, <2>2, Quotient DEF top, bottom
  <2> QED  BY <1>0, <2>3 DEF u, top, bottom
<1>3. y \in Int /\ hn \in Int /\ hny \in Int /\ 2 * h * n = 2 * hn
      /\ (2 * (2 * h * n)) * r = 4 * hny
  BY <1>0, <1>1
<1>4. 2 * hny <= s + hn /\ s + hn + 1 <= 2 * hny + 2 * hn
  <2> HIDE DEF hny, hn
  <2> QED  BY <1>0, <1>2, <1>3
<1>5. a \in Int /\ a >= k /\ a >= n /\ a > 0
  BY <1>0, <1>1
<1>6. h * a = k * hn /\ h * (a * r) = k * hny
  BY <1>0, <1>1, <1>3
<1>7. k * (2 * hny) = 2 * (k * hny) /\ k * (s + hn) = k * s + k * hn
      /\ k * (s + hn + 1) = k * s + k * hn + k
      /\ k * (2 * hny + 2 * hn) = 2 * (k * hny) + 2 * (k * hn)
      /\ k * (2 * hny + 1) = 2 * (k * hny) + k
  <2> HIDE DEF hny, hn
  <2> QED  BY <1>0, <1>3
<1>8. k * (2 * hny) <= k * (s + hn) /\ k * (s + hn + 1) <= k * (2 * hny + 2 * hn)
  <2>1. 2 * hny \in Int /\ s + hn \in Int /\ s + hn + 1 \in Int /\ 2 * hny + 2 * hn \in Int
    BY <1>0, <1>3
  <2> HIDE DEF hny, hn
  <2> QED  BY <1>0, <1>1, <1>4, <2>1, Monotone
<1>9. \/ k * (2 * hny + 1) <= k * (s + hn)
      \/ 2 * hny = s + hn
  <2>1. 2 * hny + 1 \in Int /\ s + hn \in Int
    BY <1>0, <1>3
  <2>2. 2 * hny + 1 <= s + hn \/ 2 * hny = s + hn
    <3> HIDE DEF hny, hn
    <3> QED  BY <1>0, <1>3, <1>4
  <2> HIDE DEF hny, hn
  <2> QED  BY <1>0, <1>1, <2>1, <2>2, Monotone
<1>10. 2 * (n * d) < a /\ -a < 2 * (n * d) /\ n * d \in Int
  <2>1. n * (2 * d + 1) <= n * k
    BY <1>0, Monotone
  <2>2. n * (1 - k) <= n * (2 * d)
    BY <1>0, Monotone
  <2>3. n * (2 * d + 1) = 2 * (n * d) + n /\ n * (1 - k) = n - n * k /\ n * (2 * d) = 2 * (n * d)
        /\ n * k = a /\ n * d \in Int
    BY <1>0
  <2> HIDE DEF a
  <2> QED  BY <1>0, <1>5, <2>1, <2>2, <2>3
<1>11. 10000 * k >= a
  <2>1. k * n <= k * 10000
    BY <1>0, <1>1, Monotone
  <2> QED  BY <1>0, <2>1
<1>12. 10000 * k * s + n * d = 10000 * (k * s) + n * d /\ k * s \in Int
  BY <1>0
<1>13. h * a \in Int /\ h * a >= a /\ h * (a * r) \in Int
  <2> HIDE DEF a
  <2> QED  BY <1>0, <1>5
<1>14. 2 * hny = s + hn => 2 * s + 2 * h * n = (2 * (2 * h * n)) * r
  <2> DEFINE v == 2 * h * n
             w == (2 * v) * r
  <2>1. v = 2 * hn /\ w = 4 * hny
    BY <1>0, <1>3
  <2> HIDE DEF hny, hn, w, v
  <2>2. 2 * hny = s + hn => 2 * s + v = w
    BY <1>0, <1>3, <2>1
  <2> QED  BY <1>0, <2>2 DEF v, w
<1> HIDE DEF a, y, hn, hny
<1>15. k * hn \in Int /\ k * hny \in Int
  BY <1>0, <1>6, <1>13
<1>16. 2 * (k * hny) <= k * s + k * hn /\ k * s + k * hn + k <= 2 * (k * hny) + 2 * (k * hn)
  BY <1>0, <1>7, <1>8
<1>17. \/ 2 * (k * hny) + k <= k * s + k * hn
       \/ 2 * (k * hny) = k * s + k * hn /\ 2 * s + 2 * h * n = (2 * (2 * h * n)) * r
  BY <1>0, <1>7, <1>9, <1>14
<1> QED
  BY <1>0, <1>5, <1>6, <1>10, <1>11, <1>12, <1>13, <1>16, <1>17 DEF a, MeanInSteps

LEMMA Mirrored ==
  ASSUME NEW s \in Nat, NEW unit \in Nat \ {0}
  PROVE  HalfUp(-s, unit) = -HalfUp(s, unit) /\ HalfUp(s, unit) \in Nat
<1> DEFINE r == (2 * s + unit) \div (2 * unit)
<1>1. r \in Int /\ (2 * unit) * r <= 2 * s + unit /\ 2 * s + unit < (2 * unit) * r + 2 * unit
  BY Quotient
<1>2. HalfUp(s, unit) = r
  BY DEF HalfUp
<1> HIDE DEF r
<1>3. r \in Nat
  <2> SUFFICES ASSUME r + 1 <= 0 PROVE FALSE
    BY <1>1
  <2>1. (2 * unit) * (r + 1) <= (2 * unit) * 0
    BY <1>1, Monotone
  <2> QED
    BY <1>1, <2>1
<1>4. CASE s = 0
  <2>1. unit \div (2 * unit) = 0
    BY QuotientIs
  <2> QED
    BY <1>2, <1>3, <1>4, <2>1 DEF HalfUp
<1>5. CASE s # 0
  BY <1>2, <1>3, <1>5 DEF HalfUp, r
<1> QED
  BY <1>4, <1>5

LEMMA NativeRounding ==
  ASSUME NEW s \in Nat, NEW n, NEW k, NEW d, NEW h, Drifted(n, k, d, h),
         10000 * k * s + n * d >= 0
  PROVE  HalfUp(HalfUp(10000 * k * s + n * d, k * n), 2 * h * 10000) = HalfUp(s, 2 * h * n)
<1> DEFINE r == HalfUp(s, 2 * h * n)
           x == 10000 * k * s + n * d
           a == k * n
           g == k * s
           e == n * d
           ha == h * a
           hy == h * (a * r)
           p == HalfUp(x, a)
           from == 10000 * h * (2 * r - 1)
           to == 10000 * h * (2 * r + 1)
<1>0. /\ n \in Nat \ {0} /\ n <= 10000 /\ k \in Nat /\ d \in Int
      /\ 2 * d < k /\ -k < 2 * d /\ h \in {5, 50}
  BY DEF Drifted
<1>1. r \in Int /\ r >= 0
  <2> DEFINE unit == 2 * h * n
  <2>1. unit \in Nat \ {0}
    BY <1>0
  <2> HIDE DEF unit
  <2>2. HalfUp(s, unit) \in Nat
    BY <2>1, Mirrored
  <2> QED  BY <2>2 DEF unit
<1>2. /\ a \in Int /\ g \in Int /\ e \in Int /\ ha \in Int /\ hy \in Int
      /\ a > 0 /\ ha >= a /\ 10000 * k >= a /\ 2 * e < a /\ -a < 2 * e
      /\ x = 10000 * g + e
      /\ 2 * hy <= g + ha /\ g + ha + k <= 2 * hy + 2 * ha
  <2> HIDE DEF r, x, a, g, e, ha, hy
  <2>1. r = HalfUp(s, 2 * h * n)
    BY <1>0 DEF r
  <2>2. MeanInSteps(s, n, k, d, h, r)
    BY <1>1, <2>1, MeanIsNear
  <2> QED  BY <1>0, <2>2 DEF MeanInSteps, x, a, g, e, ha, hy
<1>3. p \in Int /\ p >= 0 /\ (2 * a) * p <= 2 * x + a /\ 2 * x + a < (2 * a) * p + 2 * a
  <2>1. x \in Nat /\ a \in Nat \ {0}
    BY <1>0
  <2> HIDE DEF x, a
  <2>2. p = (2 * x + a) \div (2 * a)
    BY <1>0, <2>1 DEF HalfUp
  <2>3. p \in Nat
    BY <1>0, <2>1, Mirrored
  <2>4. 2 * a \in Int /\ 2 * a > 0 /\ 2 * x + a \in Int
    BY <1>0, <2>1
  <2> HIDE DEF p
  <2> QED  BY <1>0, <2>2, <2>3, <2>4, Quotient
<1>4. /\ (2 * a) * p = 2 * (a * p) /\ a * p \in Int
      /\ a * from = 10000 * (2 * hy - ha) /\ a * to = 10000 * (2 * hy + ha)
      /\ a * (p + 1) = a * p + a /\ from \in Int /\ to \in Int
  <2>1. h \in Int
    BY <1>0
  <2> HIDE DEF a, r, p
  <2> QED  BY <1>0, <1>1, <1>2, <1>3, <2>1
<1> HIDE DEF x, a, g, e, ha, hy, p
<1>5. from <= p
  <2> SUFFICES ASSUME p + 1 <= from PROVE FALSE
    BY <1>0, <1>3, <1>4
  <2>1. a * (p + 1) <= a * from
    <3> HIDE DEF from
    <3> QED  BY <1>0, <1>2, <1>3, <1>4, Monotone
  <2> HIDE DEF from
  <2> QED  BY <1>0, <1>2, <1>3, <1>4, <2>1
<1>6. p < to
  <2> SUFFICES ASSUME to <= p PROVE FALSE
    BY <1>0, <1>3, <1>4
  <2>1. a * to <= a * p
    <3> HIDE DEF to
    <3> QED  BY <1>0, <1>2, <1>3, <1>4, Monotone
  <2> HIDE DEF to
  <2> QED  BY <1>0, <1>2, <1>3, <1>4, <2>1
<1>7. (2 * p + 2 * h * 10000) \div (2 * (2 * h * 10000)) = r
  <2> HIDE DEF r
  <2>1. (2 * (2 * h * 10000)) * r <= 2 * p + 2 * h * 10000
    BY <1>0, <1>1, <1>3, <1>5 DEF from
  <2>2. 2 * p + 2 * h * 10000 < (2 * (2 * h * 10000)) * r + 2 * (2 * h * 10000)
    BY <1>0, <1>1, <1>3, <1>6 DEF to
  <2> QED  BY <1>0, <1>1, <1>3, <2>1, <2>2, QuotientIs
<1>8. HalfUp(p, 2 * h * 10000) = r
  BY <1>0, <1>3, <1>7 DEF HalfUp
<1> QED  BY <1>0, <1>8 DEF p, x, a

LEMMA MultipleDivides ==
  ASSUME NEW b \in Int, b > 0, NEW r \in Int
  PROVE  (b * r) % b = 0
OBVIOUS

LEMMA DjangoRounding ==
  ASSUME NEW s \in Nat, NEW n, NEW k, NEW d, NEW h, Drifted(n, k, d, h),
         10000 * k * s + n * d >= 0
  PROVE  LET django == HalfUp(10000 * k * s + n * d, 2 * h * 10000 * k * n)
             exact == HalfUp(s, 2 * h * n)
         IN  /\ django \in Nat /\ exact \in Nat
             /\ \/ django = exact
                \/ (2 * s + 2 * h * n) % (2 * (2 * h * n)) = 0 /\ django = exact - 1
<1> DEFINE r == HalfUp(s, 2 * h * n)
           x == 10000 * k * s + n * d
           a == k * n
           g == k * s
           e == n * d
           ha == h * a
           hy == h * (a * r)
           m == 2 * h * 10000 * k * n
           q == HalfUp(x, m)
<1>0. /\ n \in Nat \ {0} /\ n <= 10000 /\ k \in Nat /\ d \in Int
      /\ 2 * d < k /\ -k < 2 * d /\ h \in {5, 50}
  BY DEF Drifted
<1>1. r \in Int /\ r >= 0
  <2> DEFINE unit == 2 * h * n
  <2>1. unit \in Nat \ {0}
    BY <1>0
  <2> HIDE DEF unit
  <2>2. HalfUp(s, unit) \in Nat
    BY <2>1, Mirrored
  <2> QED  BY <2>2 DEF unit
<1>2. /\ a \in Int /\ g \in Int /\ e \in Int /\ ha \in Int /\ hy \in Int
      /\ a > 0 /\ ha >= a /\ 10000 * k >= a /\ 2 * e < a /\ -a < 2 * e
      /\ x = 10000 * g + e
      /\ 2 * hy <= g + ha /\ g + ha + k <= 2 * hy + 2 * ha
      /\ \/ 2 * hy + k <= g + ha
         \/ 2 * hy = g + ha /\ 2 * s + 2 * h * n = (2 * (2 * h * n)) * r
  <2> HIDE DEF r, x, a, g, e, ha, hy
  <2>1. r = HalfUp(s, 2 * h * n)
    BY <1>0 DEF r
  <2>2. MeanInSteps(s, n, k, d, h, r)
    BY <1>1, <2>1, MeanIsNear
  <2> QED  BY <1>0, <2>2 DEF MeanInSteps, x, a, g, e, ha, hy
<1>3. x \in Nat
  BY <1>0
<1>4. /\ m = 20000 * ha /\ (2 * m) * r = 40000 * hy
      /\ (2 * m) * (r - 1) = 40000 * hy - 40000 * ha
  <2>1. m = 20000 * ha
    BY <1>0
  <2>2. h \in Int /\ a \in Int
    BY <1>0, <1>2
  <2> HIDE DEF m, r, a
  <2> QED  BY <1>0, <1>1, <2>1, <2>2
<1> HIDE DEF x, a, g, e, ha, hy
<1>5. m \in Nat \ {0}
  BY <1>0, <1>2, <1>4
<1>6. q \in Nat
  <2> HIDE DEF m
  <2> QED  BY <1>0, <1>3, <1>5, Mirrored
<1> HIDE DEF m
<1>7. q = (2 * x + m) \div (2 * m)
  BY <1>0, <1>3 DEF HalfUp
<1> HIDE DEF q, r
<1>8. CASE 2 * hy + k <= g + ha \/ e >= 0
  <2>1. (2 * m) * r <= 2 * x + m
    BY <1>0, <1>2, <1>4, <1>8
  <2>2. 2 * x + m < (2 * m) * r + 2 * m
    BY <1>0, <1>2, <1>4, <1>8
  <2>3. q = r
    BY <1>0, <1>1, <1>3, <1>5, <1>7, <2>1, <2>2, QuotientIs
  <2> QED  BY <1>0, <1>1, <1>6, <2>3 DEF q, r, m, x
<1>9. CASE ~(2 * hy + k <= g + ha \/ e >= 0)
  <2>1. (2 * m) * (r - 1) <= 2 * x + m
    BY <1>0, <1>2, <1>4, <1>9
  <2>2. 2 * x + m < (2 * m) * (r - 1) + 2 * m
    BY <1>0, <1>2, <1>4, <1>9
  <2> DEFINE below == r - 1
  <2>3. below \in Int /\ 2 * m \in Int /\ 2 * m > 0 /\ 2 * x + m \in Int
    BY <1>1, <1>3, <1>5
  <2> HIDE DEF below
  <2>4. (2 * m) * below <= 2 * x + m /\ 2 * x + m < (2 * m) * below + 2 * m
    BY <2>1, <2>2 DEF below
  <2>5. q = below
    <3> DEFINE top == 2 * x + m
               bottom == 2 * m
    <3>1. q = top \div bottom
      BY <1>7
    <3>2. top \in Int /\ bottom \in Int /\ bottom > 0
      BY <2>3
    <3>3. bottom * below <= top /\ top < bottom * below + bottom
      BY <2>4
    <3> HIDE DEF top, bottom
    <3> QED  BY <2>3, <3>1, <3>2, <3>3, QuotientIs
  <2>6. q = r - 1
    BY <2>5 DEF below
  <2>7. 2 * s + 2 * h * n = (2 * (2 * h * n)) * r
    BY <1>0, <1>2, <1>9
  <2>8. ((2 * (2 * h * n)) * r) % (2 * (2 * h * n)) = 0
    <3>1. 2 * (2 * h * n) \in Int /\ 2 * (2 * h * n) > 0
      BY <1>0
    <3> QED  BY <1>0, <1>1, <3>1, MultipleDivides
  <2>9. (2 * s + 2 * h * n) % (2 * (2 * h * n)) = 0
    BY <1>0, <2>7, <2>8
  <2> QED  BY <1>0, <1>1, <1>6, <2>6, <2>9 DEF q, r, m, x
<1> QED  BY <1>0, <1>8, <1>9

(* What is closer to zero than to one unit is rounded to zero. *)
LEMMA RoundedToZero ==
  ASSUME NEW x \in Int, NEW unit \in Nat \ {0}, 2 * x < unit, -unit < 2 * x
  PROVE  HalfUp(x, unit) = 0
<1>1. ASSUME NEW y \in Nat, 2 * y < unit PROVE HalfUp(y, unit) = 0
  <2> DEFINE top == 2 * y + unit
             bottom == 2 * unit
  <2>1. HalfUp(y, unit) = top \div bottom
    BY DEF HalfUp
  <2>2. top \in Int /\ bottom \in Int /\ bottom > 0 /\ 0 <= top /\ top < bottom
    BY <1>1
  <2> HIDE DEF top, bottom
  <2>3. bottom * 0 <= top /\ top < bottom * 0 + bottom
    BY <2>2
  <2> QED  BY <2>1, <2>2, <2>3, QuotientIs
<1>2. CASE x >= 0
  BY <1>1, <1>2
<1>3. CASE x < 0
  <2> DEFINE y == -x
  <2>1. y \in Nat /\ 2 * y < unit /\ x = -y
    BY <1>3
  <2> HIDE DEF y
  <2>2. HalfUp(y, unit) = 0 /\ HalfUp(-y, unit) = -HalfUp(y, unit)
    BY <1>1, <2>1, Mirrored
  <2>3. HalfUp(x, unit) = HalfUp(-y, unit)
    BY <2>1
  <2> QED  BY <2>2, <2>3
<1> QED  BY <1>2, <1>3

(* The float is on the side of zero that the exact mean is on. *)
LEMMA SignIsKept ==
  ASSUME NEW s \in Nat, s > 0, NEW n, NEW k, NEW d, NEW h, Drifted(n, k, d, h)
  PROVE  10000 * k * s + n * d >= 0
<1>1. /\ n \in Nat \ {0} /\ n <= 10000 /\ k \in Nat /\ d \in Int /\ -k < 2 * d /\ k > 0
  BY DEF Drifted
<1>2. k * n <= k * 10000 /\ (10000 * k) * 1 <= (10000 * k) * s
  <2>1. 10000 * k \in Int /\ 10000 * k > 0 /\ 1 <= s
    BY <1>1
  <2> QED  BY <1>1, <2>1, Monotone
<1>3. n * (-k) <= n * (2 * d)
  BY <1>1, Monotone
<1>4. n * (-k) = -(k * n) /\ n * (2 * d) = 2 * (n * d) /\ k * n \in Int /\ n * d \in Int
      /\ (10000 * k) * s = 10000 * k * s /\ 10000 * k * s \in Int
  BY <1>1
<1> QED  BY <1>1, <1>2, <1>3, <1>4

(* The two paths, as functions of the sum s of n samples. *)
Django(s, n, k, d, h) == HalfUp(10000 * k * s + n * d, 2 * h * 10000 * k * n)
Native(s, n, k, d, h) == HalfUp(HalfUp(10000 * k * s + n * d, k * n), 2 * h * 10000)
Exact(s, n, h) == HalfUp(s, 2 * h * n)
Halfway(s, n, h) == (2 * Absolute(s) + 2 * h * n) % (2 * (2 * h * n)) = 0

LEMMA PathsMirrored ==
  ASSUME NEW s \in Nat, NEW n, NEW k, NEW d, NEW h, Drifted(n, k, d, h),
         10000 * k * s + n * d >= 0
  PROVE  /\ Drifted(n, k, -d, h)
         /\ Django(-s, n, k, -d, h) = -Django(s, n, k, d, h)
         /\ Native(-s, n, k, -d, h) = -Native(s, n, k, d, h)
         /\ Exact(-s, n, h) = -Exact(s, n, h)
<1> DEFINE x == 10000 * k * s + n * d
           y == 10000 * k * (-s) + n * (-d)
           a == k * n
           m == 2 * h * 10000 * k * n
           u == 2 * h * n
           w == 2 * h * 10000
<1>1. /\ n \in Nat \ {0} /\ k \in Nat \ {0} /\ d \in Int /\ h \in Nat \ {0}
      /\ 2 * d < k /\ -k < 2 * d
  BY DEF Drifted
<1>2. Drifted(n, k, -d, h)
  <2>1. -d \in Int /\ 2 * (-d) < k /\ -k < 2 * (-d)
    BY <1>1
  <2> QED  BY <2>1 DEF Drifted
<1>3. y = -x
  BY <1>1
<1>4. x \in Nat /\ a \in Nat \ {0} /\ u \in Nat \ {0} /\ w \in Nat \ {0}
  BY <1>1
<1>5. m \in Nat \ {0}
  <2>1. m = w * a
    BY <1>1
  <2> HIDE DEF w, a, m
  <2> QED  BY <1>4, <2>1
<1> HIDE DEF x, y, a, m, u, w
<1>6. /\ HalfUp(-x, m) = -HalfUp(x, m) /\ HalfUp(-x, a) = -HalfUp(x, a)
      /\ HalfUp(x, a) \in Nat /\ HalfUp(-s, u) = -HalfUp(s, u)
  BY <1>4, <1>5, Mirrored
<1>7. HalfUp(-HalfUp(x, a), w) = -HalfUp(HalfUp(x, a), w)
  BY <1>4, <1>6, Mirrored
<1>8. /\ Django(-s, n, k, -d, h) = HalfUp(y, m)
      /\ Native(-s, n, k, -d, h) = HalfUp(HalfUp(y, a), w)
      /\ Exact(-s, n, h) = HalfUp(-s, u)
  BY DEF Django, Native, Exact, y, m, a, w, u
<1>9. /\ Django(s, n, k, d, h) = HalfUp(x, m)
      /\ Native(s, n, k, d, h) = HalfUp(HalfUp(x, a), w)
      /\ Exact(s, n, h) = HalfUp(s, u)
  BY DEF Django, Native, Exact, x, m, a, w, u
<1>10. /\ Django(-s, n, k, -d, h) = HalfUp(-x, m)
       /\ Native(-s, n, k, -d, h) = HalfUp(HalfUp(-x, a), w)
  BY <1>3, <1>8
<1>11. Native(-s, n, k, -d, h) = -Native(s, n, k, d, h)
  BY <1>6, <1>7, <1>9, <1>10
<1>12. Django(-s, n, k, -d, h) = -Django(s, n, k, d, h)
  BY <1>6, <1>9, <1>10
<1>13. Exact(-s, n, h) = -Exact(s, n, h)
  BY <1>6, <1>8, <1>9
<1> QED  BY <1>2, <1>11, <1>12, <1>13

(* The native path rounds the exact mean, and the Django command may only fall *)
(* short of a tie.                                                             *)
THEOREM DriftOnlyBreaksTies ==
  ASSUME NEW s \in Int, NEW n, NEW k, NEW d, NEW h, Drifted(n, k, d, h)
  PROVE  /\ Native(s, n, k, d, h) = Exact(s, n, h)
         /\ \/ Django(s, n, k, d, h) = Exact(s, n, h)
            \/ /\ Halfway(s, n, h)
               /\ Absolute(Django(s, n, k, d, h)) = Absolute(Exact(s, n, h)) - 1
<1>1. CASE s > 0
  <2>1. s \in Nat /\ Absolute(s) = s
    BY <1>1 DEF Absolute
  <2>2. 10000 * k * s + n * d >= 0
    BY <1>1, <2>1, SignIsKept
  <2>3. Native(s, n, k, d, h) = Exact(s, n, h)
    BY <2>1, <2>2, NativeRounding DEF Native, Exact
  <2>4. /\ Django(s, n, k, d, h) \in Nat /\ Exact(s, n, h) \in Nat
        /\ \/ Django(s, n, k, d, h) = Exact(s, n, h)
           \/ Halfway(s, n, h) /\ Django(s, n, k, d, h) = Exact(s, n, h) - 1
    BY <2>1, <2>2, DjangoRounding DEF Django, Exact, Halfway
  <2> QED  BY <2>3, <2>4 DEF Absolute
<1>2. CASE s < 0
  <2> DEFINE t == -s
             c == -d
  <2>1. t \in Nat /\ t > 0 /\ s = -t /\ d = -c /\ c \in Int
    BY <1>2 DEF Drifted
  <2>2. Absolute(s) = Absolute(t) /\ Absolute(t) = t
    BY <1>2 DEF Absolute
  <2>3. Drifted(n, k, c, h)
    BY DEF Drifted
  <2> HIDE DEF t, c
  <2>4. 10000 * k * t + n * c >= 0
    BY <2>1, <2>3, SignIsKept
  <2>5. /\ Django(s, n, k, d, h) = -Django(t, n, k, c, h)
        /\ Native(s, n, k, d, h) = -Native(t, n, k, c, h)
        /\ Exact(s, n, h) = -Exact(t, n, h)
    BY <2>1, <2>3, <2>4, PathsMirrored
  <2>6. Native(t, n, k, c, h) = Exact(t, n, h)
    BY <2>1, <2>3, <2>4, NativeRounding DEF Native, Exact
  <2>7. /\ Django(t, n, k, c, h) \in Nat /\ Exact(t, n, h) \in Nat
        /\ \/ Django(t, n, k, c, h) = Exact(t, n, h)
           \/ Halfway(t, n, h) /\ Django(t, n, k, c, h) = Exact(t, n, h) - 1
    BY <2>1, <2>2, <2>3, <2>4, DjangoRounding DEF Django, Exact, Halfway
  <2>8. Halfway(s, n, h) <=> Halfway(t, n, h)
    BY <2>2 DEF Halfway
  <2> QED  BY <2>5, <2>6, <2>7, <2>8 DEF Absolute
<1>3. CASE s = 0
  <2> DEFINE e == n * d
             a == k * n
             m == 2 * h * 10000 * k * n
             u == 2 * h * n
             w == 2 * h * 10000
             x == 10000 * k * s + n * d
  <2>1. /\ n \in Nat \ {0} /\ k \in Nat \ {0} /\ d \in Int /\ h \in Nat \ {0}
        /\ 2 * d < k /\ -k < 2 * d
    BY DEF Drifted
  <2>2. e \in Int /\ a \in Nat \ {0} /\ u \in Nat \ {0} /\ w \in Nat \ {0}
    BY <2>1
  <2>3. m = w * a
    BY <2>1
  <2>4. 2 * e < a /\ -a < 2 * e
    <3>1. n * (2 * d + 1) <= n * k /\ n * (1 - k) <= n * (2 * d)
      BY <2>1, Monotone
    <3>2. /\ n * (2 * d + 1) = 2 * e + n /\ n * (1 - k) = n - a /\ n * (2 * d) = 2 * e
          /\ n * k = a
      BY <2>1
    <3> HIDE DEF e, a
    <3> QED  BY <2>1, <2>2, <3>1, <3>2
  <2>5. x = e
    BY <1>3, <2>1
  <2> HIDE DEF e, a, m, u, w, x
  <2>6. m \in Nat \ {0} /\ a <= m
    <3>1. a * 1 <= a * w
      BY <2>2, Monotone
    <3> QED  BY <2>2, <2>3, <3>1
  <2>7. HalfUp(e, a) = 0 /\ HalfUp(e, m) = 0
    BY <2>2, <2>4, <2>6, RoundedToZero
  <2>8. HalfUp(0, u) = 0 /\ HalfUp(0, w) = 0
    BY <2>2, RoundedToZero
  <2>9. Django(s, n, k, d, h) = HalfUp(e, m) /\ Native(s, n, k, d, h) = HalfUp(HalfUp(e, a), w)
    <3>1. /\ Django(s, n, k, d, h) = HalfUp(x, m)
          /\ Native(s, n, k, d, h) = HalfUp(HalfUp(x, a), w)
      BY DEF Django, Native, a, m, w, x
    <3> QED  BY <2>5, <3>1
  <2>10. Exact(s, n, h) = HalfUp(0, u)
    BY <1>3, Zenon DEF Exact, u
  <2> QED  BY <2>7, <2>8, <2>9, <2>10
<1> QED  BY <1>1, <1>2, <1>3

(* Up to ten thousand samples, both commands store the exact mean, rounded, of   *)
(* every average; but the Django one may round a tie towards zero.              *)
THEOREM PathsAgreeButOnTies ==
  ASSUME \A n \in Counts : n <= 10000
  PROVE  Spec => []PathsDifferOnlyOnTies
<1>1. ASSUME IInv PROVE PathsDifferOnlyOnTies
  <2> SUFFICES ASSUME pc = "averaged", NEW field \in Fields
               PROVE  LET unit == UnitOf[field] * average.count
                          exact == HalfUp(average.sum[field], unit)
                          django == DjangoUnits(average)[field]
                      IN  /\ NativeUnits(average)[field] = exact
                          /\ \/ django = exact
                             \/ /\ IsTie(average.sum[field], unit)
                                /\ Absolute(django) = Absolute(exact) - 1
    BY DEF PathsDifferOnlyOnTies
  <2> DEFINE s == average.sum[field]
             n == average.count
             d == average.drift[field]
             k == Steps
             h == UnitOf[field] \div 2
  <2>1. h \in {5, 50} /\ UnitOf[field] = 2 * h
    BY DEF Fields, UnitOf
  <2>2. s \in Int /\ n \in 3..count /\ d \in -Drift..Drift
    BY <1>1 DEF IInv, AverageTypeOK
  <2>3. n \in 1..10000
    <3>1. count \in {0} \cup Counts
      BY <1>1 DEF IInv, AverageTypeOK
    <3>2. 0 \in Nat /\ 0 <= 10000
      OBVIOUS
    <3>3. count \in Nat /\ count <= 10000
      BY <3>1, <3>2, CountsSuffice
    <3> HIDE DEF n, s, d
    <3> QED  BY <2>2, <3>3
  <2>4. Drifted(n, k, d, h)
    <3> HIDE DEF n, d, h
    <3> QED  BY <2>1, <2>2, <2>3, FloatsAreFine DEF Drifted
  <2>5. DjangoUnits(average)[field] = Django(s, n, k, d, h)
    <3>1. DjangoUnits(average)[field]
            = HalfUp(Micro * Steps * s + n * d, UnitOf[field] * Micro * Steps * n)
      BY DEF DjangoUnits, InSteps
    <3> HIDE DEF s, n, d, h
    <3> QED  BY <2>1, <3>1 DEF Django, Micro
  <2>6. NativeUnits(average)[field] = Native(s, n, k, d, h)
    <3>1. NativeUnits(average)[field]
            = HalfUp(HalfUp(Micro * Steps * s + n * d, Steps * n), UnitOf[field] * Micro)
      BY DEF NativeUnits, InSteps
    <3> HIDE DEF s, n, d, h
    <3> QED  BY <2>1, <3>1 DEF Native, Micro
  <2> HIDE DEF s, n, d, h
  <2>7. /\ HalfUp(s, UnitOf[field] * n) = Exact(s, n, h)
        /\ IsTie(s, UnitOf[field] * n) <=> Halfway(s, n, h)
    BY <2>1 DEF Exact, IsTie, Halfway
  <2>8. /\ Native(s, n, k, d, h) = Exact(s, n, h)
        /\ \/ Django(s, n, k, d, h) = Exact(s, n, h)
           \/ /\ Halfway(s, n, h)
              /\ Absolute(Django(s, n, k, d, h)) = Absolute(Exact(s, n, h)) - 1
    BY <2>2, <2>4, DriftOnlyBreaksTies
  <2> QED  BY <2>5, <2>6, <2>7, <2>8 DEF s, n
<1> QED  BY <1>1, Collecting, PTL

=============================================================================

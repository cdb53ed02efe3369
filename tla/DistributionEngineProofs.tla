----------------------- MODULE DistributionEngineProofs -----------------------
(***************************************************************************)
(* Theorems about the distribution engine, in three parts that build on    *)
(* each other: the split of a revenue (Apportionment), for every list of   *)
(* balances and every revenue; the safety of DistributionEngine, for any   *)
(* number of concurrent calls, any requests, balances and retry budget;    *)
(* and that the engine implements PayoutLedger.                            *)
(***************************************************************************)
EXTENDS DistributionEngine, TLAPS, WellFoundedInduction

-----------------------------------------------------------------------------
(* Part 1: the split.  Sums over a sequence need induction on its length;  *)
(* it is done with the least-number principle: the set of lengths at which *)
(* a claim fails is empty, since it has no least element.                  *)

(* Every non-empty set of naturals has a least element. *)
LEMMA LeastNumber ==
    ASSUME NEW T \in SUBSET Nat, T # {}
    PROVE  \E n \in T : \A m \in T : n <= m
<1> DEFINE R == OpToRel(<, Nat)
<1>1. IsWellFoundedOn(R, Nat)
  BY NatLessThanWellFounded
<1>2. \A x, y \in Nat : y < x => <<y, x>> \in R
  BY DEF OpToRel
<1> HIDE DEF R
<1>3. PICK x \in T : \A y \in T : ~(<<y, x>> \in R)
  BY <1>1, WFMin
<1>4. \A y \in T : ~(y < x)
  BY <1>2, <1>3
<1>5. QED
  BY <1>4

(* Induction over 0..N, on the set of arguments at which the claim holds. *)
LEMMA BoundedInduction ==
    ASSUME NEW N \in Nat, NEW S, 0 \in S,
           \A k \in 1..N : (k - 1) \in S => k \in S
    PROVE  0..N \subseteq S
<1> DEFINE T == (0..N) \ S
<1>1. SUFFICES ASSUME T # {} PROVE FALSE
  OBVIOUS
<1>2. T \in SUBSET Nat
  OBVIOUS
<1>3. PICK n \in T : \A m \in T : n <= m
  BY <1>1, <1>2, LeastNumber
<1>4. QED
  BY <1>3

(* The defining equation of the recursive function PartialSums. *)
LEMMA PartialSumsDef ==
    ASSUME NEW s \in Seq(Int)
    PROVE  PartialSums(s) =
             [i \in 0..Len(s) |-> IF i = 0 THEN 0 ELSE PartialSums(s)[i - 1] + s[i]]
<1> DEFINE N == Len(s)
           IsSumTo(f, k) == f = [i \in 0..k |-> IF i = 0 THEN 0 ELSE f[i - 1] + s[i]]
           S == {k \in 0..N : \E f : IsSumTo(f, k)}
<1>1. N \in Nat
  OBVIOUS
<1>2. 0 \in S
  <2> DEFINE f == [i \in 0..0 |-> 0]
  <2>1. IsSumTo(f, 0)
    OBVIOUS
  <2> HIDE DEF f, IsSumTo
  <2>2. QED
    BY <1>1, <2>1
<1>3. ASSUME NEW k \in 1..N, (k - 1) \in S
      PROVE  k \in S
  <2>1. PICK g : IsSumTo(g, k - 1)
    BY <1>3
  <2> DEFINE f == [i \in 0..k |-> IF i = k THEN g[k - 1] + s[k] ELSE g[i]]
  <2>2. \A i \in 0..k : f[i] = IF i = 0 THEN 0 ELSE f[i - 1] + s[i]
    BY <2>1
  <2>3. IsSumTo(f, k)
    BY <2>2
  <2> HIDE DEF f, IsSumTo
  <2>4. QED
    BY <2>3
<1>4. N \in S
  <2> HIDE DEF S, N
  <2>1. 0..N \subseteq S
    BY <1>1, <1>2, <1>3, BoundedInduction
  <2>2. QED
    BY <1>1, <2>1
<1>5. \E f : IsSumTo(f, N)
  BY <1>4
<1>6. PartialSums(s) = CHOOSE f : IsSumTo(f, N)
  BY DEF PartialSums
<1>7. QED
  BY <1>5, <1>6

LEMMA PartialSumsType ==
    ASSUME NEW s \in Seq(Int)
    PROVE  /\ PartialSums(s) \in [0..Len(s) -> Int]
           /\ PartialSums(s)[0] = 0
           /\ \A i \in 1..Len(s) : PartialSums(s)[i] = PartialSums(s)[i - 1] + s[i]
<1> DEFINE f == PartialSums(s)
           S == {i \in 0..Len(s) : f[i] \in Int}
<1>1. f = [i \in 0..Len(s) |-> IF i = 0 THEN 0 ELSE f[i - 1] + s[i]]
  BY PartialSumsDef
<1> HIDE DEF f
<1>2. Len(s) \in Nat /\ \A i \in 1..Len(s) : s[i] \in Int
  OBVIOUS
<1>3. f[0] = 0 /\ \A i \in 1..Len(s) : f[i] = f[i - 1] + s[i]
  <2>1. f[0] = 0
    BY <1>1, <1>2
  <2>2. ASSUME NEW i \in 1..Len(s)
        PROVE  f[i] = f[i - 1] + s[i]
    <3>1. i \in 0..Len(s) /\ i # 0
      BY <1>2
    <3>2. QED
      BY <1>1, <3>1
  <2>3. QED
    BY <2>1, <2>2
<1>4. 0..Len(s) \subseteq S
  <2>1. 0 \in S
    BY <1>2, <1>3
  <2>2. \A k \in 1..Len(s) : (k - 1) \in S => k \in S
    BY <1>2, <1>3
  <2> HIDE DEF S
  <2>3. QED
    BY <1>2, <2>1, <2>2, BoundedInduction
<1>5. \A i \in 0..Len(s) : f[i] \in Int
  BY <1>4
<1>6. f = [i \in 0..Len(s) |-> f[i]]
  BY <1>1
<1>7. QED
  BY <1>3, <1>5, <1>6 DEF f

LEMMA SumOfType ==
    ASSUME NEW s \in Seq(Int)
    PROVE  SumOf(s) \in Int
BY PartialSumsType DEF SumOf

(* Adding d to one element adds d to the sum. *)
LEMMA SumOfUpdate ==
    ASSUME NEW s \in Seq(Int), NEW k \in 1..Len(s), NEW d \in Int
    PROVE  SumOf([s EXCEPT ![k] = @ + d]) = SumOf(s) + d
<1> DEFINE t == [s EXCEPT ![k] = @ + d]
           f == PartialSums(s)
           g == PartialSums(t)
           S == {i \in 0..Len(s) : g[i] = f[i] + (IF k <= i THEN d ELSE 0)}
<1>1. t \in Seq(Int) /\ Len(t) = Len(s) /\ Len(s) \in Nat
  OBVIOUS
<1>2. \A i \in 1..Len(s) : /\ s[i] \in Int
                           /\ t[i] = s[i] + (IF i = k THEN d ELSE 0)
  OBVIOUS
<1>3. /\ \A i \in 0..Len(s) : f[i] \in Int
      /\ f[0] = 0
      /\ \A i \in 1..Len(s) : f[i] = f[i - 1] + s[i]
  BY PartialSumsType
<1> HIDE DEF t
<1>4. /\ g[0] = 0
      /\ \A i \in 1..Len(s) : g[i] = g[i - 1] + t[i]
  BY <1>1, PartialSumsType
<1> HIDE DEF f, g
<1>5. 0..Len(s) \subseteq S
  <2>1. 0 \in S
    BY <1>1, <1>3, <1>4
  <2>2. ASSUME NEW i \in 1..Len(s), (i - 1) \in S
        PROVE  i \in S
    <3>1. g[i - 1] = f[i - 1] + (IF k <= i - 1 THEN d ELSE 0)
      BY <2>2
    <3>2. /\ i \in 0..Len(s) /\ (i - 1) \in 0..Len(s)
          /\ g[i] = g[i - 1] + t[i] /\ f[i] = f[i - 1] + s[i]
          /\ t[i] = s[i] + (IF i = k THEN d ELSE 0)
      BY <1>1, <1>2, <1>3, <1>4
    <3>3. f[i - 1] \in Int /\ s[i] \in Int
      BY <1>2, <1>3, <3>2
    <3>4. g[i] = f[i] + (IF k <= i THEN d ELSE 0)
      BY <3>1, <3>2, <3>3
    <3>5. QED
      BY <3>2, <3>4
  <2> HIDE DEF S
  <2>3. QED
    BY <1>1, <2>1, <2>2, BoundedInduction
<1>6. g[Len(s)] = f[Len(s)] + d
  BY <1>1, <1>5
<1>7. QED
  BY <1>1, <1>6 DEF SumOf, f, g, t

(* One step of SumOfNear: errors add up. *)
LEMMA ErrorAdds ==
    ASSUME NEW c \in Int, NEW e \in Int, NEW i \in Int,
           NEW F \in Int, NEW G \in Int, NEW x \in Int, NEW y \in Int,
           -((i - 1) * e) <= c * G - F, c * G - F <= (i - 1) * e,
           -e <= c * y - x, c * y - x <= e
    PROVE  /\ -(i * e) <= c * (G + y) - (F + x)
           /\ c * (G + y) - (F + x) <= i * e
BY SMT

(* If c times every element of t is within e of the element of s, then c   *)
(* times the sum of t is within Len(s) times e of the sum of s.            *)
LEMMA SumOfNear ==
    ASSUME NEW s \in Seq(Int), NEW t \in Seq(Int), Len(t) = Len(s),
           NEW c \in Int, NEW e \in Int,
           \A i \in 1..Len(s) : -e <= c * t[i] - s[i] /\ c * t[i] - s[i] <= e
    PROVE  /\ -(Len(s) * e) <= c * SumOf(t) - SumOf(s)
           /\ c * SumOf(t) - SumOf(s) <= Len(s) * e
<1> DEFINE f == PartialSums(s)
           g == PartialSums(t)
           S == {i \in 0..Len(s) : /\ -(i * e) <= c * g[i] - f[i]
                                   /\ c * g[i] - f[i] <= i * e}
<1>1. Len(s) \in Nat /\ \A i \in 1..Len(s) : s[i] \in Int /\ t[i] \in Int
  OBVIOUS
<1>2. /\ \A i \in 0..Len(s) : f[i] \in Int
      /\ f[0] = 0
      /\ \A i \in 1..Len(s) : f[i] = f[i - 1] + s[i]
  BY PartialSumsType
<1>3. /\ \A i \in 0..Len(s) : g[i] \in Int
      /\ g[0] = 0
      /\ \A i \in 1..Len(s) : g[i] = g[i - 1] + t[i]
  BY PartialSumsType
<1> HIDE DEF f, g
<1>4. 0..Len(s) \subseteq S
  <2>1. 0 \in S
    BY <1>1, <1>2, <1>3
  <2>2. ASSUME NEW i \in 1..Len(s), (i - 1) \in S
        PROVE  i \in S
    <3>1. /\ -((i - 1) * e) <= c * g[i - 1] - f[i - 1]
          /\ c * g[i - 1] - f[i - 1] <= (i - 1) * e
      BY <2>2
    <3>2. i \in Int /\ (i - 1) \in 0..Len(s) /\ i \in 0..Len(s)
      BY <1>1
    <3>3. /\ f[i - 1] \in Int /\ g[i - 1] \in Int
          /\ s[i] \in Int /\ t[i] \in Int
      BY <1>1, <1>2, <1>3, <3>2
    <3>4. /\ f[i] = f[i - 1] + s[i] /\ g[i] = g[i - 1] + t[i]
          /\ -e <= c * t[i] - s[i] /\ c * t[i] - s[i] <= e
      BY <1>2, <1>3
    <3>5. /\ -(i * e) <= c * (g[i - 1] + t[i]) - (f[i - 1] + s[i])
          /\ c * (g[i - 1] + t[i]) - (f[i - 1] + s[i]) <= i * e
      BY <3>1, <3>2, <3>3, <3>4, ErrorAdds
    <3>6. QED
      BY <3>2, <3>4, <3>5
  <2> HIDE DEF S
  <2>3. QED
    BY <1>1, <2>1, <2>2, BoundedInduction
<1>5. Len(s) \in S
  <2> HIDE DEF S
  <2>1. QED
    BY <1>1, <1>4
<1>6. /\ -(Len(s) * e) <= c * g[Len(s)] - f[Len(s)]
      /\ c * g[Len(s)] - f[Len(s)] <= Len(s) * e
  BY <1>5
<1>7. QED
  BY <1>6 DEF SumOf, f, g

(* Multiplying every element multiplies the sum. *)
LEMMA SumOfScaled ==
    ASSUME NEW s \in Seq(Int), NEW c \in Int
    PROVE  SumOf([i \in 1..Len(s) |-> c * s[i]]) = c * SumOf(s)
<1> DEFINE t == [i \in 1..Len(s) |-> c * s[i]]
<1>1. t \in Seq(Int) /\ Len(t) = Len(s) /\ Len(s) \in Nat
  OBVIOUS
<1>2. PICK e \in Int : e = 0
  OBVIOUS
<1>3. \A i \in 1..Len(t) : -e <= c * s[i] - t[i] /\ c * s[i] - t[i] <= e
  BY <1>1, <1>2
<1> HIDE DEF t
<1>4. /\ -(Len(t) * e) <= c * SumOf(s) - SumOf(t)
      /\ c * SumOf(s) - SumOf(t) <= Len(t) * e
  BY <1>1, <1>3, SumOfNear
<1>5. SumOf(t) \in Int /\ SumOf(s) \in Int
  BY <1>1, SumOfType
<1>6. c * SumOf(s) \in Int /\ Len(t) * e = 0
  BY <1>1, <1>2, <1>5
<1>7. SumOf(t) = c * SumOf(s)
  BY <1>4, <1>5, <1>6
<1>8. QED
  BY <1>7 DEF t

(* A sum of Len(s) elements of at most b is at most Len(s) times b. *)
LEMMA SumOfAtMost ==
    ASSUME NEW s \in Seq(Int), NEW b \in Int, \A i \in 1..Len(s) : s[i] <= b
    PROVE  SumOf(s) <= Len(s) * b
<1> DEFINE f == PartialSums(s)
           S == {i \in 0..Len(s) : f[i] <= i * b}
<1>1. Len(s) \in Nat /\ \A i \in 1..Len(s) : s[i] \in Int
  OBVIOUS
<1>2. /\ \A i \in 0..Len(s) : f[i] \in Int
      /\ f[0] = 0
      /\ \A i \in 1..Len(s) : f[i] = f[i - 1] + s[i]
  BY PartialSumsType
<1> HIDE DEF f
<1>3. 0..Len(s) \subseteq S
  <2>1. 0 \in S
    BY <1>1, <1>2
  <2>2. ASSUME NEW i \in 1..Len(s), (i - 1) \in S
        PROVE  i \in S
    <3>1. f[i - 1] <= (i - 1) * b /\ f[i] = f[i - 1] + s[i] /\ s[i] <= b
      BY <1>2, <2>2
    <3>2. i \in 0..Len(s) /\ i \in Int /\ s[i] \in Int /\ f[i - 1] \in Int
      BY <1>1, <1>2
    <3>3. (i - 1) * b = i * b - b
      BY <3>2
    <3>4. f[i] <= i * b
      BY <3>1, <3>2, <3>3
    <3>5. QED
      BY <3>2, <3>4
  <2> HIDE DEF S
  <2>3. QED
    BY <1>1, <2>1, <2>2, BoundedInduction
<1>4. f[Len(s)] <= Len(s) * b
  BY <1>1, <1>3
<1>5. QED
  BY <1>4 DEF SumOf, f

-----------------------------------------------------------------------------
(* Rounding. *)

(* RoundDiv(n, d) is within half of n / d, and shifts with whole multiples. *)
LEMMA RoundDivNear ==
    ASSUME NEW n \in Int, NEW d \in Int, d > 0
    PROVE  /\ RoundDiv(n, d) \in Int
           /\ -d <= 2 * d * RoundDiv(n, d) - 2 * n
           /\ 2 * d * RoundDiv(n, d) - 2 * n <= d
           /\ n >= 0 => RoundDiv(n, d) >= 0
<1> DEFINE m == 2 * n + d
           k == 2 * d
           q == m \div k
<1>1. m \in Int /\ k \in Int /\ k > 0
  OBVIOUS
<1> HIDE DEF m, k
<1>2. q \in Int /\ q * k <= m /\ m < q * k + k /\ (m >= 0 => q >= 0)
  BY <1>1, SMT
<1> HIDE DEF q
<1>3. q * k = 2 * d * q
  BY <1>2 DEF k
<1>4. QED
  BY <1>1, <1>2, <1>3 DEF RoundDiv, m, k, q

LEMMA RoundDivNat ==
    ASSUME NEW n \in Nat, NEW d \in Nat \ {0}
    PROVE  RoundDiv(n, d) \in Nat
<1>1. n \in Int /\ n >= 0 /\ d \in Int /\ d > 0
  OBVIOUS
<1>2. RoundDiv(n, d) \in Int /\ (n >= 0 => RoundDiv(n, d) >= 0)
  BY <1>1, RoundDivNear
<1>3. QED
  BY <1>1, <1>2

LEMMA RoundDivShift ==
    ASSUME NEW n \in Int, NEW d \in Int, d > 0, NEW q \in Int
    PROVE  RoundDiv(n - d * q, d) = RoundDiv(n, d) - q
<1> DEFINE m == 2 * n + d
           k == 2 * d
<1>1. m \in Int /\ k \in Int /\ k > 0
  OBVIOUS
<1>2. 2 * (n - d * q) + d = m - k * q
  BY SMT
<1> HIDE DEF m, k
<1>3. (m - k * q) \div k = (m \div k) - q
  BY <1>1, SMT
<1>4. QED
  BY <1>2, <1>3 DEF RoundDiv, m, k

(* A non-empty sequence has a first maximum. *)
LEMMA FirstMaximum ==
    ASSUME NEW s \in Seq(Int), Len(s) > 0
    PROVE  \E i \in 1..Len(s) :
              \A j \in 1..Len(s) : s[j] <= s[i] /\ (s[j] = s[i] => i <= j)
<1> DEFINE IsMax(i, k) == \A j \in 1..k : s[j] <= s[i] /\ (s[j] = s[i] => i <= j)
           S == {k \in 0..Len(s) : k = 0 \/ \E i \in 1..k : IsMax(i, k)}
<1>1. Len(s) \in Nat /\ \A i \in 1..Len(s) : s[i] \in Int
  OBVIOUS
<1>2. 0 \in S
  BY <1>1
<1>3. ASSUME NEW k \in 1..Len(s), (k - 1) \in S
      PROVE  k \in S
  <2>1. CASE k = 1
    <3>1. IsMax(1, k)
      BY <1>1, <2>1
    <3>2. QED
      BY <1>1, <2>1, <3>1
  <2>2. CASE k # 1
    <3>1. PICK i \in 1..(k - 1) : IsMax(i, k - 1)
      BY <1>1, <1>3, <2>2
    <3>2. CASE s[k] <= s[i]
      <4>1. i \in 1..k /\ IsMax(i, k)
        BY <1>1, <3>1, <3>2
      <4> HIDE DEF IsMax
      <4>2. QED
        BY <4>1
    <3>3. CASE ~(s[k] <= s[i])
      <4>1. IsMax(k, k)
        BY <1>1, <3>1, <3>3
      <4> HIDE DEF IsMax
      <4>2. QED
        BY <4>1
    <3>4. QED
      BY <3>2, <3>3
  <2>3. QED
    BY <2>1, <2>2
<1>4. Len(s) \in S
  <2> HIDE DEF S
  <2>1. \A k \in 1..Len(s) : (k - 1) \in S => k \in S
    BY <1>3
  <2>2. 0..Len(s) \subseteq S
    BY <1>1, <1>2, <2>1, BoundedInduction
  <2>3. QED
    BY <1>1, <2>2
<1>5. QED
  BY <1>4

-----------------------------------------------------------------------------
(* The split.  distribute computes it only for a positive total balance.   *)

(* What the operators of the split return, and where the correction goes. *)
LEMMA SplitTypes ==
    ASSUME NEW stakes \in Seq(Nat), NEW revenue \in Nat, SumOf(stakes) > 0
    PROVE  /\ Len(stakes) \in Nat \ {0}
           /\ SumOf(stakes) * Unit \in Nat \ {0}
           /\ RawShares(stakes, revenue) \in Seq(Nat)
           /\ Len(RawShares(stakes, revenue)) = Len(stakes)
           /\ Rounded(stakes, revenue) \in Seq(Nat)
           /\ Len(Rounded(stakes, revenue)) = Len(stakes)
           /\ Rounded(stakes, revenue) \in Seq(Int)
           /\ SumOf(Rounded(stakes, revenue)) \in Int
           /\ TotalAmount(revenue) \in Nat
           /\ Diff(stakes, revenue) \in Int
           /\ Diff(stakes, revenue) =
                TotalAmount(revenue) - SumOf(Rounded(stakes, revenue))
           /\ MaxIdx(stakes, revenue) \in 1..Len(stakes)
           /\ \A j \in 1..Len(stakes) :
                RawShares(stakes, revenue)[j] <=
                  RawShares(stakes, revenue)[MaxIdx(stakes, revenue)]
<1> DEFINE n == Len(stakes)
           raw == RawShares(stakes, revenue)
           rounded == Rounded(stakes, revenue)
           d == SumOf(stakes) * Unit
<1>1. stakes \in Seq(Int) /\ n \in Nat /\ Unit \in Nat \ {0}
  BY UnitAssumption
<1>2. SumOf(stakes) \in Int
  BY <1>1, SumOfType
<1>3. n # 0
  <2>1. PartialSums(stakes)[0] = 0
    BY <1>1, PartialSumsType
  <2>2. QED
    BY <2>1 DEF SumOf
<1>4. d \in Nat \ {0}
  BY <1>1, <1>2
<1>5. raw \in Seq(Nat) /\ Len(raw) = n
  BY <1>1 DEF RawShares
<1> HIDE DEF d
<1>6. rounded \in Seq(Nat) /\ Len(rounded) = n
  <2>1. \A i \in 1..n : RoundDiv(raw[i], d) \in Nat
    <3>1. ASSUME NEW i \in 1..n
          PROVE  RoundDiv(raw[i], d) \in Nat
      <4>1. raw[i] \in Nat
        BY <1>5
      <4>2. QED
        BY <1>4, <4>1, RoundDivNat
    <3>2. QED
      BY <3>1
  <2>2. rounded = [i \in 1..n |-> RoundDiv(raw[i], d)]
    BY DEF Rounded, d
  <2>3. QED
    BY <1>1, <2>1, <2>2
<1>7. rounded \in Seq(Int) /\ SumOf(rounded) \in Int
  <2>1. rounded \in Seq(Int)
    BY <1>6
  <2>2. QED
    BY <2>1, SumOfType
<1>8. TotalAmount(revenue) \in Nat
  BY UnitAssumption, RoundDivNat DEF TotalAmount
<1>9. Diff(stakes, revenue) = TotalAmount(revenue) - SumOf(rounded)
  BY <1>7, UnitAssumption, RoundDivShift DEF Diff, TotalAmount
<1>10. /\ MaxIdx(stakes, revenue) \in 1..n
       /\ \A j \in 1..n : raw[j] <= raw[MaxIdx(stakes, revenue)]
  <2>1. raw \in Seq(Int) /\ Len(raw) > 0
    BY <1>1, <1>3, <1>5
  <2>2. \E i \in 1..n : \A j \in 1..n : raw[j] <= raw[i] /\ (raw[j] = raw[i] => i <= j)
    BY <1>5, <2>1, FirstMaximum
  <2>3. MaxIdx(stakes, revenue) =
          CHOOSE i \in 1..n : \A j \in 1..n : raw[j] <= raw[i] /\ (raw[j] = raw[i] => i <= j)
    BY DEF MaxIdx
  <2> HIDE DEF raw, n
  <2>4. QED
    BY <2>2, <2>3
<1>11. QED
  BY <1>1, <1>3, <1>4, <1>5, <1>6, <1>7, <1>8, <1>9, <1>10 DEF d

(* The element of Amounts at i: its rounded share, plus the correction at MaxIdx. *)
LEMMA AmountAt ==
    ASSUME NEW stakes \in Seq(Nat), NEW revenue \in Nat, SumOf(stakes) > 0
    PROVE  /\ Amounts(stakes, revenue) \in Seq(Int)
           /\ Len(Amounts(stakes, revenue)) = Len(stakes)
           /\ \A i \in 1..Len(stakes) :
                Amounts(stakes, revenue)[i] =
                  Rounded(stakes, revenue)[i] +
                    (IF i = MaxIdx(stakes, revenue) THEN Diff(stakes, revenue) ELSE 0)
<1> DEFINE r == Rounded(stakes, revenue)
           m == MaxIdx(stakes, revenue)
           d == Diff(stakes, revenue)
           a == Amounts(stakes, revenue)
<1>1. /\ r \in Seq(Nat) /\ Len(r) = Len(stakes) /\ m \in 1..Len(stakes) /\ d \in Int
  BY SplitTypes
<1>2. a = IF d = 0 THEN r ELSE [r EXCEPT ![m] = @ + d]
  BY DEF Amounts
<1> HIDE DEF r, m, d, a
<1>3. CASE d = 0
  BY <1>1, <1>2, <1>3 DEF r, m, d, a
<1>4. CASE d # 0
  <2>1. a = [r EXCEPT ![m] = @ + d]
    BY <1>2, <1>4
  <2>2. a \in Seq(Int) /\ Len(a) = Len(stakes)
    BY <1>1, <2>1
  <2>3. \A i \in 1..Len(stakes) : a[i] = r[i] + (IF i = m THEN d ELSE 0)
    BY <1>1, <2>1
  <2>4. QED
    BY <2>2, <2>3 DEF r, m, d, a
<1>5. QED
  BY <1>3, <1>4

(* For every list of balances and every revenue, the cents paid out are    *)
(* exactly the revenue in cents.                                           *)
THEOREM SplitExact ==
    ASSUME NEW stakes \in Seq(Nat), NEW revenue \in Nat, SumOf(stakes) > 0
    PROVE  SplitIsExact(stakes, revenue)
<1> DEFINE r == Rounded(stakes, revenue)
           m == MaxIdx(stakes, revenue)
           d == Diff(stakes, revenue)
<1>1. /\ r \in Seq(Int) /\ Len(r) = Len(stakes) /\ m \in 1..Len(stakes)
      /\ SumOf(r) \in Int /\ TotalAmount(revenue) \in Nat /\ d \in Int
      /\ d = TotalAmount(revenue) - SumOf(r)
  BY SplitTypes
<1>2. Amounts(stakes, revenue) = IF d = 0 THEN r ELSE [r EXCEPT ![m] = @ + d]
  BY DEF Amounts
<1> HIDE DEF r, m, d
<1>3. d \in Int /\ TotalAmount(revenue) \in Int /\ m \in 1..Len(r)
  BY <1>1
<1>4. SumOf([r EXCEPT ![m] = @ + d]) = SumOf(r) + d
  BY <1>1, <1>3, SumOfUpdate
<1>5. SumOf(Amounts(stakes, revenue)) = SumOf(r) + d
  BY <1>1, <1>2, <1>3, <1>4
<1>6. QED
  BY <1>1, <1>3, <1>5 DEF SplitIsExact

(* All but the absorbing investor are paid within half a cent of their share. *)
THEOREM SplitOthersNear ==
    ASSUME NEW stakes \in Seq(Nat), NEW revenue \in Nat, SumOf(stakes) > 0
    PROVE  OthersWithinHalfCent(stakes, revenue)
<1> DEFINE d == SumOf(stakes) * Unit
           raw == RawShares(stakes, revenue)
           a == Amounts(stakes, revenue)
           m == MaxIdx(stakes, revenue)
<1>1. SUFFICES ASSUME NEW i \in 1..Len(stakes) \ {m}
               PROVE  -d <= 2 * (d * a[i] - raw[i]) /\ 2 * (d * a[i] - raw[i]) <= d
  BY DEF OthersWithinHalfCent
<1>2. d \in Int /\ d > 0 /\ raw[i] \in Int
  <2>1. d \in Nat \ {0} /\ raw \in Seq(Nat) /\ Len(raw) = Len(stakes)
    BY SplitTypes
  <2> HIDE DEF d, raw
  <2>2. QED
    BY <2>1
<1>3. a[i] = Rounded(stakes, revenue)[i] + 0
  BY AmountAt
<1>4. Rounded(stakes, revenue)[i] = RoundDiv(raw[i], d)
  BY DEF Rounded
<1> HIDE DEF d, raw, a, m
<1>5. /\ RoundDiv(raw[i], d) \in Int
      /\ -d <= 2 * d * RoundDiv(raw[i], d) - 2 * raw[i]
      /\ 2 * d * RoundDiv(raw[i], d) - 2 * raw[i] <= d
  BY <1>2, RoundDivNear
<1>6. a[i] = RoundDiv(raw[i], d)
  BY <1>3, <1>4, <1>5
<1>7. 2 * (d * a[i] - raw[i]) = 2 * d * a[i] - 2 * raw[i]
  BY <1>2, <1>5, <1>6
<1>8. QED
  BY <1>5, <1>6, <1>7

(* A positive factor cancels in an inequality. *)
LEMMA Cancel ==
    ASSUME NEW a \in Int, NEW b \in Int, NEW c \in Int, c > 0, c * a <= c * b
    PROVE  a <= b
BY SMT

(* The raw shares add up to the revenue, on their common denominator. *)
LEMMA SumOfRawShares ==
    ASSUME NEW stakes \in Seq(Nat), NEW revenue \in Nat
    PROVE  SumOf(RawShares(stakes, revenue)) = revenue * SumOf(stakes)
<1>1. stakes \in Seq(Int) /\ revenue \in Int
  OBVIOUS
<1>2. RawShares(stakes, revenue) = [i \in 1..Len(stakes) |-> revenue * stakes[i]]
  BY <1>1 DEF RawShares
<1>3. QED
  BY <1>1, <1>2, SumOfScaled

(* The rounded shares miss the revenue by half a cent per investor at most. *)
LEMMA RoundedSumNear ==
    ASSUME NEW stakes \in Seq(Nat), NEW revenue \in Nat, SumOf(stakes) > 0
    PROVE  LET miss == 2 * Unit * SumOf(Rounded(stakes, revenue)) - 2 * revenue
           IN  -(Len(stakes) * Unit) <= miss /\ miss <= Len(stakes) * Unit
<1> DEFINE n == Len(stakes)
           T == SumOf(stakes)
           d == T * Unit
           raw == RawShares(stakes, revenue)
           twice == [i \in 1..Len(raw) |-> 2 * raw[i]]
           r == Rounded(stakes, revenue)
           R == SumOf(r)
<1>1. /\ n \in Nat /\ T \in Int /\ T > 0 /\ Unit \in Int /\ Unit > 0
      /\ raw \in Seq(Int) /\ Len(raw) = n /\ r \in Seq(Int) /\ Len(r) = n /\ R \in Int
  <2>1. n \in Nat \ {0} /\ raw \in Seq(Nat) /\ Len(raw) = n
    BY SplitTypes
  <2>2. r \in Seq(Int) /\ Len(r) = n /\ R \in Int
    BY SplitTypes
  <2>3. stakes \in Seq(Int)
    OBVIOUS
  <2>4. T \in Int
    BY <2>3, SumOfType
  <2> HIDE DEF n, T, raw, r, R
  <2>5. raw \in Seq(Int)
    BY <2>1
  <2>6. QED
    BY <2>1, <2>2, <2>4, <2>5, UnitAssumption DEF T
<1>2. \A i \in 1..n : r[i] = RoundDiv(raw[i], d)
  BY DEF Rounded
<1>3. SumOf(raw) = revenue * T
  BY SumOfRawShares
<1> HIDE DEF n, T, raw, r, R
<1>4. d \in Int /\ d > 0
  BY <1>1
<1> HIDE DEF d
<1>5. twice \in Seq(Int) /\ Len(twice) = n
     /\ \A i \in 1..n : twice[i] = 2 * raw[i] /\ raw[i] \in Int
  BY <1>1
<1>6. SumOf(twice) = 2 * (revenue * T)
  <2>1. 2 \in Int
    OBVIOUS
  <2>2. SumOf(twice) = 2 * SumOf(raw)
    BY <1>1, <2>1, SumOfScaled
  <2>3. QED
    BY <1>3, <2>2
<1> HIDE DEF twice
<1>7. \A i \in 1..n : -d <= (2 * d) * r[i] - twice[i] /\ (2 * d) * r[i] - twice[i] <= d
  BY <1>2, <1>4, <1>5, RoundDivNear
<1>8. 2 * d \in Int
  BY <1>4
<1>9. -(n * d) <= (2 * d) * R - SumOf(twice) /\ (2 * d) * R - SumOf(twice) <= n * d
  BY <1>1, <1>4, <1>5, <1>7, <1>8, SumOfNear DEF R
<1> DEFINE miss == 2 * Unit * R - 2 * revenue
<1>10. (2 * d) * R - SumOf(twice) = T * miss /\ n * d = T * (n * Unit)
  BY <1>1, <1>6 DEF d
<1>11. miss \in Int /\ n * Unit \in Int /\ -(n * Unit) \in Int
  BY <1>1
<1>12. T * (-(n * Unit)) <= T * miss /\ T * miss <= T * (n * Unit)
  <2>1. T * (-(n * Unit)) = -(T * (n * Unit))
    BY <1>1, <1>11
  <2>2. QED
    BY <1>9, <1>10, <2>1
<1> HIDE DEF miss
<1>13. -(n * Unit) <= miss /\ miss <= n * Unit
  BY <1>1, <1>11, <1>12, Cancel
<1>14. QED
  BY <1>13 DEF miss, n, R, r

(* The correction is bounded by half a cent per investor, for every input. *)
THEOREM SplitCorrectionBounded ==
    ASSUME NEW stakes \in Seq(Nat), NEW revenue \in Nat, SumOf(stakes) > 0
    PROVE  CorrectionBounded(stakes, revenue)
<1> DEFINE n == Len(stakes)
           R == SumOf(Rounded(stakes, revenue))
           t == TotalAmount(revenue)
           d == Diff(stakes, revenue)
<1>1. n \in Nat \ {0} /\ R \in Int /\ t \in Nat /\ d \in Int /\ d = t - R
  BY SplitTypes
<1>2. Unit \in Int /\ Unit > 0
  BY UnitAssumption
<1>3. /\ -(n * Unit) <= 2 * Unit * R - 2 * revenue
      /\ 2 * Unit * R - 2 * revenue <= n * Unit
  BY RoundedSumNear
<1>4. -Unit <= 2 * Unit * t - 2 * revenue /\ 2 * Unit * t - 2 * revenue <= Unit
  <2>1. revenue \in Int /\ t = RoundDiv(revenue, Unit)
    BY DEF TotalAmount
  <2> HIDE DEF t
  <2>2. /\ -Unit <= 2 * Unit * RoundDiv(revenue, Unit) - 2 * revenue
        /\ 2 * Unit * RoundDiv(revenue, Unit) - 2 * revenue <= Unit
    BY <1>2, <2>1, RoundDivNear
  <2>3. QED
    BY <2>1, <2>2
<1> HIDE DEF n, R, t, d
<1>5. Unit * (2 * d) = (2 * Unit * t - 2 * revenue) - (2 * Unit * R - 2 * revenue)
  BY <1>1, <1>2
<1>6. n \in Int /\ t \in Int /\ -(n + 1) \in Int /\ 2 * d \in Int
  BY <1>1
<1>7. Unit * (n + 1) = n * Unit + Unit /\ Unit * (-(n + 1)) = -(n * Unit) - Unit
  BY <1>2, <1>6
<1>8. Unit * (-(n + 1)) <= Unit * (2 * d) /\ Unit * (2 * d) <= Unit * (n + 1)
  BY <1>1, <1>2, <1>3, <1>4, <1>5, <1>7
<1>9. -(n + 1) <= 2 * d /\ 2 * d <= n + 1
  BY <1>2, <1>6, <1>8, Cancel
<1>10. QED
  BY <1>9 DEF CorrectionBounded, n, d

(* A revenue of n(n+2)/2 cents or more is split without a negative payout. *)
THEOREM SplitNonNegative ==
    ASSUME NEW stakes \in Seq(Nat), NEW revenue \in Nat, SumOf(stakes) > 0
    PROVE  NonNegativeWhenLarge(stakes, revenue)
<1> DEFINE n == Len(stakes)
           T == SumOf(stakes)
           den == T * Unit
           raw == RawShares(stakes, revenue)
           r == Rounded(stakes, revenue)
           m == MaxIdx(stakes, revenue)
           d == Diff(stakes, revenue)
           a == Amounts(stakes, revenue)
<1>1. SUFFICES ASSUME 2 * revenue >= n * (n + 2) * Unit, NEW i \in 1..n
               PROVE  a[i] >= 0
  BY DEF NonNegativeWhenLarge
<1>2. /\ n \in Nat \ {0} /\ den \in Nat \ {0} /\ raw \in Seq(Nat) /\ Len(raw) = n
      /\ r \in Seq(Nat) /\ Len(r) = n /\ d \in Int /\ m \in 1..n
      /\ \A j \in 1..n : raw[j] <= raw[m]
  BY SplitTypes
<1>3. a[i] = r[i] + (IF i = m THEN d ELSE 0)
  BY AmountAt
<1>4. T \in Int /\ T > 0
  <2>1. stakes \in Seq(Int)
    OBVIOUS
  <2>2. QED
    BY <2>1, SumOfType
<1>5. r[m] = RoundDiv(raw[m], den)
  BY <1>2 DEF Rounded
<1>6. SumOf(raw) = revenue * T
  BY SumOfRawShares
<1>7. -(n + 1) <= 2 * d
  BY SplitCorrectionBounded DEF CorrectionBounded
<1>8. Unit \in Int /\ Unit > 0 /\ revenue \in Int
  BY UnitAssumption
<1>9. den = T * Unit
  OBVIOUS
<1> HIDE DEF n, T, den, raw, r, m, d, a
<1>10. CASE i # m
  BY <1>2, <1>3, <1>10
<1>11. CASE i = m
  <2>1. raw \in Seq(Int) /\ raw[m] \in Int /\ r[m] \in Int /\ n \in Int /\ den \in Int
    BY <1>2
  <2>2. SumOf(raw) <= n * raw[m]
    BY <1>2, <2>1, SumOfAtMost
  <2>3. -den <= 2 * den * r[m] - 2 * raw[m]
    BY <1>2, <1>5, <2>1, RoundDivNear
  <2> DEFINE x == r[m]
             w == raw[m]
  <2>4. x \in Int /\ w \in Int /\ revenue * T <= n * w /\ -den <= 2 * den * x - 2 * w
    BY <1>6, <2>1, <2>2, <2>3
  <2> HIDE DEF x, w
  <2>5. n * (2 * w) <= n * (2 * den * x + den)
    BY <1>2, <2>1, <2>4
  <2>6. 2 * (revenue * T) <= n * (2 * w)
    BY <1>2, <1>4, <1>8, <2>1, <2>4
  <2>7. T * (2 * revenue) <= T * (n * (2 * Unit * x + Unit))
    <3>1. n * (2 * den * x + den) = T * (n * (2 * Unit * x + Unit))
      BY <1>4, <1>8, <1>9, <2>1, <2>4
    <3>2. 2 * (revenue * T) = T * (2 * revenue)
      BY <1>4, <1>8
    <3> DEFINE p == 2 * (revenue * T)
               q == n * (2 * w)
               z == n * (2 * den * x + den)
    <3>3. p \in Int /\ q \in Int /\ z \in Int /\ p <= q /\ q <= z
      BY <1>4, <1>8, <2>1, <2>4, <2>5, <2>6
    <3> HIDE DEF p, q, z
    <3>4. p <= z
      BY <3>3
    <3>5. QED
      BY <3>1, <3>2, <3>4 DEF p, z
  <2>8. 2 * revenue <= n * (2 * Unit * x + Unit)
    <3>1. n * (2 * Unit * x + Unit) \in Int /\ 2 * revenue \in Int
      BY <1>8, <2>1, <2>4
    <3>2. QED
      BY <1>4, <2>7, <3>1, Cancel
  <2>9. n * Unit * (n + 2) <= n * Unit * (2 * x + 1)
    <3>1. n \in Int /\ Unit \in Int /\ x \in Int /\ revenue \in Int
      BY <1>8, <2>1, <2>4
    <3>2. n * (n + 2) * Unit = n * Unit * (n + 2)
      BY <3>1
    <3>3. n * (2 * Unit * x + Unit) = n * Unit * (2 * x + 1)
      BY <3>1
    <3> DEFINE low == n * (n + 2) * Unit
               high == n * (2 * Unit * x + Unit)
    <3>4. low \in Int /\ high \in Int /\ low <= 2 * revenue /\ 2 * revenue <= high
      BY <1>1, <2>8, <3>1
    <3> HIDE DEF low, high
    <3>5. low <= high
      BY <3>1, <3>4
    <3> QED  BY <3>2, <3>3, <3>5 DEF low, high
  <2>10. n + 2 <= 2 * x + 1
    <3>1. n * Unit \in Int /\ n * Unit > 0
      BY <1>2, <1>8, <2>1
    <3>2. n + 2 \in Int /\ 2 * x + 1 \in Int
      BY <2>1, <2>4
    <3>3. QED
      BY <2>9, <3>1, <3>2, Cancel
  <2>11. x + d >= 0
    BY <1>2, <1>7, <2>1, <2>4, <2>10
  <2>12. QED
    BY <1>3, <1>11, <2>11 DEF x
<1>12. QED
  BY <1>10, <1>11

-----------------------------------------------------------------------------
(* Part 2: the engine.  IInv is inductive; one lemma per action shows that *)
(* the action preserves it.                                                *)

(* What a call works on. *)
LEMMA InputTypes ==
    ASSUME TypeOK, NEW c \in Calls
    PROVE  balances[c] \in Seq(Nat) /\ request[c] \in RequestType
<1>1. balances[c] \in BalanceLists \cup {<<>>} /\ request[c] \in Requests
  BY DEF TypeOK
<1>2. <<>> \in Seq(Nat)
  OBVIOUS
<1>3. QED
  BY <1>1, <1>2, BalanceListsAssumption, RequestsAssumption

(* What a call that has computed its shares may record for a line. *)
LEMMA CallAmountType ==
    ASSUME TypeOK, NEW c \in Calls, Gate(request[c]) = 0, SumOf(balances[c]) > 0
    PROVE  \A l \in 1..Len(balances[c]) : CallAmounts(c)[l] \in Int
<1>1. balances[c] \in Seq(Nat) /\ request[c] \in RequestType
  BY InputTypes
<1>2. request[c].revenue \in Nat
  BY <1>1 DEF Gate, RequestType
<1>3. Amounts(balances[c], request[c].revenue) \in Seq(Int)
      /\ Len(Amounts(balances[c], request[c].revenue)) = Len(balances[c])
  BY <1>1, <1>2, AmountAt
<1>4. QED
  BY <1>3 DEF CallAmounts

LEMMA TotalAmountType ==
    ASSUME NEW r \in RequestType
    PROVE  TotalAmount(r.revenue) \in Int
<1>1. r.revenue \in Int /\ Unit \in Int /\ Unit > 0
  BY UnitAssumption DEF RequestType
<1>2. QED
  BY <1>1, RoundDivNear DEF TotalAmount

(* A call that a step leaves alone stays consistent: rows are only added. *)
LEMMA CallFrame ==
    ASSUME NEW d \in Calls, CallConsistent(d),
           pc'[d] = pc[d], status'[d] = status[d], request'[d] = request[d],
           balances'[d] = balances[d], run'[d] = run[d], line'[d] = line[d],
           runs \subseteq runs', payouts \subseteq payouts'
    PROVE  CallConsistent(d)'
<1>1. \A l : RowsAt(d, l) # {} => RowsAt(d, l)' # {}
  BY DEF RowsAt, RowsOf
<1>2. QED
  BY <1>1 DEF CallConsistent

(* A call in flight that throws or crashes keeps what it remembers. *)
LEMMA CallStops ==
    ASSUME NEW d \in Calls, CallConsistent(d),
           pc'[d] \in {"threw", "crashed"}, status'[d] # 200,
           request'[d] = request[d], balances'[d] = balances[d],
           run'[d] = run[d], line'[d] = line[d], runs' = runs, payouts' = payouts
    PROVE  CallConsistent(d)'
<1>1. \A l : RowsAt(d, l)' = RowsAt(d, l)
  BY DEF RowsAt, RowsOf
<1>2. pc'[d] \notin InFlight
  BY DEF InFlight
<1>3. QED
  BY <1>1, <1>2 DEF CallConsistent

(* Rows already written stay consistent: a call that has its run keeps it, *)
(* keeps its balances, and only advances.                                  *)
LEMMA RowsFrame ==
    ASSUME TypeOK, RowsConsistent, request' = request,
           \A d \in Calls : run[d] # NoRun =>
               /\ balances'[d] = balances[d] /\ run'[d] = run[d]
               /\ line'[d] \in Nat /\ line'[d] >= line[d],
           \A d \in Calls : pc[d] \notin {"unsent", "refused", "fetch"}
                              => pc'[d] \notin {"unsent", "refused", "fetch"}
    PROVE  /\ \A r \in runs : RunConsistent(r)'
           /\ \A p \in payouts : PayoutConsistent(p)'
<1>1. ASSUME NEW r \in runs
      PROVE  RunConsistent(r)'
  <2>1. r.id[1] \in Calls
    BY DEF TypeOK
  <2>2. QED
    BY <2>1 DEF RowsConsistent, RunConsistent
<1>2. ASSUME NEW p \in payouts
      PROVE  PayoutConsistent(p)'
  <2>1. p.id[1] \in Calls
    BY DEF TypeOK
  <2>2. line[p.id[1]] \in Nat
    BY <2>1 DEF TypeOK
  <2>3. PayoutConsistent(p)
    BY DEF RowsConsistent
  <2>4. CallAmounts(p.id[1])' = CallAmounts(p.id[1])
    BY <2>1, <2>3 DEF CallAmounts, PayoutConsistent
  <2>5. QED
    BY <2>1, <2>2, <2>3, <2>4 DEF PayoutConsistent
<1>3. QED
  BY <1>1, <1>2

LEMMA InitIInv == Init => IInv
<1> SUFFICES ASSUME Init PROVE IInv
  OBVIOUS
<1>1. TypeOK
  BY MaxRetriesAssumption DEF Init, TypeOK, PCs, NoRun
<1>2. CallsConsistent
  BY DEF Init, CallsConsistent, CallConsistent, NoRun, InFlight
<1>3. RowsConsistent
  BY DEF Init, RowsConsistent
<1>4. RowsUnique
  BY DEF Init, RowsUnique
<1>5. QED
  BY <1>1, <1>2, <1>3, <1>4 DEF IInv

LEMMA TriggerIInv ==
    ASSUME IInv, NEW c \in Calls, Trigger(c)
    PROVE  IInv'
<1> USE DEF IInv
<1>1. TypeOK'
  <2>1. Gate(request[c]) \in {0, 400, 401, 403, 404}
    BY DEF Gate
  <2>2. QED
    BY <2>1 DEF TypeOK, Trigger, PCs
<1>2. CallsConsistent'
  <2>1. Gate(request[c]) # 200
    BY DEF Gate
  <2>2. CallConsistent(c)'
    BY <2>1 DEF CallsConsistent, CallConsistent, Trigger, TypeOK, InFlight
  <2>3. \A d \in Calls \ {c} : CallConsistent(d)'
    BY CallFrame DEF CallsConsistent, Trigger, TypeOK
  <2>4. QED
    BY <2>2, <2>3 DEF CallsConsistent
<1>3. RowsConsistent'
  <2>1. \A d \in Calls : /\ balances'[d] = balances[d] /\ run'[d] = run[d]
                           /\ line'[d] = line[d] /\ line[d] \in Nat
    BY DEF Trigger, TypeOK
  <2>2. \A d \in Calls : pc[d] \notin {"unsent", "refused", "fetch"}
                          => pc'[d] \notin {"unsent", "refused", "fetch"}
    BY DEF Trigger, TypeOK
  <2>3. \A d \in Calls : line'[d] \in Nat /\ line'[d] >= line[d]
    BY <2>1
  <2>4. request' = request
    BY DEF Trigger
  <2>5. /\ \A r \in runs : RunConsistent(r)'
        /\ \A p \in payouts : PayoutConsistent(p)'
    BY <2>1, <2>2, <2>3, <2>4, RowsFrame
  <2>6. QED
    BY <2>5 DEF RowsConsistent, Trigger
<1>4. RowsUnique'
  BY DEF RowsUnique, RunUnique, PayoutUnique, Trigger, TypeOK
<1>5. QED
  BY <1>1, <1>2, <1>3, <1>4

(* A call that throws: its place and its answer change, nothing else. *)
LEMMA GiveUpIInv ==
    ASSUME IInv, NEW c \in Calls, GiveUp(c)
    PROVE  IInv'
<1> USE DEF IInv, GiveUp, Throw
<1>1. TypeOK'
  BY DEF TypeOK, PCs
<1>2. CallsConsistent'
  <2>1. pc'[c] = "threw" /\ status'[c] = 500
    BY DEF TypeOK
  <2>2. CallConsistent(c)
    BY DEF CallsConsistent
  <2>3. CallConsistent(c)'
    BY <2>1, <2>2, CallStops
  <2>4. \A d \in Calls \ {c} : CallConsistent(d)'
    BY CallFrame DEF CallsConsistent, TypeOK
  <2>5. QED
    BY <2>3, <2>4 DEF CallsConsistent
<1>3. RowsConsistent'
  <2>1. \A d \in Calls : /\ balances'[d] = balances[d] /\ run'[d] = run[d]
                           /\ line'[d] = line[d] /\ line[d] \in Nat
    BY DEF TypeOK
  <2>2. \A d \in Calls : pc[d] \notin {"unsent", "refused", "fetch"}
                          => pc'[d] \notin {"unsent", "refused", "fetch"}
    BY DEF TypeOK
  <2>3. \A d \in Calls : line'[d] \in Nat /\ line'[d] >= line[d]
    BY <2>1
  <2>4. request' = request
    BY DEF TypeOK
  <2>5. /\ \A r \in runs : RunConsistent(r)'
        /\ \A p \in payouts : PayoutConsistent(p)'
    BY <2>1, <2>2, <2>3, <2>4, RowsFrame
  <2>6. QED
    BY <2>5 DEF RowsConsistent
<1>4. RowsUnique'
  BY DEF RowsUnique, RunUnique, PayoutUnique, TypeOK, InFlight
<1>5. QED
  BY <1>1, <1>2, <1>3, <1>4

LEMMA LookupFailsIInv ==
    ASSUME IInv, NEW c \in Calls, LookupFails(c)
    PROVE  IInv'
<1> USE DEF IInv, LookupFails, Throw
<1>1. TypeOK'
  BY DEF TypeOK, PCs
<1>2. CallsConsistent'
  <2>1. pc'[c] = "threw" /\ status'[c] = 500
    BY DEF TypeOK
  <2>2. CallConsistent(c)
    BY DEF CallsConsistent
  <2>3. CallConsistent(c)'
    BY <2>1, <2>2, CallStops
  <2>4. \A d \in Calls \ {c} : CallConsistent(d)'
    BY CallFrame DEF CallsConsistent, TypeOK
  <2>5. QED
    BY <2>3, <2>4 DEF CallsConsistent
<1>3. RowsConsistent'
  <2>1. \A d \in Calls : /\ balances'[d] = balances[d] /\ run'[d] = run[d]
                           /\ line'[d] = line[d] /\ line[d] \in Nat
    BY DEF TypeOK
  <2>2. \A d \in Calls : pc[d] \notin {"unsent", "refused", "fetch"}
                          => pc'[d] \notin {"unsent", "refused", "fetch"}
    BY DEF TypeOK
  <2>3. \A d \in Calls : line'[d] \in Nat /\ line'[d] >= line[d]
    BY <2>1
  <2>4. request' = request
    BY DEF TypeOK
  <2>5. /\ \A r \in runs : RunConsistent(r)'
        /\ \A p \in payouts : PayoutConsistent(p)'
    BY <2>1, <2>2, <2>3, <2>4, RowsFrame
  <2>6. QED
    BY <2>5 DEF RowsConsistent
<1>4. RowsUnique'
  BY DEF RowsUnique, RunUnique, PayoutUnique, TypeOK, InFlight
<1>5. QED
  BY <1>1, <1>2, <1>3, <1>4

LEMMA FetchFailsIInv ==
    ASSUME IInv, NEW c \in Calls, FetchFails(c)
    PROVE  IInv'
<1> USE DEF IInv, FetchFails, MayTry
<1>1. TypeOK'
  <2>1. attempt[c] + 1 \in 0..MaxRetries
    BY MaxRetriesAssumption DEF TypeOK
  <2>2. QED
    BY <2>1 DEF TypeOK
<1>2. CallsConsistent'
  BY CallFrame DEF CallsConsistent, TypeOK
<1>3. RowsConsistent'
  <2>1. \A d \in Calls : /\ balances'[d] = balances[d] /\ run'[d] = run[d]
                           /\ line'[d] = line[d] /\ line[d] \in Nat
    BY DEF TypeOK
  <2>2. \A d \in Calls : pc[d] \notin {"unsent", "refused", "fetch"}
                          => pc'[d] \notin {"unsent", "refused", "fetch"}
    BY DEF TypeOK
  <2>3. \A d \in Calls : line'[d] \in Nat /\ line'[d] >= line[d]
    BY <2>1
  <2>4. request' = request
    BY DEF TypeOK
  <2>5. /\ \A r \in runs : RunConsistent(r)'
        /\ \A p \in payouts : PayoutConsistent(p)'
    BY <2>1, <2>2, <2>3, <2>4, RowsFrame
  <2>6. QED
    BY <2>5 DEF RowsConsistent
<1>4. RowsUnique'
  BY DEF RowsUnique, RunUnique, PayoutUnique
<1>5. QED
  BY <1>1, <1>2, <1>3, <1>4

LEMMA FetchBalancesIInv ==
    ASSUME IInv, NEW c \in Calls, FetchBalances(c)
    PROVE  IInv'
<1> USE DEF IInv
<1>1. PICK b \in BalanceLists :
        /\ balances' = [balances EXCEPT ![c] = b]
        /\ IF Len(b) = 0 \/ SumOf(b) <= 0
           THEN Throw(c) /\ UNCHANGED attempt
           ELSE /\ pc' = [pc EXCEPT ![c] = "createRun"]
                /\ attempt' = [attempt EXCEPT ![c] = 0]
                /\ UNCHANGED status
  BY DEF FetchBalances
<1>2. /\ pc[c] = "fetch"
      /\ UNCHANGED <<request, run, line, runs, payouts, lost>>
  BY DEF FetchBalances
<1>3. b \in Seq(Nat) /\ Len(b) \in Nat /\ SumOf(b) \in Int
  <2>1. b \in Seq(Nat)
    BY BalanceListsAssumption
  <2>2. b \in Seq(Int) /\ Len(b) \in Nat
    BY <2>1
  <2>3. QED
    BY <2>1, <2>2, SumOfType
<1>4. pc'[c] \in {"threw", "createRun"}
     /\ \A d \in Calls \ {c} : pc'[d] = pc[d] /\ status'[d] = status[d]
  BY <1>1 DEF TypeOK, Throw
<1>5. TypeOK'
  <2>1. pc' \in [Calls -> PCs] /\ status' \in [Calls -> {0, 200, 400, 401, 403, 404, 500}]
    <3>1. CASE Len(b) = 0 \/ SumOf(b) <= 0
      <4>1. pc' = [pc EXCEPT ![c] = "threw"] /\ status' = [status EXCEPT ![c] = 500]
        BY <1>1, <3>1 DEF Throw
      <4>2. QED
        BY <4>1 DEF TypeOK, PCs
    <3>2. CASE ~(Len(b) = 0 \/ SumOf(b) <= 0)
      BY <1>1, <3>2 DEF TypeOK, PCs
    <3>3. QED
      BY <3>1, <3>2
  <2>2. attempt' \in [Calls -> 0..MaxRetries]
    BY <1>1, MaxRetriesAssumption DEF TypeOK
  <2>3. balances' \in [Calls -> BalanceLists \cup {<<>>}]
    BY <1>1 DEF TypeOK
  <2>4. QED
    BY <1>2, <2>1, <2>2, <2>3 DEF TypeOK
<1>6. CallsConsistent'
  <2>1. CallConsistent(c)'
    <3>1. status'[c] # 200
      BY <1>1, <1>2 DEF CallsConsistent, CallConsistent, TypeOK, Throw
    <3>2. pc'[c] = "createRun" => Len(b) > 0 /\ SumOf(b) > 0
      BY <1>1, <1>3 DEF TypeOK, Throw
    <3>3. balances'[c] = b
      BY <1>1 DEF TypeOK
    <3>4. QED
      BY <1>2, <1>4, <3>1, <3>2, <3>3 DEF CallsConsistent, CallConsistent, InFlight
  <2>2. \A d \in Calls \ {c} : CallConsistent(d)'
    BY <1>1, <1>2, <1>4, CallFrame DEF CallsConsistent, TypeOK
  <2>3. QED
    BY <2>1, <2>2 DEF CallsConsistent
<1>7. RowsConsistent'
  <2>1. run[c] = NoRun
    BY <1>2 DEF CallsConsistent, CallConsistent
  <2>2. /\ \A r \in runs : RunConsistent(r)'
        /\ \A p \in payouts : PayoutConsistent(p)'
    <3>1. request' = request
      BY <1>2
    <3>2. \A d \in Calls : run[d] # NoRun =>
              /\ balances'[d] = balances[d] /\ run'[d] = run[d]
              /\ line'[d] \in Nat /\ line'[d] >= line[d]
      BY <1>1, <1>2, <2>1 DEF TypeOK
    <3>3. \A d \in Calls : pc[d] \notin {"unsent", "refused", "fetch"}
                            => pc'[d] \notin {"unsent", "refused", "fetch"}
      BY <1>4
    <3>4. TypeOK /\ RowsConsistent
      OBVIOUS
    <3>5. QED
      BY <3>1, <3>2, <3>3, <3>4, RowsFrame
  <2>3. QED
    BY <1>2, <2>2 DEF RowsConsistent
<1>8. RowsUnique'
  <2>1. \A p \in payouts : p.id[1] \in Calls
    BY DEF TypeOK
  <2>2. \A d \in Calls : pc[d] = "returned" => pc'[d] = "returned"
    BY <1>2, <1>4
  <2>3. RowsUnique
    OBVIOUS
  <2>4. run' = run /\ line' = line /\ runs' = runs /\ payouts' = payouts /\ lost' = lost
    BY <1>2
  <2>5. QED
    BY <2>1, <2>2, <2>3, <2>4 DEF RowsUnique, RunUnique, PayoutUnique
<1>9. QED
  BY <1>5, <1>6, <1>7, <1>8

LEMMA CreateRunIInv ==
    ASSUME IInv, NEW c \in Calls, CreateRun(c)
    PROVE  IInv'
<1>0. PICK R : R = RunRow(c, attempt[c] + 1)
  OBVIOUS
<1>1. /\ TypeOK /\ CallsConsistent /\ RowsConsistent /\ RowsUnique
      /\ pc[c] = "createRun" /\ attempt[c] < MaxRetries
      /\ runs' = runs \cup {R}
      /\ run' = [run EXCEPT ![c] = attempt[c] + 1]
      /\ line' = [line EXCEPT ![c] = 1]
      /\ attempt' = [attempt EXCEPT ![c] = 0]
      /\ pc' = [pc EXCEPT ![c] = "createPayout"]
      /\ status' = status /\ request' = request /\ balances' = balances /\ payouts' = payouts
      /\ lost' = lost
  BY <1>0 DEF IInv, CreateRun, MayTry
<1>2. /\ run[c] = NoRun /\ Gate(request[c]) = 0 /\ status[c] # 200
      /\ Len(balances[c]) > 0 /\ SumOf(balances[c]) > 0
  BY <1>1 DEF CallsConsistent, CallConsistent, InFlight
<1>3. attempt[c] + 1 \in 1..MaxRetries /\ attempt[c] + 1 # NoRun
  BY <1>1, MaxRetriesAssumption DEF TypeOK, NoRun
<1>4. /\ R.id = <<c, attempt[c] + 1>> /\ R.id[1] = c
      /\ R.total_amount = TotalAmount(request[c].revenue)
      /\ R \in [id : Calls \X (1..MaxRetries), total_amount : Int, status : {"processing"}]
  <2>1. TotalAmount(request[c].revenue) \in Int
    BY <1>1, TotalAmountType, RequestsAssumption DEF TypeOK
  <2>2. QED
    BY <1>0, <1>3, <2>1 DEF RunRow
<1>5. TypeOK'
  <2>1. pc' \in [Calls -> PCs] /\ run' \in [Calls -> {NoRun} \cup 1..MaxRetries]
    BY <1>1, <1>3 DEF TypeOK, PCs
  <2>2. attempt' \in [Calls -> 0..MaxRetries] /\ line' \in [Calls -> Nat]
    BY <1>1, MaxRetriesAssumption DEF TypeOK
  <2>3. runs' \subseteq [id : Calls \X (1..MaxRetries), total_amount : Int, status : {"processing"}]
    BY <1>1, <1>4 DEF TypeOK
  <2>4. QED
    BY <1>1, <2>1, <2>2, <2>3 DEF TypeOK
<1>6. CallsConsistent'
  <2>1. run'[c] = attempt[c] + 1 /\ line'[c] = 1 /\ pc'[c] = "createPayout"
    BY <1>1 DEF TypeOK
  <2>2. \E r \in runs' : r.id = <<c, run'[c]>>
    BY <1>1, <1>4, <2>1
  <2>3. Len(balances[c]) \in Nat
    <3>1. balances[c] \in BalanceLists \cup {<<>>} /\ Len(<<>>) = 0
      BY <1>1 DEF TypeOK
    <3>2. QED
      BY <3>1, BalanceListsAssumption
  <2>4. 1 \in 1..Len(balances[c]) /\ 1..(1 - 1) = {}
    BY <1>2, <2>3
  <2>5. CallConsistent(c)'
    BY <1>1, <1>2, <1>3, <2>1, <2>2, <2>4 DEF CallConsistent, InFlight
  <2>6. \A d \in Calls \ {c} : CallConsistent(d)'
    BY <1>1, CallFrame DEF CallsConsistent, TypeOK
  <2>7. QED
    BY <2>5, <2>6 DEF CallsConsistent
<1>7. RowsConsistent'
  <2>1. \A d \in Calls : run[d] # NoRun =>
            /\ balances'[d] = balances[d] /\ run'[d] = run[d]
            /\ line'[d] \in Nat /\ line'[d] >= line[d]
    BY <1>1, <1>2 DEF TypeOK
  <2>2. \A d \in Calls : pc[d] \notin {"unsent", "refused", "fetch"}
                          => pc'[d] \notin {"unsent", "refused", "fetch"}
    BY <1>1 DEF TypeOK
  <2>3. /\ \A r \in runs : RunConsistent(r)'
        /\ \A p \in payouts : PayoutConsistent(p)'
    BY <1>1, <2>1, <2>2, RowsFrame
  <2>4. RunConsistent(R)'
    BY <1>1, <1>2, <1>4 DEF RunConsistent, TypeOK
  <2>5. QED
    BY <1>1, <2>3, <2>4 DEF RowsConsistent
<1>8. RowsUnique'
  <2>1. \A r \in runs : r.id[1] \in Calls /\ (r.id[1] = c => c \in lost)
    BY <1>1, <1>2 DEF RowsUnique, RunUnique, TypeOK
  <2>2. \A p \in payouts : p.id[1] # c /\ p.id[1] \in Calls
    BY <1>1, <1>2 DEF RowsConsistent, PayoutConsistent, TypeOK
  <2>3. ASSUME NEW r \in runs', r.id[1] \notin lost
        PROVE  RunUnique(r)'
    <3>1. run'[r.id[1]] # NoRun
      BY <1>1, <1>3, <1>4, <2>1, <2>3 DEF RowsUnique, RunUnique, TypeOK
    <3>2. \A q \in runs' : r.id[1] = q.id[1] => r = q
      BY <1>1, <1>4, <2>1, <2>3 DEF RowsUnique, RunUnique
    <3>3. QED
      BY <3>1, <3>2 DEF RunUnique
  <2>4. ASSUME NEW p \in payouts', p.id[1] \notin lost
        PROVE  PayoutUnique(p)'
    BY <1>1, <2>2, <2>4 DEF RowsUnique, PayoutUnique, TypeOK
  <2>5. QED
    BY <1>1, <2>3, <2>4 DEF RowsUnique
<1>9. QED
  BY <1>5, <1>6, <1>7, <1>8 DEF IInv

LEMMA CreateRunFailsIInv ==
    ASSUME IInv, NEW c \in Calls, NEW fault \in Faults, CreateRunFails(c, fault)
    PROVE  IInv'
<1>0. PICK R : R = RunRow(c, attempt[c] + 1)
  OBVIOUS
<1>1. /\ TypeOK /\ CallsConsistent /\ RowsConsistent /\ RowsUnique
      /\ pc[c] = "createRun" /\ attempt[c] < MaxRetries
      /\ runs' = IF fault = "ackLost" THEN runs \cup {R} ELSE runs
      /\ attempt' = [attempt EXCEPT ![c] = @ + 1]
      /\ pc' = pc /\ status' = status /\ request' = request /\ balances' = balances
      /\ run' = run /\ line' = line /\ payouts' = payouts
      /\ lost' = IF fault = "ackLost" THEN lost \cup {c} ELSE lost
  BY <1>0 DEF IInv, CreateRunFails, MayTry
<1>2. Gate(request[c]) = 0
  BY <1>1 DEF CallsConsistent, CallConsistent, InFlight
<1>3. attempt[c] + 1 \in 1..MaxRetries /\ attempt[c] + 1 \in 0..MaxRetries
  BY <1>1, MaxRetriesAssumption DEF TypeOK
<1>4. /\ R.id[1] = c
      /\ R.total_amount = TotalAmount(request[c].revenue)
      /\ R \in [id : Calls \X (1..MaxRetries), total_amount : Int, status : {"processing"}]
  <2>1. TotalAmount(request[c].revenue) \in Int
    BY <1>1, TotalAmountType, RequestsAssumption DEF TypeOK
  <2>2. QED
    BY <1>0, <1>3, <2>1 DEF RunRow
<1>5. TypeOK'
  <2>1. attempt' \in [Calls -> 0..MaxRetries]
    BY <1>1, <1>3 DEF TypeOK
  <2>2. runs' \subseteq [id : Calls \X (1..MaxRetries), total_amount : Int, status : {"processing"}]
    BY <1>1, <1>4 DEF TypeOK
  <2>3. lost' \subseteq Calls
    BY <1>1 DEF TypeOK
  <2>4. QED
    BY <1>1, <2>1, <2>2, <2>3 DEF TypeOK
<1>6. CallsConsistent'
  BY <1>1, CallFrame DEF CallsConsistent, TypeOK
<1>7. RowsConsistent'
  <2>1. \A d \in Calls : run[d] # NoRun =>
            /\ balances'[d] = balances[d] /\ run'[d] = run[d]
            /\ line'[d] \in Nat /\ line'[d] >= line[d]
    BY <1>1 DEF TypeOK
  <2>2. \A d \in Calls : pc[d] \notin {"unsent", "refused", "fetch"}
                          => pc'[d] \notin {"unsent", "refused", "fetch"}
    BY <1>1
  <2>3. /\ \A r \in runs : RunConsistent(r)'
        /\ \A p \in payouts : PayoutConsistent(p)'
    BY <1>1, <2>1, <2>2, RowsFrame
  <2>4. RunConsistent(R)'
    BY <1>1, <1>2, <1>4 DEF RunConsistent
  <2>5. QED
    BY <1>1, <2>3, <2>4 DEF RowsConsistent
<1>8. RowsUnique'
  <2>1. CASE fault = "ackLost"
    BY <1>1, <1>4, <2>1 DEF RowsUnique, RunUnique, PayoutUnique
  <2>2. CASE fault # "ackLost"
    BY <1>1, <2>2 DEF RowsUnique, RunUnique, PayoutUnique
  <2>3. QED
    BY <2>1, <2>2
<1>9. QED
  BY <1>5, <1>6, <1>7, <1>8 DEF IInv

(* The row of an attempt to persist the current line of call c. *)
LEMMA PayoutRowFacts ==
    ASSUME TypeOK, NEW c \in Calls, CallConsistent(c), pc[c] = "createPayout",
           NEW k \in 1..MaxRetries
    PROVE  LET P == PayoutRow(c, line[c], k)
           IN  /\ run[c] # NoRun /\ line[c] \in 1..Len(balances[c]) /\ Len(balances[c]) \in Nat
               /\ P.id[1] = c /\ P.investor = line[c]
               /\ P.distribution_run_id = <<c, run[c]>>
               /\ P.amount = CallAmounts(c)[line[c]]
               /\ P \in [id : Calls \X Nat \X (1..MaxRetries),
                         distribution_run_id : Calls \X (1..MaxRetries),
                         investor : Nat, amount : Int, status : {"pending"}]
<1>1. /\ run[c] # NoRun /\ Gate(request[c]) = 0 /\ SumOf(balances[c]) > 0
      /\ line[c] \in 1..Len(balances[c])
  BY DEF CallConsistent, InFlight
<1>2. CallAmounts(c)[line[c]] \in Int
  BY <1>1, CallAmountType
<1>3. run[c] \in 1..MaxRetries /\ line[c] \in Nat
  BY <1>1 DEF TypeOK
<1>4. Len(balances[c]) \in Nat
  <2>1. balances[c] \in BalanceLists \cup {<<>>} /\ Len(<<>>) = 0
    BY DEF TypeOK
  <2>2. QED
    BY <2>1, BalanceListsAssumption
<1>5. QED
  BY <1>1, <1>2, <1>3, <1>4 DEF PayoutRow

LEMMA CreatePayoutIInv ==
    ASSUME IInv, NEW c \in Calls, CreatePayout(c)
    PROVE  IInv'
<1>0. PICK P, L : P = PayoutRow(c, line[c], attempt[c] + 1) /\ L = line[c]
  OBVIOUS
<1>1. /\ TypeOK /\ CallsConsistent /\ RowsConsistent /\ RowsUnique
      /\ pc[c] = "createPayout" /\ attempt[c] < MaxRetries
      /\ payouts' = payouts \cup {P}
      /\ attempt' = [attempt EXCEPT ![c] = 0]
      /\ request' = request /\ balances' = balances /\ run' = run /\ runs' = runs
      /\ lost' = lost
  BY <1>0 DEF IInv, CreatePayout, MayTry
<1>2. /\ L < Len(balances[c]) =>
            /\ line' = [line EXCEPT ![c] = @ + 1]
            /\ pc' = pc /\ status' = status
      /\ ~(L < Len(balances[c])) =>
            /\ pc' = [pc EXCEPT ![c] = "returned"]
            /\ status' = [status EXCEPT ![c] = 200]
            /\ line' = line
  BY <1>0 DEF CreatePayout
<1>3. attempt[c] + 1 \in 1..MaxRetries
  BY <1>1, MaxRetriesAssumption DEF TypeOK
<1>4. /\ run[c] # NoRun /\ L \in 1..Len(balances[c]) /\ Len(balances[c]) \in Nat
      /\ P.id[1] = c /\ P.investor = L /\ L = line[c] /\ L \in Nat
      /\ P.distribution_run_id = <<c, run[c]>>
      /\ P.amount = CallAmounts(c)[L]
      /\ P \in [id : Calls \X Nat \X (1..MaxRetries),
                distribution_run_id : Calls \X (1..MaxRetries),
                investor : Nat, amount : Int, status : {"pending"}]
  <2>1. CallConsistent(c)
    BY <1>1 DEF CallsConsistent
  <2>2. LET Q == PayoutRow(c, line[c], attempt[c] + 1)
        IN  /\ run[c] # NoRun /\ line[c] \in 1..Len(balances[c]) /\ Len(balances[c]) \in Nat
            /\ Q.id[1] = c /\ Q.investor = line[c]
            /\ Q.distribution_run_id = <<c, run[c]>>
            /\ Q.amount = CallAmounts(c)[line[c]]
            /\ Q \in [id : Calls \X Nat \X (1..MaxRetries),
                      distribution_run_id : Calls \X (1..MaxRetries),
                      investor : Nat, amount : Int, status : {"pending"}]
    BY <1>1, <1>3, <2>1, PayoutRowFacts
  <2>3. QED
    BY <1>0, <2>2
<1>5. /\ \A d \in Calls \ {c} : pc'[d] = pc[d] /\ status'[d] = status[d] /\ line'[d] = line[d]
      /\ \A d \in Calls : line'[d] \in Nat /\ line'[d] >= line[d]
      /\ pc' \in [Calls -> PCs] /\ line' \in [Calls -> Nat]
      /\ status' \in [Calls -> {0, 200, 400, 401, 403, 404, 500}]
      /\ L < Len(balances[c]) => line'[c] = L + 1 /\ pc'[c] = pc[c] /\ status'[c] = status[c]
      /\ ~(L < Len(balances[c])) => line'[c] = L /\ pc'[c] = "returned"
  <2>1. CASE L < Len(balances[c])
    <3>1. line' = [line EXCEPT ![c] = @ + 1] /\ pc' = pc /\ status' = status
      BY <1>2, <2>1
    <3>2. line \in [Calls -> Nat] /\ pc \in [Calls -> PCs]
          /\ status \in [Calls -> {0, 200, 400, 401, 403, 404, 500}]
      BY <1>1 DEF TypeOK
    <3>3. QED
      BY <1>4, <2>1, <3>1, <3>2
  <2>2. CASE ~(L < Len(balances[c]))
    <3>1. /\ line' = line /\ pc' = [pc EXCEPT ![c] = "returned"]
          /\ status' = [status EXCEPT ![c] = 200]
      BY <1>2, <2>2
    <3>2. line \in [Calls -> Nat] /\ pc \in [Calls -> PCs] /\ "returned" \in PCs
          /\ status \in [Calls -> {0, 200, 400, 401, 403, 404, 500}]
      BY <1>1 DEF TypeOK, PCs
    <3>3. QED
      BY <1>4, <2>2, <3>1, <3>2
  <2>3. QED
    BY <2>1, <2>2
<1>6. TypeOK'
  <2>1. attempt' \in [Calls -> 0..MaxRetries]
    BY <1>1, MaxRetriesAssumption DEF TypeOK
  <2>2. payouts' \subseteq [id : Calls \X Nat \X (1..MaxRetries),
                          distribution_run_id : Calls \X (1..MaxRetries),
                          investor : Nat, amount : Int, status : {"pending"}]
    BY <1>1, <1>4 DEF TypeOK
  <2>3. QED
    BY <1>1, <1>5, <2>1, <2>2 DEF TypeOK
<1>7. CallsConsistent'
  <2>1. /\ RowsAt(c, L)' # {}
        /\ \A l : RowsAt(c, l) # {} => RowsAt(c, l)' # {}
    <3>1. P \in payouts' /\ payouts \subseteq payouts' /\ run'[c] = run[c]
      BY <1>1
    <3>2. P \in RowsAt(c, L)'
      BY <1>4, <3>1 DEF RowsAt, RowsOf
    <3>3. QED
      BY <3>1, <3>2 DEF RowsAt, RowsOf
  <2>2. CallConsistent(c)
    BY <1>1 DEF CallsConsistent
  <2>3. \A l \in 1..(L - 1) : RowsAt(c, l) # {}
    BY <1>4, <2>2 DEF CallConsistent
  <2>4. /\ pc'[c] \in {"createPayout", "returned"}
        /\ line'[c] \in 1..Len(balances[c])
        /\ \A l \in 1..(line'[c] - 1) : RowsAt(c, l)' # {}
        /\ status'[c] = 200 => pc'[c] = "returned"
        /\ pc'[c] = "returned" => line'[c] = Len(balances[c]) /\ RowsAt(c, L)' # {} /\ line'[c] = L
    <3>1. CASE L < Len(balances[c])
      <4>1. line'[c] = L + 1 /\ pc'[c] = "createPayout" /\ status'[c] # 200
        BY <1>1, <1>5, <2>2, <3>1 DEF CallConsistent
      <4>2. \A l \in 1..L : l \in 1..(L - 1) \/ l = L
        BY <1>4
      <4>3. (L + 1) - 1 = L /\ L + 1 \in 1..Len(balances[c])
        BY <1>4, <3>1
      <4>4. \A l \in 1..L : RowsAt(c, l)' # {}
        BY <2>1, <2>3, <4>2
      <4>5. QED
        BY <4>1, <4>3, <4>4
    <3>2. CASE ~(L < Len(balances[c]))
      <4>1. line'[c] = L /\ pc'[c] = "returned" /\ L = Len(balances[c])
        BY <1>4, <1>5, <3>2
      <4>2. \A l \in 1..(line'[c] - 1) : RowsAt(c, l)' # {}
        BY <2>1, <2>3, <4>1
      <4>3. QED
        BY <1>4, <2>1, <4>1, <4>2
    <3>3. QED
      BY <3>1, <3>2
  <2>5. line'[c] = L => RowsAt(c, line[c])' = RowsAt(c, L)'
    BY DEF RowsAt
  <2>6. /\ run'[c] # NoRun /\ Gate(request'[c]) = 0 /\ SumOf(balances'[c]) > 0
        /\ \E r \in runs' : r.id = <<c, run'[c]>>
    BY <1>1, <1>4, <2>2 DEF CallConsistent
  <2>7. CallConsistent(c)'
    BY <1>1, <2>4, <2>5, <2>6 DEF CallConsistent
  <2>8. \A d \in Calls \ {c} : CallConsistent(d)'
    BY <1>1, <1>5, CallFrame DEF CallsConsistent
  <2>9. QED
    BY <2>7, <2>8 DEF CallsConsistent
<1>8. RowsConsistent'
  <2>1. \A d \in Calls : run[d] # NoRun =>
            /\ balances'[d] = balances[d] /\ run'[d] = run[d]
            /\ line'[d] \in Nat /\ line'[d] >= line[d]
    BY <1>1, <1>5 DEF TypeOK
  <2>2. \A d \in Calls : pc[d] \notin {"unsent", "refused", "fetch"}
                          => pc'[d] \notin {"unsent", "refused", "fetch"}
    BY <1>1, <1>2 DEF TypeOK
  <2>3. /\ \A r \in runs : RunConsistent(r)'
        /\ \A p \in payouts : PayoutConsistent(p)'
    BY <1>1, <2>1, <2>2, RowsFrame
  <2>4. CallAmounts(c)' = CallAmounts(c)
    BY <1>1 DEF CallAmounts
  <2>5. L \in 1..line'[c]
    BY <1>4, <1>5
  <2>6. PayoutConsistent(P)'
    BY <1>1, <1>4, <2>4, <2>5 DEF PayoutConsistent
  <2>7. QED
    BY <1>1, <2>3, <2>6 DEF RowsConsistent
<1>9. RowsUnique'
  <2>1. \A p \in payouts : p.id[1] = c /\ c \notin lost => p.investor < line[c]
    BY <1>1 DEF RowsUnique, PayoutUnique
  <2>2. \A p \in payouts' : p \in payouts \/ p = P
    BY <1>1
  <2>3. \A p \in payouts : p.id[1] \in Calls /\ p.investor \in Nat
    BY <1>1 DEF TypeOK
  <2>4. ASSUME NEW p \in payouts', p.id[1] \notin lost
        PROVE  PayoutUnique(p)'
    <3>1. p.investor < line'[p.id[1]] \/ pc'[p.id[1]] = "returned"
      <4>1. CASE p = P
        BY <1>4, <1>5, <4>1
      <4>2. CASE p \in payouts /\ p.id[1] = c
        BY <1>4, <1>5, <2>1, <2>3, <2>4, <4>2
      <4>3. CASE p \in payouts /\ p.id[1] # c
        BY <1>1, <1>5, <2>3, <2>4, <4>3 DEF RowsUnique, PayoutUnique
      <4>4. QED
        BY <2>2, <4>1, <4>2, <4>3
    <3>2. \A q \in payouts' : p.id[1] = q.id[1] /\ p.investor = q.investor => p = q
      BY <1>1, <1>4, <2>1, <2>2, <2>4 DEF RowsUnique, PayoutUnique
    <3>3. QED
      BY <3>1, <3>2 DEF PayoutUnique
  <2>5. ASSUME NEW r \in runs', r.id[1] \notin lost
        PROVE  RunUnique(r)'
    BY <1>1, <2>5 DEF RowsUnique, RunUnique
  <2>6. QED
    BY <1>1, <2>4, <2>5 DEF RowsUnique
<1>10. QED
  BY <1>6, <1>7, <1>8, <1>9 DEF IInv

LEMMA CreatePayoutFailsIInv ==
    ASSUME IInv, NEW c \in Calls, NEW fault \in Faults, CreatePayoutFails(c, fault)
    PROVE  IInv'
<1>0. PICK P, L : P = PayoutRow(c, line[c], attempt[c] + 1) /\ L = line[c]
  OBVIOUS
<1>1. /\ TypeOK /\ CallsConsistent /\ RowsConsistent /\ RowsUnique
      /\ pc[c] = "createPayout" /\ attempt[c] < MaxRetries
      /\ payouts' = IF fault = "ackLost" THEN payouts \cup {P} ELSE payouts
      /\ attempt' = [attempt EXCEPT ![c] = @ + 1]
      /\ pc' = pc /\ status' = status /\ request' = request /\ balances' = balances
      /\ run' = run /\ line' = line /\ runs' = runs
      /\ lost' = IF fault = "ackLost" THEN lost \cup {c} ELSE lost
  BY <1>0 DEF IInv, CreatePayoutFails, MayTry
<1>2. attempt[c] + 1 \in 1..MaxRetries /\ attempt[c] + 1 \in 0..MaxRetries
  BY <1>1, MaxRetriesAssumption DEF TypeOK
<1>3. /\ run[c] # NoRun /\ L \in 1..Len(balances[c]) /\ Len(balances[c]) \in Nat
      /\ P.id[1] = c /\ P.investor = L /\ L = line[c]
      /\ P.distribution_run_id = <<c, run[c]>>
      /\ P.amount = CallAmounts(c)[L]
      /\ P \in [id : Calls \X Nat \X (1..MaxRetries),
                distribution_run_id : Calls \X (1..MaxRetries),
                investor : Nat, amount : Int, status : {"pending"}]
  <2>1. CallConsistent(c)
    BY <1>1 DEF CallsConsistent
  <2>2. LET Q == PayoutRow(c, line[c], attempt[c] + 1)
        IN  /\ run[c] # NoRun /\ line[c] \in 1..Len(balances[c]) /\ Len(balances[c]) \in Nat
            /\ Q.id[1] = c /\ Q.investor = line[c]
            /\ Q.distribution_run_id = <<c, run[c]>>
            /\ Q.amount = CallAmounts(c)[line[c]]
            /\ Q \in [id : Calls \X Nat \X (1..MaxRetries),
                      distribution_run_id : Calls \X (1..MaxRetries),
                      investor : Nat, amount : Int, status : {"pending"}]
    BY <1>1, <1>2, <2>1, PayoutRowFacts
  <2>3. QED
    BY <1>0, <2>2
<1>4. TypeOK'
  <2>1. attempt' \in [Calls -> 0..MaxRetries]
    BY <1>1, <1>2 DEF TypeOK
  <2>2. payouts' \subseteq [id : Calls \X Nat \X (1..MaxRetries),
                          distribution_run_id : Calls \X (1..MaxRetries),
                          investor : Nat, amount : Int, status : {"pending"}]
    BY <1>1, <1>3 DEF TypeOK
  <2>3. lost' \subseteq Calls
    BY <1>1 DEF TypeOK
  <2>4. QED
    BY <1>1, <2>1, <2>2, <2>3 DEF TypeOK
<1>5. CallsConsistent'
  <2>1. payouts \subseteq payouts'
    BY <1>1
  <2>2. QED
    BY <1>1, <2>1, CallFrame DEF CallsConsistent
<1>6. RowsConsistent'
  <2>1. \A d \in Calls : run[d] # NoRun =>
            /\ balances'[d] = balances[d] /\ run'[d] = run[d]
            /\ line'[d] \in Nat /\ line'[d] >= line[d]
    BY <1>1 DEF TypeOK
  <2>2. \A d \in Calls : pc[d] \notin {"unsent", "refused", "fetch"}
                          => pc'[d] \notin {"unsent", "refused", "fetch"}
    BY <1>1
  <2>3. /\ \A r \in runs : RunConsistent(r)'
        /\ \A p \in payouts : PayoutConsistent(p)'
    BY <1>1, <2>1, <2>2, RowsFrame
  <2>4. CallAmounts(c)' = CallAmounts(c)
    BY <1>1 DEF CallAmounts
  <2>5. L \in 1..line[c]
    BY <1>3
  <2>6. PayoutConsistent(P)'
    BY <1>1, <1>3, <2>4, <2>5 DEF PayoutConsistent
  <2>7. QED
    BY <1>1, <2>3, <2>6 DEF RowsConsistent
<1>7. RowsUnique'
  <2>1. CASE fault = "ackLost"
    BY <1>1, <1>3, <2>1 DEF RowsUnique, RunUnique, PayoutUnique
  <2>2. CASE fault # "ackLost"
    BY <1>1, <2>2 DEF RowsUnique, RunUnique, PayoutUnique
  <2>3. QED
    BY <2>1, <2>2
<1>8. QED
  BY <1>4, <1>5, <1>6, <1>7 DEF IInv

LEMMA CrashIInv ==
    ASSUME IInv, Crash
    PROVE  IInv'
<1>1. /\ TypeOK /\ CallsConsistent /\ RowsConsistent /\ RowsUnique
      /\ pc' = [c \in Calls |-> IF pc[c] \in InFlight THEN "crashed" ELSE pc[c]]
      /\ status' = status /\ request' = request /\ balances' = balances /\ attempt' = attempt
      /\ run' = run /\ line' = line /\ runs' = runs /\ payouts' = payouts /\ lost' = lost
  BY DEF IInv, Crash
<1>2. TypeOK'
  <2>1. pc' \in [Calls -> PCs]
    BY <1>1 DEF TypeOK, PCs
  <2>2. QED
    BY <1>1, <2>1 DEF TypeOK
<1>3. CallsConsistent'
  <2>1. ASSUME NEW d \in Calls, pc[d] \in InFlight
        PROVE  CallConsistent(d)'
    <3>1. pc'[d] = "crashed" /\ CallConsistent(d)
      BY <1>1, <2>1 DEF CallsConsistent
    <3>2. status'[d] # 200
      BY <1>1, <2>1, <3>1 DEF CallConsistent, InFlight
    <3>3. QED
      BY <1>1, <3>1, <3>2, CallStops
  <2>2. ASSUME NEW d \in Calls, pc[d] \notin InFlight
        PROVE  CallConsistent(d)'
    <3>1. pc'[d] = pc[d] /\ CallConsistent(d)
      BY <1>1, <2>2 DEF CallsConsistent
    <3>2. QED
      BY <1>1, <3>1, CallFrame
  <2>3. QED
    BY <2>1, <2>2 DEF CallsConsistent
<1>4. RowsConsistent'
  <2>1. \A d \in Calls : run[d] # NoRun =>
            /\ balances'[d] = balances[d] /\ run'[d] = run[d]
            /\ line'[d] \in Nat /\ line'[d] >= line[d]
    BY <1>1 DEF TypeOK
  <2>2. \A d \in Calls : pc[d] \notin {"unsent", "refused", "fetch"}
                          => pc'[d] \notin {"unsent", "refused", "fetch"}
    BY <1>1 DEF InFlight
  <2>3. /\ \A r \in runs : RunConsistent(r)'
        /\ \A p \in payouts : PayoutConsistent(p)'
    BY <1>1, <2>1, <2>2, RowsFrame
  <2>4. QED
    BY <1>1, <2>3 DEF RowsConsistent
<1>5. RowsUnique'
  <2>1. \A p \in payouts : p.id[1] \in Calls
    BY <1>1 DEF TypeOK
  <2>2. \A d \in Calls : pc[d] = "returned" => pc'[d] = "returned"
    BY <1>1 DEF InFlight
  <2>3. QED
    BY <1>1, <2>1, <2>2 DEF RowsUnique, RunUnique, PayoutUnique
<1>6. QED
  BY <1>2, <1>3, <1>4, <1>5 DEF IInv

(* The invariant is inductive. *)
LEMMA NextIInv == IInv /\ [Next]_vars => IInv'
<1> SUFFICES ASSUME IInv, [Next]_vars
             PROVE  IInv'
  OBVIOUS
<1>1. CASE UNCHANGED vars
  <2>1. /\ pc' = pc /\ status' = status /\ request' = request /\ balances' = balances
        /\ attempt' = attempt /\ run' = run /\ line' = line /\ runs' = runs /\ payouts' = payouts
        /\ lost' = lost
    BY <1>1 DEF vars
  <2>2. TypeOK'
    BY <2>1 DEF IInv, TypeOK
  <2>3. CallsConsistent'
    BY <2>1, CallFrame DEF IInv, CallsConsistent
  <2>4. RowsConsistent'
    BY <2>1 DEF IInv, RowsConsistent, RunConsistent, PayoutConsistent, CallAmounts
  <2>5. RowsUnique'
    BY <2>1 DEF IInv, RowsUnique, RunUnique, PayoutUnique
  <2>6. QED
    BY <2>2, <2>3, <2>4, <2>5 DEF IInv
<1>2. ASSUME NEW c \in Calls, Trigger(c)
      PROVE  IInv'
  BY <1>2, TriggerIInv
<1>3. ASSUME NEW c \in Calls, Step(c)
      PROVE  IInv'
  <2>1. CASE GiveUp(c)
    BY <2>1, GiveUpIInv
  <2>2. CASE FetchFails(c)
    BY <2>2, FetchFailsIInv
  <2>3. CASE FetchBalances(c)
    BY <2>3, FetchBalancesIInv
  <2>4. CASE CreateRun(c)
    BY <2>4, CreateRunIInv
  <2>5. CASE \E fault \in Faults : CreateRunFails(c, fault)
    BY <2>5, CreateRunFailsIInv
  <2>6. CASE CreatePayout(c)
    BY <2>6, CreatePayoutIInv
  <2>7. CASE \E fault \in Faults : CreatePayoutFails(c, fault)
    BY <2>7, CreatePayoutFailsIInv
  <2>8. QED
    BY <1>3, <2>1, <2>2, <2>3, <2>4, <2>5, <2>6, <2>7 DEF Step
<1>4. ASSUME NEW c \in Calls, LookupFails(c)
      PROVE  IInv'
  BY <1>4, LookupFailsIInv
<1>5. CASE Crash
  BY <1>5, CrashIInv
<1>6. QED
  BY <1>1, <1>2, <1>3, <1>4, <1>5 DEF Next

THEOREM Invariance == Spec => []IInv
<1>1. QED
  BY InitIInv, NextIInv, PTL DEF Spec

-----------------------------------------------------------------------------
(* The safety properties. *)

(* Every variable stays within its type. *)
THEOREM TypeCorrect == Spec => []TypeOK
<1>1. IInv => TypeOK
  BY DEF IInv
<1>2. QED
  BY <1>1, Invariance, PTL

(* The lines before the current one are recorded with their amounts, none  *)
(* after it, wherever a call is interrupted.                               *)
THEOREM PrefixCorrect == Spec => []PayoutsFormPrefix
<1>1. IInv => PayoutsFormPrefix
  <2> SUFFICES ASSUME IInv, NEW c \in Calls
               PROVE  /\ \A l \in 1..(line[c] - 1) : RowsAt(c, l) # {}
                      /\ \A p \in RowsOf(c) : /\ p.investor \in 1..line[c]
                                              /\ p.amount = CallAmounts(c)[p.investor]
    BY DEF PayoutsFormPrefix
  <2>1. \A l \in 1..(line[c] - 1) : RowsAt(c, l) # {}
    <3>1. CallConsistent(c)
      BY DEF IInv, CallsConsistent
    <3>2. CASE run[c] = NoRun
      BY <3>1, <3>2 DEF CallConsistent
    <3>3. CASE run[c] # NoRun
      BY <3>1, <3>3 DEF CallConsistent
    <3>4. QED
      BY <3>2, <3>3
  <2>2. ASSUME NEW p \in RowsOf(c)
        PROVE  p.investor \in 1..line[c] /\ p.amount = CallAmounts(c)[p.investor]
    <3>1. p \in payouts /\ p.distribution_run_id = <<c, run[c]>>
      BY DEF RowsOf
    <3>2. PayoutConsistent(p)
      BY <3>1 DEF IInv, RowsConsistent
    <3>3. p.id[1] = c
      BY <3>1, <3>2 DEF PayoutConsistent
    <3>4. QED
      BY <3>2, <3>3 DEF PayoutConsistent
  <2>3. QED
    BY <2>1, <2>2
<1>2. QED
  BY <1>1, Invariance, PTL

(* A call answered 200 has recorded a payout for every investor. *)
THEOREM CompleteCorrect == Spec => []AnsweredRunIsComplete
<1>1. IInv => AnsweredRunIsComplete
  <2> SUFFICES ASSUME IInv, NEW c \in Calls, status[c] = 200, NEW l \in 1..Len(balances[c])
               PROVE  RowsAt(c, l) # {}
    BY DEF AnsweredRunIsComplete
  <2>1. CallConsistent(c)
    BY DEF IInv, CallsConsistent
  <2>2. /\ line[c] = Len(balances[c]) /\ RowsAt(c, line[c]) # {}
        /\ \A k \in 1..(line[c] - 1) : RowsAt(c, k) # {} /\ line[c] \in 1..Len(balances[c])
    BY <2>1 DEF CallConsistent
  <2>3. line[c] \in Nat
    BY DEF IInv, TypeOK
  <2>4. l \in 1..(line[c] - 1) \/ l = line[c]
    BY <2>2, <2>3
  <2>5. QED
    BY <2>2, <2>4
<1>2. QED
  BY <1>1, Invariance, PTL

(* Every payout hangs on a run row that its own call created. *)
THEOREM ReferencesCorrect == Spec => []PayoutsHaveTheirRun
<1>1. IInv => PayoutsHaveTheirRun
  <2> SUFFICES ASSUME IInv, NEW p \in payouts
               PROVE  \E r \in runs :
                        /\ r.id = p.distribution_run_id
                        /\ r.id[1] = p.id[1]
                        /\ r.total_amount = TotalAmount(request[p.id[1]].revenue)
    BY DEF PayoutsHaveTheirRun
  <2>1. p.id[1] \in Calls
    BY DEF IInv, TypeOK
  <2>2. run[p.id[1]] # NoRun /\ p.distribution_run_id = <<p.id[1], run[p.id[1]]>>
    BY DEF IInv, RowsConsistent, PayoutConsistent
  <2>3. PICK r \in runs : r.id = <<p.id[1], run[p.id[1]]>>
    BY <2>1, <2>2 DEF IInv, CallsConsistent, CallConsistent
  <2>4. RunConsistent(r) /\ r.id[1] = p.id[1]
    BY <2>3 DEF IInv, RowsConsistent
  <2>5. QED
    BY <2>2, <2>3, <2>4 DEF RunConsistent
<1>2. QED
  BY <1>1, Invariance, PTL

(* A call that lost no answer has recorded nothing twice. *)
THEOREM UniquenessCorrect == Spec => []NoDuplicates
<1>1. IInv => NoDuplicates
  <2> SUFFICES ASSUME IInv, NEW c \in Calls \ lost
               PROVE  /\ \A p, q \in RowsOf(c) : p.investor = q.investor => p = q
                      /\ \A r, s \in runs : r.id[1] = c /\ s.id[1] = c => r = s
    BY DEF NoDuplicates
  <2>1. \A p \in RowsOf(c) : p \in payouts /\ p.id[1] = c
    BY DEF IInv, RowsConsistent, PayoutConsistent, RowsOf
  <2>2. QED
    BY <2>1 DEF IInv, RowsUnique, RunUnique, PayoutUnique
<1>2. QED
  BY <1>1, Invariance, PTL

(* Money is recorded only for a request the handler must let through. *)
THEOREM AuthorisationCorrect == Spec => []OnlyAuthorisedCallsRecord
<1>1. IInv => OnlyAuthorisedCallsRecord
  <2> SUFFICES ASSUME IInv, NEW r \in runs
               PROVE  LET q == request[r.id[1]]
                      IN  /\ q.authenticated /\ q.revenue > 0
                          /\ q.role = "admin" \/ (q.role = "startup" /\ q.exists /\ q.owner)
    BY DEF OnlyAuthorisedCallsRecord
  <2>1. Gate(request[r.id[1]]) = 0
    BY DEF IInv, RowsConsistent, RunConsistent
  <2>2. request[r.id[1]] \in RequestType
    BY RequestsAssumption DEF IInv, TypeOK
  <2>3. QED
    BY <2>1, <2>2 DEF Gate, RequestType
<1>2. QED
  BY <1>1, Invariance, PTL

(* The fold over a one-element set of rows is that row's amount. *)
LEMMA AmountSumOfOne ==
    ASSUME NEW p, p.amount \in Int
    PROVE  AmountSum({p}) = p.amount
<1> DEFINE Body(f, s) == IF s = {} THEN 0
                         ELSE LET x == CHOOSE x \in s : TRUE IN x.amount + f[s \ {x}]
           IsFold(f) == f = [s \in SUBSET {p} |-> Body(f, s)]
           g == [s \in SUBSET {p} |-> IF s = {} THEN 0 ELSE p.amount]
           h == CHOOSE f : IsFold(f)
<1>1. AmountSum({p}) = h[{p}]
  BY DEF AmountSum, MapThenSumSet, MapThenFoldSet
<1>2. (CHOOSE x \in {p} : TRUE) = p /\ {p} \ {p} = {}
  OBVIOUS
<1>3. IsFold(g)
  <2>1. \A s \in SUBSET {p} : s = {} \/ s = {p}
    OBVIOUS
  <2>2. \A s \in SUBSET {p} : Body(g, s) = g[s]
    BY <1>2, <2>1
  <2>3. QED
    BY <2>2
<1>4. IsFold(h)
  <2> HIDE DEF IsFold, g
  <2>1. QED
    BY <1>3
<1>5. h[{}] = 0 /\ h[{p}] = p.amount + h[{}]
  <2> HIDE DEF h
  <2>1. QED
    BY <1>2, <1>4
<1>6. QED
  BY <1>1, <1>5

(* For a call that lost no answer and was answered 200, the recorded rows  *)
(* add up to its revenue in cents, for any number of investors: one row    *)
(* each (NoDuplicates, AnsweredRunIsComplete), with the amount computed    *)
(* for it, and the amounts are exact (SplitExact).                         *)
THEOREM RecordedSumCorrect == Spec => []RecordedSumIsRevenue
<1>1. IInv /\ PayoutsFormPrefix /\ AnsweredRunIsComplete /\ NoDuplicates
        => RecordedSumIsRevenue
  <2> SUFFICES ASSUME IInv, PayoutsFormPrefix, AnsweredRunIsComplete, NoDuplicates,
                      NEW c \in Calls \ lost, status[c] = 200
               PROVE  RecordedSum(c) = TotalAmount(request[c].revenue)
    BY DEF RecordedSumIsRevenue
  <2> DEFINE b == balances[c]
             rev == request[c].revenue
             n == Len(b)
             amounts == Amounts(b, rev)
  <2>1. b \in Seq(Nat) /\ rev \in Nat /\ SumOf(b) > 0
    <3>1. run[c] # NoRun /\ Gate(request[c]) = 0 /\ SumOf(b) > 0
      BY DEF IInv, CallsConsistent, CallConsistent
    <3>2. TypeOK
      BY DEF IInv
    <3>3. b \in Seq(Nat) /\ request[c] \in RequestType
      BY <3>2, InputTypes
    <3>4. rev \in Nat
      BY <3>1, <3>3 DEF Gate, RequestType
    <3>5. QED
      BY <3>1, <3>3, <3>4
  <2>2. amounts \in Seq(Int) /\ Len(amounts) = n
    BY <2>1, AmountAt
  <2>3. ASSUME NEW l \in 1..n
        PROVE  AmountSum(RowsAt(c, l)) = amounts[l]
    <3>1. PICK p : p \in RowsAt(c, l)
      BY DEF AnsweredRunIsComplete
    <3>2. p \in RowsOf(c) /\ p.investor = l
      BY <3>1 DEF RowsAt
    <3>3. p.amount = amounts[l]
      BY <3>2 DEF PayoutsFormPrefix, CallAmounts
    <3>4. RowsAt(c, l) = {p}
      BY <3>1, <3>2 DEF NoDuplicates, RowsAt
    <3>5. p.amount \in Int
      BY <2>2, <3>3
    <3>6. AmountSum({p}) = p.amount
      BY <3>5, AmountSumOfOne
    <3>7. QED
      BY <3>3, <3>4, <3>6
  <2>4. [l \in 1..n |-> AmountSum(RowsAt(c, l))] = amounts
    <3>1. amounts = [l \in 1..n |-> amounts[l]]
      BY <2>2
    <3>2. QED
      BY <2>3, <3>1
  <2>5. SumOf(amounts) = TotalAmount(rev)
    BY <2>1, SplitExact DEF SplitIsExact
  <2>6. QED
    BY <2>4, <2>5 DEF RecordedSum
<1>2. QED
  BY <1>1, Invariance, PrefixCorrect, CompleteCorrect, UniquenessCorrect, PTL

-----------------------------------------------------------------------------
(* Part 3: the refinement.  The engine's initial states are initial states *)
(* of the ledger, and, where IInv holds, every step of the engine is a     *)
(* step of the ledger or leaves the ledger as it is.                       *)

(* What is due stays due while a call keeps its run and its balances, ...  *)
LEMMA DuesFrame ==
    ASSUME request' = request,
           \A d \in Calls : run'[d] = run[d],
           \A d \in Calls : run[d] # NoRun => balances'[d] = balances[d]
    PROVE  LedgerDues' = LedgerDues
<1>1. ASSUME NEW d \in Calls, run[d] # NoRun
      PROVE  CallAmounts(d)' = CallAmounts(d)
  BY <1>1 DEF CallAmounts
<1>2. QED
  BY <1>1 DEF LedgerDues

LEMMA TotalsFrame ==
    ASSUME request' = request
    PROVE  LedgerTotals' = LedgerTotals
BY DEF LedgerTotals

LEMMA EntriesFrame ==
    ASSUME payouts' = payouts
    PROVE  LedgerEntries' = LedgerEntries
BY DEF LedgerEntries

(* ... and a step that moves no call leaves the states alone. *)
LEMMA StatesFrame ==
    ASSUME pc' = pc
    PROVE  LedgerStates' = LedgerStates
BY DEF LedgerStates, LedgerState

(* What a call with a run owes: its amounts, which add up to its total.    *)
LEMMA DueOfCall ==
    ASSUME TypeOK, NEW c \in Calls, Gate(request[c]) = 0, SumOf(balances[c]) > 0
    PROVE  /\ CallAmounts(c) \in Seq(Int)
           /\ Len(CallAmounts(c)) = Len(balances[c])
           /\ SumOf(CallAmounts(c)) = LedgerTotals[c]
<1>1. balances[c] \in Seq(Nat) /\ request[c] \in RequestType
  BY InputTypes
<1>2. request[c].revenue \in Nat
  BY <1>1 DEF Gate, RequestType
<1>3. SumOf(CallAmounts(c)) = TotalAmount(request[c].revenue)
  BY <1>1, <1>2, SplitExact DEF SplitIsExact, CallAmounts
<1>4. QED
  BY <1>1, <1>2, <1>3, AmountAt DEF CallAmounts, LedgerTotals

(* The lines entered in the ledger are the investors of the call's rows.   *)
LEMMA EnteredLines ==
    ASSUME NEW c
    PROVE  Ledger!Entered(c) = {p.investor : p \in {q \in payouts : q.id[1] = c}}
<1>1. ASSUME NEW p
      PROVE  LedgerEntry(p).call = p.id[1] /\ LedgerEntry(p).line = p.investor
  BY DEF LedgerEntry
<1>2. ASSUME NEW l
      PROVE  l \in Ledger!Entered(c) <=> \E p \in payouts : p.id[1] = c /\ p.investor = l
  BY <1>1 DEF Ledger!Entered, LedgerEntries
<1>3. QED
  BY <1>2 DEF Ledger!Entered

(* A call that persists a line has entered those before it, none after it, *)
(* and this one only if it lost an answer.                                 *)
LEMMA EnteredSoFar ==
    ASSUME IInv, NEW c \in Calls, pc[c] = "createPayout"
    PROVE  /\ 1..(line[c] - 1) \subseteq Ledger!Entered(c)
           /\ Ledger!Entered(c) \subseteq 1..line[c]
           /\ line[c] \in Ledger!Entered(c) => c \in lost
<1>1. CallConsistent(c) /\ line[c] \in Nat
  BY DEF IInv, CallsConsistent, TypeOK
<1>2. ASSUME NEW l \in 1..(line[c] - 1)
      PROVE  l \in Ledger!Entered(c)
  <2>1. PICK p \in payouts : p.distribution_run_id = <<c, run[c]>> /\ p.investor = l
    BY <1>1 DEF CallConsistent, RowsAt, RowsOf
  <2>2. PayoutConsistent(p)
    BY DEF IInv, RowsConsistent
  <2>3. p.id[1] = c
    BY <2>1, <2>2 DEF PayoutConsistent
  <2>4. QED
    BY <2>1, <2>3, EnteredLines
<1>3. ASSUME NEW p \in payouts, p.id[1] = c
      PROVE  /\ p.investor \in 1..line[c]
             /\ p.investor = line[c] => c \in lost
  <2>1. PayoutConsistent(p)
    BY DEF IInv, RowsConsistent
  <2>2. p.investor \in 1..line[c]
    BY <1>3, <2>1 DEF PayoutConsistent
  <2>3. c \in lost \/ p.investor < line[c]
    BY <1>3 DEF IInv, RowsUnique, PayoutUnique
  <2>4. QED
    BY <1>1, <2>2, <2>3
<1>4. QED
  BY <1>2, <1>3, EnteredLines

(* Recording a payout row enters its line. *)
LEMMA RecordingEnters ==
    ASSUME IInv, NEW c \in Calls, pc[c] = "createPayout", MayTry(c),
           payouts' = payouts \cup {PayoutRow(c, line[c], attempt[c] + 1)},
           request' = request, balances' = balances, run' = run,
           lost' \in {lost, lost \cup {c}},
           \/ LedgerStates' = LedgerStates
           \/ /\ line[c] = Len(balances[c])
              /\ LedgerStates' = [LedgerStates EXCEPT ![c] = "sealed"]
    PROVE  Ledger!Next
<1> DEFINE k == attempt[c] + 1
           l == line[c]
           entry == [call |-> c, line |-> l, amount |-> LedgerDues[c][l], copy |-> k]
<1>1. CallConsistent(c) /\ TypeOK
  BY DEF IInv, CallsConsistent
<1>2. k \in 1..MaxRetries
  BY <1>1, MaxRetriesAssumption DEF TypeOK, MayTry
<1>3. /\ run[c] # NoRun /\ Gate(request[c]) = 0 /\ SumOf(balances[c]) > 0
      /\ l \in 1..Len(balances[c])
  BY <1>1 DEF CallConsistent, InFlight
<1>4. LedgerDues[c] = CallAmounts(c) /\ Len(LedgerDues[c]) = Len(balances[c])
  BY <1>1, <1>3, DueOfCall DEF LedgerDues
<1>5. LedgerEntry(PayoutRow(c, l, k)) = entry
  BY <1>4 DEF LedgerEntry, PayoutRow
<1>6. LedgerEntries' = LedgerEntries \cup {entry}
  <2>1. LedgerEntries' = LedgerEntries \cup {LedgerEntry(PayoutRow(c, l, k))}
    BY DEF LedgerEntries, LedgerEntry
  <2>2. QED
    BY <1>5, <2>1
<1>7. LedgerDues' = LedgerDues /\ LedgerTotals' = LedgerTotals
  BY DuesFrame, TotalsFrame
<1>8. LedgerStates[c] = "open"
  BY DEF LedgerStates, LedgerState
<1>9. Ledger!Enter(c, l, k)
  BY <1>4, <1>6, <1>7, EnteredSoFar DEF Ledger!Enter
<1>10. QED
  BY <1>2, <1>3, <1>4, <1>8, <1>9 DEF Ledger!Next

(* The initial states of the engine are initial states of the ledger. *)
LEMMA LedgerInit == Init => Ledger!Init
<1> SUFFICES ASSUME Init PROVE Ledger!Init
  OBVIOUS
<1>1. LedgerStates = [c \in Calls |-> "idle"]
  BY DEF Init, LedgerStates, LedgerState
<1>2. LedgerTotals \in [Calls -> Int]
  <2>1. \A c \in Calls : request[c] \in RequestType
    BY RequestsAssumption DEF Init
  <2>2. QED
    BY <2>1, TotalAmountType DEF LedgerTotals
<1>3. LedgerDues = [c \in Calls |-> <<>>]
  BY DEF Init, LedgerDues
<1>4. LedgerEntries = {} /\ lost = {}
  BY DEF Init, LedgerEntries
<1>5. QED
  BY <1>1, <1>2, <1>3, <1>4 DEF Ledger!Init

(* A call that ends without an answer, or is refused, is abandoned. *)
LEMMA EndingAbandons ==
    ASSUME NEW c \in Calls, pc \in [Calls -> PCs],
           pc[c] \in {"unsent", "fetch", "createRun", "createPayout"},
           pc' = [pc EXCEPT ![c] = "threw"] \/ pc' = [pc EXCEPT ![c] = "refused"],
           request' = request, balances' = balances \/ run[c] = NoRun, run' = run,
           \A d \in Calls \ {c} : balances'[d] = balances[d],
           payouts' = payouts, lost' = lost
    PROVE  Ledger!Next
<1>1. LedgerStates' = [d \in Calls |-> IF d \in {c} THEN "closed" ELSE LedgerStates[d]]
  BY DEF LedgerStates, LedgerState
<1>2. LedgerDues' = LedgerDues /\ LedgerTotals' = LedgerTotals /\ LedgerEntries' = LedgerEntries
  BY DuesFrame, TotalsFrame, EntriesFrame
<1>3. LedgerStates[c] \in {"idle", "open"}
  BY DEF LedgerStates, LedgerState
<1>4. Ledger!Abandon({c})
  BY <1>1, <1>2, <1>3 DEF Ledger!Abandon
<1>5. QED
  BY <1>4 DEF Ledger!Next

(* Every step is a step of the ledger, or leaves it as it is. *)
LEMMA LedgerStep == IInv /\ [Next]_vars => [Ledger!Next]_Ledger!vars
<1> SUFFICES ASSUME IInv, [Next]_vars PROVE [Ledger!Next]_Ledger!vars
  OBVIOUS
<1>0. TypeOK /\ CallsConsistent /\ pc \in [Calls -> PCs]
  BY DEF IInv, TypeOK
<1>1. CASE UNCHANGED vars
  <2>1. LedgerDues' = LedgerDues /\ LedgerTotals' = LedgerTotals
        /\ LedgerEntries' = LedgerEntries /\ LedgerStates' = LedgerStates
    BY <1>1, DuesFrame, TotalsFrame, EntriesFrame, StatesFrame DEF vars
  <2>2. QED
    BY <1>1, <2>1 DEF vars, Ledger!vars
<1>2. ASSUME NEW c \in Calls, Trigger(c)
      PROVE  [Ledger!Next]_Ledger!vars
  <2>1. CASE Gate(request[c]) = 0
    <3>1. LedgerStates' = LedgerStates
      BY <1>0, <1>2, <2>1 DEF Trigger, LedgerStates, LedgerState
    <3>2. LedgerDues' = LedgerDues /\ LedgerTotals' = LedgerTotals /\ LedgerEntries' = LedgerEntries
      BY <1>2, DuesFrame, TotalsFrame, EntriesFrame DEF Trigger
    <3>3. QED
      BY <1>2, <3>1, <3>2 DEF Trigger, Ledger!vars
  <2>2. CASE Gate(request[c]) # 0
    <3>1. pc' = [pc EXCEPT ![c] = "refused"]
      BY <1>2, <2>2 DEF Trigger
    <3>2. QED
      BY <1>0, <1>2, <3>1, EndingAbandons DEF Trigger
  <2>3. QED
    BY <2>1, <2>2
<1>3. ASSUME NEW c \in Calls, LookupFails(c)
      PROVE  Ledger!Next
  BY <1>0, <1>3, EndingAbandons DEF LookupFails, Throw
<1>4. ASSUME NEW c \in Calls, GiveUp(c)
      PROVE  Ledger!Next
  BY <1>0, <1>4, EndingAbandons DEF GiveUp, Throw, InFlight
<1>5. ASSUME NEW c \in Calls, FetchFails(c)
      PROVE  UNCHANGED Ledger!vars
  BY <1>5, DuesFrame, TotalsFrame, EntriesFrame, StatesFrame DEF FetchFails, Ledger!vars
<1>6. ASSUME NEW c \in Calls, FetchBalances(c)
      PROVE  [Ledger!Next]_Ledger!vars
  <2>0. PICK b \in BalanceLists :
            /\ balances' = [balances EXCEPT ![c] = b]
            /\ IF Len(b) = 0 \/ SumOf(b) <= 0
               THEN Throw(c) /\ UNCHANGED attempt
               ELSE /\ pc' = [pc EXCEPT ![c] = "createRun"]
                    /\ attempt' = [attempt EXCEPT ![c] = 0]
                    /\ UNCHANGED status
    BY <1>6 DEF FetchBalances
  <2>1. run[c] = NoRun
    BY <1>0, <1>6 DEF FetchBalances, CallsConsistent, CallConsistent
  <2>2. \A d \in Calls \ {c} : balances'[d] = balances[d]
    BY <1>0, <2>0 DEF TypeOK
  <2>3. CASE Len(b) = 0 \/ SumOf(b) <= 0
    BY <1>0, <1>6, <2>0, <2>1, <2>2, <2>3, EndingAbandons DEF FetchBalances, Throw
  <2>4. CASE ~(Len(b) = 0 \/ SumOf(b) <= 0)
    <3>1. LedgerStates' = LedgerStates
      BY <1>0, <1>6, <2>0, <2>4 DEF FetchBalances, LedgerStates, LedgerState
    <3>2. \A d \in Calls : run[d] # NoRun => balances'[d] = balances[d]
      BY <2>1, <2>2
    <3>3. LedgerDues' = LedgerDues /\ LedgerTotals' = LedgerTotals /\ LedgerEntries' = LedgerEntries
      BY <1>6, <3>2, DuesFrame, TotalsFrame, EntriesFrame DEF FetchBalances
    <3>4. QED
      BY <1>6, <3>1, <3>3 DEF FetchBalances, Ledger!vars
  <2>5. QED
    BY <2>3, <2>4
<1>7. ASSUME NEW c \in Calls, CreateRun(c)
      PROVE  Ledger!Next
  <2>1. CallConsistent(c) /\ attempt[c] \in Nat
    BY <1>0, MaxRetriesAssumption DEF CallsConsistent, TypeOK
  <2>2. Gate(request[c]) = 0 /\ SumOf(balances[c]) > 0 /\ Len(balances[c]) > 0
    BY <1>7, <2>1 DEF CreateRun, CallConsistent, InFlight
  <2>3. run'[c] # NoRun /\ \A d \in Calls \ {c} : run'[d] = run[d]
    BY <1>0, <1>7, <2>1 DEF CreateRun, NoRun, TypeOK
  <2>4. \A d \in Calls : CallAmounts(d)' = CallAmounts(d)
    BY <1>7 DEF CreateRun, CallAmounts
  <2>5. LedgerDues'[c] = CallAmounts(c)
    BY <2>3, <2>4 DEF LedgerDues
  <2>6. LedgerDues' = [LedgerDues EXCEPT ![c] = LedgerDues'[c]]
    BY <2>3, <2>4 DEF LedgerDues
  <2>7. LedgerDues'[c] \in Seq(Int) \ {<<>>} /\ SumOf(LedgerDues'[c]) = LedgerTotals[c]
    BY <1>0, <2>2, <2>5, DueOfCall
  <2>8. LedgerStates[c] = "idle" /\ LedgerStates' = [LedgerStates EXCEPT ![c] = "open"]
    BY <1>0, <1>7 DEF CreateRun, LedgerStates, LedgerState
  <2>9. LedgerTotals' = LedgerTotals /\ LedgerEntries' = LedgerEntries
    BY <1>7, TotalsFrame, EntriesFrame DEF CreateRun
  <2>10. Ledger!Open(c)
    BY <1>7, <2>6, <2>7, <2>8, <2>9 DEF CreateRun, Ledger!Open, Ledger!SumOf, Ledger!PartialSums, SumOf, PartialSums
  <2>11. QED
    BY <2>10 DEF Ledger!Next
<1>8. ASSUME NEW c \in Calls, NEW fault \in Faults, CreateRunFails(c, fault)
      PROVE  [Ledger!Next]_Ledger!vars
  <2>1. LedgerDues' = LedgerDues /\ LedgerTotals' = LedgerTotals
        /\ LedgerEntries' = LedgerEntries /\ LedgerStates' = LedgerStates
    BY <1>8, DuesFrame, TotalsFrame, EntriesFrame, StatesFrame DEF CreateRunFails
  <2>2. CASE fault = "ackLost"
    <3>1. LedgerStates[c] = "idle"
      BY <1>8 DEF CreateRunFails, LedgerStates, LedgerState
    <3>2. Ledger!LoseAnswer(c)
      BY <1>8, <2>1, <2>2, <3>1 DEF CreateRunFails, Ledger!LoseAnswer
    <3>3. QED
      BY <3>2 DEF Ledger!Next
  <2>3. CASE fault # "ackLost"
    BY <1>8, <2>1, <2>3 DEF CreateRunFails, Ledger!vars
  <2>4. QED
    BY <2>2, <2>3
<1>9. ASSUME NEW c \in Calls, CreatePayout(c)
      PROVE  Ledger!Next
  <2>1. CASE line[c] < Len(balances[c])
    <3>1. pc' = pc
      BY <1>9, <2>1 DEF CreatePayout
    <3>2. QED
      BY <1>9, <3>1, StatesFrame, RecordingEnters DEF CreatePayout
  <2>2. CASE ~(line[c] < Len(balances[c]))
    <3>1. line[c] = Len(balances[c])
      BY <1>0, <1>9, <2>2, InputTypes DEF CreatePayout, CallsConsistent, CallConsistent
    <3>2. LedgerStates' = [LedgerStates EXCEPT ![c] = "sealed"]
      BY <1>0, <1>9, <2>2 DEF CreatePayout, LedgerStates, LedgerState
    <3>3. QED
      BY <1>9, <3>1, <3>2, RecordingEnters DEF CreatePayout
  <2>3. QED
    BY <2>1, <2>2
<1>10. ASSUME NEW c \in Calls, NEW fault \in Faults, CreatePayoutFails(c, fault)
       PROVE  [Ledger!Next]_Ledger!vars
  <2>1. CASE fault = "ackLost"
    BY <1>10, <2>1, StatesFrame, RecordingEnters DEF CreatePayoutFails
  <2>2. CASE fault # "ackLost"
    BY <1>10, <2>2, DuesFrame, TotalsFrame, EntriesFrame, StatesFrame DEF CreatePayoutFails, Ledger!vars
  <2>3. QED
    BY <2>1, <2>2
<1>11. CASE Crash
  <2> DEFINE C == {c \in Calls : pc[c] \in InFlight}
  <2>1. LedgerStates' = [c \in Calls |-> IF c \in C THEN "closed" ELSE LedgerStates[c]]
    BY <1>11 DEF Crash, LedgerStates, LedgerState
  <2>2. \A c \in C : LedgerStates[c] \in {"idle", "open"}
    BY DEF LedgerStates, LedgerState, InFlight
  <2>3. LedgerDues' = LedgerDues /\ LedgerTotals' = LedgerTotals /\ LedgerEntries' = LedgerEntries
    BY <1>11, DuesFrame, TotalsFrame, EntriesFrame DEF Crash
  <2>4. Ledger!Abandon(C)
    BY <1>11, <2>1, <2>2, <2>3 DEF Crash, Ledger!Abandon
  <2>5. QED
    BY <2>4 DEF Ledger!Next
<1>12. QED
  BY <1>1, <1>2, <1>3, <1>4, <1>5, <1>6, <1>7, <1>8, <1>9, <1>10, <1>11 DEF Next, Step

-----------------------------------------------------------------------------
(* The engine implements the payout ledger: whatever is refused, retried,  *)
(* unacknowledged or interrupted, each call's shares add up to its revenue *)
(* and are entered in order, all of them before it is answered 200, and    *)
(* none twice unless one of the call's own answers was lost.               *)
THEOREM LedgerImplemented == Spec => ImplementsLedger
<1>1. QED
  BY LedgerInit, LedgerStep, Invariance, PTL DEF Spec, ImplementsLedger, Ledger!Spec
===============================================================================

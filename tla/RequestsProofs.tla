---------------------------- MODULE RequestsProofs ----------------------------
(***************************************************************************)
(* Proofs about what answers a single request, for every value of the      *)
(* constants: walks through a listing (Paging), the front ends of a webhook *)
(* (WebhookReceiver) and the guards of a token (TokenChecks), in the three *)
(* calculations of MCCalculations; the deliveries of Webhooks; and the     *)
(* requests with an Idempotency-Key of Idempotency.                        *)
(*                                                                         *)
(* The last two are instantiated here with variables of their own.  What   *)
(* they assume of their constants is the hypothesis of each theorem about  *)
(* them: WebhooksAssumption and IdempotencyAssumption.                     *)
(***************************************************************************)
EXTENDS MCCalculations, DeliveryPromises, RequestPromises, FiniteSetTheorems,
        WellFoundedInduction, TLAPS

CONSTANTS Subscribed, Receivers, Keys, MayExpire

VARIABLES rows, emission, targets, wire, answers, inFlight, records, stored

Hook == INSTANCE Webhooks
Idem == INSTANCE Idempotency

-----------------------------------------------------------------------------
(* Ranks.                                                                  *)

(* A set of numbers that is not empty has a least one.                     *)
LEMMA LeastNumber ==
    ASSUME NEW T \in SUBSET Nat, T # {}
    PROVE  \E n \in T : \A m \in T : n <= m
<1> DEFINE R == OpToRel(<, Nat)
<1>1. IsWellFoundedOn(R, Nat)
  BY NatLessThanWellFounded
<1>2. \A x, y \in Nat : y < x => <<y, x>> \in R
  BY DEF OpToRel
<1> HIDE DEF R
<1>3. PICK x \in T : \A y \in T : ~(<<y, x>> \in R)
  BY <1>1, WFMin
<1>4. \A y \in T : ~(y < x)
  BY <1>2, <1>3
<1> QED  BY <1>4

(* What holds of the first number of an interval, and of each number if of *)
(* the one before it, holds of the interval. (The library's induction      *)
(* takes a predicate; a set stands for it here.)                           *)
LEMMA IntervalInduction ==
    ASSUME NEW a \in Nat, NEW b \in Nat, NEW S, a <= b => a \in S,
           \A k \in (a + 1)..b : (k - 1) \in S => k \in S
    PROVE  \A k \in a..b : k \in S
<1> DEFINE T == (a..b) \ S
<1>1. SUFFICES ASSUME T # {} PROVE FALSE
  OBVIOUS
<1>2. T \in SUBSET Nat
  OBVIOUS
<1>3. PICK n \in T : \A m \in T : n <= m
  BY <1>1, <1>2, LeastNumber
<1> QED  BY <1>3

UpTo(K, i) == {j \in K : j <= i}
RankIn(K, i) == Cardinality(UpTo(K, i))

(* The rank of a place in a set of places: how many of the set are at or   *)
(* before it.                                                              *)
LEMMA RankType ==
    ASSUME NEW n \in Nat, NEW K \in SUBSET (1..n)
    PROVE  /\ IsFiniteSet(K) /\ Cardinality(K) \in Nat
           /\ \A i : IsFiniteSet(UpTo(K, i)) /\ RankIn(K, i) \in Nat
           /\ RankIn(K, 0) = 0
           /\ RankIn(K, n) = Cardinality(K)
<1>1. IsFiniteSet(K)
  <2>1. IsFiniteSet(1..n)
    BY FS_Interval
  <2> QED  BY <2>1, FS_Subset
<1>2. ASSUME NEW i PROVE IsFiniteSet(UpTo(K, i)) /\ RankIn(K, i) \in Nat
  <2>1. UpTo(K, i) \in SUBSET K
    BY DEF UpTo
  <2>2. IsFiniteSet(UpTo(K, i))
    BY <1>1, <2>1, FS_Subset
  <2> QED  BY <2>2, FS_CardinalityType DEF RankIn
<1>3. UpTo(K, 0) = {} /\ UpTo(K, n) = K
  <2>1. \A i \in K : ~(i <= 0)
    OBVIOUS
  <2>2. \A i \in K : i <= n
    OBVIOUS
  <2> QED  BY <2>1, <2>2, Zenon DEF UpTo
<1> QED  BY <1>1, <1>2, <1>3, FS_CardinalityType, FS_EmptySet DEF RankIn

(* Going on by one place adds one to the rank when the place is in the     *)
(* set.                                                                    *)
LEMMA RankStep ==
    ASSUME NEW n \in Nat, NEW K \in SUBSET (1..n), NEW i \in Nat
    PROVE  RankIn(K, i + 1) = RankIn(K, i) + (IF i + 1 \in K THEN 1 ELSE 0)
<1>1. IsFiniteSet(UpTo(K, i)) /\ RankIn(K, i) \in Nat
  BY RankType
<1> \A j \in K : j <= i + 1 <=> (j <= i \/ j = i + 1)
  OBVIOUS
<1> ~(i + 1 <= i)
  OBVIOUS
<1>2. CASE i + 1 \in K
  <2>1. UpTo(K, i + 1) = UpTo(K, i) \cup {i + 1}
    BY <1>2 DEF UpTo
  <2>2. i + 1 \notin UpTo(K, i)
    BY DEF UpTo
  <2> QED  BY <1>1, <1>2, <2>1, <2>2, FS_AddElement DEF RankIn
<1>3. CASE i + 1 \notin K
  <2>1. UpTo(K, i + 1) = UpTo(K, i)
    BY <1>3 DEF UpTo
  <2> QED  BY <1>1, <1>3, <2>1 DEF RankIn
<1> QED  BY <1>2, <1>3

(* A rank grows with the place and with the set.                           *)
LEMMA RankMonotone ==
    ASSUME NEW n \in Nat, NEW K \in SUBSET (1..n), NEW L \in SUBSET K,
           NEW i \in Nat, NEW j \in Nat, i <= j
    PROVE  RankIn(L, i) <= RankIn(K, j)
<1>1. IsFiniteSet(UpTo(K, j))
  BY RankType
<1>2. \A m \in L : m \in K /\ (m <= i => m <= j)
  OBVIOUS
<1>3. UpTo(L, i) \in SUBSET UpTo(K, j)
  BY <1>2 DEF UpTo
<1> QED  BY <1>1, <1>3, FS_Subset DEF RankIn

(* A member of the set ranks above every place before it.                  *)
LEMMA RankStrict ==
    ASSUME NEW n \in Nat, NEW K \in SUBSET (1..n),
           NEW i \in Nat, NEW j \in K, i < j
    PROVE  RankIn(K, i) < RankIn(K, j)
<1> j \in Int
  OBVIOUS
<1>1. PICK m \in Nat : j = m + 1 /\ i <= m
  <2> WITNESS j - 1 \in Nat
  <2> QED  OBVIOUS
<1>2. RankIn(K, j) = RankIn(K, m) + 1
  BY <1>1, RankStep
<1>3. RankIn(K, i) <= RankIn(K, m)
  BY <1>1, RankMonotone
<1>4. RankIn(K, i) \in Nat /\ RankIn(K, m) \in Nat
  BY RankType
<1> QED  BY <1>2, <1>3, <1>4

(* The members of the set are numbered 1, 2, ... by their ranks, without a *)
(* gap: every rank up to the number of members has its member. This is     *)
(* what lets LIMIT and OFFSET be read as an interval of ranks.             *)
LEMMA RankOfMembers ==
    ASSUME NEW n \in Nat, NEW K \in SUBSET (1..n)
    PROVE  /\ \A i \in K : RankIn(K, i) \in 1..Cardinality(K)
           /\ \A i, j \in K : RankIn(K, i) = RankIn(K, j) => i = j
           /\ \A k \in 1..Cardinality(K) : \E i \in K : RankIn(K, i) = k
<1>1. \A i \in K : i \in Nat /\ 0 < i /\ i <= n
  OBVIOUS
<1>2. ASSUME NEW i \in K PROVE RankIn(K, i) \in 1..Cardinality(K)
  <2>1. RankIn(K, 0) < RankIn(K, i)
    BY <1>1, RankStrict
  <2>2. RankIn(K, i) <= RankIn(K, n)
    BY <1>1, RankMonotone
  <2> QED  BY <2>1, <2>2, RankType
<1>3. ASSUME NEW i \in K, NEW j \in K, RankIn(K, i) = RankIn(K, j) PROVE i = j
  <2>1. i \in Nat /\ j \in Nat /\ RankIn(K, i) \in Nat /\ RankIn(K, j) \in Nat
    BY <1>1, RankType
  <2>2. i < j => RankIn(K, i) < RankIn(K, j)
    BY <2>1, RankStrict
  <2>3. j < i => RankIn(K, j) < RankIn(K, i)
    BY <2>1, RankStrict
  <2> QED  BY <1>3, <2>1, <2>2, <2>3
<1>4. ASSUME NEW k \in 1..Cardinality(K) PROVE \E i \in K : RankIn(K, i) = k
  <2> DEFINE T == {i \in 0..n : RankIn(K, i) >= k}
  <2>1. n \in T /\ T \in SUBSET Nat
    BY RankType
  <2>2. PICK i \in T : \A m \in T : i <= m
    <3> HIDE DEF T
    <3> QED  BY <2>1, LeastNumber
  <2>3. i # 0
    BY <2>2, RankType
  <2>4. PICK m \in Nat : i = m + 1 /\ m \in 0..n
    <3> WITNESS i - 1 \in Nat
    <3> QED  BY <2>2, <2>3
  <2>5. RankIn(K, i) = RankIn(K, m) + (IF i \in K THEN 1 ELSE 0)
    BY <2>4, RankStep
  <2>6. RankIn(K, i) \in Nat /\ RankIn(K, m) \in Nat /\ Cardinality(K) \in Nat
    BY RankType
  <2>7. RankIn(K, i) >= k /\ RankIn(K, m) < k /\ k \in Nat
    BY <2>2, <2>4, <2>6
  <2> QED  BY <2>5, <2>6, <2>7
<1> QED  BY <1>2, <1>3, <1>4
-----------------------------------------------------------------------------
(* The table and a page of it.                                             *)

Row == [id : Nat, attr : Attributes]
Size == Cardinality(Kept)

(* The places of the rows that a listing's filter keeps.                   *)
LEMMA KeptPlaces ==
    ASSUME TableInv
    PROVE  /\ Len(order) \in Nat /\ DOMAIN order = 1..Len(order)
           /\ Kept \in SUBSET (1..Len(order))
           /\ \A i \in DOMAIN order : order[i] \in Row
           /\ \A i : Rank(i) = RankIn(Kept, i)
<1>1. order \in Seq(Row)
  BY DEF TableInv, Row
<1>2. /\ Len(order) \in Nat /\ DOMAIN order = 1..Len(order)
      /\ \A i \in DOMAIN order : order[i] \in Row
  BY <1>1
<1>3. Kept \in SUBSET (1..Len(order))
  BY <1>2 DEF Kept
<1>4. \A i : Rank(i) = RankIn(Kept, i)
  BY DEF Rank, RankIn, UpTo
<1> QED  BY <1>2, <1>3, <1>4

(* The listing has the kept rows in the order of their ranks.              *)
LEMMA ListedRows ==
    ASSUME TableInv
    PROVE  /\ Size \in Nat /\ Listed \in Seq(Row) /\ Len(Listed) = Size
           /\ \A i \in Kept : Rank(i) \in 1..Size /\ Listed[Rank(i)] = order[i]
           /\ \A k \in 1..Size : \E i \in Kept : Rank(i) = k
           /\ \A i, j \in Kept : Rank(i) = Rank(j) => i = j
<1>1. /\ Kept \in SUBSET (1..Len(order)) /\ Len(order) \in Nat
      /\ \A i : Rank(i) = RankIn(Kept, i)
  BY KeptPlaces
<1>2. Size \in Nat
  BY <1>1, RankType DEF Size
<1>3. /\ \A i \in Kept : Rank(i) \in 1..Size
      /\ \A k \in 1..Size : \E i \in Kept : Rank(i) = k
      /\ \A i, j \in Kept : Rank(i) = Rank(j) => i = j
  BY <1>1, RankOfMembers DEF Size
<1>4. \A k \in 1..Size : Listed[k] = order[CHOOSE i \in Kept : Rank(i) = k]
  BY DEF Listed, Size
<1>5. ASSUME NEW k \in 1..Size PROVE Listed[k] \in Row
  <2>1. PICK i \in Kept : i = CHOOSE j \in Kept : Rank(j) = k
    BY <1>3
  <2> QED  BY <1>1, <1>4, <2>1, KeptPlaces
<1>6. Listed \in [1..Size -> Row]
  BY <1>5 DEF Listed, Size
<1>7. Listed \in Seq(Row) /\ Len(Listed) = Size
  <2> HIDE DEF Listed
  <2> QED  BY <1>2, <1>6
<1>8. ASSUME NEW i \in Kept PROVE Listed[Rank(i)] = order[i]
  <2>1. Rank(i) \in 1..Size
    BY <1>3
  <2>2. i = CHOOSE j \in Kept : Rank(j) = Rank(i)
    BY <1>3
  <2> QED  BY <1>4, <2>1, <2>2
<1> QED  BY <1>2, <1>3, <1>7, <1>8

(* The places of the rows that a page from from of the size size shows. *)
Shown(from, size) == {i \in Kept : from < Rank(i) /\ Rank(i) <= from + size}

(* A rank past the offset and within the last one is a place on the page.  *)
LEMMA PlaceOnPage ==
    ASSUME NEW from \in Nat, NEW last \in Nat, NEW rank \in Nat, NEW length,
           length = IF from + 1 <= last THEN last - from ELSE 0,
           from < rank, rank <= last
    PROVE  rank - from \in 1..length /\ rank = from + (rank - from)
OBVIOUS

(* A page of the database: the rows whose rank is past the offset and      *)
(* within offset plus limit, each once; full unless the listing ends on    *)
(* it.                                                                     *)
LEMMA PageRows ==
    ASSUME TableInv, NEW from \in Nat, NEW size \in Nat
    PROVE  LET page == PageOf(from, size)
           IN  /\ page \in Seq(Row) /\ IdSeq(page) \in Seq(Nat) /\ Len(page) \in Nat
               /\ Len(IdSeq(page)) = Len(page) /\ DOMAIN page = 1..Len(page)
               /\ {IdSeq(page)[k] : k \in DOMAIN IdSeq(page)}
                     = {order[i].id : i \in Shown(from, size)}
               /\ \A k, l \in 1..Len(page) : IdSeq(page)[k] = IdSeq(page)[l] => k = l
               /\ from + size <= Size => Len(page) = size
               /\ from + size > Size /\ from <= Size => Len(page) = Size - from
               /\ from > Size => Len(page) = 0
<1> DEFINE last == IF from + size <= Size THEN from + size ELSE Size
           page == PageOf(from, size)
           ids == IdSeq(page)
<1>1. /\ Size \in Nat /\ Listed \in Seq(Row) /\ Len(Listed) = Size
      /\ \A i \in Kept : Rank(i) \in 1..Size /\ Listed[Rank(i)] = order[i]
      /\ \A k \in 1..Size : \E i \in Kept : Rank(i) = k
      /\ \A i, j \in Kept : Rank(i) = Rank(j) => i = j
  BY ListedRows
<1>2. Min({from + size, Len(Listed)}) = last
  BY <1>1 DEF Min
<1>3. page = SubSeq(Listed, from + 1, last)
  BY <1>2 DEF PageOf
<1>4. /\ page \in Seq(Row) /\ Len(page) = IF from + 1 <= last THEN last - from ELSE 0
      /\ \A k \in 1..Len(page) : page[k] = Listed[from + k]
  <2> HIDE DEF page
  <2>1. last \in Nat /\ last <= Len(Listed)
    BY <1>1
  <2> HIDE DEF last
  <2>2. CASE from + 1 <= last
    BY <1>1, <1>3, <2>1, <2>2
  <2>3. CASE ~(from + 1 <= last)
    <3>1. page = <<>>
      BY <1>1, <1>3, <2>1, <2>3
    <3> QED  BY <2>3, <3>1
  <2> QED  BY <2>2, <2>3
<1> HIDE DEF page
<1>5. /\ Len(page) \in Nat /\ DOMAIN page = 1..Len(page)
      /\ ids = [k \in 1..Len(page) |-> page[k].id]
  BY <1>1, <1>4 DEF IdSeq
<1>6. ids \in Seq(Nat) /\ Len(ids) = Len(page) /\ DOMAIN ids = 1..Len(page)
  <2>1. \A k \in 1..Len(page) : page[k].id \in Nat
    <3> TAKE k \in 1..Len(page)
    <3>1. page[k] \in Row
      <4>1. page \in Seq(Row)
        BY <1>4
      <4> QED  BY <4>1
    <3> QED  BY <3>1 DEF Row
  <2> QED  BY <1>5, <2>1
<1> HIDE DEF ids
<1>7. \A i \in Shown(from, size) :
         Rank(i) - from \in 1..Len(page) /\ ids[Rank(i) - from] = order[i].id
  <2> TAKE i \in Shown(from, size)
  <2>1. /\ Rank(i) \in 1..Size /\ from < Rank(i) /\ Rank(i) <= from + size
        /\ Listed[Rank(i)] = order[i]
    BY <1>1 DEF Shown
  <2>2. PICK k \in 1..Len(page) : Rank(i) = from + k
    <3>1. Rank(i) \in Nat /\ last \in Nat /\ Rank(i) <= last
      BY <1>1, <2>1
    <3>2. Len(page) = IF from + 1 <= last THEN last - from ELSE 0
      BY <1>4
    <3> HIDE DEF last
    <3>3. Rank(i) - from \in 1..Len(page) /\ Rank(i) = from + (Rank(i) - from)
      BY <2>1, <3>1, <3>2, PlaceOnPage
    <3> QED  BY <3>3
  <2>3. Rank(i) - from = k
    BY <2>1, <2>2
  <2> QED  BY <1>4, <1>5, <2>1, <2>2, <2>3
<1>8. \A k \in 1..Len(page) :
         \E i \in Shown(from, size) : Rank(i) = from + k /\ ids[k] = order[i].id
  <2> TAKE k \in 1..Len(page)
  <2>1. from + k \in 1..Size /\ from + k <= from + size
    BY <1>1, <1>4, <1>5
  <2>2. PICK i \in Kept : Rank(i) = from + k
    BY <1>1, <2>1
  <2>3. i \in Shown(from, size)
    BY <2>1, <2>2 DEF Shown
  <2>4. Listed[from + k] = order[i]
    BY <1>1, <2>2
  <2>5. ids[k] = order[i].id
    BY <1>4, <1>5, <2>4
  <2> QED  BY <2>2, <2>3, <2>5
<1>9. {ids[k] : k \in DOMAIN ids} = {order[i].id : i \in Shown(from, size)}
  <2>1. ASSUME NEW k \in DOMAIN ids PROVE ids[k] \in {order[i].id : i \in Shown(from, size)}
    <3>1. PICK i \in Shown(from, size) : ids[k] = order[i].id
      BY <1>6, <1>8
    <3> QED  BY <3>1
  <2>2. ASSUME NEW i \in Shown(from, size) PROVE order[i].id \in {ids[k] : k \in DOMAIN ids}
    <3>1. PICK k \in DOMAIN ids : ids[k] = order[i].id
      BY <1>6, <1>7
    <3> QED  BY <3>1
  <2> QED  BY <2>1, <2>2
<1>10. \A k, l \in 1..Len(page) : ids[k] = ids[l] => k = l
  <2> TAKE k, l \in 1..Len(page)
  <2> HAVE ids[k] = ids[l]
  <2>1. PICK i \in Shown(from, size) : Rank(i) = from + k /\ ids[k] = order[i].id
    BY <1>8
  <2>2. PICK j \in Shown(from, size) : Rank(j) = from + l /\ ids[l] = order[j].id
    BY <1>8
  <2>3. i = j
    BY <2>1, <2>2, KeptPlaces DEF Shown, TableInv
  <2> QED  BY <1>5, <2>1, <2>2, <2>3
<1>11. /\ from + size <= Size => Len(page) = size
       /\ from + size > Size /\ from <= Size => Len(page) = Size - from
       /\ from > Size => Len(page) = 0
  BY <1>1, <1>4
<1> QED  BY <1>4, <1>5, <1>6, <1>9, <1>10, <1>11 DEF page, ids
-----------------------------------------------------------------------------
(* What a route reads for the parameters it is sent: with the code c and   *)
(* the page size z, which depend on everything but the position.           *)
Shape(listing, at, c, z) ==
    IF c = 200 THEN Slice(IF listing \in Paged THEN at * z ELSE at, z) ELSE Refused

HasShape(listing, s, filter) ==
    \E c \in {200, 400}, z \in Int :
        /\ listing \in Paged => z \in Nat
        /\ \A a \in Nat : Query(listing, s, a, filter) = Shape(listing, a, c, z)

(* A position that the client sends as a number is read back by every      *)
(* parser as that number.                                                  *)
LEMMA PositionIsKept ==
    ASSUME NEW a \in Nat
    PROVE  /\ parseInt(Number(a)) = a /\ parseNonNegativeInt(Number(a)) = a
           /\ parsePositiveInt(Number(a + 1)) = a + 1
           /\ OrZero(Number(a)) = a
           /\ Number(a) \notin {Absent, Empty, Text} /\ a # NaN /\ a + 1 # NaN
<1>1. Max({0, a}) = a
  BY DEF Max
<1> QED  BY <1>1 DEF parseInt, parseNonNegativeInt, parsePositiveInt, OrZero, Number, Absent,
         Empty, Text, NaN

(* What the parsers make of any parameter is a number.                     *)
LEMMA SizeTypes ==
    ASSUME PagingAssumption, NEW s \in Parameter
    PROVE  /\ parseInt(s) \in Int /\ parseNonNegativeInt(s) \in Int /\ parsePositiveInt(s) \in Int
           /\ parsePositiveInt(s) = NaN \/ parsePositiveInt(s) \in Nat
           /\ OrZero(s) \in Nat
           /\ Everything \in Nat /\ DefaultSize \in Nat /\ MaxSize \in Nat
<1>1. s.n \in Int
  BY DEF Parameter
<1>2. parseInt(s) \in Int
  BY <1>1 DEF parseInt, NaN
<1>3. \A i \in Int : Max({0, i}) \in Nat
  BY DEF Max
<1> QED  BY <1>1, <1>2, <1>3, FS_CardinalityType
         DEF parseNonNegativeInt, parsePositiveInt, OrZero, Everything, NaN, PagingAssumption

(* What each route makes of the parameters depends on the size alone but   *)
(* for the position: it answers 400 or slices, and with the same size for  *)
(* every position.                                                         *)
LEMMA QueryShape ==
    ASSUME PagingAssumption, NEW listing \in AllListings, NEW s \in Parameter, NEW filter
    PROVE  HasShape(listing, s, filter)
<1> USE DEF HasShape
<1>1. \A i, j \in Int : Min({i, j}) \in Int /\ (i \in Nat /\ j \in Nat => Min({i, j}) \in Nat)
  BY DEF Min
<1>2. \A i, j \in Int : Max({i, j}) \in Int
  BY DEF Max
<1> USE SizeTypes, PositionIsKept
<1>3. ASSUME NEW f
      PROVE  \E c \in {200, 400}, z \in Nat :
                 \A a \in Nat : parseQuery(Number(a + 1), s, f) =
                                IF c = 200 THEN Slice(a * z, z) ELSE Refused
  <2> DEFINE size == parsePositiveInt(s)
             z == Min({IF size = NaN THEN DefaultSize ELSE size, MaxSize})
             bad == (s # Absent /\ size = NaN) \/ (f.from # 0 /\ f.to # 0 /\ f.from > f.to)
  <2>1. z \in Nat
    BY <1>1
  <2>2. ASSUME NEW a \in Nat
        PROVE  parseQuery(Number(a + 1), s, f) =
                  IF bad THEN Refused ELSE Slice(OffsetOf(a + 1, z), z)
    BY <2>2 DEF parseQuery
  <2> HIDE DEF bad, z
  <2>3. \A a \in Nat : OffsetOf(a + 1, z) = a * z
    BY <2>1 DEF OffsetOf
  <2>4. CASE bad
    <3> WITNESS 400 \in {200, 400}, z \in Nat
    <3> QED  BY <2>2, <2>4
  <2>5. CASE ~bad
    <3> WITNESS 200 \in {200, 400}, z \in Nat
    <3> QED  BY <2>2, <2>3, <2>5
  <2> QED  BY <2>4, <2>5
<1>4. CASE listing = "distributions"
  BY <1>3, <1>4 DEF Query, listDistributions, Shape, Paged
<1>5. CASE listing = "revenue-reports"
  BY <1>3, <1>5 DEF Query, listRevenueReports, Shape, Paged
<1>6. CASE listing \in {"payouts", "investments"}
  <2> DEFINE z == IF s = Absent THEN Everything ELSE parseInt(s)
             bad == s # Absent /\ parseInt(s) < 0
  <2>1. z \in Int
    OBVIOUS
  <2>2. ASSUME NEW a \in Nat
        PROVE  listPayouts(s, Number(a)) = IF bad THEN Refused ELSE Slice(a, z)
    BY <2>2 DEF listPayouts
  <2>3. \A a \in Nat : Query(listing, s, a, filter) = listPayouts(s, Number(a))
    BY <1>6 DEF Query, listInvestments
  <2>4. listing \notin Paged
    BY <1>6 DEF Paged
  <2> HIDE DEF bad, z
  <2>5. CASE bad
    <3> WITNESS 400 \in {200, 400}, z \in Int
    <3> QED  BY <2>2, <2>3, <2>4, <2>5 DEF Shape
  <2>6. CASE ~bad
    <3> WITNESS 200 \in {200, 400}, z \in Int
    <3> QED  BY <2>2, <2>3, <2>4, <2>6 DEF Shape
  <2> QED  BY <2>5, <2>6
<1>7. CASE listing = "offering-investments"
  <2> DEFINE limit == parseNonNegativeInt(s)
             z == IF limit = NaN THEN Everything ELSE limit
             bad == s # Absent /\ limit = NaN
  <2>1. z \in Int
    OBVIOUS
  <2>2. ASSUME NEW a \in Nat
        PROVE  listInvestmentsByOffering(s, Number(a)) = IF bad THEN Refused ELSE Slice(a, z)
    BY <2>2 DEF listInvestmentsByOffering
  <2>3. \A a \in Nat : Query(listing, s, a, filter) = listInvestmentsByOffering(s, Number(a))
    BY <1>7 DEF Query
  <2>4. listing \notin Paged
    BY <1>7 DEF Paged
  <2> HIDE DEF bad, z
  <2>5. CASE bad
    <3> WITNESS 400 \in {200, 400}, z \in Int
    <3> QED  BY <2>2, <2>3, <2>4, <2>5 DEF Shape
  <2>6. CASE ~bad
    <3> WITNESS 200 \in {200, 400}, z \in Int
    <3> QED  BY <2>2, <2>3, <2>4, <2>6 DEF Shape
  <2> QED  BY <2>5, <2>6
<1>8. CASE listing \in Counted
  <2> DEFINE z == IF s \in {Absent, Empty} THEN Everything ELSE OrZero(s)
  <2>1. z \in Int
    OBVIOUS
  <2>2. ASSUME NEW a \in Nat
        PROVE  Query(listing, s, a, filter) = Slice(a, z)
    BY <1>8, <2>2 DEF Query, listCatalog, listOfferings, Counted
  <2>3. listing \notin Paged
    BY <1>8 DEF Paged, Counted
  <2> HIDE DEF z
  <2> WITNESS 200 \in {200, 400}, z \in Int
  <2> QED  BY <2>2, <2>3 DEF Shape
<1>9. CASE listing = "library"
  <2> DEFINE limit == parseInt(s)
             z == IF limit = NaN THEN DefaultSize ELSE Min({Max({1, limit}), MaxSize})
  <2>1. z \in Int
    <3>1. limit \in Int /\ MaxSize \in Int /\ DefaultSize \in Int
      OBVIOUS
    <3> HIDE DEF limit
    <3>2. Max({1, limit}) \in Int
      BY <1>2, <3>1
    <3>3. Min({Max({1, limit}), MaxSize}) \in Int
      BY <1>1, <3>1, <3>2
    <3> QED  BY <3>1, <3>3
  <2>2. ASSUME NEW a \in Nat
        PROVE  Query(listing, s, a, filter) = Slice(a, z)
    BY <1>9, <2>2 DEF Query, parsePagination, OrZero
  <2>3. listing \notin Paged
    BY <1>9 DEF Paged
  <2> HIDE DEF z
  <2> WITNESS 200 \in {200, 400}, z \in Int
  <2> QED  BY <2>2, <2>3 DEF Shape
<1> QED  BY <1>4, <1>5, <1>6, <1>7, <1>8, <1>9 DEF AllListings, Paged, Counted, Uncounted

(* A request answered 200 was past the reading of its parameters.          *)
LEMMA AnsweredQuery ==
    ASSUME NEW listing, NEW caller, NEW s, NEW a, NEW filter,
           Status(listing, caller, s, a, filter) = 200
    PROVE  Query(listing, s, a, filter).code = 200
<1> DEFINE codes == <<GateBefore(listing, caller), Query(listing, s, a, filter).code,
                      GateAfter(listing, caller)>>
           refusals == {i \in 1..3 : codes[i] # 200}
<1>1. Status(listing, caller, s, a, filter) = IF refusals = {} THEN 200 ELSE codes[Min(refusals)]
  BY DEF Status
<1>2. codes[2] = Query(listing, s, a, filter).code
  OBVIOUS
<1> HIDE DEF codes
<1>3. ASSUME refusals # {} PROVE codes[Min(refusals)] # 200
  <2>1. refusals \in SUBSET Nat
    OBVIOUS
  <2> HIDE DEF refusals
  <2>2. PICK n \in refusals : \A m \in refusals : n <= m
    BY <1>3, <2>1, LeastNumber
  <2>3. Min(refusals) \in refusals
    BY <2>2 DEF Min
  <2> QED  BY <2>3 DEF refusals
<1>4. refusals = {}
  BY <1>1, <1>3
<1>5. 2 \notin refusals
  BY <1>4
<1> QED  BY <1>2, <1>5
-----------------------------------------------------------------------------
(* What an INSERT does to the places and the ranks of the rows kept: those *)
(* after it move by one place, and by one rank when the new row is kept.   *)
LEMMA RanksAfterInsert ==
    ASSUME NEW n \in Nat, NEW K \in SUBSET (1..n), NEW K2 \in SUBSET (1..(n + 1)), NEW i \in 0..n,
           \A j \in 1..i : j \in K2 <=> j \in K,
           \A j \in (i + 1)..n : j + 1 \in K2 <=> j \in K,
           NEW d \in {0, 1}, i + 1 \in K2 <=> d = 1
    PROVE  /\ \A j \in 0..i : RankIn(K2, j) = RankIn(K, j)
           /\ \A j \in i..n : RankIn(K2, j + 1) = RankIn(K, j) + d
<1>0. n + 1 \in Nat /\ i \in Nat
  OBVIOUS
<1>1. ASSUME NEW j \in 0..i PROVE RankIn(K2, j) = RankIn(K, j)
  <2>1. \A m \in K : m <= j => m \in 1..i
    OBVIOUS
  <2>2. \A m \in K2 : m <= j => m \in 1..i
    OBVIOUS
  <2>3. UpTo(K2, j) = UpTo(K, j)
    BY <2>1, <2>2, Zenon DEF UpTo
  <2> QED  BY <2>3 DEF RankIn
<1> DEFINE S == {j \in i..n : RankIn(K2, j + 1) = RankIn(K, j) + d}
<1>2. i \in S
  <2>1. RankIn(K2, i + 1) = RankIn(K2, i) + d
    BY <1>0, RankStep
  <2> QED  BY <1>1, <2>1
<1>3. ASSUME NEW j \in (i + 1)..n, (j - 1) \in S PROVE j \in S
  <2>1. PICK m \in Nat : j = m + 1 /\ m \in S
    <3> WITNESS j - 1 \in Nat
    <3> QED  BY <1>3
  <2>2. RankIn(K, m + 1) = RankIn(K, m) + (IF j \in K THEN 1 ELSE 0)
    BY <2>1, RankStep
  <2>3. RankIn(K2, j + 1) = RankIn(K2, j) + (IF j + 1 \in K2 THEN 1 ELSE 0)
    <3>1. j \in Nat
      OBVIOUS
    <3> QED  BY <1>0, <3>1, RankStep
  <2>4. RankIn(K2, j) = RankIn(K, m) + d
    BY <2>1
  <2>5. RankIn(K, m) \in Nat
    BY RankType
  <2>5b. d \in Nat
    OBVIOUS
  <2> QED  BY <2>1, <2>2, <2>3, <2>4, <2>5, <2>5b
<1>4. \A j \in i..n : j \in S
  <2> HIDE DEF S
  <2>1. i <= n => i \in S
    BY <1>2
  <2>2. \A j \in (i + 1)..n : (j - 1) \in S => j \in S
    BY <1>3
  <2> QED  BY <1>0, <2>1, <2>2, IntervalInduction
<1> QED  BY <1>1, <1>4

(* The parts of a concatenation.                                           *)
LEMMA Concatenation ==
    ASSUME NEW S, NEW s \in Seq(S), NEW t \in Seq(S)
    PROVE  /\ s \o t \in Seq(S) /\ Len(s \o t) = Len(s) + Len(t)
           /\ \A k \in 1..Len(s) : (s \o t)[k] = s[k]
           /\ \A k \in 1..Len(t) : (s \o t)[Len(s) + k] = t[k]
OBVIOUS

(* The table after an INSERT in the middle of the listing's order.         *)
LEMMA InsertedTable ==
    ASSUME TableInv, NEW i \in 0..Len(order), NEW a \in Attributes,
           order' = SubSeq(order, 1, i) \o <<[id |-> Len(order) + 1, attr |-> a]>>
                    \o SubSeq(order, i + 1, Len(order))
    PROVE  /\ order' \in Seq(Row) /\ Len(order') = Len(order) + 1
           /\ \A j \in 1..i : order'[j] = order[j]
           /\ order'[i + 1] = [id |-> Len(order) + 1, attr |-> a]
           /\ \A j \in (i + 1)..Len(order) : order'[j + 1] = order[j]
<1>1. order \in Seq(Row) /\ Len(order) \in Nat /\ i \in Nat /\ i <= Len(order)
  BY KeptPlaces DEF TableInv, Row
<1> DEFINE row == [id |-> Len(order) + 1, attr |-> a]
           before == SubSeq(order, 1, i)
           after == SubSeq(order, i + 1, Len(order))
<1>2. row \in Row
  BY <1>1 DEF Row
<1> HIDE DEF row
<1>3. before \in Seq(Row) /\ Len(before) = i /\ \A j \in 1..i : before[j] = order[j]
  BY <1>1
<1>4. /\ after \in Seq(Row) /\ Len(after) = Len(order) - i
      /\ \A j \in 1..(Len(order) - i) : after[j] = order[i + j]
  BY <1>1
<1> HIDE DEF before, after
<1>5. order' = (before \o <<row>>) \o after
  BY DEF row, before, after
<1>6. /\ before \o <<row>> \in Seq(Row) /\ Len(before \o <<row>>) = i + 1
      /\ \A j \in 1..i : (before \o <<row>>)[j] = order[j]
      /\ (before \o <<row>>)[i + 1] = row
  <2>1. <<row>> \in Seq(Row) /\ Len(<<row>>) = 1 /\ <<row>>[1] = row
    BY <1>2
  <2> HIDE DEF row
  <2> DEFINE one == <<row>>
  <2>2. one \in Seq(Row) /\ Len(one) = 1 /\ one[1] = row /\ 1 \in 1..Len(one)
    BY <2>1
  <2> HIDE DEF row, one
  <2>3. /\ before \o one \in Seq(Row) /\ Len(before \o one) = Len(before) + Len(one)
        /\ \A j \in 1..Len(before) : (before \o one)[j] = before[j]
        /\ \A j \in 1..Len(one) : (before \o one)[Len(before) + j] = one[j]
    <3>1. before \in Seq(Row) /\ one \in Seq(Row)
      BY <1>3, <2>2
    <3> QED  BY <3>1, Concatenation
  <2>4. /\ before \o one \in Seq(Row) /\ Len(before \o one) = i + 1
        /\ \A j \in 1..i : (before \o one)[j] = order[j]
        /\ (before \o one)[i + 1] = row
    BY <1>1, <1>3, <2>2, <2>3
  <2> QED  BY <2>4 DEF one
<1> DEFINE head == before \o <<row>>
<1> HIDE DEF head
<1>7. /\ head \in Seq(Row) /\ Len(head) = i + 1 /\ order' = head \o after
      /\ \A j \in 1..i : head[j] = order[j]
      /\ head[i + 1] = row
  BY <1>5, <1>6 DEF head
<1>7b. /\ head \o after \in Seq(Row) /\ Len(head \o after) = Len(head) + Len(after)
       /\ \A k \in 1..Len(head) : (head \o after)[k] = head[k]
       /\ \A k \in 1..Len(after) : (head \o after)[Len(head) + k] = after[k]
  <2>1. head \in Seq(Row) /\ after \in Seq(Row)
    BY <1>4, <1>7
  <2> QED  BY <2>1, Concatenation
<1>8. order' \in Seq(Row) /\ Len(order') = Len(order) + 1
  <2>1. Len(order') = (i + 1) + (Len(order) - i) /\ order' \in Seq(Row)
    BY <1>4, <1>7, <1>7b
  <2>2. i \in Nat /\ Len(order) \in Nat
    BY <1>1
  <2>3. (i + 1) + (Len(order) - i) = Len(order) + 1
    BY <2>2
  <2> QED  BY <2>1, <2>3
<1>9. \A j \in 1..(i + 1) : order'[j] = head[j]
  BY <1>7, <1>7b
<1>10. ASSUME NEW j \in (i + 1)..Len(order) PROVE order'[j + 1] = order[j]
  <2>2. PICK m \in 1..(Len(order) - i) : j = i + m
    <3>1. j - i \in 1..(Len(order) - i) /\ j = i + (j - i)
      BY <1>1
    <3> QED  BY <3>1
  <2>3. j + 1 = (i + 1) + m
    BY <1>1, <2>2
  <2>4. order'[j + 1] = after[m]
    BY <1>4, <1>7, <1>7b, <2>3
  <2> QED  BY <1>4, <2>2, <2>4
<1>11. \A j \in 1..i : j \in 1..(i + 1)
  BY <1>1
<1>12. i + 1 \in 1..(i + 1)
  BY <1>1
<1>13. \A j \in 1..i : order'[j] = order[j]
  BY <1>7, <1>9, <1>11
<1>14. order'[i + 1] = row
  BY <1>7, <1>9, <1>12
<1> QED  BY <1>8, <1>10, <1>13, <1>14 DEF row

(* An INSERT takes no row away from what lies ahead of the client; it puts *)
(* rows there, the new one or one pushed over the edge of a page, only     *)
(* when the listing grows.                                                 *)
LEMMA AheadAfterInsert ==
    ASSUME TableInv, NEW i \in 0..Len(order), NEW a \in Attributes, Insert(i, a),
           Position \in Int
    PROVE  /\ TableInv'
           /\ Ahead \subseteq Ahead'
           /\ ~grew' => ~grew /\ Ahead' = Ahead
<1> DEFINE n == Len(order)
           row == [id |-> Len(order) + 1, attr |-> a]
           Suits(r) == Passes(walk.listing, walk.filter, r)
<1>1. walk' = walk /\ grew' = (grew \/ Suits(row))
  BY DEF Insert
<1>2. /\ n \in Nat /\ DOMAIN order = 1..n /\ Kept \in SUBSET (1..n)
      /\ \A j \in DOMAIN order : order[j] \in Row
      /\ \A j : Rank(j) = RankIn(Kept, j)
  BY KeptPlaces
<1>3. /\ order' \in Seq(Row) /\ Len(order') = n + 1
      /\ \A j \in 1..i : order'[j] = order[j]
      /\ order'[i + 1] = row
      /\ \A j \in (i + 1)..n : order'[j + 1] = order[j]
  BY InsertedTable DEF Insert
<1>4. DOMAIN order' = 1..(n + 1)
  BY <1>2, <1>3
<1>5. \A j \in 1..(n + 1) : j \in 1..i \/ j = i + 1 \/ \E m \in (i + 1)..n : j = m + 1
  <2> TAKE j \in 1..(n + 1)
  <2>1. j \in 1..i \/ j = i + 1 \/ j - 1 \in (i + 1)..n
    BY <1>2
  <2>2. j = (j - 1) + 1
    OBVIOUS
  <2> QED  BY <2>1, <2>2
<1>6. Kept' = {j \in 1..(n + 1) : Suits(order'[j])}
  BY <1>1, <1>4 DEF Kept
<1>7. /\ Kept' \in SUBSET (1..(n + 1))
      /\ \A j \in 1..i : j \in Kept' <=> j \in Kept
      /\ i + 1 \in Kept' <=> Suits(row)
      /\ \A j \in (i + 1)..n : j + 1 \in Kept' <=> j \in Kept
  <2>1. \A j \in 1..i : j \in 1..n /\ j \in 1..(n + 1)
    BY <1>2
  <2>2. \A j \in (i + 1)..n : j \in 1..n /\ j + 1 \in 1..(n + 1)
    BY <1>2
  <2>3. i + 1 \in 1..(n + 1)
    BY <1>2
  <2>4. \A j : j \in Kept <=> j \in 1..n /\ Suits(order[j])
    BY <1>2 DEF Kept
  <2> HIDE DEF Suits, n, row
  <2> QED  BY <1>3, <1>6, <2>1, <2>2, <2>3, <2>4
<1>8. \A j : Rank(j)' = RankIn(Kept', j)
  BY DEF Rank, RankIn, UpTo
<1> DEFINE d == IF i + 1 \in Kept' THEN 1 ELSE 0
<1>9. /\ \A j \in 0..i : RankIn(Kept', j) = RankIn(Kept, j)
      /\ \A j \in i..n : RankIn(Kept', j + 1) = RankIn(Kept, j) + d
  <2> HIDE DEF n
  <2>1. i \in 0..n /\ n \in Nat
    BY <1>2 DEF n
  <2>2. Kept \in SUBSET (1..n) /\ Kept' \in SUBSET (1..(n + 1))
    BY <1>2, <1>7
  <2>3. /\ \A j \in 1..i : j \in Kept' <=> j \in Kept
        /\ \A j \in (i + 1)..n : j + 1 \in Kept' <=> j \in Kept
    BY <1>7
  <2>4. d \in {0, 1} /\ (i + 1 \in Kept' <=> d = 1)
    OBVIOUS
  <2> HIDE DEF d
  <2> QED  BY <2>1, <2>2, <2>3, <2>4, RanksAfterInsert
<1>10. Position' = Position
  BY <1>1 DEF Position, Querying
<1>11. TableInv'
  <2>1. \A j \in 1..n : order[j].id \in 1..n
    BY <1>2 DEF TableInv
  <2>2. row.id = n + 1
    OBVIOUS
  <2>3. \A j \in DOMAIN order' : order'[j].id \in 1..(n + 1)
    <3> TAKE j \in DOMAIN order'
    <3>1. CASE j \in 1..i
      BY <1>2, <1>3, <2>1, <3>1
    <3>2. CASE j = i + 1
      BY <1>2, <1>3, <2>2, <3>2
    <3>3. ASSUME NEW m \in (i + 1)..n, j = m + 1 PROVE order'[j].id \in 1..(n + 1)
      BY <1>2, <1>3, <2>1, <3>3
    <3> QED  BY <1>4, <1>5, <3>1, <3>2, <3>3
  <2>4. \A j, k \in 1..n : order[j].id = order[k].id => j = k
    BY <1>2 DEF TableInv
  <2>5. \A j \in 1..n : order[j].id # n + 1
    BY <1>2, <2>1
  <2> DEFINE Old(j) == IF j <= i THEN j ELSE j - 1
  <2>6. \A j \in 1..(n + 1) : j # i + 1 => Old(j) \in 1..n /\ order'[j] = order[Old(j)]
    <3> TAKE j \in 1..(n + 1)
    <3>1. CASE j \in 1..i
      BY <1>2, <1>3, <3>1
    <3>2. ASSUME NEW m \in (i + 1)..n, j = m + 1 PROVE Old(j) \in 1..n /\ order'[j] = order[Old(j)]
      <4>1. Old(j) = m
        BY <1>2, <3>2
      <4> QED  BY <1>2, <1>3, <3>2, <4>1
    <3> QED  BY <1>5, <3>1, <3>2
  <2>7. \A j, k \in 1..(n + 1) : j # i + 1 /\ k # i + 1 /\ Old(j) = Old(k) => j = k
    BY <1>2
  <2>8. \A j, k \in DOMAIN order' : order'[j].id = order'[k].id => j = k
    <3> TAKE j, k \in DOMAIN order'
    <3> HAVE order'[j].id = order'[k].id
    <3>1. order'[i + 1].id = n + 1
      BY <1>3, <2>2
    <3> HIDE DEF Old, n, row
    <3>2. j # i + 1 /\ k # i + 1 => j = k
      BY <1>4, <2>4, <2>6, <2>7
    <3>3. j = i + 1 => k = i + 1
      BY <1>4, <2>5, <2>6, <3>1
    <3>4. k = i + 1 => j = i + 1
      BY <1>4, <2>5, <2>6, <3>1
    <3> QED  BY <3>2, <3>3, <3>4
  <2>9. Len(order') = n + 1
    BY <1>3
  <2> QED  BY <1>3, <2>3, <2>8, <2>9 DEF TableInv, Row
<1>12. ASSUME NEW j \in Kept, Rank(j) > Position PROVE order[j].id \in Ahead'
  <2>1. Rank(j) \in Nat
    BY <1>2, RankType
  <2>2. CASE j \in 1..i
    <3>1. j \in Kept' /\ order'[j] = order[j] /\ Rank(j)' = Rank(j)
      <4>1. j \in 0..i
        BY <2>2
      <4> QED  BY <1>2, <1>3, <1>7, <1>8, <1>9, <2>2, <4>1
    <3> QED  BY <1>10, <1>12, <3>1 DEF Ahead
  <2>3. CASE j \in (i + 1)..n
    <3>1. j + 1 \in Kept' /\ order'[j + 1] = order[j]
      BY <1>3, <1>7, <2>3
    <3>2. RankIn(Kept', j + 1) = RankIn(Kept, j) + d
      <4>1. j \in i..n
        BY <1>2, <2>3
      <4> QED  BY <1>9, <4>1
    <3>3. RankIn(Kept', j + 1) > Position
      BY <1>2, <1>12, <2>1, <3>2
    <3> QED  BY <1>8, <1>10, <3>1, <3>3 DEF Ahead
  <2> QED  BY <1>2, <2>2, <2>3
<1>13. ASSUME ~Suits(row), NEW j \in Kept', Rank(j)' > Position PROVE order'[j].id \in Ahead
  <2>1. d = 0
    BY <1>7, <1>13
  <2>2. CASE j \in 1..i
    <3>1. j \in Kept /\ order'[j] = order[j] /\ Rank(j)' = Rank(j)
      <4>1. j \in 0..i
        BY <2>2
      <4> QED  BY <1>2, <1>3, <1>7, <1>8, <1>9, <2>2, <4>1
    <3> QED  BY <1>13, <3>1 DEF Ahead
  <2>3. ASSUME NEW m \in (i + 1)..n, j = m + 1 PROVE order'[j].id \in Ahead
    <3>1. m \in Kept /\ order'[j] = order[m]
      BY <1>3, <1>7, <1>13, <2>3
    <3>2. RankIn(Kept', j) = RankIn(Kept, m)
      <4>1. m \in i..n /\ RankIn(Kept, m) \in Nat
        BY <1>2, RankType
      <4> QED  BY <1>9, <2>1, <2>3, <4>1
    <3>3. Rank(m) > Position
      BY <1>2, <1>8, <1>13, <3>2
    <3> QED  BY <3>1, <3>3 DEF Ahead
  <2>4. j # i + 1
    BY <1>7, <1>13
  <2>5. j \in 1..(n + 1)
    BY <1>7
  <2> QED  BY <1>5, <2>2, <2>3, <2>4, <2>5
<1>14. Ahead \subseteq Ahead'
  BY <1>12 DEF Ahead
<1>15. ~Suits(row) => Ahead' \subseteq Ahead
  <2>1. Ahead' = {order'[j].id : j \in {k \in Kept' : Rank(k)' > Position'}}
    BY DEF Ahead
  <2> HIDE DEF Suits, row
  <2> QED  BY <1>10, <1>13, <2>1
<1> QED  BY <1>1, <1>11, <1>14, <1>15
-----------------------------------------------------------------------------
(* A change of a row takes nothing from what lies ahead unless the listing *)
(* shrinks, and adds nothing to it unless the listing grows.               *)
LEMMA AheadAfterRestatus ==
    ASSUME TableInv, NEW i \in DOMAIN order, NEW a \in Attributes, Restatus(i, a),
           Position \in Int
    PROVE  /\ TableInv'
           /\ ~shrank' => ~shrank /\ Ahead \subseteq Ahead'
           /\ ~grew' => ~grew /\ Ahead' \subseteq Ahead
<1> DEFINE n == Len(order)
           row == [order[i] EXCEPT !.attr = a]
           Suits(r) == Passes(walk.listing, walk.filter, r)
<1>1. /\ walk' = walk /\ order' = [order EXCEPT ![i] = row]
      /\ grew' = (grew \/ (Suits(row) /\ ~Suits(order[i])))
      /\ shrank' = (shrank \/ (Suits(order[i]) /\ ~Suits(row)))
  BY DEF Restatus
<1>2. /\ n \in Nat /\ DOMAIN order = 1..n /\ Kept \in SUBSET (1..n)
      /\ \A j \in DOMAIN order : order[j] \in Row
      /\ \A j : Rank(j) = RankIn(Kept, j)
  BY KeptPlaces
<1>3. row \in Row /\ row.id = order[i].id
  <2>1. order[i] \in Row
    BY <1>2
  <2> QED  BY <2>1 DEF Row
<1>4. /\ order' \in Seq(Row) /\ Len(order') = n /\ DOMAIN order' = 1..n
      /\ \A j \in 1..n : order'[j] = IF j = i THEN row ELSE order[j]
  <2>1. order \in Seq(Row)
    BY DEF TableInv, Row
  <2> HIDE DEF row
  <2> QED  BY <1>1, <1>2, <1>3, <2>1
<1>5. \A j \in 1..n : order'[j].id = order[j].id
  BY <1>3, <1>4
<1>6. TableInv'
  <2>1. /\ \A j \in 1..n : order[j].id \in 1..n
        /\ \A j, k \in 1..n : order[j].id = order[k].id => j = k
    BY <1>2 DEF TableInv
  <2>2. /\ \A j \in DOMAIN order' : order'[j].id \in 1..n
        /\ \A j, k \in DOMAIN order' : order'[j].id = order'[k].id => j = k
    BY <1>4, <1>5, <2>1
  <2> QED  BY <1>4, <2>2 DEF TableInv, Row
<1>7. \A j : Rank(j)' = RankIn(Kept', j)
  BY DEF Rank, RankIn, UpTo
<1>8. Position' = Position
  BY <1>1 DEF Position, Querying
<1>9. \A j : j \in Kept <=> j \in 1..n /\ Suits(order[j])
  BY <1>2 DEF Kept
<1>10. Kept' \in SUBSET (1..n) /\ \A j : j \in Kept' <=> j \in 1..n /\ Suits(order'[j])
  BY <1>1, <1>4 DEF Kept
<1>11. ASSUME Kept \subseteq Kept' PROVE Ahead \subseteq Ahead'
  <2>1. ASSUME NEW j \in Kept, Rank(j) > Position PROVE order[j].id \in Ahead'
    <3>1. j \in Kept' /\ order'[j].id = order[j].id /\ j \in Nat
      BY <1>2, <1>5, <1>11
    <3>2. RankIn(Kept, j) <= RankIn(Kept', j)
      <4>1. j <= j /\ Kept \in SUBSET Kept' /\ Kept' \in SUBSET (1..n) /\ n \in Nat
        BY <1>2, <1>10, <1>11, <3>1
      <4> HIDE DEF n
      <4> QED  BY <3>1, <4>1, RankMonotone
    <3>3. RankIn(Kept, j) \in Nat /\ RankIn(Kept', j) \in Nat
      BY <1>2, <1>10, RankType
    <3>4. Rank(j)' > Position'
      BY <1>2, <1>7, <1>8, <2>1, <3>2, <3>3
    <3> QED  BY <3>1, <3>4 DEF Ahead
  <2> QED  BY <2>1 DEF Ahead
<1>12. ASSUME Kept' \subseteq Kept PROVE Ahead' \subseteq Ahead
  <2>1. ASSUME NEW j \in Kept', Rank(j)' > Position' PROVE order'[j].id \in Ahead
    <3>1. j \in Kept /\ order'[j].id = order[j].id /\ j \in Nat
      BY <1>2, <1>5, <1>12
    <3>2. RankIn(Kept', j) <= RankIn(Kept, j)
      <4>1. j <= j /\ Kept' \in SUBSET Kept /\ Kept \in SUBSET (1..n) /\ n \in Nat
        BY <1>2, <1>12, <3>1
      <4> HIDE DEF n
      <4> QED  BY <3>1, <4>1, RankMonotone
    <3>3. RankIn(Kept, j) \in Nat /\ RankIn(Kept', j) \in Nat
      BY <1>2, <1>10, RankType
    <3>4. Rank(j) > Position
      BY <1>2, <1>7, <1>8, <2>1, <3>2, <3>3
    <3> QED  BY <3>1, <3>4 DEF Ahead
  <2>2. Ahead' = {order'[j].id : j \in {k \in Kept' : Rank(k)' > Position'}}
    BY DEF Ahead
  <2> QED  BY <2>1, <2>2
<1>13. ~shrank' => ~shrank /\ Kept \subseteq Kept'
  <2> HIDE DEF Suits, row, n
  <2> QED  BY <1>1, <1>4, <1>9, <1>10
<1>14. ~grew' => ~grew /\ Kept' \subseteq Kept
  <2> HIDE DEF Suits, row, n
  <2> QED  BY <1>1, <1>4, <1>9, <1>10
<1> QED  BY <1>6, <1>11, <1>12, <1>13, <1>14

-----------------------------------------------------------------------------
(* Where the client stands when it is answered. *)
LEMMA WhereItStands ==
    ASSUME PagingAssumption, ClientInv, Answered = 200
    PROVE  /\ Querying.size \in Int
           /\ Querying.from \in Int /\ (Querying.size > 0 => Querying.from \in Nat)
           /\ Position \in Int
           /\ \A a \in Nat : Query(walk.listing, walk.size, a, walk.filter) =
                Slice(IF walk.listing \in Paged THEN a * Querying.size ELSE a, Querying.size)
<1>1. walk.listing \in AllListings /\ walk.size \in Parameter /\ walk.at \in Nat
  BY DEF ClientInv
<1>2. PICK c \in {200, 400}, z \in Int :
         /\ walk.listing \in Paged => z \in Nat
         /\ \A a \in Nat : Query(walk.listing, walk.size, a, walk.filter)
                             = Shape(walk.listing, a, c, z)
  <2>1. HasShape(walk.listing, walk.size, walk.filter)
    BY <1>1, QueryShape
  <2> QED  BY <2>1 DEF HasShape
<1>3. Querying = Shape(walk.listing, walk.at, c, z) /\ Querying.code = 200
  BY <1>1, <1>2, AnsweredQuery DEF Querying, Answered
<1>4. c = 200
  BY <1>3 DEF Shape, Refused
<1>5. Querying = Slice(IF walk.listing \in Paged THEN walk.at * z ELSE walk.at, z)
  BY <1>3, <1>4 DEF Shape
<1>6. Querying.size = z /\ Querying.from = IF walk.listing \in Paged THEN walk.at * z ELSE walk.at
  BY <1>5 DEF Slice
<1>7. Querying.from \in Nat
  BY <1>1, <1>2, <1>6
<1> QED  BY <1>2, <1>4, <1>6, <1>7 DEF Position, Shape

(* ClientInv depends on nothing that a change of the table changes. *)
LEMMA ClientWaits ==
    ASSUME ClientInv, walk' = walk, seen' = seen, grew' \in BOOLEAN, shrank' \in BOOLEAN
    PROVE  ClientInv' /\ Watched' = Watched /\ Position' = Position /\ SeenIds' = SeenIds
BY DEF ClientInv, Watched, Position, Querying, Answered, SeenIds

(* One step of the client past the page it has read. *)
LEMMA StepTakes ==
    ASSUME PagingAssumption, ClientInv, Answered = 200, Querying.size > 0,
           NEW count, NEW total, Step(Querying, count, total),
           seen' \in Seq(Nat), grew' = grew, shrank' = shrank
    PROVE  /\ ClientInv'
           /\ walk'.listing = walk.listing /\ walk'.filter = walk.filter
           /\ walk'.phase = IF GoesOn(Querying, count, total) THEN "reading" ELSE "done"
           /\ Watched' => Position' = Querying.from + Querying.size
<1>1. /\ walk \in [listing : AllListings, caller : Callers, size : Parameter, filter : Filters,
                   at : Nat, phase : {"reading", "counting", "done", "refused"}, code : Int]
      /\ grew \in BOOLEAN /\ shrank \in BOOLEAN
  BY DEF ClientInv
<1> DEFINE z == Querying.size
<1>2. /\ z \in Int /\ Querying.from \in Nat
      /\ \A a \in Nat : Query(walk.listing, walk.size, a, walk.filter) =
                          Slice(IF walk.listing \in Paged THEN a * z ELSE a, z)
  BY WhereItStands
<1>3. Querying.from = IF walk.listing \in Paged THEN walk.at * z ELSE walk.at
  <2>1. Querying = Slice(IF walk.listing \in Paged THEN walk.at * z ELSE walk.at, z)
    BY <1>1, <1>2 DEF Querying
  <2> QED  BY <2>1 DEF Slice
<1>4. Advance(Querying) \in Nat
  <2>1. walk.at \in Nat
    BY <1>1
  <2>2. z > 0
    OBVIOUS
  <2>3. Advance(Querying) = IF walk.listing \in Paged THEN walk.at + 1 ELSE Querying.from + z
    BY DEF Advance
  <2> HIDE DEF z
  <2>4. Querying.from + z \in Nat
    BY <1>2, <2>2
  <2> QED  BY <2>1, <2>3, <2>4
<1> HIDE DEF z
<1>5. CASE GoesOn(Querying, count, total)
  <2>1. walk' = [walk EXCEPT !.at = Advance(Querying), !.phase = "reading"]
    BY <1>5 DEF Step
  <2>2. ClientInv'
    BY <1>1, <1>4, <2>1 DEF ClientInv
  <2>3. /\ walk'.listing = walk.listing /\ walk'.filter = walk.filter /\ walk'.size = walk.size
        /\ walk'.at = Advance(Querying) /\ walk'.phase = "reading"
    BY <1>1, <2>1
  <2>4. Querying' = Slice(IF walk.listing \in Paged THEN Advance(Querying) * z
                          ELSE Advance(Querying), z)
    BY <1>2, <1>4, <2>3 DEF Querying
  <2>5. Querying'.from = IF walk.listing \in Paged THEN (walk.at + 1) * z ELSE Querying.from + z
    BY <2>4 DEF Slice, Advance, z
  <2>6. (walk.at + 1) * z = walk.at * z + z
    BY <1>1, <1>2
  <2>7. Querying'.from = Querying.from + z
    BY <1>3, <2>5, <2>6
  <2> QED  BY <1>5, <2>2, <2>3, <2>7 DEF Position, z
<1>6. CASE ~GoesOn(Querying, count, total)
  <2>1. walk' = [walk EXCEPT !.phase = "done"]
    BY <1>6 DEF Step
  <2>2. ClientInv'
    BY <1>1, <2>1 DEF ClientInv
  <2>3. walk'.listing = walk.listing /\ walk'.filter = walk.filter /\ walk'.phase = "done"
    BY <1>1, <2>1
  <2> QED  BY <1>6, <2>2, <2>3 DEF Watched
<1> QED  BY <1>5, <1>6
-----------------------------------------------------------------------------
AheadOf(p) == {order[i].id : i \in {j \in Kept : Rank(j) > p}}

(* What lies ahead of a position is the page read there and what lies      *)
(* ahead of the position after it.                                         *)
LEMMA PageAndRest ==
    ASSUME TableInv, NEW from \in Nat, NEW size \in Nat
    PROVE  LET P == {order[i].id : i \in Shown(from, size)}
           IN  /\ AheadOf(from) = P \cup AheadOf(from + size)
               /\ P \cap AheadOf(from + size) = {}
               /\ from + size >= Size => AheadOf(from + size) = {}
<1> DEFINE P == {order[i].id : i \in Shown(from, size)}
<1>1. Size \in Nat /\ \A i \in Kept : Rank(i) \in Nat /\ Rank(i) <= Size
  BY ListedRows
<1>2. \A i \in Kept : (from < Rank(i) <=> (i \in Shown(from, size) \/ from + size < Rank(i)))
  BY <1>1 DEF Shown
<1>3. Shown(from, size) \subseteq Kept
  BY DEF Shown
<1>4. AheadOf(from) = P \cup AheadOf(from + size)
  <2>1. \A i \in Kept : Rank(i) > from <=> from < Rank(i)
    BY <1>1
  <2>2. \A i \in Kept : Rank(i) > from + size <=> from + size < Rank(i)
    BY <1>1
  <2> QED  BY <1>2, <1>3, <2>1, <2>2, Zenon DEF AheadOf
<1>5. P \cap AheadOf(from + size) = {}
  <2>1. SUFFICES ASSUME NEW i \in Shown(from, size), NEW j \in Kept, Rank(j) > from + size,
                        order[i].id = order[j].id
                 PROVE  FALSE
    BY DEF AheadOf
  <2>2. i = j
    BY <1>3, <2>1, KeptPlaces DEF TableInv
  <2> QED  BY <1>1, <1>3, <2>1, <2>2 DEF Shown
<1>6. ASSUME from + size >= Size PROVE AheadOf(from + size) = {}
  <2>1. \A i \in Kept : ~(Rank(i) > from + size)
    BY <1>1, <1>6
  <2> QED  BY <2>1 DEF AheadOf
<1> QED  BY <1>4, <1>5, <1>6

(* What lies ahead of the client, when only its position changes.          *)
LEMMA TableWaits ==
    ASSUME order' = order, walk'.listing = walk.listing, walk'.filter = walk.filter
    PROVE  /\ TableInv => TableInv'
           /\ Ahead' = AheadOf(Position')
<1>1. Kept' = Kept
  BY DEF Kept
<1>2. \A i : Rank(i)' = Rank(i)
  BY <1>1 DEF Rank
<1>3. Ahead' = {order'[i].id : i \in {j \in Kept' : Rank(j)' > Position'}}
  BY DEF Ahead
<1>4. \A i : (Rank(i)' > Position') <=> (Rank(i) > Position')
  BY <1>2
<1> QED  BY <1>1, <1>3, <1>4 DEF AheadOf, TableInv

(* What one page does to the client's knowledge, wherever it goes next. *)
LEMMA PageTaken ==
    ASSUME PagingAssumption, WalkInv, ReadPage
    PROVE  LET p == Querying.from + Querying.size
           IN  /\ Querying.from \in Nat /\ Querying.size \in Nat
               /\ seen' \in Seq(Nat)
               /\ ~shrank => start \subseteq SeenIds' \cup AheadOf(p)
               /\ ~grew => SeenIds' \cap AheadOf(p) = {}
               /\ ~grew => \A i, j \in DOMAIN seen' : seen'[i] = seen'[j] => i = j
<1> DEFINE from == Querying.from
           size == Querying.size
           page == PageOf(from, size)
           P == {order[i].id : i \in Shown(from, size)}
<1>1. /\ walk.phase = "reading" /\ Answered = 200 /\ size > 0
      /\ seen' = seen \o IdSeq(page)
  BY DEF ReadPage, Querying
<1>2. TableInv /\ ClientInv /\ seen \in Seq(Nat)
  BY DEF WalkInv, ClientInv
<1>3. from \in Nat /\ size \in Nat /\ Position = from /\ Watched
  BY <1>1, <1>2, WhereItStands DEF Position, Watched
<1>4. /\ ~shrank => start \subseteq SeenIds \cup Ahead
      /\ ~grew => SeenIds \cap Ahead = {}
      /\ ~grew => \A i, j \in DOMAIN seen : seen[i] = seen[j] => i = j
  BY <1>3 DEF WalkInv
<1>5. Ahead = AheadOf(from)
  BY <1>3 DEF Ahead, AheadOf
<1> HIDE DEF from, size
<1>6. /\ AheadOf(from) = P \cup AheadOf(from + size)
      /\ P \cap AheadOf(from + size) = {}
  BY <1>2, <1>3, PageAndRest
<1> DEFINE ids == IdSeq(page)
<1>7. /\ ids \in Seq(Nat) /\ {ids[k] : k \in DOMAIN ids} = P
      /\ \A k, l \in DOMAIN ids : ids[k] = ids[l] => k = l
  <2>1. /\ ids \in Seq(Nat) /\ Len(ids) = Len(page) /\ Len(page) \in Nat
        /\ {ids[k] : k \in DOMAIN ids} = P
        /\ \A k, l \in 1..Len(page) : ids[k] = ids[l] => k = l
    BY <1>2, <1>3, PageRows
  <2> HIDE DEF ids, page
  <2>2. DOMAIN ids = 1..Len(page)
    BY <2>1
  <2> QED  BY <2>1, <2>2
<1> HIDE DEF ids, page
<1>8. seen' = seen \o ids
  BY <1>1 DEF ids
<1>9. /\ seen' \in Seq(Nat) /\ DOMAIN seen' = 1..(Len(seen) + Len(ids))
      /\ DOMAIN seen = 1..Len(seen) /\ DOMAIN ids = 1..Len(ids)
      /\ Len(seen) \in Nat /\ Len(ids) \in Nat
  BY <1>2, <1>7, <1>8
<1>10. /\ \A k \in 1..Len(seen) : seen'[k] = seen[k]
       /\ \A k \in 1..Len(ids) : seen'[Len(seen) + k] = ids[k]
  BY <1>2, <1>7, <1>8, Concatenation
<1>11. \A k \in DOMAIN seen' : k \in 1..Len(seen) \/ \E m \in 1..Len(ids) : k = Len(seen) + m
  <2> TAKE k \in DOMAIN seen'
  <2>1. k \in 1..Len(seen) \/ k - Len(seen) \in 1..Len(ids)
    BY <1>9
  <2>2. k = Len(seen) + (k - Len(seen))
    BY <1>9
  <2> QED  BY <2>1, <2>2
<1>12. SeenIds' = SeenIds \cup P
  <2>1. ASSUME NEW k \in DOMAIN seen' PROVE seen'[k] \in SeenIds \cup P
    <3>1. CASE k \in 1..Len(seen)
      BY <1>9, <1>10, <3>1 DEF SeenIds
    <3>2. ASSUME NEW m \in 1..Len(ids), k = Len(seen) + m PROVE seen'[k] \in P
      BY <1>7, <1>9, <1>10, <3>2
    <3> QED  BY <1>11, <3>1, <3>2
  <2>2. ASSUME NEW k \in DOMAIN seen PROVE seen[k] \in SeenIds'
    <3>1. k \in DOMAIN seen' /\ seen'[k] = seen[k]
      BY <1>9, <1>10
    <3> QED  BY <3>1 DEF SeenIds
  <2>3. ASSUME NEW m \in DOMAIN ids PROVE ids[m] \in SeenIds'
    <3>1. Len(seen) + m \in DOMAIN seen' /\ seen'[Len(seen) + m] = ids[m]
      BY <1>9, <1>10
    <3> QED  BY <3>1 DEF SeenIds
  <2>4. SeenIds' = {seen'[k] : k \in DOMAIN seen'}
    BY DEF SeenIds
  <2>5. SeenIds = {seen[k] : k \in DOMAIN seen}
    BY DEF SeenIds
  <2>6. SeenIds' \subseteq SeenIds \cup P
    BY <2>1, <2>4
  <2>7. SeenIds \subseteq SeenIds'
    BY <2>2, <2>5
  <2>8. P \subseteq SeenIds'
    BY <1>7, <2>3
  <2> QED  BY <2>6, <2>7, <2>8
<1>13. ASSUME ~grew, NEW i \in DOMAIN seen', NEW j \in DOMAIN seen', seen'[i] = seen'[j]
       PROVE  i = j
  <2>0. SeenIds \cap P = {}
    BY <1>4, <1>5, <1>6, <1>13
  <2>1. ASSUME NEW k \in 1..Len(seen), NEW m \in 1..Len(ids), seen'[k] = seen'[Len(seen) + m]
        PROVE  FALSE
    <3>1. seen[k] \in SeenIds
      BY <1>9 DEF SeenIds
    <3>2. ids[m] \in P
      BY <1>7, <1>9
    <3> QED  BY <1>10, <2>0, <2>1, <3>1, <3>2
  <2>2. CASE i \in 1..Len(seen) /\ j \in 1..Len(seen)
    BY <1>4, <1>9, <1>10, <1>13, <2>2
  <2>3. CASE i \in 1..Len(seen) /\ j \notin 1..Len(seen)
    BY <1>11, <1>13, <2>1, <2>3
  <2>4. CASE i \notin 1..Len(seen) /\ j \in 1..Len(seen)
    BY <1>11, <1>13, <2>1, <2>4
  <2>5. CASE i \notin 1..Len(seen) /\ j \notin 1..Len(seen)
    <3>1. PICK k \in 1..Len(ids) : i = Len(seen) + k
      BY <1>11, <2>5
    <3>2. PICK l \in 1..Len(ids) : j = Len(seen) + l
      BY <1>11, <2>5
    <3> QED  BY <1>7, <1>9, <1>10, <1>13, <3>1, <3>2
  <2> QED  BY <2>2, <2>3, <2>4, <2>5
<1>14. ~shrank => start \subseteq SeenIds' \cup AheadOf(from + size)
  BY <1>4, <1>5, <1>6, <1>12
<1>15. ~grew => SeenIds' \cap AheadOf(from + size) = {}
  BY <1>4, <1>5, <1>6, <1>12
<1> QED  BY <1>3, <1>9, <1>13, <1>14, <1>15 DEF from, size

(* A walk ends on a page that the listing ends on: nothing lies ahead.     *)
LEMMA PageEnds ==
    ASSUME TableInv, Querying.from \in Nat, Querying.size \in Nat,
           walk.listing \in AllListings \ Counted,
           ~GoesOn(Querying, Len(PageOf(Querying.from, Querying.size)), Len(Listed))
    PROVE  AheadOf(Querying.from + Querying.size) = {}
<1> DEFINE from == Querying.from
           size == Querying.size
           count == Len(PageOf(from, size))
<1>1. /\ from + size <= Size => count = size
      /\ from + size > Size /\ from <= Size => count = Size - from
      /\ from > Size => count = 0
      /\ count \in Nat
  BY PageRows
<1>2. Size \in Nat /\ Len(Listed) = Size
  BY ListedRows
<1>3. from + size >= Size
  <2> HIDE DEF from, size, count
  <2>1. ~GoesOn([from |-> from, size |-> size], count, Size)
    BY <1>2 DEF GoesOn, from, size, count
  <2>2. CASE walk.listing \in Uncounted
    BY <1>1, <1>2, <2>1, <2>2 DEF GoesOn, from, size
  <2>3. CASE walk.listing = "library"
    BY <1>1, <1>2, <2>1, <2>3 DEF GoesOn, hasMore, Uncounted, from, size
  <2>4. CASE walk.listing \notin Uncounted \cup {"library"}
    BY <1>1, <1>2, <2>1, <2>4 DEF GoesOn, from, size
  <2> QED  BY <2>2, <2>3, <2>4
<1> QED  BY <1>3, PageAndRest
-----------------------------------------------------------------------------
(* Every walk begins in the invariant: all the rows are ahead.             *)
LEMMA WalkStarts ==
    ASSUME PagingAssumption, Init
    PROVE  WalkInv
<1>1. PICK n \in 0..Cardinality(Rows) :
         /\ order \in [1..n -> [id : Rows, attr : Attributes]]
         /\ \A i \in DOMAIN order : order[i].id = Len(order) - i + 1
  <2>1. /\ order \in UNION {[1..n -> [id : Rows, attr : Attributes]] : n \in 0..Cardinality(Rows)}
        /\ \A i \in DOMAIN order : order[i].id = Len(order) - i + 1
    BY DEF Init
  <2> QED  BY <2>1
<1>2. n \in Nat
  OBVIOUS
<1>3. Len(order) = n /\ DOMAIN order = 1..n
  <2> DEFINE R == [id : Rows, attr : Attributes]
  <2>1. order \in [1..n -> R]
    BY <1>1
  <2> HIDE DEF R
  <2> QED  BY <1>2, <2>1
<1>4. \A i \in 1..n : order[i].id = n - i + 1
  BY <1>1, <1>3
<1>5. order \in [1..n -> Row]
  <2>1. ASSUME NEW i \in 1..n PROVE order[i] \in Row
    <3>1. order[i].id \in Nat
      BY <1>2, <1>4
    <3> QED  BY <1>1, <3>1 DEF Row
  <2> QED  BY <1>1, <2>1
<1>6. TableInv
  <2>1. order \in Seq(Row)
    BY <1>2, <1>5
  <2>2. \A i \in DOMAIN order : order[i].id \in 1..Len(order)
    BY <1>2, <1>3, <1>4
  <2>3. \A i, j \in DOMAIN order : order[i].id = order[j].id => i = j
    <3> TAKE i, j \in DOMAIN order
    <3> HAVE order[i].id = order[j].id
    <3>1. n - i + 1 = n - j + 1 /\ i \in Nat /\ j \in Nat
      BY <1>2, <1>3, <1>4
    <3> QED  BY <1>2, <3>1
  <2> QED  BY <2>1, <2>2, <2>3 DEF TableInv, Row
<1>7. ClientInv /\ walk.at = 0 /\ walk.phase = "reading" /\ seen = <<>> /\ SeenIds = {}
  <2>1. walk \in [listing : Listings, caller : Callers, size : Sizes, filter : Filters,
                   at : {0}, phase : {"reading"}, code : {200}]
    BY DEF Init
  <2>2. walk.at = 0 /\ walk.phase = "reading"
    BY <2>1
  <2>3. walk \in [listing : AllListings, caller : Callers, size : Parameter, filter : Filters,
                   at : Nat, phase : {"reading", "counting", "done", "refused"}, code : Int]
    BY <2>1 DEF PagingAssumption
  <2>4. seen = <<>> /\ seen \in Seq(Nat) /\ grew \in BOOLEAN /\ shrank \in BOOLEAN
    <3>1. seen = <<>> /\ grew = FALSE /\ shrank = FALSE
      BY DEF Init
    <3>2. <<>> \in Seq(Nat)
      OBVIOUS
    <3> QED  BY <3>1, <3>2, Zenon
  <2>5. SeenIds = {}
    BY <2>4 DEF SeenIds
  <2> QED  BY <2>2, <2>3, <2>4, <2>5 DEF ClientInv
<1>8. start = {order[i].id : i \in Kept}
  <2>1. start = {Listed[k].id : k \in DOMAIN Listed}
    BY DEF Init, Ids
  <2>2. /\ Size \in Nat /\ Listed \in Seq(Row) /\ Len(Listed) = Size
        /\ \A i \in Kept : Rank(i) \in 1..Size /\ Listed[Rank(i)] = order[i]
        /\ \A k \in 1..Size : \E i \in Kept : Rank(i) = k
    BY <1>6, ListedRows
  <2>3. DOMAIN Listed = 1..Size
    BY <2>2
  <2>4. ASSUME NEW k \in DOMAIN Listed PROVE \E i \in Kept : Listed[k].id = order[i].id
    BY <2>2, <2>3
  <2>5. ASSUME NEW i \in Kept PROVE \E k \in DOMAIN Listed : Listed[k].id = order[i].id
    BY <2>2, <2>3
  <2> QED  BY <2>1, <2>4, <2>5
<1>9. Answered = 200 => start \subseteq Ahead
  <2> HAVE Answered = 200
  <2>1. Querying.from = 0
    <3>1. Querying = Slice(IF walk.listing \in Paged THEN 0 * Querying.size ELSE 0, Querying.size)
          /\ Querying.size \in Int
      BY <1>7, WhereItStands DEF Querying
    <3> QED  BY <3>1 DEF Slice
  <2>2. Position = 0
    BY <1>7, <2>1 DEF Position
  <2>3. \A i \in Kept : Rank(i) > Position
    BY <1>6, <2>2, ListedRows
  <2> QED  BY <1>8, <2>3 DEF Ahead
<1> QED  BY <1>6, <1>7, <1>9 DEF WalkInv, Watched

(* Every step of the table, of the database or of the client preserves it. *)
LEMMA WalkGoesOn ==
    ASSUME PagingAssumption, WalkInv, [Next]_vars
    PROVE  WalkInv'
<1>1. TableInv /\ ClientInv
  BY DEF WalkInv
<1>2. /\ seen \in Seq(Nat) /\ grew \in BOOLEAN /\ shrank \in BOOLEAN
      /\ walk \in [listing : AllListings, caller : Callers, size : Parameter, filter : Filters,
                   at : Nat, phase : {"reading", "counting", "done", "refused"}, code : Int]
  BY <1>1 DEF ClientInv
<1>3. CASE RefusePage
  <2>1. /\ walk' = [walk EXCEPT !.phase = "refused", !.code = Answered]
        /\ order' = order /\ seen' = seen /\ start' = start /\ grew' = grew /\ shrank' = shrank
    BY <1>3 DEF RefusePage
  <2>2. /\ walk'.phase = "refused" /\ walk'.listing = walk.listing /\ walk'.filter = walk.filter
        /\ walk'.size = walk.size /\ walk'.at = walk.at
    BY <1>2, <2>1
  <2>3. Answered \in Int
    <3> DEFINE codes == <<GateBefore(walk.listing, walk.caller), Querying.code,
                          GateAfter(walk.listing, walk.caller)>>
               refusals == {i \in 1..3 : codes[i] # 200}
    <3>1. Answered = IF refusals = {} THEN 200 ELSE codes[Min(refusals)]
      BY DEF Answered, Status, Querying
    <3>2. Querying.code \in Int
      <4>1. HasShape(walk.listing, walk.size, walk.filter)
        BY <1>2, QueryShape
      <4>2. PICK c \in {200, 400}, z \in Int : Querying = Shape(walk.listing, walk.at, c, z)
        BY <1>2, <4>1 DEF HasShape, Querying
      <4> QED  BY <4>2 DEF Shape, Slice, Refused
    <3>3. \A i \in 1..3 : codes[i] \in Int
      <4>1. GateBefore(walk.listing, walk.caller) \in Int
        BY DEF GateBefore
      <4>2. GateAfter(walk.listing, walk.caller) \in Int
        BY DEF GateAfter
      <4> QED  BY <3>2, <4>1, <4>2
    <3>4. refusals \in SUBSET Nat /\ refusals \subseteq 1..3
      OBVIOUS
    <3> HIDE DEF codes, refusals
    <3>5. ASSUME refusals # {} PROVE Min(refusals) \in 1..3
      <4>1. PICK m \in refusals : \A k \in refusals : m <= k
        BY <3>4, <3>5, LeastNumber
      <4> QED  BY <3>4, <4>1 DEF Min
    <3> QED  BY <3>1, <3>3, <3>5
  <2>4. walk' \in [listing : AllListings, caller : Callers, size : Parameter, filter : Filters,
                   at : Nat, phase : {"reading", "counting", "done", "refused"}, code : Int]
    BY <1>2, <2>1, <2>3
  <2>5. ClientInv'
    BY <1>2, <2>1, <2>2, <2>4 DEF ClientInv
  <2>6. TableInv'
    BY <1>1, <2>1 DEF TableInv
  <2> QED  BY <2>1, <2>2, <2>5, <2>6 DEF WalkInv, Watched
<1>4. CASE ReadPage
  <2> DEFINE p == Querying.from + Querying.size
             count == Len(PageOf(Querying.from, Querying.size))
  <2>1. /\ Querying.from \in Nat /\ Querying.size \in Nat
        /\ seen' \in Seq(Nat)
        /\ ~shrank => start \subseteq SeenIds' \cup AheadOf(p)
        /\ ~grew => SeenIds' \cap AheadOf(p) = {}
        /\ ~grew => \A i, j \in DOMAIN seen' : seen'[i] = seen'[j] => i = j
    BY <1>4, PageTaken
  <2>2. /\ order' = order /\ start' = start /\ grew' = grew /\ shrank' = shrank
        /\ walk.phase = "reading" /\ Answered = 200 /\ Querying.size > 0
        /\ IF walk.listing \in Counted THEN walk' = [walk EXCEPT !.phase = "counting"]
           ELSE Step(Querying, count, Len(Listed))
    BY <1>4 DEF ReadPage, Querying
  <2>3. /\ ClientInv'
        /\ walk'.listing = walk.listing /\ walk'.filter = walk.filter
        /\ Watched' => Position' = p
        /\ walk'.phase = "done" => AheadOf(p) = {}
    <3>1. CASE walk.listing \in Counted
      <4>1. walk' = [walk EXCEPT !.phase = "counting"]
        BY <2>2, <3>1
      <4>2. /\ walk'.listing = walk.listing /\ walk'.filter = walk.filter
            /\ walk'.phase = "counting"
            /\ walk'.size = walk.size /\ walk'.at = walk.at /\ walk'.caller = walk.caller
        BY <1>2, <4>1
      <4>3. Querying' = Querying /\ Answered' = Answered
        BY <4>2 DEF Querying, Answered
      <4>4. ClientInv'
        BY <1>2, <2>1, <2>2, <3>1, <4>1, <4>2, <4>3 DEF ClientInv
      <4> QED  BY <4>2, <4>3, <4>4 DEF Position
    <3>2. CASE walk.listing \notin Counted
      <4>1. Step(Querying, count, Len(Listed))
        BY <2>2, <3>2
      <4> HIDE DEF count
      <4>2. /\ ClientInv'
            /\ walk'.listing = walk.listing /\ walk'.filter = walk.filter
            /\ walk'.phase = IF GoesOn(Querying, count, Len(Listed)) THEN "reading" ELSE "done"
            /\ Watched' => Position' = p
        BY <1>1, <2>1, <2>2, <4>1, StepTakes
      <4>3. walk'.phase = "done" => ~GoesOn(Querying, count, Len(Listed))
        BY <4>2
      <4>4. walk.listing \in AllListings \ Counted
        BY <1>2, <3>2
      <4> QED  BY <1>1, <2>1, <4>2, <4>3, <4>4, PageEnds DEF count
    <3> QED  BY <3>1, <3>2
  <2>4. TableInv' /\ Ahead' = AheadOf(Position')
    BY <1>1, <2>2, <2>3, TableWaits
  <2> HIDE DEF p
  <2>5. Watched' => Ahead' = AheadOf(p)
    BY <2>3, <2>4
  <2> QED  BY <2>1, <2>2, <2>3, <2>4, <2>5 DEF WalkInv
<1>5. CASE CountTotal
  <2> DEFINE p == Querying.from + Querying.size
  <2>1. /\ walk.phase = "counting" /\ Step(Querying, 0, Len(Listed))
        /\ order' = order /\ seen' = seen /\ start' = start /\ grew' = grew /\ shrank' = shrank
    BY <1>5 DEF CountTotal, Querying
  <2>2. Answered = 200 /\ Querying.size > 0 /\ walk.listing \in Counted /\ Watched
    BY <1>1, <2>1 DEF ClientInv, Watched
  <2>3. Querying.from \in Nat /\ Querying.size \in Nat
    BY <1>1, <2>2, WhereItStands
  <2>4. Ahead = AheadOf(p)
    BY <2>1 DEF Ahead, AheadOf, Position
  <2>5. /\ ClientInv'
        /\ walk'.listing = walk.listing /\ walk'.filter = walk.filter
        /\ walk'.phase = IF GoesOn(Querying, 0, Len(Listed)) THEN "reading" ELSE "done"
        /\ Watched' => Position' = p
    BY <1>1, <1>2, <2>1, <2>2, StepTakes
  <2>6. walk'.phase = "done" => AheadOf(p) = {}
    <3> HAVE walk'.phase = "done"
    <3>1. ~GoesOn(Querying, 0, Len(Listed))
      BY <2>5
    <3>2. p >= Size
      BY <1>1, <2>2, <2>3, <3>1, ListedRows DEF GoesOn, Counted, Uncounted
    <3> QED  BY <1>1, <2>3, <3>2, PageAndRest
  <2>7. TableInv' /\ Ahead' = AheadOf(Position')
    BY <1>1, <2>1, <2>5, TableWaits
  <2> HIDE DEF p
  <2>8. SeenIds' = SeenIds
    BY <2>1 DEF SeenIds
  <2>9. /\ ~shrank => start \subseteq SeenIds \cup Ahead
        /\ ~grew => SeenIds \cap Ahead = {}
        /\ ~grew => \A i, j \in DOMAIN seen : seen[i] = seen[j] => i = j
    BY <2>2 DEF WalkInv
  <2>10. Watched' => Ahead' = Ahead
    BY <2>4, <2>5, <2>7
  <2> QED  BY <2>1, <2>4, <2>5, <2>6, <2>7, <2>8, <2>9, <2>10 DEF WalkInv
<1>6. ASSUME NEW i \in 0..Len(order), NEW a \in Attributes, Insert(i, a)
      PROVE  WalkInv'
  <2>1. /\ Watched /\ walk' = walk /\ seen' = seen /\ start' = start /\ shrank' = shrank
        /\ grew' \in BOOLEAN
    BY <1>6 DEF Insert
  <2>2. Position \in Int
    BY <1>1, <2>1, WhereItStands DEF Watched
  <2>3. TableInv' /\ Ahead \subseteq Ahead' /\ (~grew' => ~grew /\ Ahead' = Ahead)
    BY <1>1, <1>6, <2>2, AheadAfterInsert
  <2>4. ClientInv' /\ SeenIds' = SeenIds
    BY <1>1, <1>2, <2>1, ClientWaits
  <2>5. /\ ~shrank => start \subseteq SeenIds \cup Ahead
        /\ ~grew => SeenIds \cap Ahead = {}
        /\ ~grew => \A k, l \in DOMAIN seen : seen[k] = seen[l] => k = l
    BY <2>1 DEF WalkInv
  <2>6. walk'.phase # "done"
    BY <2>1 DEF Watched
  <2> QED  BY <2>1, <2>3, <2>4, <2>5, <2>6 DEF WalkInv
<1>7. ASSUME NEW i \in DOMAIN order, NEW a \in Attributes, Restatus(i, a)
      PROVE  WalkInv'
  <2>1. /\ Watched /\ walk' = walk /\ seen' = seen /\ start' = start
        /\ grew' \in BOOLEAN /\ shrank' \in BOOLEAN
    BY <1>7 DEF Restatus
  <2>2. Position \in Int
    BY <1>1, <2>1, WhereItStands DEF Watched
  <2>3. /\ TableInv'
        /\ ~shrank' => ~shrank /\ Ahead \subseteq Ahead'
        /\ ~grew' => ~grew /\ Ahead' \subseteq Ahead
    BY <1>1, <1>7, <2>2, AheadAfterRestatus
  <2>4. ClientInv' /\ SeenIds' = SeenIds
    BY <1>1, <2>1, ClientWaits
  <2>5. /\ ~shrank => start \subseteq SeenIds \cup Ahead
        /\ ~grew => SeenIds \cap Ahead = {}
        /\ ~grew => \A k, l \in DOMAIN seen : seen[k] = seen[l] => k = l
    BY <2>1 DEF WalkInv
  <2>6. walk'.phase # "done"
    BY <2>1 DEF Watched
  <2>7. ~shrank' => start' \subseteq SeenIds' \cup Ahead'
    BY <2>1, <2>3, <2>4, <2>5
  <2>8. ~grew' => SeenIds' \cap Ahead' = {}
    BY <2>3, <2>4, <2>5
  <2> QED  BY <2>1, <2>3, <2>4, <2>5, <2>6, <2>7, <2>8 DEF WalkInv
<1>8. CASE UNCHANGED vars
  <2>1. /\ order' = order /\ walk' = walk /\ seen' = seen /\ start' = start
        /\ grew' = grew /\ shrank' = shrank
    BY <1>8 DEF vars
  <2>2. ClientInv' /\ Watched' = Watched /\ Position' = Position /\ SeenIds' = SeenIds
    BY <1>1, <1>2, <2>1, ClientWaits
  <2>3. TableInv' /\ Ahead' = AheadOf(Position')
    BY <1>1, <2>1, TableWaits
  <2>4. Ahead' = Ahead
    BY <2>2, <2>3 DEF Ahead, AheadOf
  <2> QED  BY <2>1, <2>2, <2>3, <2>4 DEF WalkInv
<1>9. CASE Next
  BY <1>3, <1>4, <1>5, <1>6, <1>7, <1>9 DEF Next
<1> QED  BY <1>8, <1>9

(* The invariant implies the property.                                     *)
LEMMA WalkInvSays ==
    ASSUME WalkInv
    PROVE  WalkSeesAll
<1>1. seen \in Seq(Nat) /\ SeenIds = {seen[i] : i \in DOMAIN seen}
  BY DEF WalkInv, ClientInv, SeenIds
<1>2. walk.phase = "done" /\ ~shrank => start \subseteq SeenIds
  BY DEF WalkInv
<1>3. ASSUME ~grew PROVE Cardinality(SeenIds) = Len(seen)
  <2>1. Len(seen) \in Nat /\ DOMAIN seen = 1..Len(seen)
    BY <1>1
  <2>2. \A i, j \in 1..Len(seen) : seen[i] = seen[j] => i = j
    BY <1>3, <2>1 DEF WalkInv
  <2>3. seen \in Bijection(1..Len(seen), SeenIds)
    <3>1. seen \in [1..Len(seen) -> SeenIds]
      BY <1>1, <2>1
    <3>2. \A x \in SeenIds : \E i \in 1..Len(seen) : seen[i] = x
      BY <1>1, <2>1
    <3>3. seen \in Injection(1..Len(seen), SeenIds)
      BY <2>2, <3>1 DEF Injection, IsInjective
    <3>4. seen \in Surjection(1..Len(seen), SeenIds)
      BY <3>1, <3>2 DEF Surjection
    <3> QED  BY <3>3, <3>4 DEF Bijection
  <2>4. IsFiniteSet(1..Len(seen)) /\ Cardinality(1..Len(seen)) = Len(seen)
    <3> DEFINE n == Len(seen)
    <3>1. n \in Nat
      BY <2>1
    <3> HIDE DEF n
    <3>2. IsFiniteSet(1..n) /\ Cardinality(1..n) = IF 1 > n THEN 0 ELSE n - 1 + 1
      BY <3>1, FS_Interval
    <3>3. Cardinality(1..n) = n
      BY <3>1, <3>2
    <3> QED  BY <3>2, <3>3 DEF n
  <2> QED  BY <2>3, <2>4, FS_Bijection DEF ExistsBijection
<1> QED  BY <1>1, <1>2, <1>3 DEF WalkSeesAll

(* A client that walks a listing page by page to its end sees every row    *)
(* that was in it from the start, unless rows were taken out of the        *)
(* listing under way, and sees none twice unless rows came in:             *)
(* Paging.WalkSeesAll, for tables, page sizes and walks of any length.     *)
THEOREM WalksSeeAll == Spec => []WalkSeesAll
<1>1. Init => WalkInv
  BY PagingAssumption, WalkStarts
<1>2. WalkInv /\ [Next]_vars => WalkInv'
  BY PagingAssumption, WalkGoesOn
<1>3. WalkInv => WalkSeesAll
  BY WalkInvSays
<1> QED  BY <1>1, <1>2, <1>3, PTL DEF Spec
-----------------------------------------------------------------------------
(* The front ends of a webhook.  What one of them may answer:              *)
Codes == {400, 401, 403, 404, 413, 500, Web!NoResponse}

(* A front end passes exactly what none of its checks refuses.             *)
LEMMA FirstRefusalOf ==
    ASSUME NEW n \in 0..7, NEW checks, DOMAIN checks = 1..n,
           \A i \in 1..n : checks[i].code \in Codes
    PROVE  /\ Web!FirstRefusal(checks) \in Codes \cup {Web!Pass}
           /\ Web!FirstRefusal(checks) = Web!Pass <=> \A i \in 1..n : ~checks[i].fails
<1> DEFINE failed == {i \in DOMAIN checks : checks[i].fails}
<1>1. CASE failed = {}
  BY <1>1 DEF Web!FirstRefusal
<1>2. CASE failed # {}
  <2>1. \E i \in failed : \A j \in failed : i <= j
    BY <1>2
  <2>2. PICK i \in failed : i = CHOOSE k \in failed : \A j \in failed : k <= j
    BY <2>1
  <2>3. Web!FirstRefusal(checks) = checks[i].code
    BY <1>2, <2>2 DEF Web!FirstRefusal
  <2> QED  BY <1>2, <2>3 DEF Codes, Web!Pass, Web!NoResponse
<1> QED  BY <1>1, <1>2

CheckSet == [fails : BOOLEAN, code : Codes]

NoneFails(checks) == \A i \in 1..Len(checks) : ~checks[i].fails

(* The same for a list of checks.                                          *)
LEMMA RefusalOfList ==
    ASSUME NEW s \in Seq(CheckSet), Len(s) \in 0..7
    PROVE  /\ Web!FirstRefusal(s) \in Codes \cup {Web!Pass}
           /\ Web!FirstRefusal(s) = Web!Pass <=> NoneFails(s)
<1> DEFINE n == Len(s)
<1>1. n \in 0..7 /\ DOMAIN s = 1..n
  OBVIOUS
<1>2. \A i \in 1..n : s[i].code \in Codes
  <2>1. \A i \in 1..n : s[i] \in CheckSet
    OBVIOUS
  <2> QED  BY <2>1 DEF CheckSet
<1> HIDE DEF n
<1>3. /\ Web!FirstRefusal(s) \in Codes \cup {Web!Pass}
      /\ Web!FirstRefusal(s) = Web!Pass <=> \A i \in 1..n : ~s[i].fails
  BY <1>1, <1>2, FirstRefusalOf
<1> QED  BY <1>3 DEF NoneFails, n

(* The same for the checks of a front end followed by the common ones.     *)
LEMMA RefusalOfTwoLists ==
    ASSUME NEW s \in Seq(CheckSet), NEW t \in Seq(CheckSet), Len(s) + Len(t) \in 0..7
    PROVE  /\ Web!FirstRefusal(s \o t) \in Codes \cup {Web!Pass}
           /\ Web!FirstRefusal(s \o t) = Web!Pass <=> NoneFails(s) /\ NoneFails(t)
<1>1. /\ s \o t \in Seq(CheckSet) /\ Len(s \o t) = Len(s) + Len(t)
      /\ \A i \in 1..Len(s) + Len(t) :
            (s \o t)[i] = IF i <= Len(s) THEN s[i] ELSE t[i - Len(s)]
  OBVIOUS
<1>2. /\ Web!FirstRefusal(s \o t) \in Codes \cup {Web!Pass}
      /\ Web!FirstRefusal(s \o t) = Web!Pass <=> NoneFails(s \o t)
  BY <1>1, RefusalOfList
<1>3. ASSUME NoneFails(s), NoneFails(t) PROVE NoneFails(s \o t)
  BY <1>1, <1>3 DEF NoneFails
<1>4. ASSUME NoneFails(s \o t) PROVE NoneFails(s)
  BY <1>1, <1>4 DEF NoneFails
<1>5. ASSUME NoneFails(s \o t) PROVE NoneFails(t)
  <2>1. SUFFICES ASSUME NEW i \in 1..Len(t) PROVE ~t[i].fails
    BY DEF NoneFails
  <2>2. (s \o t)[Len(s) + i] = t[i] /\ Len(s) + i \in 1..Len(s \o t)
    BY <1>1
  <2> QED  BY <1>5, <2>2 DEF NoneFails
<1> QED  BY <1>2, <1>3, <1>4, <1>5

(* The checks that the middlewares have in common. *)
TurnedAway(secret, m, required, now) ==
    \/ m.body = "oversized" \/ ~Web!extractSignatureFromHeaders(m)
    \/ ~Web!verifyWebhookPayload(secret, m) \/ ~Web!DatePasses(m, required, now)

(* The checks in common are the four of the middlewares.                   *)
LEMMA SignatureList ==
    ASSUME NEW secret, NEW m, NEW required, NEW now
    PROVE  /\ Web!SignatureChecks(secret, m, required, now) \in Seq(CheckSet)
           /\ Len(Web!SignatureChecks(secret, m, required, now)) = 4
           /\ NoneFails(Web!SignatureChecks(secret, m, required, now))
                <=> ~TurnedAway(secret, m, required, now)
<1> DEFINE a == m.body = "oversized"
           b == ~Web!extractSignatureFromHeaders(m)
           c == ~Web!verifyWebhookPayload(secret, m)
           d == ~Web!DatePasses(m, required, now)
<1>1. Web!SignatureChecks(secret, m, required, now) =
         <<Web!Check(a, 403), Web!Check(b, 401), Web!Check(c, 403), Web!Check(d, 403)>>
  BY DEF Web!SignatureChecks
<1>2. TurnedAway(secret, m, required, now) <=> a \/ b \/ c \/ d
  BY DEF TurnedAway
<1>3. a \in BOOLEAN /\ b \in BOOLEAN /\ c \in BOOLEAN /\ d \in BOOLEAN
  OBVIOUS
<1> HIDE DEF a, b, c, d
<1> QED  BY <1>1, <1>2, <1>3 DEF Web!Check, CheckSet, Codes, NoneFails

(* When webhookAuth calls next().                                          *)
LEMMA AuthVerdict ==
    ASSUME NEW secret, NEW m, NEW required, NEW now
    PROVE  /\ Web!webhookAuth(secret, m, required, now) \in Codes \cup {Web!Pass}
           /\ Web!webhookAuth(secret, m, required, now) = Web!Pass
                 <=> m.body # "absent" /\ ~TurnedAway(secret, m, required, now)
<1> DEFINE a == m.body = "absent"
           s == <<Web!Check(a, 401)>>
           t == Web!SignatureChecks(secret, m, required, now)
<1>1. a \in BOOLEAN
  OBVIOUS
<1>2. Web!webhookAuth(secret, m, required, now) = Web!FirstRefusal(s \o t)
  BY DEF Web!webhookAuth
<1>3. t \in Seq(CheckSet) /\ Len(t) = 4 /\ (NoneFails(t) <=> ~TurnedAway(secret, m, required, now))
  BY SignatureList
<1>4. m.body # "absent" <=> ~a
  OBVIOUS
<1> HIDE DEF a, t
<1>5. s \in Seq(CheckSet) /\ Len(s) = 1 /\ (NoneFails(s) <=> ~a)
  BY <1>1 DEF Web!Check, CheckSet, Codes, NoneFails
<1> HIDE DEF s
<1>6. Len(s) + Len(t) \in 0..7
  BY <1>3, <1>5
<1> QED  BY <1>2, <1>3, <1>4, <1>5, <1>6, RefusalOfTwoLists

(* When webhookVerify calls next().                                        *)
LEMMA VerifyVerdict ==
    ASSUME NEW secret, NEW m, NEW required, NEW now
    PROVE  /\ Web!webhookVerify(secret, m, required, now) \in Codes \cup {Web!Pass}
           /\ Web!webhookVerify(secret, m, required, now) = Web!Pass
                 <=> m.body # "absent" /\ ~TurnedAway(secret, m, required, now)
<1> DEFINE t == Web!SignatureChecks(secret, m, required, now)
<1>1. Web!webhookVerify(secret, m, required, now) =
         IF m.body = "absent" THEN 400 ELSE Web!FirstRefusal(t)
  BY DEF Web!webhookVerify, Web!verifyWebhook
<1>2. t \in Seq(CheckSet) /\ Len(t) = 4 /\ (NoneFails(t) <=> ~TurnedAway(secret, m, required, now))
  BY SignatureList
<1> HIDE DEF t
<1> QED  BY <1>1, <1>2, RefusalOfList DEF Codes, Web!Pass

(* When webhookAuthWithProvider calls next().                              *)
LEMMA ProviderVerdict ==
    ASSUME NEW secret, NEW m, NEW required, NEW now
    PROVE  /\ Web!webhookAuthWithProvider(secret, m, required, now) \in Codes \cup {Web!Pass}
           /\ Web!webhookAuthWithProvider(secret, m, required, now) = Web!Pass
                 <=> /\ secret \notin {Web!NoSecret, Web!ProviderFails}
                     /\ m.body # "absent" /\ ~TurnedAway(secret, m, required, now)
<1> DEFINE a == secret \in {Web!NoSecret, Web!ProviderFails}
           b == m.body = "absent"
           s == <<Web!Check(a, 403), Web!Check(b, 401)>>
           t == Web!SignatureChecks(secret, m, required, now)
<1>1. a \in BOOLEAN /\ b \in BOOLEAN
  OBVIOUS
<1>2. Web!webhookAuthWithProvider(secret, m, required, now) = Web!FirstRefusal(s \o t)
  BY DEF Web!webhookAuthWithProvider
<1>3. t \in Seq(CheckSet) /\ Len(t) = 4 /\ (NoneFails(t) <=> ~TurnedAway(secret, m, required, now))
  BY SignatureList
<1>4. (secret \notin {Web!NoSecret, Web!ProviderFails} /\ m.body # "absent") <=> ~a /\ ~b
  OBVIOUS
<1> HIDE DEF a, b, t
<1>5. s \in Seq(CheckSet) /\ Len(s) = 2 /\ (NoneFails(s) <=> ~a /\ ~b)
  BY <1>1 DEF Web!Check, CheckSet, Codes, NoneFails
<1> HIDE DEF s
<1>6. Len(s) + Len(t) \in 0..7
  BY <1>3, <1>5
<1> QED  BY <1>2, <1>3, <1>4, <1>5, <1>6, RefusalOfTwoLists

(* When createWebhookRouter runs the handler.                              *)
LEMMA RouterVerdict ==
    ASSUME NEW secret, NEW m, NEW required, NEW now
    PROVE  /\ Web!createWebhookRouter(secret, m, required, now) \in Codes \cup {Web!Pass}
           /\ Web!createWebhookRouter(secret, m, required, now) = Web!Pass
                 <=> /\ m.body = "event" /\ m.header = "x-revora-signature"
                     /\ Web!verifyWebhookPayload(secret, m) /\ Web!StampPasses(m, required, now)
<1> DEFINE a == m.body = "oversized"
           b == m.header # "x-revora-signature"
           c == m.prefixed /\ m.body = "absent"
           d == ~Web!verifyWebhookPayload(secret, m)
           e == ~Web!StampPasses(m, required, now)
           f == ~Web!validateWebhookEvent(m)
           s == <<Web!Check(a, 413), Web!Check(b, 401), Web!Check(c, 500), Web!Check(d, 403),
                  Web!Check(e, 403), Web!Check(f, 400)>>
<1>1. /\ a \in BOOLEAN /\ b \in BOOLEAN /\ c \in BOOLEAN /\ d \in BOOLEAN
      /\ e \in BOOLEAN /\ f \in BOOLEAN
  OBVIOUS
<1>2. Web!createWebhookRouter(secret, m, required, now) = Web!FirstRefusal(s)
  BY DEF Web!createWebhookRouter
<1>3. /\ m.body = "event" /\ m.header = "x-revora-signature"
      /\ Web!verifyWebhookPayload(secret, m) /\ Web!StampPasses(m, required, now)
      <=> ~a /\ ~b /\ ~c /\ ~d /\ ~e /\ ~f
  BY DEF Web!validateWebhookEvent
<1> HIDE DEF a, b, c, d, e, f
<1>4. s \in Seq(CheckSet) /\ Len(s) = 6
  BY <1>1 DEF Web!Check, CheckSet, Codes
<1>5. NoneFails(s) <=> ~a /\ ~b /\ ~c /\ ~d /\ ~e /\ ~f
  BY <1>1 DEF Web!Check, NoneFails
<1> HIDE DEF s
<1> QED  BY <1>2, <1>3, <1>4, <1>5, RefusalOfList

(* When createMultiTenantWebhookRouter runs the handler.                   *)
LEMMA TenantVerdict ==
    ASSUME NEW secret, NEW m
    PROVE  /\ Web!createMultiTenantWebhookRouter(secret, m) \in Codes \cup {Web!Pass}
           /\ Web!createMultiTenantWebhookRouter(secret, m) = Web!Pass
                 <=> /\ secret \notin {Web!NoSecret, Web!ProviderFails}
                     /\ m.body = "event" /\ m.header = "x-revora-signature"
                     /\ Web!verifyWebhookPayload(secret, m)
<1> DEFINE a == m.body = "oversized"
           p == secret = Web!ProviderFails
           q == secret = Web!NoSecret
           b == m.header # "x-revora-signature"
           c == m.prefixed /\ m.body = "absent"
           d == ~Web!verifyWebhookPayload(secret, m)
           f == ~Web!validateWebhookEvent(m)
           s == <<Web!Check(a, 413), Web!Check(p, 500), Web!Check(q, 404), Web!Check(b, 401),
                  Web!Check(c, Web!NoResponse), Web!Check(d, 403), Web!Check(f, 400)>>
<1>1. /\ a \in BOOLEAN /\ b \in BOOLEAN /\ c \in BOOLEAN /\ d \in BOOLEAN
      /\ p \in BOOLEAN /\ q \in BOOLEAN /\ f \in BOOLEAN
  OBVIOUS
<1>2. Web!createMultiTenantWebhookRouter(secret, m) = Web!FirstRefusal(s)
  BY DEF Web!createMultiTenantWebhookRouter
<1>3. /\ secret \notin {Web!NoSecret, Web!ProviderFails}
      /\ m.body = "event" /\ m.header = "x-revora-signature"
      /\ Web!verifyWebhookPayload(secret, m)
      <=> ~a /\ ~p /\ ~q /\ ~b /\ ~c /\ ~d /\ ~f
  BY DEF Web!validateWebhookEvent
<1> HIDE DEF a, b, c, d, p, q, f
<1>4. s \in Seq(CheckSet) /\ Len(s) = 7
  BY <1>1 DEF Web!Check, CheckSet, Codes
<1>5. NoneFails(s) <=> ~a /\ ~p /\ ~q /\ ~b /\ ~c /\ ~d /\ ~f
  BY <1>1 DEF Web!Check, NoneFails
<1> HIDE DEF s
<1> QED  BY <1>2, <1>3, <1>4, <1>5, RefusalOfList

(* Every front end lets a message through exactly when LetsThrough says.   *)
LEMMA PassesExactly ==
    ASSUME NEW kind \in Web!FrontEnds,
           NEW secret \in Secrets \cup {Web!NoSecret, Web!ProviderFails},
           secret \in Secrets \/ kind \in Web!HasProvider,
           NEW m \in Web!Messages(Int), NEW required \in BOOLEAN, NEW now \in Int
    PROVE  /\ Web!Verdict(kind, secret, m, required, now) \in Codes \cup {Web!Pass}
           /\ Web!LetsThrough(kind, secret, m, required, now)
<1> DEFINE inTime == Web!Recent(m, now)
           signed == m.prefixed /\ m.secret = secret
<1>1. m.stamp \in Int /\ m.prefixed \in BOOLEAN /\ m.header \in Web!Headers /\ m.body \in Web!Bodies
      /\ m.secret \in Secrets
  BY DEF Web!Messages, Web!NoStamp, Web!BadStamp, Web!FarStamp
<1>2. Web!StampPasses(m, required, now) <=> (required => inTime)
  BY <1>1, ReceiverAssumption DEF Web!StampPasses, Web!InWindow, Web!Recent
<1>3. Web!DatePasses(m, required, now) <=> (required => inTime \/ m.stamp = Web!FarStamp)
  BY <1>2 DEF Web!DatePasses
<1>4. Web!verifyWebhookPayload(secret, m) <=> m.header # "none" /\ signed
  BY DEF Web!verifyWebhookPayload
<1>5. secret \notin {Web!NoSecret, Web!ProviderFails} \/ ~signed
  BY <1>1, ReceiverAssumption
<1> DEFINE genuine == /\ Web!SignedFor(kind, secret, m)
                      /\ required /\ kind # "createMultiTenantWebhookRouter"
                           => inTime \/ (m.stamp = Web!FarStamp /\ kind \in Web!Middlewares)
<1>8. Web!LetsThrough(kind, secret, m, required, now)
         <=> (Web!Verdict(kind, secret, m, required, now) = Web!Pass <=> genuine)
  BY Zenon DEF Web!LetsThrough
<1> HIDE DEF inTime, signed
<1>6. ~TurnedAway(secret, m, required, now)
         <=> /\ m.body # "oversized" /\ m.header # "none" /\ signed
             /\ required => inTime \/ m.stamp = Web!FarStamp
  BY <1>3, <1>4 DEF TurnedAway, Web!extractSignatureFromHeaders
<1>7. Web!SignedFor(kind, secret, m) <=>
         /\ signed
         /\ IF kind \in Web!Middlewares
            THEN m.header # "none" /\ m.body \notin {"absent", "oversized"}
            ELSE m.header = "x-revora-signature" /\ m.body = "event"
  BY DEF Web!SignedFor, signed
<1>10. CASE kind = "webhookAuth"
  BY <1>6, <1>7, <1>8, <1>10, AuthVerdict DEF Web!Verdict, Web!Middlewares
<1>11. CASE kind = "webhookVerify"
  BY <1>6, <1>7, <1>8, <1>11, VerifyVerdict DEF Web!Verdict, Web!Middlewares
<1>12. CASE kind = "webhookAuthWithProvider"
  BY <1>5, <1>6, <1>7, <1>8, <1>12, ProviderVerdict DEF Web!Verdict, Web!Middlewares
<1>13. CASE kind = "createWebhookRouter"
  <2>1. Web!Verdict(kind, secret, m, required, now)
           = Web!createWebhookRouter(secret, m, required, now)
    BY <1>13 DEF Web!Verdict
  <2>2. Web!createWebhookRouter(secret, m, required, now) = Web!Pass
          <=> /\ m.body = "event" /\ m.header = "x-revora-signature"
              /\ m.header # "none" /\ signed /\ (required => inTime)
    BY <1>2, <1>4, RouterVerdict
  <2>3. genuine <=> /\ m.body = "event" /\ m.header = "x-revora-signature"
                    /\ signed /\ (required => inTime)
    BY <1>7, <1>13 DEF Web!Middlewares
  <2>4. m.header = "x-revora-signature" => m.header # "none"
    OBVIOUS
  <2> QED  BY <1>8, <2>1, <2>2, <2>3, <2>4, RouterVerdict
<1>14. CASE kind = "createMultiTenantWebhookRouter"
  BY <1>4, <1>5, <1>7, <1>8, <1>14, TenantVerdict DEF Web!Verdict, Web!Middlewares
<1> QED  BY <1>10, <1>11, <1>12, <1>13, <1>14 DEF Web!FrontEnds, Web!Middlewares,
            Web!Routers

-----------------------------------------------------------------------------
(* Whatever the token and the session, a guard that names a user names the *)
(* subject of a token of the server's own, in force.                       *)
LEMMA TokensNameBearers ==
    ASSUME NEW guard \in Guards, NEW r, NEW s, NEW now \in Int,
           r.token.exp \in Int, r.token.iat \in Int, r.token.nbf \in Int, s.expires \in Int
    PROVE  NamesOnlyBearers(guard, r, s, now)
<1> DEFINE t == r.token
           u == Identify(guard, r, s, now).user
<1> SUFFICES ASSUME guard \in TokenGuards, u # NoUser
             PROVE  /\ r.header = "bearer" /\ t.secret = Ours /\ t.sub = u
                    /\ t.exp # NoClaim => now <= t.exp
                    /\ guard # "requireInvestor" =>
                           /\ t.exp # NoClaim => now < t.exp
                           /\ t.iat # NoClaim => t.iat - Tolerance <= now
                    /\ guard \in {"createRequireAuth", "createRequireAuthWithSession"} =>
                           s.found /\ now <= s.expires
  BY DEF NamesOnlyBearers
<1> USE TokenAssumption
<1>1. verifyToken(t, now) =>
         /\ t.secret = Ours
         /\ t.exp # NoClaim => now < t.exp
         /\ t.iat # NoClaim => t.iat - Tolerance <= now
  BY DEF verifyToken, jwtVerify, validateClaims
<1>2. CASE guard = "authMiddleware"
  BY <1>1, <1>2 DEF Identify, authMiddleware, Pass, Refuse
<1>3. CASE guard = "optionalAuthMiddleware"
  BY <1>1, <1>3 DEF Identify, optionalAuthMiddleware, Pass
<1>4. CASE guard = "requireInvestor"
  BY <1>4 DEF Identify, requireInvestor, verifyJwt, Pass, Refuse
<1>5. CASE guard = "createRequireAuth"
  BY <1>1, <1>5 DEF Identify, createRequireAuth, Pass, Refuse
<1>6. CASE guard = "createRequireAuthWithSession"
  BY <1>1, <1>6 DEF Identify, createRequireAuthWithSession, Pass, Refuse
<1> QED  BY <1>2, <1>3, <1>4, <1>5, <1>6 DEF Guards, TokenGuards

(* The guards let the server's own tokens through as long as they live.    *)
LEMMA OwnTokensAccepted ==
    ASSUME NEW guard \in Guards, NEW r, NEW s, NEW now \in Int,
           r.token.exp \in Int
    PROVE  OwnTokensPass(guard, r, s, now)
<1> USE TokenAssumption
<1>1. ASSUME NEW u \in Users, NEW use \in Uses, InForce(u, use, r, s, now),
             guard \in TokenGuards, guard = "createRequireAuth" => use = s.hash
      PROVE  Identify(guard, r, s, now) = Pass(u)
  <2> DEFINE t == r.token
  <2>5. PICK t0 \in (now - Lifetime + 1)..(now + Tolerance) :
               r.token = issueToken(u, "investor", use, t0)
    BY <1>1 DEF InForce
  <2>6. r.header = "bearer" /\ s.found /\ s.user = u /\ ~s.revoked /\ s.expires >= now
    BY <1>1 DEF InForce
  <2>1. /\ t.jwt /\ t.alg = "HS256" /\ t.secret = Ours /\ t.sub = u /\ t.sid /\ t.role = "investor"
        /\ t.iat = t0 /\ t.exp = t0 + Lifetime /\ t.nbf = NoClaim /\ t.use = use
    BY <2>5 DEF issueToken
  <2>2. /\ t0 \in Int /\ now < t0 + Lifetime /\ t0 <= now + Tolerance
        /\ now - Tolerance <= t0 + Lifetime
    BY <1>1
  <2>3. u # NoUser
    BY <1>1
  <2> HIDE DEF t
  <2>4. verifyToken(t, now) /\ verifyJwt(t, now)
    BY <2>1, <2>2, <2>3 DEF verifyToken, jwtVerify, validateClaims, verifyJwt
  <2> QED  BY <1>1, <2>1, <2>4, <2>6 DEF Identify, Guards, TokenGuards, authMiddleware,
           optionalAuthMiddleware,
           requireInvestor, createRequireAuth, createRequireAuthWithSession, t
<1>2. verifyToken(r.token, now) => verifyJwt(r.token, now) /\ utilsVerifyJwt(r.token, now)
  BY DEF verifyToken, jwtVerify, verifyJwt, utilsVerifyJwt
<1>3. ASSUME NEW t0 \in 0..now, NEW u \in Users, r.token = signJwt(u, t0)
      PROVE  utilsVerifyJwt(r.token, now) <=> now <= t0 + Lifetime
  BY <1>3 DEF signJwt, issueToken, utilsVerifyJwt, NoClaim
<1> QED  BY <1>1, <1>2, <1>3 DEF OwnTokensPass

(* What a run of MCCalculations may ask. *)
AllQuestions == WebQuestions \cup TokenQuestions \cup {Idle}

(* The question asked at the beginning of a run is the one answered.       *)
LEMMA QuestionStays == MCSpec => [](question \in AllQuestions)
<1>1. MCInit => question \in AllQuestions
  BY DEF MCInit, Nothing, AllQuestions
<1>2. question \in AllQuestions /\ [MCNext]_mcvars => (question \in AllQuestions)'
  BY DEF MCNext, Walk, Judge, Admit, mcvars
<1> QED  BY <1>1, <1>2, PTL DEF MCSpec

(* No guard that reads a token takes a request for that of a user without  *)
(* a token of that user, signed with the server's secret and in force      *)
(* (and, where there are sessions, a session), and each lets the server's  *)
(* own tokens through while they live, createRequireAuth those alone whose *)
(* hash their session holds: MCCalculations.TokensAreTheirBearers, at any  *)
(* time.  requireIssuerAuth reads no token, and nothing is said of it.     *)
THEOREM TokensNameTheirBearers == MCSpec => []TokensAreTheirBearers
<1>1. ASSUME question \in AllQuestions, question.kind = "token"
      PROVE  TokensMeanTheirBearer(question.guard, question.request, question.session, Now)
  <2> DEFINE t == question.request.token
             s == question.session
  <2>1. question \in TokenQuestions
    BY <1>1 DEF AllQuestions, WebQuestions, Idle
  <2>2. \A x \in Around : x \in Int
    BY NowAssumption DEF Around
  <2>3. question.guard \in Guards
    BY <2>1 DEF TokenQuestions
  <2>4. t \in Tokens(Around) \/ t \in OwnTokens
    BY <2>1 DEF TokenQuestions
  <2>5. t.exp \in Int /\ t.iat \in Int /\ t.nbf \in Int
    <3>1. CASE t \in Tokens(Around)
      BY <2>2, <3>1 DEF Tokens, NoClaim
    <3>2. CASE t \in OwnTokens
      BY <3>2, NowAssumption, TokenAssumption DEF OwnTokens, issueToken, NoClaim
    <3> QED  BY <2>4, <3>1, <3>2
  <2>6. s.expires \in Int
    <3>1. s \in Sessions(Around) \/ s = Standing
      BY <2>1 DEF TokenQuestions
    <3> QED  BY <2>2, <3>1, NowAssumption DEF Sessions, Standing
  <2> QED  BY <2>3, <2>5, <2>6, NowAssumption, TokensNameBearers, OwnTokensAccepted
           DEF TokensMeanTheirBearer
<1> QED  BY <1>1, QuestionStays, PTL DEF TokensAreTheirBearers

(* Whatever the headers, the stamp and the order of the checks, no front   *)
(* end runs a handler for a message that is not signed with the secret it  *)
(* holds for the sender, and none refuses a complete event so signed and   *)
(* stamped within the limit: MCCalculations.WebhooksAreSigned, for any set *)
(* of secrets, any maxAgeMs and any time.                                  *)
THEOREM WebhooksSigned == MCSpec => []WebhooksAreSigned
<1>1. ASSUME question \in AllQuestions, question.kind = "webhook"
      PROVE  Web!PassesOnlySigned(question.front, question.secret, question.message,
                                  question.required, Now)
  <2> DEFINE kind == question.front
             secret == question.secret
             m == question.message
             required == question.required
  <2>1. question \in WebQuestions
    BY <1>1 DEF AllQuestions, TokenQuestions, Idle
  <2>2. /\ kind \in Web!FrontEnds
        /\ secret \in Secrets \cup {Web!NoSecret, Web!ProviderFails}
        /\ m \in Web!Messages(0..Now + 1)
        /\ required \in BOOLEAN
        /\ secret \in Secrets \/ kind \in Web!HasProvider
    BY <2>1 DEF WebQuestions
  <2>3. Now \in Int /\ 0..Now + 1 \subseteq Int
    BY NowAssumption
  <2>4. m \in Web!Messages(Int)
    BY <2>2, <2>3 DEF Web!Messages
  <2>5. m.secret \in Secrets
    BY <2>4 DEF Web!Messages
  <2> HIDE DEF kind, secret, m, required
  <2>6. Web!LetsThrough(kind, secret, m, required, Now)
    BY <2>2, <2>3, <2>4, PassesExactly
  <2>7. Web!Routers \cap Web!Middlewares = {} /\ Web!FrontEnds = Web!Middlewares \cup Web!Routers
    BY DEF Web!Routers, Web!Middlewares, Web!FrontEnds
  <2> QED  BY <2>2, <2>5, <2>6, <2>7, ReceiverAssumption
           DEF Web!LetsThrough, Web!SignedFor, Web!PassesOnlySigned, kind, secret, m, required
<1> QED  BY <1>1, QuestionStays, PTL DEF WebhooksAreSigned

-----------------------------------------------------------------------------
(* The constants of Webhooks, and what is assumed of them there.           *)
WebhooksAssumption ==
    /\ MaxTries \in Nat \ {0}
    /\ Subscribed \in [Endpoints -> SUBSET Emissions]
    /\ RowSecret \in [Endpoints -> Secrets]
    /\ Receivers \subseteq [kind : Hook!FrontEnds, secret : Secrets, required : BOOLEAN]

(* The receivers behind the endpoints of Webhooks judge as those above.    *)
LEMMA SameMessages == Hook!Messages(Int) = Web!Messages(Int)
  BY DEF Hook!Messages, Hook!Headers, Hook!Bodies, Hook!NoStamp, Hook!BadStamp, Hook!FarStamp,
     Web!Messages, Web!Headers, Web!Bodies, Web!NoStamp, Web!BadStamp, Web!FarStamp

(* The same verdict on every message.                                      *)
LEMMA SameVerdict ==
    ASSUME NEW kind, NEW secret, NEW m, NEW required, NEW now
    PROVE  Hook!Verdict(kind, secret, m, required, now)
              = Web!Verdict(kind, secret, m, required, now)
  BY DEF Hook!Verdict, Web!Verdict, Hook!webhookAuth, Web!webhookAuth,
     Hook!webhookVerify, Web!webhookVerify, Hook!webhookAuthWithProvider,
     Web!webhookAuthWithProvider, Hook!createWebhookRouter, Web!createWebhookRouter,
     Hook!createMultiTenantWebhookRouter, Web!createMultiTenantWebhookRouter,
     Hook!verifyWebhook, Web!verifyWebhook, Hook!SignatureChecks, Web!SignatureChecks,
     Hook!FirstRefusal, Web!FirstRefusal, Hook!Check, Web!Check,
     Hook!extractSignatureFromHeaders, Web!extractSignatureFromHeaders,
     Hook!verifyWebhookPayload, Web!verifyWebhookPayload, Hook!DatePasses,
     Web!DatePasses, Hook!StampPasses, Web!StampPasses, Hook!InWindow, Web!InWindow,
     Hook!validateWebhookEvent, Web!validateWebhookEvent, Hook!Pass, Web!Pass,
     Hook!NoResponse, Web!NoResponse, Hook!NoSecret, Web!NoSecret, Hook!ProviderFails,
     Web!ProviderFails, Hook!FarStamp, Web!FarStamp

(* The same promise.                                                       *)
LEMMA SameJudgement ==
    ASSUME NEW kind, NEW secret, NEW m, NEW required, NEW now
    PROVE  Hook!LetsThrough(kind, secret, m, required, now)
              <=> Web!LetsThrough(kind, secret, m, required, now)
  BY SameVerdict DEF Hook!LetsThrough, Hook!SignedFor, Hook!Middlewares, Hook!Pass, Hook!Recent,
     Hook!FarStamp, Web!LetsThrough, Web!SignedFor, Web!Middlewares, Web!Pass, Web!FarStamp,
     Web!Recent

(* The parts of the inductive invariant of Webhooks about deliveries. *)
PartsConsistent ==
    /\ \A d \in Hook!Deliveries : Hook!DeliveryConsistent(d)
    /\ \A d \in Hook!Deliveries, n \in 1..MaxTries : Hook!WireConsistent(d, n)
    /\ \A d \in Hook!Deliveries, n \in 1..MaxTries, code \in Hook!HandlerAnswers :
          Hook!HandledConsistent(d, n, code)

(* What deliver posts gets past a receiver only if that is a middleware    *)
(* with the secret of the row, which asks for no timestamp.                *)
LEMMA VerdictOfEnvelope ==
    ASSUME WebhooksAssumption, Hook!TypeOK, NEW d \in Hook!Deliveries
    PROVE  /\ Hook!ReceiverVerdict(d) \in Codes \cup {Hook!Pass}
           /\ Hook!ReceiverVerdict(d) = Hook!Pass =>
                 LET r == receiver[d[2]]
                 IN  r.secret = RowSecret[d[2]] /\ r.kind \in Hook!Middlewares /\ ~r.required
<1> DEFINE r == receiver[d[2]]
           m == Hook!Envelope(d)
<1>1. d[2] \in Endpoints
  BY DEF Hook!Deliveries
<1>2. r \in [kind : Hook!FrontEnds, secret : Secrets, required : BOOLEAN]
  BY <1>1 DEF WebhooksAssumption, Hook!TypeOK
<1>3. RowSecret[d[2]] \in Secrets
  BY <1>1 DEF WebhooksAssumption
<1>4. /\ m.secret = RowSecret[d[2]] /\ m.stamp = Hook!NoStamp /\ m.body = "no data"
      /\ m \in Hook!Messages(Int)
  BY <1>3 DEF Hook!Envelope, Hook!Messages, Hook!Headers, Hook!Bodies
<1>5. r.kind \in Hook!FrontEnds /\ r.secret \in Secrets /\ r.required \in BOOLEAN
  BY <1>2
<1>6. Hook!ReceiverVerdict(d) = Hook!Verdict(r.kind, r.secret, m, r.required, 0)
  BY DEF Hook!ReceiverVerdict
<1> HIDE DEF r, m
<1>7. /\ Hook!ReceiverVerdict(d) \in Codes \cup {Hook!Pass}
      /\ Hook!LetsThrough(r.kind, r.secret, m, r.required, 0)
  <2>1. m \in Hook!Messages(Int)
    BY <1>4
  <2>2. r.secret \in Secrets \cup {Hook!NoSecret, Hook!ProviderFails}
    BY <1>5
  <2>3. m \in Web!Messages(Int)
    BY <2>1, SameMessages
  <2>4. r.secret \in Secrets \cup {Web!NoSecret, Web!ProviderFails}
    BY <1>5
  <2>5. r.kind \in Web!FrontEnds
    BY <1>5 DEF Web!FrontEnds, Web!Middlewares, Web!Routers, Hook!FrontEnds, Hook!Middlewares,
       Hook!Routers
  <2>6. /\ Web!Verdict(r.kind, r.secret, m, r.required, 0) \in Codes \cup {Web!Pass}
        /\ Web!LetsThrough(r.kind, r.secret, m, r.required, 0)
    BY <1>5, <2>3, <2>4, <2>5, PassesExactly
  <2> QED  BY <1>6, <2>6, SameVerdict, SameJudgement DEF Web!Pass, Hook!Pass
<1>8. Hook!ReceiverVerdict(d) = Hook!Pass =>
         /\ m.secret = r.secret /\ r.kind \in Hook!Middlewares /\ ~r.required
  <2> SUFFICES ASSUME Hook!ReceiverVerdict(d) = Hook!Pass
               PROVE  m.secret = r.secret /\ r.kind \in Hook!Middlewares /\ ~r.required
    OBVIOUS
  <2>1. Hook!SignedFor(r.kind, r.secret, m)
    BY <1>6, <1>7 DEF Hook!LetsThrough
  <2>2. m.secret = r.secret /\ r.kind \in Hook!Middlewares
    BY <1>4, <2>1 DEF Hook!SignedFor
  <2>3. r.kind # "createMultiTenantWebhookRouter"
    BY <2>2 DEF Hook!Middlewares
  <2>4. ~(m.stamp >= 0) /\ m.stamp # Hook!FarStamp
    <3>1. m.stamp = -1
      BY <1>4 DEF Hook!NoStamp
    <3> QED  BY <3>1 DEF Hook!FarStamp
  <2>5. ~r.required
    BY <1>5, <1>6, <1>7, <2>3, <2>4 DEF Hook!LetsThrough, Hook!Recent
  <2> QED  BY <2>2, <2>5
<1> QED  BY <1>4, <1>7, <1>8 DEF r

(* The initial states of Webhooks satisfy the inductive invariant.         *)
LEMMA DeliveriesBegin ==
    ASSUME WebhooksAssumption, Hook!Init
    PROVE  Hook!IInv
<1> USE DEF WebhooksAssumption, Hook!Init, Hook!NoAnswer
<1>1. Hook!TypeOK
  BY DEF Hook!TypeOK
<1>2. \A d \in Hook!Deliveries : Hook!DeliveryConsistent(d)
  BY DEF Hook!DeliveryConsistent
<1>3. \A d \in Hook!Deliveries, n \in 1..MaxTries : Hook!WireConsistent(d, n)
  BY DEF Hook!WireConsistent
<1>4. \A d \in Hook!Deliveries, n \in 1..MaxTries, code \in Hook!HandlerAnswers :
         Hook!HandledConsistent(d, n, code)
  BY DEF Hook!HandledConsistent
<1> QED  BY <1>1, <1>2, <1>3, <1>4 DEF Hook!IInv

(* The repository's changes of the table touch no delivery.                *)
LEMMA RowsIInv ==
    ASSUME WebhooksAssumption, Hook!IInv,
           NEW e \in Endpoints, Hook!create(e) \/ Hook!deactivate(e) \/ Hook!delete(e)
    PROVE  Hook!IInv'
<1>1. /\ UNCHANGED <<receiver, emission, targets, delivery, attempt, wire, answers, handled,
                    unanswered>>
      /\ \E state \in {"absent", "active", "inactive"} : rows' = [rows EXCEPT ![e] = state]
  BY DEF Hook!create, Hook!deactivate, Hook!delete, Hook!SetRow
<1> QED  BY <1>1 DEF Hook!IInv, Hook!TypeOK, Hook!DeliveryConsistent,
            Hook!WireConsistent, Hook!HandledConsistent, Hook!Past

(* Before the deliveries begin, emit changes only its own place and list.  *)
LEMMA EmissionIInv ==
    ASSUME WebhooksAssumption, Hook!IInv,
           NEW m \in Emissions, Hook!emit(m) \/ Hook!listActiveByEvent(m) \/ Hook!ListFails(m)
    PROVE  Hook!IInv'
<1>1. /\ UNCHANGED <<rows, receiver, delivery, attempt, wire, answers, handled, unanswered>>
      /\ emission[m] \in {"idle", "reading"}
      /\ \E place \in {"reading", "listed", "done"} :
            emission' = [emission EXCEPT ![m] = place]
      /\ \E T \in SUBSET Endpoints : targets' = [targets EXCEPT ![m] = T] \/ UNCHANGED targets
  BY DEF Hook!emit, Hook!listActiveByEvent, Hook!ListFails
<1>2. Hook!TypeOK'
  BY <1>1 DEF Hook!IInv, Hook!TypeOK
<1>3. \A d \in Hook!Deliveries : Hook!DeliveryConsistent(d)'
  BY <1>1 DEF Hook!IInv, Hook!TypeOK, Hook!DeliveryConsistent, Hook!Deliveries
<1> QED  BY <1>1, <1>2, <1>3 DEF Hook!IInv, Hook!WireConsistent, Hook!HandledConsistent,
            Hook!Past

(* emit starts a first attempt for every endpoint it read.                 *)
LEMMA BeginIInv ==
    ASSUME WebhooksAssumption, Hook!IInv,
           NEW m \in Emissions, Hook!BeginDeliveries(m)
    PROVE  Hook!IInv'
<1> USE DEF WebhooksAssumption, Hook!NoAnswer
<1>1. Hook!Started(m) \subseteq Hook!Deliveries /\ \A d \in Hook!Started(m) : d[1] = m
  BY DEF Hook!Started
<1>2. \A d \in Hook!Started(m) : delivery[d] = "none" /\ attempt[d] = 0
  BY <1>1 DEF Hook!IInv, Hook!DeliveryConsistent, Hook!BeginDeliveries
<1>3. Hook!TypeOK'
  BY <1>1 DEF Hook!IInv, Hook!TypeOK, Hook!BeginDeliveries
<1>4. \A d \in Hook!Deliveries :
         /\ delivery'[d] = IF d \in Hook!Started(m) THEN "sending" ELSE delivery[d]
         /\ attempt'[d] = IF d \in Hook!Started(m) THEN 1 ELSE attempt[d]
  BY DEF Hook!BeginDeliveries
<1>5. /\ wire' = wire \cup {<<d, 1>> : d \in Hook!Started(m)}
      /\ emission' = [emission EXCEPT ![m] = "done"]
      /\ UNCHANGED <<answers, handled, unanswered>>
  BY DEF Hook!BeginDeliveries
<1>6. \A d \in Hook!Deliveries, n \in 1..MaxTries :
         <<d, n>> \in wire' <=> <<d, n>> \in wire \/ (d \in Hook!Started(m) /\ n = 1)
  BY <1>5
<1>7. ASSUME NEW d \in Hook!Deliveries PROVE Hook!DeliveryConsistent(d)'
  <2>1. /\ Hook!DeliveryConsistent(d) /\ attempt[d] \in 0..MaxTries
        /\ emission \in [Emissions -> {"idle", "reading", "listed", "done"}]
        /\ d[1] \in Emissions
    BY DEF Hook!IInv, Hook!TypeOK, Hook!Deliveries
  <2>2. CASE d \in Hook!Started(m)
    BY <1>1, <1>2, <1>4, <1>5, <2>1, <2>2 DEF Hook!DeliveryConsistent
  <2>3. CASE d \notin Hook!Started(m)
    <3>1. <<d, attempt[d]>> \in wire' => <<d, attempt[d]>> \in wire
      BY <1>5, <2>3
    <3> QED  BY <1>4, <1>5, <2>1, <2>3, <3>1 DEF Hook!DeliveryConsistent
  <2> QED  BY <2>2, <2>3
<1>8. ASSUME NEW d \in Hook!Deliveries, NEW n \in 1..MaxTries PROVE Hook!WireConsistent(d, n)'
  <2>1. Hook!WireConsistent(d, n) /\ attempt[d] \in 0..MaxTries
    BY DEF Hook!IInv, Hook!TypeOK
  <2> QED  BY <1>2, <1>4, <1>5, <1>6, <2>1 DEF Hook!WireConsistent, Hook!Past
<1>9. ASSUME NEW d \in Hook!Deliveries, NEW n \in 1..MaxTries, NEW code \in Hook!HandlerAnswers
      PROVE  Hook!HandledConsistent(d, n, code)'
  <2>1. Hook!HandledConsistent(d, n, code) /\ attempt[d] \in 0..MaxTries
    BY DEF Hook!IInv, Hook!TypeOK
  <2> QED  BY <1>2, <1>4, <1>5, <1>6, <2>1 DEF Hook!HandledConsistent, Hook!Past
<1> QED  BY <1>3, <1>7, <1>8, <1>9 DEF Hook!IInv

(* A request arrives, perhaps long after its attempt was given up: it is   *)
(* on the wire, so it has not been handled, and is unanswered if it is     *)
(* past.                                                                   *)
LEMMA ReceiveIInv ==
    ASSUME WebhooksAssumption, Hook!IInv,
           NEW d \in Hook!Deliveries, NEW n \in 1..MaxTries,
           NEW code \in Hook!HandlerAnswers \cup {400, 401, 403, 404}, Hook!Receive(d, n, code)
    PROVE  Hook!IInv'
<1> USE DEF WebhooksAssumption, Hook!NoAnswer
<1> DEFINE asked == delivery[d] = "sending" /\ attempt[d] = n
<1>1. Hook!TypeOK /\ PartsConsistent
  BY DEF Hook!IInv, PartsConsistent
<1>2. \/ /\ Hook!ReceiverVerdict(d) = Hook!Pass /\ code \in Hook!HandlerAnswers
         /\ handled' = handled \cup {<<d, n, code>>}
      \/ /\ Hook!ReceiverVerdict(d) # Hook!Pass /\ code \notin {200, 422, Hook!Pass}
         /\ handled' = handled
  BY <1>1, VerdictOfEnvelope DEF Hook!Receive, Codes, Hook!Pass, Web!NoResponse
<1>3. /\ <<d, n>> \in wire /\ wire' = wire \ {<<d, n>>}
      /\ answers' = IF asked THEN [answers EXCEPT ![d] = code] ELSE answers
      /\ UNCHANGED <<rows, receiver, emission, targets, delivery, attempt, unanswered>>
  BY DEF Hook!Receive
<1>4. code # Hook!NoAnswer /\ code \in {200, 400, 401, 403, 404, 422, 429, 500}
  BY DEF Hook!HandlerAnswers
<1>5. Hook!TypeOK'
  <2>1. handled' \subseteq Hook!Deliveries \X (1..MaxTries) \X Hook!HandlerAnswers
    BY <1>1, <1>2 DEF Hook!TypeOK
  <2> QED  BY <1>1, <1>3, <1>4, <2>1 DEF Hook!TypeOK
<1>6. n <= attempt[d] /\ (Hook!Past(d, n) => <<d, n>> \in unanswered)
  BY <1>1, <1>3 DEF PartsConsistent, Hook!WireConsistent
<1>7. \A c \in Hook!HandlerAnswers : <<d, n, c>> \notin handled
  BY <1>1, <1>3 DEF PartsConsistent, Hook!HandledConsistent
<1>8. ASSUME NEW x \in Hook!Deliveries PROVE Hook!DeliveryConsistent(x)'
  <2>1. Hook!DeliveryConsistent(x)
    BY <1>1 DEF PartsConsistent
  <2>2. CASE asked /\ x = d
    <3>1. answers'[x] = code
      BY <1>1, <1>3, <2>2 DEF Hook!TypeOK
    <3>2. code = 200 => <<x, n, 200>> \in handled'
      BY <1>2, <2>2
    <3> QED  BY <1>2, <1>3, <2>1, <2>2, <3>1, <3>2 DEF Hook!DeliveryConsistent
  <2>3. CASE ~(asked /\ x = d)
    <3>1. answers'[x] = answers[x]
      BY <1>1, <1>3, <2>3 DEF Hook!TypeOK
    <3>2. handled \subseteq handled' /\ wire' \subseteq wire
      BY <1>2, <1>3
    <3> QED  BY <1>3, <2>1, <3>1, <3>2 DEF Hook!DeliveryConsistent
  <2> QED  BY <2>2, <2>3
<1>9. ASSUME NEW x \in Hook!Deliveries, NEW i \in 1..MaxTries PROVE Hook!WireConsistent(x, i)'
  <2>1. Hook!WireConsistent(x, i)
    BY <1>1 DEF PartsConsistent
  <2> QED  BY <1>3, <2>1 DEF Hook!WireConsistent, Hook!Past
<1>10. ASSUME NEW x \in Hook!Deliveries, NEW i \in 1..MaxTries, NEW c \in Hook!HandlerAnswers
       PROVE  Hook!HandledConsistent(x, i, c)'
  <2>1. Hook!HandledConsistent(x, i, c)
    BY <1>1 DEF PartsConsistent
  <2>2. <<x, i, c>> \in handled' => <<x, i, c>> \in handled \/ (x = d /\ i = n /\ c = code)
    BY <1>2
  <2>3. <<x, i, c>> \in handled => x # d \/ i # n
    BY <1>7
  <2>4. (x # d \/ i # n) /\ i = attempt[x] /\ delivery[x] = "sending" => answers'[x] = answers[x]
    BY <1>1, <1>3 DEF Hook!TypeOK
  <2>5. CASE x = d /\ i = n
    <3>1. asked => answers'[x] = code
      BY <1>1, <1>3, <2>5 DEF Hook!TypeOK
    <3> QED  BY <1>3, <1>6, <2>2, <2>3, <2>5, <3>1 DEF Hook!HandledConsistent, Hook!Past
  <2>6. CASE x # d \/ i # n
    BY <1>3, <2>1, <2>2, <2>4, <2>6 DEF Hook!HandledConsistent, Hook!Past
  <2> QED  BY <2>5, <2>6
<1> QED  BY <1>5, <1>8, <1>9, <1>10 DEF Hook!IInv

(* A lost request.                                                         *)
LEMMA DropIInv ==
    ASSUME WebhooksAssumption, Hook!IInv,
           NEW d \in Hook!Deliveries, NEW n \in 1..MaxTries, Hook!Drop(d, n)
    PROVE  Hook!IInv'
<1>1. /\ wire' \subseteq wire
      /\ UNCHANGED <<rows, receiver, emission, targets, delivery, attempt, answers, handled,
                     unanswered>>
  BY DEF Hook!Drop
<1> QED  BY <1>1 DEF Hook!IInv, Hook!TypeOK, Hook!DeliveryConsistent,
            Hook!WireConsistent, Hook!HandledConsistent, Hook!Past

(* The end of an attempt: success, failure, or a wait for the next one. *)
LEMMA EndIInv ==
    ASSUME WebhooksAssumption, Hook!IInv,
           NEW d \in Hook!Deliveries, delivery[d] = "sending",
           NEW place \in {"delivered", "failed", "waiting"},
           delivery' = [delivery EXCEPT ![d] = place],
           place = "delivered" => <<d, attempt[d], 200>> \in handled,
           place = "waiting" => attempt[d] < MaxTries,
           unanswered \subseteq unanswered', unanswered' \subseteq Hook!Deliveries \X (1..MaxTries),
           \/ <<d, attempt[d]>> \in unanswered'
           \/ answers[d] # Hook!NoAnswer /\ (place = "waiting" => answers[d] \notin {200, 422}),
           answers' = [answers EXCEPT ![d] = Hook!NoAnswer],
           UNCHANGED <<rows, receiver, emission, targets, attempt, wire, handled>>
    PROVE  Hook!IInv'
<1> USE DEF WebhooksAssumption, Hook!NoAnswer
<1>1. Hook!TypeOK /\ PartsConsistent
  BY DEF Hook!IInv, PartsConsistent
<1>2. Hook!TypeOK'
  BY <1>1 DEF Hook!TypeOK
<1>3. /\ \A x \in Hook!Deliveries : delivery'[x] = IF x = d THEN place ELSE delivery[x]
      /\ \A x \in Hook!Deliveries : answers'[x] = IF x = d THEN Hook!NoAnswer ELSE answers[x]
      /\ attempt[d] \in 0..MaxTries
  BY <1>1 DEF Hook!TypeOK
<1>4. ASSUME NEW x \in Hook!Deliveries PROVE Hook!DeliveryConsistent(x)'
  <2>1. Hook!DeliveryConsistent(x)
    BY <1>1 DEF PartsConsistent
  <2> QED  BY <1>3, <2>1 DEF Hook!DeliveryConsistent
<1>5. ASSUME NEW x \in Hook!Deliveries, NEW i \in 1..MaxTries PROVE Hook!WireConsistent(x, i)'
  <2>1. Hook!WireConsistent(x, i) /\ Hook!DeliveryConsistent(x)
    BY <1>1 DEF PartsConsistent
  <2> QED  BY <1>3, <2>1 DEF Hook!WireConsistent, Hook!DeliveryConsistent, Hook!Past
<1>6. ASSUME NEW x \in Hook!Deliveries, NEW i \in 1..MaxTries, NEW c \in Hook!HandlerAnswers
      PROVE  Hook!HandledConsistent(x, i, c)'
  <2>1. Hook!HandledConsistent(x, i, c) /\ Hook!DeliveryConsistent(x)
    BY <1>1 DEF PartsConsistent
  <2> QED  BY <1>3, <2>1 DEF Hook!HandledConsistent, Hook!DeliveryConsistent, Hook!Past
<1> QED  BY <1>2, <1>4, <1>5, <1>6 DEF Hook!IInv

(* fetch resolves.                                                         *)
LEMMA AnsweredIInv ==
    ASSUME WebhooksAssumption, Hook!IInv,
           NEW d \in Hook!Deliveries, Hook!Answered(d)
    PROVE  Hook!IInv'
<1>1. Hook!TypeOK /\ Hook!DeliveryConsistent(d)
  BY DEF Hook!IInv
<1>2. /\ delivery[d] = "sending" /\ answers[d] # Hook!NoAnswer
      /\ answers' = [answers EXCEPT ![d] = Hook!NoAnswer]
      /\ UNCHANGED <<rows, receiver, emission, targets, attempt, wire, handled, unanswered>>
  BY DEF Hook!Answered
<1>3. answers[d] \in {Hook!NoAnswer, 200, 400, 401, 403, 404, 422, 429, 500}
  BY <1>1 DEF Hook!TypeOK
<1>4. CASE Hook!isOk(answers[d])
  <2>1. delivery' = [delivery EXCEPT ![d] = "delivered"]
    BY <1>4 DEF Hook!Answered, Hook!isOk, Hook!nonRetryable
  <2>2. <<d, attempt[d], 200>> \in handled
    BY <1>1, <1>2, <1>4 DEF Hook!DeliveryConsistent, Hook!isOk
  <2> QED  BY <1>1, <1>2, <2>1, <2>2, EndIInv DEF Hook!TypeOK
<1>5. CASE Hook!nonRetryable(answers[d])
  <2>1. delivery' = [delivery EXCEPT ![d] = "failed"]
    BY <1>5 DEF Hook!Answered, Hook!isOk, Hook!nonRetryable
  <2> QED  BY <1>1, <1>2, <2>1, EndIInv DEF Hook!TypeOK
<1>6. CASE ~Hook!isOk(answers[d]) /\ ~Hook!nonRetryable(answers[d])
  <2>1. answers[d] \notin {200, 422}
    BY <1>6 DEF Hook!isOk, Hook!nonRetryable
  <2>2. Hook!AfterFailure(d)
    BY <1>6 DEF Hook!Answered
  <2>3. CASE attempt[d] < MaxTries
    BY <1>1, <1>2, <2>1, <2>2, <2>3, EndIInv DEF Hook!AfterFailure, Hook!TypeOK
  <2>4. CASE ~(attempt[d] < MaxTries)
    BY <1>1, <1>2, <2>1, <2>2, <2>4, EndIInv DEF Hook!AfterFailure, Hook!TypeOK
  <2> QED  BY <2>3, <2>4
<1> QED  BY <1>4, <1>5, <1>6

(* fetch rejects.                                                          *)
LEMMA UnansweredIInv ==
    ASSUME WebhooksAssumption, Hook!IInv,
           NEW d \in Hook!Deliveries, Hook!Unanswered(d)
    PROVE  Hook!IInv'
<1>1. Hook!TypeOK /\ Hook!DeliveryConsistent(d)
  BY DEF Hook!IInv
<1>2. /\ delivery[d] = "sending"
      /\ answers' = [answers EXCEPT ![d] = Hook!NoAnswer]
      /\ unanswered' = unanswered \cup {<<d, attempt[d]>>}
      /\ UNCHANGED <<rows, receiver, emission, targets, attempt, wire, handled>>
  BY DEF Hook!Unanswered
<1>3. attempt[d] \in 1..MaxTries
  BY <1>1, <1>2 DEF WebhooksAssumption, Hook!TypeOK, Hook!DeliveryConsistent
<1>4. unanswered' \subseteq Hook!Deliveries \X (1..MaxTries)
  BY <1>1, <1>2, <1>3 DEF Hook!TypeOK
<1>5. CASE attempt[d] < MaxTries
  BY <1>2, <1>4, <1>5, EndIInv DEF Hook!Unanswered, Hook!AfterFailure
<1>6. CASE ~(attempt[d] < MaxTries)
  BY <1>2, <1>4, <1>6, EndIInv DEF Hook!Unanswered, Hook!AfterFailure
<1> QED  BY <1>5, <1>6

(* The next attempt is posted, while earlier ones may still be on the      *)
(* wire.                                                                   *)
LEMMA RetryIInv ==
    ASSUME WebhooksAssumption, Hook!IInv,
           NEW d \in Hook!Deliveries, Hook!Retry(d)
    PROVE  Hook!IInv'
<1> USE DEF WebhooksAssumption, Hook!NoAnswer
<1>1. Hook!TypeOK /\ PartsConsistent
  BY DEF Hook!IInv, PartsConsistent
<1>2. /\ delivery[d] = "waiting" /\ attempt[d] \in 0..MaxTries /\ attempt[d] < MaxTries
      /\ attempt[d] # 0
  <2>1. delivery[d] = "waiting" /\ attempt[d] \in 0..MaxTries
    BY <1>1 DEF Hook!TypeOK, Hook!Retry
  <2>2. Hook!DeliveryConsistent(d)
    BY <1>1 DEF PartsConsistent
  <2> QED  BY <2>1, <2>2 DEF Hook!DeliveryConsistent
<1>3. /\ wire' = wire \cup {<<d, attempt[d] + 1>>}
      /\ UNCHANGED <<rows, receiver, emission, targets, answers, handled, unanswered>>
      /\ \A x \in Hook!Deliveries : attempt'[x] = IF x = d THEN attempt[d] + 1 ELSE attempt[x]
      /\ \A x \in Hook!Deliveries : delivery'[x] = IF x = d THEN "sending" ELSE delivery[x]
  BY <1>1 DEF Hook!Retry, Hook!TypeOK
<1>4. Hook!TypeOK'
  BY <1>1, <1>2 DEF Hook!TypeOK, Hook!Retry
<1>5. ASSUME NEW x \in Hook!Deliveries PROVE Hook!DeliveryConsistent(x)'
  <2>1. Hook!DeliveryConsistent(x) /\ Hook!DeliveryConsistent(d)
    BY <1>1 DEF PartsConsistent
  <2>2. CASE x = d
    BY <1>2, <1>3, <2>1, <2>2 DEF Hook!DeliveryConsistent
  <2>3. CASE x # d
    <3>1. <<x, attempt[x]>> \in wire' => <<x, attempt[x]>> \in wire
      BY <1>3, <2>3
    <3> QED  BY <1>3, <2>1, <2>3, <3>1 DEF Hook!DeliveryConsistent
  <2> QED  BY <2>2, <2>3
<1>6. ASSUME NEW x \in Hook!Deliveries, NEW i \in 1..MaxTries PROVE Hook!WireConsistent(x, i)'
  <2>1. Hook!WireConsistent(x, i) /\ attempt[x] \in 0..MaxTries
    BY <1>1 DEF PartsConsistent, Hook!TypeOK
  <2>2. <<x, i>> \in wire' <=> <<x, i>> \in wire \/ (x = d /\ i = attempt[d] + 1)
    BY <1>3
  <2> QED  BY <1>2, <1>3, <2>1, <2>2 DEF Hook!WireConsistent, Hook!Past
<1>7. ASSUME NEW x \in Hook!Deliveries, NEW i \in 1..MaxTries, NEW c \in Hook!HandlerAnswers
      PROVE  Hook!HandledConsistent(x, i, c)'
  <2>1. Hook!HandledConsistent(x, i, c) /\ attempt[x] \in 0..MaxTries
    BY <1>1 DEF PartsConsistent, Hook!TypeOK
  <2>2. <<x, i>> \in wire' <=> <<x, i>> \in wire \/ (x = d /\ i = attempt[d] + 1)
    BY <1>3
  <2> QED  BY <1>2, <1>3, <2>1, <2>2 DEF Hook!HandledConsistent, Hook!Past
<1> QED  BY <1>4, <1>5, <1>6, <1>7 DEF Hook!IInv

(* The sender forgets its deliveries; the wire and the receiver do not.    *)
LEMMA SenderCrashIInv ==
    ASSUME WebhooksAssumption, Hook!IInv, Hook!Crash
    PROVE  Hook!IInv'
<1> USE DEF Hook!NoAnswer
<1>1. Hook!TypeOK /\ PartsConsistent
  BY DEF Hook!IInv, PartsConsistent
<1>2. /\ UNCHANGED <<rows, receiver, targets, attempt, wire, handled, unanswered>>
      /\ \A m \in Emissions : emission'[m] = IF emission[m] \in {"reading", "listed"} THEN "done"
                                             ELSE emission[m]
      /\ \A x \in Hook!Deliveries :
            /\ delivery'[x] = IF delivery[x] \in {"sending", "waiting"} THEN "forgotten"
                              ELSE delivery[x]
            /\ answers'[x] = Hook!NoAnswer
  BY DEF Hook!Crash
<1>3. Hook!TypeOK'
  BY <1>1 DEF Hook!TypeOK, Hook!Crash
<1>4. ASSUME NEW x \in Hook!Deliveries PROVE Hook!DeliveryConsistent(x)'
  <2>1. Hook!DeliveryConsistent(x) /\ x[1] \in Emissions
    BY <1>1 DEF PartsConsistent, Hook!Deliveries
  <2> QED  BY <1>2, <2>1 DEF Hook!DeliveryConsistent
<1>5. ASSUME NEW x \in Hook!Deliveries, NEW i \in 1..MaxTries PROVE Hook!WireConsistent(x, i)'
  <2>1. Hook!WireConsistent(x, i)
    BY <1>1 DEF PartsConsistent
  <2> QED  BY <1>2, <2>1 DEF Hook!WireConsistent, Hook!Past
<1>6. ASSUME NEW x \in Hook!Deliveries, NEW i \in 1..MaxTries, NEW c \in Hook!HandlerAnswers
      PROVE  Hook!HandledConsistent(x, i, c)'
  <2>1. Hook!HandledConsistent(x, i, c)
    BY <1>1 DEF PartsConsistent
  <2> QED  BY <1>2, <2>1 DEF Hook!HandledConsistent, Hook!Past
<1> QED  BY <1>3, <1>4, <1>5, <1>6 DEF Hook!IInv

(* Every step preserves the inductive invariant.                           *)
LEMMA DeliveriesGoOn ==
    ASSUME WebhooksAssumption, Hook!IInv, [Hook!Next]_(Hook!vars)
    PROVE  Hook!IInv'
<1>1. CASE UNCHANGED Hook!vars
  BY <1>1 DEF Hook!vars, Hook!IInv, Hook!TypeOK, Hook!DeliveryConsistent,
     Hook!WireConsistent, Hook!HandledConsistent, Hook!Past
<1>2. ASSUME NEW e \in Endpoints, Hook!create(e) \/ Hook!deactivate(e) \/ Hook!delete(e)
      PROVE  Hook!IInv'
  BY <1>2, RowsIInv
<1>3. ASSUME NEW m \in Emissions, Hook!emit(m) \/ Hook!EmissionStep(m) PROVE Hook!IInv'
  BY <1>3, EmissionIInv, BeginIInv DEF Hook!EmissionStep
<1>4. ASSUME NEW d \in Hook!Deliveries, Hook!DeliveryStep(d) PROVE Hook!IInv'
  BY <1>4, AnsweredIInv, UnansweredIInv, RetryIInv DEF Hook!DeliveryStep
<1>5. ASSUME NEW d \in Hook!Deliveries, NEW n \in 1..MaxTries, Hook!Drop(d, n) PROVE Hook!IInv'
  BY <1>5, DropIInv
<1>6. ASSUME NEW d \in Hook!Deliveries, NEW n \in 1..MaxTries,
             NEW code \in Hook!HandlerAnswers \cup {400, 401, 403, 404}, Hook!Receive(d, n, code)
      PROVE  Hook!IInv'
  BY <1>6, ReceiveIInv
<1>7. CASE Hook!Crash
  BY <1>7, SenderCrashIInv
<1> QED  BY <1>1, <1>2, <1>3, <1>4, <1>5, <1>6, <1>7 DEF Hook!Next

(* The inductive invariant of Webhooks holds of every state it reaches.    *)
THEOREM DeliveriesInvariance ==
    ASSUME WebhooksAssumption
    PROVE  Hook!Spec => []Hook!IInv
<1>1. Hook!Init => Hook!IInv
  BY DeliveriesBegin
<1>2. Hook!IInv /\ [Hook!Next]_(Hook!vars) => Hook!IInv'
  BY DeliveriesGoOn
<1> QED  BY <1>1, <1>2, PTL DEF Hook!Spec

(* emit, deliver, the table and the receiver keep every variable in its    *)
(* set.                                                                    *)
THEOREM DeliveriesTypeCorrect ==
    ASSUME WebhooksAssumption
    PROVE  Hook!Spec => []Hook!TypeOK
<1>1. Hook!IInv => Hook!TypeOK
  BY DEF Hook!IInv
<1> QED  BY <1>1, DeliveriesInvariance, PTL

(* deliver reports success only of an event whose handler answered 2xx in  *)
(* the attempt answered last: no late answer to an earlier attempt is      *)
(* taken for it.                                                           *)
THEOREM SuccessMeansHandled ==
    ASSUME WebhooksAssumption
    PROVE  Hook!Spec => []SuccessIsHandled
<1>1. Hook!IInv => SuccessIsHandled
  BY DEF Hook!IInv, Hook!DeliveryConsistent, Hook!Deliveries, SuccessIsHandled, Deliveries
<1> QED  BY <1>1, DeliveriesInvariance, PTL

(* An event that was processed, or refused for good, is posted again only  *)
(* when the sender never saw the answer.                                   *)
THEOREM RepeatsOnlyUnseen ==
    ASSUME WebhooksAssumption
    PROVE  Hook!Spec => []RepeatsAreUnseen
<1>1. Hook!IInv => RepeatsAreUnseen
  <2> SUFFICES ASSUME Hook!IInv, NEW d \in Hook!Deliveries,
                      NEW i \in 1..MaxTries, NEW j \in 1..MaxTries,
                      i < j, <<d, i, 200>> \in handled \/ <<d, i, 422>> \in handled,
                      j <= attempt[d]
               PROVE  <<d, i>> \in unanswered
    BY DEF RepeatsAreUnseen, Deliveries, Hook!Deliveries
  <2>1. /\ attempt[d] \in 0..MaxTries
        /\ Hook!HandledConsistent(d, i, 200) /\ Hook!HandledConsistent(d, i, 422)
    BY DEF Hook!IInv, Hook!TypeOK, Hook!HandlerAnswers
  <2>2. Hook!Past(d, i)
    BY <2>1 DEF WebhooksAssumption, Hook!Past
  <2> QED  BY <2>1, <2>2 DEF Hook!HandledConsistent
<1> QED  BY <1>1, DeliveriesInvariance, PTL

(* The handler of a receiver runs only for an endpoint whose secret it     *)
(* has, and only behind a middleware: never behind the repository's own    *)
(* routers.                                                                *)
THEOREM HandledOnlySigned ==
    ASSUME WebhooksAssumption
    PROVE  Hook!Spec => []HandledIsSigned
<1>1. Hook!Init => HandledIsSigned
  BY DEF Hook!Init, HandledIsSigned
<1>2. Hook!IInv /\ HandledIsSigned /\ [Hook!Next]_(Hook!vars) => HandledIsSigned'
  <2> SUFFICES ASSUME Hook!IInv, HandledIsSigned, [Hook!Next]_(Hook!vars)
               PROVE  HandledIsSigned'
    OBVIOUS
  <2>1. receiver' = receiver
    BY DEF Hook!Next, Hook!vars, Hook!create, Hook!deactivate, Hook!delete, Hook!SetRow,
       Hook!emit, Hook!EmissionStep, Hook!listActiveByEvent, Hook!ListFails,
       Hook!BeginDeliveries, Hook!DeliveryStep, Hook!Answered, Hook!Unanswered,
       Hook!Retry, Hook!Drop, Hook!Receive, Hook!Crash
  <2>2. \/ handled' = handled
        \/ \E d \in Hook!Deliveries, n \in 1..MaxTries, code \in Hook!HandlerAnswers :
              handled' = handled \cup {<<d, n, code>>} /\ Hook!ReceiverVerdict(d) = Hook!Pass
    <3>1. ASSUME NEW d \in Hook!Deliveries, NEW n \in 1..MaxTries,
                 NEW code \in Hook!HandlerAnswers \cup {400, 401, 403, 404},
                 Hook!Receive(d, n, code)
          PROVE  \/ handled' = handled
                 \/ /\ Hook!ReceiverVerdict(d) = Hook!Pass /\ code \in Hook!HandlerAnswers
                    /\ handled' = handled \cup {<<d, n, code>>}
      BY <3>1 DEF Hook!Receive
    <3>2. CASE \A d \in Hook!Deliveries, n \in 1..MaxTries,
                 code \in Hook!HandlerAnswers \cup {400, 401, 403, 404} : ~Hook!Receive(d, n, code)
      <4>1. CASE UNCHANGED Hook!vars
        BY <4>1 DEF Hook!vars
      <4>2. ASSUME NEW e \in Endpoints, Hook!create(e) \/ Hook!deactivate(e) \/ Hook!delete(e)
            PROVE  handled' = handled
        BY <4>2 DEF Hook!create, Hook!deactivate, Hook!delete, Hook!SetRow
      <4>3. ASSUME NEW m \in Emissions, Hook!emit(m) \/ Hook!EmissionStep(m)
            PROVE  handled' = handled
        BY <4>3 DEF Hook!emit, Hook!EmissionStep, Hook!listActiveByEvent, Hook!ListFails,
           Hook!BeginDeliveries
      <4>4. ASSUME NEW d \in Hook!Deliveries, Hook!DeliveryStep(d)
            PROVE  handled' = handled
        BY <4>4 DEF Hook!DeliveryStep, Hook!Answered, Hook!Unanswered, Hook!Retry
      <4>5. ASSUME NEW d \in Hook!Deliveries, NEW n \in 1..MaxTries, Hook!Drop(d, n)
            PROVE  handled' = handled
        BY <4>5 DEF Hook!Drop
      <4>6. CASE Hook!Crash
        BY <4>6 DEF Hook!Crash
      <4> QED  BY <3>2, <4>1, <4>2, <4>3, <4>4, <4>5, <4>6 DEF Hook!Next
    <3> QED  BY <3>1, <3>2
  <2>3. CASE handled' = handled
    BY <2>1, <2>3 DEF HandledIsSigned
  <2>4. ASSUME NEW d \in Hook!Deliveries, NEW n \in 1..MaxTries, NEW code \in Hook!HandlerAnswers,
               handled' = handled \cup {<<d, n, code>>}, Hook!ReceiverVerdict(d) = Hook!Pass
        PROVE  HandledIsSigned'
    <3>1. LET r == receiver[d[2]]
          IN  r.secret = RowSecret[d[2]] /\ r.kind \in Hook!Middlewares /\ ~r.required
      BY <2>4, VerdictOfEnvelope DEF Hook!IInv
    <3> QED  BY <2>1, <2>4, <3>1 DEF HandledIsSigned, Hook!Middlewares
  <2> QED  BY <2>2, <2>3, <2>4
<1> QED  BY <1>1, <1>2, DeliveriesInvariance, PTL DEF Hook!Spec

-----------------------------------------------------------------------------
(* The constants of Idempotency, and what is assumed of them there.        *)
IdempotencyAssumption ==
    /\ NoKey \notin Keys
    /\ Requests \cap {"none", "conflict"} = {}
    /\ MayExpire \in BOOLEAN

(* The steps that preserve the inductive invariant: a lemma per action, a  *)
(* step of its proof per conjunct.                                         *)
USE DEF Idem!PCs, Idem!Outcomes, Idem!Answers

LEMMA PassThroughIInv ==
    ASSUME IdempotencyAssumption, Idem!IInv, NEW r \in Requests, Idem!PassThrough(r)
    PROVE  Idem!IInv'
<1> USE DEF Idem!IInv, IdempotencyAssumption
<1>1. Idem!TypeOK'
  BY DEF Idem!TypeOK, Idem!PassThrough, Idem!GoTo
<1>2. Idem!ReservedMeansHeld'
  BY DEF Idem!TypeOK, Idem!ReservedMeansHeld, Idem!OneHolder, Idem!Holders,
     Idem!PassThrough, Idem!GoTo
<1>3. Idem!OneHolder'
  BY DEF Idem!TypeOK, Idem!OneHolder, Idem!ReservedMeansHeld, Idem!Holders,
     Idem!PassThrough, Idem!GoTo
<1>4. Idem!RecordsConsistent'
  BY DEF Idem!TypeOK, Idem!RecordsConsistent, Idem!HistoryConsistent,
     Idem!ReservedMeansHeld, Idem!Holders, Idem!PassThrough, Idem!GoTo
<1>5. Idem!HistoryConsistent'
  BY DEF Idem!TypeOK, Idem!HistoryConsistent, Idem!RecordsConsistent,
     Idem!ReservedMeansHeld, Idem!Holders, Idem!PassThrough, Idem!GoTo
<1> QED  BY <1>1, <1>2, <1>3, <1>4, <1>5

LEMMA ReplayIInv ==
    ASSUME IdempotencyAssumption, Idem!IInv, NEW r \in Requests, Idem!Replay(r)
    PROVE  Idem!IInv'
<1> USE DEF Idem!IInv, IdempotencyAssumption
<1>1. Idem!TypeOK'
  BY DEF Idem!TypeOK, Idem!Replay, Idem!GoTo
<1>2. Idem!ReservedMeansHeld'
  BY DEF Idem!TypeOK, Idem!ReservedMeansHeld, Idem!OneHolder, Idem!Holders, Idem!Replay,
     Idem!GoTo
<1>3. Idem!OneHolder'
  BY DEF Idem!TypeOK, Idem!OneHolder, Idem!ReservedMeansHeld, Idem!Holders, Idem!Replay,
     Idem!GoTo
<1>4. Idem!RecordsConsistent'
  BY DEF Idem!TypeOK, Idem!RecordsConsistent, Idem!HistoryConsistent,
     Idem!ReservedMeansHeld, Idem!Holders, Idem!Replay, Idem!GoTo
<1>5. Idem!HistoryConsistent'
  BY DEF Idem!TypeOK, Idem!HistoryConsistent, Idem!RecordsConsistent,
     Idem!ReservedMeansHeld, Idem!Holders, Idem!Replay, Idem!GoTo
<1> QED  BY <1>1, <1>2, <1>3, <1>4, <1>5

LEMMA ConflictIInv ==
    ASSUME IdempotencyAssumption, Idem!IInv, NEW r \in Requests, Idem!Conflict(r)
    PROVE  Idem!IInv'
<1> USE DEF Idem!IInv, IdempotencyAssumption
<1>1. Idem!TypeOK'
  BY DEF Idem!TypeOK, Idem!Conflict, Idem!Prune, Idem!Without, Idem!Unrecorded,
     Idem!Expired, Idem!GoTo
<1>2. Idem!ReservedMeansHeld'
  BY DEF Idem!TypeOK, Idem!ReservedMeansHeld, Idem!OneHolder, Idem!Holders,
     Idem!Conflict, Idem!Prune, Idem!Without, Idem!Unrecorded, Idem!Expired, Idem!GoTo
<1>3. Idem!OneHolder'
  BY DEF Idem!TypeOK, Idem!OneHolder, Idem!ReservedMeansHeld, Idem!Holders,
     Idem!Conflict, Idem!Prune, Idem!Without, Idem!Unrecorded, Idem!Expired, Idem!GoTo
<1>4. Idem!RecordsConsistent'
  BY DEF Idem!TypeOK, Idem!RecordsConsistent, Idem!HistoryConsistent,
     Idem!ReservedMeansHeld, Idem!Holders, Idem!Conflict, Idem!Prune, Idem!Without,
     Idem!Unrecorded, Idem!Expired, Idem!GoTo
<1>5. Idem!HistoryConsistent'
  BY DEF Idem!TypeOK, Idem!HistoryConsistent, Idem!RecordsConsistent,
     Idem!ReservedMeansHeld, Idem!Holders, Idem!Conflict, Idem!Prune, Idem!Without,
     Idem!Unrecorded, Idem!Expired, Idem!GoTo
<1> QED  BY <1>1, <1>2, <1>3, <1>4, <1>5

LEMMA ReserveIInv ==
    ASSUME IdempotencyAssumption, Idem!IInv, NEW r \in Requests, Idem!Reserve(r)
    PROVE  Idem!IInv'
<1> USE DEF Idem!IInv, IdempotencyAssumption
<1>1. Idem!TypeOK'
  BY DEF Idem!TypeOK, Idem!Reserve, Idem!Prune, Idem!Without, Idem!Unrecorded,
     Idem!Expired, Idem!GoTo
<1>2. Idem!ReservedMeansHeld'
  BY DEF Idem!TypeOK, Idem!ReservedMeansHeld, Idem!OneHolder, Idem!Holders,
     Idem!Reserve, Idem!Prune, Idem!Without, Idem!Unrecorded, Idem!Expired, Idem!GoTo
<1>3. Idem!OneHolder'
  BY DEF Idem!TypeOK, Idem!OneHolder, Idem!ReservedMeansHeld, Idem!Holders,
     Idem!Reserve, Idem!Prune, Idem!Without, Idem!Unrecorded, Idem!Expired, Idem!GoTo
<1>4. Idem!RecordsConsistent'
  BY DEF Idem!TypeOK, Idem!RecordsConsistent, Idem!HistoryConsistent,
     Idem!ReservedMeansHeld, Idem!Holders, Idem!Reserve, Idem!Prune, Idem!Without,
     Idem!Unrecorded, Idem!Expired, Idem!GoTo
<1>5. Idem!HistoryConsistent'
  BY DEF Idem!TypeOK, Idem!HistoryConsistent, Idem!RecordsConsistent,
     Idem!ReservedMeansHeld, Idem!Holders, Idem!Reserve, Idem!Prune, Idem!Without,
     Idem!Unrecorded, Idem!Expired, Idem!GoTo
<1> QED  BY <1>1, <1>2, <1>3, <1>4, <1>5

LEMMA LeaveIInv ==
    ASSUME IdempotencyAssumption, Idem!IInv, NEW r \in Requests, Idem!Leave(r)
    PROVE  Idem!IInv'
<1> USE DEF Idem!IInv, IdempotencyAssumption
<1>1. Idem!TypeOK'
  BY DEF Idem!TypeOK, Idem!Leave, Idem!GoTo
<1>2. Idem!ReservedMeansHeld'
  BY DEF Idem!TypeOK, Idem!ReservedMeansHeld, Idem!OneHolder, Idem!Holders, Idem!Leave,
     Idem!GoTo
<1>3. Idem!OneHolder'
  BY DEF Idem!TypeOK, Idem!OneHolder, Idem!ReservedMeansHeld, Idem!Holders, Idem!Leave,
     Idem!GoTo
<1>4. Idem!RecordsConsistent'
  BY DEF Idem!TypeOK, Idem!RecordsConsistent, Idem!HistoryConsistent,
     Idem!ReservedMeansHeld, Idem!Holders, Idem!Leave, Idem!GoTo
<1>5. Idem!HistoryConsistent'
  BY DEF Idem!TypeOK, Idem!HistoryConsistent, Idem!RecordsConsistent,
     Idem!ReservedMeansHeld, Idem!Holders, Idem!Leave, Idem!GoTo
<1> QED  BY <1>1, <1>2, <1>3, <1>4, <1>5

LEMMA ReserveForNobodyIInv ==
    ASSUME IdempotencyAssumption, Idem!IInv, NEW r \in Requests, Idem!ReserveForNobody(r)
    PROVE  Idem!IInv'
<1> USE DEF Idem!IInv, IdempotencyAssumption
<1>1. Idem!TypeOK'
  BY DEF Idem!TypeOK, Idem!ReserveForNobody, Idem!Prune, Idem!Without, Idem!Unrecorded,
     Idem!Expired, Idem!GoTo
<1>2. Idem!ReservedMeansHeld'
  BY DEF Idem!TypeOK, Idem!ReservedMeansHeld, Idem!OneHolder, Idem!Holders,
     Idem!ReserveForNobody, Idem!Prune, Idem!Without, Idem!Unrecorded, Idem!Expired,
     Idem!GoTo
<1>3. Idem!OneHolder'
  BY DEF Idem!TypeOK, Idem!OneHolder, Idem!ReservedMeansHeld, Idem!Holders,
     Idem!ReserveForNobody, Idem!Prune, Idem!Without, Idem!Unrecorded, Idem!Expired,
     Idem!GoTo
<1>4. Idem!RecordsConsistent'
  BY DEF Idem!TypeOK, Idem!RecordsConsistent, Idem!HistoryConsistent,
     Idem!ReservedMeansHeld, Idem!Holders, Idem!ReserveForNobody, Idem!Prune,
     Idem!Without, Idem!Unrecorded, Idem!Expired, Idem!GoTo
<1>5. Idem!HistoryConsistent'
  BY DEF Idem!TypeOK, Idem!HistoryConsistent, Idem!RecordsConsistent,
     Idem!ReservedMeansHeld, Idem!Holders, Idem!ReserveForNobody, Idem!Prune,
     Idem!Without, Idem!Unrecorded, Idem!Expired, Idem!GoTo
<1> QED  BY <1>1, <1>2, <1>3, <1>4, <1>5

LEMMA RespondIInv ==
    ASSUME IdempotencyAssumption, Idem!IInv, NEW r \in Requests, Idem!Respond(r)
    PROVE  Idem!IInv'
<1> USE DEF Idem!IInv, IdempotencyAssumption
<1>1. /\ pc[r] \in {"running", "orphan", "stranded"} /\ outcome[r] = "none"
      /\ pc' = [pc EXCEPT ![r] = IF @ = "running" THEN "responded"
                                 ELSE IF @ = "orphan" THEN "gone" ELSE "stranded"]
  BY DEF Idem!TypeOK, Idem!HistoryConsistent, Idem!Respond, Idem!Executing
<1>2. \E o \in {"ok", "serverError"} : outcome' = [outcome EXCEPT ![r] = o]
  BY DEF Idem!Respond
<1>3. /\ effects' = effects \cup {r} \/ effects' = effects
      /\ UNCHANGED <<key, answer, inFlight, records, stored, forgotten>>
  BY DEF Idem!Respond
<1>4. Idem!Holders' = Idem!Holders
  BY <1>1, <1>3 DEF Idem!Holders, Idem!TypeOK
<1>5. Idem!TypeOK'
  BY <1>1, <1>2, <1>3 DEF Idem!TypeOK
<1>6. Idem!ReservedMeansHeld'
  BY <1>3, <1>4 DEF Idem!ReservedMeansHeld
<1>7. Idem!OneHolder'
  BY <1>3, <1>4 DEF Idem!OneHolder
<1>8. Idem!RecordsConsistent'
  BY <1>3 DEF Idem!RecordsConsistent
<1>9. Idem!HistoryConsistent'
  BY <1>1, <1>2, <1>3 DEF Idem!TypeOK, Idem!HistoryConsistent
<1> QED  BY <1>5, <1>6, <1>7, <1>8, <1>9

LEMMA FinishIInv ==
    ASSUME IdempotencyAssumption, Idem!IInv, NEW r \in Requests, Idem!Finish(r)
    PROVE  Idem!IInv'
<1> USE DEF Idem!IInv, IdempotencyAssumption
<1>1. Idem!TypeOK'
  BY DEF Idem!TypeOK, Idem!Finish, Idem!Save, Idem!Release, Idem!GoTo
<1>2. Idem!ReservedMeansHeld'
  BY DEF Idem!TypeOK, Idem!ReservedMeansHeld, Idem!OneHolder, Idem!Holders, Idem!Finish,
     Idem!Save, Idem!Release, Idem!GoTo
<1>3. Idem!OneHolder'
  BY DEF Idem!TypeOK, Idem!OneHolder, Idem!ReservedMeansHeld, Idem!Holders, Idem!Finish,
     Idem!Save, Idem!Release, Idem!GoTo
<1>4. Idem!RecordsConsistent'
  BY DEF Idem!TypeOK, Idem!RecordsConsistent, Idem!HistoryConsistent,
     Idem!ReservedMeansHeld, Idem!Holders, Idem!Finish, Idem!Save, Idem!Release,
     Idem!GoTo
<1>5. Idem!HistoryConsistent'
  BY DEF Idem!TypeOK, Idem!HistoryConsistent, Idem!RecordsConsistent,
     Idem!ReservedMeansHeld, Idem!Holders, Idem!Finish, Idem!Save, Idem!Release,
     Idem!GoTo
<1> QED  BY <1>1, <1>2, <1>3, <1>4, <1>5

LEMMA CloseIInv ==
    ASSUME IdempotencyAssumption, Idem!IInv, NEW r \in Requests, Idem!Close(r)
    PROVE  Idem!IInv'
<1> USE DEF Idem!IInv, IdempotencyAssumption
<1>1. Idem!TypeOK'
  BY DEF Idem!TypeOK, Idem!Close, Idem!Release, Idem!GoTo
<1>2. Idem!ReservedMeansHeld'
  BY DEF Idem!TypeOK, Idem!ReservedMeansHeld, Idem!OneHolder, Idem!Holders, Idem!Close,
     Idem!Release, Idem!GoTo
<1>3. Idem!OneHolder'
  BY DEF Idem!TypeOK, Idem!OneHolder, Idem!ReservedMeansHeld, Idem!Holders, Idem!Close,
     Idem!Release, Idem!GoTo
<1>4. Idem!RecordsConsistent'
  BY DEF Idem!TypeOK, Idem!RecordsConsistent, Idem!HistoryConsistent,
     Idem!ReservedMeansHeld, Idem!Holders, Idem!Close, Idem!Release, Idem!GoTo
<1>5. Idem!HistoryConsistent'
  BY DEF Idem!TypeOK, Idem!HistoryConsistent, Idem!RecordsConsistent,
     Idem!ReservedMeansHeld, Idem!Holders, Idem!Close, Idem!Release, Idem!GoTo
<1> QED  BY <1>1, <1>2, <1>3, <1>4, <1>5

LEMMA ServerCrashIInv ==
    ASSUME IdempotencyAssumption, Idem!IInv, Idem!Crash
    PROVE  Idem!IInv'
<1> USE DEF Idem!IInv, IdempotencyAssumption
<1>1. Idem!TypeOK'
  BY DEF Idem!TypeOK, Idem!Crash, Idem!Executing
<1>2. Idem!ReservedMeansHeld'
  BY DEF Idem!TypeOK, Idem!ReservedMeansHeld, Idem!OneHolder, Idem!Holders, Idem!Crash,
     Idem!Executing
<1>3. Idem!OneHolder'
  BY DEF Idem!TypeOK, Idem!OneHolder, Idem!ReservedMeansHeld, Idem!Holders, Idem!Crash,
     Idem!Executing
<1>4. Idem!RecordsConsistent'
  BY DEF Idem!TypeOK, Idem!RecordsConsistent, Idem!HistoryConsistent,
     Idem!ReservedMeansHeld, Idem!Holders, Idem!Crash, Idem!Executing
<1>5. Idem!HistoryConsistent'
  BY DEF Idem!TypeOK, Idem!HistoryConsistent, Idem!RecordsConsistent,
     Idem!ReservedMeansHeld, Idem!Holders, Idem!Crash, Idem!Executing
<1> QED  BY <1>1, <1>2, <1>3, <1>4, <1>5

LEMMA RequestsBegin == IdempotencyAssumption /\ Idem!Init => Idem!IInv
  BY DEF IdempotencyAssumption, Idem!Init, Idem!IInv, Idem!TypeOK,
     Idem!ReservedMeansHeld, Idem!OneHolder, Idem!Holders, Idem!RecordsConsistent,
     Idem!HistoryConsistent

LEMMA RequestsGoOn ==
    IdempotencyAssumption /\ Idem!IInv /\ [Idem!Next]_(Idem!vars) => Idem!IInv'
<1> SUFFICES ASSUME IdempotencyAssumption, Idem!IInv, [Idem!Next]_(Idem!vars) PROVE Idem!IInv'
  OBVIOUS
<1>1. ASSUME NEW r \in Requests, Idem!Arrive(r) PROVE Idem!IInv'
  BY <1>1, PassThroughIInv, ReplayIInv, ConflictIInv, ReserveIInv, LeaveIInv,
     ReserveForNobodyIInv DEF Idem!Arrive
<1>2. ASSUME NEW r \in Requests, Idem!Settle(r) PROVE Idem!IInv'
  BY <1>2, RespondIInv, FinishIInv DEF Idem!Settle
<1>3. ASSUME NEW r \in Requests, Idem!Close(r) PROVE Idem!IInv'
  BY <1>3, CloseIInv
<1>4. CASE Idem!Crash
  BY <1>4, ServerCrashIInv
<1>5. CASE UNCHANGED Idem!vars
  BY <1>5 DEF Idem!vars, Idem!IInv, Idem!TypeOK, Idem!ReservedMeansHeld, Idem!OneHolder,
     Idem!Holders, Idem!RecordsConsistent, Idem!HistoryConsistent
<1> QED  BY <1>1, <1>2, <1>3, <1>4, <1>5 DEF Idem!Next

(* The inductive invariant holds of every state the middleware reaches. *)
THEOREM RequestsInvariance ==
    ASSUME IdempotencyAssumption
    PROVE  Idem!Spec => []Idem!IInv
<1>1. Idem!Init => Idem!IInv
  BY RequestsBegin
<1>2. Idem!IInv /\ [Idem!Next]_(Idem!vars) => Idem!IInv'
  BY RequestsGoOn
<1> QED  BY <1>1, <1>2, PTL DEF Idem!Spec

-----------------------------------------------------------------------------
(* checkAndReserve and the two listeners keep every variable in its set. *)
THEOREM RequestsTypeCorrect ==
    ASSUME IdempotencyAssumption
    PROVE  Idem!Spec => []Idem!TypeOK
<1>1. Idem!IInv => Idem!TypeOK
  BY DEF Idem!IInv
<1> QED  BY <1>1, RequestsInvariance, PTL

(* A key is reserved exactly as long as a request holds it. *)
THEOREM ReservationsAreHeld ==
    ASSUME IdempotencyAssumption
    PROVE  Idem!Spec => []Idem!ReservedMeansHeld
<1>1. Idem!IInv => Idem!ReservedMeansHeld
  BY DEF Idem!IInv
<1> QED  BY <1>1, RequestsInvariance, PTL

(* Two requests never hold the same key. *)
THEOREM OneHolderPerKey ==
    ASSUME IdempotencyAssumption
    PROVE  Idem!Spec => []Idem!OneHolder
<1>1. Idem!IInv => Idem!OneHolder
  BY DEF Idem!IInv
<1> QED  BY <1>1, RequestsInvariance, PTL

(* What is replayed was answered, below 500, to a request with the key. *)
THEOREM ReplaysAreGenuine ==
    ASSUME IdempotencyAssumption
    PROVE  Idem!Spec => []Idem!ReplayIsGenuine
<1>1. Idem!IInv => Idem!ReplayIsGenuine
  BY DEF IdempotencyAssumption, Idem!IInv, Idem!HistoryConsistent, Idem!ReplayIsGenuine
<1> QED  BY <1>1, RequestsInvariance, PTL

(* Two responses that were saved for the same key: one is forgotten. *)
LEMMA OneRememberedPerKey ==
    ASSUME Idem!IInv, NEW x \in stored, NEW y \in stored, key[x] = key[y], x # y
    PROVE  x \in forgotten \/ y \in forgotten
  BY DEF Idem!IInv, Idem!HistoryConsistent

(* Clients that send the same key are sent the same success, unless a      *)
(* record was forgotten in between.                                        *)
THEOREM ClientsAgree ==
    ASSUME IdempotencyAssumption
    PROVE  Idem!Spec => []RepliesAgree
<1>1. ASSUME Idem!IInv PROVE RepliesAgree
  <2> SUFFICES ASSUME NEW r \in Requests, NEW q \in Requests,
                      key[r] = key[q], key[r] # NoKey,
                      {answer[r], answer[q]} \subseteq Requests, answer[r] # answer[q]
               PROVE  \E x \in {answer[r], answer[q]} :
                          x \in forgotten \/ outcome[x] = "serverError"
    BY DEF RepliesAgree
  <2>1. ASSUME NEW p \in {r, q}
        PROVE  /\ key[answer[p]] = key[p]
               /\ answer[p] \in stored \/ outcome[answer[p]] = "serverError"
    BY <1>1 DEF Idem!IInv, Idem!HistoryConsistent
  <2> QED  BY <1>1, <2>1, OneRememberedPerKey
<1> QED  BY <1>1, RequestsInvariance, PTL

(* An effect happens twice for a key only when one of the two requests was *)
(* answered 5xx, lost its client, or had its record forgotten.             *)
THEOREM RepeatsAreExcused ==
    ASSUME IdempotencyAssumption
    PROVE  Idem!Spec => []EffectTwiceIsExcused
<1>1. ASSUME Idem!IInv PROVE EffectTwiceIsExcused
  <2> SUFFICES ASSUME NEW r \in effects, NEW q \in effects, r # q,
                      key[r] = key[q], key[r] # NoKey, ~Excused(r), ~Excused(q)
               PROVE  FALSE
    BY DEF EffectTwiceIsExcused
  <2>1. r \in Requests /\ q \in Requests
    BY <1>1 DEF Idem!IInv, Idem!TypeOK
  <2>2. ASSUME NEW p \in {r, q} PROVE p \in Idem!Holders \/ p \in stored
    BY <1>1, <2>1 DEF Idem!IInv, Idem!TypeOK, Idem!HistoryConsistent, Idem!Holders,
       Excused
  <2>3. ASSUME NEW p \in {r, q}, p \in stored PROVE key[p] \in DOMAIN records
    BY <1>1, <2>3 DEF Idem!IInv, Idem!HistoryConsistent, Excused
  <2>4. ASSUME NEW p \in {r, q}, p \in Idem!Holders PROVE key[p] \in inFlight
    BY <1>1, <2>4 DEF Idem!IInv, Idem!ReservedMeansHeld
  <2>5. DOMAIN records \cap inFlight = {}
    BY <1>1 DEF Idem!IInv, Idem!RecordsConsistent
  <2>6. CASE r \in Idem!Holders /\ q \in Idem!Holders
    BY <1>1, <2>6 DEF Idem!IInv, Idem!OneHolder
  <2>7. CASE r \in stored /\ q \in stored
    BY <1>1, <2>7, OneRememberedPerKey DEF Excused
  <2> QED  BY <2>2, <2>3, <2>4, <2>5, <2>6, <2>7
<1> QED  BY <1>1, RequestsInvariance, PTL
===============================================================================

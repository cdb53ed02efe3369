------------------------------- MODULE Paging --------------------------------
(***************************************************************************)
(* The listings and the client that walks through their pages while the    *)
(* table changes: GET /api/offerings and /api/startup/offerings (limit,    *)
(* offset; the total is a second query), /api/investments and              *)
(* /api/offerings/:id/investments (limit, offset; no total),               *)
(* /api/payouts (limit, offset over all rows),                             *)
(* /api/offerings/:id/distributions and .../revenue-reports (page,         *)
(* pageSize over all rows), and lib/pagination, which no route uses yet.   *)
(*                                                                         *)
(* A row is its id and the attribute the filter looks at (a status, or for *)
(* revenue reports the period).  order is the table in the order of the    *)
(* ORDER BY, newest first.                                                 *)
(***************************************************************************)
EXTENDS Integers, Sequences, FiniteSets, FiniteSetsExt

CONSTANTS DefaultSize,  \* DEFAULT_LIMIT, DEFAULT_PAGE_SIZE
          MaxSize,      \* MAX_LIMIT, MAX_PAGE_SIZE
          Listings,     \* the endpoints
          Callers,      \* who asks
          Sizes,        \* what clients send as limit or pageSize
          Filters,      \* what clients send as filter
          Attributes,   \* statuses, or periods
          Rows          \* ids of rows; ids grow with time

VARIABLES order,    \* the table: a sequence of rows, newest first
          walk,     \* the client: endpoint, caller, size, filter, position, phase
          seen,     \* the ids it was given, in the order of arrival
          start,    \* history: the rows of the listing when the walk began
          grew,     \* history: a row has entered the listing since
          shrank    \* history: a row has left it

vars == <<order, walk, seen, start, grew, shrank>>

(* A status is asked for with from alone; 0 is "not given". *)
NoFilter == [from |-> 0, to |-> 0]

(* A query parameter: absent, a decimal integer, something that begins     *)
(* with one (2.5, 2abc), a text without a number, nothing after the =.     *)
Absent == [form |-> "absent", n |-> 0]
Text   == [form |-> "text", n |-> 0]
Empty  == [form |-> "empty", n |-> 0]
Number(i) == [form |-> "int", n |-> i]
Begins(i) == [form |-> "begins", n |-> i]
NaN == -1000   \* not a number; no client sends it as one

parseInt(raw) == IF raw.form \in {"int", "begins"} THEN raw.n ELSE NaN

Refused      == [code |-> 400, from |-> 0, size |-> 0]
Slice(from, size) == [code |-> 200, from |-> from, size |-> size]
Everything   == Cardinality(Rows)   \* no limit

(* Number(raw) in JavaScript: "" is 0; what only begins with an integer is none. *)
parsePositiveInt(raw) == IF raw.form = "int" /\ raw.n > 0 THEN raw.n ELSE NaN

parseNonNegativeInt(raw) ==
    IF raw.form = "empty" THEN 0
    ELSE IF raw.form = "int" /\ raw.n >= 0 THEN raw.n ELSE NaN

(* A bug to detect: the first page is skipped. *)
OffsetFromOne(page, pageSize) == page * pageSize

OffsetOf(page, pageSize) == (page - 1) * pageSize

(* page and pageSize, with their defaults; a pageSize is capped.  Periods  *)
(* in the wrong order are refused.                                         *)
parseQuery(pageRaw, sizeRaw, filter) ==
    LET page == parsePositiveInt(pageRaw)
        size == parsePositiveInt(sizeRaw)
        pageSize == Min({IF size = NaN THEN DefaultSize ELSE size, MaxSize})
    IN  IF \/ pageRaw # Absent /\ page = NaN
           \/ sizeRaw # Absent /\ size = NaN
           \/ filter.from # 0 /\ filter.to # 0 /\ filter.from > filter.to
        THEN Refused
        ELSE Slice(OffsetOf(IF page = NaN THEN 1 ELSE page, pageSize), pageSize)

listDistributions(sizeRaw, at) == parseQuery(Number(at + 1), sizeRaw, NoFilter)

listRevenueReports(sizeRaw, at, filter) == parseQuery(Number(at + 1), sizeRaw, filter)

listPayouts(limitRaw, offsetRaw) ==
    LET limit  == parseInt(limitRaw)
        offset == parseInt(offsetRaw)
    IN  IF \/ limitRaw # Absent /\ limit < 0
           \/ offsetRaw # Absent /\ offset < 0
        THEN Refused
        ELSE Slice(IF offsetRaw = Absent THEN 0 ELSE offset,
                   IF limitRaw = Absent THEN Everything ELSE limit)

(* GET /api/investments accepts what listPayouts accepts. *)
listInvestments(limitRaw, offsetRaw) == listPayouts(limitRaw, offsetRaw)

listInvestmentsByOffering(limitRaw, offsetRaw) ==
    LET limit  == parseNonNegativeInt(limitRaw)
        offset == parseNonNegativeInt(offsetRaw)
    IN  IF \/ limitRaw # Absent /\ limit = NaN
           \/ offsetRaw # Absent /\ offset = NaN
        THEN Refused
        ELSE Slice(IF offset = NaN THEN 0 ELSE offset,
                   IF limit = NaN THEN Everything ELSE limit)

(* The two offering listings refuse nothing: Math.max(0, parseInt || 0). *)
OrZero(raw) == Max({0, parseInt(raw)})

listOfferings(limitRaw, offsetRaw) ==
    Slice(IF offsetRaw \in {Absent, Empty} THEN 0 ELSE OrZero(offsetRaw),
          IF limitRaw \in {Absent, Empty} THEN Everything ELSE OrZero(limitRaw))

listCatalog(limitRaw, offsetRaw) == listOfferings(limitRaw, offsetRaw)

parsePagination(limitRaw, offsetRaw) ==
    LET limit  == parseInt(limitRaw)
        offset == parseInt(offsetRaw)
    IN  Slice(IF offset = NaN THEN 0 ELSE Max({0, offset}),
              IF limit = NaN THEN DefaultSize ELSE Min({Max({1, limit}), MaxSize}))

Paged    == {"distributions", "revenue-reports"}
Counted  == {"offerings", "catalog"}       \* the total is a query of its own
Uncounted == {"investments", "offering-investments"}
AllListings == Paged \cup Counted \cup Uncounted \cup {"payouts", "library"}

Parameter == [form : {"absent", "int", "begins", "text", "empty"}, n : Int]

ASSUME PagingAssumption ==
    /\ DefaultSize \in Nat /\ MaxSize \in Nat /\ IsFiniteSet(Rows)
    /\ Listings \subseteq AllListings /\ Sizes \subseteq Parameter

(* What an endpoint makes of a size and a position.  Page n of the paged   *)
(* ones stands where the walk has read n - 1 full pages.                   *)
Query(listing, sizeRaw, at, filter) ==
    CASE listing = "distributions" -> listDistributions(sizeRaw, at)
      [] listing = "revenue-reports" -> listRevenueReports(sizeRaw, at, filter)
      [] listing = "payouts" -> listPayouts(sizeRaw, Number(at))
      [] listing = "investments" -> listInvestments(sizeRaw, Number(at))
      [] listing = "offering-investments" -> listInvestmentsByOffering(sizeRaw, Number(at))
      [] listing = "offerings" -> listOfferings(sizeRaw, Number(at))
      [] listing = "catalog" -> listCatalog(sizeRaw, Number(at))
      [] listing = "library" -> parsePagination(sizeRaw, Number(at))

(* What a handler refuses before it looks at the parameters, ...           *)
Public == {"catalog", "library"}

GateBefore(listing, caller) ==
    CASE caller = "nobody" /\ listing \notin Public -> 401
      [] caller = "wrong role" /\ listing \notin Public \cup Paged -> 403
      [] caller = "no such offering" /\ listing = "offering-investments" -> 404
      [] caller = "not the owner" /\ listing = "offering-investments" -> 403
      [] OTHER -> 200

(* ... and after.  Nobody owns an offering that does not exist. *)
GateAfter(listing, caller) ==
    IF listing \in Paged /\ caller \in {"no such offering", "not the owner"} THEN 403 ELSE 200

Status(listing, caller, sizeRaw, at, filter) ==
    LET codes == <<GateBefore(listing, caller), Query(listing, sizeRaw, at, filter).code,
                   GateAfter(listing, caller)>>
        refusals == {i \in 1..3 : codes[i] # 200}
    IN  IF refusals = {} THEN 200 ELSE codes[Min(refusals)]

-----------------------------------------------------------------------------
(* The rows the filter keeps: a status equal to the one asked for, a       *)
(* period from periodFrom to periodTo.                                     *)
Passes(listing, filter, row) ==
    IF listing = "revenue-reports"
    THEN /\ filter.from # 0 => row.attr >= filter.from
         /\ filter.to # 0 => row.attr <= filter.to
    ELSE filter.from # 0 => row.attr = filter.from

(* In the table's order: the row at place i is the Rank(i)-th that is kept. *)
Kept == {i \in DOMAIN order : Passes(walk.listing, walk.filter, order[i])}

Rank(i) == Cardinality({j \in Kept : j <= i})

Listed == [k \in 1..Cardinality(Kept) |-> order[CHOOSE i \in Kept : Rank(i) = k]]

Ids(rows) == {rows[i].id : i \in DOMAIN rows}

IdSeq(rows) == [i \in DOMAIN rows |-> rows[i].id]

(* A bug to detect: the page is cut out of the table before the filter. *)
CutThenFilter(from, size) ==
    SelectSeq(SubSeq(order, from + 1, Min({from + size, Len(order)})),
              LAMBDA row : Passes(walk.listing, walk.filter, row))

(* slice(from, from + size); LIMIT size OFFSET from. *)
PageOf(from, size) == SubSeq(Listed, from + 1, Min({from + size, Len(Listed)}))

hasMore(from, count, total) == from + count < total

(* The client's question whether to go on: hasMore, page < totalPages,     *)
(* position + size < total, or without a total whether the page was full.  *)
GoesOn(q, count, total) ==
    IF walk.listing \in Uncounted THEN count = q.size
    ELSE IF walk.listing = "library" THEN hasMore(q.from, count, total)
    ELSE q.from + q.size < total

Advance(q) == IF walk.listing \in Paged THEN walk.at + 1 ELSE q.from + q.size

-----------------------------------------------------------------------------
Init ==
    /\ order \in {o \in UNION {[1..n -> [id : Rows, attr : Attributes]] : n \in 0..Cardinality(Rows)} :
                     \A i \in DOMAIN o : o[i].id = Len(o) - i + 1}
    /\ walk \in [listing : Listings, caller : Callers, size : Sizes, filter : Filters,
                 at : {0}, phase : {"reading"}, code : {200}]
    /\ seen = <<>>
    /\ start = Ids(Listed)
    /\ grew = FALSE
    /\ shrank = FALSE

Step(q, count, total) ==
    walk' = IF GoesOn(q, count, total)
            THEN [walk EXCEPT !.at = Advance(q), !.phase = "reading"]
            ELSE [walk EXCEPT !.phase = "done"]

Answered == Status(walk.listing, walk.caller, walk.size, walk.at, walk.filter)

RefusePage ==
    /\ walk.phase = "reading"
    /\ Answered # 200
    /\ walk' = [walk EXCEPT !.phase = "refused", !.code = Answered]
    /\ UNCHANGED <<order, seen, start, grew, shrank>>

(* A page is read, with the total where one query gives both. *)
ReadPage ==
    LET q    == Query(walk.listing, walk.size, walk.at, walk.filter)
        page == PageOf(q.from, q.size)
    IN  /\ walk.phase = "reading"
        /\ Answered = 200 /\ q.size > 0
        /\ seen' = seen \o IdSeq(page)
        /\ IF walk.listing \in Counted
           THEN walk' = [walk EXCEPT !.phase = "counting"]
           ELSE Step(q, Len(page), Len(Listed))
        /\ UNCHANGED <<order, start, grew, shrank>>

(* countByIssuer, countPublic: the count comes after the page. *)
CountTotal ==
    /\ walk.phase = "counting"
    /\ Step(Query(walk.listing, walk.size, walk.at, walk.filter), 0, Len(Listed))
    /\ UNCHANGED <<order, seen, start, grew, shrank>>

(* The table changes, as far as it matters to a client that is answered.   *)
Watched == walk.phase \in {"reading", "counting"} /\ Answered = 200

(* A row is created.  Every listing but that of the distributions is       *)
(* ordered by created_at DESC; a distribution stands where the end of its  *)
(* period puts it.                                                         *)
Insert(i, a) ==
    LET row == [id |-> Len(order) + 1, attr |-> a]
    IN  /\ Watched
        /\ Len(order) < Cardinality(Rows)
        /\ walk.listing # "distributions" => i = 0
        /\ order' = SubSeq(order, 1, i) \o <<row>> \o SubSeq(order, i + 1, Len(order))
        /\ grew' = (grew \/ Passes(walk.listing, walk.filter, row))
        /\ UNCHANGED <<walk, seen, start, shrank>>

(* An offering's status is synchronised.  Nothing changes the status of a  *)
(* payout, or the period of a report.                                      *)
Restatus(i, a) ==
    LET row == [order[i] EXCEPT !.attr = a]
        was == Passes(walk.listing, walk.filter, order[i])
        is  == Passes(walk.listing, walk.filter, row)
    IN  /\ Watched
        /\ walk.listing \in Counted
        /\ order' = [order EXCEPT ![i] = row]
        /\ grew' = (grew \/ (is /\ ~was))
        /\ shrank' = (shrank \/ (was /\ ~is))
        /\ UNCHANGED <<walk, seen, start>>

Next ==
    \/ RefusePage
    \/ ReadPage
    \/ CountTotal
    \/ \E i \in 0..Len(order), a \in Attributes : Insert(i, a)
    \/ \E i \in DOMAIN order : \E a \in Attributes \ {order[i].attr} : Restatus(i, a)

Spec == Init /\ [][Next]_vars

-----------------------------------------------------------------------------
(* A client that walks through the pages to the end has been given every   *)
(* row that was in the listing when it began, whatever was inserted in the *)
(* meantime, unless a row has left the listing behind its back (a status   *)
(* filter while an offering's status changes); and a row was given to it   *)
(* twice only if the listing has grown.                                    *)
WalkSeesAll ==
    /\ walk.phase = "done" /\ ~shrank => start \subseteq {seen[i] : i \in DOMAIN seen}
    /\ ~grew => Cardinality({seen[i] : i \in DOMAIN seen}) = Len(seen)

(* The inductive invariant behind it.  Position is where the next page     *)
(* will begin; Ahead, the rows of the listing from there on.               *)
Querying == Query(walk.listing, walk.size, walk.at, walk.filter)

Position == IF walk.phase = "counting" THEN Querying.from + Querying.size ELSE Querying.from

Ahead == {order[i].id : i \in {j \in Kept : Rank(j) > Position}}

SeenIds == {seen[i] : i \in DOMAIN seen}

TableInv ==
    /\ order \in Seq([id : Nat, attr : Attributes])
    /\ \A i \in DOMAIN order : order[i].id \in 1..Len(order)
    /\ \A i, j \in DOMAIN order : order[i].id = order[j].id => i = j

ClientInv ==
    /\ walk \in [listing : AllListings, caller : Callers, size : Parameter, filter : Filters,
                 at : Nat, phase : {"reading", "counting", "done", "refused"}, code : Int]
    /\ seen \in Seq(Nat) /\ grew \in BOOLEAN /\ shrank \in BOOLEAN
    /\ walk.phase = "counting" => walk.listing \in Counted /\ Answered = 200 /\ Querying.size > 0

WalkInv ==
    /\ TableInv
    /\ ClientInv
    /\ Watched /\ ~shrank => start \subseteq SeenIds \cup Ahead
    /\ walk.phase = "done" /\ ~shrank => start \subseteq SeenIds
    /\ Watched /\ ~grew => SeenIds \cap Ahead = {}
    /\ ~grew => \A i, j \in DOMAIN seen : seen[i] = seen[j] => i = j
==============================================================================

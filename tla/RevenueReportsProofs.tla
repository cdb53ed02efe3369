------------------------ MODULE RevenueReportsProofs ------------------------
(***************************************************************************)
(* Theorems about RevenueReports, for every number of submissions, checks  *)
(* and runs, and whatever they ask for.                                    *)
(***************************************************************************)
EXTENDS RevenueReports, FiniteSetTheorems, WellFoundedInduction, TLAPS

USE DEF SubmissionPCs, CheckPCs, Running

(* The test of the query is that of the instants two periods share, given  *)
(* that the periods are not empty.                                         *)
LEMMA OverlapIsCommonTime ==
    ASSUME NEW p \in RequestType, NEW q \in RequestType
    PROVE  /\ CommonTime(p, q) => Overlapping(p, q)
           /\ Overlapping(p, q) /\ p.from < p.to /\ q.from < q.to => CommonTime(p, q)
<1>1. /\ p.from \in Nat /\ p.to \in Nat
      /\ q.from \in Nat /\ q.to \in Nat
  BY DEF RequestType
<1>2. CommonTime(p, q) => Overlapping(p, q)
  BY <1>1 DEF CommonTime, Overlapping
<1>3. ASSUME Overlapping(p, q), p.from < p.to, q.from < q.to
      PROVE  CommonTime(p, q)
  <2>1. CASE p.from <= q.from
    <3>1. /\ q.from \in p.from .. p.to
          /\ q.from < p.to /\ q.from <= q.from /\ q.from < q.to
      BY <1>1, <1>3, <2>1 DEF Overlapping
    <3> QED  BY <1>3, <3>1 DEF CommonTime, Overlapping
  <2>2. CASE q.from < p.from
    <3>1. /\ p.from \in p.from .. p.to
          /\ p.from < p.to /\ q.from <= p.from /\ p.from < q.to
      BY <1>1, <1>3, <2>2 DEF Overlapping
    <3> QED  BY <1>3, <3>1 DEF CommonTime, Overlapping
  <2> QED  BY <1>1, <2>1, <2>2
<1> QED  BY <1>2, <1>3

(* What a request has passed when it is looked up for overlaps.            *)
LEMMA NotRejected ==
    ASSUME NEW q \in RequestType, Rejection(q) = {}
    PROVE  q.amount > 0 /\ q.from < q.to
<1>1. q.amount \in Nat /\ q.from \in Nat /\ q.to \in Nat
  BY DEF RequestType
<1>2. ~(q.amount = 0 \/ q.to <= q.from)
  BY DEF Rejection
<1> QED  BY <1>1, <1>2

(* Every request that was sent is one of RequestType.                      *)
LEMMA SentRequest ==
    ASSUME TypeOK, NEW r \in Submissions, request[r] # None
    PROVE  request[r] \in RequestType
  BY InputsAssumption DEF TypeOK

LEMMA InitIInv == Init => IInv
  BY DistinctAssumption
     DEF Init, IInv, TypeOK, SubmissionConsistent, CheckConsistent, PeriodReportedOnce,
         ConflictIsGenuine

-----------------------------------------------------------------------------
(* Steps that no submission takes part in. *)
Aside ==
    /\ UNCHANGED <<request, reports>>
    /\ \A r \in Submissions : pc'[r] = pc[r] /\ answer'[r] = answer[r] /\ asOf'[r] = asOf[r]

LEMMA AsideSubmissions ==
    ASSUME IInv, Aside
    PROVE  /\ \A r \in Submissions : SubmissionConsistent(r)'
           /\ PeriodReportedOnce'
           /\ ConflictIsGenuine'
<1>1. ASSUME NEW r \in Submissions
      PROVE  SubmissionConsistent(r)'
  BY DEF IInv, Aside, SubmissionConsistent
<1>2. PeriodReportedOnce'
  BY DEF IInv, Aside, PeriodReportedOnce
<1>3. ConflictIsGenuine'
  BY DEF IInv, Aside, ConflictIsGenuine
<1> QED  BY <1>1, <1>2, <1>3

LEMMA CheckIInv ==
    ASSUME IInv, NEW c \in Checks, CheckStep(c)
    PROVE  IInv'
<1> USE DistinctAssumption DEF IInv, reportVars, checkVars
<1>1. Aside
  <2>1. \A r \in Submissions : r # c
    OBVIOUS
  <2> QED
    BY <2>1
       DEF Aside, TypeOK, CheckStep, Ask, Decline, ListReports, ListRuns, FindInvestors,
           CheckFails, GoTo, Answer
<1>2. TypeOK'
  <2>1. CASE Ask(c)
    BY <2>1 DEF Ask, TypeOK, CheckConsistent, GoTo, Answered
  <2>2. CASE Decline(c)
    BY <2>2 DEF Decline, TypeOK, Answer
  <2>3. CASE ListReports(c)
    BY <2>3 DEF ListReports, Relevant, TypeOK, GoTo
  <2>4. CASE ListRuns(c)
    BY <2>4 DEF ListRuns, TypeOK, GoTo, Answer
  <2>5. CASE FindInvestors(c)
    BY <2>5 DEF FindInvestors, TypeOK, Answer
  <2>6. CASE CheckFails(c)
    BY <2>6 DEF CheckFails, TypeOK, Answer
  <2> QED  BY <2>1, <2>2, <2>3, <2>4, <2>5, <2>6 DEF CheckStep
<1>3. ASSUME NEW b \in Checks
      PROVE  CheckConsistent(b)'
  BY DEF TypeOK, CheckConsistent, CheckStep, Ask, Decline, ListReports, ListRuns,
         FindInvestors, CheckFails, GoTo, Answer
<1> QED  BY <1>1, <1>2, <1>3, AsideSubmissions

LEMMA RunIInv ==
    ASSUME IInv, NEW d \in Runs, RunStep(d)
    PROVE  IInv'
<1> USE InputsAssumption DEF IInv, reportVars, checkVars
<1>1. Aside
  BY DEF Aside, RunStep, AddRun, SettleRun
<1>2. DOMAIN runs' \subseteq Runs /\ runs' \in [DOMAIN runs' -> RunRow]
  <2>1. CASE AddRun(d)
    <3>1. PICK row \in RunInputs :
             runs' = [e \in DOMAIN runs \cup {d} |->
                         IF e = d
                         THEN [offering |-> row.offering, total_amount |-> row.total_amount,
                               distribution_date |-> row.distribution_date,
                               status |-> "processing"]
                         ELSE runs[e]]
      BY <2>1 DEF AddRun
    <3>2. row \in RunInputType
      OBVIOUS
    <3>3. [offering |-> row.offering, total_amount |-> row.total_amount,
           distribution_date |-> row.distribution_date, status |-> "processing"] \in RunRow
      BY <3>2 DEF RunInputType, RunRow
    <3> QED  BY <3>1, <3>3 DEF TypeOK
  <2>2. CASE SettleRun(d)
    <3>1. PICK status \in {"completed", "failed"} : runs' = [runs EXCEPT ![d].status = status]
      BY <2>2 DEF SettleRun
    <3>2. [runs[d] EXCEPT !.status = status] \in RunRow
      BY <2>2 DEF SettleRun, TypeOK, RunRow
    <3> QED  BY <2>2, <3>1, <3>2 DEF SettleRun, TypeOK
  <2> QED  BY <2>1, <2>2 DEF RunStep
<1>3. UNCHANGED <<pc, answer, request, reports, query, counted, verdict, asOf>>
  BY DEF RunStep, AddRun, SettleRun
<1>4. TypeOK'
  BY <1>2, <1>3 DEF TypeOK
<1>5. ASSUME NEW b \in Checks
      PROVE  CheckConsistent(b)'
  BY <1>3 DEF CheckConsistent
<1> QED  BY <1>1, <1>4, <1>5, AsideSubmissions

-----------------------------------------------------------------------------
(* Steps of a submission: no check takes part in them, and the report of   *)
(* nobody else comes or goes.                                              *)
LEMMA SubmissionAlone ==
    ASSUME IInv, NEW r \in Submissions, SubmissionStep(r)
    PROVE  /\ UNCHANGED <<checkVars, runs>>
           /\ \A c \in Checks : CheckConsistent(c)'
           /\ reports \subseteq reports'
           /\ reports' \subseteq reports \cup {r}
           /\ \A s \in Submissions : s # r =>
                 /\ pc'[s] = pc[s] /\ answer'[s] = answer[s]
                 /\ request'[s] = request[s] /\ asOf'[s] = asOf[s]
           /\ \A s \in reports : request'[s] = request[s]
<1> USE DistinctAssumption
    DEF IInv, reportVars, checkVars, SubmissionStep, Submit, Refuse, FindOffering,
        FindOverlap, Create, CreateRefused, SubmissionFails, GoTo, Answer
<1>1. UNCHANGED <<query, counted, verdict, runs>>
  OBVIOUS
<1>2. /\ reports \subseteq reports'
      /\ reports' \subseteq reports \cup {r}
  OBVIOUS
<1>3. \A s \in Submissions \cup Checks : s # r =>
         pc'[s] = pc[s] /\ answer'[s] = answer[s] /\ asOf'[s] = asOf[s]
  BY DEF TypeOK
<1>4. \A s \in Submissions : s # r => request'[s] = request[s]
  BY DEF TypeOK
<1>5. \A s \in reports : request'[s] = request[s]
  BY <1>4 DEF TypeOK, SubmissionConsistent
<1>6. \A c \in Checks : CheckConsistent(c)'
  BY <1>1, <1>3 DEF CheckConsistent
<1> QED  BY <1>1, <1>2, <1>3, <1>4, <1>5, <1>6

LEMMA SubmissionIInv ==
    ASSUME IInv, NEW r \in Submissions, SubmissionStep(r)
    PROVE  IInv'
<1> USE DistinctAssumption DEF IInv, reportVars, checkVars
<1>1. TypeOK'
  <2>1. CASE Submit(r)
    <3>1. PICK q \in Requests : request' = [request EXCEPT ![r] = q]
      BY <2>1 DEF Submit
    <3>2. request' \in [Submissions -> Requests \cup {None}]
      BY <3>1 DEF TypeOK
    <3>3. \A s \in reports : request'[s] = request[s]
      BY SubmissionAlone DEF SubmissionStep, TypeOK
    <3>4. pc' \in [Submissions \cup Checks -> SubmissionPCs \cup CheckPCs]
          /\ (\A s \in Submissions : pc'[s] \in SubmissionPCs)
          /\ (\A c \in Checks : pc'[c] \in CheckPCs)
      BY <2>1 DEF Submit, TypeOK, GoTo
    <3>5. asOf' \in [Submissions \cup Checks -> SUBSET Submissions]
      BY <2>1 DEF Submit, TypeOK, Answered
    <3>6. UNCHANGED <<reports, query, counted, verdict, runs, answer>>
      BY <2>1 DEF Submit, GoTo
    <3> QED  BY <3>2, <3>3, <3>4, <3>5, <3>6 DEF TypeOK
  <2>2. CASE Refuse(r)
    BY <2>2 DEF Refuse, TypeOK, Answer
  <2>3. CASE FindOffering(r)
    <3>1. Rejection(request[r]) \subseteq {400, 403}
      BY DEF Rejection
    <3> QED  BY <2>3, <3>1 DEF FindOffering, TypeOK, GoTo, Answer
  <2>4. CASE FindOverlap(r)
    BY <2>4 DEF FindOverlap, TypeOK, GoTo, Answer
  <2>5. CASE Create(r)
    <3>1. request[r] # None /\ Rejection(request[r]) = {}
      BY <2>5 DEF Create, SubmissionConsistent
    <3>2. request[r].amount > 0 /\ request[r].from < request[r].to
      BY <3>1, SentRequest, NotRejected
    <3>3. /\ reports' = reports \cup {r}
          /\ UNCHANGED <<request, query, counted, verdict, runs, asOf>>
      BY <2>5 DEF Create
    <3>4. /\ pc' \in [Submissions \cup Checks -> SubmissionPCs \cup CheckPCs]
          /\ \A s \in Submissions : pc'[s] \in SubmissionPCs
          /\ \A c \in Checks : pc'[c] \in CheckPCs
          /\ answer' \in [Submissions \cup Checks -> {0, 200, 201, 400, 401, 403, 404, 409, 500}]
      BY <2>5 DEF Create, TypeOK, Answer
    <3>5. counted' \in [Checks -> SUBSET reports']
      BY <3>3 DEF TypeOK
    <3> QED  BY <3>1, <3>2, <3>3, <3>4, <3>5 DEF TypeOK
  <2>6. CASE CreateRefused(r)
    BY <2>6 DEF CreateRefused, TypeOK, Answer
  <2>7. CASE SubmissionFails(r)
    BY <2>7 DEF SubmissionFails, TypeOK, Answer
  <2> QED  BY <2>1, <2>2, <2>3, <2>4, <2>5, <2>6, <2>7 DEF SubmissionStep
<1>2. ASSUME NEW s \in Submissions
      PROVE  SubmissionConsistent(s)'
  <2>1. CASE s # r
    <3>1. /\ pc'[s] = pc[s] /\ answer'[s] = answer[s]
          /\ request'[s] = request[s] /\ asOf'[s] = asOf[s]
          /\ s \in reports' <=> s \in reports
          /\ asOf[s] \subseteq reports
          /\ reports \subseteq reports'
      BY <2>1, SubmissionAlone DEF SubmissionConsistent
    <3>2. \A t \in asOf[s] : request'[t] = request[t]
      BY <3>1, SubmissionAlone
    <3> QED  BY <3>1, <3>2 DEF SubmissionConsistent
  <2>2. CASE s = r /\ Submit(r)
    <3>1. /\ asOf'[r] = Answered
          /\ pc'[r] = "findOffering"
          /\ UNCHANGED <<answer, reports>>
          /\ request'[r] \in Requests
      BY <2>2 DEF Submit, TypeOK, GoTo
    <3>2. Answered \subseteq reports
      BY DEF Answered, SubmissionConsistent
    <3>3. request'[r] # None
      BY <3>1, InputsAssumption
    <3>4. r \notin reports /\ answer[r] = 0
      BY <2>2 DEF Submit, SubmissionConsistent
    <3> QED  BY <2>2, <3>1, <3>2, <3>3, <3>4 DEF SubmissionConsistent
  <2>3. CASE s = r /\ (Refuse(r) \/ FindOffering(r) \/ CreateRefused(r) \/ SubmissionFails(r))
    <3>1. Rejection(request[r]) \subseteq {400, 403}
      BY DEF Rejection
    <3> QED
      BY <2>3, <3>1
         DEF Refuse, FindOffering, CreateRefused, SubmissionFails, SubmissionConsistent,
             TypeOK, GoTo, Answer
  <2>4. CASE s = r /\ FindOverlap(r)
    BY <2>4 DEF FindOverlap, SubmissionConsistent, TypeOK, GoTo, Answer
  <2>5. CASE s = r /\ Create(r)
    BY <2>5 DEF Create, SubmissionConsistent, TypeOK, Answer
  <2> QED  BY <2>1, <2>2, <2>3, <2>4, <2>5 DEF SubmissionStep
<1>3. PeriodReportedOnce'
  <2>1. CASE Create(r)
    BY <2>1 DEF Create, PeriodTaken, PeriodReportedOnce, SamePeriod
  <2>2. CASE ~Create(r)
    <3>1. reports' = reports
      BY <2>2
         DEF SubmissionStep, Submit, Refuse, FindOffering, FindOverlap, CreateRefused,
             SubmissionFails
    <3>2. \A s \in reports : request'[s] = request[s]
      BY SubmissionAlone
    <3> QED  BY <3>1, <3>2 DEF PeriodReportedOnce, SamePeriod
  <2> QED  BY <2>1, <2>2
<1>4. ConflictIsGenuine'
  <2> SUFFICES ASSUME NEW s \in Submissions, answer'[s] = 409
               PROVE  /\ s \notin reports'
                      /\ \E t \in reports' : CommonTime(request'[t], request'[s])
    BY DEF ConflictIsGenuine, CommonTime
  <2>1. CASE answer[s] = 409
    <3>1. request'[s] = request[s] /\ s \notin reports'
      <4>1. CASE s # r
        BY <2>1, <4>1, SubmissionAlone DEF ConflictIsGenuine
      <4>2. CASE s = r
        <5>1. pc[r] \notin {"findOffering", "findOverlap", "create", "unsent"}
          BY <2>1, <4>2 DEF SubmissionConsistent
        <5> QED
          BY <5>1
             DEF SubmissionStep, Submit, Refuse, FindOffering, FindOverlap, Create,
                 CreateRefused, SubmissionFails
      <4> QED  BY <4>1, <4>2
    <3>2. PICK t \in reports : CommonTime(request[t], request[s])
      BY <2>1 DEF ConflictIsGenuine
    <3>3. t \in reports' /\ request'[t] = request[t]
      BY SubmissionAlone
    <3> QED  BY <3>1, <3>2, <3>3
  <2>2. CASE answer[s] # 409
    <3>1. s = r
      BY <2>2, SubmissionAlone
    <3>2. FindOverlap(r) /\ \E t \in reports : Overlapping(request[t], request[r])
      <4>1. Rejection(request[r]) \subseteq {400, 403}
        BY DEF Rejection
      <4> QED
        BY <2>2, <3>1, <4>1
           DEF SubmissionStep, Submit, Refuse, FindOffering, FindOverlap, Create,
               CreateRefused, SubmissionFails, GoTo, Answer, TypeOK
    <3>3. PICK t \in reports : Overlapping(request[t], request[r])
      BY <3>2
    <3>4. UNCHANGED <<request, reports>>
      BY <3>2 DEF FindOverlap
    <3>5. request[r] \in RequestType /\ request[r].from < request[r].to /\ r \notin reports
      BY <3>2, SentRequest, NotRejected DEF FindOverlap, SubmissionConsistent
    <3>6. request[t] \in RequestType /\ request[t].from < request[t].to
      BY SentRequest DEF TypeOK
    <3>7. CommonTime(request[t], request[r])
      BY <3>3, <3>5, <3>6, OverlapIsCommonTime
    <3> QED  BY <3>1, <3>4, <3>5, <3>7
  <2> QED  BY <2>1, <2>2
<1> QED  BY <1>1, <1>2, <1>3, <1>4, SubmissionAlone

LEMMA CrashIInv ==
    ASSUME IInv, Crash
    PROVE  IInv'
<1> USE DistinctAssumption DEF IInv, Crash, reportVars, checkVars
<1>1. TypeOK'
  BY DEF TypeOK
<1>2. \A r \in Submissions : SubmissionConsistent(r)'
  BY DEF TypeOK, SubmissionConsistent
<1>3. \A c \in Checks : CheckConsistent(c)'
  BY DEF TypeOK, CheckConsistent
<1>4. PeriodReportedOnce'
  BY DEF PeriodReportedOnce
<1>5. ConflictIsGenuine'
  BY DEF ConflictIsGenuine
<1> QED  BY <1>1, <1>2, <1>3, <1>4, <1>5

(* IInv is inductive.                                                      *)
THEOREM Inductive == Spec => []IInv
<1>1. IInv /\ [Next]_vars => IInv'
  <2> SUFFICES ASSUME IInv, [Next]_vars
               PROVE  IInv'
    OBVIOUS
  <2>1. CASE \E r \in Submissions : SubmissionStep(r)
    BY <2>1, SubmissionIInv
  <2>2. CASE \E c \in Checks : CheckStep(c)
    BY <2>2, CheckIInv
  <2>3. CASE \E d \in Runs : RunStep(d)
    BY <2>3, RunIInv
  <2>4. CASE Crash
    BY <2>4, CrashIInv
  <2>5. CASE UNCHANGED vars
    BY <2>5
       DEF vars, reportVars, checkVars, IInv, TypeOK, SubmissionConsistent, CheckConsistent,
           PeriodReportedOnce, ConflictIsGenuine
  <2> QED  BY <2>1, <2>2, <2>3, <2>4, <2>5 DEF Next
<1> QED  BY InitIInv, <1>1, PTL DEF Spec

-----------------------------------------------------------------------------
(* The tables keep to their constraints, and a check counts only reports   *)
(* of its offering: submitReport, ReconciliationService.                   *)
THEOREM TypeCorrect == Spec => []TypeOK
  BY Inductive, PTL DEF IInv

(* Two reports cover the same time only when their submissions raced       *)
(* between findOverlappingReport and create.                               *)
THEOREM OverlapsOnlyInRaces == Spec => []OverlapsAreRaces
<1>1. IInv => OverlapsAreRaces
  <2> SUFFICES ASSUME IInv, NEW r \in reports, NEW s \in asOf[r]
               PROVE  ~CommonTime(request[s], request[r])
    BY DEF OverlapsAreRaces
  <2>1. r \in Submissions /\ s \in reports /\ s \in Submissions
    BY DEF IInv, TypeOK, SubmissionConsistent
  <2>2. request[s] \in RequestType /\ request[r] \in RequestType
    BY <2>1, SentRequest DEF IInv, TypeOK
  <2>3. ~Overlapping(request[s], request[r])
    BY <2>1 DEF IInv, SubmissionConsistent
  <2> QED  BY <2>2, <2>3, OverlapIsCommonTime
<1> QED  BY Inductive, <1>1, PTL

(* The unique index: one and the same period is never reported twice, not  *)
(* by submissions that race either.                                        *)
THEOREM PeriodsAreUnique == Spec => []PeriodReportedOnce
  BY Inductive, PTL DEF IInv

(* 409 is never answered for a period that is free.                        *)
THEOREM ConflictsAreGenuine == Spec => []ConflictIsGenuine
  BY Inductive, PTL DEF IInv

-----------------------------------------------------------------------------
(* Sums.  SumFunctionOnSet adds up in an order of its own choice; what is  *)
(* needed of it is that the sum over a part is no more than that over the  *)
(* whole, which follows by induction on the cardinality.                   *)

(* Every non-empty set of naturals has a least element. *)
LEMMA LeastNumber ==
    ASSUME NEW T \in SUBSET Nat, T # {}
    PROVE  \E n \in T : \A m \in T : n <= m
<1> DEFINE R == OpToRel(<, Nat)
<1>1. IsWellFoundedOn(R, Nat)
  BY NatLessThanWellFounded
<1>2. \A x, y \in Nat : y < x => <<y, x>> \in R
  BY DEF OpToRel
<1> HIDE DEF R
<1>3. PICK x \in T : \A y \in T : ~(<<y, x>> \in R)
  BY <1>1, WFMin
<1>4. \A y \in T : ~(y < x)
  BY <1>2, <1>3
<1> QED  BY <1>4

(* Induction over 0..N, on the set of arguments at which the claim holds. *)
LEMMA BoundedInduction ==
    ASSUME NEW N \in Nat, NEW S, 0 \in S,
           \A k \in 1..N : (k - 1) \in S => k \in S
    PROVE  \A k \in 0..N : k \in S
<1> DEFINE T == (0..N) \ S
<1>1. SUFFICES ASSUME T # {} PROVE FALSE
  OBVIOUS
<1>2. T \in SUBSET Nat
  OBVIOUS
<1>3. PICK n \in T : \A m \in T : n <= m
  BY <1>1, <1>2, LeastNumber
<1> QED  BY <1>3

Pick(s) == CHOOSE x \in s : TRUE

(* g is the sum of f over every part of S. *)
IsSum(g, f, S) ==
    g = [s \in SUBSET S |-> IF s = {} THEN 0 ELSE f[Pick(s)] + g[s \ {Pick(s)}]]

LEMMA SumIsChosen ==
    ASSUME NEW f, NEW S
    PROVE  SumFunctionOnSet(f, S) = (CHOOSE g : IsSum(g, f, S))[S]
BY DEF SumFunctionOnSet, FoldFunctionOnSet, MapThenFoldSet, IsSum, Pick

LEMMA PartFacts ==
    ASSUME NEW S, IsFiniteSet(S), NEW U, U \subseteq S
    PROVE  /\ Cardinality(U) \in Nat /\ Cardinality(U) <= Cardinality(S)
           /\ Cardinality(S) \in Nat
           /\ U = {} <=> Cardinality(U) = 0
           /\ U # {} => Pick(U) \in U
           /\ \A y \in U : U \ {y} \subseteq S /\ Cardinality(U \ {y}) = Cardinality(U) - 1
<1>1. IsFiniteSet(U) /\ Cardinality(U) <= Cardinality(S)
  BY FS_Subset
<1>2. Cardinality(U) \in Nat /\ Cardinality(S) \in Nat
  BY <1>1, FS_CardinalityType
<1>3. U = {} <=> Cardinality(U) = 0
  BY <1>1, FS_EmptySet
<1>4. \A y \in U : Cardinality(U \ {y}) = Cardinality(U) - 1
  BY <1>1, FS_RemoveElement
<1>5. U # {} => Pick(U) \in U
  BY DEF Pick
<1> QED  BY <1>1, <1>2, <1>3, <1>4, <1>5

(* There is a sum over every part of a finite set.  It is built up from    *)
(* the sums over parts of at most k elements.                              *)
LEMMA SumExists ==
    ASSUME NEW S, IsFiniteSet(S), NEW f \in [S -> Nat]
    PROVE  \E g \in [SUBSET S -> Nat] : IsSum(g, f, S)
<1> DEFINE N == Cardinality(S)
           Sums(g, k) == \A U \in SUBSET S : Cardinality(U) <= k =>
                            g[U] = IF U = {} THEN 0 ELSE f[Pick(U)] + g[U \ {Pick(U)}]
           K == {k \in 0..N : \E g \in [SUBSET S -> Nat] : Sums(g, k)}
<1>1. N \in Nat
  BY FS_CardinalityType
<1>2. 0 \in K
  <2> DEFINE g == [U \in SUBSET S |-> 0]
  <2>1. g \in [SUBSET S -> Nat]
    OBVIOUS
  <2>2. ASSUME NEW U \in SUBSET S, Cardinality(U) <= 0 PROVE U = {}
    BY <2>2, PartFacts
  <2>3. Sums(g, 0)
    BY <2>2
  <2> HIDE DEF g, Sums
  <2> QED  BY <1>1, <2>1, <2>3
<1>3. ASSUME NEW k \in 1..N, (k - 1) \in K PROVE k \in K
  <2>1. PICK g \in [SUBSET S -> Nat] : Sums(g, k - 1)
    BY <1>3
  <2> DEFINE h == [U \in SUBSET S |->
                     IF Cardinality(U) = k THEN f[Pick(U)] + g[U \ {Pick(U)}] ELSE g[U]]
  <2>2. k \in Nat /\ k > 0
    BY <1>1
  <2>3. ASSUME NEW U \in SUBSET S, U # {}
        PROVE  /\ Pick(U) \in S /\ U \ {Pick(U)} \in SUBSET S
               /\ Cardinality(U \ {Pick(U)}) = Cardinality(U) - 1
               /\ Cardinality(U) \in Nat
               /\ f[Pick(U)] + g[U \ {Pick(U)}] \in Nat
    <3>1. /\ Pick(U) \in U /\ U \ {Pick(U)} \subseteq S
          /\ Cardinality(U \ {Pick(U)}) = Cardinality(U) - 1
          /\ Cardinality(U) \in Nat
      BY <2>3, PartFacts
    <3>2. f[Pick(U)] \in Nat /\ g[U \ {Pick(U)}] \in Nat
      BY <3>1
    <3> QED  BY <3>1, <3>2
  <2>4. h \in [SUBSET S -> Nat]
    <3>1. ASSUME NEW U \in SUBSET S, Cardinality(U) = k PROVE U # {}
      BY <2>2, <3>1, PartFacts
    <3> QED  BY <2>3, <3>1
  <2>5. ASSUME NEW U \in SUBSET S, Cardinality(U) <= k
        PROVE  h[U] = IF U = {} THEN 0 ELSE f[Pick(U)] + h[U \ {Pick(U)}]
    <3>1. CASE U = {}
      <4>1. Cardinality(U) = 0
        BY <3>1, PartFacts
      <4>2. h[U] = g[U] /\ g[U] = 0
        BY <2>1, <2>2, <3>1, <4>1
      <4> QED  BY <3>1, <4>2
    <3>2. CASE U # {}
      <4> DEFINE V == U \ {Pick(U)}
      <4>1. /\ V \in SUBSET S /\ Cardinality(V) = Cardinality(U) - 1 /\ Cardinality(U) \in Nat
        BY <2>3, <3>2
      <4>2. h[V] = g[V]
        <5>1. Cardinality(V) # k
          BY <2>2, <2>5, <4>1
        <5> QED  BY <4>1, <5>1
      <4>3. Cardinality(U) # k => g[U] = f[Pick(U)] + g[V]
        BY <2>1, <2>2, <2>5, <3>2, <4>1
      <4>4. h[U] = f[Pick(U)] + g[V]
        BY <4>3
      <4> QED  BY <3>2, <4>2, <4>4
    <3> QED  BY <3>1, <3>2
  <2>6. Sums(h, k)
    BY <2>5
  <2> HIDE DEF h, Sums
  <2> QED  BY <2>4, <2>6
<1>4. N \in K
  <2> HIDE DEF K, N
  <2>1. \A k \in 0..N : k \in K
    BY <1>1, <1>2, <1>3, BoundedInduction
  <2> QED  BY <1>1, <2>1
<1>5. PICK g \in [SUBSET S -> Nat] : Sums(g, N)
  BY <1>4
<1>6. \A U \in SUBSET S : g[U] = IF U = {} THEN 0 ELSE f[Pick(U)] + g[U \ {Pick(U)}]
  BY <1>5, PartFacts
<1>7. IsSum(g, f, S)
  BY <1>6 DEF IsSum
<1> QED  BY <1>7

(* Two sums agree over the parts they have in common. *)
LEMMA SumsAgree ==
    ASSUME NEW S, NEW T, T \subseteq S, IsFiniteSet(T), NEW f, NEW e, \A x \in T : e[x] = f[x],
           NEW g, IsSum(g, f, S), NEW h, IsSum(h, e, T)
    PROVE  g[T] = h[T]
<1> DEFINE N == Cardinality(T)
           K == {k \in 0..N : \A U \in SUBSET T : Cardinality(U) <= k => g[U] = h[U]}
<1>1. N \in Nat
  BY FS_CardinalityType
<1>2. \A U \in SUBSET T : /\ g[U] = IF U = {} THEN 0 ELSE f[Pick(U)] + g[U \ {Pick(U)}]
                         /\ h[U] = IF U = {} THEN 0 ELSE e[Pick(U)] + h[U \ {Pick(U)}]
  BY DEF IsSum
<1>3. ASSUME NEW k \in Nat, NEW U \in SUBSET T, Cardinality(U) <= k,
             \A V \in SUBSET T : Cardinality(V) < k => g[V] = h[V]
      PROVE  g[U] = h[U]
  <2>1. CASE U = {}
    BY <1>2, <2>1
  <2>2. CASE U # {}
    <3> DEFINE V == U \ {Pick(U)}
    <3>1. /\ Pick(U) \in T /\ V \in SUBSET T /\ Cardinality(V) = Cardinality(U) - 1
          /\ Cardinality(U) \in Nat
      BY <2>2, PartFacts
    <3>2. g[V] = h[V]
      BY <1>3, <3>1
    <3>3. g[U] = f[Pick(U)] + g[V] /\ h[U] = e[Pick(U)] + h[V]
      BY <1>2, <2>2
    <3> QED  BY <3>1, <3>2, <3>3
  <2> QED  BY <2>1, <2>2
<1>4. \A U \in SUBSET T : Cardinality(U) \in Nat
  BY PartFacts
<1>5. 0 \in K
  <2>1. \A V \in SUBSET T : ~(Cardinality(V) < 0)
    BY <1>4
  <2> QED  BY <1>1, <1>3, <2>1
<1>6. ASSUME NEW k \in 1..N, (k - 1) \in K PROVE k \in K
  <2>1. \A V \in SUBSET T : Cardinality(V) < k => g[V] = h[V]
    BY <1>1, <1>4, <1>6
  <2> QED  BY <1>1, <1>3, <2>1
<1>7. N \in K
  <2> HIDE DEF K, N
  <2>1. \A k \in 0..N : k \in K
    BY <1>1, <1>5, <1>6, BoundedInduction
  <2> QED  BY <1>1, <2>1
<1>8. T \in SUBSET T /\ Cardinality(T) <= N
  BY <1>1
<1> QED  BY <1>7, <1>8

(* Any element may be added last. *)
AnyIsLast(g, f, S) == \A W \in SUBSET S : \A z \in W : g[W] = f[z] + g[W \ {z}]

LEMMA SumWithout ==
    ASSUME NEW S, IsFiniteSet(S), NEW f \in [S -> Nat], NEW g \in [SUBSET S -> Nat],
           IsSum(g, f, S)
    PROVE  AnyIsLast(g, f, S)
<1> DEFINE N == Cardinality(S)
           Any(U) == \A y \in U : g[U] = f[y] + g[U \ {y}]
           Below(k) == \A U \in SUBSET S : Cardinality(U) < k => Any(U)
           K == {k \in 0..N : \A U \in SUBSET S : Cardinality(U) <= k => Any(U)}
<1>1. N \in Nat /\ \A U \in SUBSET S : Cardinality(U) \in Nat /\ Cardinality(U) <= N
  BY PartFacts, FS_CardinalityType
<1>2. \A U \in SUBSET S : U # {} => g[U] = f[Pick(U)] + g[U \ {Pick(U)}]
  BY DEF IsSum
<1>3. ASSUME NEW k \in Nat, NEW U \in SUBSET S, Cardinality(U) <= k,
             Below(k), NEW y \in U
      PROVE  g[U] = f[y] + g[U \ {y}]
  <2> DEFINE x == Pick(U)
  <2>1. /\ x \in U /\ g[U] = f[x] + g[U \ {x}]
        /\ U \ {x} \in SUBSET S /\ Cardinality(U \ {x}) < k
        /\ U \ {y} \in SUBSET S /\ Cardinality(U \ {y}) < k
    <3>1. U # {}
      OBVIOUS
    <3>2. x \in U /\ Cardinality(U \ {x}) = Cardinality(U) - 1
      BY <3>1, PartFacts
    <3>3. Cardinality(U \ {y}) = Cardinality(U) - 1
      BY PartFacts
    <3> QED  BY <1>1, <1>2, <1>3, <3>1, <3>2, <3>3
  <2> HIDE DEF x
  <2>2. CASE x = y
    BY <2>1, <2>2
  <2>3. CASE x # y
    <3> DEFINE V == (U \ {x}) \ {y}
    <3>1. g[U \ {x}] = f[y] + g[V]
      BY <1>3, <2>1, <2>3
    <3>2. V = (U \ {y}) \ {x}
      OBVIOUS
    <3>3. g[U \ {y}] = f[x] + g[(U \ {y}) \ {x}]
      <4>1. x \in U \ {y} /\ Any(U \ {y})
        BY <1>3, <2>1, <2>3
      <4> QED  BY <4>1
    <3>4. f[x] \in Nat /\ f[y] \in Nat /\ g[V] \in Nat
      BY <2>1
    <3> HIDE DEF V
    <3> QED  BY <2>1, <3>1, <3>2, <3>3, <3>4
  <2> QED  BY <2>2, <2>3
<1>4. 0 \in K
  <2>1. \A V \in SUBSET S : ~(Cardinality(V) < 0)
    BY <1>1
  <2> QED  BY <1>1, <1>3, <2>1
<1>5. ASSUME NEW k \in 1..N, (k - 1) \in K PROVE k \in K
  <2>1. Below(k)
    <3> HIDE DEF Any
    <3> QED  BY <1>1, <1>5
  <2>2. ASSUME NEW U \in SUBSET S, Cardinality(U) <= k PROVE Any(U)
    <3>1. k \in Nat
      BY <1>1
    <3> HIDE DEF Below, N, K
    <3> QED  BY <1>3, <2>1, <2>2, <3>1
  <2> HIDE DEF Any
  <2> QED  BY <1>1, <2>2
<1>6. N \in K
  <2> HIDE DEF K, N
  <2>1. \A k \in 0..N : k \in K
    BY <1>1, <1>4, <1>5, BoundedInduction
  <2> QED  BY <1>1, <2>1
<1> QED  BY <1>1, <1>6 DEF AnyIsLast

(* A part sums up to no more than the whole: take away, one by one, what is *)
(* not in it.                                                               *)
LEMMA PartSumsLess ==
    ASSUME NEW S, IsFiniteSet(S), NEW f \in [S -> Nat], NEW g \in [SUBSET S -> Nat],
           IsSum(g, f, S), NEW T \in SUBSET S
    PROVE  g[T] <= g[S]
<1>1. AnyIsLast(g, f, S)
  BY SumWithout
<1> DEFINE N == Cardinality(S)
           K == {k \in 0..N : \A U \in SUBSET S : T \subseteq U /\ Cardinality(U) <= k => g[T] <= g[U]}
<1>2. N \in Nat /\ \A U \in SUBSET S : Cardinality(U) \in Nat /\ Cardinality(U) <= N
  BY PartFacts, FS_CardinalityType
<1>3. ASSUME NEW k \in Nat, NEW U \in SUBSET S, T \subseteq U, Cardinality(U) <= k,
             \A V \in SUBSET S : T \subseteq V /\ Cardinality(V) < k => g[T] <= g[V]
      PROVE  g[T] <= g[U]
  <2>1. CASE T = U
    BY <2>1
  <2>2. CASE T # U
    <3>1. PICK y \in U : y \notin T
      BY <1>3, <2>2
    <3>2. /\ U \ {y} \in SUBSET S /\ T \subseteq U \ {y}
          /\ Cardinality(U \ {y}) = Cardinality(U) - 1
      BY <1>3, <3>1, PartFacts
    <3>3. g[T] <= g[U \ {y}]
      BY <1>2, <1>3, <3>2
    <3>4. g[U] = f[y] + g[U \ {y}]
      BY <1>1 DEF AnyIsLast
    <3>5. f[y] \in Nat /\ g[U \ {y}] \in Nat /\ g[T] \in Nat
      BY <3>2
    <3> QED  BY <3>3, <3>4, <3>5
  <2> QED  BY <2>1, <2>2
<1>4. 0 \in K
  <2>1. \A V \in SUBSET S : ~(Cardinality(V) < 0)
    BY <1>2
  <2> QED  BY <1>2, <1>3, <2>1
<1>5. ASSUME NEW k \in 1..N, (k - 1) \in K PROVE k \in K
  <2>1. \A V \in SUBSET S : T \subseteq V /\ Cardinality(V) < k => g[T] <= g[V]
    BY <1>2, <1>5
  <2> QED  BY <1>2, <1>3, <2>1
<1>6. N \in K
  <2> HIDE DEF K, N
  <2>1. \A k \in 0..N : k \in K
    BY <1>2, <1>4, <1>5, BoundedInduction
  <2> QED  BY <1>2, <2>1
<1> QED  BY <1>2, <1>6

(* The sum over a part is no more than the sum over the whole. *)
LEMMA SumMonotone ==
    ASSUME NEW S, IsFiniteSet(S), NEW f \in [S -> Nat],
           NEW T \in SUBSET S, NEW e \in [T -> Nat], \A x \in T : e[x] = f[x]
    PROVE  /\ SumFunctionOnSet(e, T) \in Nat /\ SumFunctionOnSet(f, S) \in Nat
           /\ SumFunctionOnSet(e, T) <= SumFunctionOnSet(f, S)
<1>1. IsFiniteSet(T)
  BY FS_Subset
<1> DEFINE g == CHOOSE g : IsSum(g, f, S)
           h == CHOOSE h : IsSum(h, e, T)
<1>2. IsSum(g, f, S)
  BY SumExists
<1>3. IsSum(h, e, T)
  BY <1>1, SumExists
<1>4. SumFunctionOnSet(f, S) = g[S] /\ SumFunctionOnSet(e, T) = h[T]
  BY SumIsChosen
<1> HIDE DEF g, h
<1>5. PICK j \in [SUBSET S -> Nat] : IsSum(j, f, S)
  BY SumExists
<1>6. j[S] = g[S]
  BY <1>2, <1>5, SumsAgree
<1>7. j[T] = h[T]
  BY <1>1, <1>3, <1>5, SumsAgree
<1>8. j[T] <= j[S] /\ j[T] \in Nat /\ j[S] \in Nat
  BY <1>5, PartSumsLess
<1> QED  BY <1>4, <1>6, <1>7, <1>8

-----------------------------------------------------------------------------
(* What a balance covers.  The reports that had been answered when a check *)
(* was sent are among those it counts, for periods that have time in       *)
(* common also touch; so what it finds balanced covers them, and whatever  *)
(* happens to the runs afterwards adds to what is paid.                    *)
Covered(c) ==
    query[c].tolerance # NaN =>
        ReportedExactly(Due(c)) <= PaidExactly(query[c]) + query[c].tolerance + Slack

CheckCovers(c) ==
    /\ asOf[c] \subseteq reports
    /\ pc[c] \in {"unsent", "listReports", "listRuns"} => verdict[c] = "none"
    /\ pc[c] \in {"listReports", "listRuns"} \/ verdict[c] # "none" => query[c] \in Queries
    /\ pc[c] = "listRuns" => Due(c) \subseteq counted[c]
    /\ verdict[c] = "balanced" => Covered(c)

BalanceInv ==
    /\ IsFiniteSet(reports)
    /\ IsFiniteSet(DOMAIN runs)
    /\ \A c \in Checks : CheckCovers(c)

LEMMA CoveredMeaning ==
    (\A c \in Checks : verdict[c] = "balanced" => Covered(c)) <=> BalancedCoversReported
  BY DEF Covered, BalancedCoversReported

(* A larger set of reports reports no less. *)
LEMMA ReportedMonotone ==
    ASSUME TypeOK, NEW R \in SUBSET reports, IsFiniteSet(R), NEW Q \in SUBSET R
    PROVE  /\ ReportedExactly(Q) \in Nat /\ ReportedExactly(R) \in Nat
           /\ ReportedExactly(Q) <= ReportedExactly(R)
<1> DEFINE f == [s \in R |-> request[s].amount]
           e == [s \in Q |-> request[s].amount]
<1>1. \A s \in R : request[s].amount \in Nat
  <2>1. \A s \in R : s \in Submissions /\ request[s] # None
    BY DEF TypeOK
  <2> QED  BY <2>1, SentRequest DEF RequestType
<1>2. f \in [R -> Nat] /\ e \in [Q -> Nat] /\ \A s \in Q : e[s] = f[s]
  BY <1>1
<1>3. ReportedExactly(R) = SumFunctionOnSet(f, R) /\ ReportedExactly(Q) = SumFunctionOnSet(e, Q)
  BY DEF ReportedExactly
<1> HIDE DEF f, e
<1> QED  BY <1>2, <1>3, SumMonotone

(* The runs a query counts as paid. *)
Completed(q) == {d \in RelevantRuns(q) : runs[d].status = "completed"}

LEMMA InCents ==
    ASSUME NEW n \in Nat
    PROVE  Cent * n \in Nat
  BY PrecisionAssumption

LEMMA PaidIsNumber ==
    ASSUME TypeOK, IsFiniteSet(DOMAIN runs), NEW q
    PROVE  /\ IsFiniteSet(Completed(q))
           /\ [d \in Completed(q) |-> Cent * runs[d].total_amount] \in [Completed(q) -> Nat]
           /\ PaidExactly(q) =
                SumFunctionOnSet([d \in Completed(q) |-> Cent * runs[d].total_amount],
                                 Completed(q))
           /\ PaidExactly(q) \in Nat
<1>1. Completed(q) \subseteq DOMAIN runs
  BY DEF Completed, RelevantRuns
<1>2. IsFiniteSet(Completed(q))
  BY <1>1, FS_Subset
<1> DEFINE f == [d \in Completed(q) |-> Cent * runs[d].total_amount]
<1>3. f \in [Completed(q) -> Nat]
  <2>1. \A d \in Completed(q) : runs[d].total_amount \in Nat
    BY <1>1 DEF TypeOK, RunRow
  <2> QED  BY <2>1, InCents
<1>4. PaidExactly(q) = SumFunctionOnSet(f, Completed(q))
  BY DEF PaidExactly, Completed
<1> HIDE DEF f
<1>5. SumFunctionOnSet(f, Completed(q)) \in Nat
  BY <1>2, <1>3, SumMonotone
<1> QED  BY <1>2, <1>3, <1>4, <1>5 DEF f

(* No step of a run takes away from what is paid. *)
LEMMA PaidGrows ==
    ASSUME TypeOK, TypeOK', IsFiniteSet(DOMAIN runs), IsFiniteSet(DOMAIN runs'),
           NEW d \in Runs, RunStep(d), NEW q
    PROVE  PaidExactly(q) <= PaidExactly(q)' /\ PaidExactly(q) \in Nat /\ PaidExactly(q)' \in Nat
<1>1. \A e \in DOMAIN runs : /\ e \in DOMAIN runs'
                             /\ runs'[e].offering = runs[e].offering
                             /\ runs'[e].distribution_date = runs[e].distribution_date
                             /\ runs'[e].total_amount = runs[e].total_amount
                             /\ runs[e].status = "completed" => runs'[e].status = "completed"
  <2>1. CASE AddRun(d)
    BY <2>1 DEF AddRun
  <2>2. CASE SettleRun(d)
    <3>1. PICK status \in {"completed", "failed"} : runs' = [runs EXCEPT ![d].status = status]
      BY <2>2 DEF SettleRun
    <3> QED  BY <2>2, <3>1 DEF SettleRun, TypeOK, RunRow
  <2> QED  BY <2>1, <2>2 DEF RunStep
<1> DEFINE A == Completed(q)
           B == Completed(q)'
           e == [x \in A |-> Cent * runs[x].total_amount]
           f == [x \in B |-> Cent * runs'[x].total_amount]
<1>2. A \subseteq B
  BY <1>1 DEF Completed, RelevantRuns
<1>3. \A x \in A : e[x] = f[x]
  BY <1>1, <1>2 DEF Completed, RelevantRuns
<1>4. /\ e \in [A -> Nat]
      /\ PaidExactly(q) = SumFunctionOnSet(e, A)
  BY PaidIsNumber
<1>5. /\ IsFiniteSet(B) /\ f \in [B -> Nat]
      /\ PaidExactly(q)' = SumFunctionOnSet(f, B)
  <2>1. B \subseteq DOMAIN runs'
    BY DEF Completed, RelevantRuns
  <2>2. f \in [B -> Nat]
    <3>1. \A x \in B : runs'[x].total_amount \in Nat
      BY <2>1 DEF TypeOK, RunRow
    <3> QED  BY <3>1, InCents
  <2>3. PaidExactly(q)' = SumFunctionOnSet(f, B)
    BY DEF PaidExactly, Completed
  <2> QED  BY <2>1, <2>2, <2>3, FS_Subset
<1> HIDE DEF A, B, e, f
<1> QED  BY <1>2, <1>3, <1>4, <1>5, SumMonotone

LEMMA Scaled ==
    ASSUME NEW k \in Nat, NEW a \in Int, NEW b \in Int, NEW g \in Int, a <= b + g
    PROVE  k * a <= k * b + k * g
<1>1. 0 <= k * (b + g - a)
  OBVIOUS
<1>2. k * (b + g - a) = k * b + k * g - k * a
  OBVIOUS
<1> QED  BY <1>1, <1>2

(* Amounts that round to m and n cents differ by little more than those.   *)
LEMMA RoundedApart ==
    ASSUME NEW x \in Nat, NEW y \in Nat, NEW m \in ToFixed(x), NEW n \in ToFixed(y),
           NEW d \in Differences(m, n)
    PROVE  d \in Int /\ x <= y + d + Slack
<1>1. m \in Nat /\ n \in Nat /\ 2 * x <= 2 * Cent * m + Cent + 2 * Drift
      /\ 2 * Cent * n <= 2 * y + Cent + 2 * Drift
  BY PrecisionAssumption DEF ToFixed, Near
<1> DEFINE gap == IF m < n THEN n - m ELSE m - n
<1>2. gap \in Int /\ m <= n + gap
  BY <1>1
<1>3. d \in Int /\ Cent * gap <= d + Drift
  <2>1. d \in Cent * gap - Drift .. Cent * gap + Drift
    BY DEF Differences
  <2> HIDE DEF gap
  <2> QED  BY <1>2, <2>1, PrecisionAssumption
<1> HIDE DEF gap
<1>4. Cent * m <= Cent * n + Cent * gap
  BY <1>1, <1>2, PrecisionAssumption, Scaled
<1>5. /\ Cent * m \in Int /\ Cent * n \in Int /\ Cent * gap \in Int
      /\ 2 * Cent * m = 2 * (Cent * m) /\ 2 * Cent * n = 2 * (Cent * n)
  BY <1>1, <1>2, PrecisionAssumption
<1> QED  BY <1>1, <1>3, <1>4, <1>5, PrecisionAssumption DEF Slack

(* When the verdict is "balanced", what was due is covered. *)
LEMMA VerdictCovers ==
    ASSUME TypeOK, IsFiniteSet(reports), IsFiniteSet(DOMAIN runs),
           NEW c \in Checks, query[c] \in Queries, Due(c) \subseteq counted[c],
           NEW m \in Reported(counted[c]), NEW n \in Paid(query[c]),
           NEW d \in Differences(m, n), Balanced(c, d)
    PROVE  Covered(c)
<1> SUFFICES ASSUME query[c].tolerance # NaN
             PROVE  ReportedExactly(Due(c)) <= PaidExactly(query[c]) + query[c].tolerance + Slack
  BY DEF Covered
<1>1. query[c].tolerance \in Int
  BY InputsAssumption DEF QueryType
<1>2. counted[c] \in SUBSET reports /\ IsFiniteSet(counted[c])
  <2>1. counted[c] \subseteq reports
    BY DEF TypeOK
  <2> QED  BY <2>1, FS_Subset
<1>3. /\ ReportedExactly(Due(c)) \in Nat /\ ReportedExactly(counted[c]) \in Nat
      /\ ReportedExactly(Due(c)) <= ReportedExactly(counted[c])
  BY <1>2, ReportedMonotone
<1>4. PaidExactly(query[c]) \in Nat
  BY PaidIsNumber
<1>5. /\ d \in Int
      /\ ReportedExactly(counted[c]) <= PaidExactly(query[c]) + d + Slack
  BY <1>3, <1>4, RoundedApart DEF Reported, Paid
<1>6. d <= query[c].tolerance
  BY <1>1, <1>5 DEF Balanced, Exceeds
<1>7. Slack \in Int
  BY PrecisionAssumption DEF Slack
<1> QED  BY <1>1, <1>3, <1>4, <1>5, <1>6, <1>7

(* Nothing a verdict rests on changes under a step that leaves the runs,   *)
(* the check's own fields and the reports there are as they were.          *)
LEMMA CoveredKept ==
    ASSUME NEW c \in Checks, asOf[c] \subseteq reports,
           \A s \in reports : request'[s] = request[s],
           query'[c] = query[c], asOf'[c] = asOf[c], runs' = runs
    PROVE  Due(c)' = Due(c) /\ Covered(c)' = Covered(c)
<1>1. \A s \in asOf[c] : request'[s] = request[s]
  OBVIOUS
<1>2. Due(c)' = Due(c)
  BY <1>1 DEF Due
<1>3. [s \in Due(c) |-> request'[s].amount] = [s \in Due(c) |-> request[s].amount]
  BY <1>1 DEF Due
<1>4. ReportedExactly(Due(c))' = ReportedExactly(Due(c))
  BY <1>2, <1>3 DEF ReportedExactly
<1>5. PaidExactly(query[c])' = PaidExactly(query[c])
  BY DEF PaidExactly, RelevantRuns
<1> QED  BY <1>2, <1>4, <1>5 DEF Covered

LEMMA CheckKept ==
    ASSUME NEW c \in Checks, CheckCovers(c), reports \subseteq reports',
           \A s \in reports : request'[s] = request[s],
           query'[c] = query[c], asOf'[c] = asOf[c], runs' = runs,
           counted'[c] = counted[c], verdict'[c] = verdict[c],
           pc'[c] = pc[c] \/ pc'[c] \in {"done", "crashed"}
    PROVE  CheckCovers(c)'
<1>1. Due(c)' = Due(c) /\ Covered(c)' = Covered(c)
  BY CoveredKept DEF CheckCovers
<1> QED  BY <1>1 DEF CheckCovers

(* Periods that have time in common touch: datesOverlap leaves out none.   *)
LEMMA CommonTimeIsRelevant ==
    ASSUME NEW p \in RequestType, NEW q \in QueryType, CommonTime(p, q)
    PROVE  Relevant(p, q)
  BY DEF RequestType, QueryType, CommonTime, Relevant

LEMMA CheckBalance ==
    ASSUME IInv, IInv', BalanceInv, NEW c \in Checks, CheckStep(c)
    PROVE  BalanceInv'
<1>1. UNCHANGED <<request, reports, runs>>
  BY DEF CheckStep, Ask, Decline, ListReports, ListRuns, FindInvestors, CheckFails,
         reportVars, checkVars
<1>2. ASSUME NEW b \in Checks, b # c
      PROVE  CheckCovers(b)'
  <2>1. /\ query'[b] = query[b] /\ asOf'[b] = asOf[b] /\ counted'[b] = counted[b]
        /\ verdict'[b] = verdict[b] /\ pc'[b] = pc[b]
    BY <1>2
       DEF IInv, TypeOK, CheckStep, Ask, Decline, ListReports, ListRuns, FindInvestors,
           CheckFails, reportVars, checkVars, GoTo, Answer
  <2> QED  BY <1>1, <2>1, CheckKept DEF BalanceInv
<1>3. CheckCovers(c)'
  <2>1. CASE Ask(c)
    <3>1. Answered \subseteq reports
      BY DEF Answered, IInv, SubmissionConsistent
    <3>2. /\ query'[c] \in Queries /\ asOf'[c] = Answered /\ verdict'[c] = verdict[c]
          /\ pc[c] = "unsent" /\ pc'[c] = "listReports"
      BY <2>1 DEF Ask, IInv, TypeOK, GoTo
    <3>3. verdict[c] = "none"
      BY <3>2 DEF BalanceInv, CheckCovers
    <3> QED  BY <1>1, <3>1, <3>2, <3>3 DEF CheckCovers
  <2>2. CASE Decline(c) \/ FindInvestors(c) \/ CheckFails(c)
    <3>1. /\ UNCHANGED <<checkVars, asOf>>
          /\ pc'[c] = "done"
      BY <2>2 DEF Decline, FindInvestors, CheckFails, IInv, TypeOK, Answer
    <3> QED  BY <1>1, <3>1, CheckKept DEF BalanceInv, checkVars
  <2>3. CASE ListReports(c)
    <3>1. /\ UNCHANGED <<query, verdict, asOf>>
          /\ counted'[c] = {s \in reports : Relevant(request[s], query[c])}
          /\ pc[c] = "listReports" /\ pc'[c] = "listRuns"
      BY <2>3 DEF ListReports, IInv, TypeOK, GoTo
    <3>2. /\ asOf[c] \subseteq reports /\ query[c] \in Queries /\ verdict[c] = "none"
      BY <3>1 DEF BalanceInv, CheckCovers
    <3>3. \A s \in Due(c) : s \in counted'[c]
      <4> SUFFICES ASSUME NEW s \in Due(c)
                   PROVE  s \in reports /\ Relevant(request[s], query[c])
        BY <3>1
      <4>1. s \in reports /\ CommonTime(request[s], query[c])
        BY <3>2 DEF Due
      <4>2. request[s] \in RequestType
        BY <4>1, SentRequest DEF IInv, TypeOK
      <4>3. query[c] \in QueryType
        BY <3>2, InputsAssumption
      <4> QED  BY <4>1, <4>2, <4>3, CommonTimeIsRelevant
    <3>4. Due(c)' = Due(c)
      BY <1>1, <3>1 DEF Due
    <3> QED  BY <1>1, <3>1, <3>2, <3>3, <3>4 DEF CheckCovers
  <2>4. CASE ListRuns(c)
    <3>1. /\ UNCHANGED <<query, counted, asOf>>
          /\ pc[c] = "listRuns" /\ pc'[c] \in {"done", "findInvestors"}
      BY <2>4 DEF ListRuns, IInv, TypeOK, GoTo, Answer
    <3>2. PICK m \in Reported(counted[c]), n \in Paid(query[c]) : \E d \in Differences(m, n) :
             verdict' = [verdict EXCEPT ![c] = IF Balanced(c, d) THEN "balanced"
                                                                ELSE "unbalanced"]
      BY <2>4 DEF ListRuns
    <3> PICK d \in Differences(m, n) :
             verdict' = [verdict EXCEPT ![c] = IF Balanced(c, d) THEN "balanced"
                                                                ELSE "unbalanced"]
      BY <3>2
    <3>3. verdict'[c] = "balanced" => Balanced(c, d)
      BY <3>2 DEF IInv, TypeOK
    <3>4. /\ query[c] \in Queries /\ asOf[c] \subseteq reports
          /\ Due(c) \subseteq counted[c]
      BY <3>1 DEF BalanceInv, CheckCovers
    <3>5. verdict'[c] = "balanced" => Covered(c)
      BY <3>3, <3>4, VerdictCovers DEF BalanceInv, IInv
    <3>6. Covered(c)' = Covered(c)
      BY <1>1, <3>1, <3>4, CoveredKept
    <3> QED  BY <1>1, <3>1, <3>4, <3>5, <3>6 DEF CheckCovers
  <2> QED  BY <2>1, <2>2, <2>3, <2>4 DEF CheckStep
<1> QED  BY <1>1, <1>2, <1>3 DEF BalanceInv

LEMMA SubmissionBalance ==
    ASSUME IInv, BalanceInv, NEW r \in Submissions, SubmissionStep(r)
    PROVE  BalanceInv'
<1>1. /\ UNCHANGED <<query, counted, verdict, runs>>
      /\ reports \subseteq reports' /\ reports' \subseteq reports \cup {r}
      /\ \A s \in reports : request'[s] = request[s]
  BY SubmissionAlone DEF checkVars
<1>2. IsFiniteSet(reports')
  <2>1. IsFiniteSet(reports \cup {r})
    BY FS_AddElement DEF BalanceInv
  <2> QED  BY <1>1, <2>1, FS_Subset
<1>3. ASSUME NEW c \in Checks
      PROVE  CheckCovers(c)'
  <2>1. pc'[c] = pc[c] /\ asOf'[c] = asOf[c]
    BY DistinctAssumption
       DEF IInv, TypeOK, SubmissionStep, Submit, Refuse, FindOffering, FindOverlap, Create,
           CreateRefused, SubmissionFails, GoTo, Answer
  <2> QED  BY <1>1, <2>1, CheckKept DEF BalanceInv
<1> QED  BY <1>1, <1>2, <1>3 DEF BalanceInv

LEMMA RunBalance ==
    ASSUME IInv, IInv', BalanceInv, NEW d \in Runs, RunStep(d)
    PROVE  BalanceInv'
<1>1. UNCHANGED <<pc, request, reports, query, counted, verdict, asOf>>
  BY DEF RunStep, AddRun, SettleRun, reportVars, checkVars
<1>2. IsFiniteSet(DOMAIN runs')
  <2>1. DOMAIN runs' \subseteq DOMAIN runs \cup {d}
    BY DEF RunStep, AddRun, SettleRun
  <2>2. IsFiniteSet(DOMAIN runs \cup {d})
    BY FS_AddElement DEF BalanceInv
  <2> QED  BY <2>1, <2>2, FS_Subset
<1>3. ASSUME NEW c \in Checks
      PROVE  CheckCovers(c)'
  <2>1. Due(c)' = Due(c) /\ ReportedExactly(Due(c))' = ReportedExactly(Due(c))
    BY <1>1 DEF Due, ReportedExactly
  <2>2. ASSUME verdict[c] = "balanced"
        PROVE  Covered(c)'
    <3>1. query[c] \in Queries /\ asOf[c] \subseteq reports /\ Covered(c)
      BY <2>2 DEF BalanceInv, CheckCovers
    <3>2. query[c].tolerance \in Int \cup {NaN} /\ Slack \in Int
      BY <3>1, InputsAssumption, PrecisionAssumption DEF QueryType, Slack
    <3>3. /\ PaidExactly(query[c]) <= PaidExactly(query[c])' /\ PaidExactly(query[c]) \in Nat
          /\ PaidExactly(query[c])' \in Nat
      <4> DEFINE q == query[c]
      <4>1. q' = q
        BY <1>1
      <4>2. TypeOK /\ TypeOK' /\ IsFiniteSet(DOMAIN runs)
        BY DEF IInv, BalanceInv
      <4> QED  BY <1>1, <1>2, <4>1, <4>2, PaidGrows
    <3>4. ReportedExactly(Due(c)) \in Nat
      <4>1. Due(c) \in SUBSET reports
        BY <3>1 DEF Due
      <4>2. IsFiniteSet(reports)
        BY DEF BalanceInv
      <4> QED  BY <4>1, <4>2, ReportedMonotone DEF IInv
    <3> QED  BY <1>1, <2>1, <3>1, <3>2, <3>3, <3>4 DEF Covered
  <2> QED  BY <1>1, <2>1, <2>2 DEF BalanceInv, CheckCovers
<1> QED  BY <1>1, <1>2, <1>3 DEF BalanceInv

LEMMA CrashBalance ==
    ASSUME IInv, BalanceInv, Crash
    PROVE  BalanceInv'
<1>1. /\ UNCHANGED <<request, reports, query, counted, verdict, runs, asOf>>
      /\ \A c \in Checks : pc'[c] = pc[c] \/ pc'[c] = "crashed"
  BY DEF Crash, reportVars, checkVars
<1>2. ASSUME NEW c \in Checks
      PROVE  CheckCovers(c)'
  BY <1>1, CheckKept DEF BalanceInv
<1> QED  BY <1>1, <1>2 DEF BalanceInv

THEOREM InductiveBalance == Spec => []BalanceInv
<1>1. Init => BalanceInv
  <2> SUFFICES ASSUME Init
               PROVE  BalanceInv
    OBVIOUS
  <2>1. IsFiniteSet(reports) /\ IsFiniteSet(DOMAIN runs)
    BY FS_EmptySet DEF Init
  <2>2. \A c \in Checks : CheckCovers(c)
    BY DEF Init, CheckCovers
  <2> QED  BY <2>1, <2>2 DEF BalanceInv
<1>2. IInv /\ IInv' /\ BalanceInv /\ [Next]_vars => BalanceInv'
  <2> SUFFICES ASSUME IInv, IInv', BalanceInv, [Next]_vars
               PROVE  BalanceInv'
    OBVIOUS
  <2>1. CASE \E r \in Submissions : SubmissionStep(r)
    BY <2>1, SubmissionBalance
  <2>2. CASE \E c \in Checks : CheckStep(c)
    BY <2>2, CheckBalance
  <2>3. CASE \E d \in Runs : RunStep(d)
    BY <2>3, RunBalance
  <2>4. CASE Crash
    BY <2>4, CrashBalance
  <2>5. CASE UNCHANGED vars
    <3>1. UNCHANGED <<pc, request, reports, query, counted, verdict, runs, asOf>>
      BY <2>5 DEF vars, reportVars, checkVars
    <3>2. ASSUME NEW c \in Checks
          PROVE  CheckCovers(c)'
      BY <3>1, CheckKept DEF BalanceInv
    <3> QED  BY <3>1, <3>2 DEF BalanceInv
  <2> QED  BY <2>1, <2>2, <2>3, <2>4, <2>5 DEF Next
<1> QED  BY Inductive, <1>1, <1>2, PTL DEF Spec

(* A check that answers "balanced" has left out no report that had been    *)
(* answered when it was sent: ReconciliationService.reconcile and          *)
(* quickBalanceCheck, although they read reports and runs one after the    *)
(* other, and whatever is settled between and afterwards.                  *)
THEOREM BalancedMeansCovered == Spec => []BalancedCoversReported
<1>1. BalanceInv => BalancedCoversReported
  BY CoveredMeaning DEF BalanceInv, CheckCovers
<1> QED  BY InductiveBalance, <1>1, PTL
=============================================================================

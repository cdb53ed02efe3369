--------------------------- MODULE RevenueReports ---------------------------
(***************************************************************************)
(* The revenue an issuer reports for a period of an offering               *)
(* (RevenueHandler, RevenueService, RevenueReportRepository), and the      *)
(* reconciliation of what was reported with what was distributed           *)
(* (RevenueReconciliationService behind routes/reconciliationRoutes.ts).   *)
(*                                                                         *)
(* A step is one query, with the code up to the next one; a query commits  *)
(* on its own.  A report is named after the submission that inserts it.    *)
(* Instants of time are natural numbers.  A report states its amount with  *)
(* up to ten decimals: amounts are counted in units of the last one, and   *)
(* Cent units make a cent.  The runs of the distribution engine are rows   *)
(* that appear as it inserts them, of whole cents; DistributionEngine      *)
(* models how.                                                             *)
(***************************************************************************)
EXTENDS Integers, Functions

CONSTANTS
    Submissions, \* requests to submit a report, each made once; also the ids of the reports
    Checks,      \* requests to reconcile or to check a balance, each made once
    Runs,        \* ids of distribution runs
    Requests,    \* what a submission may ask for: see RequestType
    Queries,     \* what a check may ask for: see QueryType
    RunInputs,   \* the runs the distribution engine may insert: see RunInputType
    Offerings,
    None,        \* no request, no query
    NaN,         \* a tolerance that compares as no number
    Cent,        \* the units of a cent
    Drift        \* how far from the exact value, in units, floating point may end up

(* from, to: periodStart and periodEnd; exists, owner: what findById tells *)
(* of the offering; amount: in units, 0 also for what is no decimal.       *)
(* options.tolerance comes from the body as it is.                         *)
RequestType == [offering : Offerings, exists : BOOLEAN, owner : BOOLEAN, amount : Nat,
                from : Nat, to : Nat]
QueryType == [kind : {"reconcile", "quick"}, offering : Offerings, from : Nat, to : Nat,
              tolerance : Int \cup {NaN}]
DefaultTolerance == Cent
RunInputType == [offering : Offerings, total_amount : Nat, distribution_date : Nat]

ASSUME InputsAssumption ==
    /\ Requests \subseteq RequestType
    /\ Queries \subseteq QueryType
    /\ \A q \in Queries : q.kind = "quick" => q.tolerance = DefaultTolerance
    /\ RunInputs \subseteq RunInputType
ASSUME PrecisionAssumption == Cent \in Nat \ {0} /\ Drift \in Nat
ASSUME DistinctAssumption ==
    /\ NaN \notin Int
    /\ None \notin RequestType \cup QueryType
    /\ Submissions \cap Checks = {}

VARIABLES
    pc,        \* where each request is: see SubmissionPCs and CheckPCs
    answer,    \* HTTP status answered, 0 before any
    request,   \* what each submission asks for
    reports,   \* table revenue_reports: the submissions whose row is in it
    query,     \* what each check asks for
    counted,   \* relevantReports of a check
    verdict,   \* isBalanced of a check
    runs,      \* table distribution_runs: a function from the ids present to their rows
    asOf       \* history: the submissions that had been answered 201 when a request was sent

reportVars == <<request, reports>>
checkVars == <<query, counted, verdict>>
vars == <<pc, answer, request, reports, query, counted, verdict, runs, asOf>>

SubmissionPCs == {"unsent", "findOffering", "findOverlap", "create", "done", "crashed"}
CheckPCs == {"unsent", "listReports", "listRuns", "findInvestors", "done", "crashed"}
Running == {"findOffering", "findOverlap", "create", "listReports", "listRuns", "findInvestors"}

RunRow == [offering : Offerings, total_amount : Nat, distribution_date : Nat,
           status : {"processing", "completed", "failed"}]

Answered == {r \in Submissions : answer[r] = 201}

-----------------------------------------------------------------------------
Init ==
    /\ pc = [x \in Submissions \cup Checks |-> "unsent"]
    /\ answer = [x \in Submissions \cup Checks |-> 0]
    /\ request = [r \in Submissions |-> None]
    /\ reports = {}
    /\ query = [c \in Checks |-> None]
    /\ counted = [c \in Checks |-> {}]
    /\ verdict = [c \in Checks |-> "none"]
    /\ runs = [d \in {} |-> None]
    /\ asOf = [x \in Submissions \cup Checks |-> {}]

GoTo(x, place) ==
    /\ pc' = [pc EXCEPT ![x] = place]
    /\ UNCHANGED answer

Answer(x, code) ==
    /\ pc' = [pc EXCEPT ![x] = "done"]
    /\ answer' = [answer EXCEPT ![x] = code]

-----------------------------------------------------------------------------
(* Submission of a report. *)

Submit(r) ==
    /\ pc[r] = "unsent"
    /\ \E q \in Requests : request' = [request EXCEPT ![r] = q]
    /\ asOf' = [asOf EXCEPT ![r] = Answered]
    /\ GoTo(r, "findOffering")
    /\ UNCHANGED <<reports, checkVars, runs>>

(* The schema, the token, or a field that is missing. *)
Refuse(r) ==
    /\ pc[r] = "unsent"
    /\ \E code \in {400, 401} : Answer(r, code)
    /\ UNCHANGED <<reportVars, checkVars, runs, asOf>>

(* What submitReport throws before it queries for overlaps, as the handler *)
(* answers it: 400 also for an offering that is not found.                 *)
Rejection(q) ==
    IF ~q.exists THEN {400}
    ELSE IF ~q.owner THEN {403}
    ELSE IF q.amount = 0 \/ q.to <= q.from THEN {400}
    ELSE {}

FindOffering(r) ==
    /\ pc[r] = "findOffering"
    /\ IF Rejection(request[r]) = {}
       THEN GoTo(r, "findOverlap")
       ELSE \E code \in Rejection(request[r]) : Answer(r, code)
    /\ UNCHANGED <<reportVars, checkVars, runs, asOf>>

SamePeriod(p, q) == p.offering = q.offering /\ p.from = q.from /\ p.to = q.to

(* A bug to detect: <= and >= for < and >. *)
TouchingPeriod(p, q) == p.offering = q.offering /\ p.from <= q.to /\ p.to >= q.from

(* findOverlappingReport: period_start < $3 AND period_end > $2. *)
Overlapping(p, q) == p.offering = q.offering /\ p.from < q.to /\ p.to > q.from

FindOverlap(r) ==
    /\ pc[r] = "findOverlap"
    /\ IF \E s \in reports : Overlapping(request[s], request[r])
       THEN Answer(r, 409)
       ELSE GoTo(r, "create")
    /\ UNCHANGED <<reportVars, checkVars, runs, asOf>>

(* idx_revenue_reports_unique_period. *)
PeriodTaken(q) == \E s \in reports : SamePeriod(request[s], q)

(* The INSERT; when its acknowledgement is lost, the answer is 400.        *)
Create(r) ==
    /\ pc[r] = "create"
    /\ ~PeriodTaken(request[r])
    /\ reports' = reports \cup {r}
    /\ \E code \in {201, 400} : Answer(r, code)
    /\ UNCHANGED <<request, checkVars, runs, asOf>>

(* The unique index refuses it: an error that does not say "overlaps".     *)
CreateRefused(r) ==
    /\ pc[r] = "create"
    /\ PeriodTaken(request[r])
    /\ Answer(r, 400)
    /\ UNCHANGED <<reportVars, checkVars, runs, asOf>>

(* A query rejects without effect; dates that are none make it do so.      *)
SubmissionFails(r) ==
    /\ pc[r] \in {"findOffering", "findOverlap", "create"}
    /\ Answer(r, 400)
    /\ UNCHANGED <<reportVars, checkVars, runs, asOf>>

-----------------------------------------------------------------------------
(* The distribution engine, and whoever settles its runs. *)

(* createDistributionRun, as distribute calls it. *)
AddRun(d) ==
    /\ d \notin DOMAIN runs
    /\ \E row \in RunInputs :
          runs' = [e \in DOMAIN runs \cup {d} |->
                      IF e = d
                      THEN [offering |-> row.offering, total_amount |-> row.total_amount,
                            distribution_date |-> row.distribution_date,
                            status |-> "processing"]
                      ELSE runs[e]]
    /\ UNCHANGED <<pc, answer, reportVars, checkVars, asOf>>

(* Nothing in the repository updates a run; the reconciliation expects     *)
(* that something does.                                                    *)
SettleRun(d) ==
    /\ d \in DOMAIN runs
    /\ runs[d].status = "processing"
    /\ \E status \in {"completed", "failed"} : runs' = [runs EXCEPT ![d].status = status]
    /\ UNCHANGED <<pc, answer, reportVars, checkVars, asOf>>

-----------------------------------------------------------------------------
(* reconcile and quickBalanceCheck. *)

Ask(c) ==
    /\ pc[c] = "unsent"
    /\ \E q \in Queries : /\ q.kind = "reconcile" => q.to > q.from
                         /\ query' = [query EXCEPT ![c] = q]
    /\ asOf' = [asOf EXCEPT ![c] = Answered]
    /\ GoTo(c, "listReports")
    /\ UNCHANGED <<reportVars, counted, verdict, runs>>

(* No user, a query that is malformed, an offering that is not the user's. *)
Decline(c) ==
    /\ pc[c] = "unsent"
    /\ \E code \in {400, 401, 403, 404} : Answer(c, code)
    /\ UNCHANGED <<reportVars, checkVars, runs, asOf>>

(* A bug to detect: only the reports within the period are relevant. *)
ReportWithin(p, q) == p.offering = q.offering /\ p.from >= q.from /\ p.to <= q.to

(* datesOverlap, of a report of the offering.  Here periods that touch do. *)
Relevant(p, q) == p.offering = q.offering /\ p.from <= q.to /\ p.to >= q.from

ListReports(c) ==
    /\ pc[c] = "listReports"
    /\ counted' = [counted EXCEPT ![c] = {s \in reports : Relevant(request[s], query[c])}]
    /\ GoTo(c, "listRuns")
    /\ UNCHANGED <<reportVars, query, verdict, runs, asOf>>

RelevantRuns(q) ==
    {d \in DOMAIN runs : /\ runs[d].offering = q.offering
                         /\ q.from <= runs[d].distribution_date
                         /\ runs[d].distribution_date <= q.to}

Near(m, n, tolerance) == m <= n + tolerance /\ n <= m + tolerance

(* toFixed(2) of a sum of parsed decimals: the cents nearest to it.  Where *)
(* two are nearly as near, floating point decides.                         *)
ToFixed(x) == {n \in 0 .. x + Drift + 1 : Near(2 * x, 2 * Cent * n, Cent + 2 * Drift)}

(* sumRevenueAmounts, before and after rounding. *)
ReportedExactly(rs) == SumFunctionOnSet([s \in rs |-> request[s].amount], rs)
Reported(rs) == ToFixed(ReportedExactly(rs))

(* sumDistributionAmounts, before and after rounding. *)
PaidExactly(q) ==
    LET completed == {d \in RelevantRuns(q) : runs[d].status = "completed"}
    IN  SumFunctionOnSet([d \in completed |-> Cent * runs[d].total_amount], completed)
Paid(q) == ToFixed(PaidExactly(q))

(* Math.abs of the difference of m and n cents, in floating point. *)
Differences(m, n) ==
    LET gap == IF m < n THEN n - m ELSE m - n
    IN  {d \in Cent * gap - Drift .. Cent * gap + Drift : d >= 0 /\ (m = n => d = 0)}

(* No difference exceeds what is no number. *)
Exceeds(d, tolerance) == tolerance # NaN /\ d > tolerance

(* isBalanced: the amounts agree; for reconcile, no run of the period has  *)
(* failed or is under way either.                                          *)
Balanced(c, d) ==
    /\ ~Exceeds(d, query[c].tolerance)
    /\ query[c].kind = "reconcile" =>
          \A e \in RelevantRuns(query[c]) : runs[e].status = "completed"

(* listByOffering of the runs, and the verdict; what reconcile reads after *)
(* it adds no discrepancy.                                                 *)
ListRuns(c) ==
    /\ pc[c] = "listRuns"
    /\ \E m \in Reported(counted[c]), n \in Paid(query[c]) : \E d \in Differences(m, n) :
          verdict' = [verdict EXCEPT ![c] = IF Balanced(c, d) THEN "balanced"
                                                             ELSE "unbalanced"]
    /\ IF query[c].kind = "quick" THEN Answer(c, 200) ELSE GoTo(c, "findInvestors")
    /\ UNCHANGED <<reportVars, query, counted, runs, asOf>>

FindInvestors(c) ==
    /\ pc[c] = "findInvestors"
    /\ Answer(c, 200)
    /\ UNCHANGED <<reportVars, checkVars, runs, asOf>>

CheckFails(c) ==
    /\ pc[c] \in {"listReports", "listRuns", "findInvestors"}
    /\ Answer(c, 500)
    /\ UNCHANGED <<reportVars, checkVars, runs, asOf>>

(* The process ends; the tables stay.                                      *)
Crash ==
    /\ \E x \in Submissions \cup Checks : pc[x] \in Running
    /\ pc' = [x \in Submissions \cup Checks |->
                 IF pc[x] \in Running THEN "crashed" ELSE pc[x]]
    /\ UNCHANGED <<answer, reportVars, checkVars, runs, asOf>>

-----------------------------------------------------------------------------
SubmissionStep(r) ==
    \/ Submit(r) \/ Refuse(r) \/ FindOffering(r) \/ FindOverlap(r)
    \/ Create(r) \/ CreateRefused(r) \/ SubmissionFails(r)

CheckStep(c) ==
    \/ Ask(c) \/ Decline(c) \/ ListReports(c) \/ ListRuns(c) \/ FindInvestors(c)
    \/ CheckFails(c)

RunStep(d) == AddRun(d) \/ SettleRun(d)

Next ==
    \/ \E r \in Submissions : SubmissionStep(r)
    \/ \E c \in Checks : CheckStep(c)
    \/ \E d \in Runs : RunStep(d)
    \/ Crash

Spec == Init /\ [][Next]_vars

-----------------------------------------------------------------------------
(* Properties.                                                             *)

(* Every variable stays in its set; a row keeps to the CHECK constraints,  *)
(* and a check counts only reports of the offering it was asked about.     *)
TypeOK ==
    /\ pc \in [Submissions \cup Checks -> SubmissionPCs \cup CheckPCs]
    /\ \A r \in Submissions : pc[r] \in SubmissionPCs
    /\ \A c \in Checks : pc[c] \in CheckPCs
    /\ answer \in [Submissions \cup Checks -> {0, 200, 201, 400, 401, 403, 404, 409, 500}]
    /\ request \in [Submissions -> Requests \cup {None}]
    /\ reports \subseteq Submissions
    /\ \A r \in reports : /\ request[r] # None
                          /\ request[r].amount > 0 /\ request[r].from < request[r].to
    /\ query \in [Checks -> Queries \cup {None}]
    /\ counted \in [Checks -> SUBSET reports]
    /\ \A c \in Checks : \A s \in counted[c] : request[s].offering = query[c].offering
    /\ verdict \in [Checks -> {"none", "balanced", "unbalanced"}]
    /\ DOMAIN runs \subseteq Runs
    /\ runs \in [DOMAIN runs -> RunRow]
    /\ asOf \in [Submissions \cup Checks -> SUBSET Submissions]

(* Two periods of an offering have time in common, periods being half      *)
(* open: what ends when the other begins has none.                         *)
CommonTime(p, q) ==
    /\ p.offering = q.offering
    /\ \E t \in p.from .. p.to : t < p.to /\ q.from <= t /\ t < q.to

(* RevenueService, "New reports cannot overlap": a report never covers     *)
(* time of one whose submission had been answered when its own was sent;   *)
(* only submissions that race may.                                         *)
OverlapsAreRaces ==
    \A r \in reports : \A s \in asOf[r] : ~CommonTime(request[s], request[r])

(* Not even those report one and the same period twice.                    *)
PeriodReportedOnce ==
    \A r, s \in reports : SamePeriod(request[r], request[s]) => r = s

(* 409 is answered only when there is a report of the same time, and       *)
(* nothing was stored for it.                                              *)
ConflictIsGenuine ==
    \A r \in Submissions : answer[r] = 409 =>
        /\ r \notin reports
        /\ \E s \in reports : CommonTime(request[s], request[r])

(* What had been answered 201 when a check was sent, for time it asked     *)
(* about.                                                                  *)
Due(c) == {s \in asOf[c] : CommonTime(request[s], query[c])}

(* Two roundings, of half a cent each, and floating point. *)
Slack == Cent + 3 * Drift

(* A check that says "balanced", by a tolerance that is a number, leaves   *)
(* out nothing that had been reported: what is due is matched by runs that *)
(* are completed, within the tolerance and what the two sums lose when     *)
(* they are rounded, although reports and runs are read at different times. *)
BalancedCoversReported ==
    \A c \in Checks : verdict[c] = "balanced" /\ query[c].tolerance # NaN =>
        ReportedExactly(Due(c)) <= PaidExactly(query[c]) + query[c].tolerance + Slack

(* The inductive invariant behind the safety properties: what each place  *)
(* of a submission says of it, and that what was looked at when it was     *)
(* found not to overlap includes all that had been answered before.        *)
SubmissionConsistent(r) ==
    /\ pc[r] \in {"findOffering", "findOverlap", "create"} =>
          r \notin reports /\ answer[r] = 0 /\ request[r] # None
    /\ pc[r] = "unsent" => r \notin reports /\ answer[r] = 0
    /\ pc[r] \in {"findOverlap", "create"} => Rejection(request[r]) = {}
    /\ pc[r] = "create" \/ r \in reports =>
          \A s \in asOf[r] : ~Overlapping(request[s], request[r])
    /\ asOf[r] \subseteq reports
    /\ answer[r] = 201 => r \in reports

CheckConsistent(c) ==
    pc[c] \in {"unsent", "listReports"} => counted[c] = {}

IInv ==
    /\ TypeOK
    /\ \A r \in Submissions : SubmissionConsistent(r)
    /\ \A c \in Checks : CheckConsistent(c)
    /\ PeriodReportedOnce
    /\ ConflictIsGenuine
=============================================================================

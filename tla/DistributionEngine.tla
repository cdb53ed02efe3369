-------------------------- MODULE DistributionEngine --------------------------
(***************************************************************************)
(* Distribution of a revenue amount: the HTTP handler triggerDistribution  *)
(* (routes/distributions.ts), DistributionEngine.distribute with its retry *)
(* loop (services/distributionEngine.ts), and the two INSERTs of           *)
(* DistributionRepository it makes.                                        *)
(*                                                                         *)
(* Several calls run at once, each suspended at its own await; a step is   *)
(* what runs between two awaits.  The database may refuse an INSERT, or    *)
(* commit it and lose the answer: withRetry sees a rejected promise either *)
(* way.  The process may crash, which ends every call in flight: nothing   *)
(* in the repository resumes one.                                          *)
(***************************************************************************)
EXTENDS Apportionment, FiniteSets, FiniteSetsExt

CONSTANTS
    Calls,         \* calls of the endpoint, each made once
    Requests,      \* what a call may ask: see RequestType
    BalanceLists,  \* what the balance source may answer: one balance per investor, as a sequence
    MaxRetries     \* DistributionEngineOptions.maxRetries: attempts per operation

(* The part of a request the handler looks at.  revenue is in sub-units;   *)
(* an absent or non-numeric amount is 0, refused by the same test.  owner: *)
(* the user is the issuer of the offering; exists: the offering does.      *)
RequestType ==
    [authenticated : BOOLEAN, revenue : Int, hasPeriod : BOOLEAN,
     role : {"admin", "startup", "investor"}, exists : BOOLEAN, owner : BOOLEAN]

ASSUME RequestsAssumption == Requests \subseteq RequestType
ASSUME BalanceListsAssumption == BalanceLists \subseteq Seq(Nat)
ASSUME MaxRetriesAssumption == MaxRetries \in Nat

(* How an INSERT may go wrong for withRetry: refused, or committed with    *)
(* its answer lost.                                                        *)
Faults == {"reject", "ackLost"}

VARIABLES
    pc,        \* where each call is: see PCs
    status,    \* HTTP status answered to each call, 0 before any
    request,   \* the request of each call
    balances,  \* let balances: what fetchBalances returned
    attempt,   \* attempts withRetry has used up in the operation under way
    run,       \* let run: its row's id is <<c, run[c]>>, or NoRun before one is acknowledged
    line,      \* position in `rounded` of the payout being persisted
    runs,      \* table distribution_runs
    payouts,   \* table payouts
    lost       \* history: the calls one of whose INSERTs was committed and not acknowledged

vars == <<pc, status, request, balances, attempt, run, line, runs, payouts, lost>>

PCs == {"unsent", "fetch", "createRun", "createPayout", "returned", "threw", "refused", "crashed"}

InFlight == {"fetch", "createRun", "createPayout"}

NoRun == 0

-----------------------------------------------------------------------------
(* rounded, as the call has computed it from its balances. *)
CallAmounts(c) == Amounts(balances[c], request[c].revenue)

(* The rows call c inserts in attempt k (of line l).  The database issues  *)
(* a fresh id for every INSERT; the investor is the line of the balances.  *)
RunRow(c, k) ==
    [id |-> <<c, k>>, total_amount |-> TotalAmount(request[c].revenue), status |-> "processing"]

PayoutRow(c, l, k) ==
    [id |-> <<c, l, k>>, distribution_run_id |-> <<c, run[c]>>, investor |-> l,
     amount |-> CallAmounts(c)[l], status |-> "pending"]

-----------------------------------------------------------------------------
Init ==
    /\ pc = [c \in Calls |-> "unsent"]
    /\ status = [c \in Calls |-> 0]
    /\ request \in [Calls -> Requests]
    /\ balances = [c \in Calls |-> <<>>]
    /\ attempt = [c \in Calls |-> 0]
    /\ run = [c \in Calls |-> NoRun]
    /\ line = [c \in Calls |-> 0]
    /\ runs = {}
    /\ payouts = {}
    /\ lost = {}

(* The early returns of triggerDistribution, in their order; 0 lets the    *)
(* request through.  distribute repeats the checks on amount and period,   *)
(* which can then no longer fail.                                          *)
Gate(r) ==
    IF ~r.authenticated THEN 401
    ELSE IF r.revenue <= 0 \/ ~r.hasPeriod THEN 400
    ELSE IF r.role = "admin" THEN 0
    ELSE IF r.role # "startup" THEN 403
    ELSE IF ~r.exists THEN 404
    ELSE IF ~r.owner THEN 403
    ELSE 0

(* triggerDistribution up to the engine's first await. *)
Trigger(c) ==
    /\ pc[c] = "unsent"
    /\ LET code == Gate(request[c])
       IN  /\ pc' = [pc EXCEPT ![c] = IF code = 0 THEN "fetch" ELSE "refused"]
           /\ status' = [status EXCEPT ![c] = code]
    /\ UNCHANGED <<request, balances, attempt, run, line, runs, payouts, lost>>

(* next(err): the error handler answers 500. *)
Throw(c) ==
    /\ pc' = [pc EXCEPT ![c] = "threw"]
    /\ status' = [status EXCEPT ![c] = 500]

(* offeringRepo.getById rejects while the issuer is being looked up. *)
LookupFails(c) ==
    /\ pc[c] = "unsent"
    /\ LET r == request[c]
       IN  r.authenticated /\ r.revenue > 0 /\ r.hasPeriod /\ r.role = "startup"
    /\ Throw(c)
    /\ UNCHANGED <<request, balances, attempt, run, line, runs, payouts, lost>>

(* withRetry: another attempt is allowed / the last one has failed. *)
MayTry(c) == attempt[c] < MaxRetries

(* A bug to detect: the attempts start over instead of being given up. *)
StartOver(c) ==
    /\ pc[c] \in InFlight
    /\ ~MayTry(c)
    /\ attempt' = [attempt EXCEPT ![c] = 0]
    /\ UNCHANGED <<pc, status, request, balances, run, line, runs, payouts, lost>>

GiveUp(c) ==
    /\ pc[c] \in InFlight
    /\ ~MayTry(c)
    /\ Throw(c)
    /\ UNCHANGED <<request, balances, attempt, run, line, runs, payouts, lost>>

(* The balance source rejects. *)
FetchFails(c) ==
    /\ pc[c] = "fetch"
    /\ MayTry(c)
    /\ attempt' = [attempt EXCEPT ![c] = @ + 1]
    /\ UNCHANGED <<pc, status, request, balances, run, line, runs, payouts, lost>>

(* The balance source answers: an empty list or a zero total throws, else  *)
(* the shares are computed and the run is about to be created.             *)
FetchBalances(c) ==
    /\ pc[c] = "fetch"
    /\ MayTry(c)
    /\ \E b \in BalanceLists :
        /\ balances' = [balances EXCEPT ![c] = b]
        /\ IF Len(b) = 0 \/ SumOf(b) <= 0
           THEN Throw(c) /\ UNCHANGED attempt
           ELSE /\ pc' = [pc EXCEPT ![c] = "createRun"]
                /\ attempt' = [attempt EXCEPT ![c] = 0]
                /\ UNCHANGED status
    /\ UNCHANGED <<request, run, line, runs, payouts, lost>>

(* createDistributionRun commits and is acknowledged. *)
CreateRun(c) ==
    /\ pc[c] = "createRun"
    /\ MayTry(c)
    /\ runs' = runs \cup {RunRow(c, attempt[c] + 1)}
    /\ run' = [run EXCEPT ![c] = attempt[c] + 1]
    /\ line' = [line EXCEPT ![c] = 1]
    /\ attempt' = [attempt EXCEPT ![c] = 0]
    /\ pc' = [pc EXCEPT ![c] = "createPayout"]
    /\ UNCHANGED <<status, request, balances, payouts, lost>>

(* createDistributionRun rejects; after "ackLost" the row is there all the same. *)
CreateRunFails(c, fault) ==
    /\ pc[c] = "createRun"
    /\ MayTry(c)
    /\ runs' = IF fault = "ackLost" THEN runs \cup {RunRow(c, attempt[c] + 1)} ELSE runs
    /\ lost' = IF fault = "ackLost" THEN lost \cup {c} ELSE lost
    /\ attempt' = [attempt EXCEPT ![c] = @ + 1]
    /\ UNCHANGED <<pc, status, request, balances, run, line, payouts>>

(* Bugs to detect: the loop over the investors ends one line early; the    *)
(* retry loop does not return after an attempt that succeeded; a payout    *)
(* that is refused is skipped.                                             *)
CreatePayoutEndsEarly(c) ==
    /\ pc[c] = "createPayout"
    /\ MayTry(c)
    /\ payouts' = payouts \cup {PayoutRow(c, line[c], attempt[c] + 1)}
    /\ attempt' = [attempt EXCEPT ![c] = 0]
    /\ IF line[c] < Len(balances[c]) - 1
       THEN line' = [line EXCEPT ![c] = @ + 1] /\ UNCHANGED <<pc, status>>
       ELSE /\ pc' = [pc EXCEPT ![c] = "returned"]
            /\ status' = [status EXCEPT ![c] = 200]
            /\ UNCHANGED line
    /\ UNCHANGED <<request, balances, run, runs, lost>>

CreatePayoutTriesOn(c) ==
    /\ pc[c] = "createPayout"
    /\ MayTry(c)
    /\ payouts' = payouts \cup {PayoutRow(c, line[c], attempt[c] + 1)}
    /\ attempt' = [attempt EXCEPT ![c] = @ + 1]
    /\ UNCHANGED <<pc, status, request, balances, run, line, runs, lost>>

CreatePayoutSkips(c, fault) ==
    /\ pc[c] = "createPayout"
    /\ line[c] < Len(balances[c])
    /\ line' = [line EXCEPT ![c] = @ + 1]
    /\ UNCHANGED <<pc, status, request, balances, attempt, run, runs, payouts, lost>>

(* createPayout commits and is acknowledged: on to the next line, or return. *)
CreatePayout(c) ==
    /\ pc[c] = "createPayout"
    /\ MayTry(c)
    /\ payouts' = payouts \cup {PayoutRow(c, line[c], attempt[c] + 1)}
    /\ attempt' = [attempt EXCEPT ![c] = 0]
    /\ IF line[c] < Len(balances[c])
       THEN /\ line' = [line EXCEPT ![c] = @ + 1]
            /\ UNCHANGED <<pc, status>>
       ELSE /\ pc' = [pc EXCEPT ![c] = "returned"]
            /\ status' = [status EXCEPT ![c] = 200]
            /\ UNCHANGED line
    /\ UNCHANGED <<request, balances, run, runs, lost>>

CreatePayoutFails(c, fault) ==
    /\ pc[c] = "createPayout"
    /\ MayTry(c)
    /\ payouts' = IF fault = "ackLost"
                  THEN payouts \cup {PayoutRow(c, line[c], attempt[c] + 1)}
                  ELSE payouts
    /\ lost' = IF fault = "ackLost" THEN lost \cup {c} ELSE lost
    /\ attempt' = [attempt EXCEPT ![c] = @ + 1]
    /\ UNCHANGED <<pc, status, request, balances, run, line, runs>>

(* The process dies; calls in flight are never resumed. *)
Crash ==
    /\ \E c \in Calls : pc[c] \in InFlight
    /\ pc' = [c \in Calls |-> IF pc[c] \in InFlight THEN "crashed" ELSE pc[c]]
    /\ UNCHANGED <<status, request, balances, attempt, run, line, runs, payouts, lost>>

Step(c) ==
    \/ GiveUp(c)
    \/ FetchFails(c)
    \/ FetchBalances(c)
    \/ CreateRun(c)
    \/ \E fault \in Faults : CreateRunFails(c, fault)
    \/ CreatePayout(c)
    \/ \E fault \in Faults : CreatePayoutFails(c, fault)

Next ==
    \/ \E c \in Calls : Trigger(c) \/ LookupFails(c) \/ Step(c)
    \/ Crash

Spec == Init /\ [][Next]_vars

(* Every await of a call in flight settles: the event loop runs its        *)
(* continuation.  Clients need not call, and the process need not crash.   *)
FairSpec == Spec /\ \A c \in Calls : WF_vars(Step(c))
-----------------------------------------------------------------------------
(* Properties. *)

TypeOK ==
    /\ pc \in [Calls -> PCs]
    /\ status \in [Calls -> {0, 200, 400, 401, 403, 404, 500}]
    /\ request \in [Calls -> Requests]
    /\ balances \in [Calls -> BalanceLists \cup {<<>>}]
    /\ attempt \in [Calls -> 0..MaxRetries]
    /\ run \in [Calls -> {NoRun} \cup 1..MaxRetries]
    /\ line \in [Calls -> Nat]
    /\ runs \subseteq [id : Calls \X (1..MaxRetries), total_amount : Int, status : {"processing"}]
    /\ payouts \subseteq [id : Calls \X Nat \X (1..MaxRetries),
                         distribution_run_id : Calls \X (1..MaxRetries),
                         investor : Nat, amount : Int, status : {"pending"}]
    /\ lost \subseteq Calls

(* The payouts recorded under the run that call c was told about. *)
RowsOf(c) == {p \in payouts : p.distribution_run_id = <<c, run[c]>>}

RowsAt(c, l) == {p \in RowsOf(c) : p.investor = l}

(* What the rows of one run add up to, investor by investor. *)
AmountSum(rows) == MapThenSumSet(LAMBDA p : p.amount, rows)

RecordedSum(c) == SumOf([l \in 1..Len(balances[c]) |-> AmountSum(RowsAt(c, l))])

(* Payouts persist strictly in the order of the balances: whatever a crash *)
(* or a throw interrupts, the lines before the current one are recorded    *)
(* with their computed amounts, and no later line has been touched.        *)
PayoutsFormPrefix ==
    \A c \in Calls :
        /\ \A l \in 1..(line[c] - 1) : RowsAt(c, l) # {}
        /\ \A p \in RowsOf(c) : p.investor \in 1..line[c] /\ p.amount = CallAmounts(c)[p.investor]

(* A call answered 200 has recorded a payout for every investor, though    *)
(* the answers of any number of INSERTs were lost on the way.              *)
AnsweredRunIsComplete ==
    \A c \in Calls :
        status[c] = 200 => \A l \in 1..Len(balances[c]) : RowsAt(c, l) # {}

(* Every payout hangs on a run row that exists, that the same call         *)
(* created, and whose total is the call's own revenue in cents.            *)
PayoutsHaveTheirRun ==
    \A p \in payouts :
        \E r \in runs : /\ r.id = p.distribution_run_id
                        /\ r.id[1] = p.id[1]
                        /\ r.total_amount = TotalAmount(request[p.id[1]].revenue)

(* A line is recorded twice, or a call creates two runs, only if the       *)
(* answer of one of that call's own INSERTs was lost: refused INSERTs,     *)
(* other calls and crashes duplicate nothing.                              *)
NoDuplicates ==
    \A c \in Calls \ lost :
        /\ \A p, q \in RowsOf(c) : p.investor = q.investor => p = q
        /\ \A r, s \in runs : r.id[1] = c /\ s.id[1] = c => r = s

(* distribute step 4, "ensure sum equals revenueAmount": what is recorded  *)
(* under a run whose call was answered 200 adds up to the revenue, unless  *)
(* the answer of one of its INSERTs was lost.                              *)
RecordedSumIsRevenue ==
    \A c \in Calls \ lost :
        status[c] = 200 => RecordedSum(c) = TotalAmount(request[c].revenue)

(* Money is recorded only for a request the handler must let through: an   *)
(* administrator's, or the issuer's own for an existing offering.          *)
OnlyAuthorisedCallsRecord ==
    \A r \in runs :
        LET q == request[r.id[1]]
        IN  /\ q.authenticated /\ q.revenue > 0
            /\ q.role = "admin" \/ (q.role = "startup" /\ q.exists /\ q.owner)

(* The inductive invariant behind the safety properties above.  What a     *)
(* call remembers agrees with where it is and with the tables;             *)
CallConsistent(c) ==
    /\ pc[c] \in {"unsent", "refused", "fetch", "createRun"} => run[c] = NoRun
    /\ pc[c] \in {"createPayout", "returned"} => run[c] # NoRun
    /\ pc[c] \in InFlight => Gate(request[c]) = 0
    /\ pc[c] = "createRun" => Len(balances[c]) > 0 /\ SumOf(balances[c]) > 0
    /\ status[c] = 200 => pc[c] = "returned"
    /\ run[c] = NoRun => line[c] = 0
    /\ run[c] # NoRun =>
        /\ Gate(request[c]) = 0
        /\ SumOf(balances[c]) > 0
        /\ line[c] \in 1..Len(balances[c])
        /\ \E r \in runs : r.id = <<c, run[c]>>
        /\ \A l \in 1..(line[c] - 1) : RowsAt(c, l) # {}
    /\ pc[c] = "returned" => line[c] = Len(balances[c]) /\ RowsAt(c, line[c]) # {}

CallsConsistent == \A c \in Calls : CallConsistent(c)

(* every row was written by its call, for its call's request;              *)
RunConsistent(r) ==
    /\ r.total_amount = TotalAmount(request[r.id[1]].revenue)
    /\ pc[r.id[1]] \notin {"unsent", "refused", "fetch"}
    /\ Gate(request[r.id[1]]) = 0

PayoutConsistent(p) ==
    LET c == p.id[1]
    IN  /\ run[c] # NoRun
        /\ p.distribution_run_id = <<c, run[c]>>
        /\ p.investor \in 1..line[c]
        /\ p.amount = CallAmounts(c)[p.investor]

RowsConsistent ==
    /\ \A r \in runs : RunConsistent(r)
    /\ \A p \in payouts : PayoutConsistent(p)

(* and, unless its call lost an answer, a row is written once.             *)
RunUnique(r) ==
    /\ run[r.id[1]] # NoRun
    /\ \A s \in runs : r.id[1] = s.id[1] => r = s

PayoutUnique(p) ==
    /\ p.investor < line[p.id[1]] \/ pc[p.id[1]] = "returned"
    /\ \A q \in payouts : p.id[1] = q.id[1] /\ p.investor = q.investor => p = q

RowsUnique ==
    /\ \A r \in runs : r.id[1] \in lost \/ RunUnique(r)
    /\ \A p \in payouts : p.id[1] \in lost \/ PayoutUnique(p)

IInv == TypeOK /\ CallsConsistent /\ RowsConsistent /\ RowsUnique

(* Every call that is let through ends: answered, failed, or crashed with  *)
(* the process; the retry loop cannot spin.                                *)
EveryCallSettles ==
    \A c \in Calls : (pc[c] \in InFlight) ~> (pc[c] \in {"returned", "threw", "crashed"})

(* How the engine keeps the ledger of PayoutLedger: a call is open from    *)
(* the acknowledgement of its run to its answer, and its shares are due    *)
(* from then on.                                                           *)
LedgerState(c) ==
    CASE pc[c] \in {"unsent", "fetch", "createRun"}   -> "idle"
      [] pc[c] = "createPayout"                       -> "open"
      [] pc[c] = "returned"                           -> "sealed"
      [] OTHER                                        -> "closed"

LedgerEntry(p) ==
    [call |-> p.id[1], line |-> p.investor, amount |-> p.amount, copy |-> p.id[3]]

LedgerStates  == [c \in Calls |-> LedgerState(c)]
LedgerTotals  == [c \in Calls |-> TotalAmount(request[c].revenue)]
LedgerDues    == [c \in Calls |-> IF run[c] = NoRun THEN <<>> ELSE CallAmounts(c)]
LedgerEntries == {LedgerEntry(p) : p \in payouts}

Ledger == INSTANCE PayoutLedger WITH
    Copies <- 1..MaxRetries, state <- LedgerStates, total <- LedgerTotals,
    due <- LedgerDues, ledger <- LedgerEntries, excused <- lost

(* What is recorded is a ledger: each call's shares, which add up to its   *)
(* revenue, entered in their order, none twice unless an answer was lost,  *)
(* and all of them when the call is answered 200; through retries, refusals*)
(* and crashes, and whatever other calls do.                               *)
ImplementsLedger == Ledger!Spec
===============================================================================

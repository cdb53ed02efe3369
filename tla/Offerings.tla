------------------------------ MODULE Offerings ------------------------------
(***************************************************************************)
(* What the backend keeps of the chain: the table of offerings, brought up *)
(* to date by OfferingSyncService; investments, taken while an offering's  *)
(* row says it is open; and the payments StellarSubmissionService sends.   *)
(*                                                                         *)
(* A contract moves through the states ChainState on its own, and ledgers  *)
(* close in their own time: a payment the network has accepted waits for   *)
(* one, and only then counts in the account's sequence number.  A sync     *)
(* reads the row, then the contract, compares the two, and writes what it  *)
(* has read; syncAll reads all rows at once and goes on with each on its   *)
(* own.  Between two steps of a request any other request may act.         *)
(***************************************************************************)
EXTENDS Naturals, FiniteSets

CONSTANTS
    Requests, OfferingIds,
    WithContract,  \* the offerings whose row has a contract_address
    MaxVersion,    \* bound: the states a contract passes through
    ChainState,    \* the state of a contract at each of its versions
    Earlier,       \* investments made before
    Unknown,       \* an id no row has
    None

RowStatuses   == {"draft", "active", "closed"}           \* CHECK of the column
ChainStatuses == RowStatuses \cup {"completed"}

ASSUME VersionsAssumption ==
    /\ MaxVersion \in Nat
    /\ ChainState \in [0..MaxVersion -> [status : ChainStatuses, raised : Nat]]
    /\ WithContract \subseteq OfferingIds
ASSUME MarkersAssumption ==
    /\ Unknown \notin OfferingIds /\ None \notin 0..MaxVersion
    /\ Earlier \cap Requests = {}

Versions == 0..MaxVersion
Kinds    == {"syncOffering", "syncAll", "invest", "snapshot", "pay"}
Jobs     == Requests \X OfferingIds

VARIABLES
    version,      \* of each contract
    rows,         \* table offerings: status and total_raised
    asOf,         \* history: the version a row was written from
    pc, status,   \* of each request
    call,         \* what it asks: kind, offering, whether its body is valid
    job,          \* syncFromChain of a request for an offering
    copy,         \* the row it has read
    seen,         \* the version of the contract it has read
    moved,        \* history: a row was written since a job, or an investment, read it
    investments,  \* table investments: status of each
    late,         \* history: investments inserted while the row was not open
    sequence,     \* the server account's sequence number, as of the last ledger
    number,       \* the one a payment was built with
    crossed,      \* history: payments another one was pending or accepted beside
    pending,      \* payments the network has accepted for a ledger to come
    paid          \* payments in a ledger

chainVars == <<version, sequence>>
syncVars  == <<job, copy, seen>>
rowVars   == <<rows, asOf, moved>>
fundVars  == <<investments, late>>
payVars   == <<number, crossed, pending, paid>>
offeringVars == <<version, rows, asOf, pc, status, call, job, copy, seen, moved,
                  investments, late, sequence, number, crossed, pending, paid>>

Blank == [kind |-> "pay", offering |-> Unknown, valid |-> TRUE, skipIfExists |-> FALSE]

Init ==
    /\ version \in [OfferingIds -> Versions]
    /\ asOf \in [OfferingIds -> Versions]
    /\ \A o \in OfferingIds :
          asOf[o] <= version[o] /\ ChainState[asOf[o]].status \in RowStatuses
    /\ rows = [o \in OfferingIds |-> ChainState[asOf[o]]]
    /\ pc = [r \in Requests |-> "idle"]
    /\ status = [r \in Requests |-> 0]
    /\ call = [r \in Requests |-> Blank]
    /\ job = [j \in Jobs |-> "none"]
    /\ copy = [j \in Jobs |-> None]
    /\ seen = [j \in Jobs |-> None]
    /\ moved = {}
    /\ investments \in [Earlier -> {"pending", "completed"}]
    /\ late = {}
    /\ sequence = 0
    /\ number = [r \in Requests |-> None]
    /\ crossed = {}
    /\ pending = {}
    /\ paid = {}

GoTo(r, place)  == pc' = [pc EXCEPT ![r] = place] /\ UNCHANGED status
Answer(r, code) ==
    /\ pc' = [pc EXCEPT ![r] = "done"]
    /\ status' = [status EXCEPT ![r] = code]

(* The contract changes state. *)
Advance(o) ==
    /\ version[o] < MaxVersion
    /\ version' = [version EXCEPT ![o] = @ + 1]
    /\ UNCHANGED <<sequence, rowVars, pc, status, call, syncVars, fundVars, payVars>>

(* A request arrives, or the scheduler calls. *)
Begin(r, c) ==
    /\ pc[r] = "idle"
    /\ call' = [call EXCEPT ![r] = c]
    /\ GoTo(r, "start")
    /\ UNCHANGED <<chainVars, rowVars, syncVars, fundVars, payVars>>

-----------------------------------------------------------------------------
(* OfferingSyncService. *)

(* syncFromChain begins with a row: without a contract it is over.         *)
Started(o) == IF o \in WithContract THEN "reading" ELSE "failed"

StartJobs(r, os) ==
    /\ job' = [j \in Jobs |->
                 IF j[1] = r /\ j[2] \in os THEN Started(j[2]) ELSE job[j]]
    /\ copy' = [j \in Jobs |->
                 IF j[1] = r /\ j[2] \in os THEN rows[j[2]] ELSE copy[j]]
    /\ GoTo(r, "syncing")
    /\ UNCHANGED seen

(* findById; an unknown offering is a failure. *)
SyncOffering(r) ==
    /\ pc[r] = "start" /\ call[r].kind = "syncOffering"
    /\ IF call[r].offering = Unknown THEN Answer(r, 404) /\ UNCHANGED syncVars
       ELSE StartJobs(r, {call[r].offering})
    /\ UNCHANGED <<chainVars, rowVars, call, fundVars, payVars>>

(* listAll, and a job for every row. *)
SyncAll(r) ==
    /\ pc[r] = "start" /\ call[r].kind = "syncAll"
    /\ StartJobs(r, OfferingIds)
    /\ UNCHANGED <<chainVars, rowVars, call, fundVars, payVars>>

SetJob(j, place) == job' = [job EXCEPT ![j] = place]

(* A job ends: its copy of the row is gone. *)
EndJob(j, place) == SetJob(j, place) /\ copy' = [copy EXCEPT ![j] = None]

(* A bug to detect: only the status is compared. *)
StatusChanged(j, v) == ChainState[v].status # copy[j].status

hasChanged(j, v) == ChainState[v] # copy[j]

(* A bug to detect: the contract is read from a node that lags behind.     *)
GetCachedState(j) ==
    /\ job[j] = "reading"
    /\ \E v \in 0..version[j[2]] :
          /\ seen' = [seen EXCEPT ![j] = v]
          /\ IF hasChanged(j, v) THEN SetJob(j, "writing") /\ UNCHANGED copy
             ELSE EndJob(j, "synced")
    /\ UNCHANGED <<chainVars, rowVars, pc, status, call, fundVars, payVars>>

(* getOfferingState, and the comparison with the row read before.          *)
GetOfferingState(j) ==
    /\ job[j] = "reading"
    /\ seen' = [seen EXCEPT ![j] = version[j[2]]]
    /\ IF hasChanged(j, version[j[2]]) THEN SetJob(j, "writing") /\ UNCHANGED copy
       ELSE EndJob(j, "synced")
    /\ UNCHANGED <<chainVars, rowVars, pc, status, call, fundVars, payVars>>

(* Everyone who has read a row and is not done with it. *)
Readers(o) ==
    {j \in Jobs : j[2] = o /\ job[j] \in {"reading", "writing"}}
    \cup {<<r, o>> : r \in {q \in Requests : pc[q] = "insert" /\ call[q].offering = o}}

UpdateRow(o, state) == rows' = [rows EXCEPT ![o] = state]

(* updateState: UPDATE by id, whatever the row holds by now.  The          *)
(* acknowledgement may be lost.                                            *)
UpdateState(j) ==
    /\ job[j] = "writing"
    /\ ChainState[seen[j]].status \in RowStatuses
    /\ UpdateRow(j[2], ChainState[seen[j]])
    /\ asOf' = [asOf EXCEPT ![j[2]] = seen[j]]
    /\ moved' = moved \cup (Readers(j[2]) \ {j})
    /\ \E place \in {"synced", "failed"} : EndJob(j, place)
    /\ UNCHANGED <<chainVars, pc, status, call, seen, fundVars, payVars>>

(* The chain or the database rejects; so does the column's CHECK when the  *)
(* contract is completed.                                                  *)
JobFails(j) ==
    /\ job[j] \in {"reading", "writing"}
    /\ EndJob(j, "failed")
    /\ UNCHANGED <<chainVars, rowVars, pc, status, call, seen, fundVars, payVars>>

(* allSettled: every job has ended. *)
Settle(r) ==
    /\ pc[r] = "syncing"
    /\ \A o \in OfferingIds : job[<<r, o>>] \notin {"reading", "writing"}
    /\ Answer(r, 200)
    /\ job' = [j \in Jobs |-> IF j[1] = r THEN "none" ELSE job[j]]
    /\ seen' = [j \in Jobs |-> IF j[1] = r THEN None ELSE seen[j]]
    /\ UNCHANGED <<chainVars, rowVars, call, copy, fundVars, payVars>>

-----------------------------------------------------------------------------
(* InvestmentService. *)

(* A bug to detect: the status is not looked at. *)
AnyStatus(s) == s \in RowStatuses

isActive(s) == s \in {"active", "open"}

(* createInvestment up to the INSERT: the offering, its status, the body.  *)
CheckInvestment(r) ==
    /\ pc[r] = "start" /\ call[r].kind = "invest"
    /\ IF call[r].offering = Unknown THEN Answer(r, 404)
       ELSE IF ~isActive(rows[call[r].offering].status) \/ ~call[r].valid
            THEN Answer(r, 400)
       ELSE GoTo(r, "insert")
    /\ UNCHANGED <<chainVars, rowVars, call, syncVars, fundVars, payVars>>

(* create: pending until a transaction is submitted. *)
CreateInvestment(r) ==
    /\ pc[r] = "insert"
    /\ investments' = [i \in DOMAIN investments \cup {r} |->
                         IF i = r THEN "pending" ELSE investments[i]]
    /\ late' = IF rows[call[r].offering].status = "active" THEN late ELSE late \cup {r}
    /\ \E code \in {201, 500} : Answer(r, code)
    /\ UNCHANGED <<chainVars, rowVars, call, syncVars, payVars>>

(* Settlement, which no code here does, completes an investment.           *)
Complete(i) ==
    /\ i \in DOMAIN investments /\ investments[i] = "pending"
    /\ investments' = [investments EXCEPT ![i] = "completed"]
    /\ UNCHANGED <<chainVars, rowVars, pc, status, call, syncVars, late, payVars>>

-----------------------------------------------------------------------------
(* StellarSubmissionService.submitPayment. *)

(* History: a payment that reads the account while another is pending. *)
Meets(r) == crossed' = IF pending = {} THEN crossed ELSE crossed \cup {r}

(* A bug to detect: the transaction repeats the number last used. *)
GetAccountUsed(r) ==
    /\ pc[r] = "start" /\ call[r].kind = "pay"
    /\ number' = [number EXCEPT ![r] = sequence]
    /\ Meets(r)
    /\ GoTo(r, "send")
    /\ UNCHANGED <<chainVars, rowVars, call, syncVars, fundVars, pending, paid>>

(* getAccount, and the transaction built with the account's next number:   *)
(* the ledger's, which does not count what is pending.                     *)
GetAccount(r) ==
    /\ pc[r] = "start" /\ call[r].kind = "pay"
    /\ number' = [number EXCEPT ![r] = sequence + 1]
    /\ Meets(r)
    /\ GoTo(r, "send")
    /\ UNCHANGED <<chainVars, rowVars, call, syncVars, fundVars, pending, paid>>

(* The network wants the number after the account's pending ones. *)
NumberIsNext(r) == number[r] = sequence + Cardinality(pending) + 1

(* sendTransaction: an accepted payment is only enqueued; when the answer  *)
(* is lost the caller cannot know.                                         *)
SendTransaction(r) ==
    /\ pc[r] = "send"
    /\ IF NumberIsNext(r)
       THEN /\ pending' = pending \cup {r}
            /\ crossed' = crossed \cup {q \in Requests \ {r} : pc[q] = "send"}
            /\ \E code \in {200, 500} : Answer(r, code)
       ELSE /\ Answer(r, 409)
            /\ UNCHANGED <<pending, crossed>>
    /\ number' = [number EXCEPT ![r] = None]
    /\ UNCHANGED <<chainVars, rowVars, call, syncVars, fundVars, paid>>

(* A ledger closes with what is pending. *)
LedgerCloses ==
    /\ pending # {}
    /\ sequence' = sequence + Cardinality(pending)
    /\ paid' = paid \cup pending
    /\ pending' = {}
    /\ UNCHANGED <<version, rowVars, pc, status, call, syncVars, fundVars, number, crossed>>

(* setTimeout: no ledger takes it in time. *)
PaymentExpires ==
    /\ pending # {}
    /\ pending' = {}
    /\ UNCHANGED <<chainVars, rowVars, pc, status, call, syncVars, fundVars, number,
                   crossed, paid>>

(* A call to the database or the network rejects before it has an effect.  *)
CallFails(r) ==
    /\ pc[r] \in {"start", "insert", "send"}
    /\ Answer(r, 500)
    /\ UNCHANGED <<chainVars, rowVars, call, syncVars, fundVars, payVars>>

SyncStep(r) ==
    \/ SyncOffering(r) \/ SyncAll(r) \/ Settle(r)
    \/ \E o \in OfferingIds : GetOfferingState(<<r, o>>) \/ UpdateState(<<r, o>>)
                              \/ JobFails(<<r, o>>)
InvestStep(r) == CheckInvestment(r) \/ CreateInvestment(r)
PayStep(r)    == GetAccount(r) \/ SendTransaction(r)

Calls ==
    {c \in [kind : Kinds, offering : OfferingIds \cup {Unknown}, valid : BOOLEAN,
            skipIfExists : BOOLEAN] :
        /\ ~c.valid => c.kind = "invest"
        /\ c.skipIfExists => c.kind = "snapshot"
        /\ c.kind \in {"pay", "syncAll"} => c.offering = Unknown}

OfferingsNext ==
    \/ \E o \in OfferingIds : Advance(o)
    \/ LedgerCloses \/ PaymentExpires
    \/ \E i \in Earlier \cup Requests : Complete(i)
    \/ \E r \in Requests :
          \/ \E c \in Calls : Begin(r, c)
          \/ SyncStep(r) \/ InvestStep(r) \/ PayStep(r) \/ CallFails(r)

-----------------------------------------------------------------------------
(* Type of the state. *)
OfferingsTypeOK ==
    /\ version \in [OfferingIds -> Versions]
    /\ rows \in [OfferingIds -> [status : RowStatuses, raised : Nat]]
    /\ asOf \in [OfferingIds -> Versions]
    /\ status \in [Requests -> {0, 200, 201, 400, 404, 409, 500}]
    /\ call \in [Requests -> Calls]
    /\ job \in [Jobs -> {"none", "reading", "writing", "synced", "failed"}]
    /\ copy \in [Jobs -> [status : RowStatuses, raised : Nat] \cup {None}]
    /\ seen \in [Jobs -> Versions \cup {None}]
    /\ moved \subseteq Jobs
    /\ DOMAIN investments \subseteq Earlier \cup Requests
    /\ late \subseteq DOMAIN investments
    /\ sequence = Cardinality(paid) /\ pending \cap paid = {}
    /\ number \in [Requests -> Nat \cup {None}]

(* A row goes back to an earlier state of the contract only when another   *)
(* sync has written it between this one's two reads and its UPDATE: the    *)
(* UPDATE does not look at what it overwrites.                             *)
RegressionIsRace ==
    [][\A o \in OfferingIds : asOf'[o] < asOf[o] =>
          \E r \in Requests : /\ job[<<r, o>>] = "writing" /\ job'[<<r, o>>] # "writing"
                              /\ <<r, o>> \in moved]_offeringVars

(* When a sync reports success the row holds what the contract said, or    *)
(* another sync has written it since this one read the row: an unchanged   *)
(* row is told by the copy, which may be out of date.                      *)
SuccessIsFresh ==
    [][\A j \in Jobs : job[j] # "synced" /\ job'[j] = "synced" =>
          \/ rows'[j[2]] = ChainState[seen'[j]]
          \/ j \in moved]_offeringVars

(* An investment lands in an offering that is not open only when the row   *)
(* was changed between the check and the INSERT.                           *)
LateIsRace ==
    \A r \in late : <<r, call[r].offering>> \in moved

(* A payment is refused for its sequence number only when another one was  *)
(* accepted and in no ledger yet while this one asked for the account's    *)
(* number, or was accepted after this one had asked.  To wait for the      *)
(* answer of one payment before the next is sent does not avoid it.        *)
RefusalIsRace ==
    \A r \in Requests : call[r].kind = "pay" /\ status[r] = 409 => r \in crossed
==============================================================================

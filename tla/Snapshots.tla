------------------------------ MODULE Snapshots ------------------------------
(***************************************************************************)
(* BalanceSnapshotService.snapshotBalances beside the synchronisation of   *)
(* Offerings: it looks the offering up, returns the rows of the period     *)
(* when there are some (unless told not to), takes the balances from the   *)
(* investments or from the contract, and inserts a row per holder in one   *)
(* transaction.  The period is one and the same for every call: calls for  *)
(* other periods touch other rows.                                         *)
(***************************************************************************)
EXTENDS Offerings, FiniteSetsExt

CONSTANTS
    Investor,       \* investor_id of an investment
    Amount,         \* its amount
    OfferingOf,     \* the offering of an earlier investment
    HasDbProvider, HasStellarClient,   \* what the service was constructed with
    ChainBalances,  \* what getHolderBalances answers
    NoHolder        \* a blank holder

VARIABLES
    snapshots,  \* table token_balance_snapshots, committed: by call and holder
    batch,      \* the rows a call is to insert
    open,       \* the rows its transaction has inserted
    returned,   \* the rows it has returned
    raced       \* history: others committed rows of the offering since it looked

snapVars == <<snapshots, batch, open, returned, raced>>
vars == <<offeringVars, snapVars>>

SnapInit ==
    /\ Init
    /\ snapshots = {}
    /\ batch = [r \in Requests |-> {}]
    /\ open = [r \in Requests |-> {}]
    /\ returned = [r \in Requests |-> {}]
    /\ raced = {}

Sources == {"auto", "db", "stellar"}
Failed  == "fails"

resolveEffectiveSource(source) ==
    IF source = "auto" THEN IF HasDbProvider THEN "db" ELSE "stellar" ELSE source

(* An error when what the source needs is not configured. *)
resolveSourceForRun(source) ==
    LET effective == resolveEffectiveSource(source)
    IN  IF \/ effective = "db" /\ ~HasDbProvider
           \/ effective = "stellar" /\ ~HasStellarClient
        THEN Failed ELSE effective

OfOffering(o) ==
    {i \in DOMAIN investments :
        IF i \in Earlier THEN OfferingOf[i] = o ELSE call[i].offering = o}

(* createDbBalanceProviderFromInvestments: completed investments, added up *)
(* by investor.                                                            *)
DbBalances(o) ==
    LET completed == {i \in OfOffering(o) : investments[i] = "completed" /\ Amount[i] > 0}
    IN  {[holder |-> h,
          balance |-> MapThenSumSet(LAMBDA i : Amount[i],
                                    {i \in completed : Investor[i] = h})] :
           h \in {Investor[i] : i \in completed}}

normalizeBalances(balances) ==
    {b \in balances : b.holder # NoHolder /\ b.balance > 0}

(* getBalancesFromDb, and getBalancesFromStellar, which wants a contract.  *)
BalancesFrom(source, o) ==
    CASE source = "db" -> normalizeBalances(DbBalances(o))
      [] source = "stellar" /\ o \in WithContract -> normalizeBalances(ChainBalances)
      [] OTHER -> {}

Rows(r, balances) == {[by |-> r, holder |-> b.holder, balance |-> b.balance] : b \in balances}

(* findByOfferingAndPeriod. *)
Stored(o) == {s \in snapshots : call[s.by].offering = o}

-----------------------------------------------------------------------------
FindOffering(r) ==
    /\ pc[r] = "start" /\ call[r].kind = "snapshot"
    /\ IF call[r].offering = Unknown THEN Answer(r, 404)
       ELSE GoTo(r, IF call[r].skipIfExists THEN "look" ELSE "balances")
    /\ UNCHANGED <<chainVars, rowVars, call, syncVars, fundVars, payVars, snapVars>>

(* A bug to detect: what there is already is not looked at. *)
LookInVain(r) ==
    /\ pc[r] = "look"
    /\ GoTo(r, "balances")
    /\ UNCHANGED <<chainVars, rowVars, call, syncVars, fundVars, payVars, snapVars>>

(* With skipIfExists, what there is already is the answer. *)
LookForExisting(r) ==
    /\ pc[r] = "look"
    /\ IF Stored(call[r].offering) # {}
       THEN /\ Answer(r, 200)
            /\ returned' = [returned EXCEPT ![r] = Stored(call[r].offering)]
       ELSE GoTo(r, "balances") /\ UNCHANGED returned
    /\ UNCHANGED <<chainVars, rowVars, call, syncVars, fundVars, payVars,
                   snapshots, batch, open, raced>>

(* No balances at all is an error, as is a source that is not configured.  *)
FetchBalances(r, source) ==
    /\ pc[r] = "balances"
    /\ LET balances == BalancesFrom(resolveSourceForRun(source), call[r].offering)
       IN  IF balances = {}
           THEN Answer(r, 500) /\ UNCHANGED batch
           ELSE /\ batch' = [batch EXCEPT ![r] = Rows(r, balances)]
                /\ GoTo(r, "rows")
    /\ UNCHANGED <<chainVars, rowVars, call, syncVars, fundVars, payVars,
                   snapshots, open, returned, raced>>

(* A bug to detect: the rows are inserted without a transaction.           *)
InsertUncovered(r) ==
    /\ pc[r] = "rows"
    /\ \E row \in batch[r] \ open[r] :
          /\ open' = [open EXCEPT ![r] = @ \cup {row}]
          /\ snapshots' = snapshots \cup {row}
    /\ UNCHANGED <<offeringVars, batch, returned, raced>>

(* insertMany: the next INSERT of the transaction. *)
InsertRow(r) ==
    /\ pc[r] = "rows"
    /\ \E row \in batch[r] \ open[r] : open' = [open EXCEPT ![r] = @ \cup {row}]
    /\ UNCHANGED <<offeringVars, snapshots, batch, returned, raced>>

(* Calls that have looked and not yet committed. *)
Looking(o) ==
    {q \in Requests : pc[q] \in {"balances", "rows"} /\ call[q].skipIfExists
                       /\ call[q].offering = o}

(* COMMIT; its acknowledgement may be lost. *)
Commit(r) ==
    /\ pc[r] = "rows"
    /\ open[r] = batch[r]
    /\ snapshots' = snapshots \cup open[r]
    /\ raced' = raced \cup (Looking(call[r].offering) \ {r})
    /\ \/ Answer(r, 200) /\ returned' = [returned EXCEPT ![r] = batch[r]]
       \/ Answer(r, 500) /\ UNCHANGED returned
    /\ open' = [open EXCEPT ![r] = {}]
    /\ UNCHANGED <<chainVars, rowVars, call, syncVars, fundVars, payVars, batch>>

(* A query rejects; what the transaction has inserted is rolled back.      *)
SnapshotFails(r) ==
    /\ pc[r] \in {"look", "balances", "rows"}
    /\ Answer(r, 500)
    /\ open' = [open EXCEPT ![r] = {}]
    /\ UNCHANGED <<chainVars, rowVars, call, syncVars, fundVars, payVars,
                   snapshots, batch, returned, raced>>

SnapshotStep(r) ==
    \/ FindOffering(r) \/ LookForExisting(r)
    \/ \E source \in Sources : FetchBalances(r, source)
    \/ InsertRow(r) \/ Commit(r) \/ SnapshotFails(r)

Next ==
    \/ OfferingsNext /\ UNCHANGED snapVars
    \/ \E r \in Requests : SnapshotStep(r)

Spec == SnapInit /\ [][Next]_vars

-----------------------------------------------------------------------------
(* Type of the state. *)
TypeOK ==
    /\ OfferingsTypeOK
    /\ pc \in [Requests -> {"idle", "start", "syncing", "insert", "send", "look",
                            "balances", "rows", "done"}]
    /\ \A s \in snapshots : s.by \in Requests /\ s.holder # NoHolder /\ s.balance > 0
    /\ raced \subseteq Requests

(* The rows of a snapshot are there all or none, whichever of its calls to *)
(* the database fails, and all of them are there when they are returned.   *)
SnapshotIsWhole ==
    \A r \in Requests :
        /\ {s \in snapshots : s.by = r} \in {{}, batch[r]}
        /\ returned[r] \subseteq snapshots
        /\ \A s \in returned[r] : batch[s.by] \subseteq returned[r]

(* Two snapshots of one period that were both to be skipped if there was   *)
(* one already are in the table only if one of them was taken while the    *)
(* other was on its way: there is no constraint that would refuse it.      *)
SecondSnapshotIsRace ==
    \A s, t \in snapshots :
        /\ s.by # t.by
        /\ call[s.by].offering = call[t.by].offering
        /\ call[s.by].skipIfExists /\ call[t.by].skipIfExists
        => {s.by, t.by} \cap raced # {}
==============================================================================

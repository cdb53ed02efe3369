---------------------------- MODULE SnapshotsProofs ----------------------------
(***************************************************************************)
(* Proofs of the invariants and the action properties of Offerings and     *)
(* Snapshots, for any number of requests, offerings and states of a        *)
(* contract, any balances, and whatever the service is configured with.    *)
(*                                                                         *)
(* The inductive invariant has two parts: OfferingInv speaks of what       *)
(* Offerings declares, SnapInv of the snapshots.  A step of the one leaves *)
(* the other alone but for the place of the request that makes it, which   *)
(* the two lemmas on frames state once for all.                            *)
(***************************************************************************)
EXTENDS Snapshots, FiniteSetTheorems, TLAPS

Places == {"idle", "start", "syncing", "insert", "send", "look", "balances", "rows", "done"}
Codes  == {200, 201, 400, 404, 409, 500}

(* A request has no answer before it is done. *)
RequestInv ==
    \A r \in Requests :
        /\ pc[r] # "done" => status[r] = 0
        /\ pc[r] = "insert" => call[r].offering \in OfferingIds

(* A job belongs to a sync that waits for it; unless somebody has written  *)
(* the row since, the copy is the row, and what is about to be written is  *)
(* no older than what it overwrites.                                       *)
JobInv ==
    \A j \in Jobs :
        /\ job[j] # "none" => pc[j[1]] = "syncing"
        /\ job[j] = "writing" => seen[j] \in 0..version[j[2]]
        /\ job[j] \in {"reading", "writing"} /\ j \notin moved => copy[j] = rows[j[2]]
        /\ job[j] = "writing" /\ j \notin moved => asOf[j[2]] <= seen[j]

RowInv == \A o \in OfferingIds : asOf[o] <= version[o]

(* An investment on the way to its INSERT is in an open offering, or has   *)
(* been overtaken.                                                         *)
FundInv ==
    /\ late \subseteq Requests
    /\ \A r \in Requests :
          /\ pc[r] = "insert" => \/ rows[call[r].offering].status = "active"
                                 \/ <<r, call[r].offering>> \in moved
          /\ r \in late => pc[r] = "done" /\ <<r, call[r].offering>> \in moved

(* A payment on its way that has met no other has the next number, and     *)
(* none is pending.                                                        *)
PayInv ==
    /\ IsFiniteSet(paid) /\ IsFiniteSet(pending)
    /\ pending \subseteq Requests /\ paid \subseteq Requests
    /\ \A r \in Requests :
          /\ pc[r] = "send" => number[r] \in Nat
          /\ pc[r] = "send" /\ r \notin crossed => number[r] = sequence + 1 /\ pending = {}
          /\ r \in pending \cup paid => pc[r] = "done"
          /\ status[r] = 409 => r \in crossed

OfferingInv ==
    /\ OfferingsTypeOK /\ pc \in [Requests -> Places]
    /\ RequestInv /\ JobInv /\ RowInv /\ FundInv /\ PayInv

SnapTypes ==
    /\ DOMAIN batch = Requests /\ DOMAIN open = Requests /\ DOMAIN returned = Requests
    /\ \A s \in snapshots : s.by \in Requests /\ s.holder # NoHolder /\ s.balance > 0
    /\ raced \subseteq Requests

(* A call's rows are its own; none is in the table before it is done, and  *)
(* its transaction holds none that it was not to insert.                   *)
BatchInv ==
    \A r \in Requests :
        /\ pc[r] \in {"look", "balances", "rows"} => call[r].offering \in OfferingIds
        /\ pc[r] = "look" => call[r].skipIfExists
        /\ \A row \in batch[r] : row.by = r /\ row.holder # NoHolder /\ row.balance > 0
        /\ open[r] \subseteq batch[r]
        /\ pc[r] # "rows" => open[r] = {}
        /\ pc[r] # "done" => returned[r] = {} /\ \A s \in snapshots : s.by # r

(* Whoever has looked and found nothing has found what is there, or has    *)
(* been overtaken.                                                         *)
LookInv ==
    \A r \in Requests : \A s \in snapshots :
        /\ pc[r] \in {"balances", "rows"} /\ call[r].skipIfExists
        /\ call[s.by].offering = call[r].offering
        => r \in raced

SnapInv == SnapTypes /\ BatchInv /\ LookInv /\ SnapshotIsWhole /\ SecondSnapshotIsRace

IInv == OfferingInv /\ SnapInv

-----------------------------------------------------------------------------
(* Frames. *)

(* A state of the contract with a status of the column is a row. *)
LEMMA StateIsRow ==
    ASSUME NEW v \in Versions, ChainState[v].status \in RowStatuses
    PROVE  ChainState[v] \in [status : RowStatuses, raised : Nat]
<1>1. ChainState[v] \in [status : ChainStatuses, raised : Nat]
  BY VersionsAssumption DEF Versions
<1> QED  BY <1>1

(* A step outside the snapshots: none begins, goes on or ends by it.       *)
LEMMA SnapFrame ==
    ASSUME IInv, UNCHANGED snapVars,
           \A r \in Requests :
              /\ pc[r] # "idle" => call'[r] = call[r]
              /\ \/ pc[r] \in {"look", "balances", "rows"}
                 \/ pc'[r] \in {"look", "balances", "rows"}
                 => pc[r] = pc'[r]
              /\ pc[r] = "done" => pc'[r] = "done"
    PROVE  SnapInv'
<1> USE DEF IInv, SnapInv, snapVars
<1>1. \A s \in snapshots : s.by \in Requests /\ pc[s.by] = "done" /\ call'[s.by] = call[s.by]
  BY DEF SnapTypes, BatchInv
<1>2. SnapTypes'
  BY DEF SnapTypes
<1>3. BatchInv'
  BY DEF BatchInv
<1>4. LookInv'
  BY <1>1 DEF LookInv
<1>5. SnapshotIsWhole'
  BY DEF SnapshotIsWhole
<1>6. SecondSnapshotIsRace'
  BY <1>1 DEF SecondSnapshotIsRace
<1> QED  BY <1>2, <1>3, <1>4, <1>5, <1>6

(* A step of a snapshot moves its request, and nothing else of Offerings.  *)
LEMMA OfferingFrame ==
    ASSUME IInv, NEW r \in Requests,
           pc[r] \in {"start", "look", "balances", "rows"},
           UNCHANGED <<chainVars, rowVars, call, syncVars, fundVars, payVars>>,
           \/ \E place \in {"look", "balances", "rows"} : GoTo(r, place)
           \/ \E code \in {200, 404, 500} : Answer(r, code)
    PROVE  OfferingInv'
<1> USE DEF IInv, OfferingInv, chainVars, rowVars, syncVars, fundVars, payVars, GoTo, Answer
<1>1. OfferingsTypeOK' /\ pc' \in [Requests -> Places]
  BY DEF OfferingsTypeOK, Places
<1>2. RequestInv'
  BY DEF RequestInv, OfferingsTypeOK
<1>3. JobInv' /\ RowInv'
  BY DEF JobInv, RowInv, OfferingsTypeOK, Jobs
<1>4. FundInv'
  BY DEF FundInv
<1>5. PayInv'
  BY DEF PayInv, OfferingsTypeOK
<1> QED  BY <1>1, <1>2, <1>3, <1>4, <1>5

-----------------------------------------------------------------------------
(* The steps of Offerings. *)

LEMMA AdvanceIInv ==
    ASSUME IInv, NEW o \in OfferingIds, Advance(o), UNCHANGED snapVars
    PROVE  IInv'
<1> USE DEF IInv, OfferingInv, chainVars, rowVars, syncVars, fundVars, payVars, Advance
<1>1. OfferingsTypeOK' /\ pc' \in [Requests -> Places]
  <2>1. version' \in [OfferingIds -> Versions]
    BY VersionsAssumption DEF OfferingsTypeOK, Versions
  <2> QED  BY <2>1 DEF OfferingsTypeOK
<1>2. RequestInv'
  BY DEF RequestInv, OfferingsTypeOK, Places
<1>3. JobInv'
  BY DEF JobInv, RowInv, OfferingsTypeOK, Versions, Places, Jobs
<1>4. RowInv'
  BY DEF RowInv, JobInv, OfferingsTypeOK, Versions
<1>5. FundInv'
  BY DEF FundInv, RequestInv, JobInv, OfferingsTypeOK, Places, Jobs
<1>6. PayInv'
  BY DEF PayInv, RequestInv, OfferingsTypeOK, Places
<1>7. SnapInv'
  BY SnapFrame DEF OfferingsTypeOK, Places
<1> QED  BY <1>1, <1>2, <1>3, <1>4, <1>5, <1>6, <1>7

LEMMA CompleteIInv ==
    ASSUME IInv, NEW i \in Earlier \cup Requests, Complete(i), UNCHANGED snapVars
    PROVE  IInv'
<1> USE DEF IInv, OfferingInv, chainVars, rowVars, syncVars, fundVars, payVars, Complete
<1>1. OfferingsTypeOK' /\ pc' \in [Requests -> Places]
  BY DEF OfferingsTypeOK, Places, RequestInv, JobInv, RowInv
<1>2. RequestInv'
  BY DEF RequestInv, OfferingsTypeOK, Places
<1>3. JobInv'
  BY DEF JobInv, RowInv, OfferingsTypeOK, Versions, Places, Jobs
<1>4. RowInv'
  BY DEF RowInv, JobInv, OfferingsTypeOK, Versions
<1>5. FundInv'
  BY DEF FundInv, RequestInv, JobInv, OfferingsTypeOK, Places, Jobs
<1>6. PayInv'
  BY DEF PayInv, RequestInv, OfferingsTypeOK, Places
<1>7. SnapInv'
  BY SnapFrame DEF OfferingsTypeOK, Places
<1> QED  BY <1>1, <1>2, <1>3, <1>4, <1>5, <1>6, <1>7

LEMMA BeginIInv ==
    ASSUME IInv, NEW r \in Requests, NEW c \in Calls, Begin(r, c), UNCHANGED snapVars
    PROVE  IInv'
<1> USE DEF IInv, OfferingInv, chainVars, rowVars, syncVars, fundVars, payVars, Begin, GoTo
<1>1. OfferingsTypeOK' /\ pc' \in [Requests -> Places]
  BY DEF OfferingsTypeOK, Places, RequestInv, JobInv, RowInv
<1>2. RequestInv'
  BY DEF RequestInv, OfferingsTypeOK, Places
<1>3. JobInv'
  BY DEF JobInv, RowInv, OfferingsTypeOK, Versions, Places, Jobs
<1>4. RowInv'
  BY DEF RowInv, JobInv, OfferingsTypeOK, Versions
<1>5. FundInv'
  BY DEF FundInv, RequestInv, JobInv, OfferingsTypeOK, Places, Jobs
<1>6. PayInv'
  BY DEF PayInv, RequestInv, OfferingsTypeOK, Places
<1>7. SnapInv'
  BY SnapFrame DEF OfferingsTypeOK, Places
<1> QED  BY <1>1, <1>2, <1>3, <1>4, <1>5, <1>6, <1>7

LEMMA SyncOfferingIInv ==
    ASSUME IInv, NEW r \in Requests, SyncOffering(r), UNCHANGED snapVars
    PROVE  IInv'
<1> USE DEF IInv, OfferingInv, chainVars, rowVars, syncVars, fundVars, payVars, SyncOffering, StartJobs, Started, GoTo, Answer
<1>1. OfferingsTypeOK' /\ pc' \in [Requests -> Places]
  <2>1. job' \in [Jobs -> {"none", "reading", "writing", "synced", "failed"}]
    BY DEF OfferingsTypeOK
  <2>2. copy' \in [Jobs -> [status : RowStatuses, raised : Nat] \cup {None}]
    BY DEF OfferingsTypeOK, Jobs
  <2>3. /\ pc' \in [Requests -> Places]
        /\ status' \in [Requests -> {0, 200, 201, 400, 404, 409, 500}]
    <3>1. \/ pc' = [pc EXCEPT ![r] = "syncing"] /\ status' = status
          \/ pc' = [pc EXCEPT ![r] = "done"] /\ status' = [status EXCEPT ![r] = 404]
      OBVIOUS
    <3>2. /\ pc \in [Requests -> Places]
          /\ status \in [Requests -> {0, 200, 201, 400, 404, 409, 500}]
      BY DEF OfferingsTypeOK
    <3> HIDE DEF IInv, SyncOffering
    <3> QED  BY <3>1, <3>2 DEF Places
  <2> QED  BY <2>1, <2>2, <2>3 DEF OfferingsTypeOK
<1>2. RequestInv'
  BY DEF RequestInv, OfferingsTypeOK, Places
<1>3. JobInv'
  BY DEF JobInv, RowInv, OfferingsTypeOK, Versions, Places, Jobs
<1>4. RowInv'
  BY DEF RowInv, JobInv, OfferingsTypeOK, Versions
<1>5. FundInv'
  BY DEF FundInv, RequestInv, JobInv, OfferingsTypeOK, Places, Jobs
<1>6. PayInv'
  BY DEF PayInv, RequestInv, OfferingsTypeOK, Places
<1>7. SnapInv'
  BY SnapFrame DEF OfferingsTypeOK, Places
<1> QED  BY <1>1, <1>2, <1>3, <1>4, <1>5, <1>6, <1>7

LEMMA SyncAllIInv ==
    ASSUME IInv, NEW r \in Requests, SyncAll(r), UNCHANGED snapVars
    PROVE  IInv'
<1> USE DEF IInv, OfferingInv, chainVars, rowVars, syncVars, fundVars, payVars, SyncAll, StartJobs, Started, GoTo
<1>1. OfferingsTypeOK' /\ pc' \in [Requests -> Places]
  BY DEF OfferingsTypeOK, Places, RequestInv, JobInv, RowInv
<1>2. RequestInv'
  BY DEF RequestInv, OfferingsTypeOK, Places
<1>3. JobInv'
  BY DEF JobInv, RowInv, OfferingsTypeOK, Versions, Places, Jobs
<1>4. RowInv'
  BY DEF RowInv, JobInv, OfferingsTypeOK, Versions
<1>5. FundInv'
  BY DEF FundInv, RequestInv, JobInv, OfferingsTypeOK, Places, Jobs
<1>6. PayInv'
  BY DEF PayInv, RequestInv, OfferingsTypeOK, Places
<1>7. SnapInv'
  BY SnapFrame DEF OfferingsTypeOK, Places
<1> QED  BY <1>1, <1>2, <1>3, <1>4, <1>5, <1>6, <1>7

LEMMA SettleIInv ==
    ASSUME IInv, NEW r \in Requests, Settle(r), UNCHANGED snapVars
    PROVE  IInv'
<1> USE DEF IInv, OfferingInv, chainVars, rowVars, syncVars, fundVars, payVars, Settle, Answer
<1>1. OfferingsTypeOK' /\ pc' \in [Requests -> Places]
  BY DEF OfferingsTypeOK, Places, RequestInv, JobInv, RowInv
<1>2. RequestInv'
  BY DEF RequestInv, OfferingsTypeOK, Places
<1>3. JobInv'
  BY DEF JobInv, RowInv, OfferingsTypeOK, Versions, Places, Jobs
<1>4. RowInv'
  BY DEF RowInv, JobInv, OfferingsTypeOK, Versions
<1>5. FundInv'
  BY DEF FundInv, RequestInv, JobInv, OfferingsTypeOK, Places, Jobs
<1>6. PayInv'
  BY DEF PayInv, RequestInv, OfferingsTypeOK, Places
<1>7. SnapInv'
  BY SnapFrame DEF OfferingsTypeOK, Places
<1> QED  BY <1>1, <1>2, <1>3, <1>4, <1>5, <1>6, <1>7

LEMMA GetOfferingStateIInv ==
    ASSUME IInv, NEW j \in Jobs, GetOfferingState(j), UNCHANGED snapVars
    PROVE  IInv'
<1> USE DEF IInv, OfferingInv, chainVars, rowVars, syncVars, fundVars, payVars, GetOfferingState, hasChanged, SetJob, EndJob
<1>1. OfferingsTypeOK' /\ pc' \in [Requests -> Places]
  <2>1. job' \in [Jobs -> {"none", "reading", "writing", "synced", "failed"}]
    <3>1. job' = [job EXCEPT ![j] = "writing"] \/ job' = [job EXCEPT ![j] = "synced"]
      OBVIOUS
    <3>2. job \in [Jobs -> {"none", "reading", "writing", "synced", "failed"}]
      BY DEF OfferingsTypeOK
    <3> HIDE DEF IInv, GetOfferingState
    <3> QED  BY <3>1, <3>2
  <2>2. copy' \in [Jobs -> [status : RowStatuses, raised : Nat] \cup {None}]
    BY DEF OfferingsTypeOK, Jobs
  <2>3. /\ pc' \in [Requests -> Places]
        /\ status' \in [Requests -> {0, 200, 201, 400, 404, 409, 500}]
    BY DEF OfferingsTypeOK, Places
  <2>4. seen' \in [Jobs -> Versions \cup {None}]
    BY DEF OfferingsTypeOK, Jobs
  <2> QED  BY <2>1, <2>2, <2>3, <2>4 DEF OfferingsTypeOK
<1>2. RequestInv'
  BY DEF RequestInv, OfferingsTypeOK, Places
<1>3. JobInv'
  BY DEF JobInv, RowInv, OfferingsTypeOK, Versions, Places, Jobs
<1>4. RowInv'
  BY DEF RowInv, JobInv, OfferingsTypeOK, Versions
<1>5. FundInv'
  BY DEF FundInv, RequestInv, JobInv, OfferingsTypeOK, Places, Jobs
<1>6. PayInv'
  BY DEF PayInv, RequestInv, OfferingsTypeOK, Places
<1>7. SnapInv'
  BY SnapFrame DEF OfferingsTypeOK, Places
<1> QED  BY <1>1, <1>2, <1>3, <1>4, <1>5, <1>6, <1>7

LEMMA UpdateStateIInv ==
    ASSUME IInv, NEW j \in Jobs, UpdateState(j), UNCHANGED snapVars
    PROVE  IInv'
<1> USE DEF IInv, OfferingInv, chainVars, rowVars, syncVars, fundVars, payVars, UpdateState, UpdateRow, SetJob, EndJob
<1>1. OfferingsTypeOK' /\ pc' \in [Requests -> Places]
  <2>1. seen[j] \in Versions /\ j[2] \in OfferingIds
    BY VersionsAssumption DEF JobInv, OfferingsTypeOK, Versions, Jobs
  <2>2. ChainState[seen[j]] \in [status : RowStatuses, raised : Nat]
    BY <2>1, StateIsRow
  <2>3. moved' \subseteq Jobs
    BY DEF OfferingsTypeOK, Readers, Jobs
  <2> QED  BY <2>1, <2>2, <2>3 DEF OfferingsTypeOK
<1>2. RequestInv'
  BY DEF RequestInv, OfferingsTypeOK, Places
<1>3. JobInv'
  <2>1. ASSUME NEW k \in Jobs, job'[k] \in {"reading", "writing"}, k \notin moved'
        PROVE  k[2] # j[2] /\ k \notin moved
    BY <2>1 DEF OfferingsTypeOK, Readers, Jobs
  <2> QED  BY <2>1 DEF JobInv, OfferingsTypeOK, Versions, Jobs
<1>4. RowInv'
  BY DEF RowInv, JobInv, OfferingsTypeOK, Versions
<1>5. FundInv'
  <2>1. ASSUME NEW r \in Requests, pc[r] = "insert", call[r].offering = j[2]
        PROVE  <<r, j[2]>> \in moved'
    BY <2>1 DEF JobInv, Readers, Jobs
  <2> QED  BY <2>1 DEF FundInv, RequestInv, OfferingsTypeOK
<1>6. PayInv'
  BY DEF PayInv, RequestInv, OfferingsTypeOK, Places
<1>7. SnapInv'
  BY SnapFrame DEF OfferingsTypeOK, Places
<1> QED  BY <1>1, <1>2, <1>3, <1>4, <1>5, <1>6, <1>7

LEMMA JobFailsIInv ==
    ASSUME IInv, NEW j \in Jobs, JobFails(j), UNCHANGED snapVars
    PROVE  IInv'
<1> USE DEF IInv, OfferingInv, chainVars, rowVars, syncVars, fundVars, payVars, JobFails, SetJob, EndJob
<1>1. OfferingsTypeOK' /\ pc' \in [Requests -> Places]
  BY DEF OfferingsTypeOK, Places, RequestInv, JobInv, RowInv
<1>2. RequestInv'
  BY DEF RequestInv, OfferingsTypeOK, Places
<1>3. JobInv'
  BY DEF JobInv, RowInv, OfferingsTypeOK, Versions, Places, Jobs
<1>4. RowInv'
  BY DEF RowInv, JobInv, OfferingsTypeOK, Versions
<1>5. FundInv'
  BY DEF FundInv, RequestInv, JobInv, OfferingsTypeOK, Places, Jobs
<1>6. PayInv'
  BY DEF PayInv, RequestInv, OfferingsTypeOK, Places
<1>7. SnapInv'
  BY SnapFrame DEF OfferingsTypeOK, Places
<1> QED  BY <1>1, <1>2, <1>3, <1>4, <1>5, <1>6, <1>7

LEMMA CheckInvestmentIInv ==
    ASSUME IInv, NEW r \in Requests, CheckInvestment(r), UNCHANGED snapVars
    PROVE  IInv'
<1> USE DEF IInv, OfferingInv, chainVars, rowVars, syncVars, fundVars, payVars, CheckInvestment, isActive, GoTo, Answer
<1>1. OfferingsTypeOK' /\ pc' \in [Requests -> Places]
  BY DEF OfferingsTypeOK, Places, RequestInv, JobInv, RowInv
<1>2. RequestInv'
  <2>1. call[r].offering \in OfferingIds \cup {Unknown}
    BY DEF OfferingsTypeOK, Calls
  <2> QED  BY <2>1 DEF RequestInv, OfferingsTypeOK, Places
<1>3. JobInv'
  BY DEF JobInv, RowInv, OfferingsTypeOK, Versions, Places, Jobs
<1>4. RowInv'
  BY DEF RowInv, JobInv, OfferingsTypeOK, Versions
<1>5. FundInv'
  <2>1. call[r].offering \in OfferingIds \cup {Unknown}
    BY DEF OfferingsTypeOK, Calls
  <2>2. \A o \in OfferingIds : rows[o].status # "open"
    BY DEF OfferingsTypeOK, RowStatuses
  <2> QED  BY <2>1, <2>2 DEF FundInv, OfferingsTypeOK
<1>6. PayInv'
  BY DEF PayInv, RequestInv, OfferingsTypeOK, Places
<1>7. SnapInv'
  BY SnapFrame DEF OfferingsTypeOK, Places
<1> QED  BY <1>1, <1>2, <1>3, <1>4, <1>5, <1>6, <1>7

LEMMA CreateInvestmentIInv ==
    ASSUME IInv, NEW r \in Requests, CreateInvestment(r), UNCHANGED snapVars
    PROVE  IInv'
<1> USE DEF IInv, OfferingInv, chainVars, rowVars, syncVars, fundVars, payVars, CreateInvestment, Answer
<1>1. OfferingsTypeOK' /\ pc' \in [Requests -> Places]
  BY DEF OfferingsTypeOK, Places, RequestInv, JobInv, RowInv
<1>2. RequestInv'
  BY DEF RequestInv, OfferingsTypeOK, Places
<1>3. JobInv'
  BY DEF JobInv, RowInv, OfferingsTypeOK, Versions, Places, Jobs
<1>4. RowInv'
  BY DEF RowInv, JobInv, OfferingsTypeOK, Versions
<1>5. FundInv'
  BY DEF FundInv, RequestInv, JobInv, OfferingsTypeOK, Places, Jobs
<1>6. PayInv'
  BY DEF PayInv, RequestInv, OfferingsTypeOK, Places
<1>7. SnapInv'
  BY SnapFrame DEF OfferingsTypeOK, Places
<1> QED  BY <1>1, <1>2, <1>3, <1>4, <1>5, <1>6, <1>7

LEMMA GetAccountIInv ==
    ASSUME IInv, NEW r \in Requests, GetAccount(r), UNCHANGED snapVars
    PROVE  IInv'
<1> USE DEF IInv, OfferingInv, chainVars, rowVars, syncVars, fundVars, payVars, GetAccount, Meets, GoTo
<1>1. OfferingsTypeOK' /\ pc' \in [Requests -> Places]
  <2>1. sequence \in Nat
    BY FS_CardinalityType DEF OfferingsTypeOK, PayInv
  <2>2. number' \in [Requests -> Nat \cup {None}]
    BY <2>1 DEF OfferingsTypeOK
  <2> QED  BY <2>2 DEF OfferingsTypeOK, Places
<1>2. RequestInv'
  BY DEF RequestInv, OfferingsTypeOK, Places
<1>3. JobInv'
  BY DEF JobInv, RowInv, OfferingsTypeOK, Versions, Places, Jobs
<1>4. RowInv'
  BY DEF RowInv, JobInv, OfferingsTypeOK, Versions
<1>5. FundInv'
  BY DEF FundInv, RequestInv, JobInv, OfferingsTypeOK, Places, Jobs
<1>6. PayInv'
  <2>1. sequence \in Nat
    BY FS_CardinalityType DEF OfferingsTypeOK, PayInv
  <2> QED  BY <2>1 DEF PayInv, RequestInv, OfferingsTypeOK, Places
<1>7. SnapInv'
  BY SnapFrame DEF OfferingsTypeOK, Places
<1> QED  BY <1>1, <1>2, <1>3, <1>4, <1>5, <1>6, <1>7

LEMMA SendTransactionIInv ==
    ASSUME IInv, NEW r \in Requests, SendTransaction(r), UNCHANGED snapVars
    PROVE  IInv'
<1> USE DEF IInv, OfferingInv, chainVars, rowVars, syncVars, fundVars, payVars, SendTransaction, Answer
<1>1. OfferingsTypeOK' /\ pc' \in [Requests -> Places]
  <2>1. pending' \cap paid' = {}
    BY DEF OfferingsTypeOK, PayInv
  <2>2. number' \in [Requests -> Nat \cup {None}]
    BY DEF OfferingsTypeOK
  <2>3. /\ pc' \in [Requests -> Places]
        /\ status' \in [Requests -> {0, 200, 201, 400, 404, 409, 500}]
    BY DEF OfferingsTypeOK, Places
  <2> QED  BY <2>1, <2>2, <2>3 DEF OfferingsTypeOK
<1>2. RequestInv'
  BY DEF RequestInv, OfferingsTypeOK, Places
<1>3. JobInv'
  BY DEF JobInv, RowInv, OfferingsTypeOK, Versions, Places, Jobs
<1>4. RowInv'
  BY DEF RowInv, JobInv, OfferingsTypeOK, Versions
<1>5. FundInv'
  BY DEF FundInv, RequestInv, JobInv, OfferingsTypeOK, Places, Jobs
<1>6. PayInv'
  <2>1. IsFiniteSet(pending')
    BY FS_AddElement DEF PayInv
  <2>2. ASSUME r \notin crossed
        PROVE  NumberIsNext(r)
    <3>1. pending = {} /\ number[r] = sequence + 1
      BY <2>2 DEF PayInv
    <3>2. Cardinality(pending) = 0 /\ sequence \in Nat
      BY <3>1, FS_EmptySet, FS_CardinalityType DEF OfferingsTypeOK, PayInv
    <3> QED  BY <3>1, <3>2 DEF NumberIsNext
  <2>3. pc \in [Requests -> Places] /\ status \in [Requests -> Codes \cup {0}]
    BY DEF OfferingsTypeOK, Codes
  <2> QED  BY <2>1, <2>2, <2>3 DEF PayInv, RequestInv, OfferingsTypeOK
<1>7. SnapInv'
  BY SnapFrame DEF OfferingsTypeOK, Places
<1> QED  BY <1>1, <1>2, <1>3, <1>4, <1>5, <1>6, <1>7

(* A ledger that closes finds no payment on its way that has met no other. *)
LEMMA LedgerIInv ==
    ASSUME IInv, LedgerCloses \/ PaymentExpires, UNCHANGED snapVars
    PROVE  IInv'
<1> USE DEF IInv, OfferingInv, chainVars, rowVars, syncVars, fundVars, LedgerCloses, PaymentExpires
<1>1. /\ sequence' = Cardinality(paid') /\ pending' = {} /\ pending # {}
      /\ IsFiniteSet(paid') /\ paid' \subseteq paid \cup pending
  <2>1. CASE LedgerCloses
    <3>1. pending \cap paid = {} /\ IsFiniteSet(pending) /\ IsFiniteSet(paid)
      BY DEF OfferingsTypeOK, PayInv
    <3>2. /\ IsFiniteSet(paid \cup pending)
          /\ Cardinality(paid \cup pending)
               = Cardinality(paid) + Cardinality(pending) - Cardinality(paid \cap pending)
      BY <3>1, FS_Union
    <3>3. Cardinality(paid \cap pending) = 0
      BY <3>1, FS_EmptySet
    <3>4. Cardinality(paid) \in Nat /\ Cardinality(pending) \in Nat
      BY <3>1, FS_CardinalityType
    <3> QED  BY <2>1, <3>2, <3>3, <3>4 DEF OfferingsTypeOK
  <2>2. CASE PaymentExpires
    BY <2>2 DEF OfferingsTypeOK, PayInv
  <2> QED  BY <2>1, <2>2
<1>2. UNCHANGED <<version, rowVars, pc, status, call, syncVars, fundVars, number, crossed>>
  OBVIOUS
<1> HIDE DEF LedgerCloses, PaymentExpires
<1>3. OfferingsTypeOK' /\ pc' \in [Requests -> Places]
  BY <1>1, <1>2 DEF OfferingsTypeOK
<1>4. RequestInv' /\ JobInv' /\ RowInv' /\ FundInv'
  BY <1>2 DEF RequestInv, JobInv, RowInv, FundInv
<1>5. PayInv'
  <2>1. /\ IsFiniteSet(paid') /\ IsFiniteSet(pending')
        /\ pending' \subseteq Requests /\ paid' \subseteq Requests
    BY <1>1, FS_EmptySet DEF PayInv
  <2>2. ASSUME NEW r \in Requests, pc[r] = "send"
        PROVE  number[r] \in Nat /\ r \in crossed
    BY <1>1, <2>2 DEF PayInv
  <2>3. ASSUME NEW r \in Requests
        PROVE  /\ r \in pending' \cup paid' => pc[r] = "done"
               /\ status[r] = 409 => r \in crossed
    BY <1>1, <2>3 DEF PayInv
  <2>4. pc' = pc /\ status' = status /\ number' = number /\ crossed' = crossed
    BY <1>2
  <2> QED  BY <2>1, <2>2, <2>3, <2>4 DEF PayInv
<1>6. SnapInv'
  BY <1>2, SnapFrame
<1> QED  BY <1>3, <1>4, <1>5, <1>6

LEMMA CallFailsIInv ==
    ASSUME IInv, NEW r \in Requests, CallFails(r), UNCHANGED snapVars
    PROVE  IInv'
<1> USE DEF IInv, OfferingInv, chainVars, rowVars, syncVars, fundVars, payVars, CallFails, Answer
<1>1. OfferingsTypeOK' /\ pc' \in [Requests -> Places]
  BY DEF OfferingsTypeOK, Places, RequestInv, JobInv, RowInv
<1>2. RequestInv'
  BY DEF RequestInv, OfferingsTypeOK, Places
<1>3. JobInv'
  BY DEF JobInv, RowInv, OfferingsTypeOK, Versions, Places, Jobs
<1>4. RowInv'
  BY DEF RowInv, JobInv, OfferingsTypeOK, Versions
<1>5. FundInv'
  BY DEF FundInv, RequestInv, JobInv, OfferingsTypeOK, Places, Jobs
<1>6. PayInv'
  BY DEF PayInv, RequestInv, OfferingsTypeOK, Places
<1>7. SnapInv'
  BY SnapFrame DEF OfferingsTypeOK, Places
<1> QED  BY <1>1, <1>2, <1>3, <1>4, <1>5, <1>6, <1>7

-----------------------------------------------------------------------------
(* The steps of a snapshot. *)

LEMMA FindOfferingIInv ==
    ASSUME IInv, NEW r \in Requests, FindOffering(r)
    PROVE  IInv'
<1>1. OfferingInv'
  BY OfferingFrame DEF FindOffering
<1> USE DEF IInv, SnapInv, snapVars, FindOffering, GoTo, Answer
<1>2. SnapTypes' /\ SnapshotIsWhole' /\ SecondSnapshotIsRace'
  BY DEF SnapTypes, SnapshotIsWhole, SecondSnapshotIsRace
<1>3. call[r].offering \in OfferingIds \cup {Unknown} /\ pc \in [Requests -> Places]
  BY DEF OfferingInv, OfferingsTypeOK, Calls
<1>4. BatchInv'
  BY <1>3 DEF BatchInv
<1>5. LookInv'
  BY <1>3 DEF LookInv
<1> QED  BY <1>1, <1>2, <1>4, <1>5

LEMMA LookForExistingIInv ==
    ASSUME IInv, NEW r \in Requests, LookForExisting(r)
    PROVE  IInv'
<1>1. OfferingInv'
  BY OfferingFrame DEF LookForExisting
<1> USE DEF IInv, SnapInv, LookForExisting, GoTo, Answer
<1>2. SnapTypes' /\ SecondSnapshotIsRace'
  BY DEF SnapTypes, SecondSnapshotIsRace
<1>3. pc \in [Requests -> Places]
  BY DEF OfferingInv
<1>4. BatchInv'
  BY <1>3 DEF BatchInv, SnapTypes
<1>5. LookInv'
  BY <1>3 DEF LookInv, Stored
(* The rows of a call that has some in the table are all there. *)
<1>6. ASSUME NEW s \in Stored(call[r].offering)
      PROVE  batch[s.by] \subseteq Stored(call[r].offering)
  <2>1. s \in snapshots /\ s.by \in Requests /\ call[s.by].offering = call[r].offering
    BY <1>6 DEF Stored, SnapTypes
  <2>2. {t \in snapshots : t.by = s.by} = batch[s.by]
    BY <2>1 DEF SnapshotIsWhole
  <2> QED  BY <2>1, <2>2 DEF Stored
<1>7. SnapshotIsWhole'
  BY <1>6 DEF SnapshotIsWhole, SnapTypes, Stored
<1> QED  BY <1>1, <1>2, <1>4, <1>5, <1>7

LEMMA FetchBalancesIInv ==
    ASSUME IInv, NEW r \in Requests, NEW source, FetchBalances(r, source)
    PROVE  IInv'
<1> DEFINE balances == BalancesFrom(resolveSourceForRun(source), call[r].offering)
<1>1. /\ pc[r] = "balances"
      /\ \/ balances = {} /\ Answer(r, 500) /\ UNCHANGED batch
         \/ batch' = [batch EXCEPT ![r] = Rows(r, balances)] /\ GoTo(r, "rows")
      /\ UNCHANGED <<chainVars, rowVars, call, syncVars, fundVars, payVars,
                     snapshots, open, returned, raced>>
  BY DEF FetchBalances
<1>2. OfferingInv'
  BY <1>1, OfferingFrame
<1>3. \A b \in balances : b.holder # NoHolder /\ b.balance > 0
  BY DEF BalancesFrom, normalizeBalances
<1>4. \A row \in Rows(r, balances) : row.by = r /\ row.holder # NoHolder /\ row.balance > 0
  BY <1>3 DEF Rows
<1> HIDE DEF balances
<1> USE <1>1 DEF IInv, SnapInv, GoTo, Answer
<1>5. pc \in [Requests -> Places]
  BY DEF OfferingInv
<1>6. SnapTypes' /\ SecondSnapshotIsRace'
  BY DEF SnapTypes, SecondSnapshotIsRace
<1>7. BatchInv'
  <2>1. \A row \in batch[r]' : row.by = r /\ row.holder # NoHolder /\ row.balance > 0
    BY <1>4 DEF SnapTypes, BatchInv
  <2>2. open[r] = {}
    BY DEF BatchInv
  <2> QED  BY <1>5, <2>1, <2>2 DEF BatchInv, SnapTypes
<1>8. LookInv'
  BY <1>5 DEF LookInv
<1>9. SnapshotIsWhole'
  BY DEF SnapshotIsWhole, BatchInv, SnapTypes
<1> QED  BY <1>2, <1>6, <1>7, <1>8, <1>9

LEMMA InsertRowIInv ==
    ASSUME IInv, NEW r \in Requests, InsertRow(r)
    PROVE  IInv'
<1> USE DEF IInv, InsertRow, offeringVars
<1>1. OfferingInv'
  BY DEF OfferingInv, OfferingsTypeOK, RequestInv, JobInv, RowInv, FundInv, PayInv
<1> USE DEF SnapInv
<1>2. SnapTypes' /\ SecondSnapshotIsRace' /\ SnapshotIsWhole' /\ LookInv'
  BY DEF SnapTypes, SecondSnapshotIsRace, SnapshotIsWhole, LookInv
<1>3. BatchInv'
  BY DEF BatchInv, SnapTypes
<1> QED  BY <1>1, <1>2, <1>3

LEMMA CommitIInv ==
    ASSUME IInv, NEW r \in Requests, Commit(r)
    PROVE  IInv'
<1>1. OfferingInv'
  BY OfferingFrame DEF Commit
<1> USE DEF IInv, SnapInv, Commit, Answer
<1>2. pc \in [Requests -> Places] /\ r \notin raced' \ raced
  BY DEF OfferingInv, Looking
<1>3. /\ batch' = batch /\ pc'[r] = "done" /\ open'[r] = {}
      /\ \A q \in Requests \ {r} :
            pc'[q] = pc[q] /\ open'[q] = open[q] /\ returned'[q] = returned[q]
  <2>1. /\ batch' = batch /\ pc' = [pc EXCEPT ![r] = "done"]
        /\ open' = [open EXCEPT ![r] = {}]
        /\ returned' = returned \/ returned' = [returned EXCEPT ![r] = batch[r]]
    BY DEF SnapTypes
  <2> HIDE DEF Commit
  <2> QED  BY <2>1, <1>2 DEF SnapTypes
<1>4. \A s \in snapshots' : s \in snapshots \/ (s \in batch[r] /\ s.by = r)
  BY DEF BatchInv
<1>5. \A s \in snapshots : s.by \in Requests /\ s.by # r
  BY DEF SnapTypes, BatchInv
<1>6. SnapTypes'
  BY <1>4 DEF SnapTypes, BatchInv, Looking
<1>7. BatchInv'
  <2>1. ASSUME NEW q \in Requests, pc'[q] # "done"
        PROVE  returned'[q] = {} /\ \A s \in snapshots' : s.by # q
    BY <2>1, <1>3, <1>4 DEF BatchInv
  <2>2. ASSUME NEW q \in Requests
        PROVE  /\ open'[q] \subseteq batch'[q]
               /\ pc'[q] # "rows" => open'[q] = {}
    BY <2>2, <1>3 DEF BatchInv
  <2> QED  BY <2>1, <2>2, <1>2, <1>3 DEF BatchInv
<1>8. LookInv'
  BY <1>2, <1>4 DEF LookInv, Looking
<1>9. SnapshotIsWhole'
  <2>1. ASSUME NEW q \in Requests PROVE {s \in snapshots' : s.by = q} \in {{}, batch'[q]}
    <3>1. CASE q = r
      BY <3>1, <1>4, <1>5 DEF BatchInv
    <3>2. CASE q # r
      <4>1. {s \in snapshots' : s.by = q} = {s \in snapshots : s.by = q}
        BY <3>2, <1>4
      <4> QED  BY <4>1 DEF SnapshotIsWhole
    <3> QED  BY <3>1, <3>2
  <2>2. ASSUME NEW q \in Requests PROVE returned'[q] \subseteq snapshots'
    BY <2>2 DEF SnapshotIsWhole, SnapTypes
  <2>3. ASSUME NEW q \in Requests, NEW s \in returned'[q]
        PROVE  batch'[s.by] \subseteq returned'[q]
    BY <2>3 DEF SnapshotIsWhole, SnapTypes, BatchInv
  <2> QED  BY <2>1, <2>2, <2>3 DEF SnapshotIsWhole
<1>10. SecondSnapshotIsRace'
  <2>1. ASSUME NEW s \in snapshots, call[r].skipIfExists,
               call[s.by].offering = call[r].offering
        PROVE  r \in raced
    BY <2>1 DEF LookInv
  <2> QED  BY <2>1, <1>4, <1>5 DEF SecondSnapshotIsRace
<1> QED  BY <1>1, <1>6, <1>7, <1>8, <1>9, <1>10

LEMMA SnapshotFailsIInv ==
    ASSUME IInv, NEW r \in Requests, SnapshotFails(r)
    PROVE  IInv'
<1>1. OfferingInv'
  BY OfferingFrame DEF SnapshotFails
<1> USE DEF IInv, SnapInv, SnapshotFails, Answer
<1>2. SnapTypes' /\ SecondSnapshotIsRace' /\ SnapshotIsWhole'
  BY DEF SnapTypes, SecondSnapshotIsRace, SnapshotIsWhole
<1>3. pc \in [Requests -> Places]
  BY DEF OfferingInv
<1>4. BatchInv' /\ LookInv'
  BY <1>3 DEF BatchInv, LookInv, SnapTypes
<1> QED  BY <1>1, <1>2, <1>4

-----------------------------------------------------------------------------
(* The theorems. *)

LEMMA InitIInv ==
    ASSUME SnapInit
    PROVE  IInv
<1> USE DEF SnapInit, Init
<1>1. ASSUME NEW o \in OfferingIds
      PROVE  ChainState[asOf[o]] \in [status : RowStatuses, raised : Nat]
  BY <1>1, StateIsRow
<1>2. Blank \in Calls
  BY DEF Blank, Calls, Kinds
<1>3. sequence = Cardinality(paid) /\ IsFiniteSet(paid) /\ IsFiniteSet(pending)
  BY FS_EmptySet
<1>4. OfferingsTypeOK
  BY <1>1, <1>2, <1>3 DEF OfferingsTypeOK, Versions
<1>5. RequestInv /\ JobInv /\ RowInv /\ FundInv /\ pc \in [Requests -> Places]
  BY DEF RequestInv, JobInv, RowInv, FundInv, Places, Jobs
<1>6. PayInv
  BY <1>3 DEF PayInv
<1>7. SnapTypes /\ BatchInv /\ LookInv /\ SnapshotIsWhole /\ SecondSnapshotIsRace
  BY DEF SnapTypes, BatchInv, LookInv, SnapshotIsWhole, SecondSnapshotIsRace
<1> QED  BY <1>4, <1>5, <1>6, <1>7 DEF IInv, OfferingInv, SnapInv

LEMMA StutterIInv ==
    ASSUME IInv, UNCHANGED vars
    PROVE  IInv'
BY DEF IInv, vars, offeringVars, snapVars, OfferingInv, SnapInv, OfferingsTypeOK, RequestInv,
   JobInv, RowInv, FundInv, PayInv, SnapTypes, BatchInv, LookInv, SnapshotIsWhole,
   SecondSnapshotIsRace

LEMMA NextIInv ==
    ASSUME IInv, Next
    PROVE  IInv'
<1>1. ASSUME UNCHANGED snapVars, NEW o \in OfferingIds, Advance(o) PROVE IInv'
  BY <1>1, AdvanceIInv
<1>2. ASSUME UNCHANGED snapVars, NEW i \in Earlier \cup Requests, Complete(i) PROVE IInv'
  BY <1>2, CompleteIInv
<1>3. ASSUME UNCHANGED snapVars, NEW r \in Requests,
             \/ \E c \in Calls : Begin(r, c)
             \/ SyncStep(r) \/ InvestStep(r) \/ PayStep(r) \/ CallFails(r)
      PROVE  IInv'
  <2>1. \A o \in OfferingIds : <<r, o>> \in Jobs
    BY DEF Jobs
  <2>2. CASE \E c \in Calls : Begin(r, c)
    BY <1>3, <2>2, BeginIInv
  <2>3. CASE SyncStep(r)
    BY <1>3, <2>1, <2>3, SyncOfferingIInv, SyncAllIInv, SettleIInv, GetOfferingStateIInv,
       UpdateStateIInv, JobFailsIInv DEF SyncStep
  <2>4. CASE InvestStep(r)
    BY <1>3, <2>4, CheckInvestmentIInv, CreateInvestmentIInv DEF InvestStep
  <2>5. CASE PayStep(r)
    BY <1>3, <2>5, GetAccountIInv, SendTransactionIInv DEF PayStep
  <2>6. CASE CallFails(r)
    BY <1>3, <2>6, CallFailsIInv
  <2> QED  BY <1>3, <2>2, <2>3, <2>4, <2>5, <2>6
<1>4. ASSUME NEW r \in Requests, SnapshotStep(r) PROVE IInv'
  BY <1>4, FindOfferingIInv, LookForExistingIInv, FetchBalancesIInv, InsertRowIInv,
     CommitIInv, SnapshotFailsIInv DEF SnapshotStep
<1>5. ASSUME UNCHANGED snapVars, LedgerCloses \/ PaymentExpires PROVE IInv'
  BY <1>5, LedgerIInv
<1> QED  BY <1>1, <1>2, <1>3, <1>4, <1>5 DEF Next, OfferingsNext

THEOREM Invariant == Spec => []IInv
<1>1. SnapInit => IInv
  BY InitIInv
<1>2. IInv /\ [Next]_vars => IInv'
  BY NextIInv, StutterIInv
<1> QED  BY <1>1, <1>2, PTL DEF Spec

(* Tables, calls and jobs keep their types, every row of a snapshot is of  *)
(* a holder and positive, and the account's sequence number counts the     *)
(* payments in a ledger, of which none is pending any more.                *)
THEOREM TypeCorrect == Spec => []TypeOK
<1>1. IInv => TypeOK
  BY DEF IInv, OfferingInv, SnapInv, SnapTypes, Places, TypeOK
<1> QED  BY <1>1, Invariant, PTL

(* An investment lands in an offering that is not open only when a sync    *)
(* wrote the row between the check and the INSERT of createInvestment.     *)
THEOREM LateOnlyByRace == Spec => []LateIsRace
<1>1. IInv => LateIsRace
  BY DEF IInv, OfferingInv, OfferingsTypeOK, FundInv, LateIsRace
<1> QED  BY <1>1, Invariant, PTL

(* submitPayment is refused for its sequence number only when another      *)
(* payment was pending at its getAccount, or was accepted between that and *)
(* its sendTransaction.                                                    *)
THEOREM RefusedOnlyByRace == Spec => []RefusalIsRace
<1>1. IInv => RefusalIsRace
  BY DEF IInv, OfferingInv, PayInv, RefusalIsRace
<1> QED  BY <1>1, Invariant, PTL

(* insertMany leaves all the rows of a snapshot or none, and what a call   *)
(* returns holds every row of each snapshot it has rows of.                *)
THEOREM SnapshotsAreWhole == Spec => []SnapshotIsWhole
<1>1. IInv => SnapshotIsWhole
  BY DEF IInv, SnapInv
<1> QED  BY <1>1, Invariant, PTL

(* With skipIfExists a period has two snapshots only when one was taken    *)
(* between the look of the other and its COMMIT.                           *)
THEOREM SecondOnlyByRace == Spec => []SecondSnapshotIsRace
<1>1. IInv => SecondSnapshotIsRace
  BY DEF IInv, SnapInv
<1> QED  BY <1>1, Invariant, PTL

(* The row of an offering is written by updateState alone, and a job       *)
(* reports success after updateState or an unchanged state of the contract.*)
LEMMA OnlyJobsWrite ==
    ASSUME IInv, [Next]_vars, ~ \E j \in Jobs : GetOfferingState(j) \/ UpdateState(j)
    PROVE  asOf' = asOf /\ \A j \in Jobs : job'[j] = "synced" => job[j] = "synced"
<1> USE DEF chainVars, rowVars, syncVars, fundVars, payVars
<1>1. DOMAIN job = Jobs
  BY DEF IInv, OfferingInv, OfferingsTypeOK
<1>2. CASE UNCHANGED vars
  BY <1>2 DEF vars, offeringVars
<1>3. ASSUME \/ \E o \in OfferingIds : Advance(o)
             \/ \E i \in Earlier \cup Requests : Complete(i)
             \/ LedgerCloses \/ PaymentExpires
      PROVE  UNCHANGED <<asOf, job>>
  BY <1>3 DEF Advance, Complete, LedgerCloses, PaymentExpires
<1>4. ASSUME NEW r \in Requests,
             \/ \E c \in Calls : Begin(r, c)
             \/ InvestStep(r) \/ PayStep(r) \/ CallFails(r)
      PROVE  UNCHANGED <<asOf, job>>
  BY <1>4 DEF Begin, InvestStep, CheckInvestment, CreateInvestment, PayStep, GetAccount,
     SendTransaction, CallFails
<1>5. ASSUME NEW r \in Requests, SnapshotStep(r)
      PROVE  UNCHANGED <<asOf, job>>
  BY <1>5 DEF SnapshotStep, FindOffering, LookForExisting, FetchBalances, InsertRow, Commit,
     SnapshotFails, offeringVars
<1>6. ASSUME NEW r \in Requests, SyncOffering(r) \/ SyncAll(r)
      PROVE  asOf' = asOf /\ \A j \in Jobs : job'[j] = "synced" => job[j] = "synced"
  BY <1>6 DEF SyncOffering, SyncAll, StartJobs, Started
<1>7. ASSUME NEW r \in Requests, Settle(r)
      PROVE  asOf' = asOf /\ \A j \in Jobs : job'[j] = "synced" => job[j] = "synced"
  BY <1>7 DEF Settle
<1>8. ASSUME NEW j \in Jobs, JobFails(j)
      PROVE  asOf' = asOf /\ \A k \in Jobs : job'[k] = "synced" => job[k] = "synced"
  BY <1>1, <1>8 DEF JobFails, EndJob, SetJob
<1>9. ASSUME NEW r \in Requests, SyncStep(r)
      PROVE  asOf' = asOf /\ \A j \in Jobs : job'[j] = "synced" => job[j] = "synced"
  <2>1. \A o \in OfferingIds : <<r, o>> \in Jobs
    BY DEF Jobs
  <2> QED  BY <1>6, <1>7, <1>8, <1>9, <2>1 DEF SyncStep
<1> QED  BY <1>2, <1>3, <1>4, <1>5, <1>9 DEF Next, OfferingsNext

(* The write of a job that nobody has overtaken makes a row no older. *)
LEMMA WritesForward ==
    ASSUME IInv, NEW j \in Jobs, UpdateState(j), j \notin moved
    PROVE  asOf[j[2]] \in Nat /\ seen[j] \in Nat /\ asOf[j[2]] <= seen[j]
BY VersionsAssumption DEF IInv, OfferingInv, OfferingsTypeOK, JobInv, UpdateState, Versions, Jobs

(* A row's state of the contract gets older only by the updateState of a   *)
(* job whose row another job had written since it was read.                *)
THEOREM RegressionOnlyByRace == Spec => RegressionIsRace
<1>1. ASSUME IInv, [Next]_vars, NEW o \in OfferingIds, asOf'[o] < asOf[o]
      PROVE  \E r \in Requests : /\ job[<<r, o>>] = "writing" /\ job'[<<r, o>>] # "writing"
                                 /\ <<r, o>> \in moved
  <2>1. /\ asOf \in [OfferingIds -> Versions] /\ DOMAIN job = Jobs
        /\ asOf[o] \in Int /\ ~(asOf[o] < asOf[o])
    BY <1>1, VersionsAssumption DEF IInv, OfferingInv, OfferingsTypeOK, Versions
  <2>2. PICK j \in Jobs : GetOfferingState(j) \/ UpdateState(j)
    BY <1>1, <2>1, OnlyJobsWrite
  <2>3. UpdateState(j) /\ j[2] = o
    BY <1>1, <2>1, <2>2 DEF GetOfferingState, UpdateState, rowVars
  <2>4. j = <<j[1], o>> /\ j[1] \in Requests
    BY <2>3 DEF Jobs
  <2>5. job[j] = "writing" /\ job'[j] # "writing" /\ asOf'[o] = seen[j]
    BY <2>1, <2>3 DEF UpdateState, EndJob, SetJob
  <2>6. j \in moved
    BY <1>1, <2>3, <2>5, WritesForward
  <2> QED  BY <2>4, <2>5, <2>6
<1>2. IInv /\ [Next]_vars
        => [\A o \in OfferingIds : asOf'[o] < asOf[o] =>
              \E r \in Requests : /\ job[<<r, o>>] = "writing" /\ job'[<<r, o>>] # "writing"
                                  /\ <<r, o>> \in moved]_offeringVars
  BY <1>1
<1> QED  BY <1>2, Invariant, PTL DEF Spec, RegressionIsRace

(* A job of OfferingSyncService reports success only when the row holds    *)
(* what it read of the contract, or another job has written the row since  *)
(* this one read it.                                                       *)
THEOREM SuccessFreshOrRace == Spec => SuccessIsFresh
<1>1. ASSUME IInv, [Next]_vars, NEW j \in Jobs, job[j] # "synced", job'[j] = "synced"
      PROVE  rows'[j[2]] = ChainState[seen'[j]] \/ j \in moved
  <2>1. DOMAIN job = Jobs /\ DOMAIN seen = Jobs /\ DOMAIN rows = OfferingIds
    BY <1>1 DEF IInv, OfferingInv, OfferingsTypeOK
  <2>2. PICK k \in Jobs : GetOfferingState(k) \/ UpdateState(k)
    BY <1>1, OnlyJobsWrite
  <2>3. k = j
    BY <1>1, <2>1, <2>2 DEF GetOfferingState, UpdateState, EndJob, SetJob
  <2>4. CASE GetOfferingState(j)
    <3>1. job[j] = "reading" /\ copy[j] = ChainState[seen'[j]] /\ rows' = rows
      BY <1>1, <2>1, <2>4 DEF GetOfferingState, hasChanged, EndJob, SetJob, rowVars
    <3> QED  BY <1>1, <3>1 DEF IInv, OfferingInv, JobInv
  <2>5. CASE UpdateState(j)
    <3>1. j[2] \in OfferingIds
      BY DEF Jobs
    <3> QED  BY <2>1, <2>5, <3>1 DEF UpdateState, UpdateRow
  <2> QED  BY <2>2, <2>3, <2>4, <2>5
<1>2. IInv /\ [Next]_vars
        => [\A j \in Jobs : job[j] # "synced" /\ job'[j] = "synced" =>
              \/ rows'[j[2]] = ChainState[seen'[j]]
              \/ j \in moved]_offeringVars
  BY <1>1
<1> QED  BY <1>2, Invariant, PTL DEF Spec, SuccessIsFresh
==============================================================================

----------------------------- MODULE Idempotency -----------------------------
(***************************************************************************)
(* The idempotency middleware (middleware/idempotency.ts) with its         *)
(* in-memory store, and the route handler behind it.                       *)
(*                                                                         *)
(* The store's methods run without suspension, so each is one step.  The   *)
(* handler is the route's own (modelled by what the middleware sees of     *)
(* it): it has its effect, then responds.  The client may hang up at any   *)
(* time: the response then emits 'close' and never 'finish' (Node), while  *)
(* the handler runs on.  What clients are promised is in RequestPromises.  *)
(***************************************************************************)
EXTENDS FiniteSets, RequestPromises

CONSTANTS
    Keys,        \* values of the Idempotency-Key header
    MayExpire    \* is ttlMs set?

ASSUME NoKeyAssumption == NoKey \notin Keys
ASSUME RequestsAssumption == Requests \cap {"none", "conflict"} = {}
ASSUME MayExpireAssumption == MayExpire \in BOOLEAN

VARIABLES
    inFlight,    \* InMemoryIdempotencyStore.inFlight
    records,     \* InMemoryIdempotencyStore.records: from a key to the request whose
                 \* response it holds
    stored       \* history: the requests whose response was saved

vars == <<pc, key, outcome, answer, inFlight, records, effects, stored, forgotten>>

PCs == {"unsent", "left", "running", "responded", "orphan", "stranded", "done", "gone", "crashed"}

Outcomes == {"none", "ok", "serverError"}   \* status < 500, status >= 500

Answers == {"none", "conflict"}

(* The requests that hold the reservation of their key: the handler is     *)
(* under way, or has responded, and the client is still there, or the      *)
(* client was gone before the middleware subscribed to its leaving.        *)
Holders == {r \in Requests : pc[r] \in {"running", "responded", "stranded"} /\ key[r] # NoKey}

Stranded == {r \in Requests : pc[r] = "stranded"}

(* The requests whose handler is under way. *)
Executing ==
    {r \in Requests : \/ pc[r] \in {"running", "orphan"}
                      \/ pc[r] = "stranded" /\ outcome[r] = "none"}

Without(k) == [i \in DOMAIN records \ {k} |-> records[i]]

-----------------------------------------------------------------------------
Init ==
    /\ pc = [r \in Requests |-> "unsent"]
    /\ key \in [Requests -> Keys \cup {NoKey}]
    /\ outcome = [r \in Requests |-> "none"]
    /\ answer = [r \in Requests |-> "none"]
    /\ inFlight = {}
    /\ records = [k \in {} |-> NoKey]
    /\ effects = {}
    /\ stored = {}
    /\ forgotten = {}

GoTo(r, place) == pc' = [pc EXCEPT ![r] = place]

(* The middleware steps aside: next() at once. *)
PassThrough(r) ==
    /\ pc[r] = "unsent"
    /\ key[r] = NoKey
    /\ GoTo(r, "running")
    /\ UNCHANGED <<key, outcome, answer, inFlight, records, effects, stored, forgotten>>

(* checkAndReserve, and what the middleware does with its result.  With a  *)
(* TTL the record found may be out of date, in which case it is dropped.   *)
Replay(r) ==
    /\ pc[r] = "unsent"
    /\ key[r] \in DOMAIN records
    /\ answer' = [answer EXCEPT ![r] = records[key[r]]]
    /\ GoTo(r, "done")
    /\ UNCHANGED <<key, outcome, inFlight, records, effects, stored, forgotten>>

Expired(k) == MayExpire /\ k \in DOMAIN records

(* The key has no record, or none any more. *)
Unrecorded(k) == k \notin DOMAIN records \/ Expired(k)

Prune(k) ==
    /\ records' = Without(k)
    /\ forgotten' = forgotten \cup {records[i] : i \in {k} \cap DOMAIN records}

Conflict(r) ==
    /\ pc[r] = "unsent"
    /\ key[r] \in inFlight
    /\ Unrecorded(key[r])
    /\ Prune(key[r])
    /\ answer' = [answer EXCEPT ![r] = "conflict"]
    /\ GoTo(r, "done")
    /\ UNCHANGED <<key, outcome, inFlight, effects, stored>>

(* A bug to detect: records is not looked at. *)
ReserveRecorded(r) ==
    /\ pc[r] = "unsent"
    /\ key[r] \in Keys \ inFlight
    /\ inFlight' = inFlight \cup {key[r]}
    /\ GoTo(r, "running")
    /\ UNCHANGED <<key, outcome, answer, records, effects, stored, forgotten>>

Reserve(r) ==
    /\ pc[r] = "unsent"
    /\ key[r] \in Keys \ inFlight
    /\ Unrecorded(key[r])
    /\ Prune(key[r])
    /\ inFlight' = inFlight \cup {key[r]}
    /\ GoTo(r, "running")
    /\ UNCHANGED <<key, outcome, answer, effects, stored>>

(* The client hangs up while a middleware before this one awaits.  Its     *)
(* 'close' is then past when this one subscribes to it; the handler is     *)
(* started all the same, unless the request would not have been let by.    *)
Leave(r) ==
    /\ pc[r] = "unsent"
    /\ GoTo(r, "left")
    /\ UNCHANGED <<key, outcome, answer, inFlight, records, effects, stored, forgotten>>

ReserveForNobody(r) ==
    /\ pc[r] = "left"
    /\ key[r] \in Keys \ inFlight
    /\ Unrecorded(key[r])
    /\ Prune(key[r])
    /\ inFlight' = inFlight \cup {key[r]}
    /\ GoTo(r, "stranded")
    /\ UNCHANGED <<key, outcome, answer, effects, stored>>

(* The handler responds, through the res.json or res.send that records the *)
(* body.  An error may be answered before or after the effect.             *)
Respond(r) ==
    /\ r \in Executing
    /\ pc' = [pc EXCEPT ![r] = CASE @ = "running"  -> "responded"
                                 [] @ = "orphan"   -> "gone"
                                 [] @ = "stranded" -> "stranded"]
    /\ \/ /\ outcome' = [outcome EXCEPT ![r] = "ok"]
          /\ effects' = effects \cup {r}
       \/ /\ outcome' = [outcome EXCEPT ![r] = "serverError"]
          /\ \/ effects' = effects \cup {r}
             \/ UNCHANGED effects
    /\ UNCHANGED <<key, answer, inFlight, records, stored, forgotten>>

(* A bug to detect: a key is never released without a response to store. *)
KeepReserved(r) == UNCHANGED <<inFlight, records, stored>>

(* 'finish': the response is stored, or the key released after a 5xx. *)
Save(r) ==
    /\ inFlight' = inFlight \ {key[r]}
    /\ records' = [k \in DOMAIN records \cup {key[r]} |->
                      IF k = key[r] THEN r ELSE records[k]]
    /\ stored' = stored \cup {r}

Release(r) ==
    /\ inFlight' = inFlight \ {key[r]}
    /\ UNCHANGED <<records, stored>>

(* A bug to detect: the key is released and the response not stored. *)
FinishForgets(r) ==
    /\ pc[r] = "responded"
    /\ IF key[r] = NoKey THEN UNCHANGED <<inFlight, records, stored>> ELSE Release(r)
    /\ answer' = [answer EXCEPT ![r] = r]
    /\ GoTo(r, "done")
    /\ UNCHANGED <<key, outcome, effects, forgotten>>

Finish(r) ==
    /\ pc[r] = "responded"
    /\ IF key[r] = NoKey THEN UNCHANGED <<inFlight, records, stored>>
       ELSE IF outcome[r] = "ok" THEN Save(r)
       ELSE Release(r)
    /\ answer' = [answer EXCEPT ![r] = r]
    /\ GoTo(r, "done")
    /\ UNCHANGED <<key, outcome, effects, forgotten>>

(* 'close' without 'finish': the client hung up. *)
Close(r) ==
    /\ pc[r] \in {"running", "responded"}
    /\ GoTo(r, IF pc[r] = "running" THEN "orphan" ELSE "gone")
    /\ Release(r)
    /\ UNCHANGED <<key, outcome, answer, effects, forgotten>>

(* The process restarts: store and handlers are gone. *)
Crash ==
    /\ Executing # {} \/ Holders # {} \/ DOMAIN records # {}
    /\ pc' = [r \in Requests |->
                 IF r \in Executing \cup Holders THEN "crashed" ELSE pc[r]]
    /\ inFlight' = {}
    /\ records' = [k \in {} |-> NoKey]
    /\ forgotten' = forgotten \cup {records[k] : k \in DOMAIN records}
    /\ UNCHANGED <<key, outcome, answer, effects, stored>>

Arrive(r) ==
    \/ PassThrough(r)
    \/ Replay(r)
    \/ Conflict(r)
    \/ Reserve(r)
    \/ Leave(r)
    \/ ReserveForNobody(r)

Settle(r) == Respond(r) \/ Finish(r)

Next ==
    \/ \E r \in Requests : Arrive(r) \/ Settle(r) \/ Close(r)
    \/ Crash

Spec == Init /\ [][Next]_vars

(* A handler that has been started responds, and what it responded is      *)
(* flushed or the client's connection closes.                              *)
FairSpec == Spec /\ \A r \in Requests : WF_vars(Settle(r))
-----------------------------------------------------------------------------
(* Properties. *)

TypeOK ==
    /\ pc \in [Requests -> PCs]
    /\ key \in [Requests -> Keys \cup {NoKey}]
    /\ outcome \in [Requests -> Outcomes]
    /\ answer \in [Requests -> Requests \cup Answers]
    /\ inFlight \subseteq Keys
    /\ DOMAIN records \subseteq Keys /\ records \in [DOMAIN records -> Requests]
    /\ effects \subseteq Requests /\ stored \subseteq Requests /\ forgotten \subseteq Requests

(* A key is reserved exactly as long as a request holds it: no crash,      *)
(* error or hang-up leaves a key answering 409, save that of a client gone *)
(* before the middleware was reached.                                      *)
ReservedMeansHeld == inFlight = {key[r] : r \in Holders}

(* Of those requests, one at most has a given key. *)
OneHolder == \A r, q \in Holders : key[r] = key[q] => r = q

(* What is replayed is a response below 500 to a request with the same     *)
(* key, and the client that made that request was sent it as well.         *)
ReplayIsGenuine ==
    \A r \in Requests :
        answer[r] \in Requests =>
            LET q == answer[r]
            IN  /\ key[q] = key[r]
                /\ answer[q] = q
                /\ r # q => outcome[q] = "ok"

(* Every reservation ends, provided the route's handler does, or the       *)
(* client had left before the reservation was made.                        *)
ReservationsEnd ==
    \A k \in Keys : k \in inFlight ~> k \notin inFlight \/ \E r \in Stranded : key[r] = k

(* The inductive invariant behind the safety properties. *)
RecordsConsistent ==
    /\ \A k \in DOMAIN records : key[records[k]] = k /\ records[k] \in stored
    /\ DOMAIN records \cap inFlight = {}

HistoryConsistent ==
    /\ \A r \in stored : /\ pc[r] = "done" /\ outcome[r] = "ok" /\ answer[r] = r
                         /\ key[r] # NoKey
                         /\ r \in forgotten \/ (key[r] \in DOMAIN records /\ records[key[r]] = r)
    /\ \A r \in effects : pc[r] \notin {"unsent", "left", "running"}
    /\ \A r \in Requests :
        /\ pc[r] \in {"unsent", "left", "running", "orphan"} => outcome[r] = "none"
        /\ pc[r] = "responded" => outcome[r] # "none"
        /\ answer[r] # r /\ r \in effects =>
              pc[r] \in {"responded", "stranded", "gone", "crashed"}
        /\ answer[r] = r => /\ pc[r] = "done" /\ outcome[r] # "none"
                            /\ key[r] = NoKey \/ outcome[r] = "serverError" \/ r \in stored
        /\ answer[r] \in Requests \ {r} => answer[r] \in stored /\ key[answer[r]] = key[r]

IInv ==
    /\ TypeOK
    /\ ReservedMeansHeld
    /\ OneHolder
    /\ RecordsConsistent
    /\ HistoryConsistent
=============================================================================

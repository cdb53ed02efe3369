------------------------------ MODULE Webhooks -------------------------------
(***************************************************************************)
(* Outgoing webhooks: the table of endpoints (WebhookEndpointRepository),  *)
(* WebhookService.emit and deliver, the network in between, and a receiver *)
(* behind one of the front ends of WebhookReceiver.                        *)
(*                                                                         *)
(* emit reads the endpoints that are active and subscribed, then starts a  *)
(* delivery to each without waiting for any.  A delivery posts the event,  *)
(* waits for an answer until the timeout aborts the request, and tries     *)
(* again after an answer that is neither 2xx nor 4xx (429 excepted), a     *)
(* network error or an abort.  An aborted request may still reach the      *)
(* receiver, and be handled there after the next attempt has been.  The    *)
(* length of the backoff is not modelled: a waiting delivery goes on at    *)
(* any time.  The safety properties are those of DeliveryPromises.         *)
(***************************************************************************)
EXTENDS WebhookReceiver, DeliveryPromises

CONSTANTS Subscribed,  \* the emissions whose type is in an endpoint's "events"
          Receivers    \* what may stand behind an endpoint: a front end and its options

ASSUME MaxTriesAssumption == MaxTries \in Nat \ {0}
ASSUME RowsAssumption ==
    /\ Subscribed \in [Endpoints -> SUBSET Emissions]
    /\ RowSecret \in [Endpoints -> Secrets]
ASSUME ReceiversAssumption ==
    Receivers \subseteq [kind : FrontEnds, secret : Secrets, required : BOOLEAN]

VARIABLES
    rows,       \* table webhook_endpoints: "absent", "active" or "inactive"
    emission,   \* where each call of emit is
    targets,    \* the endpoints each call of emit read
    wire,       \* requests on their way to, or inside, a receiver
    answers     \* the answer that has come back for the attempt in progress

vars == <<rows, receiver, emission, targets, delivery, attempt, wire, answers,
          handled, unanswered>>

NoAnswer == 0

(* What deliver posts: signed with the secret of the row that emit read,   *)
(* no timestamp header, and the event's data under "payload".              *)
Envelope(d) ==
    [header |-> "x-revora-signature", prefixed |-> TRUE, secret |-> RowSecret[d[2]],
     stamp |-> NoStamp, body |-> "no data"]

HandlerAnswers == {200, 422, 429, 500}

isOk(code)         == code = 200
nonRetryable(code) == code \in 400..499 /\ code # 429

Init ==
    /\ rows \in [Endpoints -> {"absent", "active"}]
    /\ receiver \in [Endpoints -> Receivers]
    /\ emission = [m \in Emissions |-> "idle"]
    /\ targets = [m \in Emissions |-> {}]
    /\ delivery = [d \in Deliveries |-> "none"]
    /\ attempt = [d \in Deliveries |-> 0]
    /\ wire = {}
    /\ answers = [d \in Deliveries |-> NoAnswer]
    /\ handled = {}
    /\ unanswered = {}

-----------------------------------------------------------------------------
(* The table. *)

SetRow(e, state) ==
    /\ rows' = [rows EXCEPT ![e] = state]
    /\ UNCHANGED <<receiver, emission, targets, delivery, attempt, wire, answers,
                   handled, unanswered>>

create(e)     == rows[e] = "absent" /\ SetRow(e, "active")
deactivate(e) == rows[e] = "active" /\ SetRow(e, "inactive")
delete(e)     == rows[e] # "absent" /\ SetRow(e, "absent")

-----------------------------------------------------------------------------
(* emit. *)

emit(m) ==
    /\ emission[m] = "idle"
    /\ emission' = [emission EXCEPT ![m] = "reading"]
    /\ UNCHANGED <<rows, receiver, targets, delivery, attempt, wire, answers,
                   handled, unanswered>>

(* The database evaluates the query; the rows then travel back. *)
listActiveByEvent(m) ==
    /\ emission[m] = "reading"
    /\ targets' = [targets EXCEPT ![m] =
                    {e \in Endpoints : rows[e] = "active" /\ m \in Subscribed[e]}]
    /\ emission' = [emission EXCEPT ![m] = "listed"]
    /\ UNCHANGED <<rows, receiver, delivery, attempt, wire, answers, handled,
                   unanswered>>

(* The query rejects: emit logs and returns, and the event reaches nobody. *)
ListFails(m) ==
    /\ emission[m] = "reading"
    /\ emission' = [emission EXCEPT ![m] = "done"]
    /\ UNCHANGED <<rows, receiver, targets, delivery, attempt, wire, answers,
                   handled, unanswered>>

Started(m) == {d \in Deliveries : d[1] = m /\ d[2] \in targets[m]}

BeginDeliveries(m) ==
    /\ emission[m] = "listed"
    /\ emission' = [emission EXCEPT ![m] = "done"]
    /\ delivery' = [d \in Deliveries |->
                      IF d \in Started(m) THEN "sending" ELSE delivery[d]]
    /\ attempt' = [d \in Deliveries |-> IF d \in Started(m) THEN 1 ELSE attempt[d]]
    /\ wire' = wire \cup {<<d, 1>> : d \in Started(m)}
    /\ UNCHANGED <<rows, receiver, targets, answers, handled, unanswered>>

-----------------------------------------------------------------------------
(* The receiver. *)

ReceiverVerdict(d) ==
    LET r == receiver[d[2]]
    IN  Verdict(r.kind, r.secret, Envelope(d), r.required, 0)

(* A request reaches the receiver: the front end refuses it, or the        *)
(* handler runs.  The answer comes back to an attempt still in progress.   *)
Receive(d, n, code) ==
    /\ <<d, n>> \in wire
    /\ IF ReceiverVerdict(d) = Pass
       THEN /\ code \in HandlerAnswers
            /\ handled' = handled \cup {<<d, n, code>>}
       ELSE /\ code = ReceiverVerdict(d)
            /\ UNCHANGED handled
    /\ wire' = wire \ {<<d, n>>}
    /\ answers' = IF delivery[d] = "sending" /\ attempt[d] = n
                  THEN [answers EXCEPT ![d] = code] ELSE answers
    /\ UNCHANGED <<rows, receiver, emission, targets, delivery, attempt, unanswered>>

Drop(d, n) ==
    /\ <<d, n>> \in wire
    /\ wire' = wire \ {<<d, n>>}
    /\ UNCHANGED <<rows, receiver, emission, targets, delivery, attempt, answers,
                   handled, unanswered>>

-----------------------------------------------------------------------------
(* deliver. *)

(* The end of one round of the loop that returned nothing: a wait before   *)
(* the next attempt, or the last return.                                   *)
AfterFailure(d) ==
    delivery' = [delivery EXCEPT ![d] =
                   IF attempt[d] < MaxTries THEN "waiting" ELSE "failed"]

(* A bug to detect: a 2xx answer does not end the loop. *)
AnswerWithoutReturn(d) ==
    /\ delivery[d] = "sending" /\ answers[d] # NoAnswer
    /\ IF nonRetryable(answers[d])
       THEN delivery' = [delivery EXCEPT ![d] = "failed"]
       ELSE AfterFailure(d)
    /\ answers' = [answers EXCEPT ![d] = NoAnswer]
    /\ UNCHANGED <<rows, receiver, emission, targets, attempt, wire, handled, unanswered>>

(* A bug to detect: every answer counts as success. *)
AnswerNotInspected(d) ==
    /\ delivery[d] = "sending" /\ answers[d] # NoAnswer
    /\ delivery' = [delivery EXCEPT ![d] = "delivered"]
    /\ answers' = [answers EXCEPT ![d] = NoAnswer]
    /\ UNCHANGED <<rows, receiver, emission, targets, attempt, wire, handled, unanswered>>

(* fetch resolves. *)
Answered(d) ==
    /\ delivery[d] = "sending" /\ answers[d] # NoAnswer
    /\ CASE isOk(answers[d])         -> delivery' = [delivery EXCEPT ![d] = "delivered"]
         [] nonRetryable(answers[d]) -> delivery' = [delivery EXCEPT ![d] = "failed"]
         [] OTHER                    -> AfterFailure(d)
    /\ answers' = [answers EXCEPT ![d] = NoAnswer]
    /\ UNCHANGED <<rows, receiver, emission, targets, attempt, wire, handled, unanswered>>

(* fetch rejects: the network fails, or the timeout aborts the request,    *)
(* also when the answer is just on its way.                                *)
Unanswered(d) ==
    /\ delivery[d] = "sending"
    /\ AfterFailure(d)
    /\ answers' = [answers EXCEPT ![d] = NoAnswer]
    /\ unanswered' = unanswered \cup {<<d, attempt[d]>>}
    /\ UNCHANGED <<rows, receiver, emission, targets, attempt, wire, handled>>

(* A bug to detect: the loop variable is not increased. *)
RetryUncounted(d) ==
    /\ delivery[d] = "waiting"
    /\ delivery' = [delivery EXCEPT ![d] = "sending"]
    /\ wire' = wire \cup {<<d, attempt[d]>>}
    /\ UNCHANGED <<rows, receiver, emission, targets, attempt, answers, handled,
                   unanswered>>

(* The backoff is over: the next attempt is posted. *)
Retry(d) ==
    /\ delivery[d] = "waiting"
    /\ attempt' = [attempt EXCEPT ![d] = @ + 1]
    /\ delivery' = [delivery EXCEPT ![d] = "sending"]
    /\ wire' = wire \cup {<<d, attempt[d] + 1>>}
    /\ UNCHANGED <<rows, receiver, emission, targets, answers, handled, unanswered>>

(* The sender's process stops: what was in its memory is gone; requests    *)
(* already sent may still arrive.                                          *)
Crash ==
    /\ emission' = [m \in Emissions |->
                      IF emission[m] \in {"reading", "listed"} THEN "done" ELSE emission[m]]
    /\ delivery' = [d \in Deliveries |->
                      IF delivery[d] \in {"sending", "waiting"} THEN "forgotten"
                      ELSE delivery[d]]
    /\ <<emission', delivery'>> # <<emission, delivery>>
    /\ answers' = [d \in Deliveries |-> NoAnswer]
    /\ UNCHANGED <<rows, receiver, targets, attempt, wire, handled, unanswered>>

DeliveryStep(d) == Answered(d) \/ Unanswered(d) \/ Retry(d)
EmissionStep(m) == listActiveByEvent(m) \/ ListFails(m) \/ BeginDeliveries(m)

Next ==
    \/ \E e \in Endpoints : create(e) \/ deactivate(e) \/ delete(e)
    \/ \E m \in Emissions : emit(m) \/ EmissionStep(m)
    \/ \E d \in Deliveries : DeliveryStep(d)
    \/ \E d \in Deliveries, n \in 1..MaxTries :
          Drop(d, n) \/ \E code \in HandlerAnswers \cup {400, 401, 403, 404} : Receive(d, n, code)
    \/ Crash

Spec == Init /\ [][Next]_vars

(* Timers fire and the database answers or rejects: emit and deliver go on.*)
(* Nothing is assumed of the network or the receiver.                      *)
Fairness ==
    /\ \A d \in Deliveries : WF_vars(DeliveryStep(d))
    /\ \A m \in Emissions : WF_vars(EmissionStep(m))

FairSpec == Spec /\ Fairness

-----------------------------------------------------------------------------
(* Type of the state. *)
TypeOK ==
    /\ rows \in [Endpoints -> {"absent", "active", "inactive"}]
    /\ receiver \in [Endpoints -> Receivers]
    /\ emission \in [Emissions -> {"idle", "reading", "listed", "done"}]
    /\ targets \in [Emissions -> SUBSET Endpoints]
    /\ delivery \in [Deliveries ->
                       {"none", "sending", "waiting", "delivered", "failed", "forgotten"}]
    /\ attempt \in [Deliveries -> 0..MaxTries]
    /\ wire \subseteq Deliveries \X (1..MaxTries)
    /\ answers \in [Deliveries -> {NoAnswer, 200, 400, 401, 403, 404, 422, 429, 500}]
    /\ handled \subseteq Deliveries \X (1..MaxTries) \X HandlerAnswers
    /\ unanswered \subseteq Deliveries \X (1..MaxTries)

(* Every delivery that is begun ends, whatever the receiver and the        *)
(* network do: the timeout bounds an attempt and maxRetries their number.  *)
EveryDeliveryEnds ==
    \A d \in Deliveries :
        (delivery[d] = "sending") ~> (delivery[d] \in {"delivered", "failed", "forgotten"})
-----------------------------------------------------------------------------
(* The inductive invariant behind the safety properties.                   *)

DeliveryConsistent(d) ==
    /\ delivery[d] = "none" <=> attempt[d] = 0
    /\ emission[d[1]] \in {"idle", "reading", "listed"} => delivery[d] = "none"
    /\ delivery[d] = "waiting" => attempt[d] < MaxTries
    /\ delivery[d] = "delivered" => <<d, attempt[d], 200>> \in handled
    /\ answers[d] # NoAnswer =>
          /\ delivery[d] = "sending"
          /\ <<d, attempt[d]>> \notin wire
          /\ answers[d] = 200 => <<d, attempt[d], 200>> \in handled

Past(d, n) == n < attempt[d] \/ (n = attempt[d] /\ delivery[d] = "waiting")

WireConsistent(d, n) ==
    <<d, n>> \in wire => n <= attempt[d] /\ (Past(d, n) => <<d, n>> \in unanswered)

HandledConsistent(d, n, code) ==
    <<d, n, code>> \in handled =>
        /\ n <= attempt[d] /\ <<d, n>> \notin wire
        /\ n = attempt[d] /\ delivery[d] = "sending" => answers[d] = code
        /\ Past(d, n) /\ code \in {200, 422} => <<d, n>> \in unanswered

IInv ==
    /\ TypeOK
    /\ \A d \in Deliveries : DeliveryConsistent(d)
    /\ \A d \in Deliveries, n \in 1..MaxTries : WireConsistent(d, n)
    /\ \A d \in Deliveries, n \in 1..MaxTries, code \in HandlerAnswers : HandledConsistent(d, n, code)
==============================================================================

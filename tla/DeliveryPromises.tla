-------------------------- MODULE DeliveryPromises ---------------------------
(***************************************************************************)
(* What emit and deliver promise of an event, whatever the network and the *)
(* receiver do, in terms of the variables of Webhooks.                     *)
(***************************************************************************)
EXTENDS Naturals

CONSTANTS Endpoints, Emissions,
          MaxTries,    \* maxRetries
          RowSecret    \* the column "secret" of an endpoint

VARIABLES
    receiver,   \* the receiver behind each endpoint (does not change)
    delivery,   \* where each call of deliver is
    attempt,    \* its loop variable
    handled,    \* history: the attempts that ran the handler, with its answer
    unanswered  \* history: the attempts aborted or failed without an answer

Deliveries == Emissions \X Endpoints

(* deliver reports success only of an event that the receiver's handler    *)
(* has processed, in the very attempt that was answered last.              *)
SuccessIsHandled ==
    \A d \in Deliveries : delivery[d] = "delivered" => <<d, attempt[d], 200>> \in handled

(* An event is processed again only after the sender missed the answer to  *)
(* the attempt that processed it: 2xx and most 4xx answers end the loop.   *)
RepeatsAreUnseen ==
    \A d \in Deliveries, i, j \in 1..MaxTries :
        /\ i < j
        /\ <<d, i, 200>> \in handled \/ <<d, i, 422>> \in handled
        /\ j <= attempt[d]
        => <<d, i>> \in unanswered

(* An emitted event is only ever processed behind a middleware that has    *)
(* the endpoint's secret and asks for no timestamp: the repository's own   *)
(* routers refuse what its own service sends, which has no "data" field.   *)
HandledIsSigned ==
    \A h \in handled :
        LET r == receiver[h[1][2]]
        IN  /\ r.secret = RowSecret[h[1][2]]
            /\ r.kind \in {"webhookAuth", "webhookVerify", "webhookAuthWithProvider"}
            /\ ~r.required
==============================================================================

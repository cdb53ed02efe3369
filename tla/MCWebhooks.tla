----------------------------- MODULE MCWebhooks ------------------------------
(* Webhooks for TLC: two emissions to one endpoint that wants both.  The   *)
(* receiver takes what is sent, knows another secret, wants a timestamp,   *)
(* or is the repository's own router, its timestamp check switched off.    *)
EXTENDS Webhooks, TLC

CONSTANTS e1, m1, m2, right, wrong

MCSubscribed == [e \in Endpoints |-> Emissions]
MCRowSecret  == [e \in Endpoints |-> right]
MCReceivers  ==
    {[kind |-> "webhookAuth", secret |-> right, required |-> FALSE],
     [kind |-> "webhookAuthWithProvider", secret |-> wrong, required |-> FALSE],
     [kind |-> "webhookVerify", secret |-> right, required |-> TRUE],
     [kind |-> "createWebhookRouter", secret |-> right, required |-> FALSE]}
==============================================================================

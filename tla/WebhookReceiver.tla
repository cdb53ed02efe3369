--------------------------- MODULE WebhookReceiver ---------------------------
(***************************************************************************)
(* What the four front ends of an incoming webhook decide about a request: *)
(* the middlewares webhookAuth, webhookVerify and webhookAuthWithProvider, *)
(* and the routers createWebhookRouter and createMultiTenantWebhookRouter. *)
(*                                                                         *)
(* A message is what the decisions look at: the header that carries the    *)
(* signature, whether it is in the form sha256=<hex>, the secret it was    *)
(* computed with (HMAC idealised: a signature verifies exactly when it was *)
(* made with the verifier's secret over the same body), the timestamp      *)
(* header, and the shape of the body.                                      *)
(***************************************************************************)
EXTENDS Integers, Sequences

CONSTANTS Secrets,   \* shared secrets
          MaxAge     \* maxAgeMs

ASSUME MaxAgeAssumption == MaxAge \in Nat

NoSecret      == "no secret"
ProviderFails == "the provider rejects"
Pass       == 0        \* the checks are passed
NoResponse == -1       \* the request is never answered
NoStamp  == -1          \* no timestamp header
BadStamp == -2          \* a timestamp header parseInt makes NaN of
FarStamp == -3          \* a number beyond the range of a Date

ASSUME SecretsAssumption == NoSecret \notin Secrets /\ ProviderFails \notin Secrets

Headers == {"none", "x-revora-signature", "another known header"}
Bodies  == {"absent", "oversized", "not json", "no data", "event"}

Messages(Stamps) ==
    [header : Headers, prefixed : BOOLEAN, secret : Secrets,
     stamp : Stamps \cup {NoStamp, BadStamp, FarStamp}, body : Bodies]

Middlewares == {"webhookAuth", "webhookVerify", "webhookAuthWithProvider"}
Routers     == {"createWebhookRouter", "createMultiTenantWebhookRouter"}
FrontEnds   == Middlewares \cup Routers

(* Where a provider is asked for the secret it may know none, or fail.     *)
HasProvider == {"webhookAuthWithProvider", "createMultiTenantWebhookRouter"}

(* A bug to detect: the comparison is left out. *)
VerifyFormatOnly(secret, m) == m.header # "none" /\ m.prefixed

verifyWebhookPayload(secret, m) ==
    /\ m.header # "none"
    /\ m.prefixed
    /\ m.secret = secret

(* age < 0 || age > maxAgeMs, negated. *)
InWindow(m, now) == m.stamp >= 0 /\ (now - m.stamp) \in 0..MaxAge

(* A bug to detect: the oldest stamp of the window is refused. *)
StampPassesLate(m, required, now) ==
    required => m.stamp >= 0 /\ now - m.stamp >= 0 /\ now - m.stamp < MaxAge

(* createWebhookRouter compares numbers. *)
StampPasses(m, required, now) == required => InWindow(m, now)

(* The middlewares compare through a Date: out of its range the age is NaN,*)
(* which is neither below 0 nor above the limit.                           *)
DatePasses(m, required, now) == m.stamp = FarStamp \/ StampPasses(m, required, now)

(* The early returns of a handler, in their order: the first check that    *)
(* fails gives the status, Pass is next().                                 *)
Check(fails, code) == [fails |-> fails, code |-> code]

FirstRefusal(checks) ==
    LET failed == {i \in DOMAIN checks : checks[i].fails}
    IN  IF failed = {} THEN Pass
        ELSE checks[CHOOSE i \in failed : \A j \in failed : i <= j].code

(* The middlewares find the signature under any of the known header names. *)
extractSignatureFromHeaders(m) == m.header # "none"

SignatureChecks(secret, m, required, now) ==
    << Check(m.body = "oversized", 403),
       Check(~extractSignatureFromHeaders(m), 401),
       Check(~verifyWebhookPayload(secret, m), 403),
       Check(~DatePasses(m, required, now), 403) >>

verifyWebhook(secret, m, required, now) ==
    FirstRefusal(SignatureChecks(secret, m, required, now))

webhookVerify(secret, m, required, now) ==
    IF m.body = "absent" THEN 400 ELSE verifyWebhook(secret, m, required, now)

webhookAuth(secret, m, required, now) ==
    FirstRefusal(<<Check(m.body = "absent", 401)>>
                 \o SignatureChecks(secret, m, required, now))

webhookAuthWithProvider(secret, m, required, now) ==
    FirstRefusal(<<Check(secret \in {NoSecret, ProviderFails}, 403),
                   Check(m.body = "absent", 401)>>
                 \o SignatureChecks(secret, m, required, now))

validateWebhookEvent(m) == m.body = "event"

(* raw() answers 413 and, for an absent body, leaves {}, which the HMAC    *)
(* refuses by throwing.  The routers look at one header name only.         *)
createWebhookRouter(secret, m, required, now) ==
    FirstRefusal(<<
        Check(m.body = "oversized", 413),
        Check(m.header # "x-revora-signature", 401),
        Check(m.prefixed /\ m.body = "absent", 500),
        Check(~verifyWebhookPayload(secret, m), 403),
        Check(~StampPasses(m, required, now), 403),
        Check(~validateWebhookEvent(m), 400) >>)

(* requireTimestamp and maxAgeMs are taken out of the options and not      *)
(* used.  The handler is async: what it throws is an unhandled rejection.  *)
createMultiTenantWebhookRouter(secret, m) ==
    FirstRefusal(<<
        Check(m.body = "oversized", 413),
        Check(secret = ProviderFails, 500),
        Check(secret = NoSecret, 404),
        Check(m.header # "x-revora-signature", 401),
        Check(m.prefixed /\ m.body = "absent", NoResponse),
        Check(~verifyWebhookPayload(secret, m), 403),
        Check(~validateWebhookEvent(m), 400) >>)

Verdict(kind, secret, m, required, now) ==
    CASE kind = "webhookAuth"   -> webhookAuth(secret, m, required, now)
      [] kind = "webhookVerify" -> webhookVerify(secret, m, required, now)
      [] kind = "webhookAuthWithProvider" ->
            webhookAuthWithProvider(secret, m, required, now)
      [] kind = "createWebhookRouter" -> createWebhookRouter(secret, m, required, now)
      [] kind = "createMultiTenantWebhookRouter" ->
            createMultiTenantWebhookRouter(secret, m)

-----------------------------------------------------------------------------
(* What the verification promises. *)

Recent(m, now) == m.stamp >= 0 /\ m.stamp \in (now - MaxAge)..now

(* Nothing gets through without a signature over a body, made with the     *)
(* secret the front end holds for the sender; a router's handler is given  *)
(* complete events.  A complete event so signed, under the default header  *)
(* and stamped within the limit, gets through everywhere.                  *)
PassesOnlySigned(kind, secret, m, required, now) ==
    LET passes == Verdict(kind, secret, m, required, now) = Pass
        signed == secret \in Secrets /\ m.secret = secret /\ m.prefixed
    IN  /\ passes => /\ signed /\ m.header # "none" /\ m.body \notin {"absent", "oversized"}
                     /\ kind \in Routers => m.body = "event"
        /\ signed /\ m.header = "x-revora-signature" /\ m.body = "event" /\ Recent(m, now)
              => passes

(* What each front end lets through, exactly: what its checks come to, the *)
(* tenants' router without a timestamp and the middlewares' NaN included.  *)
SignedFor(kind, secret, m) ==
    /\ m.prefixed /\ m.secret = secret
    /\ IF kind \in Middlewares
       THEN m.header # "none" /\ m.body \notin {"absent", "oversized"}
       ELSE m.header = "x-revora-signature" /\ m.body = "event"

LetsThrough(kind, secret, m, required, now) ==
    (Verdict(kind, secret, m, required, now) = Pass)
    <=> /\ SignedFor(kind, secret, m)
        /\ required /\ kind # "createMultiTenantWebhookRouter"
             => Recent(m, now) \/ (m.stamp = FarStamp /\ kind \in Middlewares)
==============================================================================

---------------------------- MODULE MCCalculations ----------------------------
(* Three questions without a database between their steps, in one run: a     *)
(* walk through a listing; the verdict of every front end on every webhook   *)
(* message; the identity every guard gives to every token.  A run is one of  *)
(* them: an input is chosen, and then computed on.                           *)
EXTENDS Paging, TokenChecks

CONSTANT Secrets, MaxAge, Now

ASSUME NowAssumption == Now \in Nat

Web == INSTANCE WebhookReceiver

ASSUME ReceiverAssumption ==
    MaxAge \in Nat /\ Web!NoSecret \notin Secrets /\ Web!ProviderFails \notin Secrets

VARIABLES question, verdict

mcvars == <<vars, question, verdict>>

MCListings == {"distributions", "revenue-reports", "payouts", "investments",
               "offering-investments", "offerings", "catalog", "library"}
MCCallers  == {"nobody", "wrong role", "no such offering", "not the owner", "entitled"}
MCFilters  == {NoFilter, [from |-> 2, to |-> 0], [from |-> 0, to |-> 1], [from |-> 2, to |-> 1]}
MCSizes    == {Number(1), Number(2), Number(4), Begins(1), Absent, Text, Empty, Number(-1)}

Idle == [kind |-> "walk"]

(* Every message, for every front end. *)
WebQuestions ==
    {q \in [kind : {"webhook"}, front : Web!FrontEnds,
            secret : Secrets \cup {Web!NoSecret, Web!ProviderFails},
            message : Web!Messages(0..Now + 1), required : BOOLEAN] :
        q.secret \in Secrets \/ q.front \in Web!HasProvider}

(* Every token with the session it belongs to, and the server's own tokens   *)
(* with every session and header.                                            *)
Around == (Now - 1)..(Now + 2)
Standing == [found |-> TRUE, user |-> "u", revoked |-> FALSE, expires |-> Now, hash |-> StoredHash]
OwnTokens == {issueToken(u, r, use, t) :
                 u \in Users, r \in {"investor", "another"}, use \in Uses, t \in 0..(Now + 2)}

TokenQuestions ==
    [kind : {"token"}, guard : Guards, session : {Standing},
     request : [header : {"bearer"}, issuer : {NoUser}, token : Tokens(Around)]]
    \cup
    [kind : {"token"}, guard : Guards, session : Sessions(Around),
     request : [header : {"none", "malformed", "bearer"}, issuer : {NoUser} \cup Users,
                token : OwnTokens]]

Nothing ==
    /\ order = <<>> /\ seen = <<>> /\ start = {} /\ grew = FALSE /\ shrank = FALSE
    /\ walk = [listing |-> "library", caller |-> "entitled", size |-> Absent,
               filter |-> NoFilter, at |-> 0, phase |-> "done", code |-> 200]

(* Callers who are let through are all alike: one of them walks.             *)
MCInit ==
    \/ /\ Init /\ question = Idle /\ verdict = <<>>
       /\ walk.caller = "entitled" \/ Answered # 200
       /\ walk.listing # "revenue-reports" => walk.filter.to = 0
    \/ Nothing /\ question \in WebQuestions \cup TokenQuestions /\ verdict = <<>>

Judge ==
    /\ question.kind = "webhook" /\ verdict = <<>>
    /\ verdict' = <<Web!Verdict(question.front, question.secret, question.message,
                                question.required, Now)>>
    /\ UNCHANGED <<vars, question>>

Admit ==
    /\ question.kind = "token" /\ verdict = <<>>
    /\ verdict' = <<Identify(question.guard, question.request, question.session, Now)>>
    /\ UNCHANGED <<vars, question>>

Walk == question = Idle /\ Next /\ UNCHANGED <<question, verdict>>

MCNext == Walk \/ Judge \/ Admit

MCSpec == MCInit /\ [][MCNext]_mcvars

(* Only a webhook signed for the endpoint reaches the handler, and a         *)
(* complete, recent one always does: PassesOnlySigned.                       *)
WebhooksAreSigned ==
    question.kind = "webhook" /\ verdict # <<>> =>
        Web!PassesOnlySigned(question.front, question.secret, question.message,
                             question.required, Now)

(* A guard that reads a token names only its bearer, while it is in force:   *)
(* TokensMeanTheirBearer.                                                    *)
TokensAreTheirBearers ==
    question.kind = "token" /\ verdict # <<>> =>
        TokensMeanTheirBearer(question.guard, question.request, question.session, Now)
===============================================================================

--------------------------- MODULE RequestPromises ---------------------------
(***************************************************************************)
(* What the idempotency middleware promises the clients that send a key,   *)
(* in terms of the variables of Idempotency.                               *)
(***************************************************************************)
CONSTANTS
    Requests,    \* HTTP requests that pass the middleware, each made once
    NoKey        \* the header is absent, or the method is not POST or PATCH

VARIABLES
    pc,          \* where each request is: see PCs of Idempotency
    key,         \* its key
    outcome,     \* how its own handler responded: see Outcomes
    answer,      \* what its client was sent: a request, whose response it was, or see Answers
    effects,     \* history: the requests whose handler has had its effect
    forgotten    \* history: the requests whose saved response expired or went with the process

(* Clients that send the same key are never sent two different successes,  *)
(* unless one of the two records has expired or gone with the process.     *)
RepliesAgree ==
    \A r, q \in Requests :
        /\ key[r] = key[q] /\ key[r] # NoKey
        /\ {answer[r], answer[q]} \subseteq Requests
        /\ answer[r] # answer[q]
        => \E x \in {answer[r], answer[q]} : x \in forgotten \/ outcome[x] = "serverError"

(* idempotency.usage.md promises logic that runs "once per key"; the ways  *)
(* in which it runs twice are these, and no other: one of the two answered *)
(* 5xx, or lost its client, or its record is gone.                         *)
Excused(r) ==
    outcome[r] = "serverError" \/ pc[r] \in {"orphan", "gone", "crashed"} \/ r \in forgotten

EffectTwiceIsExcused ==
    \A r, q \in effects :
        r # q /\ key[r] = key[q] /\ key[r] # NoKey => Excused(r) \/ Excused(q)
==============================================================================

---------------------------- MODULE ResetTokens -----------------------------
(***************************************************************************)
(* What the service of forgotten passwords promises, without transactions, *)
(* locks, connections or limits: a token is stored for the user who has    *)
(* the address it was asked for, sent there, and spent in the one step     *)
(* that changes that user's password.  A reset makes one change at most,   *)
(* and is confirmed only by making it; a refusal says nothing.             *)
(* PasswordReset implements it.                                            *)
(***************************************************************************)
CONSTANTS Tokens, Resets, Users, Stranger

VARIABLES
    asked,     \* the address each token is asked for
    token,     \* each token: none, stored, sent or spent
    changed,   \* the changes of passwords made
    told       \* what each reset was told: nothing, confirmed or refused

vars == <<asked, token, changed, told>>

Init ==
    /\ asked \in [Tokens -> Users \cup {Stranger}]
    /\ token = [t \in Tokens |-> "none"]
    /\ changed = {}
    /\ told = [r \in Resets |-> "nothing"]

Store(t) ==
    /\ token[t] = "none" /\ asked[t] \in Users
    /\ token' = [token EXCEPT ![t] = "stored"]
    /\ UNCHANGED <<asked, changed, told>>

Send(t) ==
    /\ token[t] = "stored"
    /\ token' = [token EXCEPT ![t] = "sent"]
    /\ UNCHANGED <<asked, changed, told>>

(* The answer may be lost, and the reset told that it was refused.         *)
Change(r, t) ==
    /\ told[r] = "nothing" /\ token[t] = "sent"
    /\ token' = [token EXCEPT ![t] = "spent"]
    /\ changed' = changed \cup {[reset |-> r, token |-> t, user |-> asked[t]]}
    /\ \E word \in {"confirmed", "refused"} : told' = [told EXCEPT ![r] = word]
    /\ UNCHANGED asked

Refuse(r) ==
    /\ told[r] = "nothing"
    /\ told' = [told EXCEPT ![r] = "refused"]
    /\ UNCHANGED <<asked, token, changed>>

Next ==
    \/ \E t \in Tokens : Store(t) \/ Send(t)
    \/ \E r \in Resets : Refuse(r) \/ \E t \in Tokens : Change(r, t)

Spec == Init /\ [][Next]_vars
=============================================================================

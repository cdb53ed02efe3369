----------------------------- MODULE MCFrontDoor -----------------------------
(* Requests of a verifier and another user, from one address. *)
EXTENDS Handlers, TLC

CONSTANTS v1, u1, ip1, r1, r2, r3, r4

Regular == {r1, r2, r3}

(* Three limiters that are given no store, the last of them per user, and  *)
(* one with a store of its own.                                            *)
Everyone ==
    [id |-> "everyone", limit |-> 3, windowMs |-> 2, perUser |-> FALSE, store |-> None]
AtLogin  == [Everyone EXCEPT !.id = "login", !.limit = 2]
PerUser  == [Everyone EXCEPT !.id = "user", !.limit = 1, !.perUser = TRUE]
Apart    == [AtLogin EXCEPT !.id = "apart", !.windowMs = 3, !.store = "own"]

MCBefore ==
    [route \in Routes |-> CASE route = "login"    -> <<Everyone, AtLogin>>
                            [] route = "validate" -> <<Apart>>
                            [] route = "me"       -> <<Everyone>>
                            [] OTHER              -> <<>>]
MCAfter == [route \in Routes |-> IF route = "patch" THEN <<PerUser>> ELSE <<>>]

ASSUME StoresAssumption == OneWindowPerStore /\ MountedOnce

MCDefault == [f \in {"email", "sms"} |-> f = "email"]

(* From the one address: by headers, with or without them; by a token,     *)
(* which may be another request's or the one's own and unknown; updates of *)
(* one field or of the other.                                              *)
Ask(route) == [route |-> route, ip |-> ip1, user |-> None, role |-> None, token |-> None, body |-> None]

MCCalls ==
    {Ask("validate")}
    \cup {[Ask(route) EXCEPT !.user = v1, !.role = "verifier"] : route \in ByHeader}
    \cup {[Ask("validate") EXCEPT !.user = u1, !.role = "verifier"],
          [Ask("validate") EXCEPT !.user = v1, !.role = "investor"]}
    \cup {[Ask(route) EXCEPT !.token = t] : route \in {"logout", "me"}, t \in Regular}
    \cup {[Ask("patch") EXCEPT !.token = t, !.body = b] :
              t \in Regular, b \in {[f \in {"email"} |-> FALSE], [f \in {"sms"} |-> TRUE]}}

(* Nobody has a row of preferences yet: the first update makes one.        *)
MCInit == Init /\ \A u \in Users : preferences[u] = None

(* The bound on requests: three of any kind, and a fourth when limiters    *)
(* and authentication have let in none of them.                            *)
MayCome(r) == r \in Regular \/ \A q \in Regular : status[q] \in {401, 429}

MCNext ==
    \/ DoorAlone \/ Restart
    \/ \E r \in Requests : MayCome(r) /\ RequestStep(r)

MCSpec == MCInit /\ [][MCNext]_vars

RequestSymmetry == Permutations(Regular)
==============================================================================

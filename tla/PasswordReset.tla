---------------------------- MODULE PasswordReset ----------------------------
(***************************************************************************)
(* Forgotten passwords: the two endpoints of routes/passwordReset.ts,      *)
(* PasswordResetService, and PasswordResetRateLimiter with its table.      *)
(*                                                                         *)
(* A step is one query, with the code up to the next one.  A query may     *)
(* fail, and then it has had no effect (COMMIT is the exception, below).   *)
(* The limiter is configured, as the routes do.  resetPassword runs in a   *)
(* transaction on a client of the pool: its SELECT ... FOR UPDATE and its  *)
(* UPDATE lock rows until the end of it, and what it writes is visible     *)
(* from its COMMIT on.                                                     *)
(***************************************************************************)
EXTENDS Naturals, FiniteSets

CONSTANTS
    Forgots,      \* requests to /forgot-password, each made once; also the tokens they create
    Resets,       \* requests to /reset-password, each made once
    Users,
    Stranger,     \* an e-mail address nobody is registered with
    Nobody,
    BlockedBefore,\* addresses blocked when the process starts: the table outlives it
    MaxRequests,  \* RateLimitConfig.maxRequests
    PoolSize,     \* clients of the connection pool
    LimiterFaults \* whether a query of the limiter may fail for no reason of its own

ASSUME DistinctAssumption ==
    /\ Stranger \notin Users
    /\ BlockedBefore \subseteq Users \cup {Stranger}
    /\ Nobody \notin Resets \cup Forgots
    /\ Forgots \cap (Users \cup Resets) = {}
ASSUME MaxRequestsAssumption == MaxRequests \in Nat \ {0}
ASSUME LimiterFaultsAssumption == LimiterFaults \in BOOLEAN
ASSUME PoolSizeAssumption == PoolSize \in Nat \ {0}

VARIABLES
    pc,         \* where each request is: see ForgotPCs and ResetPCs
    answer,     \* HTTP status answered, 0 before any
    email,      \* the address of a forgot-password request
    presented,  \* the token of a reset-password request
    limits,     \* table password_reset_rate_limits: identifier (the primary key) to row
    tokens,     \* table password_reset_tokens: from the tokens stored to their rows
    emailed,    \* the tokens sent by e-mail
    locks,      \* the transaction that holds the lock of a row, or Nobody
    clients,    \* the transactions that have a client of the pool
    applied,    \* history: the resets that were committed
    passed      \* history: the requests let past the limiter in the current window

limiterVars == <<limits, passed>>
resetVars == <<presented, locks, clients, applied>>
vars == <<pc, answer, email, presented, limits, tokens, emailed, locks, clients, applied, passed>>

ForgotPCs == {"unsent", "checkBlocked", "blockExpiry", "count", "block", "record", "findUser",
              "insertToken", "sendEmail", "done", "crashed"}
ResetPCs == {"unsent", "connect", "select", "rollback", "updateUser", "markUsed", "commit",
             "done", "crashed"}

Emails == Users \cup {Stranger}
Rows == Forgots \cup Users   \* the rows that are locked

InLimiter == {"checkBlocked", "blockExpiry", "count", "block", "record"}
InTransaction == {"select", "rollback", "updateUser", "markUsed", "commit"}

-----------------------------------------------------------------------------
Init ==
    /\ pc = [r \in Forgots \cup Resets |-> "unsent"]
    /\ answer = [r \in Forgots \cup Resets |-> 0]
    /\ email \in [Forgots -> Emails]
    /\ presented = [r \in Resets |-> Nobody]
    /\ limits = [i \in BlockedBefore |-> [recent |-> TRUE, blocked |-> TRUE]]
    /\ tokens = [t \in {} |-> Nobody]
    /\ emailed = {}
    /\ locks = [x \in Rows |-> Nobody]
    /\ clients = {}
    /\ applied = {}
    /\ passed = {}

GoTo(r, place) ==
    /\ pc' = [pc EXCEPT ![r] = place]
    /\ UNCHANGED answer

Answer(r, code) ==
    /\ pc' = [pc EXCEPT ![r] = "done"]
    /\ answer' = [answer EXCEPT ![r] = code]

-----------------------------------------------------------------------------
(* requestPasswordReset: the limiter first.                                *)

Ask(r) ==
    /\ pc[r] = "unsent"
    /\ GoTo(r, "checkBlocked")
    /\ UNCHANGED <<email, limiterVars, tokens, emailed, resetVars>>

(* The address is not one: answered like any other. *)
AskMalformed(r) ==
    /\ pc[r] = "unsent"
    /\ Answer(r, 200)
    /\ UNCHANGED <<email, limiterVars, tokens, emailed, resetVars>>

CheckIfBlocked(r) ==
    /\ pc[r] = "checkBlocked"
    /\ LET i == email[r]
       IN  GoTo(r, IF i \in DOMAIN limits /\ limits[i].blocked THEN "blockExpiry" ELSE "count")
    /\ UNCHANGED <<email, limiterVars, tokens, emailed, resetVars>>

(* The request goes on: the limiter allowed it, or rejected, or denied it. *)
(* The last is thrown inside the very try whose catch fails open.          *)
GoOn(r) ==
    /\ GoTo(r, "findUser")
    /\ passed' = passed \cup {r}

GetBlockExpiry(r) ==
    /\ pc[r] = "blockExpiry"
    /\ GoOn(r)
    /\ UNCHANGED <<email, limits, tokens, emailed, resetVars>>

(* How many rows of the identifier are in the window: the identifier is    *)
(* the primary key, so there is one at most.                               *)
RecentCount(i) == IF i \in DOMAIN limits /\ limits[i].recent THEN 1 ELSE 0

GetRequestCount(r) ==
    /\ pc[r] = "count"
    /\ GoTo(r, IF RecentCount(email[r]) >= MaxRequests THEN "block" ELSE "record")
    /\ UNCHANGED <<email, limiterVars, tokens, emailed, resetVars>>

Upsert(i, row) == [j \in DOMAIN limits \cup {i} |-> IF j = i THEN row ELSE limits[j]]

(* blockIdentifier: INSERT ... ON CONFLICT DO UPDATE. *)
BlockIdentifier(r) ==
    /\ pc[r] = "block"
    /\ limits' = Upsert(email[r], [recent |-> TRUE, blocked |-> TRUE])
    /\ GoOn(r)
    /\ UNCHANGED <<email, tokens, emailed, resetVars>>

(* recordRequest: an INSERT.                                               *)
RecordRequest(r) ==
    /\ pc[r] = "record"
    /\ email[r] \notin DOMAIN limits
    /\ limits' = Upsert(email[r], [recent |-> TRUE, blocked |-> FALSE])
    /\ GoOn(r)
    /\ UNCHANGED <<email, tokens, emailed, resetVars>>

(* The INSERT is refused, the identifier having its row, of this window or *)
(* an earlier one: the query rejects, and the service fails open.          *)
RecordRefused(r) ==
    /\ pc[r] = "record"
    /\ email[r] \in DOMAIN limits
    /\ GoOn(r)
    /\ UNCHANGED <<email, limits, tokens, emailed, resetVars>>

(* Any query of the limiter fails: failing open. *)
LimiterFails(r) ==
    /\ LimiterFaults
    /\ pc[r] \in InLimiter
    /\ GoOn(r)
    /\ UNCHANGED <<email, limits, tokens, emailed, resetVars>>

-----------------------------------------------------------------------------
(* requestPasswordReset, past the limiter. *)

FindUser(r) ==
    /\ pc[r] = "findUser"
    /\ IF email[r] \in Users THEN GoTo(r, "insertToken") ELSE Answer(r, 200)
    /\ UNCHANGED <<email, limiterVars, tokens, emailed, resetVars>>

InsertToken(r) ==
    /\ pc[r] = "insertToken"
    /\ tokens' = [t \in DOMAIN tokens \cup {r} |->
                     IF t = r THEN [user |-> email[r], used |-> FALSE, expired |-> FALSE]
                     ELSE tokens[t]]
    /\ GoTo(r, "sendEmail")
    /\ UNCHANGED <<email, limiterVars, emailed, resetVars>>

SendEmail(r) ==
    /\ pc[r] = "sendEmail"
    /\ emailed' = emailed \cup {r}
    /\ Answer(r, 200)
    /\ UNCHANGED <<email, limiterVars, tokens, resetVars>>

(* A query or the e-mail fails: logged, and answered like success. *)
ForgotFails(r) ==
    /\ pc[r] \in {"findUser", "insertToken", "sendEmail"}
    /\ Answer(r, 200)
    /\ UNCHANGED <<email, limiterVars, tokens, emailed, resetVars>>

-----------------------------------------------------------------------------
(* resetPassword. *)

(* With a token that was sent, or one that is in no row (Nobody). *)
Submit(r, t) ==
    /\ pc[r] = "unsent"
    /\ t \in emailed \cup {Nobody}
    /\ presented' = [presented EXCEPT ![r] = t]
    /\ GoTo(r, "connect")
    /\ UNCHANGED <<email, limiterVars, tokens, emailed, locks, clients, applied>>

(* No string, or a password too short. *)
SubmitInvalid(r) ==
    /\ pc[r] = "unsent"
    /\ Answer(r, 400)
    /\ UNCHANGED <<email, limiterVars, tokens, emailed, resetVars>>

(* db.connect waits for a client of the pool; BEGIN. *)
Connect(r) ==
    /\ pc[r] = "connect"
    /\ Cardinality(clients) < PoolSize
    /\ clients' = clients \cup {r}
    /\ GoTo(r, "select")
    /\ UNCHANGED <<email, limiterVars, tokens, emailed, presented, locks, applied>>

ConnectFails(r) ==
    /\ pc[r] = "connect"
    /\ Answer(r, 400)
    /\ UNCHANGED <<email, limiterVars, tokens, emailed, resetVars>>

Lock(x, r) ==
    /\ locks[x] = Nobody
    /\ locks' = [locks EXCEPT ![x] = r]

(* The token must be neither used nor expired. *)
Usable(t) == ~tokens[t].used /\ ~tokens[t].expired

(* A bug to detect: the row is read without FOR UPDATE. *)
SelectUnlocked(r) ==
    /\ pc[r] = "select"
    /\ GoTo(r, IF presented[r] \in DOMAIN tokens /\ Usable(presented[r])
               THEN "updateUser" ELSE "rollback")
    /\ UNCHANGED <<email, limiterVars, tokens, emailed, presented, locks, clients, applied>>

(* SELECT ... FOR UPDATE: waits for the lock, then reads the row as the    *)
(* last COMMIT left it.                                                    *)
Select(r) ==
    /\ pc[r] = "select"
    /\ \/ /\ presented[r] \notin DOMAIN tokens
          /\ GoTo(r, "rollback")
          /\ UNCHANGED locks
       \/ /\ presented[r] \in DOMAIN tokens
          /\ Lock(presented[r], r)
          /\ GoTo(r, IF Usable(presented[r]) THEN "updateUser" ELSE "rollback")
    /\ UNCHANGED <<email, limiterVars, tokens, emailed, presented, clients, applied>>

UserOf(r) == tokens[presented[r]].user

(* UPDATE users: waits for the lock of the user's row. *)
UpdateUser(r) ==
    /\ pc[r] = "updateUser"
    /\ Lock(UserOf(r), r)
    /\ GoTo(r, "markUsed")
    /\ UNCHANGED <<email, limiterVars, tokens, emailed, presented, clients, applied>>

(* UPDATE password_reset_tokens SET used_at. *)
MarkUsed(r) ==
    /\ pc[r] = "markUsed"
    /\ GoTo(r, "commit")
    /\ UNCHANGED <<email, limiterVars, tokens, emailed, resetVars>>

(* The transaction is over: its locks go, and finally its client.          *)
EndTransaction(r) ==
    /\ locks' = [x \in Rows |-> IF locks[x] = r THEN Nobody ELSE locks[x]]
    /\ clients' = clients \ {r}

(* A bug to detect: used_at is not among what is committed. *)
CommitUnmarked(r) ==
    /\ pc[r] = "commit"
    /\ applied' = applied \cup {r}
    /\ EndTransaction(r)
    /\ \E code \in {200, 400} : Answer(r, code)
    /\ UNCHANGED <<email, limiterVars, tokens, emailed, presented>>

(* COMMIT; when its acknowledgement is lost, the answer is 400 all the same. *)
Commit(r) ==
    /\ pc[r] = "commit"
    /\ tokens' = [tokens EXCEPT ![presented[r]].used = TRUE]
    /\ applied' = applied \cup {r}
    /\ EndTransaction(r)
    /\ \E code \in {200, 400} : Answer(r, code)
    /\ UNCHANGED <<email, limiterVars, emailed, presented>>

(* A bug to detect: no finally releases the client. *)
RollbackKeepsClient(r) ==
    /\ pc[r] = "rollback"
    /\ locks' = [x \in Rows |-> IF locks[x] = r THEN Nobody ELSE locks[x]]
    /\ Answer(r, 400)
    /\ UNCHANGED <<email, limiterVars, tokens, emailed, presented, clients, applied>>

(* A bug to detect: an unusable token is refused without a ROLLBACK. *)
RollbackSkipped(r) ==
    /\ pc[r] = "rollback"
    /\ clients' = clients \ {r}
    /\ Answer(r, 400)
    /\ UNCHANGED <<email, limiterVars, tokens, emailed, presented, locks, applied>>

(* ROLLBACK of a token that is in no row, used or expired.                 *)
Rollback(r) ==
    /\ pc[r] = "rollback"
    /\ EndTransaction(r)
    /\ Answer(r, 400)
    /\ UNCHANGED <<email, limiterVars, tokens, emailed, presented, applied>>

(* A statement fails (its lock may still have to be waited for): ROLLBACK. *)
StatementFails(r) ==
    /\ pc[r] \in InTransaction
    /\ EndTransaction(r)
    /\ Answer(r, 400)
    /\ UNCHANGED <<email, limiterVars, tokens, emailed, presented, applied>>

-----------------------------------------------------------------------------
(* Time, and the process. *)

(* The 60 minutes of the window, and those of a block, go by.              *)
WindowEnds(i) ==
    /\ i \in DOMAIN limits
    /\ limits' = [limits EXCEPT ![i].recent = FALSE]
    /\ passed' = {r \in passed : email[r] # i}
    /\ UNCHANGED <<pc, answer, email, tokens, emailed, resetVars>>

BlockEnds(i) ==
    /\ i \in DOMAIN limits
    /\ limits' = [limits EXCEPT ![i].blocked = FALSE]
    /\ UNCHANGED <<pc, answer, email, tokens, emailed, passed, resetVars>>

Expire(t) ==
    /\ t \in DOMAIN tokens
    /\ tokens' = [tokens EXCEPT ![t].expired = TRUE]
    /\ UNCHANGED <<pc, answer, email, emailed, limiterVars, resetVars>>

(* The process dies; the database rolls its transactions back. *)
Crash ==
    /\ \E r \in Forgots \cup Resets : pc[r] \notin {"unsent", "done", "crashed"}
    /\ pc' = [r \in Forgots \cup Resets |->
                 IF pc[r] \in {"unsent", "done"} THEN pc[r] ELSE "crashed"]
    /\ locks' = [x \in Rows |-> Nobody]
    /\ clients' = {}
    /\ UNCHANGED <<answer, email, limiterVars, tokens, emailed, presented, applied>>

Forgot(r) ==
    \/ CheckIfBlocked(r)
    \/ GetBlockExpiry(r)
    \/ GetRequestCount(r)
    \/ BlockIdentifier(r)
    \/ RecordRequest(r)
    \/ RecordRefused(r)
    \/ LimiterFails(r)
    \/ FindUser(r)
    \/ InsertToken(r)
    \/ SendEmail(r)
    \/ ForgotFails(r)

(* The steps a reset takes when nothing fails. *)
Proceed(r) ==
    \/ Connect(r)
    \/ Select(r)
    \/ UpdateUser(r)
    \/ MarkUsed(r)
    \/ Commit(r)
    \/ Rollback(r)

Reset(r) ==
    \/ Proceed(r)
    \/ ConnectFails(r)
    \/ StatementFails(r)

Next ==
    \/ \E r \in Forgots : Ask(r) \/ AskMalformed(r) \/ Forgot(r)
    \/ \E r \in Resets : SubmitInvalid(r) \/ Reset(r)
    \/ \E r \in Resets, t \in Forgots \cup {Nobody} : Submit(r, t)
    \/ \E i \in Emails : WindowEnds(i) \/ BlockEnds(i)
    \/ \E t \in Forgots : Expire(t)
    \/ Crash

Spec == Init /\ [][Next]_vars

(* The process runs and the database answers: a reset does not wait for a  *)
(* failure to be rid of a lock or to get a client.                         *)
FairSpec == Spec /\ \A r \in Resets : WF_vars(Proceed(r))

-----------------------------------------------------------------------------
(* Properties.                                                             *)

(* Every variable stays in its set. *)
TypeOK ==
    /\ pc \in [Forgots \cup Resets -> ForgotPCs \cup ResetPCs]
    /\ \A r \in Forgots : pc[r] \in ForgotPCs
    /\ \A r \in Resets : pc[r] \in ResetPCs
    /\ answer \in [Forgots \cup Resets -> {0, 200, 400}]
    /\ email \in [Forgots -> Emails]
    /\ presented \in [Resets -> Forgots \cup {Nobody}]
    /\ DOMAIN limits \subseteq Emails
    /\ limits \in [DOMAIN limits -> [recent : BOOLEAN, blocked : BOOLEAN]]
    /\ DOMAIN tokens \subseteq Forgots
    /\ tokens \in [DOMAIN tokens -> [user : Users, used : BOOLEAN, expired : BOOLEAN]]
    /\ emailed \subseteq DOMAIN tokens
    /\ locks \in [Rows -> Resets \cup {Nobody}]
    /\ clients \subseteq Resets
    /\ applied \subseteq Resets
    /\ passed \subseteq Forgots

(* A token changes a password once, however many requests present it at    *)
(* the same time, and whatever fails: resetPassword reads used_at under    *)
(* the lock that the transaction keeps until it has written it.            *)
TokenUsedOnce ==
    \A r, s \in applied : presented[r] = presented[s] => r = s

(* "Password updated" is answered of a reset that was committed, and that  *)
(* used its token up.                                                      *)
ConfirmedIsApplied ==
    \A r \in Resets :
        answer[r] = 200 => r \in applied /\ tokens[presented[r]].used

(* A password that has changed has used a token of its own user up, one    *)
(* that was sent to that user's address.                                   *)
AppliedWasAsked ==
    \A r \in applied :
        /\ presented[r] \in emailed
        /\ tokens[presented[r]].used
        /\ tokens[presented[r]].user = email[presented[r]]

(* resetPassword's finally: no client of the pool and no row's lock is     *)
(* kept by a request that is over, and two transactions never change the   *)
(* same user's row at a time.                                              *)
NothingLeaked ==
    /\ clients = {r \in Resets : pc[r] \in InTransaction}
    /\ \A x \in Rows : locks[x] # Nobody => pc[locks[x]] \in InTransaction
    /\ \A r, s \in Resets :
          (/\ {pc[r], pc[s]} \subseteq {"markUsed", "commit"}
           /\ UserOf(r) = UserOf(s)) => r = s

-----------------------------------------------------------------------------
(* What is left of the state without transactions, locks and limits.       *)

TokenState(t) ==
    IF t \notin DOMAIN tokens THEN "none"
    ELSE IF tokens[t].used THEN "spent"
    ELSE IF t \in emailed THEN "sent" ELSE "stored"

Word(code) == IF code = 0 THEN "nothing" ELSE IF code = 200 THEN "confirmed" ELSE "refused"

TokenStates == [t \in Forgots |-> TokenState(t)]
Changes     == {[reset |-> r, token |-> presented[r], user |-> UserOf(r)] : r \in applied}
Words       == [r \in Resets |-> Word(answer[r])]

Book == INSTANCE ResetTokens WITH
    Tokens <- Forgots, asked <- email, token <- TokenStates, changed <- Changes, told <- Words

(* Whatever the interleaving of the queries, their failures and the order  *)
(* of the locks, each step of the service is one of ResetTokens or changes *)
(* nothing there: the token is spent and the password changed in one step, *)
(* by a token that was sent and not spent, for the user who asked for it.  *)
ImplementsBook == Book!Spec

(* The inductive invariant behind the safety properties.                   *)
LocksConsistent ==
    /\ clients = {r \in Resets : pc[r] \in InTransaction}
    /\ \A x \in Rows : locks[x] # Nobody => pc[locks[x]] \in InTransaction
    /\ \A r \in Resets :
        /\ pc[r] \in {"updateUser", "markUsed", "commit"} =>
              /\ presented[r] \in DOMAIN tokens
              /\ locks[presented[r]] = r
              /\ ~tokens[presented[r]].used
        /\ pc[r] \in {"markUsed", "commit"} => locks[UserOf(r)] = r

TokensConsistent ==
    /\ \A t \in DOMAIN tokens : /\ pc[t] \in {"sendEmail", "done", "crashed"}
                                /\ tokens[t].user = email[t]
    /\ \A t \in Forgots : /\ pc[t] = "insertToken" => email[t] \in Users
                          /\ pc[t] = "sendEmail" => t \in DOMAIN tokens
    /\ \A r \in Resets : presented[r] \in emailed \cup {Nobody}

AppliedConsistent ==
    /\ \A r \in applied : /\ pc[r] = "done"
                          /\ presented[r] \in emailed
                          /\ tokens[presented[r]].used
    /\ \A r \in Resets : answer[r] = 200 => r \in applied

IInv ==
    /\ TypeOK
    /\ LocksConsistent
    /\ TokensConsistent
    /\ AppliedConsistent
    /\ TokenUsedOnce

(* Resets that wait for each other's locks, or for a client of the pool,   *)
(* are all answered (or the process dies).                                 *)
EveryResetSettles ==
    \A r \in Resets : pc[r] = "connect" ~> pc[r] \in {"done", "crashed"}

(* docs/password-reset-rate-controls.md: maxRequests is the "Maximum reset *)
(* requests per window".                                                   *)
WithinRateLimit ==
    \A i \in Emails : Cardinality({r \in passed : email[r] = i}) <= MaxRequests
=============================================================================

------------------------- MODULE PasswordResetProofs -------------------------
(***************************************************************************)
(* Theorems about PasswordReset, for every number of requests, users and   *)
(* clients of the pool.                                                    *)
(***************************************************************************)
EXTENDS PasswordReset, TLAPS

USE DEF ForgotPCs, ResetPCs, Emails, Rows, InTransaction

(* The rows of the two tables, and what is left of them after an UPDATE.   *)
TokenRow == [user : Users, used : BOOLEAN, expired : BOOLEAN]
LimitRow == [recent : BOOLEAN, blocked : BOOLEAN]

LEMMA TokenRowUpdate ==
    ASSUME NEW row \in TokenRow
    PROVE  /\ [row EXCEPT !.used = TRUE] \in TokenRow
           /\ [row EXCEPT !.expired = TRUE] \in TokenRow
  BY DEF TokenRow

LEMMA LimitRowUpdate ==
    ASSUME NEW row \in LimitRow
    PROVE  /\ [row EXCEPT !.recent = FALSE] \in LimitRow
           /\ [row EXCEPT !.blocked = FALSE] \in LimitRow
  BY DEF LimitRow

LEMMA InitIInv == Init => IInv
  BY DistinctAssumption
     DEF Init, IInv, TypeOK, LocksConsistent, TokensConsistent, AppliedConsistent, TokenUsedOnce

-----------------------------------------------------------------------------
(* A step of a forgot-password request that leaves the resets alone: it    *)
(* moves on, not back to before the INSERT of its token.                   *)
Beside(r, place) ==
    /\ pc[r] \notin {"done", "crashed"}
    /\ pc[r] = "sendEmail" => place = "done"
    /\ place = "insertToken" => email[r] \in Users
    /\ pc' = [pc EXCEPT ![r] = place]
    /\ \A s \in Resets : answer'[s] = answer[s]
    /\ UNCHANGED <<email, tokens, emailed, presented, locks, clients, applied>>

LEMMA BesideResets ==
    ASSUME IInv, TypeOK', NEW r \in Forgots, NEW place \in ForgotPCs \ {"sendEmail"},
           Beside(r, place)
    PROVE  IInv'
<1> USE DistinctAssumption DEF IInv, Beside
<1>1. LocksConsistent'
  BY DEF TypeOK, LocksConsistent, UserOf
<1>2. TokensConsistent'
  BY DEF TypeOK, TokensConsistent
<1>3. AppliedConsistent'
  BY DEF TypeOK, AppliedConsistent
<1>4. TokenUsedOnce'
  BY DEF TokenUsedOnce
<1> QED  BY <1>1, <1>2, <1>3, <1>4

(* The limiter, and what requestPasswordReset does beside the INSERT of    *)
(* its token and the e-mail.                                               *)
LEMMA LimiterIInv ==
    ASSUME IInv, NEW r \in Forgots,
           \/ Ask(r) \/ AskMalformed(r) \/ CheckIfBlocked(r) \/ GetBlockExpiry(r)
           \/ GetRequestCount(r) \/ BlockIdentifier(r) \/ RecordRequest(r)
           \/ RecordRefused(r) \/ LimiterFails(r) \/ FindUser(r) \/ ForgotFails(r)
    PROVE  IInv'
<1> USE DistinctAssumption
<1>1. CASE Ask(r)
  <2>1. TypeOK'
    BY <1>1 DEF IInv, TypeOK, limiterVars, resetVars, Ask, GoTo
  <2>2. Beside(r, "checkBlocked")
    BY <1>1 DEF Beside, IInv, TypeOK, limiterVars, resetVars, Ask, GoTo
  <2> QED  BY <2>1, <2>2, BesideResets
<1>2. CASE AskMalformed(r)
  <2>1. TypeOK'
    BY <1>2 DEF IInv, TypeOK, limiterVars, resetVars, AskMalformed, Answer
  <2>2. Beside(r, "done")
    BY <1>2 DEF Beside, IInv, TypeOK, limiterVars, resetVars, AskMalformed, Answer
  <2> QED  BY <2>1, <2>2, BesideResets
<1>3. CASE CheckIfBlocked(r)
  <2>1. TypeOK'
    BY <1>3 DEF IInv, TypeOK, limiterVars, resetVars, CheckIfBlocked, GoTo
  <2>2. Beside(r, "blockExpiry") \/ Beside(r, "count")
    BY <1>3 DEF Beside, IInv, TypeOK, limiterVars, resetVars, CheckIfBlocked, GoTo
  <2> QED  BY <2>1, <2>2, BesideResets
<1>4. CASE GetBlockExpiry(r)
  <2>1. TypeOK'
    BY <1>4 DEF IInv, TypeOK, limiterVars, resetVars, GetBlockExpiry, GoOn, GoTo
  <2>2. Beside(r, "findUser")
    BY <1>4 DEF Beside, IInv, TypeOK, limiterVars, resetVars, GetBlockExpiry, GoOn, GoTo
  <2> QED  BY <2>1, <2>2, BesideResets
<1>5. CASE GetRequestCount(r)
  <2>1. TypeOK'
    BY <1>5 DEF IInv, TypeOK, limiterVars, resetVars, GetRequestCount, GoTo
  <2>2. Beside(r, "block") \/ Beside(r, "record")
    BY <1>5 DEF Beside, IInv, TypeOK, limiterVars, resetVars, GetRequestCount, GoTo
  <2> QED  BY <2>1, <2>2, BesideResets
<1>6. CASE BlockIdentifier(r)
  <2>1. TypeOK'
    BY <1>6 DEF IInv, TypeOK, limiterVars, resetVars, BlockIdentifier, GoOn, Upsert, GoTo
  <2>2. Beside(r, "findUser")
    BY <1>6
       DEF Beside, IInv, TypeOK, limiterVars, resetVars, BlockIdentifier, GoOn, Upsert,
           GoTo
  <2> QED  BY <2>1, <2>2, BesideResets
<1>7. CASE RecordRequest(r)
  <2>1. TypeOK'
    BY <1>7 DEF IInv, TypeOK, limiterVars, resetVars, RecordRequest, GoOn, Upsert, GoTo
  <2>2. Beside(r, "findUser")
    BY <1>7 DEF Beside, IInv, TypeOK, limiterVars, resetVars, RecordRequest, GoOn, Upsert, GoTo
  <2> QED  BY <2>1, <2>2, BesideResets
<1>8. CASE RecordRefused(r)
  <2>1. TypeOK'
    BY <1>8 DEF IInv, TypeOK, limiterVars, resetVars, RecordRefused, GoOn, GoTo
  <2>2. Beside(r, "findUser")
    BY <1>8 DEF Beside, IInv, TypeOK, limiterVars, resetVars, RecordRefused, GoOn, GoTo
  <2> QED  BY <2>1, <2>2, BesideResets
<1>9. CASE LimiterFails(r)
  <2>1. TypeOK'
    BY <1>9 DEF IInv, TypeOK, limiterVars, resetVars, LimiterFails, GoOn, InLimiter, GoTo
  <2>2. Beside(r, "findUser")
    BY <1>9
       DEF Beside, IInv, TypeOK, limiterVars, resetVars, LimiterFails, GoOn, InLimiter, GoTo
  <2> QED  BY <2>1, <2>2, BesideResets
<1>10. CASE FindUser(r)
  <2>1. TypeOK'
    <3>1. CASE email[r] \in Users
      BY <1>10, <3>1 DEF IInv, TypeOK, limiterVars, resetVars, FindUser, GoTo
    <3>2. CASE email[r] \notin Users
      <4>1. Answer(r, 200) /\ UNCHANGED <<email, limiterVars, tokens, emailed, resetVars>>
        BY <1>10, <3>2 DEF FindUser
      <4> QED  BY <4>1 DEF IInv, TypeOK, limiterVars, resetVars, Answer
    <3> QED  BY <3>1, <3>2
  <2>2. Beside(r, "insertToken") \/ Beside(r, "done")
    BY <1>10 DEF Beside, IInv, TypeOK, limiterVars, resetVars, FindUser, GoTo, Answer
  <2> QED  BY <2>1, <2>2, BesideResets
<1>11. CASE ForgotFails(r)
  <2>1. TypeOK'
    BY <1>11 DEF IInv, TypeOK, limiterVars, resetVars, ForgotFails, Answer
  <2>2. Beside(r, "done")
    BY <1>11 DEF Beside, IInv, TypeOK, limiterVars, resetVars, ForgotFails, Answer
  <2> QED  BY <2>1, <2>2, BesideResets
<1> QED  BY <1>1, <1>2, <1>3, <1>4, <1>5, <1>6, <1>7, <1>8, <1>9, <1>10, <1>11

-----------------------------------------------------------------------------
(* The other steps: a lemma per action, a step of its proof per conjunct. *)
LEMMA InsertTokenIInv ==
    ASSUME IInv, NEW r \in Forgots, InsertToken(r)
    PROVE  IInv'
<1> USE DistinctAssumption DEF IInv, limiterVars, resetVars
<1>1. TypeOK'
  <2>1. tokens' \in [DOMAIN tokens \cup {r} -> TokenRow]
    <3>1. email[r] \in Users
      BY DEF TypeOK, TokensConsistent, InsertToken
    <3> QED  BY <3>1 DEF TypeOK, InsertToken, TokenRow
  <2> QED  BY <2>1 DEF TypeOK, InsertToken, GoTo, TokenRow
<1>2. LocksConsistent'
  BY <1>1 DEF TypeOK, LocksConsistent, TokensConsistent, UserOf, InsertToken, GoTo
<1>3. TokensConsistent'
  BY DEF TypeOK, TokensConsistent, LocksConsistent, InsertToken, GoTo
<1>4. AppliedConsistent'
  BY DEF TypeOK, AppliedConsistent, TokensConsistent, LocksConsistent, InsertToken, GoTo
<1>5. TokenUsedOnce'
  BY DEF TypeOK, TokenUsedOnce, AppliedConsistent, LocksConsistent, InsertToken, GoTo
<1> QED  BY <1>1, <1>2, <1>3, <1>4, <1>5

LEMMA SendEmailIInv ==
    ASSUME IInv, NEW r \in Forgots, SendEmail(r)
    PROVE  IInv'
<1> USE DistinctAssumption DEF IInv, limiterVars, resetVars
<1>1. TypeOK'
  BY DEF TypeOK, TokensConsistent, SendEmail, Answer
<1>2. LocksConsistent'
  BY <1>1 DEF TypeOK, LocksConsistent, TokensConsistent, UserOf, SendEmail, Answer
<1>3. TokensConsistent'
  BY DEF TypeOK, TokensConsistent, LocksConsistent, SendEmail, Answer
<1>4. AppliedConsistent'
  BY DEF TypeOK, AppliedConsistent, TokensConsistent, LocksConsistent, SendEmail, Answer
<1>5. TokenUsedOnce'
  BY DEF TypeOK, TokenUsedOnce, AppliedConsistent, LocksConsistent, SendEmail, Answer
<1> QED  BY <1>1, <1>2, <1>3, <1>4, <1>5

LEMMA SubmitIInv ==
    ASSUME IInv, NEW r \in Resets, NEW t \in Forgots \cup {Nobody}, Submit(r, t)
    PROVE  IInv'
<1> USE DistinctAssumption DEF IInv, limiterVars, resetVars
<1>1. TypeOK'
  BY DEF TypeOK, Submit, GoTo
<1>2. LocksConsistent'
  BY <1>1 DEF TypeOK, LocksConsistent, TokensConsistent, UserOf, Submit, GoTo
<1>3. TokensConsistent'
  BY DEF TypeOK, TokensConsistent, LocksConsistent, Submit, GoTo
<1>4. AppliedConsistent'
  BY DEF TypeOK, AppliedConsistent, TokensConsistent, LocksConsistent, Submit, GoTo
<1>5. TokenUsedOnce'
  BY DEF TypeOK, TokenUsedOnce, AppliedConsistent, LocksConsistent, Submit, GoTo
<1> QED  BY <1>1, <1>2, <1>3, <1>4, <1>5

LEMMA SubmitInvalidIInv ==
    ASSUME IInv, NEW r \in Resets, SubmitInvalid(r)
    PROVE  IInv'
<1> USE DistinctAssumption DEF IInv, limiterVars, resetVars
<1>1. TypeOK'
  BY DEF TypeOK, SubmitInvalid, Answer
<1>2. LocksConsistent'
  BY <1>1 DEF TypeOK, LocksConsistent, TokensConsistent, UserOf, SubmitInvalid, Answer
<1>3. TokensConsistent'
  BY DEF TypeOK, TokensConsistent, LocksConsistent, SubmitInvalid, Answer
<1>4. AppliedConsistent'
  BY DEF TypeOK, AppliedConsistent, TokensConsistent, LocksConsistent, SubmitInvalid, Answer
<1>5. TokenUsedOnce'
  BY DEF TypeOK, TokenUsedOnce, AppliedConsistent, LocksConsistent, SubmitInvalid, Answer
<1> QED  BY <1>1, <1>2, <1>3, <1>4, <1>5

LEMMA ConnectIInv ==
    ASSUME IInv, NEW r \in Resets, Connect(r)
    PROVE  IInv'
<1> USE DistinctAssumption DEF IInv, limiterVars, resetVars
<1>1. TypeOK'
  BY DEF TypeOK, Connect, GoTo
<1>2. LocksConsistent'
  BY <1>1 DEF TypeOK, LocksConsistent, TokensConsistent, UserOf, Connect, GoTo
<1>3. TokensConsistent'
  BY DEF TypeOK, TokensConsistent, LocksConsistent, Connect, GoTo
<1>4. AppliedConsistent'
  BY DEF TypeOK, AppliedConsistent, TokensConsistent, LocksConsistent, Connect, GoTo
<1>5. TokenUsedOnce'
  BY DEF TypeOK, TokenUsedOnce, AppliedConsistent, LocksConsistent, Connect, GoTo
<1> QED  BY <1>1, <1>2, <1>3, <1>4, <1>5

LEMMA ConnectFailsIInv ==
    ASSUME IInv, NEW r \in Resets, ConnectFails(r)
    PROVE  IInv'
<1> USE DistinctAssumption DEF IInv, limiterVars, resetVars
<1>1. TypeOK'
  BY DEF TypeOK, ConnectFails, Answer
<1>2. LocksConsistent'
  BY <1>1 DEF TypeOK, LocksConsistent, TokensConsistent, UserOf, ConnectFails, Answer
<1>3. TokensConsistent'
  BY DEF TypeOK, TokensConsistent, LocksConsistent, ConnectFails, Answer
<1>4. AppliedConsistent'
  BY DEF TypeOK, AppliedConsistent, TokensConsistent, LocksConsistent, ConnectFails, Answer
<1>5. TokenUsedOnce'
  BY DEF TypeOK, TokenUsedOnce, AppliedConsistent, LocksConsistent, ConnectFails, Answer
<1> QED  BY <1>1, <1>2, <1>3, <1>4, <1>5

LEMMA SelectIInv ==
    ASSUME IInv, NEW r \in Resets, Select(r)
    PROVE  IInv'
<1> USE DistinctAssumption DEF IInv, limiterVars, resetVars
<1>1. TypeOK'
  BY DEF TypeOK, Select, Lock, Usable, GoTo
<1>2. LocksConsistent'
  BY <1>1 DEF TypeOK, LocksConsistent, TokensConsistent, UserOf, Select, Lock, Usable, GoTo
<1>3. TokensConsistent'
  BY DEF TypeOK, TokensConsistent, LocksConsistent, Select, Lock, Usable, GoTo
<1>4. AppliedConsistent'
  BY DEF TypeOK, AppliedConsistent, TokensConsistent, LocksConsistent, Select, Lock, Usable,
         GoTo
<1>5. TokenUsedOnce'
  BY DEF TypeOK, TokenUsedOnce, AppliedConsistent, LocksConsistent, Select, Lock, Usable, GoTo
<1> QED  BY <1>1, <1>2, <1>3, <1>4, <1>5

LEMMA UpdateUserIInv ==
    ASSUME IInv, NEW r \in Resets, UpdateUser(r)
    PROVE  IInv'
<1> USE DistinctAssumption DEF IInv, limiterVars, resetVars
<1>1. TypeOK'
  BY DEF TypeOK, UpdateUser, Lock, GoTo
<1>2. LocksConsistent'
  BY <1>1 DEF TypeOK, LocksConsistent, TokensConsistent, UserOf, UpdateUser, Lock, GoTo
<1>3. TokensConsistent'
  BY DEF TypeOK, TokensConsistent, LocksConsistent, UpdateUser, Lock, GoTo
<1>4. AppliedConsistent'
  BY DEF TypeOK, AppliedConsistent, TokensConsistent, LocksConsistent, UpdateUser, Lock, GoTo
<1>5. TokenUsedOnce'
  BY DEF TypeOK, TokenUsedOnce, AppliedConsistent, LocksConsistent, UpdateUser, Lock, GoTo
<1> QED  BY <1>1, <1>2, <1>3, <1>4, <1>5

LEMMA MarkUsedIInv ==
    ASSUME IInv, NEW r \in Resets, MarkUsed(r)
    PROVE  IInv'
<1> USE DistinctAssumption DEF IInv, limiterVars, resetVars
<1>1. TypeOK'
  BY DEF TypeOK, MarkUsed, GoTo
<1>2. LocksConsistent'
  BY <1>1 DEF TypeOK, LocksConsistent, TokensConsistent, UserOf, MarkUsed, GoTo
<1>3. TokensConsistent'
  BY DEF TypeOK, TokensConsistent, LocksConsistent, MarkUsed, GoTo
<1>4. AppliedConsistent'
  BY DEF TypeOK, AppliedConsistent, TokensConsistent, LocksConsistent, MarkUsed, GoTo
<1>5. TokenUsedOnce'
  BY DEF TypeOK, TokenUsedOnce, AppliedConsistent, LocksConsistent, MarkUsed, GoTo
<1> QED  BY <1>1, <1>2, <1>3, <1>4, <1>5

LEMMA CommitIInv ==
    ASSUME IInv, NEW r \in Resets, Commit(r)
    PROVE  IInv'
<1> USE DistinctAssumption DEF IInv, limiterVars, resetVars
<1>1. TypeOK'
  <2>1. tokens \in [DOMAIN tokens -> TokenRow]
    BY DEF TypeOK, TokenRow
  <2>2. tokens' \in [DOMAIN tokens -> TokenRow]
    <3>1. presented[r] \in DOMAIN tokens
      BY DEF LocksConsistent, Commit
    <3>2. tokens' = [tokens EXCEPT ![presented[r]].used = TRUE]
      BY DEF Commit
    <3> QED  BY <2>1, <3>1, <3>2, TokenRowUpdate
  <2> QED  BY <2>2 DEF TypeOK, Commit, EndTransaction, Answer, TokenRow
<1>2. LocksConsistent'
  BY <1>1 DEF TypeOK, LocksConsistent, TokensConsistent, UserOf, Commit, EndTransaction, Answer
<1>3. TokensConsistent'
  BY DEF TypeOK, TokensConsistent, LocksConsistent, Commit, EndTransaction, Answer
<1>4. AppliedConsistent'
  BY DEF TypeOK, AppliedConsistent, TokensConsistent, LocksConsistent, Commit, EndTransaction,
         Answer
<1>5. TokenUsedOnce'
  BY DEF TypeOK, TokenUsedOnce, AppliedConsistent, LocksConsistent, Commit, EndTransaction,
         Answer
<1> QED  BY <1>1, <1>2, <1>3, <1>4, <1>5

LEMMA RollbackIInv ==
    ASSUME IInv, NEW r \in Resets, Rollback(r)
    PROVE  IInv'
<1> USE DistinctAssumption DEF IInv, limiterVars, resetVars
<1>1. TypeOK'
  BY DEF TypeOK, Rollback, EndTransaction, Answer
<1>2. LocksConsistent'
  BY <1>1
     DEF TypeOK, LocksConsistent, TokensConsistent, UserOf, Rollback, EndTransaction, Answer
<1>3. TokensConsistent'
  BY DEF TypeOK, TokensConsistent, LocksConsistent, Rollback, EndTransaction, Answer
<1>4. AppliedConsistent'
  BY DEF TypeOK, AppliedConsistent, TokensConsistent, LocksConsistent, Rollback, EndTransaction,
         Answer
<1>5. TokenUsedOnce'
  BY DEF TypeOK, TokenUsedOnce, AppliedConsistent, LocksConsistent, Rollback, EndTransaction,
         Answer
<1> QED  BY <1>1, <1>2, <1>3, <1>4, <1>5

LEMMA StatementFailsIInv ==
    ASSUME IInv, NEW r \in Resets, StatementFails(r)
    PROVE  IInv'
<1> USE DistinctAssumption DEF IInv, limiterVars, resetVars
<1>1. TypeOK'
  BY DEF TypeOK, StatementFails, EndTransaction, Answer
<1>2. LocksConsistent'
  BY <1>1
     DEF TypeOK, LocksConsistent, TokensConsistent, UserOf, StatementFails, EndTransaction,
         Answer
<1>3. TokensConsistent'
  BY DEF TypeOK, TokensConsistent, LocksConsistent, StatementFails, EndTransaction, Answer
<1>4. AppliedConsistent'
  BY DEF TypeOK, AppliedConsistent, TokensConsistent, LocksConsistent, StatementFails,
         EndTransaction, Answer
<1>5. TokenUsedOnce'
  BY DEF TypeOK, TokenUsedOnce, AppliedConsistent, LocksConsistent, StatementFails,
         EndTransaction, Answer
<1> QED  BY <1>1, <1>2, <1>3, <1>4, <1>5

LEMMA WindowEndsIInv ==
    ASSUME IInv, NEW i \in Emails, WindowEnds(i)
    PROVE  IInv'
<1> USE DistinctAssumption DEF IInv, limiterVars, resetVars
<1>1. TypeOK'
  <2>1. limits \in [DOMAIN limits -> LimitRow]
    BY DEF TypeOK, LimitRow
  <2>2. limits' \in [DOMAIN limits -> LimitRow]
    BY <2>1, LimitRowUpdate DEF TypeOK, WindowEnds
  <2> QED  BY <2>2 DEF TypeOK, WindowEnds, LimitRow
<1>2. LocksConsistent'
  BY <1>1 DEF TypeOK, LocksConsistent, TokensConsistent, UserOf, WindowEnds
<1>3. TokensConsistent'
  BY DEF TypeOK, TokensConsistent, LocksConsistent, WindowEnds
<1>4. AppliedConsistent'
  BY DEF TypeOK, AppliedConsistent, TokensConsistent, LocksConsistent, WindowEnds
<1>5. TokenUsedOnce'
  BY DEF TypeOK, TokenUsedOnce, AppliedConsistent, LocksConsistent, WindowEnds
<1> QED  BY <1>1, <1>2, <1>3, <1>4, <1>5

LEMMA BlockEndsIInv ==
    ASSUME IInv, NEW i \in Emails, BlockEnds(i)
    PROVE  IInv'
<1> USE DistinctAssumption DEF IInv, limiterVars, resetVars
<1>1. TypeOK'
  <2>1. limits \in [DOMAIN limits -> LimitRow]
    BY DEF TypeOK, LimitRow
  <2>2. limits' \in [DOMAIN limits -> LimitRow]
    BY <2>1, LimitRowUpdate DEF TypeOK, BlockEnds
  <2> QED  BY <2>2 DEF TypeOK, BlockEnds, LimitRow
<1>2. LocksConsistent'
  BY <1>1 DEF TypeOK, LocksConsistent, TokensConsistent, UserOf, BlockEnds
<1>3. TokensConsistent'
  BY DEF TypeOK, TokensConsistent, LocksConsistent, BlockEnds
<1>4. AppliedConsistent'
  BY DEF TypeOK, AppliedConsistent, TokensConsistent, LocksConsistent, BlockEnds
<1>5. TokenUsedOnce'
  BY DEF TypeOK, TokenUsedOnce, AppliedConsistent, LocksConsistent, BlockEnds
<1> QED  BY <1>1, <1>2, <1>3, <1>4, <1>5

LEMMA ExpireIInv ==
    ASSUME IInv, NEW t \in Forgots, Expire(t)
    PROVE  IInv'
<1> USE DistinctAssumption DEF IInv, limiterVars, resetVars
<1>1. TypeOK'
  <2>1. tokens \in [DOMAIN tokens -> TokenRow]
    BY DEF TypeOK, TokenRow
  <2>2. tokens' \in [DOMAIN tokens -> TokenRow]
    BY <2>1, TokenRowUpdate DEF TypeOK, LocksConsistent, Expire
  <2> QED  BY <2>2 DEF TypeOK, Expire, TokenRow
<1>2. LocksConsistent'
  BY <1>1 DEF TypeOK, LocksConsistent, TokensConsistent, UserOf, Expire
<1>3. TokensConsistent'
  BY DEF TypeOK, TokensConsistent, LocksConsistent, Expire
<1>4. AppliedConsistent'
  BY DEF TypeOK, AppliedConsistent, TokensConsistent, LocksConsistent, Expire
<1>5. TokenUsedOnce'
  BY DEF TypeOK, TokenUsedOnce, AppliedConsistent, LocksConsistent, Expire
<1> QED  BY <1>1, <1>2, <1>3, <1>4, <1>5

LEMMA CrashIInv ==
    ASSUME IInv, Crash
    PROVE  IInv'
<1> USE DistinctAssumption DEF IInv, limiterVars, resetVars
<1>1. TypeOK'
  BY DEF TypeOK, Crash
<1>2. LocksConsistent'
  BY <1>1 DEF TypeOK, LocksConsistent, TokensConsistent, UserOf, Crash
<1>3. TokensConsistent'
  BY DEF TypeOK, TokensConsistent, LocksConsistent, Crash
<1>4. AppliedConsistent'
  BY DEF TypeOK, AppliedConsistent, TokensConsistent, LocksConsistent, Crash
<1>5. TokenUsedOnce'
  BY DEF TypeOK, TokenUsedOnce, AppliedConsistent, LocksConsistent, Crash
<1> QED  BY <1>1, <1>2, <1>3, <1>4, <1>5

LEMMA NextIInv == IInv /\ [Next]_vars => IInv'
<1> SUFFICES ASSUME IInv, [Next]_vars PROVE IInv'
  OBVIOUS
<1>1. ASSUME NEW r \in Forgots, Ask(r) \/ AskMalformed(r) \/ Forgot(r) PROVE IInv'
  BY <1>1, LimiterIInv, InsertTokenIInv, SendEmailIInv DEF Forgot
<1>2. ASSUME NEW r \in Resets, SubmitInvalid(r) \/ Reset(r) PROVE IInv'
  BY <1>2, SubmitInvalidIInv, ConnectIInv, ConnectFailsIInv, SelectIInv, UpdateUserIInv,
     MarkUsedIInv, CommitIInv, RollbackIInv, StatementFailsIInv DEF Reset, Proceed
<1>3. ASSUME NEW r \in Resets, NEW t \in Forgots \cup {Nobody}, Submit(r, t) PROVE IInv'
  BY <1>3, SubmitIInv
<1>4. ASSUME NEW i \in Emails, WindowEnds(i) \/ BlockEnds(i) PROVE IInv'
  BY <1>4, WindowEndsIInv, BlockEndsIInv
<1>5. ASSUME NEW t \in Forgots, Expire(t) PROVE IInv'
  BY <1>5, ExpireIInv
<1>6. CASE Crash
  BY <1>6, CrashIInv
<1>7. CASE UNCHANGED vars
  BY <1>7 DEF vars, IInv, TypeOK, LocksConsistent, TokensConsistent, AppliedConsistent,
              TokenUsedOnce, UserOf
<1> QED  BY <1>1, <1>2, <1>3, <1>4, <1>5, <1>6, <1>7 DEF Next

(* The inductive invariant holds of every state the endpoints reach. *)
THEOREM Invariance == Spec => []IInv
<1> QED  BY InitIInv, NextIInv, PTL DEF Spec

-----------------------------------------------------------------------------
(* The endpoints and the tables keep every variable in its set. *)
THEOREM TypeCorrect == Spec => []TypeOK
<1>1. IInv => TypeOK
  BY DEF IInv
<1> QED  BY <1>1, Invariance, PTL

(* A token changes a password once, whatever the number of requests that   *)
(* present it and of the clients of the pool.                              *)
THEOREM TokensAreSingleUse == Spec => []TokenUsedOnce
<1>1. IInv => TokenUsedOnce
  BY DEF IInv
<1> QED  BY <1>1, Invariance, PTL

(* What is answered 200 was committed. *)
THEOREM ConfirmationsAreTrue == Spec => []ConfirmedIsApplied
<1>1. IInv => ConfirmedIsApplied
  BY DEF IInv, AppliedConsistent, ConfirmedIsApplied
<1> QED  BY <1>1, Invariance, PTL

(* A password changes only by a token that was sent to its user's address. *)
THEOREM ChangesWereAsked == Spec => []AppliedWasAsked
<1>1. IInv => AppliedWasAsked
  BY DEF IInv, TypeOK, TokensConsistent, AppliedConsistent, AppliedWasAsked
<1> QED  BY <1>1, Invariance, PTL

(* No lock and no client of the pool outlives its transaction, and no two  *)
(* transactions have changed the row of the same user.                     *)
THEOREM NothingStaysBehind == Spec => []NothingLeaked
<1>1. ASSUME IInv PROVE NothingLeaked
  <2>1. ASSUME NEW r \in Resets, NEW s \in Resets,
               {pc[r], pc[s]} \subseteq {"markUsed", "commit"}, UserOf(r) = UserOf(s)
        PROVE  r = s
    BY <1>1, <2>1 DEF IInv, LocksConsistent
  <2> QED  BY <1>1, <2>1 DEF IInv, LocksConsistent, NothingLeaked
<1> QED  BY <1>1, Invariance, PTL

-----------------------------------------------------------------------------
(* The refinement of ResetTokens.                                          *)

(* A reset that was answered is over: it is told nothing more.             *)
AnsweredIsOver == \A r \in Resets : answer[r] # 0 => pc[r] = "done"

LEMMA AnsweredStaysOver ==
    ASSUME IInv, AnsweredIsOver, [Next]_vars
    PROVE  AnsweredIsOver'
<1> USE DistinctAssumption DEF AnsweredIsOver
<1>0. pc \in [Forgots \cup Resets -> ForgotPCs \cup ResetPCs]
      /\ answer \in [Forgots \cup Resets -> {0, 200, 400}]
  BY DEF IInv, TypeOK
<1>1. ASSUME NEW r \in Forgots \cup Resets, NEW place, GoTo(r, place), pc[r] # "done"
      PROVE  AnsweredIsOver'
  BY <1>0, <1>1 DEF GoTo
<1>2. ASSUME NEW r \in Forgots \cup Resets, NEW code, Answer(r, code)
      PROVE  AnsweredIsOver'
  BY <1>0, <1>2 DEF Answer
<1>3. ASSUME NEW r \in Forgots, Ask(r) \/ AskMalformed(r) \/ Forgot(r) PROVE AnsweredIsOver'
  BY <1>1, <1>2, <1>3 DEF Forgot, Ask, AskMalformed, CheckIfBlocked, GetBlockExpiry,
     GetRequestCount, BlockIdentifier, RecordRequest, RecordRefused, LimiterFails, GoOn,
     InLimiter, FindUser, InsertToken, SendEmail, ForgotFails
<1>4. ASSUME NEW r \in Resets, SubmitInvalid(r) \/ Reset(r) PROVE AnsweredIsOver'
  BY <1>1, <1>2, <1>4 DEF SubmitInvalid, Reset, Proceed, Connect, Select, UpdateUser,
     MarkUsed, Commit, Rollback, ConnectFails, StatementFails
<1>5. ASSUME NEW r \in Resets, NEW t \in Forgots \cup {Nobody}, Submit(r, t)
      PROVE  AnsweredIsOver'
  BY <1>1, <1>5 DEF Submit
<1>6. CASE Crash
  BY <1>0, <1>6 DEF Crash
<1>7. CASE \/ UNCHANGED vars
           \/ \E i \in Emails : WindowEnds(i) \/ BlockEnds(i)
           \/ \E t \in Forgots : Expire(t)
  BY <1>7 DEF vars, WindowEnds, BlockEnds, Expire
<1> QED  BY <1>3, <1>4, <1>5, <1>6, <1>7 DEF Next

(* What the mapping looks at.                                              *)
Seen == <<email, tokens, emailed, applied>>

(* A step that writes no token, ends no reset and sends nothing changes    *)
(* nothing of what ResetTokens speaks of.                                  *)
LEMMA QuietStep ==
    ASSUME IInv, UNCHANGED Seen,
           \A r \in applied : presented'[r] = presented[r],
           \A r \in Resets : answer'[r] = answer[r]
    PROVE  UNCHANGED Book!vars
<1>1. TokenStates' = TokenStates
  BY DEF Seen, TokenStates, TokenState
<1>2. Changes' = Changes
  BY DEF Seen, Changes, UserOf
<1>3. Words' = Words
  BY DEF Words
<1> QED  BY <1>1, <1>2, <1>3 DEF Seen, Book!vars

(* The changes stay the same when no reset is committed and no row of a    *)
(* token that was sent gets another user.                                  *)
LEMMA ChangesStay ==
    ASSUME IInv, applied' = applied, presented' = presented,
           \A t \in DOMAIN tokens : tokens'[t].user = tokens[t].user
    PROVE  Changes' = Changes
<1>1. \A r \in applied : presented[r] \in DOMAIN tokens
  BY DEF IInv, TypeOK, AppliedConsistent
<1>2. \A r \in applied : UserOf(r)' = UserOf(r)
  BY <1>1 DEF UserOf
<1> QED  BY <1>2 DEF Changes

(* The requests for a link, the INSERT and the e-mail excepted.            *)
LEMMA ForgotQuiet ==
    ASSUME IInv, NEW r \in Forgots,
           \/ Ask(r) \/ AskMalformed(r) \/ CheckIfBlocked(r) \/ GetBlockExpiry(r)
           \/ GetRequestCount(r) \/ BlockIdentifier(r) \/ RecordRequest(r)
           \/ RecordRefused(r) \/ LimiterFails(r) \/ FindUser(r) \/ ForgotFails(r)
    PROVE  UNCHANGED Book!vars
<1>1. UNCHANGED <<Seen, presented>>
  BY DEF Seen, resetVars, limiterVars, Ask, AskMalformed, CheckIfBlocked, GetBlockExpiry,
     GetRequestCount, BlockIdentifier, RecordRequest, RecordRefused, LimiterFails, FindUser,
     ForgotFails
<1>2. answer' = answer \/ answer' = [answer EXCEPT ![r] = 200]
  BY DEF Ask, AskMalformed, CheckIfBlocked, GetBlockExpiry, GetRequestCount, BlockIdentifier,
     RecordRequest, RecordRefused, LimiterFails, FindUser, ForgotFails, GoOn, GoTo, Answer
<1>3. \A s \in Resets : answer'[s] = answer[s]
  BY <1>2, DistinctAssumption DEF IInv, TypeOK
<1> QED  BY <1>1, <1>3, QuietStep DEF Seen

(* The INSERT of a token stores it.                                        *)
LEMMA InsertStores ==
    ASSUME IInv, NEW r \in Forgots, InsertToken(r)
    PROVE  Book!Store(r)
<1>1. r \notin DOMAIN tokens /\ email[r] \in Users /\ r \notin emailed
  BY DEF IInv, TypeOK, TokensConsistent, InsertToken
<1>2. /\ DOMAIN tokens' = DOMAIN tokens \cup {r}
      /\ tokens'[r] = [user |-> email[r], used |-> FALSE, expired |-> FALSE]
      /\ \A t \in DOMAIN tokens : tokens'[t] = tokens[t]
      /\ UNCHANGED <<answer, email, emailed, presented, applied>>
  BY <1>1 DEF InsertToken, GoTo, resetVars
<1>3. TokenStates' = [TokenStates EXCEPT ![r] = "stored"]
  <2>1. TokenState(r)' = "stored"
    BY <1>1, <1>2 DEF TokenState
  <2>2. \A t \in Forgots \ {r} : TokenState(t)' = TokenState(t)
    BY <1>2 DEF TokenState
  <2> QED  BY <2>1, <2>2 DEF TokenStates
<1>4. Changes' = Changes
  BY <1>2, ChangesStay
<1>5. Words' = Words
  BY <1>2 DEF Words
<1> QED  BY <1>1, <1>2, <1>3, <1>4, <1>5 DEF Book!Store, TokenStates, TokenState

(* The e-mail sends it, unless it is sent or spent already.                *)
LEMMA EmailSends ==
    ASSUME IInv, NEW r \in Forgots, SendEmail(r)
    PROVE  Book!Send(r) \/ UNCHANGED Book!vars
<1>1. /\ UNCHANGED <<email, tokens, presented, applied>> /\ emailed' = emailed \cup {r}
      /\ \A s \in Resets : answer'[s] = answer[s]
  BY DistinctAssumption DEF IInv, TypeOK, SendEmail, Answer, resetVars
<1>2. r \in DOMAIN tokens
  BY DEF IInv, TokensConsistent, SendEmail
<1>3. Changes' = Changes /\ Words' = Words
  BY <1>1, ChangesStay DEF Words
<1>4. CASE r \in emailed \/ tokens[r].used
  <2>1. TokenStates' = TokenStates
    BY <1>1, <1>4 DEF TokenStates, TokenState
  <2> QED  BY <1>1, <1>3, <2>1 DEF Book!vars
<1>5. CASE r \notin emailed /\ ~tokens[r].used
  <2>1. TokenStates[r] = "stored"
    BY <1>2, <1>5 DEF TokenStates, TokenState
  <2>2. TokenStates' = [TokenStates EXCEPT ![r] = "sent"]
    BY <1>1, <1>2, <1>5 DEF TokenStates, TokenState
  <2> QED  BY <1>1, <1>3, <2>1, <2>2 DEF Book!Send
<1> QED  BY <1>4, <1>5

(* What a reset is told is what it is answered.                            *)
LEMMA AnswerTells ==
    ASSUME IInv, NEW r \in Resets
    PROVE  /\ answer' = [answer EXCEPT ![r] = 200] => Words' = [Words EXCEPT ![r] = "confirmed"]
           /\ answer' = [answer EXCEPT ![r] = 400] => Words' = [Words EXCEPT ![r] = "refused"]
<1>1. /\ Words = [s \in Resets |-> Word(answer[s])]
      /\ Words' = [s \in Resets |-> Word(answer'[s])]
  BY DEF Words, Word
<1>2. ASSUME NEW code \in {200, 400}, answer' = [answer EXCEPT ![r] = code],
             NEW word, word = Word(code)
      PROVE  Words' = [Words EXCEPT ![r] = word]
  <2>1. \A s \in Resets : answer'[s] = IF s = r THEN code ELSE answer[s]
    BY <1>2 DEF IInv, TypeOK
  <2>2. Words' = [s \in Resets |-> IF s = r THEN word ELSE Words[s]]
    BY <1>1, <1>2, <2>1
  <2> QED  BY <1>1, <2>2
<1>3. "confirmed" = Word(200) /\ "refused" = Word(400)
  BY DEF Word
<1> QED  BY <1>2, <1>3

(* An answer 400 without a COMMIT is a refusal.                            *)
LEMMA RefusalRefuses ==
    ASSUME IInv, AnsweredIsOver, NEW r \in Resets,
           SubmitInvalid(r) \/ ConnectFails(r) \/ Rollback(r) \/ StatementFails(r)
    PROVE  Book!Refuse(r)
<1>1. answer[r] = 0
  BY DEF AnsweredIsOver, SubmitInvalid, ConnectFails, Rollback, StatementFails
<1>2. answer' = [answer EXCEPT ![r] = 400] /\ UNCHANGED <<Seen, presented>>
  BY DEF SubmitInvalid, ConnectFails, Rollback, StatementFails, Answer, Seen, resetVars,
     limiterVars
<1>3. Words' = [Words EXCEPT ![r] = "refused"]
  BY <1>2, AnswerTells
<1>4. TokenStates' = TokenStates
  BY <1>2 DEF Seen, TokenStates, TokenState
<1>5. Changes' = Changes
  BY <1>2 DEF Seen, Changes, UserOf
<1> QED  BY <1>1, <1>2, <1>3, <1>4, <1>5 DEF Book!Refuse, Words, Word, Seen

(* The COMMIT spends the token and makes the change: the lock held since   *)
(* the SELECT says that the token, found unspent there, is so still.       *)
LEMMA CommitChanges ==
    ASSUME IInv, AnsweredIsOver, NEW r \in Resets, Commit(r)
    PROVE  Book!Change(r, presented[r])
<1> DEFINE t == presented[r]
<1>1. /\ t \in DOMAIN tokens /\ ~tokens[t].used
      /\ t \in Forgots /\ t \in emailed /\ tokens[t].user = email[t]
  BY DistinctAssumption DEF IInv, TypeOK, LocksConsistent, TokensConsistent, Commit
<1>2. /\ tokens' = [tokens EXCEPT ![t].used = TRUE] /\ applied' = applied \cup {r}
      /\ UNCHANGED <<email, emailed, presented>>
      /\ \E code \in {200, 400} : answer' = [answer EXCEPT ![r] = code]
  BY DEF Commit, Answer
<1>3. /\ DOMAIN tokens' = DOMAIN tokens /\ tokens'[t].used
      /\ \A x \in DOMAIN tokens : tokens'[x].user = tokens[x].user
      /\ \A x \in DOMAIN tokens \ {t} : tokens'[x] = tokens[x]
  BY <1>1, <1>2 DEF IInv, TypeOK
<1>4. answer[r] = 0
  BY DEF AnsweredIsOver, Commit
<1>5. \E word \in {"confirmed", "refused"} : Words' = [Words EXCEPT ![r] = word]
  <2>1. CASE answer' = [answer EXCEPT ![r] = 200]
    BY <2>1, AnswerTells
  <2>2. CASE answer' = [answer EXCEPT ![r] = 400]
    BY <2>2, AnswerTells
  <2> QED  BY <1>2, <2>1, <2>2
<1>6. TokenStates[t] = "sent" /\ TokenStates' = [TokenStates EXCEPT ![t] = "spent"]
  BY <1>1, <1>2, <1>3 DEF TokenStates, TokenState
<1>7. Changes' = Changes \cup {[reset |-> r, token |-> t, user |-> email[t]]}
  <2>1. \A s \in applied \cup {r} : presented[s] \in DOMAIN tokens
    BY <1>1 DEF IInv, TypeOK, AppliedConsistent
  <2>2. \A s \in applied \cup {r} : UserOf(s)' = UserOf(s)
    BY <1>2, <1>3, <2>1 DEF UserOf
  <2>3. UserOf(r) = email[t]
    BY <1>1 DEF UserOf
  <2> QED  BY <1>2, <2>2, <2>3 DEF Changes
<1> QED  BY <1>1, <1>2, <1>4, <1>5, <1>6, <1>7 DEF Book!Change, Words, Word

(* The other steps of a reset.                                             *)
LEMMA ResetQuiet ==
    ASSUME IInv, NEW r \in Resets,
           \/ Connect(r) \/ Select(r) \/ UpdateUser(r) \/ MarkUsed(r)
           \/ \E t \in Forgots \cup {Nobody} : Submit(r, t)
    PROVE  UNCHANGED Book!vars
<1>1. UNCHANGED <<Seen, answer>>
  BY DEF Seen, Connect, Select, UpdateUser, MarkUsed, Submit, GoTo, resetVars, limiterVars
<1>2. \A s \in applied : presented'[s] = presented[s]
  <2>1. CASE Connect(r) \/ Select(r) \/ UpdateUser(r) \/ MarkUsed(r)
    BY <2>1 DEF Connect, Select, UpdateUser, MarkUsed, resetVars
  <2>2. ASSUME NEW t \in Forgots \cup {Nobody}, Submit(r, t)
        PROVE  \A s \in applied : presented'[s] = presented[s]
    BY <2>2 DEF IInv, TypeOK, AppliedConsistent, Submit
  <2> QED  BY <2>1, <2>2
<1> QED  BY <1>1, <1>2, QuietStep

(* Time spends no token, and a crash takes back nothing of what was told.  *)
LEMMA OthersQuiet ==
    ASSUME IInv,
           \/ Crash \/ UNCHANGED vars
           \/ \E i \in Emails : WindowEnds(i) \/ BlockEnds(i)
           \/ \E t \in Forgots : Expire(t)
    PROVE  UNCHANGED Book!vars
<1>1. CASE \/ Crash \/ UNCHANGED vars
           \/ \E i \in Emails : WindowEnds(i) \/ BlockEnds(i)
  <2>1. UNCHANGED <<Seen, presented, answer>>
    BY <1>1 DEF Seen, Crash, vars, WindowEnds, BlockEnds, resetVars, limiterVars
  <2> QED  BY <2>1, QuietStep
<1>2. ASSUME NEW t \in Forgots, Expire(t) PROVE UNCHANGED Book!vars
  <2>1. /\ DOMAIN tokens' = DOMAIN tokens
        /\ \A x \in DOMAIN tokens : /\ tokens'[x].user = tokens[x].user
                                    /\ tokens'[x].used = tokens[x].used
        /\ UNCHANGED <<answer, email, emailed, presented, applied>>
    BY <1>2 DEF IInv, TypeOK, Expire, resetVars
  <2>2. TokenStates' = TokenStates
    BY <2>1 DEF TokenStates, TokenState
  <2>3. Changes' = Changes
    BY <2>1, ChangesStay
  <2>4. Words' = Words
    BY <2>1 DEF Words
  <2> QED  BY <2>1, <2>2, <2>3, <2>4 DEF Book!vars
<1> QED  BY <1>1, <1>2

LEMMA BookBegins == Init => Book!Init
  BY DEF Init, Book!Init, TokenStates, TokenState, Changes, Words, Word, Emails

LEMMA BookGoesOn ==
    ASSUME IInv, AnsweredIsOver, [Next]_vars
    PROVE  [Book!Next]_(Book!vars)
<1>1. ASSUME NEW r \in Forgots, Ask(r) \/ AskMalformed(r) \/ Forgot(r)
      PROVE  [Book!Next]_(Book!vars)
  BY <1>1, ForgotQuiet, InsertStores, EmailSends DEF Forgot, Book!Next
<1>2. ASSUME NEW r \in Resets, SubmitInvalid(r) \/ Reset(r) PROVE [Book!Next]_(Book!vars)
  <2>1. CASE Commit(r)
    <3>1. presented[r] \in Forgots
      BY <2>1 DEF IInv, TypeOK, LocksConsistent, Commit
    <3> QED  BY <2>1, <3>1, CommitChanges DEF Book!Next
  <2>2. CASE SubmitInvalid(r) \/ ConnectFails(r) \/ Rollback(r) \/ StatementFails(r)
    BY <2>2, RefusalRefuses DEF Book!Next
  <2>3. CASE Connect(r) \/ Select(r) \/ UpdateUser(r) \/ MarkUsed(r)
    BY <2>3, ResetQuiet
  <2> QED  BY <1>2, <2>1, <2>2, <2>3 DEF Reset, Proceed
<1>3. ASSUME NEW r \in Resets, NEW t \in Forgots \cup {Nobody}, Submit(r, t)
      PROVE  [Book!Next]_(Book!vars)
  BY <1>3, ResetQuiet
<1>4. CASE \/ Crash \/ UNCHANGED vars
           \/ \E i \in Emails : WindowEnds(i) \/ BlockEnds(i)
           \/ \E t \in Forgots : Expire(t)
  BY <1>4, OthersQuiet
<1> QED  BY <1>1, <1>2, <1>3, <1>4 DEF Next

(* The endpoints implement ResetTokens, for every number of requests,      *)
(* users and clients of the pool: a token is spent and its user's password *)
(* changed in one step, although it takes four queries beside others.      *)
THEOREM BookImplemented == Spec => ImplementsBook
<1>1. Init => Book!Init /\ AnsweredIsOver
  BY BookBegins DEF Init, AnsweredIsOver
<1>2. IInv /\ AnsweredIsOver /\ [Next]_vars => AnsweredIsOver'
  BY AnsweredStaysOver
<1>3. IInv /\ AnsweredIsOver /\ [Next]_vars => [Book!Next]_(Book!vars)
  BY BookGoesOn
<1> QED  BY <1>1, <1>2, <1>3, Invariance, PTL DEF Spec, Book!Spec, ImplementsBook
=============================================================================

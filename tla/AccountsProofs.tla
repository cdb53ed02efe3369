---------------------------- MODULE AccountsProofs ----------------------------
(***************************************************************************)
(* The safety of Accounts for any number of concurrent requests, any       *)
(* addresses and any passwords.  IInv is inductive: one lemma per action   *)
(* shows that the action preserves it, on two frame lemmas that say what   *)
(* keeps a request and a row consistent.                                   *)
(***************************************************************************)
EXTENDS Accounts, TLAPS

(* What a request that got past the early returns carries. *)
LEMMA BodyFacts ==
    ASSUME NEW b \in Body, Refusal(b) = 0
    PROVE  /\ b.op \in Ops
           /\ b.password \in Passwords
           /\ b.op # "change" /\ b.op # "login" => b.email \in Addresses
           /\ b.op \in {"registerInvestor", "change"} => validatePasswordStrength(b.password)
<1>1. CASE b.op = "registerInvestor"
  BY <1>1, AddressesAssumption DEF Body, Refusal, RegisterHandlerRefusal, Ops
<1>2. CASE b.op = "registerStartup"
  BY <1>2, AddressesAssumption DEF Body, Refusal, StartupRouteRefusal, Ops
<1>3. CASE b.op = "login"
  BY <1>3 DEF Body, Refusal, LoginHandlerRefusal, Ops
<1>4. CASE b.op = "change"
  BY <1>4 DEF Body, Refusal, ChangeHandlerRefusal, Ops
<1>5. CASE b.op = "reset"
  BY <1>5, AddressesAssumption DEF Body, Refusal, ResetRouteRefusal, Ops
<1>6. QED
  BY <1>1, <1>2, <1>3, <1>4, <1>5 DEF Body, Ops

(* A hash says which password and which family of requests it is from. *)
LEMMA HashFacts ==
    ASSUME NEW r \in Requests, body[r] \in Body, Refusal(body[r]) = 0
    PROVE  /\ HashFor(r) \in Hashes
           /\ HashFor(r).password = body[r].password
           /\ HashFor(r).scheme = "sha256" => body[r].op \in {"registerInvestor", "reset"}
<1>1. body[r].password \in Passwords
  BY BodyFacts
<1>2. QED
  BY <1>1 DEF HashFor, sha256, hashPassword, Hashes, Schemes

(* A row stays consistent while it is not written and the requests that    *)
(* are done stay as they are.                                              *)
LEMMA RowFrame ==
    ASSUME NEW u \in Requests, RowConsistent(u), author[u] \in Requests,
           users'[u] = users[u], author'[u] = author[u],
           \A q \in Requests : pc[q] = "done" => pc'[q] = "done" /\ body'[q] = body[q]
    PROVE  RowConsistent(u)'
<1>1. /\ pc[u] = "done" /\ pc[author[u]] = "done"
      /\ body'[u] = body[u] /\ body'[author[u]] = body[author[u]]
  BY DEF RowConsistent
<1>2. HashFor(author[u])' = HashFor(author[u])
  BY <1>1 DEF HashFor
<1>3. QED
  BY <1>1, <1>2 DEF RowConsistent

(* A request that a step leaves alone stays consistent as long as rows stay*)
(* in the table and the hash it has compared with is kept, or it counts as *)
(* overtaken.                                                              *)
LEMMA RequestFrame ==
    ASSUME NEW q \in Requests, RequestConsistent(q),
           origin[q] \in Requests \cup {None},
           pc'[q] = pc[q], body'[q] = body[q], found'[q] = found[q],
           origin'[q] = origin[q], replaced'[q] = replaced[q],
           \A p \in Requests : pc[p] = "done" => pc'[p] = "done" /\ body'[p] = body[p],
           Ids \subseteq Ids', overtaken \subseteq overtaken',
           pc[q] = "update" =>
               q \in overtaken' \/ users'[found[q]].hash = users[found[q]].hash
    PROVE  RequestConsistent(q)'
<1>1. origin[q] # None => body'[origin[q]] = body[origin[q]] /\ pc'[origin[q]] = "done"
  BY DEF RequestConsistent
<1>2. QED
  BY <1>1 DEF RequestConsistent

(* A request that is answered and leaves the tables and histories alone.   *)
LEMMA AnswerFrame ==
    ASSUME IInv, NEW r \in Requests, NEW code \in {0, 200, 201, 400, 401, 404, 409, 500},
           pc[r] \in {"find", "insert", "update"}, Answer(r, code),
           UNCHANGED <<body, found, origin, users, author, replaced, overtaken>>
    PROVE  IInv'
<1>1. TypeOK'
  BY DEF IInv, TypeOK, Answer, Ids
<1>2. \A q \in Requests : pc[q] = "done" => pc'[q] = "done" /\ body'[q] = body[q]
  BY DEF IInv, TypeOK, Answer
<1>3. ASSUME NEW q \in Requests
      PROVE  RequestConsistent(q)'
  <2>1. RequestConsistent(q) /\ origin[q] \in Requests \cup {None}
    BY DEF IInv, TypeOK
  <2>2. CASE q = r
    <3>1. pc'[q] = "done" /\ replaced[q] = None /\ origin[q] = None
      BY <2>1, <2>2 DEF IInv, TypeOK, Answer, RequestConsistent
    <3>2. QED
      BY <3>1 DEF RequestConsistent
  <2>3. CASE q # r
    <3>1. pc'[q] = pc[q]
      BY <2>3 DEF IInv, TypeOK, Answer
    <3>2. QED
      BY <1>2, <2>1, <3>1, RequestFrame DEF Ids
  <2>4. QED
    BY <2>2, <2>3
<1>4. ASSUME NEW u \in Ids'
      PROVE  RowConsistent(u)'
  BY <1>2, RowFrame DEF IInv, TypeOK, Ids
<1>5. EmailsUnique'
  BY DEF IInv, EmailsUnique, Ids
<1>6. QED
  BY <1>1, <1>3, <1>4, <1>5 DEF IInv

(* A request that goes on to its next call and only looks something up.    *)
LEMMA GoOnFrame ==
    ASSUME IInv, NEW r \in Requests, NEW place \in {"insert", "update"},
           pc[r] = "find", GoTo(r, place),
           UNCHANGED <<body, origin, users, author, replaced, overtaken>>,
           found' \in [Requests -> Requests \cup {None}],
           \A q \in Requests \ {r} : found'[q] = found[q],
           RequestConsistent(r)'
    PROVE  IInv'
<1>1. TypeOK'
  BY DEF IInv, TypeOK, GoTo, Ids
<1>2. \A q \in Requests : pc[q] = "done" => pc'[q] = "done" /\ body'[q] = body[q]
  BY DEF IInv, TypeOK, GoTo
<1>3. ASSUME NEW q \in Requests
      PROVE  RequestConsistent(q)'
  <2>1. CASE q = r
    BY <2>1
  <2>2. CASE q # r
    <3>1. RequestConsistent(q) /\ origin[q] \in Requests \cup {None} /\ pc'[q] = pc[q]
      BY <2>2 DEF IInv, TypeOK, GoTo
    <3>2. QED
      BY <1>2, <2>2, <3>1, RequestFrame DEF Ids
  <2>3. QED
    BY <2>1, <2>2
<1>4. ASSUME NEW u \in Ids'
      PROVE  RowConsistent(u)'
  BY <1>2, RowFrame DEF IInv, TypeOK, Ids
<1>5. EmailsUnique'
  BY DEF IInv, EmailsUnique, Ids
<1>6. QED
  BY <1>1, <1>3, <1>4, <1>5 DEF IInv

-----------------------------------------------------------------------------
LEMMA InitIInv == Init => IInv
<1> SUFFICES ASSUME Init PROVE IInv
  OBVIOUS
<1>1. Ids = {}
  BY DEF Init, Ids
<1>2. TypeOK
  <2>1. Blank \in Body
    BY DEF Blank, Body, Ops
  <2>2. users \in [Ids -> [email : Addresses, hash : Hashes]] /\ author \in [Ids -> Requests]
    BY <1>1 DEF Init
  <2>3. QED
    BY <1>1, <2>1, <2>2 DEF Init, TypeOK
<1>3. \A r \in Requests : RequestConsistent(r)
  BY DEF Init, RequestConsistent
<1>4. QED
  BY <1>1, <1>2, <1>3 DEF IInv, EmailsUnique

LEMMA SubmitIInv ==
    ASSUME IInv, NEW r \in Requests, NEW b \in Body, Submit(r, b)
    PROVE  IInv'
<1>1. pc[r] = "idle" /\ pc'[r] \in {"find", "done"}
  BY DEF IInv, TypeOK, Submit, Answer, GoTo
<1>2. \A q \in Requests \ {r} : pc'[q] = pc[q] /\ body'[q] = body[q]
  BY DEF IInv, TypeOK, Submit, Answer, GoTo
<1>3. UNCHANGED <<found, origin, users, author, replaced, overtaken>>
  BY DEF Submit
<1>4. TypeOK'
  <2>1. Refusal(b) \in {0, 200, 400, 401, 500}
    BY DEF Refusal, RegisterHandlerRefusal, StartupRouteRefusal, LoginHandlerRefusal,
           ChangeHandlerRefusal, ResetRouteRefusal, Body, Ops
  <2>2. pc' \in [Requests -> {"idle", "find", "insert", "update", "done"}]
    <3>1. pc' = [pc EXCEPT ![r] = "done"] \/ pc' = [pc EXCEPT ![r] = "find"]
      BY DEF Submit, Answer, GoTo
    <3>2. QED
      BY <3>1 DEF IInv, TypeOK
  <2>3. status' \in [Requests -> {0, 200, 201, 400, 401, 404, 409, 500}]
    BY <2>1 DEF IInv, TypeOK, Submit, Answer, GoTo
  <2>4. body' \in [Requests -> Body]
    BY DEF IInv, TypeOK, Submit
  <2>5. QED
    BY <1>3, <2>2, <2>3, <2>4 DEF IInv, TypeOK, Ids
<1>5. ASSUME NEW q \in Requests
      PROVE  RequestConsistent(q)'
  <2>1. RequestConsistent(q) /\ origin[q] \in Requests \cup {None}
    BY DEF IInv, TypeOK
  <2>2. CASE q = r
    <3>1. replaced[q] = None /\ origin[q] = None
      BY <1>1, <2>1, <2>2 DEF RequestConsistent
    <3>2. pc'[q] = "find" => Refusal(body'[q]) = 0
      BY <2>2 DEF IInv, TypeOK, Submit, Answer, GoTo
    <3>3. (Refusal(body[q]))' = Refusal(body'[q])
      BY DEF Refusal, RegisterHandlerRefusal, StartupRouteRefusal, LoginHandlerRefusal,
             ChangeHandlerRefusal, ResetRouteRefusal, validatePasswordStrength
    <3>4. QED
      BY <1>1, <1>3, <2>2, <3>1, <3>2, <3>3 DEF RequestConsistent
  <2>3. CASE q # r
    BY <1>1, <1>2, <1>3, <2>1, <2>3, RequestFrame DEF Ids
  <2>4. QED
    BY <2>2, <2>3
<1>6. ASSUME NEW u \in Ids'
      PROVE  RowConsistent(u)'
  BY <1>1, <1>2, <1>3, RowFrame DEF IInv, TypeOK, Ids
<1>7. EmailsUnique'
  BY <1>3 DEF IInv, EmailsUnique, Ids
<1>8. QED
  BY <1>4, <1>5, <1>6, <1>7 DEF IInv

LEMMA FindForRegistrationIInv ==
    ASSUME IInv, NEW r \in Requests, FindForRegistration(r)
    PROVE  IInv'
<1>1. CASE Answer(r, 409)
  BY <1>1, AnswerFrame DEF FindForRegistration
<1>2. CASE GoTo(r, "insert")
  <2>1. RequestConsistent(r) /\ found \in [Requests -> Requests \cup {None}]
    BY DEF IInv, TypeOK
  <2>2. pc'[r] = "insert"
    BY <1>2 DEF IInv, TypeOK, GoTo
  <2>3. replaced[r] = None /\ origin[r] = None
    BY <2>1 DEF FindForRegistration, RequestConsistent
  <2>4. RequestConsistent(r)'
    BY <2>1, <2>2, <2>3 DEF FindForRegistration, RequestConsistent
  <2>5. QED
    BY <1>2, <2>1, <2>4, GoOnFrame DEF FindForRegistration
<1>3. QED
  BY <1>1, <1>2 DEF FindForRegistration

LEMMA FindForChangeIInv ==
    ASSUME IInv, NEW r \in Requests, FindForChange(r)
    PROVE  IInv'
<1>1. CASE \E code \in {401, 404} : Answer(r, code) /\ UNCHANGED found
  BY <1>1, AnswerFrame DEF FindForChange
<1>2. CASE /\ body[r].user \in Ids
           /\ comparePassword(body[r].current, users[body[r].user].hash)
           /\ GoTo(r, "update") /\ found' = [found EXCEPT ![r] = body[r].user]
  <2>1. /\ RequestConsistent(r) /\ found \in [Requests -> Requests \cup {None}]
        /\ Ids \subseteq Requests
    BY DEF IInv, TypeOK
  <2>2. pc'[r] = "update"
    BY <1>2 DEF IInv, TypeOK, GoTo
  <2>3. replaced[r] = None /\ origin[r] = None /\ Refusal(body[r]) = 0
    BY <2>1 DEF FindForChange, RequestConsistent
  <2>4. users[body[r].user].hash = hashPassword(body[r].current)
    <3>1. users[body[r].user].hash \in Hashes
      BY <1>2 DEF IInv, TypeOK
    <3>2. QED
      BY <1>2, <3>1 DEF comparePassword, hashPassword, Hashes
  <2>5. found'[r] = body[r].user
    BY <1>2, <2>1
  <2>6. RequestConsistent(r)'
    BY <1>2, <2>2, <2>3, <2>4, <2>5 DEF FindForChange, RequestConsistent, Ids, hashPassword,
       Refusal, RegisterHandlerRefusal, StartupRouteRefusal, LoginHandlerRefusal,
       ChangeHandlerRefusal, ResetRouteRefusal, validatePasswordStrength
  <2>7. QED
    BY <1>2, <2>1, <2>6, GoOnFrame DEF FindForChange
<1>3. QED
  BY <1>1, <1>2 DEF FindForChange

LEMMA FindForResetIInv ==
    ASSUME IInv, NEW r \in Requests, FindForReset(r)
    PROVE  IInv'
<1>1. CASE Answer(r, 200) /\ UNCHANGED found
  BY <1>1, AnswerFrame DEF FindForReset
<1>2. CASE GoTo(r, "update") /\ \E u \in Mailbox(body[r].email) : found' = [found EXCEPT ![r] = u]
  <2>1. PICK u \in Mailbox(body[r].email) : found' = [found EXCEPT ![r] = u]
    BY <1>2
  <2>2. /\ RequestConsistent(r) /\ found \in [Requests -> Requests \cup {None}]
        /\ u \in Ids /\ u \in Requests
    BY DEF IInv, TypeOK, Mailbox
  <2>3. pc'[r] = "update" /\ found'[r] = u
    BY <1>2, <2>1, <2>2 DEF IInv, TypeOK, GoTo
  <2>4. replaced[r] = None /\ origin[r] = None
    BY <2>2 DEF FindForReset, RequestConsistent
  <2>5. RequestConsistent(r)'
    BY <2>2, <2>3, <2>4 DEF FindForReset, RequestConsistent, Ids
  <2>6. QED
    BY <1>2, <2>1, <2>2, <2>5, GoOnFrame DEF FindForReset
<1>3. QED
  BY <1>1, <1>2 DEF FindForReset

LEMMA DbFailsIInv ==
    ASSUME IInv, NEW r \in Requests, DbFails(r)
    PROVE  IInv'
  BY AnswerFrame DEF DbFails, FailureCode

LEMMA CreateUserIInv ==
    ASSUME IInv, NEW r \in Requests, CreateUser(r)
    PROVE  IInv'
<1>1. /\ RequestConsistent(r) /\ pc[r] = "insert" /\ Refusal(body[r]) = 0
      /\ body[r].op \in {"registerInvestor", "registerStartup"} /\ body[r] \in Body
  BY DEF IInv, TypeOK, CreateUser, RequestConsistent
<1>2. body[r].email \in Addresses /\ StoredEmail(body[r]) \in Addresses
  <2>1. body[r].email \in Addresses
    BY <1>1, BodyFacts
  <2>2. QED
    BY <2>1, AddressesAssumption DEF StoredEmail
<1>3. HashFor(r) \in Hashes
  BY <1>1, HashFacts
<1>4. r \notin Ids /\ Ids \subseteq Requests
  BY <1>1 DEF IInv, TypeOK, RowConsistent
<1>5. /\ Ids' = Ids \cup {r}
      /\ \A u \in Ids : users'[u] = users[u] /\ author'[u] = author[u]
      /\ users'[r] = [email |-> StoredEmail(body[r]), hash |-> HashFor(r)]
      /\ author'[r] = r
  BY <1>4 DEF CreateUser, Ids
<1>6. /\ pc' = [pc EXCEPT ![r] = "done"]
      /\ UNCHANGED <<body, found, origin, replaced, overtaken>>
  BY DEF CreateUser, Answer
<1>7. TypeOK'
  <2>1. users' \in [Ids' -> [email : Addresses, hash : Hashes]]
    <3>1. \A u \in Ids' : users'[u] \in [email : Addresses, hash : Hashes]
      BY <1>2, <1>3, <1>5 DEF IInv, TypeOK
    <3>2. users' = [u \in Ids' |-> users'[u]]
      BY DEF CreateUser, Ids
    <3>3. QED
      BY <3>1, <3>2
  <2>2. author' \in [Ids' -> Requests]
    BY <1>5 DEF IInv, TypeOK, CreateUser, Ids
  <2>3. status' \in [Requests -> {0, 200, 201, 400, 401, 404, 409, 500}]
    BY DEF IInv, TypeOK, CreateUser, Answer
  <2>4. pc' \in [Requests -> {"idle", "find", "insert", "update", "done"}]
    BY <1>6 DEF IInv, TypeOK
  <2>5. Ids' \subseteq Requests
    BY <1>4, <1>5
  <2>6. QED
    BY <1>6, <2>1, <2>2, <2>3, <2>4, <2>5 DEF IInv, TypeOK
<1>8. \A q \in Requests : pc[q] = "done" => pc'[q] = "done" /\ body'[q] = body[q]
  BY <1>6 DEF IInv, TypeOK
<1>9. ASSUME NEW q \in Requests
      PROVE  RequestConsistent(q)'
  <2>1. RequestConsistent(q) /\ origin[q] \in Requests \cup {None}
    BY DEF IInv, TypeOK
  <2>2. CASE q = r
    <3>1. pc'[q] = "done" /\ replaced[q] = None /\ origin[q] = None
      BY <1>1, <1>6, <2>1, <2>2 DEF IInv, TypeOK, RequestConsistent
    <3>2. QED
      BY <1>6, <3>1 DEF RequestConsistent
  <2>3. CASE q # r
    <3>1. pc'[q] = pc[q]
      BY <1>6, <2>3 DEF IInv, TypeOK
    <3>2. pc[q] = "update" => found[q] \in Ids
      BY <2>1 DEF RequestConsistent
    <3>3. QED
      BY <1>5, <1>6, <1>8, <2>1, <3>1, <3>2, RequestFrame
  <2>4. QED
    BY <2>2, <2>3
<1>10. ASSUME NEW u \in Ids'
       PROVE  RowConsistent(u)'
  <2>1. CASE u = r
    <3>1. pc'[r] = "done" /\ body'[r] = body[r]
      BY <1>6 DEF IInv, TypeOK
    <3>2. HashFor(r)' = HashFor(r)
      BY <3>1 DEF HashFor
    <3>3. StoredEmail(body[r])' = StoredEmail(body[r]) /\ Refusal(body[r])' = Refusal(body[r])
      BY <1>6 DEF StoredEmail
    <3>4. QED
      BY <1>1, <1>2, <1>5, <2>1, <3>1, <3>2, <3>3 DEF RowConsistent
  <2>2. CASE u \in Ids
    BY <1>4, <1>5, <1>8, <2>2, RowFrame DEF IInv, TypeOK
  <2>3. QED
    BY <1>5, <2>1, <2>2
<1>11. EmailsUnique'
  <2>1. \A u \in Ids : users[u].email # StoredEmail(body[r])
    BY DEF CreateUser, EmailIsFree, ByEmail
  <2>2. QED
    BY <1>5, <2>1 DEF IInv, EmailsUnique
<1>12. QED
  BY <1>7, <1>9, <1>10, <1>11 DEF IInv

LEMMA FindForLoginIInv ==
    ASSUME IInv, NEW r \in Requests, FindForLogin(r)
    PROVE  IInv'
<1> DEFINE Match == {u \in ByEmail(body[r].email) :
                       verifyPassword(body[r].password, users[u].hash)}
<1>1. CASE Match = {}
  BY <1>1, AnswerFrame DEF FindForLogin
<1>2. CASE Match # {}
  <2>1. PICK u \in Match : /\ found' = [found EXCEPT ![r] = u]
                           /\ origin' = [origin EXCEPT ![r] = author[u]]
    BY <1>2 DEF FindForLogin
  <2>2. /\ pc' = [pc EXCEPT ![r] = "done"] /\ pc[r] = "find"
        /\ UNCHANGED <<body, users, author, replaced, overtaken>>
    BY <1>2 DEF FindForLogin, Answer
  <2>3. u \in Ids /\ u \in Requests /\ author[u] \in Requests /\ body[author[u]] \in Body
    BY DEF ByEmail, IInv, TypeOK
  <2>4. RowConsistent(u) /\ users[u].hash.scheme = "sha256"
    BY <2>3 DEF IInv, verifyPassword, sha256
  <2>5. body[author[u]].op \in {"registerInvestor", "reset"} /\ pc[author[u]] = "done"
    BY <2>3, <2>4, HashFacts DEF RowConsistent
  <2>6. \A q \in Requests : pc[q] = "done" => pc'[q] = "done" /\ body'[q] = body[q]
    BY <2>2 DEF IInv, TypeOK
  <2>7. TypeOK'
    <3>1. status' \in [Requests -> {0, 200, 201, 400, 401, 404, 409, 500}]
      <4>1. PICK code \in {200, 500} : status' = [status EXCEPT ![r] = code]
        BY <1>2 DEF FindForLogin, Answer
      <4>2. status \in [Requests -> {0, 200, 201, 400, 401, 404, 409, 500}]
        BY DEF IInv, TypeOK
      <4>3. QED
        BY <4>1, <4>2
    <3>2. QED
      BY <2>1, <2>2, <2>3, <3>1 DEF IInv, TypeOK, Ids
  <2>8. ASSUME NEW q \in Requests
        PROVE  RequestConsistent(q)'
    <3>1. RequestConsistent(q) /\ origin[q] \in Requests \cup {None}
      BY DEF IInv, TypeOK
    <3>2. CASE q = r
      <4>1. pc'[q] = "done" /\ origin'[q] = author[u]
        BY <2>1, <2>2, <3>2 DEF IInv, TypeOK
      <4>2. replaced'[q] = None
        BY <2>2, <3>1, <3>2 DEF RequestConsistent
      <4>3. QED
        BY <2>3, <2>5, <2>6, <4>1, <4>2 DEF RequestConsistent
    <3>3. CASE q # r
      <4>1. pc'[q] = pc[q] /\ found'[q] = found[q] /\ origin'[q] = origin[q]
        BY <2>1, <2>2, <3>3 DEF IInv, TypeOK
      <4>2. QED
        BY <2>2, <2>6, <3>1, <4>1, RequestFrame DEF Ids
    <3>4. QED
      BY <3>2, <3>3
  <2>9. ASSUME NEW v \in Ids'
        PROVE  RowConsistent(v)'
    BY <2>2, <2>6, RowFrame DEF IInv, TypeOK, Ids
  <2>10. EmailsUnique'
    BY <2>2 DEF IInv, EmailsUnique, Ids
  <2>11. QED
    BY <2>7, <2>8, <2>9, <2>10 DEF IInv
<1>3. QED
  BY <1>1, <1>2

LEMMA UpdatePasswordHashIInv ==
    ASSUME IInv, NEW r \in Requests, UpdatePasswordHash(r)
    PROVE  IInv'
<1> DEFINE u == found[r]
<1>1. /\ RequestConsistent(r) /\ pc[r] = "update" /\ Refusal(body[r]) = 0
      /\ body[r].op \in {"change", "reset"} /\ body[r] \in Body
      /\ u \in Ids /\ u \in Requests
  BY DEF IInv, TypeOK, UpdatePasswordHash, RequestConsistent
<1>2. HashFor(r) \in Hashes
  BY <1>1, HashFacts
<1>3. /\ pc' = [pc EXCEPT ![r] = "done"]
      /\ UNCHANGED <<body, found, origin>>
      /\ users' = [users EXCEPT ![u].hash = HashFor(r)]
      /\ author' = [author EXCEPT ![u] = r]
      /\ replaced' = [replaced EXCEPT ![r] = users[u].hash]
      /\ overtaken' = overtaken \cup {q \in Requests \ {r} : pc[q] = "update" /\ found[q] = u}
  BY DEF UpdatePasswordHash, Answer
<1>4. /\ Ids' = Ids
      /\ \A v \in Ids : users'[v].email = users[v].email
      /\ \A v \in Ids \ {u} : users'[v] = users[v] /\ author'[v] = author[v]
      /\ users'[u].hash = HashFor(r) /\ author'[u] = r
  BY <1>1, <1>3 DEF IInv, TypeOK, Ids
<1>5. TypeOK'
  <2>1. users' \in [Ids -> [email : Addresses, hash : Hashes]]
    <3>1. users[u] \in [email : Addresses, hash : Hashes]
      BY <1>1 DEF IInv, TypeOK
    <3>2. [users[u] EXCEPT !.hash = HashFor(r)] \in [email : Addresses, hash : Hashes]
      BY <1>2, <3>1
    <3>3. users' = [users EXCEPT ![u] = [users[u] EXCEPT !.hash = HashFor(r)]]
      BY <1>3
    <3>4. QED
      BY <3>2, <3>3 DEF IInv, TypeOK
  <2>2. author' \in [Ids -> Requests]
    BY <1>1, <1>3 DEF IInv, TypeOK
  <2>3. status' \in [Requests -> {0, 200, 201, 400, 401, 404, 409, 500}]
    BY DEF IInv, TypeOK, UpdatePasswordHash, Answer, FailureCode
  <2>4. replaced' \in [Requests -> Hashes \cup {None}]
    BY <1>1, <1>3 DEF IInv, TypeOK
  <2>5. QED
    BY <1>3, <1>4, <2>1, <2>2, <2>3, <2>4 DEF IInv, TypeOK
<1>6. \A q \in Requests : pc[q] = "done" => pc'[q] = "done" /\ body'[q] = body[q]
  BY <1>3 DEF IInv, TypeOK
<1>7. ASSUME NEW q \in Requests
      PROVE  RequestConsistent(q)'
  <2>1. RequestConsistent(q) /\ origin[q] \in Requests \cup {None}
    BY DEF IInv, TypeOK
  <2>2. CASE q = r
    <3>1. pc'[q] = "done" /\ replaced'[q] = users[u].hash /\ origin[q] = None
      BY <1>1, <1>3, <2>1, <2>2 DEF IInv, TypeOK, RequestConsistent
    <3>2. r \in overtaken' <=> r \in overtaken
      BY <1>3
    <3>3. body[r].op = "change" /\ r \notin overtaken =>
              users[u].hash = hashPassword(body[r].current)
      BY <1>1 DEF RequestConsistent
    <3>4. QED
      BY <1>3, <2>2, <3>1, <3>2, <3>3 DEF RequestConsistent, hashPassword
  <2>3. CASE q # r
    <3>1. pc'[q] = pc[q] /\ replaced'[q] = replaced[q]
      BY <1>3, <2>3 DEF IInv, TypeOK
    <3>2. pc[q] = "update" =>
              q \in overtaken' \/ users'[found[q]].hash = users[found[q]].hash
      <4>1. CASE pc[q] = "update" /\ found[q] = u
        BY <1>3, <2>3, <4>1
      <4>2. CASE pc[q] = "update" /\ found[q] # u
        BY <1>4, <2>1, <4>2 DEF RequestConsistent
      <4>3. QED
        BY <4>1, <4>2
    <3>3. QED
      BY <1>3, <1>4, <1>6, <2>1, <3>1, <3>2, RequestFrame
  <2>4. QED
    BY <2>2, <2>3
<1>8. ASSUME NEW v \in Ids'
      PROVE  RowConsistent(v)'
  <2>1. RowConsistent(v) /\ v \in Ids /\ v \in Requests
    BY <1>4 DEF IInv, TypeOK
  <2>2. CASE v = u
    <3>1. pc'[r] = "done" /\ body'[r] = body[r]
      BY <1>3 DEF IInv, TypeOK
    <3>2. HashFor(r)' = HashFor(r)
      BY <3>1 DEF HashFor
    <3>3. pc'[v] = "done" /\ body'[v] = body[v]
      BY <1>6, <2>1 DEF RowConsistent
    <3>4. QED
      BY <1>1, <1>4, <2>1, <2>2, <3>1, <3>2, <3>3 DEF RowConsistent
  <2>3. CASE v # u
    BY <1>4, <1>6, <2>1, <2>3, RowFrame DEF IInv, TypeOK
  <2>4. QED
    BY <2>2, <2>3
<1>9. EmailsUnique'
  BY <1>4 DEF IInv, EmailsUnique
<1>10. QED
  BY <1>5, <1>7, <1>8, <1>9 DEF IInv

LEMMA NextIInv == IInv /\ [Next]_vars => IInv'
<1> SUFFICES ASSUME IInv, [Next]_vars PROVE IInv'
  OBVIOUS
<1>1. ASSUME NEW r \in Requests, NEW b \in Body, Submit(r, b) PROVE IInv'
  BY <1>1, SubmitIInv
<1>2. ASSUME NEW r \in Requests, FindForRegistration(r) PROVE IInv'
  BY <1>2, FindForRegistrationIInv
<1>3. ASSUME NEW r \in Requests, CreateUser(r) PROVE IInv'
  BY <1>3, CreateUserIInv
<1>4. ASSUME NEW r \in Requests, FindForLogin(r) PROVE IInv'
  BY <1>4, FindForLoginIInv
<1>5. ASSUME NEW r \in Requests, FindForChange(r) PROVE IInv'
  BY <1>5, FindForChangeIInv
<1>6. ASSUME NEW r \in Requests, FindForReset(r) PROVE IInv'
  BY <1>6, FindForResetIInv
<1>7. ASSUME NEW r \in Requests, UpdatePasswordHash(r) PROVE IInv'
  BY <1>7, UpdatePasswordHashIInv
<1>8. ASSUME NEW r \in Requests, DbFails(r) PROVE IInv'
  BY <1>8, DbFailsIInv
<1>9. ASSUME UNCHANGED vars PROVE IInv'
  <2>1. /\ TypeOK' /\ EmailsUnique'
    BY <1>9 DEF IInv, TypeOK, EmailsUnique, vars, Ids
  <2>2. ASSUME NEW q \in Requests PROVE RequestConsistent(q)'
    <3>1. RequestConsistent(q) /\ origin[q] \in Requests \cup {None}
      BY DEF IInv, TypeOK
    <3>2. QED
      BY <1>9, <3>1, RequestFrame DEF vars, Ids
  <2>3. ASSUME NEW v \in Ids' PROVE RowConsistent(v)'
    BY <1>9, RowFrame DEF IInv, TypeOK, vars, Ids
  <2>4. QED
    BY <2>1, <2>2, <2>3 DEF IInv
<1>10. QED
  BY <1>1, <1>2, <1>3, <1>4, <1>5, <1>6, <1>7, <1>8, <1>9 DEF Next

LEMMA Invariance == Spec => []IInv
  BY InitIInv, NextIInv, PTL DEF Spec

-----------------------------------------------------------------------------
(* Requests only take the states and rows only the shape that TypeOK says. *)
THEOREM TypeCorrect == Spec => []TypeOK
<1>1. IInv => TypeOK
  BY DEF IInv
<1>2. QED
  BY <1>1, Invariance, PTL

(* Of two accounts of one mailbox at least one is a startup's, stored with *)
(* the capitals it was typed with: StartupAuthService.register looks up    *)
(* and stores the address as it stands (startupAuthService.ts).            *)
THEOREM TwinsAreStartupsAlways == Spec => []TwinsAreStartups
<1>1. ASSUME IInv PROVE TwinsAreStartups
  <2>1. SUFFICES ASSUME NEW u \in Ids, NEW v \in Ids,
                        u # v, Lower[users[u].email] = Lower[users[v].email]
                 PROVE  \E w \in {u, v} : /\ body[w].op = "registerStartup"
                                          /\ users[w].email # Lower[users[w].email]
    BY DEF TwinsAreStartups
  <2>2. users[u].email # users[v].email
    BY <1>1, <2>1 DEF IInv, EmailsUnique
  <2>3. PICK w \in {u, v} : users[w].email # Lower[users[w].email]
    BY <2>1, <2>2
  <2>4. RowConsistent(w)
    BY <1>1 DEF IInv
  <2>5. body[w].op # "registerInvestor"
    BY <2>3, <2>4, AddressesAssumption DEF RowConsistent, StoredEmail
  <2>6. QED
    BY <2>3, <2>4, <2>5 DEF RowConsistent
<1>2. QED
  BY <1>1, Invariance, PTL

(* A change of password replaces the password its sender knew, or one that *)
(* was written between its read and its UPDATE (changePasswordService.ts). *)
THEOREM ChangeKnewTheOldAlways == Spec => []ChangeKnewTheOld
<1>1. IInv => ChangeKnewTheOld
  BY DEF IInv, RequestConsistent, ChangeKnewTheOld
<1>2. QED
  BY <1>1, Invariance, PTL

(* Log-in compares sha256 digests: only the password of an investor's      *)
(* registration or of a reset opens it (loginService.ts).                  *)
THEOREM LogInNeedsDigestAlways == Spec => []LogInNeedsDigest
<1>1. IInv => LogInNeedsDigest
  BY DEF IInv, RequestConsistent, LogInNeedsDigest
<1>2. QED
  BY <1>1, Invariance, PTL

(* The strength rules hold for every password but a startup's first one    *)
(* and those of a reset (startupAuthRoute.ts, passwordReset.ts).           *)
THEOREM WeakIsExcusedAlways == Spec => []WeakIsExcused
<1>1. ASSUME IInv PROVE WeakIsExcused
  <2>1. SUFFICES ASSUME NEW u \in Ids, body[author[u]].op \notin {"registerStartup", "reset"}
                 PROVE  validatePasswordStrength(users[u].hash.password)
    BY DEF WeakIsExcused
  <2>2. RowConsistent(u) /\ author[u] \in Requests /\ body[author[u]] \in Body
    BY <1>1 DEF IInv, TypeOK
  <2>3. body[author[u]].op \in {"registerInvestor", "change"}
    BY <2>1, <2>2, BodyFacts DEF RowConsistent, Ops
  <2>4. users[u].hash.password = body[author[u]].password
    BY <2>2, HashFacts DEF RowConsistent
  <2>5. QED
    BY <2>2, <2>3, <2>4, BodyFacts DEF RowConsistent
<1>2. QED
  BY <1>1, Invariance, PTL
===============================================================================

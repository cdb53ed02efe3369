------------------------------ MODULE Accounts -------------------------------
(***************************************************************************)
(* Accounts and the passwords they hold.  Five handlers write or compare   *)
(* users.password_hash: the registration of investors, the registration of *)
(* startups, log-in, the change of a password and its reset.  The first,   *)
(* log-in and reset use the sha256 digest of the password, the other two   *)
(* salted scrypt; the rules for a new password and for how an address is   *)
(* looked up differ as well.                                               *)
(*                                                                         *)
(* A request is a chain of database calls; between two of them any other   *)
(* request may act.  A reset stands for the two requests it takes, the one *)
(* that looks the account up and the one that writes the new hash; the     *)
(* token between them and its transaction are PasswordReset's.             *)
(***************************************************************************)
EXTENDS Naturals, FiniteSets

CONSTANTS
    Requests, Addresses,
    Lower,       \* toLowerCase().trim() of an address
    WellFormed,  \* the addresses that match EMAIL_RE
    Passwords,
    Profile,     \* what the rules look at in a password
    Stranger,    \* a user id with no row: the account was removed by hand
    None

Traits == {"upper", "lower", "digit", "special", "common", "repeated", "sequential"}

ASSUME AddressesAssumption ==
    /\ Lower \in [Addresses -> Addresses]
    /\ \A a \in Addresses : Lower[Lower[a]] = Lower[a]
    /\ WellFormed \subseteq Addresses
ASSUME PasswordsAssumption ==
    Profile \in [Passwords -> [length : Nat \ {0}, traits : SUBSET Traits]]
ASSUME MarkersAssumption ==
    Stranger \notin Requests /\ None \notin Requests \cup Addresses \cup Passwords

Ops     == {"registerInvestor", "registerStartup", "login", "change", "reset"}
Schemes == {"sha256", "scrypt"}
Hashes  == [scheme : Schemes, password : Passwords]

VARIABLES
    pc,        \* "idle", the database call a request is about to make, "done"
    status,    \* its answer, or 0
    body,      \* what it carries
    found,     \* the account it has looked up
    origin,    \* history: the request that set the password a log-in was let in by
    users,     \* table users: the rows, by the request that inserted them
    author,    \* history: the request that wrote the hash of a row last
    replaced,  \* history: the hash a change has overwritten
    overtaken  \* history: changes whose account's hash was written after they read it

vars == <<pc, status, body, found, origin, users, author, replaced, overtaken>>

Ids  == DOMAIN users
Body == [op : Ops \ {"change"}, email : Addresses \cup {None},
         password : Passwords \cup {None}, current : {None}, user : {None}]
        \cup
        [op : {"change"}, email : {None}, password : Passwords \cup {None},
         current : Passwords \cup {None}, user : Requests \cup {Stranger, None}]
Blank == [op |-> "login", email |-> None, password |-> None, current |-> None,
          user |-> None]

Init ==
    /\ pc = [r \in Requests |-> "idle"]
    /\ status = [r \in Requests |-> 0]
    /\ body = [r \in Requests |-> Blank]
    /\ found = [r \in Requests |-> None]
    /\ origin = [r \in Requests |-> None]
    /\ users = [u \in {} |-> None]
    /\ author = [u \in {} |-> None]
    /\ replaced = [r \in Requests |-> None]
    /\ overtaken = {}

GoTo(r, place)  == pc' = [pc EXCEPT ![r] = place] /\ UNCHANGED status
Answer(r, code) ==
    /\ pc' = [pc EXCEPT ![r] = "done"]
    /\ status' = [status EXCEPT ![r] = code]

-----------------------------------------------------------------------------
(* Rules and hashes. *)

validatePasswordStrength(p) ==
    /\ Profile[p].length \in 12..128
    /\ {"upper", "lower", "digit", "special"} \subseteq Profile[p].traits
    /\ Profile[p].traits \cap {"common", "repeated", "sequential"} = {}

(* createHash('sha256'), which registration and reset store. *)
sha256(p) == [scheme |-> "sha256", password |-> p]

(* hashPassword of lib/hash.ts and of utils/password.ts. *)
hashPassword(p) == [scheme |-> "scrypt", password |-> p]

(* LoginService.verifyPassword: a scrypt hash has another length. *)
verifyPassword(p, hash) == hash = sha256(p)

(* A bug to detect: the parts of the stored hash are not compared.         *)
CompareSaltOnly(p, hash) == hash.scheme = "scrypt"

(* comparePassword: a digest has no ':' to split at. *)
comparePassword(p, hash) == hash.scheme = "scrypt" /\ hash.password = p

-----------------------------------------------------------------------------
(* What a handler refuses before its first database call; 0 to go on.      *)

(* A bug to detect: the length is the only rule. *)
RegisterByLength(b) ==
    IF \/ b.email = None \/ b.password = None
       \/ b.email \notin WellFormed
       \/ Profile[b.password].length < 12
    THEN 400 ELSE 0

(* A password that is long enough and weak is an Error like any other: 500.*)
RegisterHandlerRefusal(b) ==
    IF \/ b.email = None \/ b.password = None
       \/ b.email \notin WellFormed
       \/ Profile[b.password].length < 12
    THEN 400
    ELSE IF ~validatePasswordStrength(b.password) THEN 500 ELSE 0

StartupRouteRefusal(b) ==
    IF \/ b.email = None \/ b.password = None
       \/ b.email \notin WellFormed
       \/ Profile[b.password].length < 8
    THEN 400 ELSE 0

LoginHandlerRefusal(b) == IF b.email = None \/ b.password = None THEN 400 ELSE 0

ChangeHandlerRefusal(b) ==
    IF b.user = None THEN 401
    ELSE IF \/ b.current = None \/ b.password = None
            \/ ~validatePasswordStrength(b.password)
         THEN 400 ELSE 0

(* forgot-password answers 200 whatever happens; then reset-password.      *)
ResetRouteRefusal(b) ==
    IF b.email \notin WellFormed THEN 200
    ELSE IF b.password = None \/ Profile[b.password].length < 8 THEN 400 ELSE 0

Refusal(b) ==
    CASE b.op = "registerInvestor" -> RegisterHandlerRefusal(b)
      [] b.op = "registerStartup"  -> StartupRouteRefusal(b)
      [] b.op = "login"            -> LoginHandlerRefusal(b)
      [] b.op = "change"           -> ChangeHandlerRefusal(b)
      [] b.op = "reset"            -> ResetRouteRefusal(b)

-----------------------------------------------------------------------------
(* Requests. *)

(* A bug to detect: an investor's address is stored as it was typed. *)
RawEmail(b) == b.email

(* The address a registration looks up and stores. *)
StoredEmail(b) == IF b.op = "registerInvestor" THEN Lower[b.email] ELSE b.email

ByEmail(a) == {u \in Ids : users[u].email = a}

(* A client sends a body.  A change of password is for the user of a token *)
(* (nobody when it names none); the other requests name an address.        *)
Submit(r, b) ==
    /\ pc[r] = "idle"
    /\ b.op = "change" => b.user \in Ids \cup {Stranger, None}
    /\ IF Refusal(b) # 0
       THEN Answer(r, Refusal(b)) /\ UNCHANGED body
       ELSE GoTo(r, "find") /\ body' = [body EXCEPT ![r] = b]
    /\ UNCHANGED <<found, origin, users, author, replaced, overtaken>>

(* RegisterService.register and StartupAuthService.register: findByEmail.  *)
FindForRegistration(r) ==
    /\ pc[r] = "find" /\ body[r].op \in {"registerInvestor", "registerStartup"}
    /\ IF ByEmail(StoredEmail(body[r])) # {} THEN Answer(r, 409) ELSE GoTo(r, "insert")
    /\ UNCHANGED <<body, found, origin, users, author, replaced, overtaken>>

EmailIsFree(r) == ByEmail(StoredEmail(body[r])) = {}

HashFor(r) ==
    IF body[r].op \in {"registerInvestor", "reset"} THEN sha256(body[r].password)
    ELSE hashPassword(body[r].password)

(* createUser.  The column is UNIQUE: when the address has been taken in   *)
(* the meantime the INSERT is refused, and answered 500 like any failure.  *)
CreateUser(r) ==
    /\ pc[r] = "insert"
    /\ EmailIsFree(r)
    /\ users' = [u \in Ids \cup {r} |->
                   IF u = r THEN [email |-> StoredEmail(body[r]), hash |-> HashFor(r)]
                   ELSE users[u]]
    /\ author' = [u \in Ids \cup {r} |-> IF u = r THEN r ELSE author[u]]
    /\ \E code \in {201, 500} : Answer(r, code)
    /\ UNCHANGED <<body, found, origin, replaced, overtaken>>

(* LoginService.login up to its session, which SessionRotation inserts.    *)
FindForLogin(r) ==
    /\ pc[r] = "find" /\ body[r].op = "login"
    /\ LET match == {u \in ByEmail(body[r].email) :
                       verifyPassword(body[r].password, users[u].hash)}
       IN  IF match = {} THEN Answer(r, 401) /\ UNCHANGED <<found, origin>>
           ELSE /\ \E u \in match : /\ found' = [found EXCEPT ![r] = u]
                                    /\ origin' = [origin EXCEPT ![r] = author[u]]
                /\ \E code \in {200, 500} : Answer(r, code)
    /\ UNCHANGED <<body, users, author, replaced, overtaken>>

(* ChangePasswordService: findUserById, and the comparison with the hash   *)
(* that was read.                                                          *)
FindForChange(r) ==
    /\ pc[r] = "find" /\ body[r].op = "change"
    /\ IF body[r].user \notin Ids THEN Answer(r, 404) /\ UNCHANGED found
       ELSE IF ~comparePassword(body[r].current, users[body[r].user].hash)
            THEN Answer(r, 401) /\ UNCHANGED found
       ELSE GoTo(r, "update") /\ found' = [found EXCEPT ![r] = body[r].user]
    /\ UNCHANGED <<body, origin, users, author, replaced, overtaken>>

(* WHERE LOWER(email) = $1, with $1 in lower case. *)
Mailbox(a) == {u \in Ids : Lower[users[u].email] = Lower[a]}

(* PasswordResetService.findUserByEmail: LIMIT 1 of the accounts of a      *)
(* mailbox.  The link is answered with 200 in any case.                    *)
FindForReset(r) ==
    /\ pc[r] = "find" /\ body[r].op = "reset"
    /\ IF Mailbox(body[r].email) = {} THEN Answer(r, 200) /\ UNCHANGED found
       ELSE /\ \E u \in Mailbox(body[r].email) : found' = [found EXCEPT ![r] = u]
            /\ GoTo(r, "update")
    /\ UNCHANGED <<body, origin, users, author, replaced, overtaken>>

(* What a rejected call is answered: the routes of a reset hide it.        *)
FailureCode(r) ==
    IF body[r].op # "reset" THEN 500 ELSE IF pc[r] = "find" THEN 200 ELSE 400

(* updatePasswordHash, and the UPDATE of resetPassword: by id alone. *)
UpdatePasswordHash(r) ==
    /\ pc[r] = "update"
    /\ LET u == found[r]
       IN  /\ users' = [users EXCEPT ![u].hash = HashFor(r)]
           /\ author' = [author EXCEPT ![u] = r]
           /\ replaced' = [replaced EXCEPT ![r] = users[u].hash]
           /\ overtaken' = overtaken \cup
                {q \in Requests \ {r} : pc[q] = "update" /\ found[q] = u}
    /\ \E code \in {200, FailureCode(r)} : Answer(r, code)
    /\ UNCHANGED <<body, found, origin>>

(* A database call rejects, and has done nothing. *)
DbFails(r) ==
    /\ pc[r] \in {"find", "insert", "update"}
    /\ Answer(r, FailureCode(r))
    /\ UNCHANGED <<body, found, origin, users, author, replaced, overtaken>>

Next == \E r \in Requests :
    \/ \E b \in Body : Submit(r, b)
    \/ FindForRegistration(r) \/ CreateUser(r)
    \/ FindForLogin(r)
    \/ FindForChange(r) \/ FindForReset(r) \/ UpdatePasswordHash(r)
    \/ DbFails(r)

Spec == Init /\ [][Next]_vars

-----------------------------------------------------------------------------
(* Type of the state. *)
TypeOK ==
    /\ pc \in [Requests -> {"idle", "find", "insert", "update", "done"}]
    /\ status \in [Requests -> {0, 200, 201, 400, 401, 404, 409, 500}]
    /\ body \in [Requests -> Body]
    /\ found \in [Requests -> Requests \cup {None}]
    /\ origin \in [Requests -> Requests \cup {None}]
    /\ Ids \subseteq Requests
    /\ users \in [Ids -> [email : Addresses, hash : Hashes]]
    /\ author \in [Ids -> Requests]
    /\ replaced \in [Requests -> Hashes \cup {None}]
    /\ overtaken \subseteq Requests

(* Two accounts share a mailbox only if a startup registered one of them,  *)
(* with capitals: investors' addresses are normalised before they are      *)
(* looked up and stored, whatever two registrations do at the same time.   *)
TwinsAreStartups ==
    \A u, v \in Ids :
        u # v /\ Lower[users[u].email] = Lower[users[v].email] =>
            \E w \in {u, v} :
                body[w].op = "registerStartup" /\ users[w].email # Lower[users[w].email]

(* A change of password overwrites a password its sender knew, or one that *)
(* was written while the change was under way: the comparison is with the  *)
(* hash read before, and the UPDATE does not look again.                   *)
ChangeKnewTheOld ==
    \A r \in Requests :
        replaced[r] # None /\ body[r].op = "change" /\ r \notin overtaken =>
            replaced[r] = hashPassword(body[r].current)

(* As the handlers are written, whoever logs in does so with a password    *)
(* set by the registration of an investor or by a reset: not with what a   *)
(* startup registers with, nor with what a change of password stores.      *)
(* This is not what is wanted: password-strength-policies.md names one     *)
(* scheme for all passwords, by which each would open a log-in.            *)
LogInNeedsDigest ==
    \A r \in Requests :
        origin[r] # None => body[origin[r]].op \in {"registerInvestor", "reset"}

(* A password in force that does not meet the strength rules was set by a  *)
(* reset or by a startup's registration, which check eight characters only.*)
WeakIsExcused ==
    \A u \in Ids :
        ~validatePasswordStrength(users[u].hash.password) =>
            body[author[u]].op \in {"registerStartup", "reset"}

(* The inductive invariant behind these.  What a request remembers: it is  *)
(* past the early returns; the hash it compared with is still there unless *)
(* it was overtaken; a log-in was let in by a digest.                      *)
RequestConsistent(r) ==
    /\ pc[r] \in {"find", "insert", "update"} => Refusal(body[r]) = 0
    /\ pc[r] = "insert" => body[r].op \in {"registerInvestor", "registerStartup"}
    /\ pc[r] = "update" =>
        /\ body[r].op \in {"change", "reset"}
        /\ found[r] \in Ids
        /\ body[r].op = "change" /\ r \notin overtaken =>
               users[found[r]].hash = hashPassword(body[r].current)
    /\ replaced[r] # None =>
        /\ pc[r] = "done"
        /\ body[r].op = "change" /\ r \notin overtaken =>
               replaced[r] = hashPassword(body[r].current)
    /\ origin[r] # None =>
        /\ pc[r] = "done" /\ pc[origin[r]] = "done"
        /\ body[origin[r]].op \in {"registerInvestor", "reset"}

(* What a row holds: the address its registration stored, and the hash of  *)
(* the password of the request that wrote it last.                         *)
RowConsistent(u) ==
    /\ pc[u] = "done" /\ pc[author[u]] = "done"
    /\ body[u].op \in {"registerInvestor", "registerStartup"}
    /\ body[u].email \in Addresses
    /\ users[u].email = StoredEmail(body[u])
    /\ body[author[u]].op # "login" /\ Refusal(body[author[u]]) = 0
    /\ users[u].hash = HashFor(author[u])

EmailsUnique == \A u, v \in Ids : users[u].email = users[v].email => u = v

IInv ==
    /\ TypeOK
    /\ \A r \in Requests : RequestConsistent(r)
    /\ \A u \in Ids : RowConsistent(u)
    /\ EmailsUnique
==============================================================================

--------------------------- MODULE SessionRotation ---------------------------
(***************************************************************************)
(* Sessions and their tokens: login (auth/login), refresh-token rotation   *)
(* with reuse detection (auth/refresh), and what requireAuth               *)
(* (middleware/auth.ts) guards: logout and the change of a password.  They *)
(* share the table sessions (db/repositories/sessionRepository.ts).        *)
(*                                                                         *)
(* Requests run concurrently; a step is what runs between two awaits.  A   *)
(* request creates one session at most, so the request names the session   *)
(* id it draws (randomUUID).  Time only ever denies: an expired token is   *)
(* one of the refusals.                                                    *)
(***************************************************************************)
EXTENDS FiniteSets

CONSTANTS
    Requests,       \* HTTP requests, each made once; also the ids of the sessions they create
    Users,
    NoSession       \* SQL NULL, or no session

ASSUME NoSessionAssumption == NoSession \notin Requests

(* A token carries sid, and sub, the user of that session: owner[sid].     *)
(* Access and refresh token differ in their expiry alone.                  *)
Tokens == [sid : Requests, kind : {"access", "refresh"}]
NoToken == [sid |-> NoSession, kind |-> "none"]

Row == [user : Users, parent : Requests \cup {NoSession}, revoked : BOOLEAN, token : Tokens]

VARIABLES
    recordsParent,  \* of the repository the services are given.  FALSE: it is SessionRepository,
                    \* as shipped.  TRUE: it is any that keeps the contract of RefreshService,
                    \* RefreshTokenRepository, whose createSession is "linked to a parent"
    pc,         \* where each request is: see PCs
    token,      \* the token it presented
    use,        \* what it asks for
    owner,      \* the user of the session it creates, or NoSession
    answer,     \* HTTP status answered, 0 before any
    sessions,   \* table sessions: a function from the ids present to their rows
    removed,    \* history: the ids deleted so far
    late,       \* history: the sessions rotated out of one that was revoked by then
    asOf        \* history: what had happened when the request was sent

vars == <<recordsParent, pc, token, use, owner, answer, sessions, removed, late, asOf>>

PCs == {"unsent", "find", "findChild", "revoke", "create", "auth", "delete", "update",
        "done", "crashed"}
Running == PCs \ {"unsent", "done", "crashed"}
Uses == {"none", "login", "refresh", "logout", "changePassword"}
History == [answered : SUBSET Requests, removed : SUBSET Requests, revoked : SUBSET Requests]

Sids == DOMAIN sessions
Revoked == {s \in Sids : sessions[s].revoked}
Answered == {r \in Requests : answer[r] \in {200, 204}}

(* The sessions whose tokens a client has been given. *)
Issued == {s \in Answered : use[s] \in {"login", "refresh"}}

(* WITH RECURSIVE descendants (also what ON DELETE CASCADE follows): the   *)
(* least set of rows that holds s and the children of its members; none    *)
(* when there is no row s.                                                 *)
Descendants(s) ==
    {d \in Sids :
        /\ s \in Sids
        /\ \A S \in SUBSET Sids :
              (s \in S /\ \A c \in Sids : sessions[c].parent \in S => c \in S) => d \in S}

-----------------------------------------------------------------------------
Init ==
    /\ recordsParent \in BOOLEAN
    /\ pc = [r \in Requests |-> "unsent"]
    /\ token = [r \in Requests |-> NoToken]
    /\ use = [r \in Requests |-> "none"]
    /\ owner = [r \in Requests |-> NoSession]
    /\ answer = [r \in Requests |-> 0]
    /\ sessions = [s \in {} |-> [user |-> NoSession]]
    /\ removed = {}
    /\ late = {}
    /\ asOf = [r \in Requests |-> [answered |-> {}, removed |-> {}, revoked |-> {}]]

GoTo(r, place) ==
    /\ pc' = [pc EXCEPT ![r] = place]
    /\ UNCHANGED answer

Answer(r, code) ==
    /\ pc' = [pc EXCEPT ![r] = "done"]
    /\ answer' = [answer EXCEPT ![r] = code]

(* A request arrives. *)
Send(r, what, t) ==
    /\ pc[r] = "unsent"
    /\ use' = [use EXCEPT ![r] = what]
    /\ token' = [token EXCEPT ![r] = t]
    /\ asOf' = [asOf EXCEPT ![r] = [answered |-> Answered, removed |-> removed,
                                    revoked |-> Revoked]]
    /\ UNCHANGED <<recordsParent, sessions, removed, late>>

(* login: the credentials were right, the tokens are signed, and the       *)
(* session is about to be inserted.                                        *)
Login(r, u) ==
    /\ Send(r, "login", NoToken)
    /\ owner' = [owner EXCEPT ![r] = u]
    /\ GoTo(r, "create")

(* refresh: verifyToken accepted the token, of either kind. *)
Refresh(r, t) ==
    /\ t.sid \in Issued
    /\ Send(r, "refresh", t)
    /\ GoTo(r, "find")
    /\ UNCHANGED owner

(* createRequireAuth: verifyToken accepted the token. *)
Protected(r, t, what) ==
    /\ t.sid \in Issued
    /\ Send(r, what, t)
    /\ GoTo(r, "auth")
    /\ UNCHANGED owner

(* Wrong credentials; a token that is malformed, forged or expired. *)
Refuse(r, what) ==
    /\ Send(r, what, NoToken)
    /\ Answer(r, 401)
    /\ UNCHANGED owner

(* findSessionById, then the first reuse check. *)
Find(r) ==
    /\ pc[r] = "find"
    /\ LET s == token[r].sid
       IN  IF s \notin Sids THEN Answer(r, 401)
           ELSE IF sessions[s].revoked THEN GoTo(r, "revoke")
           ELSE GoTo(r, "findChild")
    /\ UNCHANGED <<recordsParent, token, use, owner, sessions, removed, late, asOf>>

(* A bug to detect: the session's own parent is taken for a child. *)
FindChildFindsParent(r) ==
    /\ pc[r] = "findChild"
    /\ IF token[r].sid \in Sids /\ sessions[token[r].sid].parent # NoSession
       THEN GoTo(r, "revoke") /\ UNCHANGED owner
       ELSE GoTo(r, "create") /\ owner' = [owner EXCEPT ![r] = owner[token[r].sid]]
    /\ UNCHANGED <<recordsParent, token, use, sessions, removed, late, asOf>>

(* findSessionByParentId: a session with a child has been rotated already. *)
(* Otherwise new tokens are signed, for the user the old token names.      *)
FindChild(r) ==
    /\ pc[r] = "findChild"
    /\ IF \E c \in Sids : sessions[c].parent = token[r].sid
       THEN GoTo(r, "revoke") /\ UNCHANGED owner
       ELSE GoTo(r, "create") /\ owner' = [owner EXCEPT ![r] = owner[token[r].sid]]
    /\ UNCHANGED <<recordsParent, token, use, sessions, removed, late, asOf>>

(* A bug to detect: the session is revoked, and what was rotated out of it *)
(* is not.                                                                 *)
RevokeOne(r) ==
    /\ pc[r] = "revoke"
    /\ sessions' = [s \in Sids |->
                        IF s = token[r].sid
                        THEN [sessions[s] EXCEPT !.revoked = TRUE]
                        ELSE sessions[s]]
    /\ \E code \in {401, 500} : Answer(r, code)
    /\ UNCHANGED <<recordsParent, token, use, owner, removed, late, asOf>>

(* revokeSessionAndDescendants, and the refusal. *)
Revoke(r) ==
    /\ pc[r] = "revoke"
    /\ sessions' = [s \in Sids |->
                        IF s \in Descendants(token[r].sid)
                        THEN [sessions[s] EXCEPT !.revoked = TRUE]
                        ELSE sessions[s]]
    /\ \E code \in {401, 500} : Answer(r, code)
    /\ UNCHANGED <<recordsParent, token, use, owner, removed, late, asOf>>

(* The row SessionRepository.createSession inserts for a given id, as both *)
(* login and refresh give one: the column parent_id is not named.          *)
NewRow(r) ==
    [user |-> owner[r], parent |-> NoSession, revoked |-> FALSE,
     token |-> [sid |-> r, kind |-> "refresh"]]

(* The row RefreshTokenRepository.createSession promises.  Login passes no *)
(* parent: its token is none.                                              *)
LinkedRow(r) == [NewRow(r) EXCEPT !.parent = token[r].sid]

StoredRow(r) == IF recordsParent THEN LinkedRow(r) ELSE NewRow(r)

Inserted(r) == [s \in Sids \cup {r} |-> IF s = r THEN StoredRow(r) ELSE sessions[s]]

(* The parent column references sessions(id): the INSERT fails without it. *)
ParentExists(r) == StoredRow(r).parent \in Sids \cup {NoSession}

(* Committed; the acknowledgement may be lost all the same. *)
Create(r) ==
    /\ pc[r] = "create"
    /\ ParentExists(r)
    /\ sessions' = Inserted(r)
    /\ late' = IF token[r].sid \in Revoked THEN late \cup {r} ELSE late
    /\ \E code \in {200, 500} : Answer(r, code)
    /\ UNCHANGED <<recordsParent, token, use, owner, removed, asOf>>

(* A bug to detect: the signature of the token is enough. *)
AuthorisedBySignature(r) == token[r].kind = "refresh"

(* createRequireAuth, after its findById: the row must be there, for the   *)
(* user of the token, and hold the hash of this very token.                *)
Authorised(r) ==
    LET t == token[r]
    IN  /\ t.sid \in Sids
        /\ sessions[t.sid].user = owner[t.sid]
        /\ sessions[t.sid].token = t

Auth(r) ==
    /\ pc[r] = "auth"
    /\ \/ /\ Authorised(r)
          /\ GoTo(r, IF use[r] = "logout" THEN "delete" ELSE "update")
       \/ Answer(r, 401)   \* also when the session expired since verifyToken
    /\ UNCHANGED <<recordsParent, token, use, owner, sessions, removed, late, asOf>>

(* logout: deleteSessionById; the children of the row go with it. *)
Delete(r) ==
    /\ pc[r] = "delete"
    /\ LET gone == Descendants(token[r].sid)
       IN  /\ sessions' = [s \in Sids \ gone |-> sessions[s]]
           /\ removed' = removed \cup gone
    /\ \E code \in {204, 500} : Answer(r, code)
    /\ UNCHANGED <<recordsParent, token, use, owner, late, asOf>>

(* ChangePasswordService.execute, whether the password was changed (200)   *)
(* or not: it touches the table users alone.                               *)
Update(r) ==
    /\ pc[r] = "update"
    /\ \E code \in {200, 400, 401, 404} : Answer(r, code)
    /\ UNCHANGED <<recordsParent, token, use, owner, sessions, removed, late, asOf>>

(* A query rejects, before it has done anything: next(error).  Not in      *)
(* createRequireAuth, whose findById nothing catches: that is a Crash.     *)
QueryFails(r) ==
    /\ pc[r] \in Running \ {"auth"}
    /\ Answer(r, 500)
    /\ UNCHANGED <<recordsParent, token, use, owner, sessions, removed, late, asOf>>

Crash ==
    /\ \E r \in Requests : pc[r] \in Running
    /\ pc' = [r \in Requests |-> IF pc[r] \in Running THEN "crashed" ELSE pc[r]]
    /\ UNCHANGED <<recordsParent, token, use, owner, answer, sessions, removed, late, asOf>>

Arrive(r) ==
    \/ \E u \in Users : Login(r, u)
    \/ \E t \in Tokens : Refresh(r, t)
    \/ \E t \in Tokens, what \in {"logout", "changePassword"} : Protected(r, t, what)
    \/ \E what \in Uses \ {"none"} : Refuse(r, what)

Step(r) ==
    \/ Find(r)
    \/ FindChild(r)
    \/ Revoke(r)
    \/ Create(r)
    \/ Auth(r)
    \/ Delete(r)
    \/ Update(r)
    \/ QueryFails(r)

Next ==
    \/ \E r \in Requests : Arrive(r) \/ Step(r)
    \/ Crash

Spec == Init /\ [][Next]_vars
-----------------------------------------------------------------------------
(* Properties. *)

TypeOK ==
    /\ recordsParent \in BOOLEAN
    /\ pc \in [Requests -> PCs]
    /\ token \in [Requests -> Tokens \cup {NoToken}]
    /\ use \in [Requests -> Uses]
    /\ owner \in [Requests -> Users \cup {NoSession}]
    /\ answer \in [Requests -> {0, 200, 204, 400, 401, 404, 500}]
    /\ Sids \subseteq Requests /\ sessions \in [Sids -> Row]
    /\ removed \subseteq Requests /\ late \subseteq Requests
    /\ asOf \in [Requests -> History]

Refreshed(r) == use[r] = "refresh" /\ answer[r] = 200

Accepted(r) == token[r] # NoToken /\ answer[r] \in {200, 204}

(* refresh never compares the user of the token with the user of the row;  *)
(* even so a family of sessions has one user, the one who logged in.       *)
Ancestry(s) == {a \in Sids : s \in Descendants(a)}

FamilyOfOneUser ==
    \A s \in Sids : \A a \in Ancestry(s) : sessions[a].user = sessions[s].user

(* No client holds tokens whose session was never stored: one that is not  *)
(* in the table has been deleted.                                          *)
IssuedIsStored == Issued \subseteq Sids \cup removed

(* A session that logout deleted never comes back, whatever INSERTs were   *)
(* in flight.                                                              *)
DeletedStaysDeleted == Sids \cap removed = {}

(* auth-session-hardening.md: what is sent once a session has been deleted *)
(* is not accepted with a token of that session, on any endpoint.          *)
DeniedAfterLogout ==
    \A r \in Requests : Accepted(r) => token[r].sid \notin asOf[r].removed

(* refresh-token-rotation.md, reuse detection: a refresh sent once its     *)
(* session has been revoked is denied.                                     *)
DeniedAfterRevocation ==
    \A r \in Requests : Refreshed(r) => token[r].sid \notin asOf[r].revoked

(* The refresh token of a was presented by two requests. *)
Reused(a) ==
    \E q, r \in Requests : /\ q # r
                           /\ use[q] = "refresh" /\ use[r] = "refresh"
                           /\ token[q].sid = a /\ token[r].sid = a

Blamed(s) == \E a \in Ancestry(s) : Reused(a)

(* No false alarm: a session is revoked only if it, or an ancestor of it,  *)
(* was presented to refresh more than once.                                *)
RevokedForReuse == \A s \in Revoked : Blamed(s)

(* A session that was rotated out of a revoked one, by a refresh that was  *)
(* under way: sent before the revocation, stored after it.                 *)
Escaped(e) == e \in late /\ token[e].sid \in Revoked \ asOf[e].revoked

(* revokeSessionAndDescendants reaches the whole family: what is not       *)
(* revoked although an ancestor of it is, is a session that escaped, or    *)
(* was rotated out of one.                                                 *)
EscapeIsRace ==
    \A s \in Sids \ Revoked :
        Ancestry(s) \cap Revoked # {} => \E e \in Ancestry(s) \ Revoked : Escaped(e)

(* Revocation is never taken back. *)
RevokedForGood == [][\A s \in Revoked : s \in Revoked' \cup removed']_vars

(* The inductive invariant behind the safety properties. *)
Fresh ==
    /\ \A s \in Sids \cup removed : /\ pc[s] = "done" /\ use[s] \in {"login", "refresh"}
                                    /\ owner[s] \in Users
    /\ Sids \cap removed = {}

(* What each place of a request says of it. *)
RequestConsistent(r) ==
    /\ pc[r] = "unsent" => use[r] = "none" /\ token[r] = NoToken
    /\ pc[r] \in {"find", "findChild", "revoke"} => use[r] = "refresh" /\ token[r] # NoToken
    /\ pc[r] = "create" => owner[r] \in Users /\ use[r] \in {"login", "refresh"}
    /\ pc[r] \in {"auth", "delete", "update"} =>
          use[r] \in {"logout", "changePassword"} /\ token[r] # NoToken
    /\ answer[r] # 0 => pc[r] = "done"
    /\ use[r] = "login" => token[r] = NoToken
    /\ use[r] = "refresh" /\ (pc[r] = "create" \/ answer[r] = 200) => token[r] # NoToken
    /\ token[r] # NoToken =>
          /\ token[r].sid \in Issued
          /\ pc[r] = "create" \/ r \in Sids \cup removed => owner[r] = owner[token[r].sid]

HistoryConsistent(r) ==
    /\ asOf[r].answered \subseteq Answered
    /\ asOf[r].removed \subseteq removed
    /\ asOf[r].revoked \subseteq Revoked \cup removed

(* A request that has been let through, or has been accepted. *)
LetThrough(r) ==
    token[r] # NoToken /\ (pc[r] \in {"findChild", "create", "delete", "update"} \/ Accepted(r))

LetThroughConsistent(r) ==
    LetThrough(r) =>
        /\ token[r].sid \notin asOf[r].removed
        /\ use[r] = "refresh" => token[r].sid \notin asOf[r].revoked

RowConsistent(s) ==
    /\ sessions[s].user = owner[s]
    /\ sessions[s].parent = IF recordsParent THEN token[s].sid ELSE NoSession
    /\ sessions[s].parent \in Sids \cup {NoSession}

IInv ==
    /\ TypeOK
    /\ Fresh
    /\ IssuedIsStored
    /\ \A r \in Requests : RequestConsistent(r)
    /\ \A r \in Requests : HistoryConsistent(r)
    /\ \A r \in Requests : LetThroughConsistent(r)
    /\ \A s \in Sids : RowConsistent(s)

(* What makes RevokedForReuse inductive: whoever is about to revoke has    *)
(* found the session revoked, or rotated already; it may be gone since.    *)
ReuseInv ==
    /\ RevokedForReuse
    /\ \A r \in Requests :
          pc[r] = "revoke" /\ token[r].sid \in Sids => Blamed(token[r].sid)

-----------------------------------------------------------------------------
(* What the documentation says of the program, as shipped. *)

(* refresh-token-rotation.md: "The old refresh token is then invalidated." *)
OldTokenInvalidated ==
    \A r \in Requests : Refreshed(r) =>
        \A q \in asOf[r].answered :
            Refreshed(q) => token[q].sid # token[r].sid
=============================================================================

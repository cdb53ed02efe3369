------------------------ MODULE SessionRotationProofs ------------------------
(***************************************************************************)
(* Theorems about SessionRotation, for every number of requests and users, *)
(* and for both repositories: SessionRepository, as shipped, and any that  *)
(* stores the parent it is given.                                          *)
(***************************************************************************)
EXTENDS SessionRotation, TLAPS

USE NoSessionAssumption
USE DEF PCs, Running, Uses, Sids, Answered, Issued, Revoked, NoToken

LEMMA InitIInv == Init => IInv
  BY DEF Init, IInv, TypeOK, Fresh, IssuedIsStored, RequestConsistent, HistoryConsistent,
         LetThroughConsistent, LetThrough, Accepted, RowConsistent, Tokens, Row, History

(* The row that is inserted, for either repository. *)
LEMMA RowStored ==
    ASSUME NEW r
    PROVE  StoredRow(r) =
             [user |-> owner[r], parent |-> IF recordsParent THEN token[r].sid ELSE NoSession,
              revoked |-> FALSE, token |-> [sid |-> r, kind |-> "refresh"]]
  BY DEF StoredRow, LinkedRow, NewRow

(* The children of a descendant are descendants. *)
LEMMA DescendantsClosed ==
    ASSUME NEW s, NEW c \in Sids, sessions[c].parent \in Descendants(s)
    PROVE  c \in Descendants(s)
  BY DEF Descendants

LEMMA DescendantsStored ==
    ASSUME NEW s
    PROVE  Descendants(s) \subseteq Sids
  BY DEF Descendants

-----------------------------------------------------------------------------
(* The steps that preserve the inductive invariant: a lemma per action, a  *)
(* step of its proof per conjunct.                                         *)
LEMMA LoginIInv ==
    ASSUME IInv, NEW r \in Requests, NEW u \in Users, Login(r, u)
    PROVE  IInv'
<1> USE DEF IInv
<1>1. TypeOK'
  BY DEF TypeOK, Tokens, Row, History, RequestConsistent, Login, Send, GoTo
<1>2. Fresh'
  BY DEF TypeOK, Fresh, RequestConsistent, Login, Send, GoTo
<1>3. IssuedIsStored'
  BY DEF TypeOK, IssuedIsStored, RequestConsistent, Login, Send, GoTo
<1>4. ASSUME NEW p \in Requests PROVE RequestConsistent(p)'
  BY <1>4 DEF TypeOK, Tokens, Fresh, IssuedIsStored, RequestConsistent, Login, Send, GoTo
<1>5. ASSUME NEW p \in Requests PROVE HistoryConsistent(p)'
  BY <1>5
     DEF TypeOK, Tokens, History, Fresh, RequestConsistent, HistoryConsistent, Login, Send, GoTo
<1>6. ASSUME NEW p \in Requests PROVE LetThroughConsistent(p)'
  BY <1>6 DEF TypeOK, Tokens, Fresh, RequestConsistent, HistoryConsistent,
     LetThroughConsistent, LetThrough, Accepted, Refreshed, RowConsistent, IssuedIsStored,
     Login, Send, GoTo
<1>7. ASSUME NEW s \in Sids' PROVE RowConsistent(s)'
  BY <1>7 DEF TypeOK, Tokens, Fresh, RequestConsistent, RowConsistent, Login, Send, GoTo
<1> QED  BY <1>1, <1>2, <1>3, <1>4, <1>5, <1>6, <1>7

LEMMA RefreshIInv ==
    ASSUME IInv, NEW r \in Requests, NEW t \in Tokens, Refresh(r, t)
    PROVE  IInv'
<1> USE DEF IInv
<1>1. TypeOK'
  BY DEF TypeOK, Tokens, Row, History, RequestConsistent, Refresh, Send, GoTo
<1>2. Fresh'
  BY DEF TypeOK, Fresh, RequestConsistent, Refresh, Send, GoTo
<1>3. IssuedIsStored'
  BY DEF TypeOK, IssuedIsStored, RequestConsistent, Refresh, Send, GoTo
<1>4. ASSUME NEW p \in Requests PROVE RequestConsistent(p)'
  BY <1>4 DEF TypeOK, Tokens, Fresh, IssuedIsStored, RequestConsistent, Refresh, Send, GoTo
<1>5. ASSUME NEW p \in Requests PROVE HistoryConsistent(p)'
  BY <1>5
     DEF TypeOK, Tokens, History, Fresh, RequestConsistent, HistoryConsistent, Refresh, Send,
         GoTo
<1>6. ASSUME NEW p \in Requests PROVE LetThroughConsistent(p)'
  BY <1>6 DEF TypeOK, Tokens, Fresh, RequestConsistent, HistoryConsistent,
     LetThroughConsistent, LetThrough, Accepted, Refreshed, RowConsistent, IssuedIsStored,
     Refresh, Send, GoTo
<1>7. ASSUME NEW s \in Sids' PROVE RowConsistent(s)'
  BY <1>7 DEF TypeOK, Tokens, Fresh, RequestConsistent, RowConsistent, Refresh, Send, GoTo
<1> QED  BY <1>1, <1>2, <1>3, <1>4, <1>5, <1>6, <1>7

LEMMA ProtectedIInv ==
    ASSUME IInv, NEW r \in Requests, NEW t \in Tokens,
           NEW what \in {"logout", "changePassword"}, Protected(r, t, what)
    PROVE  IInv'
<1> USE DEF IInv
<1>1. TypeOK'
  BY DEF TypeOK, Tokens, Row, History, RequestConsistent, Protected, Send, GoTo
<1>2. Fresh'
  BY DEF TypeOK, Fresh, RequestConsistent, Protected, Send, GoTo
<1>3. IssuedIsStored'
  BY DEF TypeOK, IssuedIsStored, RequestConsistent, Protected, Send, GoTo
<1>4. ASSUME NEW p \in Requests PROVE RequestConsistent(p)'
  BY <1>4 DEF TypeOK, Tokens, Fresh, IssuedIsStored, RequestConsistent, Protected, Send, GoTo
<1>5. ASSUME NEW p \in Requests PROVE HistoryConsistent(p)'
  BY <1>5
     DEF TypeOK, Tokens, History, Fresh, RequestConsistent, HistoryConsistent, Protected, Send,
         GoTo
<1>6. ASSUME NEW p \in Requests PROVE LetThroughConsistent(p)'
  BY <1>6 DEF TypeOK, Tokens, Fresh, RequestConsistent, HistoryConsistent,
     LetThroughConsistent, LetThrough, Accepted, Refreshed, RowConsistent, IssuedIsStored,
     Protected, Send, GoTo
<1>7. ASSUME NEW s \in Sids' PROVE RowConsistent(s)'
  BY <1>7 DEF TypeOK, Tokens, Fresh, RequestConsistent, RowConsistent, Protected, Send, GoTo
<1> QED  BY <1>1, <1>2, <1>3, <1>4, <1>5, <1>6, <1>7

LEMMA RefuseIInv ==
    ASSUME IInv, NEW r \in Requests, NEW what \in Uses \ {"none"}, Refuse(r, what)
    PROVE  IInv'
<1> USE DEF IInv
<1>1. TypeOK'
  BY DEF TypeOK, Tokens, Row, History, RequestConsistent, Refuse, Send, Answer
<1>2. Fresh'
  BY DEF TypeOK, Fresh, RequestConsistent, Refuse, Send, Answer
<1>3. IssuedIsStored'
  BY DEF TypeOK, IssuedIsStored, RequestConsistent, Refuse, Send, Answer
<1>4. ASSUME NEW p \in Requests PROVE RequestConsistent(p)'
  BY <1>4 DEF TypeOK, Tokens, Fresh, IssuedIsStored, RequestConsistent, Refuse, Send, Answer
<1>5. ASSUME NEW p \in Requests PROVE HistoryConsistent(p)'
  BY <1>5
     DEF TypeOK, Tokens, History, Fresh, RequestConsistent, HistoryConsistent, Refuse, Send,
         Answer
<1>6. ASSUME NEW p \in Requests PROVE LetThroughConsistent(p)'
  BY <1>6 DEF TypeOK, Tokens, Fresh, RequestConsistent, HistoryConsistent,
     LetThroughConsistent, LetThrough, Accepted, Refreshed, RowConsistent, IssuedIsStored,
     Refuse, Send, Answer
<1>7. ASSUME NEW s \in Sids' PROVE RowConsistent(s)'
  BY <1>7 DEF TypeOK, Tokens, Fresh, RequestConsistent, RowConsistent, Refuse, Send, Answer
<1> QED  BY <1>1, <1>2, <1>3, <1>4, <1>5, <1>6, <1>7

LEMMA FindIInv ==
    ASSUME IInv, NEW r \in Requests, Find(r)
    PROVE  IInv'
<1> USE DEF IInv
<1>1. TypeOK'
  <2>1. /\ UNCHANGED <<recordsParent, token, use, owner, sessions, removed, late, asOf>>
        /\ Answer(r, 401) \/ GoTo(r, "revoke") \/ GoTo(r, "findChild")
    BY DEF Find
  <2> QED  BY <2>1 DEF TypeOK, GoTo, Answer
<1>2. Fresh'
  BY DEF TypeOK, Fresh, RequestConsistent, Find, GoTo, Answer
<1>3. IssuedIsStored'
  BY DEF TypeOK, IssuedIsStored, RequestConsistent, Find, GoTo, Answer
<1>4. ASSUME NEW p \in Requests PROVE RequestConsistent(p)'
  BY <1>4 DEF TypeOK, Tokens, Fresh, IssuedIsStored, RequestConsistent, Find, GoTo, Answer
<1>5. ASSUME NEW p \in Requests PROVE HistoryConsistent(p)'
  <2>1. /\ UNCHANGED <<removed, asOf>> /\ Revoked' = Revoked
        /\ Answered \subseteq Answered'
    BY DEF TypeOK, RequestConsistent, Find, GoTo, Answer
  <2> HIDE DEF Revoked, Answered
  <2> QED  BY <1>5, <2>1 DEF HistoryConsistent
<1>6. ASSUME NEW p \in Requests PROVE LetThroughConsistent(p)'
  BY <1>6 DEF TypeOK, Tokens, Fresh, RequestConsistent, HistoryConsistent,
     LetThroughConsistent, LetThrough, Accepted, Refreshed, RowConsistent, IssuedIsStored, Find,
     GoTo, Answer
<1>7. ASSUME NEW s \in Sids' PROVE RowConsistent(s)'
  BY <1>7 DEF TypeOK, Tokens, Fresh, RequestConsistent, RowConsistent, Find, GoTo, Answer
<1> QED  BY <1>1, <1>2, <1>3, <1>4, <1>5, <1>6, <1>7

LEMMA FindChildIInv ==
    ASSUME IInv, NEW r \in Requests, FindChild(r)
    PROVE  IInv'
<1> USE DEF IInv
<1>1. TypeOK'
  <2>1. owner' \in [Requests -> Users \cup {NoSession}]
    BY DEF TypeOK, Tokens, RequestConsistent, FindChild
  <2>2. /\ UNCHANGED <<recordsParent, token, use, sessions, removed, late, asOf>>
        /\ GoTo(r, "revoke") \/ GoTo(r, "create")
    BY DEF FindChild
  <2> QED  BY <2>1, <2>2 DEF TypeOK, GoTo
<1>2. Fresh'
  BY DEF TypeOK, Fresh, RequestConsistent, FindChild, GoTo
<1>3. IssuedIsStored'
  BY DEF TypeOK, IssuedIsStored, RequestConsistent, FindChild, GoTo
<1>4. ASSUME NEW p \in Requests PROVE RequestConsistent(p)'
  BY <1>4 DEF TypeOK, Tokens, Fresh, IssuedIsStored, RequestConsistent, FindChild, GoTo
<1>5. ASSUME NEW p \in Requests PROVE HistoryConsistent(p)'
  BY <1>5
     DEF TypeOK, Tokens, History, Fresh, RequestConsistent, HistoryConsistent, FindChild, GoTo
<1>6. ASSUME NEW p \in Requests PROVE LetThroughConsistent(p)'
  BY <1>6 DEF TypeOK, Tokens, Fresh, RequestConsistent, HistoryConsistent,
     LetThroughConsistent, LetThrough, Accepted, Refreshed, RowConsistent, IssuedIsStored,
     FindChild, GoTo
<1>7. ASSUME NEW s \in Sids' PROVE RowConsistent(s)'
  BY <1>7 DEF TypeOK, Tokens, Fresh, RequestConsistent, RowConsistent, FindChild, GoTo
<1> QED  BY <1>1, <1>2, <1>3, <1>4, <1>5, <1>6, <1>7

LEMMA RevokeIInv ==
    ASSUME IInv, NEW r \in Requests, Revoke(r)
    PROVE  IInv'
<1> USE DEF IInv
<1>1. TypeOK'
  <2>1. ASSUME NEW s \in Sids PROVE [sessions[s] EXCEPT !.revoked = TRUE] \in Row
    <3>1. sessions[s] \in Row
      BY DEF TypeOK
    <3> QED  BY <3>1 DEF Row
  <2>2. sessions' \in [Sids -> Row]
    BY <2>1 DEF TypeOK, Revoke
  <2> QED  BY <2>2 DEF TypeOK, Revoke, Answer
<1>2. Fresh'
  BY DEF TypeOK, Fresh, RequestConsistent, Revoke, Answer
<1>3. IssuedIsStored'
  BY DEF TypeOK, IssuedIsStored, RequestConsistent, Revoke, Answer
<1>4. ASSUME NEW p \in Requests PROVE RequestConsistent(p)'
  BY <1>4 DEF TypeOK, Tokens, Fresh, IssuedIsStored, RequestConsistent, Revoke, Answer
<1>5. ASSUME NEW p \in Requests PROVE HistoryConsistent(p)'
  <2>1. Revoked \subseteq Revoked' /\ Answered \subseteq Answered' /\ UNCHANGED <<removed, asOf>>
    BY DEF TypeOK, Row, RequestConsistent, Revoke, Answer
  <2> HIDE DEF Revoked, Answered
  <2> QED  BY <1>5, <2>1 DEF HistoryConsistent
<1>6. ASSUME NEW p \in Requests PROVE LetThroughConsistent(p)'
  BY <1>6 DEF TypeOK, Tokens, Fresh, RequestConsistent, HistoryConsistent,
     LetThroughConsistent, LetThrough, Accepted, Refreshed, RowConsistent, IssuedIsStored,
     Revoke, Answer
<1>7. ASSUME NEW s \in Sids' PROVE RowConsistent(s)'
  BY <1>7 DEF TypeOK, Tokens, Fresh, RequestConsistent, RowConsistent, Revoke, Answer
<1> QED  BY <1>1, <1>2, <1>3, <1>4, <1>5, <1>6, <1>7

LEMMA CreateIInv ==
    ASSUME IInv, NEW r \in Requests, Create(r)
    PROVE  IInv'
<1> USE DEF IInv
<1>1. TypeOK'
  <2>1. StoredRow(r) \in Row
    <3>1. owner[r] \in Users /\ StoredRow(r).parent \in Requests \cup {NoSession}
      BY DEF TypeOK, RequestConsistent, Create, ParentExists
    <3> QED  BY <3>1, RowStored DEF Row, Tokens
  <2>2. sessions' \in [Sids' -> Row] /\ Sids' \subseteq Requests
    BY <2>1 DEF TypeOK, Create, Inserted
  <2> QED  BY <2>2 DEF TypeOK, Create, Answer
<1>2. Fresh'
  BY DEF TypeOK, Fresh, RequestConsistent, Create, Inserted, Answer
<1>3. IssuedIsStored'
  BY DEF TypeOK, IssuedIsStored, RequestConsistent, Create, Inserted, Answer
<1>4. ASSUME NEW p \in Requests PROVE RequestConsistent(p)'
  BY <1>4
     DEF TypeOK, Tokens, Fresh, IssuedIsStored, RequestConsistent, Create, Inserted, Answer
<1>5. ASSUME NEW p \in Requests PROVE HistoryConsistent(p)'
  <2>1. UNCHANGED <<removed, asOf>> /\ Answered \subseteq Answered'
    BY DEF TypeOK, RequestConsistent, Create, Answer
  <2>2. Revoked \subseteq Revoked'
    BY DEF Fresh, Create, Inserted
  <2> HIDE DEF Revoked, Answered
  <2> QED  BY <1>5, <2>1, <2>2 DEF HistoryConsistent
<1>6. ASSUME NEW p \in Requests PROVE LetThroughConsistent(p)'
  BY <1>6 DEF TypeOK, Tokens, Fresh, RequestConsistent, HistoryConsistent,
     LetThroughConsistent, LetThrough, Accepted, Refreshed, RowConsistent, IssuedIsStored,
     Create, Inserted, Answer
<1>7. ASSUME NEW s \in Sids' PROVE RowConsistent(s)'
  BY <1>7, RowStored
     DEF TypeOK, Tokens, Fresh, RequestConsistent, RowConsistent, Create, Inserted, ParentExists,
         Answer
<1> QED  BY <1>1, <1>2, <1>3, <1>4, <1>5, <1>6, <1>7

LEMMA AuthIInv ==
    ASSUME IInv, NEW r \in Requests, Auth(r)
    PROVE  IInv'
<1> USE DEF IInv
<1>1. TypeOK'
  <2>1. /\ UNCHANGED <<recordsParent, token, use, owner, sessions, removed, late, asOf>>
        /\ Answer(r, 401) \/ GoTo(r, "delete") \/ GoTo(r, "update")
    BY DEF Auth
  <2> QED  BY <2>1 DEF TypeOK, GoTo, Answer
<1>2. Fresh'
  BY DEF TypeOK, Fresh, RequestConsistent, Auth, Authorised, GoTo, Answer
<1>3. IssuedIsStored'
  BY DEF TypeOK, IssuedIsStored, RequestConsistent, Auth, Authorised, GoTo, Answer
<1>4. ASSUME NEW p \in Requests PROVE RequestConsistent(p)'
  BY <1>4
     DEF TypeOK, Tokens, Fresh, IssuedIsStored, RequestConsistent, Auth, Authorised, GoTo,
         Answer
<1>5. ASSUME NEW p \in Requests PROVE HistoryConsistent(p)'
  <2>1. /\ pc[r] = "auth"
        /\ UNCHANGED <<recordsParent, token, use, owner, sessions, removed, late, asOf>>
        /\ Answer(r, 401) \/ GoTo(r, "delete") \/ GoTo(r, "update")
    BY DEF Auth
  <2> QED  BY <2>1 DEF TypeOK, RequestConsistent, HistoryConsistent, GoTo, Answer
<1>6. ASSUME NEW p \in Requests PROVE LetThroughConsistent(p)'
  BY <1>6 DEF TypeOK, Tokens, Fresh, RequestConsistent, HistoryConsistent,
     LetThroughConsistent, LetThrough, Accepted, Refreshed, RowConsistent, IssuedIsStored, Auth,
     Authorised, GoTo, Answer
<1>7. ASSUME NEW s \in Sids' PROVE RowConsistent(s)'
  BY <1>7
     DEF TypeOK, Tokens, Fresh, RequestConsistent, RowConsistent, Auth, Authorised, GoTo, Answer
<1> QED  BY <1>1, <1>2, <1>3, <1>4, <1>5, <1>6, <1>7

LEMMA DeleteIInv ==
    ASSUME IInv, NEW r \in Requests, Delete(r)
    PROVE  IInv'
<1> USE DEF IInv
<1>1. TypeOK'
  BY DescendantsStored DEF TypeOK, Tokens, Row, History, RequestConsistent, Delete, Answer
<1>2. Fresh'
  BY DescendantsStored DEF TypeOK, Fresh, RequestConsistent, Delete, Answer
<1>3. IssuedIsStored'
  BY DescendantsStored DEF TypeOK, IssuedIsStored, RequestConsistent, Delete, Answer
<1>4. ASSUME NEW p \in Requests PROVE RequestConsistent(p)'
  BY <1>4, DescendantsStored
     DEF TypeOK, Tokens, Fresh, IssuedIsStored, RequestConsistent, Delete, Answer
<1>5. ASSUME NEW p \in Requests PROVE HistoryConsistent(p)'
  <2>1. Answered \subseteq Answered' /\ UNCHANGED asOf /\ removed \subseteq removed'
    BY DEF TypeOK, RequestConsistent, Delete, Answer
  <2>2. Revoked \subseteq Revoked' \cup removed'
    BY DEF Delete
  <2> HIDE DEF Revoked, Answered
  <2> QED  BY <1>5, <2>1, <2>2 DEF HistoryConsistent
<1>6. ASSUME NEW p \in Requests PROVE LetThroughConsistent(p)'
  BY <1>6, DescendantsStored DEF TypeOK, Tokens, Fresh, RequestConsistent, HistoryConsistent,
     LetThroughConsistent, LetThrough, Accepted, Refreshed, RowConsistent, IssuedIsStored,
     Delete, Answer
<1>7. ASSUME NEW s \in Sids' PROVE RowConsistent(s)'
  BY <1>7, DescendantsStored, DescendantsClosed
     DEF TypeOK, Tokens, Fresh, RequestConsistent, RowConsistent, Delete, Answer
<1> QED  BY <1>1, <1>2, <1>3, <1>4, <1>5, <1>6, <1>7

LEMMA UpdateIInv ==
    ASSUME IInv, NEW r \in Requests, Update(r)
    PROVE  IInv'
<1> USE DEF IInv
<1>1. TypeOK'
  BY DEF TypeOK, Tokens, Row, History, RequestConsistent, Update, Answer
<1>2. Fresh'
  BY DEF TypeOK, Fresh, RequestConsistent, Update, Answer
<1>3. IssuedIsStored'
  BY DEF TypeOK, IssuedIsStored, RequestConsistent, Update, Answer
<1>4. ASSUME NEW p \in Requests PROVE RequestConsistent(p)'
  BY <1>4 DEF TypeOK, Tokens, Fresh, IssuedIsStored, RequestConsistent, Update, Answer
<1>5. ASSUME NEW p \in Requests PROVE HistoryConsistent(p)'
  BY <1>5
     DEF TypeOK, Tokens, History, Fresh, RequestConsistent, HistoryConsistent, Update, Answer
<1>6. ASSUME NEW p \in Requests PROVE LetThroughConsistent(p)'
  BY <1>6 DEF TypeOK, Tokens, Fresh, RequestConsistent, HistoryConsistent,
     LetThroughConsistent, LetThrough, Accepted, Refreshed, RowConsistent, IssuedIsStored,
     Update, Answer
<1>7. ASSUME NEW s \in Sids' PROVE RowConsistent(s)'
  BY <1>7 DEF TypeOK, Tokens, Fresh, RequestConsistent, RowConsistent, Update, Answer
<1> QED  BY <1>1, <1>2, <1>3, <1>4, <1>5, <1>6, <1>7

LEMMA QueryFailsIInv ==
    ASSUME IInv, NEW r \in Requests, QueryFails(r)
    PROVE  IInv'
<1> USE DEF IInv
<1>1. TypeOK'
  BY DEF TypeOK, Tokens, Row, History, RequestConsistent, QueryFails, Answer
<1>2. Fresh'
  BY DEF TypeOK, Fresh, RequestConsistent, QueryFails, Answer
<1>3. IssuedIsStored'
  BY DEF TypeOK, IssuedIsStored, RequestConsistent, QueryFails, Answer
<1>4. ASSUME NEW p \in Requests PROVE RequestConsistent(p)'
  BY <1>4 DEF TypeOK, Tokens, Fresh, IssuedIsStored, RequestConsistent, QueryFails, Answer
<1>5. ASSUME NEW p \in Requests PROVE HistoryConsistent(p)'
  BY <1>5
     DEF TypeOK, Tokens, History, Fresh, RequestConsistent, HistoryConsistent, QueryFails,
         Answer
<1>6. ASSUME NEW p \in Requests PROVE LetThroughConsistent(p)'
  BY <1>6 DEF TypeOK, Tokens, Fresh, RequestConsistent, HistoryConsistent,
     LetThroughConsistent, LetThrough, Accepted, Refreshed, RowConsistent, IssuedIsStored,
     QueryFails, Answer
<1>7. ASSUME NEW s \in Sids' PROVE RowConsistent(s)'
  BY <1>7 DEF TypeOK, Tokens, Fresh, RequestConsistent, RowConsistent, QueryFails, Answer
<1> QED  BY <1>1, <1>2, <1>3, <1>4, <1>5, <1>6, <1>7

LEMMA CrashIInv ==
    ASSUME IInv, Crash
    PROVE  IInv'
<1> USE DEF IInv
<1>1. TypeOK'
  BY DEF TypeOK, Tokens, Row, History, RequestConsistent, Crash
<1>2. Fresh'
  BY DEF TypeOK, Fresh, RequestConsistent, Crash
<1>3. IssuedIsStored'
  BY DEF TypeOK, IssuedIsStored, RequestConsistent, Crash
<1>4. ASSUME NEW p \in Requests PROVE RequestConsistent(p)'
  BY <1>4 DEF TypeOK, Tokens, Fresh, IssuedIsStored, RequestConsistent, Crash
<1>5. ASSUME NEW p \in Requests PROVE HistoryConsistent(p)'
  BY <1>5 DEF TypeOK, Tokens, History, Fresh, RequestConsistent, HistoryConsistent, Crash
<1>6. ASSUME NEW p \in Requests PROVE LetThroughConsistent(p)'
  BY <1>6 DEF TypeOK, Tokens, Fresh, RequestConsistent, HistoryConsistent,
     LetThroughConsistent, LetThrough, Accepted, Refreshed, RowConsistent, IssuedIsStored, Crash
<1>7. ASSUME NEW s \in Sids' PROVE RowConsistent(s)'
  BY <1>7 DEF TypeOK, Tokens, Fresh, RequestConsistent, RowConsistent, Crash
<1> QED  BY <1>1, <1>2, <1>3, <1>4, <1>5, <1>6, <1>7

LEMMA NextIInv == IInv /\ [Next]_vars => IInv'
<1> SUFFICES ASSUME IInv, [Next]_vars PROVE IInv'
  OBVIOUS
<1>1. ASSUME NEW r \in Requests, Arrive(r) PROVE IInv'
  BY <1>1, LoginIInv, RefreshIInv, ProtectedIInv, RefuseIInv DEF Arrive
<1>2. ASSUME NEW r \in Requests, Step(r) PROVE IInv'
  BY <1>2, FindIInv, FindChildIInv, RevokeIInv, CreateIInv, AuthIInv, DeleteIInv,
     UpdateIInv, QueryFailsIInv DEF Step
<1>3. CASE Crash
  BY <1>3, CrashIInv
<1>4. CASE UNCHANGED vars
  BY <1>4 DEF vars, IInv, TypeOK, Fresh, IssuedIsStored, RequestConsistent, HistoryConsistent,
              LetThroughConsistent, LetThrough, Accepted, Refreshed, RowConsistent
<1> QED  BY <1>1, <1>2, <1>3, <1>4 DEF Next

(* The inductive invariant holds of every state the requests reach. *)
THEOREM Invariance == Spec => []IInv
<1> QED  BY InitIInv, NextIInv, PTL DEF Spec

-----------------------------------------------------------------------------
(* Requests and rows of the table stay in their sets. *)
THEOREM TypeCorrect == Spec => []TypeOK
<1>1. IInv => TypeOK
  BY DEF IInv
<1> QED  BY <1>1, Invariance, PTL

(* No client holds tokens whose session was never stored. *)
THEOREM IssuedAreStored == Spec => []IssuedIsStored
<1>1. IInv => IssuedIsStored
  BY DEF IInv
<1> QED  BY <1>1, Invariance, PTL

(* A deleted session never comes back, whatever was in flight. *)
THEOREM DeletionIsFinal == Spec => []DeletedStaysDeleted
<1>1. IInv => DeletedStaysDeleted
  BY DEF IInv, Fresh, DeletedStaysDeleted
<1> QED  BY <1>1, Invariance, PTL

(* Nothing that is sent after the deletion of its session is accepted. *)
THEOREM LoggedOutIsDenied == Spec => []DeniedAfterLogout
<1>1. IInv => DeniedAfterLogout
  BY DEF IInv, LetThroughConsistent, LetThrough, Accepted, DeniedAfterLogout
<1> QED  BY <1>1, Invariance, PTL

(* No refresh that is sent after the revocation of its session is accepted. *)
THEOREM RevokedIsDenied == Spec => []DeniedAfterRevocation
<1>1. IInv => DeniedAfterRevocation
  BY DEF IInv, RequestConsistent, LetThroughConsistent, LetThrough, Accepted, Refreshed,
         DeniedAfterRevocation
<1> QED  BY <1>1, Invariance, PTL

(* A family of sessions has one user: the sessions of a's user are closed  *)
(* under children, so hold all the descendants of a.                       *)
THEOREM FamiliesHaveOneUser == Spec => []FamilyOfOneUser
<1>1. ASSUME IInv PROVE FamilyOfOneUser
  <2> SUFFICES ASSUME NEW s \in Sids, NEW a \in Sids, s \in Descendants(a)
               PROVE  sessions[a].user = sessions[s].user
    BY DEF FamilyOfOneUser, Ancestry
  <2> DEFINE Same == {c \in Sids : sessions[c].user = sessions[a].user}
  <2>1. ASSUME NEW c \in Sids, sessions[c].parent \in Same
        PROVE  c \in Same
    <3>1. /\ recordsParent
          /\ sessions[c].parent = token[c].sid
          /\ token[c] # NoToken
      BY <1>1, <2>1 DEF IInv, TypeOK, RowConsistent
    <3>2. owner[c] = owner[token[c].sid]
      BY <1>1, <3>1 DEF IInv, TypeOK, RequestConsistent
    <3> QED  BY <1>1, <2>1, <3>1, <3>2 DEF IInv, RowConsistent
  <2>2. a \in Same /\ Same \in SUBSET Sids
    OBVIOUS
  <2>3. s \in Same
    BY <2>1, <2>2 DEF Descendants
  <2> QED  BY <2>3
<1> QED  BY <1>1, Invariance, PTL

(* Revocation is never taken back. *)
THEOREM RevocationIsFinal == Spec => RevokedForGood
<1>1. ASSUME IInv, [Next]_vars, NEW s \in Revoked
      PROVE  s \in Revoked' \cup removed'
  <2>1. ASSUME NEW r \in Requests, Arrive(r) PROVE s \in Revoked'
    BY <2>1 DEF Arrive, Login, Refresh, Protected, Refuse, Send
  <2>2. ASSUME NEW r \in Requests, Revoke(r) PROVE s \in Revoked'
    BY <1>1, <2>2 DEF IInv, TypeOK, Row, Revoke
  <2>3. ASSUME NEW r \in Requests, Create(r) PROVE s \in Revoked'
    BY <1>1, <2>3 DEF IInv, Fresh, Create, Inserted
  <2>4. ASSUME NEW r \in Requests, Delete(r) PROVE s \in Revoked' \cup removed'
    BY <1>1, <2>4 DEF Delete
  <2>5. ASSUME NEW r \in Requests,
               Find(r) \/ FindChild(r) \/ Auth(r) \/ Update(r) \/ QueryFails(r)
        PROVE  s \in Revoked'
    BY <2>5 DEF Find, FindChild, Auth, Update, QueryFails
  <2>6. CASE Crash
    BY <2>6 DEF Crash
  <2>7. CASE UNCHANGED vars
    BY <2>7 DEF vars
  <2> QED  BY <1>1, <2>1, <2>2, <2>3, <2>4, <2>5, <2>6, <2>7 DEF Next, Step
<1>2. IInv /\ [Next]_vars => [\A s \in Revoked : s \in Revoked' \cup removed']_vars
  BY <1>1
<1> QED  BY <1>2, Invariance, PTL DEF Spec, RevokedForGood
-----------------------------------------------------------------------------
(* Nobody is revoked for nothing.  ReuseInv is inductive where IInv holds; *)
(* what has to be shown is that the ancestor a session is blamed for stays *)
(* in the table as long as the session does, and that what was presented   *)
(* twice was.                                                              *)

(* Descendants of descendants are descendants. *)
LEMMA DescendantsTransitive ==
    ASSUME NEW t, NEW a \in Descendants(t), NEW d \in Descendants(a)
    PROVE  d \in Descendants(t)
<1> SUFFICES ASSUME NEW S \in SUBSET Sids, t \in S,
                    \A c \in Sids : sessions[c].parent \in S => c \in S
             PROVE  d \in S
  BY DEF Descendants
<1>1. a \in S
  BY DEF Descendants
<1> QED  BY <1>1 DEF Descendants

(* A set of the new rows that is closed under children holds a descendant  *)
(* of the old ones, when the rows have kept their parents.                 *)
LEMMA AncestorsStay ==
    ASSUME Sids \subseteq Sids', \A c \in Sids : sessions'[c].parent = sessions[c].parent,
           NEW s \in Sids, NEW a \in Ancestry(s)
    PROVE  a \in Ancestry(s)'
<1>1. a \in Sids /\ s \in Descendants(a)
  BY DEF Ancestry
<1>2. ASSUME NEW S \in SUBSET Sids', a \in S,
             \A c \in Sids' : sessions'[c].parent \in S => c \in S
      PROVE  s \in S
  <2>1. \A c \in Sids : sessions[c].parent \in S \cap Sids => c \in S \cap Sids
    BY <1>2
  <2>2. a \in S \cap Sids
    BY <1>1, <1>2
  <2> HIDE DEF Sids
  <2>3. S \cap Sids \in SUBSET Sids
    OBVIOUS
  <2> QED  BY <1>1, <2>1, <2>2, <2>3 DEF Descendants
<1> QED  BY <1>1, <1>2 DEF Ancestry, Descendants

(* What a deletion leaves keeps its ancestors: one that was deleted would  *)
(* have taken it along.                                                    *)
LEMMA AncestorsSurvive ==
    ASSUME NEW t, sessions' = [s \in Sids \ Descendants(t) |-> sessions[s]],
           NEW s \in Sids', NEW a \in Ancestry(s)
    PROVE  a \in Ancestry(s)'
<1> DEFINE gone == Descendants(t)
<1>1. a \in Sids /\ s \in Descendants(a) /\ s \notin gone /\ Sids' = Sids \ gone
  BY DEF Ancestry
<1>2. a \in Sids'
  BY <1>1, DescendantsTransitive
<1>3. ASSUME NEW S \in SUBSET Sids', a \in S,
             \A c \in Sids' : sessions'[c].parent \in S => c \in S
      PROVE  s \in S
  <2>1. ASSUME NEW c \in Sids, sessions[c].parent \in S \cup gone
        PROVE  c \in S \cup gone
    <3>1. CASE c \in gone
      BY <3>1
    <3>2. CASE c \notin gone
      <4>1. sessions[c].parent \in S
        BY <2>1, <3>2, DescendantsClosed
      <4> QED  BY <1>1, <1>3, <3>2, <4>1
    <3> QED  BY <3>1, <3>2
  <2>2. S \cup gone \in SUBSET Sids
    BY <1>1, DescendantsStored
  <2>3. s \in S \cup gone
    BY <1>1, <1>3, <2>1, <2>2 DEF Descendants
  <2> QED  BY <1>1, <2>3
<1> QED  BY <1>1, <1>2, <1>3 DEF Ancestry, Descendants

(* What a request presents, it has presented for good. *)
LEMMA ReusedStays ==
    ASSUME IInv, [Next]_vars, NEW a, Reused(a)
    PROVE  Reused(a)'
<1>1. ASSUME NEW q \in Requests, use[q] = "refresh"
      PROVE  use'[q] = use[q] /\ token'[q] = token[q]
  <2>1. pc[q] # "unsent"
    BY <1>1 DEF IInv, RequestConsistent
  <2>2. ASSUME NEW r \in Requests, Arrive(r)
        PROVE  use'[q] = use[q] /\ token'[q] = token[q]
    BY <2>1, <2>2 DEF IInv, TypeOK, Arrive, Login, Refresh, Protected, Refuse, Send
  <2>3. ASSUME NEW r \in Requests, Step(r)
        PROVE  use'[q] = use[q] /\ token'[q] = token[q]
    BY <2>3 DEF Step, Find, FindChild, Revoke, Create, Auth, Delete, Update, QueryFails
  <2>4. CASE Crash \/ UNCHANGED vars
    BY <2>4 DEF Crash, vars
  <2> QED  BY <2>2, <2>3, <2>4 DEF Next
<1>2. PICK q, r \in Requests : /\ q # r
                               /\ use[q] = "refresh" /\ use[r] = "refresh"
                               /\ token[q].sid = a /\ token[r].sid = a
  BY DEF Reused
<1> QED  BY <1>1, <1>2 DEF Reused

(* A session stays to blame as long as it is in the table. *)
LEMMA BlameStays ==
    ASSUME IInv, [Next]_vars, NEW s \in Sids, s \in Sids', Blamed(s)
    PROVE  Blamed(s)'
<1>1. PICK a \in Ancestry(s) : Reused(a)
  BY DEF Blamed
<1>2. Reused(a)'
  BY <1>1, ReusedStays
<1>3. a \in Ancestry(s)'
  <2>1. ASSUME NEW r \in Requests, Revoke(r) PROVE a \in Ancestry(s)'
    <3>1. Sids' = Sids /\ \A c \in Sids : sessions'[c].parent = sessions[c].parent
      BY <2>1 DEF Revoke
    <3> QED  BY <3>1, <1>1, AncestorsStay
  <2>2. ASSUME NEW r \in Requests, Create(r) PROVE a \in Ancestry(s)'
    <3>1. Sids \subseteq Sids' /\ \A c \in Sids : sessions'[c].parent = sessions[c].parent
      BY <2>2 DEF IInv, Fresh, Create, Inserted
    <3> QED  BY <3>1, <1>1, AncestorsStay
  <2>3. ASSUME NEW r \in Requests, Delete(r) PROVE a \in Ancestry(s)'
    BY <2>3, <1>1, AncestorsSurvive DEF Delete
  <2>4. CASE sessions' = sessions
    <3>1. Sids \subseteq Sids' /\ \A c \in Sids : sessions'[c].parent = sessions[c].parent
      BY <2>4
    <3> QED  BY <3>1, <1>1, AncestorsStay
  <2> QED  BY <2>1, <2>2, <2>3, <2>4
           DEF Next, Arrive, Login, Refresh, Protected, Refuse, Send, Step, Find, FindChild,
               Auth, Update, QueryFails, Crash, vars
<1> QED  BY <1>2, <1>3 DEF Blamed

(* Every session is its own ancestor. *)
LEMMA OwnAncestor ==
    ASSUME NEW s \in Sids
    PROVE  s \in Ancestry(s)
  BY DEF Ancestry, Descendants

(* What a look-up finds out before it revokes. *)
LEMMA FindBlames ==
    ASSUME IInv, ReuseInv, NEW r \in Requests, Find(r) \/ FindChild(r),
           pc'[r] = "revoke", token[r].sid \in Sids
    PROVE  Blamed(token[r].sid)
<1>1. CASE Find(r)
  <2>1. sessions[token[r].sid].revoked
    BY <1>1 DEF IInv, TypeOK, Find, GoTo, Answer
  <2> QED  BY <2>1 DEF ReuseInv, RevokedForReuse
<1>2. CASE FindChild(r)
  <2>1. PICK c \in Sids : sessions[c].parent = token[r].sid
    BY <1>2 DEF IInv, TypeOK, FindChild, GoTo
  <2>2. token[r] # NoToken /\ use[r] = "refresh" /\ pc[r] = "findChild"
    BY <1>2 DEF IInv, RequestConsistent, FindChild
  <2>3. token[c].sid = token[r].sid /\ c \in Requests
    BY <2>1 DEF IInv, TypeOK, RowConsistent
  <2>4. c # r /\ use[c] = "refresh"
    BY <2>2, <2>3 DEF IInv, Fresh, TypeOK, Tokens, RequestConsistent
  <2>5. Reused(token[r].sid)
    BY <2>2, <2>3, <2>4 DEF Reused
  <2> QED  BY <2>5, OwnAncestor DEF Blamed
<1> QED  BY <1>1, <1>2

LEMMA ReuseInvInductive ==
    ASSUME IInv, ReuseInv, [Next]_vars
    PROVE  ReuseInv'
<1>1. ASSUME NEW s \in Revoked' PROVE Blamed(s)'
  <2>1. CASE s \in Revoked
    BY <1>1, <2>1, BlameStays DEF ReuseInv, RevokedForReuse
  <2>2. CASE s \notin Revoked
    <3>1. PICK r \in Requests : Revoke(r) /\ s \in Descendants(token[r].sid)
      <4>1. ASSUME NEW r \in Requests, Arrive(r) PROVE FALSE
        BY <1>1, <2>2, <4>1 DEF Arrive, Login, Refresh, Protected, Refuse, Send
      <4>2. ASSUME NEW r \in Requests, Create(r) PROVE FALSE
        BY <1>1, <2>2, <4>2, RowStored DEF Create, Inserted
      <4>3. ASSUME NEW r \in Requests, Delete(r) PROVE FALSE
        BY <1>1, <2>2, <4>3 DEF Delete
      <4>4. ASSUME NEW r \in Requests, Revoke(r) PROVE s \in Descendants(token[r].sid)
        BY <1>1, <2>2, <4>4 DEF Revoke
      <4>5. ASSUME NEW r \in Requests,
                   Find(r) \/ FindChild(r) \/ Auth(r) \/ Update(r) \/ QueryFails(r)
            PROVE  FALSE
        BY <1>1, <2>2, <4>5 DEF Find, FindChild, Auth, Update, QueryFails
      <4>6. ~Crash /\ ~UNCHANGED vars
        BY <1>1, <2>2 DEF Crash, vars
      <4> QED  BY <4>1, <4>2, <4>3, <4>4, <4>5, <4>6 DEF Next, Step
    <3> DEFINE t == token[r].sid
    <3>2. t \in Sids /\ s \in Sids /\ s \in Sids'
      <4>1. t \in Sids
        BY <3>1 DEF Descendants
      <4> QED  BY <3>1, <4>1, <1>1, DescendantsStored
    <3>3. PICK a \in Ancestry(t) : Reused(a)
      BY <3>1, <3>2 DEF ReuseInv, Revoke, Blamed
    <3>4. a \in Ancestry(s)
      BY <3>1, <3>2, <3>3, DescendantsTransitive DEF Ancestry
    <3> QED  BY <3>2, <3>3, <3>4, BlameStays DEF Blamed
  <2> QED  BY <2>1, <2>2
<1>2. ASSUME NEW r \in Requests, pc'[r] = "revoke", token'[r].sid \in Sids'
      PROVE  Blamed(token[r].sid)' /\ token'[r] = token[r]
  <2> DEFINE Kept == token'[r] = token[r] /\ token[r].sid \in Sids /\ Blamed(token[r].sid)
  <2>1. Kept
    <3>1. ASSUME NEW q \in Requests, Arrive(q)
          PROVE  Kept
      <4>1. pc[r] = "revoke" /\ r # q
        BY <1>2, <3>1 DEF IInv, TypeOK, Arrive, Login, Refresh, Protected, Refuse, Send, GoTo,
                          Answer
      <4>2. token'[r] = token[r] /\ Sids' = Sids
        BY <3>1, <4>1 DEF IInv, TypeOK, Arrive, Login, Refresh, Protected, Refuse, Send
      <4> QED  BY <1>2, <4>1, <4>2 DEF ReuseInv
    <3>2. ASSUME NEW q \in Requests, Create(q)
          PROVE  Kept
      <4>1. pc[r] = "revoke" /\ token' = token /\ Sids' = Sids \cup {q} /\ pc[q] = "create"
        BY <1>2, <3>2 DEF IInv, TypeOK, Create, Inserted, Answer
      <4>2. token[r].sid # q
        BY <1>2, <4>1 DEF IInv, RequestConsistent
      <4> QED  BY <1>2, <4>1, <4>2 DEF ReuseInv
    <3>3. ASSUME NEW q \in Requests, Revoke(q) \/ Delete(q)
          PROVE  Kept
      <4>1. pc[r] = "revoke" /\ token' = token /\ Sids' \subseteq Sids
        BY <1>2, <3>3 DEF IInv, TypeOK, Revoke, Delete, Answer
      <4> QED  BY <1>2, <4>1 DEF ReuseInv
    <3>4. ASSUME NEW q \in Requests, Find(q) \/ FindChild(q)
          PROVE  Kept
      <4>1. token' = token /\ sessions' = sessions
        BY <3>4 DEF Find, FindChild
      <4>2. r = q \/ pc[r] = "revoke"
        BY <1>2, <3>4 DEF IInv, TypeOK, Find, FindChild, GoTo, Answer
      <4> QED  BY <1>2, <3>4, <4>1, <4>2, FindBlames DEF ReuseInv
    <3>5. ASSUME NEW q \in Requests, Auth(q) \/ Update(q) \/ QueryFails(q)
          PROVE  Kept
      <4>1. token' = token /\ sessions' = sessions
        BY <3>5 DEF Auth, Update, QueryFails
      <4>2. pc[r] = "revoke"
        BY <1>2, <3>5 DEF IInv, TypeOK, Auth, Update, QueryFails, GoTo, Answer
      <4> QED  BY <1>2, <4>1, <4>2 DEF ReuseInv
    <3>6. CASE Crash \/ UNCHANGED vars
      BY <1>2, <3>6 DEF ReuseInv, Crash, vars
    <3> QED  BY <3>1, <3>2, <3>3, <3>4, <3>5, <3>6 DEF Next, Step
  <2> QED  BY <1>2, <2>1, BlameStays
<1> QED  BY <1>1, <1>2 DEF ReuseInv, RevokedForReuse

(* No false alarm: whatever is revoked has an ancestor, itself included,   *)
(* still in the table, that two requests have presented to refresh.        *)
THEOREM RevocationHasReason == Spec => []RevokedForReuse
<1>1. Init => ReuseInv
  BY DEF Init, ReuseInv, RevokedForReuse
<1>2. IInv /\ ReuseInv /\ [Next]_vars => ReuseInv'
  BY ReuseInvInductive
<1>3. ReuseInv => RevokedForReuse
  BY DEF ReuseInv
<1> QED  BY <1>1, <1>2, <1>3, Invariance, PTL DEF Spec

-----------------------------------------------------------------------------
(* What a revocation does not reach.  Of a row that is not revoked while   *)
(* its parent is, EscapeInv says that it escaped; below such a row a       *)
(* family may grow.                                                        *)
EscapeInv == \A s \in Sids \ Revoked : sessions[s].parent \in Revoked => Escaped(s)

LEMMA EscapedStays ==
    ASSUME NEW s, Escaped(s), s \in late', token'[s] = token[s], asOf'[s] = asOf[s],
           token[s].sid \in Revoked'
    PROVE  Escaped(s)'
  BY DEF Escaped

(* A parent that is recorded is the session whose token was presented. *)
LEMMA ParentIsPresented ==
    ASSUME IInv, NEW s \in Sids, sessions[s].parent \in Sids
    PROVE  recordsParent /\ sessions[s].parent = token[s].sid
  BY DEF IInv, TypeOK, RowConsistent

LEMMA EscapeInvInductive ==
    ASSUME IInv, EscapeInv, [Next]_vars
    PROVE  EscapeInv'
<1> SUFFICES ASSUME NEW s \in Sids' \ Revoked', sessions'[s].parent \in Revoked'
             PROVE  Escaped(s)'
  BY DEF EscapeInv
<1>1. ASSUME NEW r \in Requests, Create(r)
      PROVE  Escaped(s)'
  <2>1. /\ UNCHANGED <<token, asOf>>
        /\ late' = IF token[r].sid \in Revoked THEN late \cup {r} ELSE late
        /\ sessions' = Inserted(r) /\ r \notin Sids
    BY <1>1 DEF IInv, Fresh, Create
  <2>2. Revoked' = Revoked
    BY <2>1, RowStored DEF Inserted
  <2>3. CASE s = r
    <3>1. token[r].sid \in Revoked
      BY <2>1, <2>2, <2>3, RowStored DEF IInv, TypeOK, Inserted
    <3>2. token[r] # NoToken /\ pc[r] = "create"
      BY <1>1, <3>1 DEF IInv, TypeOK, Create
    <3>3. use[r] = "refresh"
      BY <3>2 DEF IInv, RequestConsistent
    <3>4. token[r].sid \notin asOf[r].revoked
      BY <3>2, <3>3 DEF IInv, LetThroughConsistent, LetThrough
    <3> QED  BY <2>1, <2>2, <2>3, <3>1, <3>4 DEF Escaped
  <2>4. CASE s # r
    <3>1. s \in Sids /\ sessions'[s] = sessions[s]
      BY <2>1, <2>4 DEF Inserted
    <3>2. Escaped(s) /\ token[s].sid \in Revoked'
      BY <2>2, <3>1 DEF EscapeInv, Escaped
    <3> QED  BY <2>1, <3>2, EscapedStays DEF Escaped
  <2> QED  BY <2>3, <2>4
<1>2. ASSUME NEW r \in Requests, Revoke(r)
      PROVE  Escaped(s)'
  <2>1. /\ UNCHANGED <<token, late, asOf>> /\ Sids' = Sids
        /\ sessions'[s].parent = sessions[s].parent
        /\ Revoked' = Revoked \cup Descendants(token[r].sid)
    BY <1>2, DescendantsStored DEF IInv, TypeOK, Row, Revoke
  <2>2. sessions[s].parent \notin Descendants(token[r].sid)
    BY <2>1, DescendantsClosed
  <2>3. Escaped(s)
    BY <2>1, <2>2 DEF EscapeInv
  <2> QED  BY <2>1, <2>3, EscapedStays DEF Escaped
<1>3. ASSUME NEW r \in Requests, Delete(r)
      PROVE  Escaped(s)'
  <2>1. /\ UNCHANGED <<token, late, asOf>> /\ s \in Sids \ Revoked
        /\ sessions'[s] = sessions[s] /\ Revoked' \subseteq Revoked
    BY <1>3 DEF Delete
  <2>2. Escaped(s)
    BY <2>1 DEF EscapeInv
  <2>3. token[s].sid \in Revoked'
    BY <2>1, ParentIsPresented
  <2> QED  BY <2>1, <2>2, <2>3, EscapedStays DEF Escaped
<1>4. ASSUME UNCHANGED <<sessions, late>>, token'[s] = token[s], asOf'[s] = asOf[s]
      PROVE  Escaped(s)'
  BY <1>4 DEF EscapeInv, Escaped
<1>5. ASSUME NEW r \in Requests, Arrive(r)
      PROVE  Escaped(s)'
  <2>1. /\ UNCHANGED <<sessions, late>> /\ pc[r] = "unsent"
        /\ \A q \in Requests : q # r => token'[q] = token[q] /\ asOf'[q] = asOf[q]
    BY <1>5 DEF IInv, TypeOK, Arrive, Login, Refresh, Protected, Refuse, Send
  <2>2. s # r /\ s \in Requests
    BY <2>1 DEF IInv, TypeOK, Fresh
  <2> QED  BY <1>4, <2>1, <2>2
<1>6. ASSUME NEW r \in Requests,
             Find(r) \/ FindChild(r) \/ Auth(r) \/ Update(r) \/ QueryFails(r)
      PROVE  Escaped(s)'
  BY <1>4, <1>6 DEF Find, FindChild, Auth, Update, QueryFails
<1>7. CASE Crash \/ UNCHANGED vars
  BY <1>4, <1>7 DEF Crash, vars
<1> QED  BY <1>1, <1>2, <1>3, <1>5, <1>6, <1>7 DEF Next, Step

(* On the way down from a revoked ancestor to a row that is not revoked    *)
(* there is one that escaped.                                              *)
LEMMA EscapeOnTheWay ==
    ASSUME IInv, EscapeInv, NEW s \in Sids \ Revoked, NEW a \in Ancestry(s) \cap Revoked
    PROVE  \E e \in Ancestry(s) \ Revoked : Escaped(e)
<1> DEFINE Excused(d) == d \in Revoked \/ \E e \in Ancestry(d) \ Revoked : Escaped(e)
           S == {d \in Descendants(a) : Excused(d)}
<1>1. a \in Sids /\ s \in Descendants(a) /\ a \in Descendants(a)
  BY OwnAncestor DEF Ancestry
<1>2. ASSUME NEW c \in Sids, sessions[c].parent \in S
      PROVE  c \in S
  <2> DEFINE d == sessions[c].parent
  <2>1. c \in Descendants(a) /\ d \in Sids
    BY <1>2, DescendantsClosed, DescendantsStored
  <2>2. CASE c \in Revoked
    BY <2>1, <2>2
  <2>3. CASE c \notin Revoked /\ d \in Revoked
    BY <2>1, <2>3, OwnAncestor DEF EscapeInv
  <2>4. CASE d \notin Revoked
    <3>1. PICK e \in Ancestry(d) \ Revoked : Escaped(e)
      BY <1>2, <2>4
    <3>2. e \in Sids /\ d \in Descendants(e)
      BY <3>1 DEF Ancestry
    <3>3. c \in Descendants(e)
      BY <3>2, DescendantsClosed
    <3>4. e \in Ancestry(c)
      BY <3>2, <3>3 DEF Ancestry
    <3> QED  BY <2>1, <3>1, <3>4
  <2> QED  BY <2>2, <2>3, <2>4
<1>3. S \in SUBSET Sids /\ a \in S
  BY <1>1, DescendantsStored
<1> HIDE DEF S
<1>4. s \in S
  BY <1>1, <1>2, <1>3 DEF Descendants
<1> QED  BY <1>4 DEF S

(* A revocation reaches the whole family: what lives on under a revoked    *)
(* ancestor goes back to a refresh that was sent before the revocation of  *)
(* its session and stored after it, between RefreshService's look-ups and  *)
(* its INSERT.                                                             *)
THEOREM EscapesAreRaces == Spec => []EscapeIsRace
<1>1. Init => EscapeInv
  BY DEF Init, EscapeInv
<1>2. IInv /\ EscapeInv /\ [Next]_vars => EscapeInv'
  BY EscapeInvInductive
<1>3. IInv /\ EscapeInv => EscapeIsRace
  BY EscapeOnTheWay DEF EscapeIsRace
<1> QED  BY <1>1, <1>2, <1>3, Invariance, PTL DEF Spec
=============================================================================

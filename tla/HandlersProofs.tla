---------------------------- MODULE HandlersProofs -----------------------------
(***************************************************************************)
(* Proofs of the invariants of FrontDoor and Handlers, and of the action   *)
(* property on notification preferences: for any number of requests,       *)
(* users, addresses and restarts, any limiters on any route.               *)
(*                                                                         *)
(* Three parts: what a chain of limiters keeps; the invariant of sessions, *)
(* milestone and preferences, which does not depend on the limiters; and   *)
(* what the limiters promise, which depends on how stores are shared.      *)
(***************************************************************************)
EXTENDS Handlers, FiniteSetTheorems, WellFoundedInduction, TLAPS

-----------------------------------------------------------------------------
(* Part 1: limiters.  A claim about the state after a chain of them is     *)
(* proved by induction on the place in the chain, which is done with the   *)
(* least-number principle.                                                 *)

(* Every non-empty set of naturals has a least element. *)
LEMMA LeastNumber ==
    ASSUME NEW T \in SUBSET Nat, T # {}
    PROVE  \E n \in T : \A m \in T : n <= m
<1> DEFINE R == OpToRel(<, Nat)
<1>1. IsWellFoundedOn(R, Nat)
  BY NatLessThanWellFounded
<1>2. \A x, y \in Nat : y < x => <<y, x>> \in R
  BY DEF OpToRel
<1> HIDE DEF R
<1>3. PICK x \in T : \A y \in T : ~(<<y, x>> \in R)
  BY <1>1, WFMin
<1>4. \A y \in T : ~(y < x)
  BY <1>2, <1>3
<1> QED  BY <1>4

(* Induction over 0..N, on the set of arguments at which the claim holds. *)
LEMMA BoundedInduction ==
    ASSUME NEW N \in Nat, NEW S, 0 \in S,
           \A k \in 1..N : (k - 1) \in S => k \in S
    PROVE  \A k \in 0..N : k \in S
<1> DEFINE T == (0..N) \ S
<1>1. SUFFICES ASSUME T # {} PROVE FALSE
  OBVIOUS
<1>2. T \in SUBSET Nat
  OBVIOUS
<1>3. PICK n \in T : \A m \in T : n <= m
  BY <1>1, <1>2, LeastNumber
<1> QED  BY <1>3

(* The defining equation of the recursive function Passing. *)
LEMMA PassingDef ==
    ASSUME NEW st, NEW ls \in Seq(Limiter), NEW ip, NEW user
    PROVE  Passing(st, ls, ip, user) =
             [i \in 0..Len(ls) |->
                IF i = 0 THEN st ELSE Limit(Passing(st, ls, ip, user)[i - 1], ls[i], ip, user)]
<1> DEFINE N == Len(ls)
           IsPassing(f, k) ==
             f = [i \in 0..k |-> IF i = 0 THEN st ELSE Limit(f[i - 1], ls[i], ip, user)]
           S == {k \in 0..N : \E f : IsPassing(f, k)}
<1>1. N \in Nat
  OBVIOUS
<1>2. 0 \in S
  <2> DEFINE f == [i \in 0..0 |-> st]
  <2>1. IsPassing(f, 0)
    OBVIOUS
  <2> HIDE DEF f, IsPassing
  <2> QED  BY <1>1, <2>1
<1>3. ASSUME NEW k \in 1..N, (k - 1) \in S
      PROVE  k \in S
  <2>1. PICK g : IsPassing(g, k - 1)
    BY <1>3
  <2> DEFINE f == [i \in 0..k |-> IF i = k THEN Limit(g[k - 1], ls[k], ip, user) ELSE g[i]]
  <2>2. \A i \in 0..k : f[i] = IF i = 0 THEN st ELSE Limit(f[i - 1], ls[i], ip, user)
    BY <2>1
  <2>3. IsPassing(f, k)
    BY <2>2
  <2> HIDE DEF f, IsPassing
  <2> QED  BY <2>3
<1>4. N \in S
  <2> HIDE DEF S, N
  <2>1. \A k \in 0..N : k \in S
    BY <1>1, <1>2, <1>3, BoundedInduction
  <2> QED  BY <1>1, <2>1
<1>5. \E f : IsPassing(f, N)
  BY <1>4
<1>6. Passing(st, ls, ip, user) = CHOOSE f : IsPassing(f, N)
  BY DEF Passing
<1> QED  BY <1>5, <1>6

LEMMA PassingSteps ==
    ASSUME NEW st, NEW ls \in Seq(Limiter), NEW ip, NEW user
    PROVE  /\ Passing(st, ls, ip, user)[0] = st
           /\ \A i \in 1..Len(ls) :
                 Passing(st, ls, ip, user)[i] =
                   Limit(Passing(st, ls, ip, user)[i - 1], ls[i], ip, user)
<1> DEFINE f == Passing(st, ls, ip, user)
<1>1. f = [i \in 0..Len(ls) |-> IF i = 0 THEN st ELSE Limit(f[i - 1], ls[i], ip, user)]
  BY PassingDef
<1> HIDE DEF f
<1>2. f[0] = st
  BY <1>1
<1>3. ASSUME NEW i \in 1..Len(ls) PROVE f[i] = Limit(f[i - 1], ls[i], ip, user)
  BY <1>1, <1>3
<1> QED  BY <1>2, <1>3 DEF f

WindowTypes(ws) ==
    \A k \in DOMAIN ws : ws[k] \in [count : Nat \ {0}, resetAt : Nat]

(* What increment makes of the counters: one of them is new, or one more.  *)
LEMMA IncrementFacts ==
    ASSUME NEW ws, WindowTypes(ws), NEW k, NEW w \in Nat, now \in Nat
    PROVE  LET new == increment(ws, k, w)
           IN  /\ WindowTypes(new)
               /\ DOMAIN new = DOMAIN ws \cup {k}
               /\ \A x \in DOMAIN ws \ {k} : new[x] = ws[x]
               /\ IF k \notin DOMAIN ws \/ now >= ws[k].resetAt
                  THEN new[k].count = 1 /\ new[k].resetAt = now + w
                  ELSE new[k].count = ws[k].count + 1 /\ new[k].resetAt = ws[k].resetAt
<1> DEFINE new == increment(ws, k, w)
<1>1. CASE k \notin DOMAIN ws \/ now >= ws[k].resetAt
  <2>1. new = [x \in DOMAIN ws \cup {k} |->
                 IF x = k THEN [count |-> 1, resetAt |-> now + w] ELSE ws[x]]
    BY <1>1 DEF increment, With
  <2> QED  BY <1>1, <2>1 DEF WindowTypes
<1>2. CASE ~(k \notin DOMAIN ws \/ now >= ws[k].resetAt)
  <2>1. new = [ws EXCEPT ![k].count = @ + 1] /\ k \in DOMAIN ws
    BY <1>2 DEF increment
  <2>2. ws[k] \in [count : Nat \ {0}, resetAt : Nat]
    BY <2>1 DEF WindowTypes
  <2>3. /\ DOMAIN new = DOMAIN ws /\ \A x \in DOMAIN ws \ {k} : new[x] = ws[x]
        /\ new[k] = [ws[k] EXCEPT !.count = @ + 1]
    BY <2>1
  <2>4. /\ new[k].count = ws[k].count + 1 /\ new[k].resetAt = ws[k].resetAt
        /\ new[k] \in [count : Nat \ {0}, resetAt : Nat]
    BY <2>2, <2>3
  <2>5. WindowTypes(new)
    BY <2>3, <2>4 DEF WindowTypes
  <2> HIDE DEF new
  <2> QED  BY <1>2, <2>1, <2>3, <2>4, <2>5 DEF new
<1> QED  BY <1>1, <1>2

(* A state of the chain. *)
IsStage(st) ==
    /\ st = [windows |-> st.windows, passed |-> st.passed, refusedBy |-> st.refusedBy]
    /\ WindowTypes(st.windows)

(* A limiter does not apply, or counts and refuses, or counts and passes.  *)
LEMMA LimitFacts ==
    ASSUME NEW st, IsStage(st), NEW l \in Limiter, NEW ip, NEW user, now \in Nat
    PROVE  LET next == Limit(st, l, ip, user)
               key  == KeyOf(l, ip, user)
               k    == <<StoreOf(l), key>>
               ws   == increment(st.windows, k, l.windowMs)
           IN  /\ IsStage(next)
               /\ \/ next = st
                  \/ /\ next.windows = ws /\ next.passed = st.passed
                     /\ ws[k].count > l.limit
                     /\ next.refusedBy = {[limiter |-> l, key |-> key]}
                  \/ /\ next.windows = ws
                     /\ ws[k].count <= l.limit
                     /\ next.passed = st.passed \cup {[limiter |-> l, key |-> key]}
                     /\ next.refusedBy = st.refusedBy
<1> DEFINE next == Limit(st, l, ip, user)
           key  == KeyOf(l, ip, user)
           k    == <<StoreOf(l), key>>
           ws   == increment(st.windows, k, l.windowMs)
<1>1. l.windowMs \in Nat /\ l.limit \in Nat
  BY DEF Limiter
<1>2. WindowTypes(ws) /\ ws[k].count \in Nat
  BY <1>1, IncrementFacts DEF IsStage, WindowTypes
<1>3. next = IF st.refusedBy # {} \/ key = None THEN st
             ELSE IF ws[k].count > l.limit
                  THEN [st EXCEPT !.windows = ws, !.refusedBy = {[limiter |-> l, key |-> key]}]
             ELSE [st EXCEPT !.windows = ws, !.passed = @ \cup {[limiter |-> l, key |-> key]}]
  BY DEF Limit
<1> HIDE DEF next, key, k, ws
<1>4. CASE next = st
  BY <1>4 DEF next, key, k, ws
<1>5. CASE /\ ws[k].count > l.limit
           /\ next = [st EXCEPT !.windows = ws, !.refusedBy = {[limiter |-> l, key |-> key]}]
  <2>1. next = [windows |-> ws, passed |-> st.passed,
                refusedBy |-> {[limiter |-> l, key |-> key]}]
    BY <1>5 DEF IsStage
  <2>2. IsStage(next)
    BY <2>1, <1>2 DEF IsStage
  <2> QED  BY <1>5, <2>1, <2>2 DEF next, key, k, ws
<1>6. CASE /\ ws[k].count <= l.limit
           /\ next = [st EXCEPT !.windows = ws, !.passed = @ \cup {[limiter |-> l, key |-> key]}]
  <2>1. next = [windows |-> ws, passed |-> st.passed \cup {[limiter |-> l, key |-> key]},
                refusedBy |-> st.refusedBy]
    BY <1>6 DEF IsStage
  <2>2. IsStage(next)
    BY <2>1, <1>2 DEF IsStage
  <2> QED  BY <1>6, <2>1, <2>2 DEF next, key, k, ws
<1> QED  BY <1>1, <1>2, <1>3, <1>4, <1>5, <1>6

LEMMA ChainIsStage ==
    ASSUME NEW st, IsStage(st), NEW ls \in Seq(Limiter), NEW ip, NEW user, now \in Nat
    PROVE  IsStage(LimitAll(st, ls, ip, user))
<1> DEFINE f == Passing(st, ls, ip, user)
           S == {i \in 0..Len(ls) : IsStage(f[i])}
<1>1. f[0] = st /\ \A i \in 1..Len(ls) : f[i] = Limit(f[i - 1], ls[i], ip, user)
  BY PassingSteps
<1>2. Len(ls) \in Nat /\ \A i \in 1..Len(ls) : ls[i] \in Limiter
  OBVIOUS
<1> HIDE DEF f
<1>3. 0 \in S
  BY <1>1, <1>2
<1>4. ASSUME NEW i \in 1..Len(ls), (i - 1) \in S PROVE i \in S
  <2>1. ls[i] \in Limiter /\ IsStage(f[i - 1]) /\ f[i] = Limit(f[i - 1], ls[i], ip, user)
    BY <1>1, <1>2, <1>4
  <2>2. IsStage(Limit(f[i - 1], ls[i], ip, user))
    BY <2>1, LimitFacts, Zenon
  <2> QED  BY <2>1, <2>2
<1>5. \A i \in 0..Len(ls) : i \in S
  <2> HIDE DEF S
  <2> QED  BY <1>2, <1>3, <1>4, BoundedInduction
<1> QED  BY <1>2, <1>5 DEF LimitAll, f

-----------------------------------------------------------------------------
(* Part 2: the invariant. *)

Places == {"idle", "assignment", "milestone", "event", "mark", "publish", "read", "upsert",
           "done", "cut"}
Codes  == {0, 200, 201, 204, 400, 401, 403, 404, 409, 429, 500}

DoorTypes ==
    /\ now \in 0..MaxTime /\ restarts \in 0..MaxRestarts
    /\ pc \in [Requests -> Places]
    /\ status \in [Requests -> Codes]
    /\ call \in [Requests -> Calls \cup {None}]
    /\ DOMAIN attached = Requests

(* A session's token is a request that is over; it expires ttlMs after it  *)
(* was last seen, and none of them has been logged out.                    *)
SessionInv ==
    /\ \A t \in DOMAIN sessions :
          /\ t \in Requests /\ pc[t] = "done"
          /\ t \in DOMAIN seenAt \ loggedOut
          /\ seenAt[t] \in 0..now /\ sessions[t].expiresAt = seenAt[t] + TtlMs
    /\ \A t \in loggedOut : t \in Requests /\ pc[t] = "done"

(* Who is past the look at the milestone, and it is validated, has been    *)
(* crossed; who has marked it is about to publish, or has tried.           *)
MilestoneInv ==
    /\ milestone \in {"pending", "validated"}
    /\ marked \subseteq events /\ events \subseteq Requests /\ published \subseteq Requests
    /\ milestone = "validated" <=> marked # {}
    /\ \A r \in Requests :
          /\ pc[r] = "mark" => r \in events
          /\ pc[r] \in {"event", "mark"} => r \notin marked
          /\ pc[r] \in {"event", "mark"} /\ milestone = "validated" => r \in crossed
          /\ r \in marked => pc[r] = "publish" \/ r \in published \cup unpublished
          /\ pc[r] = "publish" => r \in marked
    /\ ValidatedTwiceIsRace

(* Who is to write a row holds it as it is, or another update was stored   *)
(* since it was read.                                                      *)
PreferenceInv ==
    /\ preferences \in [Users -> [Fields -> BOOLEAN] \cup {None}]
    /\ existing \in [Requests -> [Fields -> BOOLEAN] \cup {None}]
    /\ \A r \in Requests :
          /\ \A x, y \in attached[r] : x = y
          /\ pc[r] \in {"read", "upsert"} => call[r] \in Calls /\ call[r].route = "patch"
          /\ pc[r] = "upsert" /\ r \notin raced =>
                \A u \in Users : Updates(r, u) => existing[r] = preferences[u]

IInv == DoorTypes /\ WindowTypes(windows) /\ SessionInv /\ MilestoneInv /\ PreferenceInv

(* The limiters leave a state of the chain behind. *)
LEMMA DoorStages ==
    ASSUME WindowTypes(windows), now \in Nat, NEW c \in Calls, NEW user
    PROVE  IsStage(AtDoor(c)) /\ IsStage(AfterAuth(c, user))
<1>1. c.route \in Routes
  BY CallsAssumption DEF CallType
<1>2. Before[c.route] \in Seq(Limiter) /\ After[c.route] \in Seq(Limiter)
  BY <1>1, LimitersAssumption
<1> DEFINE st == [windows |-> windows, passed |-> {}, refusedBy |-> {}]
<1>3. IsStage(st)
  BY DEF IsStage
<1> HIDE DEF st
<1>4. IsStage(LimitAll(st, Before[c.route], c.ip, <<>>))
  BY <1>2, <1>3, ChainIsStage
<1>5. IsStage(AtDoor(c))
  BY <1>4 DEF AtDoor, st
<1>6. IsStage(LimitAll(AtDoor(c), After[c.route], c.ip, user))
  BY <1>2, <1>5, ChainIsStage
<1> QED  BY <1>5, <1>6 DEF AfterAuth

(* Frames: what a step keeps that does not touch sessions, the milestone   *)
(* or preferences.                                                         *)
LEMMA SessionFrame ==
    ASSUME SessionInv, UNCHANGED storeVars, now \in Nat, now' \in Nat, now <= now',
           \A r \in Requests : pc[r] = "done" => pc'[r] = "done"
    PROVE  SessionInv'
BY DEF SessionInv, storeVars

LEMMA MilestoneFrame ==
    ASSUME MilestoneInv, UNCHANGED milestoneVars,
           \A r \in Requests :
              pc[r] \in {"event", "mark", "publish"} \/ pc'[r] \in {"event", "mark", "publish"}
              => pc'[r] = pc[r]
    PROVE  MilestoneInv'
BY DEF MilestoneInv, milestoneVars, ValidatedTwiceIsRace

LEMMA PreferenceFrame ==
    ASSUME PreferenceInv, UNCHANGED preferenceVars,
           \A r \in Requests :
              /\ attached'[r] = attached[r] \/ \A x, y \in attached'[r] : x = y
              /\ pc'[r] \in {"read", "upsert"} =>
                    pc'[r] = pc[r] /\ call'[r] = call[r] /\ attached'[r] = attached[r]
    PROVE  PreferenceInv'
<1> USE DEF PreferenceInv, preferenceVars, Updates
<1>1. ASSUME NEW r \in Requests PROVE \A x, y \in attached'[r] : x = y
  OBVIOUS
<1>2. ASSUME NEW r \in Requests, pc'[r] \in {"read", "upsert"}
      PROVE  /\ call'[r] \in Calls /\ call'[r].route = "patch"
             /\ pc'[r] = "upsert" /\ r \notin raced' =>
                   \A u \in Users : Updates(r, u)' => existing'[r] = preferences'[u]
  BY <1>2
<1> QED  BY <1>1, <1>2

(* A request ends, or comes to wait for something else. *)
LEMMA AnswerTypes ==
    ASSUME DoorTypes, NEW r \in Requests, NEW code \in Codes, Answer(r, code),
           UNCHANGED <<now, restarts>>
    PROVE  DoorTypes'
BY DEF DoorTypes, Answer, Places

LEMMA GoToTypes ==
    ASSUME DoorTypes, NEW r \in Requests, NEW place \in Places, GoTo(r, place),
           UNCHANGED <<now, restarts>>
    PROVE  DoorTypes'
BY DEF DoorTypes, GoTo

LEMMA BeginTypes ==
    ASSUME DoorTypes, NEW r \in Requests, NEW c \in Calls, NEW user, NEW place \in Places,
           Begin(r, c, user, place), UNCHANGED <<now, restarts>>
    PROVE  DoorTypes'
BY DEF DoorTypes, Begin

-----------------------------------------------------------------------------
(* The steps at the door. *)

LEMMA TickIInv ==
    ASSUME IInv, Tick, UNCHANGED <<milestoneVars, preferenceVars>>
    PROVE  IInv'
<1> USE DEF IInv, Tick
<1>1. now \in Nat /\ now' \in Nat /\ now <= now' /\ DoorTypes'
  BY TimesAssumption DEF DoorTypes
<1>2. WindowTypes(windows)'
  BY DEF WindowTypes, limitVars
<1>3. SessionInv' /\ MilestoneInv' /\ PreferenceInv'
  BY <1>1, SessionFrame, MilestoneFrame, PreferenceFrame
<1> QED  BY <1>1, <1>2, <1>3

LEMMA SweepIInv ==
    ASSUME IInv, sweep, UNCHANGED <<milestoneVars, preferenceVars>>
    PROVE  IInv'
<1> USE DEF IInv, sweep
<1>1. DoorTypes' /\ WindowTypes(windows)'
  BY DEF DoorTypes, WindowTypes, limitVars
<1>2. SessionInv'
  BY DEF SessionInv, evict, Without
<1>3. MilestoneInv' /\ PreferenceInv'
  BY MilestoneFrame, PreferenceFrame
<1> QED  BY <1>1, <1>2, <1>3

LEMMA TouchIInv ==
    ASSUME IInv, NEW t \in Requests, touch(t), UNCHANGED <<milestoneVars, preferenceVars>>
    PROVE  IInv'
<1> USE DEF IInv
<1>1. DoorTypes' /\ WindowTypes(windows)'
  BY DEF touch, DoorTypes, WindowTypes, limitVars
<1>2. SessionInv'
  <2>1. CASE evict({t}) /\ UNCHANGED seenAt
    BY <2>1 DEF touch, SessionInv, evict, Without
  <2>2. CASE /\ sessions' = [sessions EXCEPT ![t].expiresAt = now + TtlMs]
             /\ seenAt' = [seenAt EXCEPT ![t] = now]
    <3>1. now \in Nat /\ t \in DOMAIN seenAt
      BY DEF DoorTypes, SessionInv, touch
    <3>2. /\ DOMAIN sessions' = DOMAIN sessions /\ DOMAIN seenAt' = DOMAIN seenAt
          /\ seenAt'[t] = now /\ sessions'[t] = [sessions[t] EXCEPT !.expiresAt = now + TtlMs]
          /\ \A x \in DOMAIN sessions \ {t} : sessions'[x] = sessions[x] /\ seenAt'[x] = seenAt[x]
      BY <2>2, <3>1 DEF SessionInv, touch
    <3> QED  BY <2>2, <3>1, <3>2 DEF SessionInv, touch
  <2> QED  BY <2>1, <2>2 DEF touch
<1>3. MilestoneInv' /\ PreferenceInv'
  BY MilestoneFrame, PreferenceFrame DEF touch
<1> QED  BY <1>1, <1>2, <1>3

LEMMA ReceiveFacts ==
    ASSUME IInv, NEW r \in Requests, NEW c \in Calls, NEW user,
           Receive(r, AtDoor(c)) \/ Receive(r, AfterAuth(c, user))
    PROVE  WindowTypes(windows)' /\ pc[r] = "idle" /\ UNCHANGED <<now, restarts>>
<1>1. now \in Nat /\ WindowTypes(windows)
  BY TimesAssumption DEF IInv, DoorTypes
<1>2. WindowTypes(AtDoor(c).windows) /\ WindowTypes(AfterAuth(c, user).windows)
  BY <1>1, DoorStages DEF IsStage
<1>3. \/ windows' = AtDoor(c).windows
      \/ windows' = AfterAuth(c, user).windows
  BY DEF Receive
<1>4. WindowTypes(windows')
  BY <1>2, <1>3
<1> QED  BY <1>4 DEF Receive, WindowTypes

(* A request that is answered when it arrives. *)
LEMMA AnsweredAtDoor ==
    ASSUME IInv, NEW r \in Requests, NEW c \in Calls, NEW user, NEW code \in Codes,
           Receive(r, AtDoor(c)) \/ Receive(r, AfterAuth(c, user)), Answer(r, code),
           UNCHANGED <<milestoneVars, preferenceVars>>
    PROVE  /\ DoorTypes' /\ WindowTypes(windows)' /\ MilestoneInv' /\ PreferenceInv'
           /\ now \in Nat /\ now' = now
           /\ \A q \in Requests : pc[q] = "done" => pc'[q] = "done"
           /\ pc[r] = "idle" /\ pc'[r] = "done"
<1>1. WindowTypes(windows)' /\ pc[r] = "idle" /\ UNCHANGED <<now, restarts>>
  BY ReceiveFacts
<1>2. DoorTypes'
  BY <1>1, AnswerTypes DEF IInv
<1>3. /\ now \in Nat
      /\ pc' = [pc EXCEPT ![r] = "done"] /\ attached' = [attached EXCEPT ![r] = {}]
      /\ call' = [call EXCEPT ![r] = None]
      /\ DOMAIN pc = Requests /\ DOMAIN attached = Requests /\ DOMAIN call = Requests
  BY DEF Answer, IInv, DoorTypes
<1>4. MilestoneInv' /\ PreferenceInv'
  BY <1>1, <1>3, MilestoneFrame, PreferenceFrame DEF IInv
<1> QED  BY <1>1, <1>2, <1>3, <1>4

LEMMA TooManyIInv ==
    ASSUME IInv, NEW r \in Requests, NEW c \in Calls, TooMany(r, c),
           UNCHANGED <<milestoneVars, preferenceVars>>
    PROVE  IInv'
<1>1. PICK user : Receive(r, AtDoor(c)) \/ Receive(r, AfterAuth(c, user))
  BY DEF TooMany
<1>2. Answer(r, 429) /\ UNCHANGED storeVars /\ 429 \in Codes
  BY DEF TooMany, Codes
<1>3. SessionInv'
  BY <1>1, <1>2, AnsweredAtDoor, SessionFrame DEF IInv
<1> QED  BY <1>1, <1>2, <1>3, AnsweredAtDoor DEF IInv

LEMMA UnauthorizedIInv ==
    ASSUME IInv, NEW r \in Requests, NEW c \in Calls, Unauthorized(r, c),
           UNCHANGED <<milestoneVars, preferenceVars>>
    PROVE  IInv'
<1>1. Receive(r, AtDoor(c)) /\ Answer(r, 401) /\ 401 \in Codes
  BY DEF Unauthorized, Codes
<1>2. /\ DoorTypes' /\ WindowTypes(windows)' /\ MilestoneInv' /\ PreferenceInv'
      /\ now \in Nat /\ now' = now
      /\ \A q \in Requests : pc[q] = "done" => pc'[q] = "done"
  BY <1>1, AnsweredAtDoor
<1>3. SessionInv'
  BY <1>2 DEF IInv, SessionInv, Unauthorized, evict, Without
<1> QED  BY <1>2, <1>3 DEF IInv

(* A new session: nobody has logged its token out, as its request has only *)
(* just arrived.                                                           *)
LEMMA LoginIInv ==
    ASSUME IInv, NEW r \in Requests, NEW c \in Calls, Login(r, c),
           UNCHANGED <<milestoneVars, preferenceVars>>
    PROVE  IInv'
<1>1. PICK user \in UserOf(c) : /\ Enters(r, c, user) /\ create(r, user.id, user.role)
                                /\ Answer(r, 201)
  BY DEF Login
<1>2. Receive(r, AfterAuth(c, user)) /\ 201 \in Codes
  BY <1>1 DEF Enters, Codes
<1>3. /\ DoorTypes' /\ WindowTypes(windows)' /\ MilestoneInv' /\ PreferenceInv'
      /\ now \in Nat /\ now' = now
      /\ \A q \in Requests : pc[q] = "done" => pc'[q] = "done"
      /\ pc[r] = "idle" /\ pc'[r] = "done"
  BY <1>1, <1>2, AnsweredAtDoor
<1>4. r \notin loggedOut
  BY <1>3 DEF IInv, SessionInv
<1>5. SessionInv'
  BY <1>1, <1>3, <1>4 DEF IInv, SessionInv, create, With
<1> QED  BY <1>3, <1>5 DEF IInv

LEMMA LogoutIInv ==
    ASSUME IInv, NEW r \in Requests, NEW c \in Calls, Logout(r, c),
           UNCHANGED <<milestoneVars, preferenceVars>>
    PROVE  IInv'
<1>1. PICK user \in UserOf(c) : Enters(r, c, user) /\ delete(c.token) /\ Answer(r, 204)
  BY DEF Logout
<1>2. Receive(r, AfterAuth(c, user)) /\ 204 \in Codes
  BY <1>1 DEF Enters, Codes
<1>3. /\ DoorTypes' /\ WindowTypes(windows)' /\ MilestoneInv' /\ PreferenceInv'
      /\ now \in Nat /\ now' = now
      /\ \A q \in Requests : pc[q] = "done" => pc'[q] = "done"
  BY <1>1, <1>2, AnsweredAtDoor
<1>4. c.token \in DOMAIN sessions
  BY <1>1 DEF Logout, UserOf, ByHeader, get
<1>5. SessionInv'
  BY <1>1, <1>3, <1>4 DEF IInv, SessionInv, delete, Without
<1> QED  BY <1>3, <1>5 DEF IInv

LEMMA MeIInv ==
    ASSUME IInv, NEW r \in Requests, NEW c \in Calls, Me(r, c),
           UNCHANGED <<milestoneVars, preferenceVars>>
    PROVE  IInv'
<1>1. PICK user \in UserOf(c) : Enters(r, c, user) /\ Answer(r, 200) /\ UNCHANGED storeVars
  BY DEF Me
<1>2. Receive(r, AfterAuth(c, user)) /\ 200 \in Codes
  BY <1>1 DEF Enters, Codes
<1>3. SessionInv'
  BY <1>1, <1>2, AnsweredAtDoor, SessionFrame DEF IInv
<1> QED  BY <1>1, <1>2, <1>3, AnsweredAtDoor DEF IInv

(* A request that is taken up by its handler. *)
LEMMA TakenUp ==
    ASSUME IInv, NEW r \in Requests, NEW c \in Calls, NEW user,
           Receive(r, AfterAuth(c, user)), UNCHANGED <<storeVars, milestoneVars, preferenceVars>>,
           \/ Begin(r, c, user, "assignment")
           \/ Begin(r, c, user, "read") /\ c.route = "patch"
    PROVE  IInv'
<1>1. WindowTypes(windows)' /\ pc[r] = "idle" /\ UNCHANGED <<now, restarts>>
  BY ReceiveFacts
<1>2. DoorTypes'
  BY <1>1, BeginTypes DEF IInv, Places
<1>3. /\ now \in Nat
      /\ \E place \in {"assignment", "read"} :
            pc' = [pc EXCEPT ![r] = place] /\ (place = "read" => c.route = "patch")
      /\ attached' = [attached EXCEPT ![r] = {user}] /\ call' = [call EXCEPT ![r] = c]
      /\ DOMAIN pc = Requests /\ DOMAIN attached = Requests /\ DOMAIN call = Requests
  BY DEF Begin, IInv, DoorTypes
<1>4. SessionInv' /\ MilestoneInv'
  BY <1>1, <1>3, SessionFrame, MilestoneFrame DEF IInv
<1>5. PreferenceInv'
  <2> USE DEF IInv, PreferenceInv, preferenceVars, Updates
  <2>1. ASSUME NEW q \in Requests PROVE \A x, y \in attached'[q] : x = y
    BY <1>3
  <2>2. ASSUME NEW q \in Requests, pc'[q] \in {"read", "upsert"}
        PROVE  /\ call'[q] \in Calls /\ call'[q].route = "patch"
               /\ pc'[q] = "upsert" /\ q \notin raced' =>
                     \A u \in Users : Updates(q, u)' => existing'[q] = preferences'[u]
    BY <1>3, <2>2
  <2> QED  BY <2>1, <2>2
<1> QED  BY <1>1, <1>2, <1>4, <1>5 DEF IInv

LEMMA ValidateIInv ==
    ASSUME IInv, NEW r \in Requests, NEW c \in Calls, Validate(r, c)
    PROVE  IInv'
<1>1. PICK user \in UserOf(c) : /\ Enters(r, c, user)
                                /\ Begin(r, c, user, "assignment") \/ Answer(r, 403)
                                /\ UNCHANGED <<storeVars, milestoneVars, preferenceVars>>
  BY DEF Validate
<1>2. Receive(r, AfterAuth(c, user)) /\ 403 \in Codes
  BY <1>1 DEF Enters, Codes
<1>3. CASE Begin(r, c, user, "assignment")
  BY <1>1, <1>2, <1>3, TakenUp
<1>4. CASE Answer(r, 403)
  <2>1. SessionInv'
    BY <1>1, <1>2, <1>4, AnsweredAtDoor, SessionFrame DEF IInv
  <2> QED  BY <1>1, <1>2, <1>4, <2>1, AnsweredAtDoor DEF IInv
<1> QED  BY <1>1, <1>3, <1>4

LEMMA PatchIInv ==
    ASSUME IInv, NEW r \in Requests, NEW c \in Calls, Patch(r, c)
    PROVE  IInv'
<1>1. PICK user \in UserOf(c) : /\ Enters(r, c, user)
                                /\ Begin(r, c, user, "read") \/ Answer(r, 400)
                                /\ UNCHANGED <<storeVars, milestoneVars, preferenceVars>>
  BY DEF Patch
<1>2. Receive(r, AfterAuth(c, user)) /\ 400 \in Codes
  BY <1>1 DEF Enters, Codes
<1>3. CASE Begin(r, c, user, "read")
  BY <1>1, <1>2, <1>3, TakenUp DEF Patch
<1>4. CASE Answer(r, 400)
  <2>1. SessionInv'
    BY <1>1, <1>2, <1>4, AnsweredAtDoor, SessionFrame DEF IInv
  <2> QED  BY <1>1, <1>2, <1>4, <2>1, AnsweredAtDoor DEF IInv
<1> QED  BY <1>1, <1>3, <1>4

-----------------------------------------------------------------------------
(* The steps of the handlers. *)

LEMMA DoorHeld ==
    ASSUME IInv, UNCHANGED heldVars, \A r \in Requests : pc[r] = "done" => pc'[r] = "done"
    PROVE  WindowTypes(windows)' /\ SessionInv' /\ UNCHANGED <<now, restarts>>
<1>1. UNCHANGED <<now, windows, sessions, seenAt, loggedOut, restarts>> /\ now \in Nat
  BY DEF heldVars, limitVars, storeVars, IInv, DoorTypes
<1>2. WindowTypes(windows)'
  BY <1>1 DEF IInv, WindowTypes
<1>3. SessionInv'
  BY <1>1, SessionFrame DEF IInv, storeVars
<1> QED  BY <1>1, <1>2, <1>3

(* A request goes from one place to another, and keeps the milestone and   *)
(* the preferences.                                                        *)
LEMMA OnlyMoves ==
    ASSUME IInv, NEW r \in Requests, NEW place \in Places, NEW code \in Codes,
           UNCHANGED <<heldVars, milestoneVars, preferenceVars>>,
           pc[r] \in {"assignment", "milestone"},
           Answer(r, code) \/ (GoTo(r, place) /\ place = "milestone")
    PROVE  IInv'
<1>1. /\ DOMAIN pc = Requests /\ DOMAIN attached = Requests
      /\ \/ pc' = [pc EXCEPT ![r] = "done"] /\ attached' = [attached EXCEPT ![r] = {}]
         \/ pc' = [pc EXCEPT ![r] = "milestone"] /\ attached' = attached
      /\ \A q \in Requests \ {r} : call'[q] = call[q]
  BY DEF IInv, DoorTypes, Answer, GoTo
<1>2. WindowTypes(windows)' /\ SessionInv' /\ UNCHANGED <<now, restarts>>
  BY <1>1, DoorHeld
<1>3. DoorTypes'
  BY <1>2, AnswerTypes, GoToTypes DEF IInv
<1>4. MilestoneInv' /\ PreferenceInv'
  BY <1>1, MilestoneFrame, PreferenceFrame DEF IInv
<1> QED  BY <1>2, <1>3, <1>4 DEF IInv

LEMMA IsVerifierAssignedIInv ==
    ASSUME IInv, NEW r \in Requests, IsVerifierAssigned(r)
    PROVE  IInv'
<1>1. 403 \in Codes /\ "milestone" \in Places
  BY DEF Codes, Places
<1> QED  BY <1>1, OnlyMoves DEF IsVerifierAssigned

LEMMA GetMilestoneIInv ==
    ASSUME IInv, NEW r \in Requests, GetMilestone(r)
    PROVE  IInv'
<1>1. 404 \in Codes /\ 409 \in Codes /\ {"milestone", "event"} \subseteq Places
  BY DEF Codes, Places
<1>2. CASE Answer(r, 404) \/ Answer(r, 409)
  BY <1>1, <1>2, OnlyMoves DEF GetMilestone
<1>3. CASE milestone # "validated" /\ GoTo(r, "event")
  <2>1. /\ pc[r] = "milestone" /\ DOMAIN pc = Requests
        /\ pc' = [pc EXCEPT ![r] = "event"] /\ UNCHANGED <<status, call, attached>>
        /\ UNCHANGED <<heldVars, milestoneVars, preferenceVars>>
    BY <1>3 DEF GetMilestone, GoTo, IInv, DoorTypes
  <2>2. WindowTypes(windows)' /\ SessionInv' /\ UNCHANGED <<now, restarts>>
    BY <2>1, DoorHeld
  <2>3. DoorTypes'
    BY <1>1, <1>3, <2>2, GoToTypes DEF IInv
  <2>4. MilestoneInv'
    BY <1>3, <2>1 DEF IInv, MilestoneInv, ValidatedTwiceIsRace, milestoneVars
  <2>5. PreferenceInv'
    BY <2>1, PreferenceFrame DEF IInv
  <2> QED  BY <2>2, <2>3, <2>4, <2>5 DEF IInv
<1> QED  BY <1>2, <1>3 DEF GetMilestone

LEMMA CreateEventIInv ==
    ASSUME IInv, NEW r \in Requests, CreateEvent(r)
    PROVE  IInv'
<1>1. /\ pc[r] = "event" /\ DOMAIN pc = Requests
      /\ pc' = [pc EXCEPT ![r] = "mark"] /\ UNCHANGED <<status, call, attached>>
      /\ UNCHANGED <<heldVars, milestone, marked, crossed, published, unpublished>>
      /\ UNCHANGED preferenceVars /\ events' = events \cup {r} /\ "mark" \in Places
  BY DEF CreateEvent, GoTo, IInv, DoorTypes, Places
<1>2. WindowTypes(windows)' /\ SessionInv' /\ UNCHANGED <<now, restarts>>
  BY <1>1, DoorHeld
<1>3. DoorTypes'
  BY <1>1, <1>2, GoToTypes DEF IInv, CreateEvent
<1>4. MilestoneInv'
  BY <1>1 DEF IInv, MilestoneInv, ValidatedTwiceIsRace
<1>5. PreferenceInv'
  BY <1>1, PreferenceFrame DEF IInv
<1> QED  BY <1>2, <1>3, <1>4, <1>5 DEF IInv

LEMMA MarkValidatedIInv ==
    ASSUME IInv, NEW r \in Requests, MarkValidated(r)
    PROVE  IInv'
<1>1. /\ pc[r] = "mark" /\ DOMAIN pc = Requests
      /\ pc' = [pc EXCEPT ![r] = "publish"] /\ UNCHANGED <<status, call, attached>>
      /\ UNCHANGED <<heldVars, events, published, unpublished>>
      /\ UNCHANGED preferenceVars
      /\ milestone' = "validated" /\ marked' = marked \cup {r}
      /\ crossed' = crossed \cup {q \in Requests \ {r} : pc[q] \in {"event", "mark"}}
      /\ "publish" \in Places
  BY DEF MarkValidated, GoTo, IInv, DoorTypes, Places
<1>2. WindowTypes(windows)' /\ SessionInv' /\ UNCHANGED <<now, restarts>>
  BY <1>1, DoorHeld
<1>3. DoorTypes'
  BY <1>1, <1>2, GoToTypes DEF IInv, MarkValidated
<1>4. MilestoneInv'
  <2>1. marked # {} => r \in crossed
    BY <1>1 DEF IInv, MilestoneInv
  <2>2. ValidatedTwiceIsRace'
    BY <1>1, <2>1 DEF IInv, MilestoneInv, ValidatedTwiceIsRace
  <2> QED  BY <1>1, <2>2 DEF IInv, MilestoneInv
<1>5. PreferenceInv'
  BY <1>1, PreferenceFrame DEF IInv
<1> QED  BY <1>2, <1>3, <1>4, <1>5 DEF IInv

LEMMA PublishIInv ==
    ASSUME IInv, NEW r \in Requests, Publish(r)
    PROVE  IInv'
<1>1. /\ pc[r] = "publish" /\ DOMAIN pc = Requests /\ DOMAIN attached = Requests
      /\ pc' = [pc EXCEPT ![r] = "done"] /\ attached' = [attached EXCEPT ![r] = {}]
      /\ \A q \in Requests \ {r} : call'[q] = call[q]
      /\ UNCHANGED <<heldVars, milestone, events, marked, crossed, unpublished>>
      /\ UNCHANGED preferenceVars /\ published' = published \cup {r} /\ 200 \in Codes
  BY DEF Publish, Answer, IInv, DoorTypes, Codes
<1>2. WindowTypes(windows)' /\ SessionInv' /\ UNCHANGED <<now, restarts>>
  BY <1>1, DoorHeld
<1>3. DoorTypes'
  BY <1>1, <1>2, AnswerTypes DEF IInv, Publish
<1>4. MilestoneInv'
  BY <1>1 DEF IInv, MilestoneInv, ValidatedTwiceIsRace
<1>5. PreferenceInv'
  BY <1>1, PreferenceFrame DEF IInv
<1> QED  BY <1>2, <1>3, <1>4, <1>5 DEF IInv

LEMMA HandlerFailsIInv ==
    ASSUME IInv, NEW r \in Requests, HandlerFails(r)
    PROVE  IInv'
<1>1. /\ pc[r] # "idle" /\ DOMAIN pc = Requests /\ DOMAIN attached = Requests
      /\ pc' = [pc EXCEPT ![r] = "done"] /\ attached' = [attached EXCEPT ![r] = {}]
      /\ \A q \in Requests \ {r} : call'[q] = call[q]
      /\ UNCHANGED <<heldVars, milestone, events, marked, crossed, published>>
      /\ UNCHANGED <<preferences, raced>>
      /\ unpublished' = IF pc[r] = "publish" THEN unpublished \cup {r} ELSE unpublished
      /\ existing' = [existing EXCEPT ![r] = None] /\ 500 \in Codes
  BY DEF HandlerFails, Answer, IInv, DoorTypes, Codes
<1>2. WindowTypes(windows)' /\ SessionInv' /\ UNCHANGED <<now, restarts>>
  BY <1>1, DoorHeld
<1>3. DoorTypes'
  BY <1>1, <1>2, AnswerTypes DEF IInv, HandlerFails
<1>4. MilestoneInv'
  BY <1>1 DEF IInv, MilestoneInv, ValidatedTwiceIsRace, HandlerFails
<1>5. PreferenceInv'
  BY <1>1 DEF IInv, PreferenceInv, Updates
<1> QED  BY <1>2, <1>3, <1>4, <1>5 DEF IInv

LEMMA ReadExistingIInv ==
    ASSUME IInv, NEW r \in Requests, ReadExisting(r)
    PROVE  IInv'
<1>1. /\ pc[r] = "read" /\ DOMAIN pc = Requests
      /\ pc' = [pc EXCEPT ![r] = "upsert"] /\ UNCHANGED <<status, call, attached>>
      /\ UNCHANGED <<heldVars, preferences, raced>>
      /\ UNCHANGED milestoneVars /\ "upsert" \in Places
  BY DEF ReadExisting, GoTo, IInv, DoorTypes, Places
<1>2. PICK u \in Users : Updates(r, u) /\ existing' = [existing EXCEPT ![r] = preferences[u]]
  BY DEF ReadExisting
<1>3. WindowTypes(windows)' /\ SessionInv' /\ UNCHANGED <<now, restarts>>
  BY <1>1, DoorHeld
<1>4. DoorTypes'
  BY <1>1, <1>3, GoToTypes DEF IInv, ReadExisting
<1>5. MilestoneInv'
  BY <1>1, MilestoneFrame DEF IInv
<1>6. PreferenceInv'
  <2>1. \A v \in Users : Updates(r, v) => v = u
    BY <1>2 DEF IInv, PreferenceInv, Updates
  <2>2. existing' \in [Requests -> [Fields -> BOOLEAN] \cup {None}]
    BY <1>2 DEF IInv, PreferenceInv
  <2> QED  BY <1>1, <1>2, <2>1, <2>2 DEF IInv, PreferenceInv, Updates
<1> QED  BY <1>3, <1>4, <1>5, <1>6 DEF IInv

(* The body of an update names some of the fields. *)
LEMMA MergedType ==
    ASSUME NEW c \in Calls, c.route = "patch", NEW row \in [Fields -> BOOLEAN] \cup {None}
    PROVE  Merged(c.body, row) \in [Fields -> BOOLEAN]
<1>1. c \in CallType(Fields)
  BY CallsAssumption
<1>2. c.body \in UNION {[fs -> BOOLEAN] : fs \in SUBSET Fields}
  BY <1>1 DEF CallType
<1>3. PICK fs \in SUBSET Fields : c.body \in [fs -> BOOLEAN]
  BY <1>2
<1> QED  BY <1>3, PreferencesAssumption DEF Merged

LEMMA UpsertIInv ==
    ASSUME IInv, NEW r \in Requests, Upsert(r)
    PROVE  IInv'
<1>1. PICK u \in Users :
         /\ Updates(r, u)
         /\ preferences' = [preferences EXCEPT ![u] = Merged(call[r].body, existing[r])]
         /\ raced' = raced \cup {q \in Requests \ {r} : pc[q] = "upsert" /\ Updates(q, u)}
  BY DEF Upsert
<1>2. /\ pc[r] = "upsert" /\ DOMAIN pc = Requests /\ DOMAIN attached = Requests
      /\ pc' = [pc EXCEPT ![r] = "done"] /\ attached' = [attached EXCEPT ![r] = {}]
      /\ \A q \in Requests \ {r} : call'[q] = call[q]
      /\ UNCHANGED heldVars /\ UNCHANGED milestoneVars
      /\ existing' = [existing EXCEPT ![r] = None] /\ {200, 500} \subseteq Codes
  BY DEF Upsert, Answer, IInv, DoorTypes, Codes
<1>3. WindowTypes(windows)' /\ SessionInv' /\ UNCHANGED <<now, restarts>>
  BY <1>2, DoorHeld
<1>4. DoorTypes'
  BY <1>2, <1>3, AnswerTypes DEF IInv, Upsert
<1>5. MilestoneInv'
  BY <1>2, MilestoneFrame DEF IInv
<1>6. PreferenceInv'
  <2>1. Merged(call[r].body, existing[r]) \in [Fields -> BOOLEAN]
    BY <1>2, MergedType DEF IInv, PreferenceInv
  <2>2. /\ preferences' \in [Users -> [Fields -> BOOLEAN] \cup {None}]
        /\ existing' \in [Requests -> [Fields -> BOOLEAN] \cup {None}]
    BY <1>1, <1>2, <2>1 DEF IInv, PreferenceInv
  <2>3. ASSUME NEW q \in Requests, pc'[q] = "upsert", q \notin raced',
               NEW v \in Users, Updates(q, v)'
        PROVE  existing'[q] = preferences'[v]
    <3>1. q # r /\ pc[q] = "upsert" /\ Updates(q, v) /\ q \notin raced /\ v # u
      BY <1>1, <1>2, <2>3 DEF Updates
    <3> QED  BY <1>1, <1>2, <3>1 DEF IInv, PreferenceInv
  <2> QED  BY <1>2, <2>2, <2>3 DEF IInv, PreferenceInv, Updates
<1> QED  BY <1>3, <1>4, <1>5, <1>6 DEF IInv

LEMMA RestartIInv ==
    ASSUME IInv, Restart
    PROVE  IInv'
<1>1. /\ restarts < MaxRestarts /\ restarts' = restarts + 1 /\ now' = now
      /\ pc' = [r \in Requests |-> IF pc[r] \in {"idle", "done"} THEN pc[r] ELSE "cut"]
      /\ windows' = <<>> /\ sessions' = <<>> /\ seenAt' = <<>> /\ loggedOut' = {}
      /\ call' = [r \in Requests |-> None] /\ attached' = [r \in Requests |-> {}]
      /\ status' = status
  BY DEF Restart, RestartDoor
<1>2. DoorTypes'
  BY <1>1, TimesAssumption DEF IInv, DoorTypes, Places
<1>3. WindowTypes(windows)'
  BY <1>1 DEF WindowTypes
<1>4. SessionInv'
  BY <1>1 DEF SessionInv
<1>5. MilestoneInv'
  BY <1>1 DEF IInv, MilestoneInv, ValidatedTwiceIsRace, Restart
<1>6. PreferenceInv'
  BY <1>1 DEF IInv, PreferenceInv, Restart
<1> QED  BY <1>2, <1>3, <1>4, <1>5, <1>6 DEF IInv

-----------------------------------------------------------------------------
(* The theorems that hold whatever the limiters are. *)

LEMMA InitIInv ==
    ASSUME Init
    PROVE  IInv
<1> USE DEF Init, DoorInit
<1>1. DoorTypes
  BY TimesAssumption DEF DoorTypes, Places, Codes
<1>2. WindowTypes(windows) /\ SessionInv
  BY DEF WindowTypes, SessionInv
<1>3. MilestoneInv
  BY DEF MilestoneInv, ValidatedTwiceIsRace
<1>4. PreferenceInv
  BY DEF PreferenceInv
<1> QED  BY <1>1, <1>2, <1>3, <1>4 DEF IInv

LEMMA StutterIInv ==
    ASSUME IInv, UNCHANGED vars
    PROVE  IInv'
BY DEF IInv, vars, doorVars, milestoneVars, preferenceVars, DoorTypes, WindowTypes, SessionInv,
   MilestoneInv, ValidatedTwiceIsRace, PreferenceInv, Updates

LEMMA NextIInv ==
    ASSUME IInv, Next
    PROVE  IInv'
<1>0. CASE DoorAlone
  BY <1>0, TickIInv, SweepIInv, TouchIInv DEF DoorAlone
<1>1. ASSUME NEW r \in Requests, DoorStep(r) PROVE IInv'
  BY <1>1, TooManyIInv, UnauthorizedIInv, LoginIInv, LogoutIInv, MeIInv DEF DoorStep
<1>2. CASE Restart
  BY <1>2, RestartIInv
<1>3. ASSUME NEW r \in Requests, ValidateStep(r) PROVE IInv'
  BY <1>3, ValidateIInv, IsVerifierAssignedIInv, GetMilestoneIInv, CreateEventIInv,
     MarkValidatedIInv, PublishIInv DEF ValidateStep
<1>4. ASSUME NEW r \in Requests, PatchStep(r) PROVE IInv'
  BY <1>4, PatchIInv, ReadExistingIInv, UpsertIInv DEF PatchStep
<1>5. ASSUME NEW r \in Requests, HandlerFails(r) PROVE IInv'
  BY <1>5, HandlerFailsIInv
<1> QED  BY <1>0, <1>1, <1>2, <1>3, <1>4, <1>5 DEF Next, RequestStep

THEOREM Invariance == Spec => []IInv
<1>1. Init => IInv
  BY InitIInv
<1>2. IInv /\ [Next]_vars => IInv'
  BY NextIInv, StutterIInv
<1> QED  BY <1>1, <1>2, PTL DEF Spec

(* Windows count from one, no session outlives now + ttlMs, every marked   *)
(* milestone has its event, and rows of preferences are complete.          *)
THEOREM TypeCorrect == Spec => []TypeOK
<1>1. ASSUME IInv PROVE TypeOK
  <2> USE <1>1 DEF IInv
  <2>1. \A k \in DOMAIN windows : windows[k].count > 0 /\ windows[k].resetAt \in Nat
    BY DEF WindowTypes
  <2>2. \A t \in DOMAIN sessions : sessions[t].expiresAt <= now + TtlMs
    BY TimesAssumption DEF SessionInv, DoorTypes
  <2> QED  BY <2>1, <2>2 DEF DoorTypes, Codes, MilestoneInv, PreferenceInv, TypeOK
<1> QED  BY <1>1, Invariance, PTL

(* sessionAuth attaches a user only for a token that SessionStore issued   *)
(* in this process, that was not deleted, and that was issued or touched   *)
(* less than ttlMs ago.                                                    *)
THEOREM OnlyLiveSessionsPass == Spec => []LiveSessionOnly
<1>1. ASSUME IInv PROVE LiveSessionOnly
  <2>1. SUFFICES ASSUME NEW t \in Requests, get(t) # {}
                 PROVE  t \in DOMAIN seenAt \ loggedOut /\ now < seenAt[t] + TtlMs
    BY DEF LiveSessionOnly
  <2>2. t \in DOMAIN sessions /\ ~(now >= sessions[t].expiresAt)
    BY <2>1 DEF get, Expired, isExpired
  <2> QED  BY <1>1, <2>2, TimesAssumption DEF IInv, DoorTypes, SessionInv
<1> QED  BY <1>1, Invariance, PTL

(* Two requests mark the milestone in the life of a process only when one  *)
(* had read it pending before the other marked it.                         *)
THEOREM TwiceOnlyByRace == Spec => []ValidatedTwiceIsRace
<1>1. IInv => ValidatedTwiceIsRace
  BY DEF IInv, MilestoneInv
<1> QED  BY <1>1, Invariance, PTL

(* A validated milestone is announced, or about to be, or its announcement *)
(* was rejected by the publisher of the handler.                           *)
THEOREM AnnouncedOrRejected == Spec => []ValidatedIsAnnounced
<1>1. IInv => ValidatedIsAnnounced
  BY DEF IInv, MilestoneInv, ValidatedIsAnnounced
<1> QED  BY <1>1, Invariance, PTL

LEMMA OnlyUpsertWrites ==
    ASSUME [Next]_vars, preferences' # preferences
    PROVE  \E r \in Requests : Upsert(r)
<1> USE DEF milestoneVars, preferenceVars
<1>1. CASE UNCHANGED vars
  BY <1>1 DEF vars
<1>2. CASE DoorAlone \/ \E r \in Requests : DoorStep(r)
  BY <1>2 DEF DoorAlone, DoorStep
<1>3. CASE Restart
  BY <1>3 DEF Restart
<1>4. ASSUME NEW r \in Requests, ValidateStep(r) PROVE FALSE
  BY <1>4 DEF ValidateStep, Validate, IsVerifierAssigned, GetMilestone, CreateEvent,
     MarkValidated, Publish
<1>5. ASSUME NEW r \in Requests, PatchStep(r) PROVE Upsert(r)
  BY <1>5 DEF PatchStep, Patch, ReadExisting
<1>6. ASSUME NEW r \in Requests, HandlerFails(r) PROVE FALSE
  BY <1>6 DEF HandlerFails
<1> QED  BY <1>1, <1>2, <1>3, <1>4, <1>5, <1>6 DEF Next, RequestStep

(* An update changes a field of a stored row that its body does not name   *)
(* only when another update of the row was stored after it had read it.    *)
THEOREM StaleOnlyByRace == Spec => StaleFieldIsRace
<1>1. ASSUME IInv, [Next]_vars, NEW u \in Users, NEW f \in Fields,
             preferences[u] # None, preferences'[u][f] # preferences[u][f]
      PROVE  \E r \in Requests : /\ pc[r] = "upsert" /\ pc'[r] = "done" /\ Updates(r, u)
                                 /\ f \in DOMAIN call[r].body \/ r \in raced
  <2>1. PICK r \in Requests : Upsert(r)
    BY <1>1, OnlyUpsertWrites
  <2>2. PICK v \in Users :
           /\ Updates(r, v)
           /\ preferences' = [preferences EXCEPT ![v] = Merged(call[r].body, existing[r])]
    BY <2>1 DEF Upsert
  <2>3. DOMAIN preferences = Users /\ DOMAIN pc = Requests
    BY <1>1 DEF IInv, PreferenceInv, DoorTypes
  <2>4. v = u /\ preferences'[u] = Merged(call[r].body, existing[r])
    BY <1>1, <2>2, <2>3
  <2>5. pc[r] = "upsert" /\ pc'[r] = "done"
    BY <2>1, <2>3 DEF Upsert, Answer
  <2>6. ASSUME f \notin DOMAIN call[r].body, r \notin raced PROVE FALSE
    <3>1. existing[r] = preferences[u]
      BY <1>1, <2>2, <2>4, <2>5, <2>6 DEF IInv, PreferenceInv
    <3>2. preferences'[u][f] = preferences[u][f]
      BY <1>1, <2>4, <2>6, <3>1 DEF Merged
    <3> QED  BY <1>1, <3>2
  <2> QED  BY <2>2, <2>4, <2>5, <2>6
<1>2. IInv /\ [Next]_vars
        => [\A u \in Users : \A f \in Fields :
              preferences[u] # None /\ preferences'[u][f] # preferences[u][f] =>
                 \E r \in Requests : /\ pc[r] = "upsert" /\ pc'[r] = "done" /\ Updates(r, u)
                                     /\ f \in DOMAIN call[r].body \/ r \in raced]_vars
  BY <1>1
<1> QED  BY <1>2, Invariance, PTL DEF Spec, StaleFieldIsRace

-----------------------------------------------------------------------------
(* Part 3: what the limiters promise. *)

(* What l has let through of a key in a span of time. *)
Between(ps, l, key, from, to) ==
    {q \in ps : q.limiter = l /\ q.key = key /\ from <= q.at /\ q.at < to}

(* Of the window that began at start, what l has let through is no more    *)
(* than was counted, and no more than its limit; without the instant at    *)
(* which the window began, it is less.                                     *)
CurrentInv(ps, l, key, window) ==
    LET start == window.resetAt - l.windowMs
        all   == Cardinality(Between(ps, l, key, start, window.resetAt))
        later == Cardinality(Between(ps, l, key, start + 1, window.resetAt))
    IN  /\ start \in 0..now
        /\ \A q \in ps : q.limiter = l /\ q.key = key => q.at < window.resetAt
        /\ all <= window.count /\ all <= l.limit
        /\ later < window.count /\ (later = 0 \/ later < l.limit)

(* A span of a window's length that began before start: what it has of the *)
(* time before start, or all of it.                                        *)
PastInv(ps, p, start) ==
    LET l == p.limiter
    IN  /\ p.at < start /\ start < p.at + l.windowMs =>
              Cardinality(Between(ps, l, p.key, p.at, start)) < l.limit
        /\ p.at + l.windowMs <= start =>
              Cardinality(Between(ps, l, p.key, p.at, p.at + l.windowMs)) < 2 * l.limit

BurstInv(ws, ps) ==
    /\ IsFiniteSet(ps)
    /\ \A p \in ps : /\ p.limiter \in Mounted /\ p.limiter.limit >= 1 /\ p.at \in 0..now
                     /\ <<StoreOf(p.limiter), p.key>> \in DOMAIN ws
    /\ \A l \in Mounted : \A k \in DOMAIN ws :
          k = <<StoreOf(l), k[2]>> /\ l.windowMs > 0 => CurrentInv(ps, l, k[2], ws[k])
    /\ \A p \in ps :
          p.limiter.windowMs > 0 =>
             PastInv(ps, p, ws[<<StoreOf(p.limiter), p.key>>].resetAt - p.limiter.windowMs)

(* What counts against l, of what has been let through and refused.        *)
Counted(ps, rs, l) == ps \cup {g \in rs : g.limiter.limit < l.limit}

(* Of it, what the limiters of l's store had of a key in a span of time,   *)
(* and what a refusal needs.                                               *)
Shared(cs, l, key, from, to) ==
    {q \in cs : StoreOf(q.limiter) = StoreOf(l) /\ q.key = key /\ from <= q.at /\ q.at < to}

Due(cs, l, key, at) ==
    {p \in cs : /\ StoreOf(p.limiter) = StoreOf(l) /\ p.key = key
                /\ p.at <= at /\ at < p.at + l.windowMs}

(* Of a window, what counts against l is what has been counted, or as many *)
(* as its limit says.                                                      *)
WindowTold(ws, l, k, cs) ==
    LET start == ws[k].resetAt - l.windowMs
        many  == Cardinality(Shared(cs, l, k[2], start, now + 1))
    IN  start \in 0..now /\ (many >= ws[k].count \/ many >= l.limit)

CountInv(ws, ps, rs) ==
    /\ IsFiniteSet(ps) /\ IsFiniteSet(rs)
    /\ \A p \in ps \cup rs : p.limiter \in Mounted /\ p.at \in 0..now
    /\ \A l \in Mounted : \A k \in DOMAIN ws :
          k = <<StoreOf(l), k[2]>> => WindowTold(ws, l, k, Counted(ps, rs, l))

RefusalInv ==
    /\ CountInv(windows, passed, refused)
    /\ \A p \in passed \cup refused : p.request \in Requests /\ pc[p.request] # "idle"
    /\ \A f \in refused :
          f.limiter \in Mounted
          /\ Cardinality(Due(Counted(passed, refused, f.limiter), f.limiter, f.key, f.at))
               >= f.limiter.limit

LEMMA MountedTypes ==
    \A m \in Mounted : m.limit \in Nat /\ m.windowMs \in Nat
<1>1. ASSUME NEW ls \in Seq(Limiter), NEW i \in DOMAIN ls PROVE ls[i] \in Limiter
  BY <1>1
<1>2. Mounted \subseteq Limiter
  BY <1>1, LimitersAssumption DEF Mounted
<1> QED  BY <1>2 DEF Limiter

(* How many: a part has no more; one more element, no more than one more.  *)
LEMMA PartHasNoMore ==
    ASSUME NEW A, IsFiniteSet(A), NEW B, B \subseteq A
    PROVE  /\ IsFiniteSet(B) /\ Cardinality(B) <= Cardinality(A)
           /\ Cardinality(B) \in Nat /\ Cardinality(A) \in Nat
BY FS_Subset, FS_CardinalityType

LEMMA OneMore ==
    ASSUME NEW A, IsFiniteSet(A), NEW x, NEW B, B \subseteq A \cup {x}
    PROVE  /\ IsFiniteSet(B) /\ Cardinality(B) <= Cardinality(A) + 1
           /\ Cardinality(B) \in Nat /\ Cardinality(A) \in Nat
           /\ x \notin A /\ B = A \cup {x} => Cardinality(B) = Cardinality(A) + 1
<1>1. /\ IsFiniteSet(A \cup {x})
      /\ Cardinality(A \cup {x}) = IF x \in A THEN Cardinality(A) ELSE Cardinality(A) + 1
  BY FS_AddElement
<1>2. Cardinality(A) \in Nat
  BY FS_CardinalityType
<1>3. /\ IsFiniteSet(B) /\ Cardinality(B) <= Cardinality(A \cup {x})
      /\ Cardinality(B) \in Nat
  BY <1>1, PartHasNoMore
<1> QED  BY <1>1, <1>2, <1>3

LEMMA TwoParts ==
    ASSUME NEW A, IsFiniteSet(A), NEW B, IsFiniteSet(B), NEW C, C \subseteq A \cup B
    PROVE  /\ Cardinality(C) <= Cardinality(A) + Cardinality(B)
           /\ Cardinality(A) \in Nat /\ Cardinality(B) \in Nat /\ Cardinality(C) \in Nat
<1>1. /\ IsFiniteSet(A \cup B)
      /\ Cardinality(A \cup B) = Cardinality(A) + Cardinality(B) - Cardinality(A \cap B)
  BY FS_Union
<1>2. Cardinality(A) \in Nat /\ Cardinality(B) \in Nat
  BY FS_CardinalityType
<1>3. Cardinality(A \cap B) \in Nat
  <2>1. IsFiniteSet(A \cap B)
    BY PartHasNoMore
  <2> QED  BY <2>1, FS_CardinalityType
<1>4. Cardinality(C) <= Cardinality(A \cup B) /\ Cardinality(C) \in Nat
  BY <1>1, PartHasNoMore
<1> QED  BY <1>1, <1>2, <1>3, <1>4

LEMMA BetweenFinite ==
    ASSUME NEW ps, IsFiniteSet(ps), NEW l, NEW key, NEW from, NEW to
    PROVE  IsFiniteSet(Between(ps, l, key, from, to))
           /\ Cardinality(Between(ps, l, key, from, to)) \in Nat
<1>1. Between(ps, l, key, from, to) \subseteq ps
  BY DEF Between
<1> QED  BY <1>1, PartHasNoMore

(* The two cases of increment: a window begins, or goes on. *)
Incremented(ws, k, w, new) ==
    /\ WindowTypes(new) /\ DOMAIN new = DOMAIN ws \cup {k}
    /\ \A x \in DOMAIN ws \ {k} : new[x] = ws[x]
    /\ \/ /\ k \notin DOMAIN ws \/ now >= ws[k].resetAt
          /\ new[k].count = 1 /\ new[k].resetAt = now + w
       \/ /\ ~(k \notin DOMAIN ws \/ now >= ws[k].resetAt)
          /\ k \in DOMAIN ws /\ now < ws[k].resetAt
          /\ new[k].count = ws[k].count + 1 /\ new[k].resetAt = ws[k].resetAt

LEMMA IncrementCases ==
    ASSUME NEW ws, WindowTypes(ws), NEW k, NEW w \in Nat, now \in Nat
    PROVE  Incremented(ws, k, w, increment(ws, k, w))
<1> DEFINE inc == increment(ws, k, w)
<1>1. /\ WindowTypes(inc)
      /\ DOMAIN inc = DOMAIN ws \cup {k}
      /\ \A x \in DOMAIN ws \ {k} : inc[x] = ws[x]
      /\ IF k \notin DOMAIN ws \/ now >= ws[k].resetAt
         THEN inc[k].count = 1 /\ inc[k].resetAt = now + w
         ELSE inc[k].count = ws[k].count + 1 /\ inc[k].resetAt = ws[k].resetAt
  BY IncrementFacts, Zenon
<1> HIDE DEF inc
<1>2. CASE k \notin DOMAIN ws \/ now >= ws[k].resetAt
  <2>1. Incremented(ws, k, w, inc)
    BY <1>1, <1>2, Zenon DEF Incremented
  <2> QED  BY <2>1 DEF inc
<1>3. CASE ~(k \notin DOMAIN ws \/ now >= ws[k].resetAt)
  <2>1. k \in DOMAIN ws /\ ws[k].resetAt \in Nat
    BY <1>3 DEF WindowTypes
  <2>2. now < ws[k].resetAt
    BY <1>3, <2>1
  <2>3. Incremented(ws, k, w, inc)
    BY <1>1, <1>3, <2>1, <2>2, Zenon DEF Incremented
  <2> QED  BY <2>3 DEF inc
<1> QED  BY <1>2, <1>3

LEMMA BurstInvParts ==
    ASSUME NEW ws, NEW ps, BurstInv(ws, ps), now \in Nat
    PROVE  /\ IsFiniteSet(ps)
           /\ \A p \in ps : /\ p.limiter \in Mounted /\ p.limiter.limit >= 1
                            /\ p.at \in 0..now /\ p.at \in Nat /\ p.at <= now
                            /\ <<StoreOf(p.limiter), p.key>> \in DOMAIN ws
<1>1. /\ IsFiniteSet(ps)
      /\ \A p \in ps : /\ p.limiter \in Mounted /\ p.limiter.limit >= 1 /\ p.at \in 0..now
                       /\ <<StoreOf(p.limiter), p.key>> \in DOMAIN ws
  BY Zenon DEF BurstInv
<1>2. \A x \in 0..now : x \in Nat /\ x <= now
  OBVIOUS
<1> QED  BY <1>1, <1>2, Zenon

(* Passes of a window are in it or before it: what a span of its length    *)
(* has is bounded from what the window has.                                *)
LEMMA BurstInvBounds ==
    ASSUME now \in Nat, NEW ws, WindowTypes(ws), NEW ps, BurstInv(ws, ps), NEW p \in ps
    PROVE  Cardinality(Between(ps, p.limiter, p.key, p.at, p.at + p.limiter.windowMs))
             < 2 * p.limiter.limit
<1> DEFINE l == p.limiter
           k == <<StoreOf(l), p.key>>
           w == l.windowMs
           s == ws[k].resetAt - w
           span == Between(ps, l, p.key, p.at, p.at + w)
<1>1. /\ IsFiniteSet(ps) /\ l \in Mounted /\ l.limit >= 1 /\ p.at \in Nat /\ k \in DOMAIN ws
      /\ \A q \in ps : q.at \in Nat
  BY BurstInvParts
<1>2. w \in Nat /\ l.limit \in Nat
  BY <1>1, MountedTypes
<1>3. CASE w = 0
  <2>1. span = {}
    BY <1>1, <1>3 DEF Between
  <2> HIDE DEF span
  <2>2. Cardinality(span) = 0
    BY <2>1, FS_EmptySet
  <2> QED  BY <1>1, <1>2, <2>2 DEF span
<1>4. CASE w > 0
  <2>1. ws[k].resetAt \in Nat
    BY <1>1 DEF WindowTypes
  <2>2. CurrentInv(ps, l, p.key, ws[k]) /\ PastInv(ps, p, s)
    BY <1>1, <1>4 DEF BurstInv
  <2> DEFINE window == Between(ps, l, p.key, s, ws[k].resetAt)
             before == Between(ps, l, p.key, p.at, s)
  <2>3. /\ \A q \in ps : q.limiter = l /\ q.key = p.key => q.at < ws[k].resetAt
        /\ Cardinality(window) <= l.limit
    BY <2>2 DEF CurrentInv
  <2>4. IsFiniteSet(window) /\ IsFiniteSet(before)
    BY <1>1, BetweenFinite
  <2>5. span \subseteq before \cup window
    BY <1>1, <1>2, <2>1, <2>3 DEF Between
  <2>6. p.at >= s => before = {}
    BY <1>1, <1>2, <2>1 DEF Between
  <2>7. /\ p.at < s /\ s < p.at + w => Cardinality(before) < l.limit
        /\ p.at + w <= s => Cardinality(span) < 2 * l.limit
    BY <2>2 DEF PastInv
  <2> HIDE DEF span, window, before
  <2>8. /\ Cardinality(span) <= Cardinality(before) + Cardinality(window)
        /\ Cardinality(before) \in Nat /\ Cardinality(window) \in Nat /\ Cardinality(span) \in Nat
    BY <2>4, <2>5, TwoParts
  <2>9. p.at >= s => Cardinality(before) = 0
    BY <2>6, FS_EmptySet
  <2>10. s \in Int
    BY <1>2, <2>1
  <2> HIDE DEF s
  <2> QED  BY <1>1, <1>2, <2>3, <2>7, <2>8, <2>9, <2>10 DEF span
<1> QED  BY <1>2, <1>3, <1>4

(* The claim survives one limiter, which counts a request and, when it     *)
(* lets it through, adds it to what has passed.                            *)
LEMMA BurstStep ==
    ASSUME OneWindowPerStore, now \in Nat, NEW ws, WindowTypes(ws), NEW ps, BurstInv(ws, ps),
           NEW l \in Mounted, NEW key, NEW new, new = increment(ws, <<StoreOf(l), key>>, l.windowMs),
           NEW one, one.limiter = l, one.key = key, one.at = now,
           NEW qs, ps \subseteq qs, qs \subseteq ps \cup {one},
           one \in qs \ ps => new[<<StoreOf(l), key>>].count <= l.limit
    PROVE  BurstInv(new, qs)
<1> DEFINE k == <<StoreOf(l), key>>
           w == l.windowMs
           fresh == k \notin DOMAIN ws \/ now >= ws[k].resetAt
<1>1. w \in Nat /\ l.limit \in Nat
  BY MountedTypes
<1>2. /\ WindowTypes(new) /\ DOMAIN new = DOMAIN ws \cup {k}
      /\ \A x \in DOMAIN ws \ {k} : new[x] = ws[x]
      /\ fresh => new[k].count = 1 /\ new[k].resetAt = now + w
      /\ ~fresh => /\ new[k].count = ws[k].count + 1 /\ new[k].resetAt = ws[k].resetAt
                   /\ k \in DOMAIN ws /\ now < ws[k].resetAt
  <2>1. new = increment(ws, k, w)
    OBVIOUS
  <2> HIDE DEF k, w
  <2>2. w \in Nat
    BY <1>1 DEF w
  <2>3. Incremented(ws, k, w, increment(ws, k, w))
    BY <2>2, IncrementCases, Zenon
  <2> QED  BY <2>1, <2>3, Zenon DEF Incremented
<1>3. /\ \A x \in DOMAIN ws : ws[x].count \in Nat \ {0} /\ ws[x].resetAt \in Nat
      /\ \A x \in DOMAIN new : new[x].count \in Nat \ {0} /\ new[x].resetAt \in Nat
  BY <1>2 DEF WindowTypes
<1>4. \A p \in ps : /\ p.limiter \in Mounted /\ p.limiter.limit >= 1 /\ p.at \in 0..now
                    /\ p.at \in Nat /\ p.at <= now
                    /\ <<StoreOf(p.limiter), p.key>> \in DOMAIN ws
  BY BurstInvParts
<1>5. IsFiniteSet(ps) /\ IsFiniteSet(qs)
  <2>1. IsFiniteSet(ps)
    BY BurstInvParts
  <2> QED  BY <2>1, OneMore
<1>6. \A q \in qs : /\ q.limiter \in Mounted /\ q.limiter.limit >= 1 /\ q.at \in 0..now
                    /\ <<StoreOf(q.limiter), q.key>> \in DOMAIN new
  <2>1. one \in qs \ ps => l.limit >= 1
    BY <1>1, <1>2, <1>3
  <2>2. ASSUME one \in qs \ ps
        PROVE  /\ one.limiter \in Mounted /\ one.limiter.limit >= 1 /\ one.at \in 0..now
               /\ <<StoreOf(one.limiter), one.key>> \in DOMAIN new
    BY <1>2, <2>1, <2>2
  <2>3. \A q \in qs : q \in ps \/ (q = one /\ one \in qs \ ps)
    OBVIOUS
  <2> QED  BY <1>2, <1>4, <2>2, <2>3
<1> HIDE DEF k, w, fresh
<1>7. ASSUME NEW m \in Mounted, NEW x \in DOMAIN new, x = <<StoreOf(m), x[2]>>, m.windowMs > 0
      PROVE  CurrentInv(qs, m, x[2], new[x])
  <2>1. m.windowMs \in Nat /\ m.limit \in Nat
    BY MountedTypes
  <2>2. CASE x # k
    <3>1. x \in DOMAIN ws /\ new[x] = ws[x]
      BY <1>2, <2>2
    <3>2. CurrentInv(ps, m, x[2], ws[x])
      BY <1>7, <3>1 DEF BurstInv
    <3>3. one.limiter # m \/ one.key # x[2]
      BY <1>7, <2>2 DEF k
    <3>4. \A from, to : Between(qs, m, x[2], from, to) = Between(ps, m, x[2], from, to)
      BY <3>3 DEF Between
    <3>5. \A q \in qs : q.limiter = m /\ q.key = x[2] => q \in ps
      BY <3>3
    <3> QED  BY <3>1, <3>2, <3>4, <3>5 DEF CurrentInv
  <2>3. CASE x = k
    <3>1. x[2] = key /\ StoreOf(m) = StoreOf(l) /\ m.windowMs = w
      BY <1>7, <2>3 DEF k, w, OneWindowPerStore
    <3> DEFINE start == new[k].resetAt - w
               all   == Between(qs, m, key, start, new[k].resetAt)
               later == Between(qs, m, key, start + 1, new[k].resetAt)
    <3>2. CASE fresh
      <4>1. start = now /\ new[k].count = 1 /\ new[k].resetAt = now + w
        BY <1>1, <1>2, <3>2 DEF w
      <4>2. \A q \in ps : q.limiter = m /\ q.key = key => q.at < now
        <5>1. SUFFICES ASSUME NEW q \in ps, q.limiter = m, q.key = key PROVE q.at < now
          OBVIOUS
        <5>2. k \in DOMAIN ws
          BY <1>4, <3>1, <5>1 DEF k
        <5>3. CurrentInv(ps, m, key, ws[k])
          BY <1>7, <2>3, <3>1, <5>2 DEF BurstInv
        <5>4. q.at < ws[k].resetAt /\ now >= ws[k].resetAt
          BY <3>2, <5>1, <5>2, <5>3 DEF CurrentInv, fresh
        <5>5. ws[k].resetAt \in Nat
          BY <1>3, <5>2
        <5>6. q.at \in Nat
          BY <1>4, <5>1
        <5> QED  BY <5>4, <5>5, <5>6
      <4>3. all \subseteq {} \cup {one} /\ later = {} /\ (all # {} => m = l /\ one \in qs \ ps)
        <5>1. \A q \in ps : q.limiter = m /\ q.key = key => ~(start <= q.at)
          <6> HIDE DEF start
          <6>1. ASSUME NEW q \in ps, q.limiter = m, q.key = key PROVE q.at < now /\ q.at \in Nat
            BY <1>4, <4>2, <6>1
          <6>2. \A n \in Nat : n < now => ~(start <= n) /\ ~(start + 1 <= n)
            BY <4>1
          <6> QED  BY <6>1, <6>2
        <5>2. ~(start + 1 <= one.at)
          BY <1>1, <4>1
        <5>3. \A q \in ps : q.limiter = m /\ q.key = key => ~(start + 1 <= q.at)
          <6> HIDE DEF start
          <6>1. ASSUME NEW q \in ps, q.limiter = m, q.key = key PROVE q.at < now /\ q.at \in Nat
            BY <1>4, <4>2, <6>1
          <6>2. \A n \in Nat : n < now => ~(start <= n) /\ ~(start + 1 <= n)
            BY <4>1
          <6> QED  BY <6>1, <6>2
        <5> HIDE DEF start
        <5>4. all \subseteq {one} /\ (all # {} => m = l /\ one \in qs \ ps)
          BY <5>1 DEF Between
        <5>5. later = {}
          BY <5>2, <5>3 DEF Between
        <5> QED  BY <5>4, <5>5
      <4>4. \A q \in qs : q.limiter = m /\ q.key = key => q.at < new[k].resetAt
        BY <1>1, <1>4, <1>7, <3>1, <4>1, <4>2
      <4> HIDE DEF all, later
      <4>5. Cardinality(all) <= 1 /\ Cardinality(all) \in Nat /\ (all = {} => Cardinality(all) = 0)
        <5>1. IsFiniteSet({}) /\ Cardinality({}) = 0
          BY FS_EmptySet
        <5>2. Cardinality(all) <= Cardinality({}) + 1 /\ Cardinality(all) \in Nat
          BY <4>3, <5>1, OneMore
        <5>3. all = {} => Cardinality(all) = 0
          BY <5>1
        <5>4. Cardinality({}) + 1 = 1
          BY <5>1
        <5> QED  BY <5>2, <5>3, <5>4
      <4>6. Cardinality(later) = 0
        BY <4>3, FS_EmptySet
      <4>7. all # {} => m.limit >= 1
        BY <4>1, <4>3 DEF k
      <4> QED  BY <2>1, <2>3, <3>1, <4>1, <4>3, <4>4, <4>5, <4>6, <4>7 DEF CurrentInv, all, later
    <3>3. CASE ~fresh
      <4>1. /\ new[k].count = ws[k].count + 1 /\ new[k].resetAt = ws[k].resetAt
            /\ k \in DOMAIN ws /\ now < ws[k].resetAt
        BY <1>2, <3>3
      <4>2. CurrentInv(ps, m, key, ws[k])
        BY <1>7, <2>3, <3>1, <4>1 DEF BurstInv
      <4> DEFINE all0   == Between(ps, m, key, start, new[k].resetAt)
                 later0 == Between(ps, m, key, start + 1, new[k].resetAt)
      <4>3. /\ start \in 0..now
            /\ \A q \in ps : q.limiter = m /\ q.key = key => q.at < new[k].resetAt
            /\ Cardinality(all0) <= ws[k].count /\ Cardinality(all0) <= m.limit
            /\ Cardinality(later0) < ws[k].count
            /\ Cardinality(later0) = 0 \/ Cardinality(later0) < m.limit
        BY <3>1, <4>1, <4>2 DEF CurrentInv
      <4>4. /\ all \subseteq all0 \cup {one} /\ later \subseteq later0 \cup {one}
            /\ ~(m = l /\ one \in qs \ ps) => all = all0 /\ later = later0
        BY DEF Between
      <4>5. IsFiniteSet(all0) /\ IsFiniteSet(later0)
        BY <1>5, BetweenFinite
      <4>6. \A q \in qs : q.limiter = m /\ q.key = key => q.at < new[k].resetAt
        BY <4>1, <4>3
      <4>7. m = l /\ one \in qs \ ps => ws[k].count + 1 <= m.limit
        BY <4>1 DEF k
      <4> HIDE DEF start, all, later, all0, later0
      <4>8. /\ Cardinality(all) <= Cardinality(all0) + 1
            /\ Cardinality(later) <= Cardinality(later0) + 1
            /\ Cardinality(all0) \in Nat /\ Cardinality(later0) \in Nat
            /\ Cardinality(all) \in Nat /\ Cardinality(later) \in Nat
        BY <4>4, <4>5, OneMore
      <4>9. ws[k].count \in Nat
        BY <1>3, <4>1
      <4>10. /\ Cardinality(all) <= ws[k].count + 1 /\ Cardinality(all) <= m.limit
             /\ Cardinality(later) < ws[k].count + 1
             /\ Cardinality(later) = 0 \/ Cardinality(later) < m.limit
        BY <2>1, <4>3, <4>4, <4>7, <4>8, <4>9
      <4> QED  BY <2>3, <3>1, <4>1, <4>3, <4>6, <4>10 DEF CurrentInv, start, all, later
    <3> QED  BY <3>2, <3>3
  <2> QED  BY <2>2, <2>3
<1>8. ASSUME NEW p \in qs, p.limiter.windowMs > 0
      PROVE  PastInv(qs, p, new[<<StoreOf(p.limiter), p.key>>].resetAt - p.limiter.windowMs)
  <2> DEFINE m == p.limiter
             x == <<StoreOf(m), p.key>>
  <2>1. m \in Mounted /\ m.windowMs \in Nat /\ m.limit \in Nat /\ p.at \in 0..now
    BY <1>6, MountedTypes
  <2>2. p \in ps \/ p = one
    OBVIOUS
  <2>3. CASE x # k
    <3>1. p \in ps /\ x \in DOMAIN ws /\ new[x] = ws[x]
      BY <1>2, <1>4, <2>2, <2>3 DEF k
    <3>2. PastInv(ps, p, ws[x].resetAt - m.windowMs)
      BY <1>8, <3>1 DEF BurstInv
    <3>3. \A from, to : Between(qs, m, p.key, from, to) = Between(ps, m, p.key, from, to)
      BY <2>3 DEF Between, k
    <3> QED  BY <3>1, <3>2, <3>3 DEF PastInv
  <2>4. CASE x = k
    <3>1. p.key = key /\ StoreOf(m) = StoreOf(l) /\ m.windowMs = w
      BY <2>1, <2>4 DEF k, w, OneWindowPerStore
    <3> DEFINE start == new[k].resetAt - w
    <3>2. start \in Int /\ start <= now /\ (p = one => p.at >= start)
      <4>1. CASE fresh
        BY <1>1, <1>2, <4>1 DEF w
      <4>2. CASE ~fresh
        <5>1. k \in DOMAIN ws /\ new[k].resetAt = ws[k].resetAt
          BY <1>2, <4>2
        <5>2. CurrentInv(ps, m, p.key, ws[k])
          BY <1>8, <2>1, <2>4, <5>1 DEF BurstInv
        <5>3. start \in 0..now
          BY <3>1, <5>1, <5>2 DEF CurrentInv
        <5> QED  BY <5>3
      <4> QED  BY <4>1, <4>2
    <3>3. \A to \in Int : to <= now =>
             Between(qs, m, p.key, p.at, to) = Between(ps, m, p.key, p.at, to)
      BY DEF Between
    <3>4. CASE p \notin ps
      BY <1>1, <1>8, <2>1, <2>2, <2>4, <3>1, <3>2, <3>4 DEF PastInv, w
    <3>5. CASE p \in ps /\ ~fresh
      <4>1. k \in DOMAIN ws /\ new[k].resetAt = ws[k].resetAt
        BY <1>2, <3>5
      <4>2. PastInv(ps, p, start)
        BY <1>8, <2>4, <3>1, <3>5, <4>1 DEF BurstInv
      <4>3. p.at + m.windowMs \in Int
        BY <2>1
      <4> HIDE DEF start
      <4>4. PastInv(qs, p, start)
        BY <2>1, <3>2, <3>3, <4>2, <4>3 DEF PastInv
      <4> QED  BY <2>4, <3>1, <4>4 DEF start
    <3>6. CASE p \in ps /\ fresh
      <4>1. start = now
        BY <1>1, <1>2, <3>6 DEF w
      <4>2. k \in DOMAIN ws /\ now >= ws[k].resetAt /\ ws[k].resetAt \in Nat
        BY <1>3, <1>4, <2>4, <3>6 DEF fresh
      <4>3. CurrentInv(ps, m, p.key, ws[k])
        BY <1>8, <2>1, <2>4, <4>2 DEF BurstInv
      <4> DEFINE old == ws[k].resetAt - w
      <4>4. ASSUME p.at < now, now < p.at + w
            PROVE  Cardinality(Between(qs, m, p.key, p.at, now)) < m.limit
        <5> DEFINE part  == Between(qs, m, p.key, p.at, now)
                   later == Between(ps, m, p.key, old + 1, ws[k].resetAt)
        <5>1. part = Between(ps, m, p.key, p.at, now)
          BY <2>1, <3>3
        <5>2. /\ \A q \in ps : q.limiter = m /\ q.key = p.key => q.at < ws[k].resetAt
              /\ Cardinality(later) = 0 \/ Cardinality(later) < m.limit
          BY <3>1, <4>3 DEF CurrentInv
        <5>3. old + 1 <= p.at
          BY <1>1, <2>1, <4>2, <4>4 DEF w
        <5>4. part \subseteq later
          <6>1. SUFFICES ASSUME NEW q \in ps, q.limiter = m, q.key = p.key, p.at <= q.at
                         PROVE  old + 1 <= q.at /\ q.at < ws[k].resetAt
            BY <5>1 DEF Between
          <6>2. q.at \in Nat /\ old \in Int
            <7>1. q.at \in Nat
              BY <1>4, <6>1
            <7> QED  BY <1>1, <4>2, <7>1 DEF w
          <6> HIDE DEF old
          <6> QED  BY <2>1, <5>2, <5>3, <6>1, <6>2
        <5>5. IsFiniteSet(later)
          BY <1>5, BetweenFinite
        <5> HIDE DEF part, later, old
        <5>6. /\ Cardinality(part) <= Cardinality(later)
              /\ Cardinality(part) \in Nat /\ Cardinality(later) \in Nat
          BY <5>4, <5>5, PartHasNoMore
        <5>7. m.limit >= 1
          BY <1>6
        <5> QED  BY <2>1, <5>2, <5>6, <5>7 DEF part
      <4>5. ASSUME p.at + w <= now
            PROVE  Cardinality(Between(qs, m, p.key, p.at, p.at + w)) < 2 * m.limit
        <5>1. Cardinality(Between(ps, m, p.key, p.at, p.at + m.windowMs)) < 2 * m.limit
          BY <3>6, BurstInvBounds
        <5>2. Between(qs, m, p.key, p.at, p.at + w) = Between(ps, m, p.key, p.at, p.at + w)
          BY <1>1, <2>1, <3>3, <4>5 DEF w
        <5> QED  BY <3>1, <5>1, <5>2
      <4> QED  BY <2>4, <3>1, <4>1, <4>4, <4>5 DEF PastInv
    <3> QED  BY <3>4, <3>5, <3>6
  <2> QED  BY <2>3, <2>4
<1> QED  BY <1>5, <1>6, <1>7, <1>8 DEF BurstInv

LEMMA StampedOneMore ==
    ASSUME NEW r, NEW ps, NEW l, NEW key
    PROVE  Stamped(r, ps \cup {[limiter |-> l, key |-> key]})
             = Stamped(r, ps) \cup {[limiter |-> l, key |-> key, at |-> now, request |-> r]}
<1> DEFINE what == [limiter |-> l, key |-> key]
<1>1. what.limiter = l /\ what.key = key
  OBVIOUS
<1> HIDE DEF what
<1>2. Stamped(r, ps \cup {what})
        = Stamped(r, ps) \cup {[limiter |-> what.limiter, key |-> what.key, at |-> now, request |-> r]}
  BY Zenon DEF Stamped
<1> QED  BY <1>1, <1>2 DEF what

LEMMA BurstLimit ==
    ASSUME OneWindowPerStore, now \in Nat, NEW r, NEW st, IsStage(st),
           BurstInv(st.windows, passed \cup Stamped(r, st.passed)),
           NEW l \in Limiter, l \in Mounted, NEW ip, NEW user
    PROVE  BurstInv(Limit(st, l, ip, user).windows,
                    passed \cup Stamped(r, Limit(st, l, ip, user).passed))
<1> DEFINE next == Limit(st, l, ip, user)
           key  == KeyOf(l, ip, user)
           k    == <<StoreOf(l), key>>
           ws   == increment(st.windows, k, l.windowMs)
           ps   == passed \cup Stamped(r, st.passed)
           one  == [limiter |-> l, key |-> key, at |-> now, request |-> r]
<1>0. /\ IsStage(next)
      /\ \/ next = st
         \/ /\ next.windows = ws /\ next.passed = st.passed
            /\ ws[k].count > l.limit
            /\ next.refusedBy = {[limiter |-> l, key |-> key]}
         \/ /\ next.windows = ws
            /\ ws[k].count <= l.limit
            /\ next.passed = st.passed \cup {[limiter |-> l, key |-> key]}
            /\ next.refusedBy = st.refusedBy
  BY LimitFacts
<1>1. \/ next = st
      \/ next.windows = ws /\ next.passed = st.passed
      \/ /\ next.windows = ws /\ ws[k].count <= l.limit
         /\ next.passed = st.passed \cup {[limiter |-> l, key |-> key]}
  BY <1>0, Zenon
<1>2. one.limiter = l /\ one.key = key /\ one.at = now
  OBVIOUS
<1>3. WindowTypes(st.windows) /\ BurstInv(st.windows, ps)
  BY DEF IsStage
<1>4. Stamped(r, st.passed \cup {[limiter |-> l, key |-> key]}) = Stamped(r, st.passed) \cup {one}
  BY StampedOneMore
<1> HIDE DEF next, key, one, ps
<1>5. CASE next = st
  BY <1>3, <1>5 DEF next, ps
<1>6. CASE next.windows = ws /\ next.passed = st.passed
  <2>1. BurstInv(ws, ps)
    BY <1>2, <1>3, BurstStep
  <2> QED  BY <1>6, <2>1 DEF next, ps
<1>7. CASE /\ next.windows = ws /\ ws[k].count <= l.limit
           /\ next.passed = st.passed \cup {[limiter |-> l, key |-> key]}
  <2>1. BurstInv(ws, ps \cup {one})
    BY <1>2, <1>3, <1>7, BurstStep
  <2>2. ps \cup {one} = passed \cup Stamped(r, next.passed)
    BY <1>4, <1>7 DEF ps
  <2> QED  BY <1>7, <2>1, <2>2 DEF next
<1> QED  BY <1>1, <1>5, <1>6, <1>7 DEF next

LEMMA BurstChain ==
    ASSUME OneWindowPerStore, now \in Nat, NEW r, NEW st, IsStage(st),
           BurstInv(st.windows, passed \cup Stamped(r, st.passed)),
           NEW ls \in Seq(Limiter), \A i \in DOMAIN ls : ls[i] \in Mounted, NEW ip, NEW user
    PROVE  BurstInv(LimitAll(st, ls, ip, user).windows,
                    passed \cup Stamped(r, LimitAll(st, ls, ip, user).passed))
<1> DEFINE f == Passing(st, ls, ip, user)
           S == {i \in 0..Len(ls) :
                   /\ IsStage(f[i])
                   /\ BurstInv(f[i].windows, passed \cup Stamped(r, f[i].passed))}
<1>1. f[0] = st /\ \A i \in 1..Len(ls) : f[i] = Limit(f[i - 1], ls[i], ip, user)
  BY PassingSteps
<1>2. Len(ls) \in Nat /\ \A i \in 1..Len(ls) : ls[i] \in Limiter /\ ls[i] \in Mounted
  OBVIOUS
<1> HIDE DEF f
<1>3. 0 \in S
  <2>1. 0 \in 0..Len(ls)
    BY <1>2
  <2> QED  BY <1>1, <2>1, Zenon
<1>4. ASSUME NEW i \in 1..Len(ls), (i - 1) \in S PROVE i \in S
  <2>1. /\ ls[i] \in Limiter /\ ls[i] \in Mounted /\ IsStage(f[i - 1])
        /\ BurstInv(f[i - 1].windows, passed \cup Stamped(r, f[i - 1].passed))
        /\ f[i] = Limit(f[i - 1], ls[i], ip, user)
    BY <1>1, <1>2, <1>4
  <2>2. IsStage(Limit(f[i - 1], ls[i], ip, user))
    BY <2>1, LimitFacts, Zenon
  <2>3. BurstInv(Limit(f[i - 1], ls[i], ip, user).windows,
                 passed \cup Stamped(r, Limit(f[i - 1], ls[i], ip, user).passed))
    BY <2>1, BurstLimit, Zenon
  <2>4. i \in 0..Len(ls)
    BY <1>2
  <2> QED  BY <2>1, <2>2, <2>3, <2>4, Zenon
<1>5. \A i \in 0..Len(ls) : i \in S
  <2> HIDE DEF S
  <2> QED  BY <1>2, <1>3, <1>4, BoundedInduction
<1>6. LimitAll(st, ls, ip, user) = f[Len(ls)]
  BY DEF LimitAll, f
<1>7. Len(ls) \in S
  <2> HIDE DEF S
  <2> QED  BY <1>2, <1>5
<1> QED  BY <1>6, <1>7, Zenon

(* What a step does to the limiters: nothing, while time may pass; it is   *)
(* a request that they count; or the process starts anew.                  *)
LEMMA LimiterSteps ==
    ASSUME IInv, [Next]_vars
    PROVE  \/ /\ UNCHANGED limitVars /\ now' \in Nat /\ now <= now'
              /\ \A q \in Requests : pc[q] # "idle" => pc'[q] # "idle"
           \/ \E r \in Requests, c \in Calls : \E user :
                 /\ Receive(r, AtDoor(c)) \/ Receive(r, AfterAuth(c, user))
                 /\ \A q \in Requests : q = r \/ pc[q] # "idle" => pc'[q] # "idle"
           \/ windows' = <<>> /\ passed' = {} /\ refused' = {} /\ now' = now
<1> DEFINE Held == /\ UNCHANGED limitVars /\ now' \in Nat /\ now <= now'
                   /\ \A q \in Requests : pc[q] # "idle" => pc'[q] # "idle"
           MetBy(r, c) == \E user :
                 /\ Receive(r, AtDoor(c)) \/ Receive(r, AfterAuth(c, user))
                 /\ \A q \in Requests : q = r \/ pc[q] # "idle" => pc'[q] # "idle"
<1>1. now \in Nat /\ DOMAIN pc = Requests
  BY DEF IInv, DoorTypes
<1>2. ASSUME NEW r \in Requests, NEW code, Answer(r, code)
      PROVE  \A q \in Requests : q = r \/ pc[q] # "idle" => pc'[q] # "idle"
  BY <1>1, <1>2 DEF Answer
<1>3. ASSUME NEW r \in Requests, NEW c, NEW user, NEW place \in Places \ {"idle"},
             Begin(r, c, user, place)
      PROVE  \A q \in Requests : q = r \/ pc[q] # "idle" => pc'[q] # "idle"
  BY <1>1, <1>3 DEF Begin
<1>4. ASSUME NEW r \in Requests, NEW place \in Places \ {"idle"}, GoTo(r, place)
      PROVE  \A q \in Requests : q = r \/ pc[q] # "idle" => pc'[q] # "idle"
  BY <1>1, <1>4 DEF GoTo
<1>5. {"assignment", "milestone", "event", "mark", "publish", "read", "upsert"}
        \subseteq Places \ {"idle"}
  BY DEF Places
<1>6. CASE UNCHANGED vars
  BY <1>1, <1>6 DEF vars, doorVars, limitVars
<1>7. ASSUME Tick \/ sweep \/ \E t \in Requests : touch(t)
      PROVE  Held
  <2>1. CASE Tick
    BY <1>1, <2>1 DEF Tick
  <2>2. CASE sweep
    BY <1>1, <2>2 DEF sweep
  <2>3. ASSUME NEW t \in Requests, touch(t) PROVE Held
    BY <1>1, <2>3 DEF touch
  <2> QED  BY <1>7, <2>1, <2>2, <2>3
<1>8. ASSUME NEW r \in Requests, NEW c \in Calls,
             TooMany(r, c) \/ Unauthorized(r, c) \/ Login(r, c) \/ Logout(r, c) \/ Me(r, c)
      PROVE  MetBy(r, c)
  <2>1. \E user : Receive(r, AtDoor(c)) \/ Receive(r, AfterAuth(c, user))
    BY <1>8 DEF TooMany, Unauthorized, Login, Logout, Me, Enters
  <2>2. \E code : Answer(r, code)
    BY <1>8 DEF TooMany, Unauthorized, Login, Logout, Me
  <2> QED  BY <1>2, <2>1, <2>2
<1>9. ASSUME NEW r \in Requests, NEW c \in Calls, Validate(r, c) \/ Patch(r, c)
      PROVE  MetBy(r, c)
  <2>1. \E user : Receive(r, AfterAuth(c, user))
    BY <1>9 DEF Validate, Patch, Enters
  <2>2. (\E code : Answer(r, code))
        \/ \E user : Begin(r, c, user, "assignment") \/ Begin(r, c, user, "read")
    BY <1>9 DEF Validate, Patch
  <2> QED  BY <1>2, <1>3, <1>5, <2>1, <2>2
<1>10. ASSUME NEW r \in Requests,
              \/ IsVerifierAssigned(r) \/ GetMilestone(r) \/ CreateEvent(r) \/ MarkValidated(r)
              \/ Publish(r) \/ ReadExisting(r) \/ Upsert(r) \/ HandlerFails(r)
       PROVE  Held
  <2>1. UNCHANGED heldVars
    BY <1>10 DEF IsVerifierAssigned, GetMilestone, CreateEvent, MarkValidated, Publish,
       ReadExisting, Upsert, HandlerFails
  <2>2. \/ \E code : Answer(r, code)
        \/ GoTo(r, "milestone") \/ GoTo(r, "event") \/ GoTo(r, "mark") \/ GoTo(r, "publish")
        \/ GoTo(r, "upsert")
    BY <1>10 DEF IsVerifierAssigned, GetMilestone, CreateEvent, MarkValidated, Publish,
       ReadExisting, Upsert, HandlerFails
  <2>3. \A q \in Requests : pc[q] # "idle" => pc'[q] # "idle"
    BY <1>2, <1>4, <1>5, <2>2
  <2> QED  BY <1>1, <2>1, <2>3 DEF heldVars, limitVars
<1>11. CASE Restart
  BY <1>11 DEF Restart, RestartDoor
<1> HIDE DEF Held, MetBy
<1>12. Next => Held \/ Restart \/ \E r \in Requests, c \in Calls : MetBy(r, c)
  BY <1>7, <1>8, <1>9, <1>10 DEF Next, RequestStep, DoorAlone, DoorStep, ValidateStep, PatchStep, Held
<1> QED  BY <1>6, <1>11, <1>12 DEF Held, MetBy

LEMMA MountedLimiters ==
    ASSUME NEW c \in Calls
    PROVE  /\ Before[c.route] \in Seq(Limiter) /\ After[c.route] \in Seq(Limiter)
           /\ \A i \in DOMAIN Before[c.route] : Before[c.route][i] \in Mounted
           /\ \A i \in DOMAIN After[c.route] : After[c.route][i] \in Mounted
<1>1. c.route \in Routes
  BY CallsAssumption DEF CallType
<1>2. /\ Before[c.route] \in {Before[route] : route \in Routes}
      /\ After[c.route] \in {After[route] : route \in Routes}
  BY <1>1
<1>3. ASSUME NEW ls \in {Before[route] : route \in Routes} \cup {After[route] : route \in Routes},
             NEW i \in DOMAIN ls
      PROVE  ls[i] \in Mounted
  <2>1. ls[i] \in {ls[j] : j \in DOMAIN ls}
    OBVIOUS
  <2> QED  BY <2>1 DEF Mounted
<1> QED  BY <1>1, <1>2, <1>3, LimitersAssumption

LEMMA BurstStages ==
    ASSUME OneWindowPerStore, now \in Nat, WindowTypes(windows), BurstInv(windows, passed),
           NEW r, NEW c \in Calls, NEW user
    PROVE  /\ BurstInv(AtDoor(c).windows, passed \cup Stamped(r, AtDoor(c).passed))
           /\ BurstInv(AfterAuth(c, user).windows,
                       passed \cup Stamped(r, AfterAuth(c, user).passed))
<1> DEFINE st == [windows |-> windows, passed |-> {}, refusedBy |-> {}]
<1>1. /\ Before[c.route] \in Seq(Limiter) /\ After[c.route] \in Seq(Limiter)
      /\ \A i \in DOMAIN Before[c.route] : Before[c.route][i] \in Mounted
      /\ \A i \in DOMAIN After[c.route] : After[c.route][i] \in Mounted
  BY MountedLimiters
<1>2. IsStage(st) /\ st.windows = windows /\ passed \cup Stamped(r, st.passed) = passed
  BY DEF IsStage, Stamped
<1> HIDE DEF st
<1>3. BurstInv(st.windows, passed \cup Stamped(r, st.passed))
  BY <1>2
<1>4. AtDoor(c) = LimitAll(st, Before[c.route], c.ip, <<>>)
  BY DEF AtDoor, st
<1>5. /\ IsStage(AtDoor(c))
      /\ BurstInv(AtDoor(c).windows, passed \cup Stamped(r, AtDoor(c).passed))
  BY <1>1, <1>2, <1>3, <1>4, ChainIsStage, BurstChain
<1>6. AfterAuth(c, user) = LimitAll(AtDoor(c), After[c.route], c.ip, user)
  BY DEF AfterAuth
<1>7. BurstInv(AfterAuth(c, user).windows, passed \cup Stamped(r, AfterAuth(c, user).passed))
  BY <1>1, <1>5, <1>6, BurstChain
<1> QED  BY <1>5, <1>7

(* Under limiters that agree on the window of a store they share: of a key *)
(* a limiter lets through less than twice its limit in any span as long as *)
(* a window, wherever it begins.                                           *)
THEOREM BurstsAreBounded ==
    ASSUME OneWindowPerStore
    PROVE  Spec => []BurstBound
<1>1. Init => BurstInv(windows, passed)
  <2>1. ASSUME Init PROVE windows = <<>> /\ passed = {}
    BY <2>1 DEF Init, DoorInit
  <2> QED  BY <2>1, FS_EmptySet DEF BurstInv
<1>2. ASSUME IInv, BurstInv(windows, passed), [Next]_vars
      PROVE  BurstInv(windows, passed)'
  <2>1. now \in Nat /\ WindowTypes(windows)
    BY <1>2 DEF IInv, DoorTypes
  <2>2. ASSUME UNCHANGED limitVars, now' \in Nat, now <= now'
        PROVE  BurstInv(windows, passed)'
    <3>1. windows' = windows /\ passed' = passed /\ 0..now \subseteq 0..now'
      BY <2>1, <2>2 DEF limitVars
    <3>2. \A p \in passed : /\ p.limiter \in Mounted /\ p.limiter.limit >= 1 /\ p.at \in 0..now'
                            /\ <<StoreOf(p.limiter), p.key>> \in DOMAIN windows
      BY <1>2, <2>1, <3>1, BurstInvParts
    <3>3. ASSUME NEW l, NEW key, NEW window, CurrentInv(passed, l, key, window)
          PROVE  CurrentInv(passed, l, key, window)'
      BY <3>1, <3>3 DEF CurrentInv
    <3> QED  BY <1>2, <3>1, <3>2, <3>3 DEF BurstInv
  <2>3. ASSUME NEW r \in Requests, NEW c \in Calls, NEW user,
               Receive(r, AtDoor(c)) \/ Receive(r, AfterAuth(c, user))
        PROVE  BurstInv(windows, passed)'
    <3>1. /\ BurstInv(AtDoor(c).windows, passed \cup Stamped(r, AtDoor(c).passed))
          /\ BurstInv(AfterAuth(c, user).windows,
                      passed \cup Stamped(r, AfterAuth(c, user).passed))
      BY <1>2, <2>1, BurstStages
    <3>2. BurstInv(windows', passed') /\ now' = now
      BY <2>3, <3>1 DEF Receive
    <3> QED  BY <3>2 DEF BurstInv, CurrentInv
  <2>4. ASSUME windows' = <<>>, passed' = {} PROVE BurstInv(windows, passed)'
    BY <2>4, FS_EmptySet DEF BurstInv
  <2> QED  BY <1>2, <2>2, <2>3, <2>4, LimiterSteps
<1>3. ASSUME IInv, BurstInv(windows, passed) PROVE BurstBound
  <2>1. now \in Nat /\ WindowTypes(windows)
    BY <1>3 DEF IInv, DoorTypes
  <2> QED  BY <1>3, <2>1, BurstInvBounds DEF BurstBound, Between
<1> QED  BY <1>1, <1>2, <1>3, Invariance, PTL DEF Spec

-----------------------------------------------------------------------------
(* Refusals. *)

LEMMA DueKept ==
    ASSUME NEW cs, NEW ds, IsFiniteSet(ds), cs \subseteq ds, NEW l, NEW key, NEW at,
           NEW n \in Nat, Cardinality(Due(cs, l, key, at)) >= n
    PROVE  Cardinality(Due(ds, l, key, at)) >= n
<1>1. Due(cs, l, key, at) \subseteq Due(ds, l, key, at) /\ Due(ds, l, key, at) \subseteq ds
  BY DEF Due
<1>2. IsFiniteSet(Due(ds, l, key, at))
  BY <1>1, PartHasNoMore
<1>3. /\ Cardinality(Due(cs, l, key, at)) <= Cardinality(Due(ds, l, key, at))
      /\ Cardinality(Due(cs, l, key, at)) \in Nat /\ Cardinality(Due(ds, l, key, at)) \in Nat
  BY <1>1, <1>2, PartHasNoMore
<1> QED  BY <1>3

LEMMA CountedFinite ==
    ASSUME NEW ps, NEW rs, IsFiniteSet(ps), IsFiniteSet(rs), NEW l
    PROVE  IsFiniteSet(Counted(ps, rs, l)) /\ Counted(ps, rs, l) \subseteq ps \cup rs
<1>1. IsFiniteSet(ps \cup rs) /\ Counted(ps, rs, l) \subseteq ps \cup rs
  BY FS_Union DEF Counted
<1> QED  BY <1>1, PartHasNoMore

LEMMA SharedFinite ==
    ASSUME NEW cs, IsFiniteSet(cs), NEW l, NEW key, NEW from, NEW to
    PROVE  IsFiniteSet(Shared(cs, l, key, from, to))
<1>1. Shared(cs, l, key, from, to) \subseteq cs
  BY DEF Shared
<1> QED  BY <1>1, PartHasNoMore

(* A window goes on by one: what counts against m does too, unless the     *)
(* counter is past its limit already; and then its limit has been reached. *)
LEMMA WindowStep ==
    ASSUME now \in Nat, NEW ws, WindowTypes(ws), NEW m \in Mounted, NEW key,
           NEW k, k = <<StoreOf(m), key>>, NEW new, new = increment(ws, k, m.windowMs),
           NEW cs, IsFiniteSet(cs), \A p \in cs : p.at \in 0..now,
           NEW one, StoreOf(one.limiter) = StoreOf(m), one.key = key, one.at = now,
           one \notin cs,
           NEW ds, ds = cs \cup {one} \/ (ds = cs /\ new[k].count > m.limit),
           k \in DOMAIN ws => WindowTold(ws, m, k, cs)
    PROVE  /\ WindowTold(new, m, k, ds)
           /\ new[k].count > m.limit => Cardinality(Due(cs, m, key, now)) >= m.limit
<1> DEFINE w == m.windowMs
           fresh == k \notin DOMAIN ws \/ now >= ws[k].resetAt
<1>1. w \in Nat /\ m.limit \in Nat
  BY MountedTypes
<1>2. /\ fresh => new[k].count = 1 /\ new[k].resetAt = now + w
      /\ ~fresh => /\ new[k].count = ws[k].count + 1 /\ new[k].resetAt = ws[k].resetAt
                   /\ k \in DOMAIN ws /\ now < ws[k].resetAt
  <2>1. new = increment(ws, k, w)
    OBVIOUS
  <2> HIDE DEF w
  <2>2. w \in Nat
    BY <1>1 DEF w
  <2>3. Incremented(ws, k, w, increment(ws, k, w))
    BY <2>2, IncrementCases, Zenon
  <2> QED  BY <2>1, <2>3, Zenon DEF Incremented
<1>3. \A x \in DOMAIN ws : ws[x].count \in Nat \ {0} /\ ws[x].resetAt \in Nat
  BY DEF WindowTypes
<1>4. ds = cs \cup {one} \/ (ds = cs /\ new[k].count > m.limit)
  OBVIOUS
<1>5. k \in DOMAIN ws =>
         /\ ws[k].resetAt - w \in 0..now
         /\ \/ Cardinality(Shared(cs, m, key, ws[k].resetAt - w, now + 1)) >= ws[k].count
            \/ Cardinality(Shared(cs, m, key, ws[k].resetAt - w, now + 1)) >= m.limit
  <2>1. k[2] = key
    OBVIOUS
  <2> QED  BY <2>1 DEF WindowTold
<1>6. IsFiniteSet(ds)
  BY <1>4, OneMore
<1>7. IsFiniteSet(Due(cs, m, key, now)) /\ Cardinality(Due(cs, m, key, now)) \in Nat
  <2>1. Due(cs, m, key, now) \subseteq cs
    BY DEF Due
  <2> QED  BY <2>1, PartHasNoMore
<1> HIDE DEF w, fresh
<1> DEFINE start  == new[k].resetAt - w
           before == Shared(cs, m, key, start, now + 1)
           after  == Shared(ds, m, key, start, now + 1)
<1>8. IsFiniteSet(before) /\ IsFiniteSet(after)
  BY <1>6, SharedFinite
<1>9. Cardinality(before) \in Nat /\ Cardinality(after) \in Nat
  BY <1>8, FS_CardinalityType
<1>10. /\ start \in 0..now
       /\ Cardinality(after) >= new[k].count \/ Cardinality(after) >= m.limit
       /\ new[k].count > m.limit => Cardinality(Due(cs, m, key, now)) >= m.limit
  <2>1. CASE fresh
    <3>1. start = now /\ new[k].count = 1 /\ new[k].resetAt = now + w
      BY <1>1, <1>2, <2>1 DEF w
    <3>2. one \in ds => {one} \subseteq after
      BY <1>1, <3>1 DEF Shared
    <3> HIDE DEF start, before, after
    <3>3. one \in ds => Cardinality(after) >= 1
      <4>1. Cardinality({one}) = 1
        BY FS_Singleton
      <4>2. {one} \subseteq after => Cardinality({one}) <= Cardinality(after)
        BY <1>8, PartHasNoMore
      <4> QED  BY <3>2, <4>1, <4>2
    <3> QED  BY <1>1, <1>4, <1>7, <1>9, <3>1, <3>3
  <2>2. CASE ~fresh
    <3>1. /\ new[k].count = ws[k].count + 1 /\ new[k].resetAt = ws[k].resetAt
          /\ k \in DOMAIN ws /\ now < ws[k].resetAt
          /\ ws[k].count \in Nat /\ ws[k].resetAt \in Nat
      BY <1>2, <1>3, <2>2
    <3>2. /\ start \in 0..now
          /\ Cardinality(before) >= ws[k].count \/ Cardinality(before) >= m.limit
      BY <1>5, <3>1
    <3>3. one \notin before /\ (ds = cs => after = before)
          /\ (ds = cs \cup {one} => after = before \cup {one})
      BY <3>2 DEF Shared
    <3>4. before \subseteq Due(cs, m, key, now)
      BY <1>1, <3>1, <3>2 DEF Shared, Due, w
    <3> HIDE DEF start, before, after
    <3>5. ds = cs \cup {one} => Cardinality(after) = Cardinality(before) + 1
      BY <1>8, <3>3, OneMore
    <3>6. Cardinality(before) <= Cardinality(Due(cs, m, key, now))
      BY <1>7, <3>4, PartHasNoMore
    <3>7. new[k].count > m.limit => Cardinality(before) >= m.limit
      BY <1>1, <1>9, <3>1, <3>2
    <3>8. CASE ds = cs \cup {one}
      BY <1>1, <1>7, <1>9, <3>1, <3>2, <3>5, <3>6, <3>7, <3>8
    <3>9. CASE ds = cs /\ new[k].count > m.limit
      BY <1>1, <1>7, <1>9, <3>2, <3>3, <3>6, <3>7, <3>9
    <3> QED  BY <1>4, <3>8, <3>9
  <2> QED  BY <2>1, <2>2
<1>11. k[2] = key
  OBVIOUS
<1> QED  BY <1>10, <1>11 DEF w, WindowTold

(* The claim survives one limiter that has not yet counted this request,   *)
(* and what it refuses is due.                                             *)
LEMMA CountStep ==
    ASSUME OneWindowPerStore, now \in Nat, NEW ws, WindowTypes(ws),
           NEW ps, NEW rs, CountInv(ws, ps, rs),
           NEW l \in Mounted, NEW key,
           NEW new, new = increment(ws, <<StoreOf(l), key>>, l.windowMs),
           NEW one, one.limiter = l, one.key = key, one.at = now, one \notin ps \cup rs,
           NEW qs, NEW ss,
           IF new[<<StoreOf(l), key>>].count > l.limit
           THEN qs = ps /\ ss = rs \cup {one} ELSE qs = ps \cup {one} /\ ss = rs
    PROVE  /\ CountInv(new, qs, ss)
           /\ new[<<StoreOf(l), key>>].count > l.limit =>
                 Cardinality(Due(Counted(qs, ss, l), l, key, now)) >= l.limit
<1> DEFINE k == <<StoreOf(l), key>>
           n == new[k].count
<1>1. /\ WindowTypes(new) /\ DOMAIN new = DOMAIN ws \cup {k}
      /\ \A x \in DOMAIN ws \ {k} : new[x] = ws[x]
      /\ n \in Nat /\ l.limit \in Nat
  <2>1. l.windowMs \in Nat /\ l.limit \in Nat
    BY MountedTypes
  <2>2. Incremented(ws, k, l.windowMs, increment(ws, k, l.windowMs))
    BY <2>1, IncrementCases, Zenon
  <2>3. WindowTypes(new) /\ DOMAIN new = DOMAIN ws \cup {k}
        /\ \A x \in DOMAIN ws \ {k} : new[x] = ws[x]
    BY <2>2 DEF Incremented
  <2> QED  BY <2>1, <2>3 DEF WindowTypes
<1>2. IsFiniteSet(ps) /\ IsFiniteSet(rs)
      /\ \A p \in ps \cup rs : p.limiter \in Mounted /\ p.at \in 0..now
  BY DEF CountInv
<1>3. /\ n > l.limit => qs = ps /\ ss = rs \cup {one}
      /\ ~(n > l.limit) => qs = ps \cup {one} /\ ss = rs
  OBVIOUS
<1>4. /\ IsFiniteSet(qs) /\ IsFiniteSet(ss)
      /\ \A q \in qs \cup ss : q.limiter \in Mounted /\ q.at \in 0..now
  <2>1. IsFiniteSet(ps \cup {one}) /\ IsFiniteSet(rs \cup {one})
    BY <1>2, OneMore
  <2>2. one.limiter \in Mounted /\ one.at \in 0..now
    OBVIOUS
  <2>3. CASE n > l.limit
    BY <1>2, <1>3, <2>1, <2>2, <2>3
  <2>4. CASE ~(n > l.limit)
    BY <1>2, <1>3, <2>1, <2>2, <2>4
  <2> QED  BY <2>3, <2>4
<1> HIDE DEF n
<1>5. ASSUME NEW m \in Mounted
      PROVE  \/ Counted(qs, ss, m) = Counted(ps, rs, m) \cup {one}
             \/ Counted(qs, ss, m) = Counted(ps, rs, m) /\ n > m.limit
  <2>1. m.limit \in Nat
    BY MountedTypes
  <2>2. CASE ~(n > l.limit)
    BY <1>3, <2>2 DEF Counted
  <2>3. CASE n > l.limit /\ l.limit < m.limit
    BY <1>3, <2>3 DEF Counted
  <2>4. CASE n > l.limit /\ ~(l.limit < m.limit)
    BY <1>1, <1>3, <2>1, <2>4 DEF Counted
  <2> QED  BY <2>2, <2>3, <2>4
<1>6. ASSUME NEW m \in Mounted, StoreOf(m) = StoreOf(l)
      PROVE  /\ WindowTold(new, m, k, Counted(qs, ss, m))
             /\ n > m.limit => Cardinality(Due(Counted(ps, rs, m), m, key, now)) >= m.limit
  <2>1. /\ k = <<StoreOf(m), key>> /\ k[2] = key
        /\ new = increment(ws, k, m.windowMs)
    BY <1>6 DEF OneWindowPerStore
  <2>2. /\ IsFiniteSet(Counted(ps, rs, m)) /\ one \notin Counted(ps, rs, m)
        /\ \A p \in Counted(ps, rs, m) : p.at \in 0..now
    BY <1>2, CountedFinite
  <2> HIDE DEF k
  <2>3. k \in DOMAIN ws => WindowTold(ws, m, k, Counted(ps, rs, m))
    BY <2>1 DEF CountInv
  <2>4. StoreOf(one.limiter) = StoreOf(m)
    BY <1>6
  <2>5. \/ Counted(qs, ss, m) = Counted(ps, rs, m) \cup {one}
        \/ Counted(qs, ss, m) = Counted(ps, rs, m) /\ new[k].count > m.limit
    BY <1>5 DEF n
  <2> QED  BY <2>1, <2>2, <2>3, <2>4, <2>5, WindowStep DEF n
<1>7. ASSUME NEW m \in Mounted, NEW x \in DOMAIN new, x = <<StoreOf(m), x[2]>>
      PROVE  WindowTold(new, m, x, Counted(qs, ss, m))
  <2>1. CASE x # k
    <3>1. x \in DOMAIN ws /\ new[x] = ws[x]
      BY <1>1, <2>1
    <3>2. StoreOf(one.limiter) # StoreOf(m) \/ one.key # x[2]
      BY <1>7, <2>1
    <3>3. \A from, to : Shared(Counted(qs, ss, m), m, x[2], from, to)
                          = Shared(Counted(ps, rs, m), m, x[2], from, to)
      BY <1>5, <3>2 DEF Shared
    <3>4. WindowTold(ws, m, x, Counted(ps, rs, m))
      BY <1>7, <3>1 DEF CountInv
    <3> QED  BY <3>1, <3>3, <3>4 DEF WindowTold
  <2>2. CASE x = k
    <3>1. StoreOf(m) = StoreOf(l)
      BY <1>7, <2>2
    <3> QED  BY <1>6, <2>2, <3>1
  <2> QED  BY <2>1, <2>2
<1>8. CountInv(new, qs, ss)
  BY <1>4, <1>7 DEF CountInv
<1>9. ASSUME n > l.limit
      PROVE  Cardinality(Due(Counted(qs, ss, l), l, key, now)) >= l.limit
  <2>1. Cardinality(Due(Counted(ps, rs, l), l, key, now)) >= l.limit
    BY <1>6, <1>9
  <2>2. IsFiniteSet(Counted(qs, ss, l)) /\ Counted(ps, rs, l) \subseteq Counted(qs, ss, l)
    BY <1>4, <1>5, CountedFinite
  <2> QED  BY <1>1, <2>1, <2>2, DueKept
<1> QED  BY <1>8, <1>9 DEF n

(* What the request r has passed and what refuses it, in the chain. *)
RefusalStage(st, r) ==
    LET ps == passed \cup Stamped(r, st.passed)
        rs == refused \cup Stamped(r, st.refusedBy)
    IN  /\ CountInv(st.windows, ps, rs)
        /\ \A f \in st.refusedBy :
              /\ f.limiter \in Mounted
              /\ Cardinality(Due(Counted(ps, rs, f.limiter), f.limiter, f.key, now))
                   >= f.limiter.limit

(* A request is counted by each limiter once. *)
Uncounted(r) == \A p \in passed \cup refused : p.request # r
NotBy(st, ls) == \A p \in st.passed : p.limiter \notin ls
OnlyBy(st, next, ls) == \A p \in next.passed : p \in st.passed \/ p.limiter \in ls

LEMMA RefusalLimit ==
    ASSUME OneWindowPerStore, now \in Nat, NEW r, Uncounted(r),
           NEW st, IsStage(st), RefusalStage(st, r), NEW l \in Limiter, l \in Mounted,
           NotBy(st, {l}), NEW ip, NEW user
    PROVE  /\ RefusalStage(Limit(st, l, ip, user), r)
           /\ OnlyBy(st, Limit(st, l, ip, user), {l})
<1> DEFINE next == Limit(st, l, ip, user)
           key  == KeyOf(l, ip, user)
           k    == <<StoreOf(l), key>>
           ws   == increment(st.windows, k, l.windowMs)
           ps   == passed \cup Stamped(r, st.passed)
           rs   == refused \cup Stamped(r, st.refusedBy)
           one  == [limiter |-> l, key |-> key, at |-> now, request |-> r]
           what == [limiter |-> l, key |-> key]
<1>0. /\ IsStage(next)
      /\ \/ next = st
         \/ /\ next.windows = ws /\ next.passed = st.passed
            /\ ws[k].count > l.limit
            /\ next.refusedBy = {[limiter |-> l, key |-> key]}
         \/ /\ next.windows = ws
            /\ ws[k].count <= l.limit
            /\ next.passed = st.passed \cup {[limiter |-> l, key |-> key]}
            /\ next.refusedBy = st.refusedBy
  BY LimitFacts
<1>1. \/ next = st
      \/ /\ next.windows = ws /\ next.passed = st.passed /\ ws[k].count > l.limit
         /\ next.refusedBy = {what}
      \/ /\ next.windows = ws /\ ws[k].count <= l.limit
         /\ next.passed = st.passed \cup {what} /\ next.refusedBy = st.refusedBy
  BY <1>0, Zenon
<1>2. one.limiter = l /\ one.key = key /\ one.at = now /\ one.request = r
      /\ what.limiter = l /\ what.key = key
  OBVIOUS
<1>3. WindowTypes(st.windows) /\ CountInv(st.windows, ps, rs)
  BY DEF IsStage, RefusalStage
<1>4. /\ Stamped(r, st.passed \cup {what}) = Stamped(r, st.passed) \cup {one}
      /\ Stamped(r, {what}) = {one}
  BY StampedOneMore DEF Stamped
<1>5. next = st \/ st.refusedBy = {}
  BY DEF Limit
<1>6. ASSUME st.refusedBy = {}
      PROVE  rs = refused /\ one \notin ps \cup rs
  <2>1. rs = refused
    BY <1>6 DEF Stamped
  <2>2. one \notin passed /\ one \notin refused
    BY <1>2 DEF Uncounted
  <2>3. one \notin Stamped(r, st.passed)
    BY <1>2 DEF Stamped, NotBy
  <2> QED  BY <2>1, <2>2, <2>3
<1>7. ws[k].count \in Nat /\ l.limit \in Nat /\ l.windowMs \in Nat
  <2>1. l.limit \in Nat /\ l.windowMs \in Nat
    BY DEF Limiter
  <2> QED  BY <1>3, <2>1, IncrementFacts DEF WindowTypes
<1> HIDE DEF next, key, one, ps, rs, what
<1>8. CASE next = st
  BY <1>8 DEF next, OnlyBy
<1>9. CASE /\ next # st
           /\ next.windows = ws /\ next.passed = st.passed /\ ws[k].count > l.limit
           /\ next.refusedBy = {what}
  <2>1. one \notin ps \cup rs /\ rs = refused
    BY <1>5, <1>6, <1>9
  <2>2. /\ CountInv(ws, ps, rs \cup {one})
        /\ Cardinality(Due(Counted(ps, rs \cup {one}, l), l, key, now)) >= l.limit
    BY <1>2, <1>3, <1>9, <2>1, CountStep
  <2>3. ps = passed \cup Stamped(r, next.passed)
        /\ rs \cup {one} = refused \cup Stamped(r, next.refusedBy)
    BY <1>4, <1>9, <2>1 DEF ps
  <2>4. RefusalStage(next, r)
    BY <1>2, <1>9, <2>2, <2>3 DEF RefusalStage
  <2> QED  BY <1>9, <2>4 DEF next, OnlyBy
<1>10. CASE /\ next # st
            /\ next.windows = ws /\ ws[k].count <= l.limit
            /\ next.passed = st.passed \cup {what} /\ next.refusedBy = st.refusedBy
  <2>1. one \notin ps \cup rs /\ ~(ws[k].count > l.limit) /\ st.refusedBy = {}
    BY <1>5, <1>6, <1>7, <1>10
  <2>2. CountInv(ws, ps \cup {one}, rs)
    BY <1>2, <1>3, <2>1, CountStep
  <2>3. ps \cup {one} = passed \cup Stamped(r, next.passed)
        /\ rs = refused \cup Stamped(r, next.refusedBy)
    BY <1>4, <1>10 DEF ps, rs
  <2>4. RefusalStage(next, r)
    BY <1>10, <2>1, <2>2, <2>3 DEF RefusalStage
  <2>5. OnlyBy(st, next, {l})
    BY <1>2, <1>10 DEF OnlyBy
  <2> QED  BY <2>4, <2>5 DEF next
<1> QED  BY <1>1, <1>8, <1>9, <1>10

AllOf(ls) == {ls[i] : i \in DOMAIN ls}
EachOnce(ls) == \A i, j \in DOMAIN ls : ls[i] = ls[j] => i = j

LEMMA RefusalChain ==
    ASSUME OneWindowPerStore, now \in Nat, NEW r, Uncounted(r),
           NEW st, IsStage(st), RefusalStage(st, r), NEW ls \in Seq(Limiter),
           AllOf(ls) \subseteq Mounted, EachOnce(ls), NotBy(st, AllOf(ls)), NEW ip, NEW user
    PROVE  /\ RefusalStage(LimitAll(st, ls, ip, user), r)
           /\ OnlyBy(st, LimitAll(st, ls, ip, user), AllOf(ls))
<1> DEFINE f == Passing(st, ls, ip, user)
           S == {i \in 0..Len(ls) :
                   /\ IsStage(f[i]) /\ RefusalStage(f[i], r)
                   /\ OnlyBy(st, f[i], {ls[j] : j \in 1..i})}
<1>1. f[0] = st /\ \A i \in 1..Len(ls) : f[i] = Limit(f[i - 1], ls[i], ip, user)
  BY PassingSteps
<1>2. /\ Len(ls) \in Nat /\ DOMAIN ls = 1..Len(ls)
      /\ \A i \in 1..Len(ls) : ls[i] \in Limiter /\ ls[i] \in Mounted
  BY DEF AllOf
<1> HIDE DEF f
<1>3. 0 \in S
  <2>1. 0 \in 0..Len(ls)
    BY <1>2
  <2>2. OnlyBy(st, f[0], {ls[j] : j \in 1..0})
    BY <1>1 DEF OnlyBy
  <2> QED  BY <1>1, <2>1, <2>2, Zenon
<1>4. ASSUME NEW i \in 1..Len(ls), (i - 1) \in S PROVE i \in S
  <2> DEFINE x == f[i - 1]
             l == ls[i]
  <2>1. /\ l \in Limiter /\ l \in Mounted /\ IsStage(x) /\ RefusalStage(x, r)
        /\ f[i] = Limit(x, l, ip, user) /\ OnlyBy(st, x, {ls[j] : j \in 1..(i - 1)})
        /\ i \in 0..Len(ls)
    BY <1>1, <1>2, <1>4
  <2>2. NotBy(x, {l})
    <3>1. l \in AllOf(ls) /\ \A j \in 1..(i - 1) : j \in DOMAIN ls /\ i \in DOMAIN ls /\ i # j
      BY <1>2 DEF AllOf
    <3>2. \A j \in 1..(i - 1) : l # ls[j]
      BY <3>1 DEF EachOnce
    <3> HIDE DEF x, l
    <3> QED  BY <2>1, <3>1, <3>2 DEF NotBy, OnlyBy
  <2> HIDE DEF x, l
  <2>3. IsStage(Limit(x, l, ip, user))
    BY <2>1, LimitFacts, Zenon
  <2>4. RefusalStage(Limit(x, l, ip, user), r) /\ OnlyBy(x, Limit(x, l, ip, user), {l})
    BY <2>1, <2>2, RefusalLimit, Zenon
  <2>5. OnlyBy(st, f[i], {ls[j] : j \in 1..i})
    <3>1. l \in {ls[j] : j \in 1..i} /\ {ls[j] : j \in 1..(i - 1)} \subseteq {ls[j] : j \in 1..i}
      BY <1>2 DEF l
    <3> QED  BY <2>1, <2>4, <3>1 DEF OnlyBy
  <2> QED  BY <2>1, <2>3, <2>4, <2>5, Zenon
<1>5. \A i \in 0..Len(ls) : i \in S
  <2> HIDE DEF S
  <2> QED  BY <1>2, <1>3, <1>4, BoundedInduction
<1>6. LimitAll(st, ls, ip, user) = f[Len(ls)]
  BY DEF LimitAll, f
<1>7. Len(ls) \in S
  <2> HIDE DEF S
  <2> QED  BY <1>2, <1>5
<1>8. AllOf(ls) = {ls[j] : j \in 1..Len(ls)}
  BY <1>2 DEF AllOf
<1> QED  BY <1>6, <1>7, <1>8, Zenon

LEMMA RefusalStages ==
    ASSUME OneWindowPerStore, MountedOnce, now \in Nat, WindowTypes(windows),
           CountInv(windows, passed, refused), NEW r, Uncounted(r), NEW c \in Calls, NEW user
    PROVE  RefusalStage(AtDoor(c), r) /\ RefusalStage(AfterAuth(c, user), r)
<1> DEFINE st == [windows |-> windows, passed |-> {}, refusedBy |-> {}]
           front == Before[c.route]
           behind == After[c.route]
<1>1. /\ front \in Seq(Limiter) /\ behind \in Seq(Limiter)
      /\ AllOf(front) \subseteq Mounted /\ AllOf(behind) \subseteq Mounted
  BY MountedLimiters DEF AllOf
<1>2. EachOnce(front) /\ EachOnce(behind) /\ AllOf(front) \cap AllOf(behind) = {}
  <2>1. c.route \in Routes
    BY CallsAssumption DEF CallType
  <2> QED  BY <2>1 DEF MountedOnce, EachOnce, AllOf
<1>3. /\ IsStage(st) /\ st.windows = windows /\ st.passed = {} /\ st.refusedBy = {}
      /\ passed \cup Stamped(r, st.passed) = passed
      /\ refused \cup Stamped(r, st.refusedBy) = refused
  BY DEF IsStage, Stamped
<1>4. /\ AtDoor(c) = LimitAll(st, front, c.ip, <<>>)
      /\ AfterAuth(c, user) = LimitAll(AtDoor(c), behind, c.ip, user)
  BY DEF AtDoor, AfterAuth
<1> HIDE DEF st, front, behind
<1>5. RefusalStage(st, r) /\ NotBy(st, AllOf(front))
  BY <1>3 DEF RefusalStage, NotBy
<1>6. IsStage(AtDoor(c))
  BY <1>1, <1>3, <1>4, ChainIsStage
<1>7. RefusalStage(AtDoor(c), r) /\ OnlyBy(st, AtDoor(c), AllOf(front))
  BY <1>1, <1>2, <1>3, <1>4, <1>5, RefusalChain
<1>8. NotBy(AtDoor(c), AllOf(behind))
  BY <1>2, <1>3, <1>7 DEF NotBy, OnlyBy
<1>9. RefusalStage(AfterAuth(c, user), r)
  BY <1>1, <1>2, <1>4, <1>6, <1>7, <1>8, RefusalChain
<1> QED  BY <1>7, <1>9

(* What res says is taken over; earlier refusals stay due. *)
LEMMA ReceiveRefusal ==
    ASSUME IInv, RefusalInv, NEW r \in Requests, NEW res, RefusalStage(res, r), Receive(r, res),
           \A q \in Requests : q = r \/ pc[q] # "idle" => pc'[q] # "idle"
    PROVE  RefusalInv'
<1>1. /\ windows' = res.windows /\ passed' = passed \cup Stamped(r, res.passed)
      /\ refused' = refused \cup Stamped(r, res.refusedBy) /\ now' = now
  BY DEF Receive
<1>2. CountInv(windows', passed', refused')
  BY <1>1 DEF RefusalStage
<1>3. CountInv(windows, passed, refused)'
  BY <1>1, <1>2 DEF CountInv, WindowTold
<1>4. \A p \in passed' \cup refused' : p.request \in Requests /\ pc'[p.request] # "idle"
  BY <1>1 DEF RefusalInv, Stamped
<1>5. IsFiniteSet(passed') /\ IsFiniteSet(refused')
  BY <1>2 DEF CountInv
<1>6. ASSUME NEW f \in refused'
      PROVE  /\ f.limiter \in Mounted
             /\ Cardinality(Due(Counted(passed', refused', f.limiter), f.limiter, f.key, f.at))
                  >= f.limiter.limit
  <2>1. CASE f \in refused
    <3>1. /\ f.limiter \in Mounted /\ f.limiter.limit \in Nat
          /\ Cardinality(Due(Counted(passed, refused, f.limiter), f.limiter, f.key, f.at))
               >= f.limiter.limit
      BY <2>1, MountedTypes DEF RefusalInv
    <3>2. IsFiniteSet(Counted(passed', refused', f.limiter))
      BY <1>5, CountedFinite
    <3>3. Counted(passed, refused, f.limiter) \subseteq Counted(passed', refused', f.limiter)
      BY <1>1 DEF Counted
    <3> QED  BY <3>1, <3>2, <3>3, DueKept
  <2>2. CASE f \in Stamped(r, res.refusedBy)
    <3>1. PICK g \in res.refusedBy : f.limiter = g.limiter /\ f.key = g.key /\ f.at = now
      BY <2>2 DEF Stamped
    <3> QED  BY <1>1, <3>1 DEF RefusalStage
  <2> QED  BY <1>1, <2>1, <2>2
<1>7. ASSUME NEW f \in refused'
      PROVE  /\ f.limiter \in Mounted
             /\ Cardinality(Due(Counted(passed, refused, f.limiter), f.limiter, f.key, f.at))'
                  >= f.limiter.limit
  BY <1>6 DEF Counted, Due, StoreOf
<1> QED  BY <1>3, <1>4, <1>7 DEF RefusalInv

(* Under limiters that agree on the window of a store they share, as those *)
(* without a store do, and stand once on a route: a limiter refuses a      *)
(* request only when as many of the key as its limit says were let through *)
(* by the limiters of its store, or refused by those with a lower limit,   *)
(* no longer ago than its window is long.                                  *)
THEOREM RefusalsAreDue ==
    ASSUME OneWindowPerStore, MountedOnce
    PROVE  Spec => []RefusalIsDue
<1>1. Init => RefusalInv
  <2>1. ASSUME Init PROVE windows = <<>> /\ passed = {} /\ refused = {}
    BY <2>1 DEF Init, DoorInit
  <2>2. DOMAIN <<>> = {} /\ IsFiniteSet({})
    BY FS_EmptySet
  <2> QED  BY <2>1, <2>2 DEF RefusalInv, CountInv
<1>2. ASSUME IInv, RefusalInv, [Next]_vars
      PROVE  RefusalInv'
  <2>1. now \in Nat /\ WindowTypes(windows) /\ CountInv(windows, passed, refused)
    BY <1>2 DEF IInv, DoorTypes, RefusalInv
  <2>2. ASSUME UNCHANGED limitVars, now' \in Nat, now <= now',
               \A q \in Requests : pc[q] # "idle" => pc'[q] # "idle"
        PROVE  RefusalInv'
    <3>1. \A l, key, from :
             Shared(Counted(passed, refused, l), l, key, from, now + 1)
               = Shared(Counted(passed, refused, l), l, key, from, now' + 1)
      <4>1. \A p \in passed \cup refused : p.at < now + 1 /\ p.at < now' + 1
        BY <2>1, <2>2 DEF CountInv
      <4>2. \A l : \A q \in Counted(passed, refused, l) : q.at < now + 1 /\ q.at < now' + 1
        BY <4>1 DEF Counted
      <4> QED  BY <4>2 DEF Shared
    <3>2. CountInv(windows, passed, refused)'
      <4>1. \A x \in 0..now : x \in 0..now'
        BY <2>1, <2>2
      <4>2. /\ IsFiniteSet(passed) /\ IsFiniteSet(refused)
            /\ \A p \in passed \cup refused : p.limiter \in Mounted /\ p.at \in 0..now'
        BY <2>1, <4>1 DEF CountInv
      <4>3. ASSUME NEW l \in Mounted, NEW k \in DOMAIN windows, k = <<StoreOf(l), k[2]>>
            PROVE  WindowTold(windows, l, k, Counted(passed, refused, l))'
        <5>1. WindowTold(windows, l, k, Counted(passed, refused, l))
          BY <2>1, <4>3 DEF CountInv
        <5> QED  BY <2>2, <3>1, <4>1, <5>1 DEF limitVars, WindowTold
      <4> QED  BY <2>2, <4>2, <4>3 DEF limitVars, CountInv
    <3> QED  BY <1>2, <2>2, <3>2 DEF limitVars, RefusalInv, Due, Counted
  <2>3. ASSUME NEW r \in Requests, NEW c \in Calls, NEW user,
               Receive(r, AtDoor(c)) \/ Receive(r, AfterAuth(c, user)),
               \A q \in Requests : q = r \/ pc[q] # "idle" => pc'[q] # "idle"
        PROVE  RefusalInv'
    <3>1. Uncounted(r)
      BY <1>2, <2>3 DEF RefusalInv, Receive, Uncounted
    <3>2. RefusalStage(AtDoor(c), r) /\ RefusalStage(AfterAuth(c, user), r)
      BY <2>1, <3>1, RefusalStages
    <3> QED  BY <1>2, <2>3, <3>2, ReceiveRefusal
  <2>4. ASSUME windows' = <<>>, passed' = {}, refused' = {} PROVE RefusalInv'
    BY <2>4, FS_EmptySet DEF RefusalInv, CountInv
  <2> QED  BY <1>2, <2>2, <2>3, <2>4, LimiterSteps
<1>3. RefusalInv => RefusalIsDue
  BY DEF RefusalInv, RefusalIsDue, Against, Counted, Due
<1> QED  BY <1>1, <1>2, <1>3, Invariance, PTL DEF Spec

==============================================================================

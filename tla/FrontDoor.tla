------------------------------ MODULE FrontDoor ------------------------------
(***************************************************************************)
(* What a request passes before its handler: the fixed-window limiters of  *)
(* createRateLimitMiddleware, and sessionAuth over the SessionStore with   *)
(* its expiry, lazy eviction and sweep; and the routes log-in, log-out and *)
(* me, which are over as soon as they are reached.  All of it lives in the *)
(* memory of one process and is gone when that ends.                       *)
(*                                                                         *)
(* Limiters run synchronously and the store's promises are resolved when   *)
(* they are returned: nothing comes between the arrival of a request and   *)
(* the first thing its handler waits for.                                  *)
(***************************************************************************)
EXTENDS Naturals, FiniteSets, Sequences

CONSTANTS
    Requests, Users, Roles, Ips,
    Calls,           \* what a request may ask: see CallType
    Before, After,   \* the limiters of each route, before and after its authentication
    TtlMs,           \* SessionStoreOptions.ttlMs
    MaxTime,         \* bound: clock
    MaxRestarts,     \* bound
    None

Routes == {"login", "logout", "me", "validate", "patch"}
ByHeader == {"login", "validate"}    \* x-user-id, x-user-role; the others by session

(* createRateLimitMiddleware, called once for each id. *)
Limiter == [id : STRING, limit : Nat, windowMs : Nat, perUser : BOOLEAN,
            store : STRING \cup {None}]

ASSUME LimitersAssumption ==
    Before \in [Routes -> Seq(Limiter)] /\ After \in [Routes -> Seq(Limiter)]
ASSUME TimesAssumption == TtlMs \in Nat \ {0} /\ MaxTime \in Nat /\ MaxRestarts \in Nat

VARIABLES
    now,
    windows,         \* InMemoryRateLimitStore: by store and key
    sessions,        \* SessionStore: by token; a token is the request it was issued to
    pc, status, call,
    attached,        \* req.user of a request, {} before its authentication
    restarts,
    passed, refused, \* history of this process: what limiters let through, and did not
    seenAt,          \* history of this process: when a token was issued or last touched
    loggedOut        \* history: tokens deleted by a log-out

storeVars == <<sessions, seenAt, loggedOut>>
limitVars == <<windows, passed, refused>>
doorVars  == <<now, windows, sessions, pc, status, call, attached, restarts, passed, refused,
               seenAt, loggedOut>>

(* What a request may ask: who the headers say it is from, or its token,   *)
(* and the fields an update names.                                         *)
CallType(Fields) ==
    {c \in [route : Routes, ip : Ips, user : Users \cup {None}, role : Roles \cup {None},
            token : Requests \cup {None},
            body : {None} \cup UNION {[fs -> BOOLEAN] : fs \in SUBSET Fields}] :
        /\ c.route \in ByHeader => c.token = None /\ (c.user = None <=> c.role = None)
        /\ c.route \notin ByHeader => c.user = None /\ c.role = None
        /\ c.body # None <=> c.route = "patch"}

DoorInit ==
    /\ now = 0
    /\ windows = <<>> /\ sessions = <<>>
    /\ pc = [r \in Requests |-> "idle"]
    /\ status = [r \in Requests |-> 0]
    /\ call = [r \in Requests |-> None]
    /\ attached = [r \in Requests |-> {}]
    /\ restarts = 0
    /\ passed = {} /\ refused = {}
    /\ seenAt = <<>> /\ loggedOut = {}

(* A request is over, and what it asked is forgotten. *)
Answer(r, code) ==
    /\ pc' = [pc EXCEPT ![r] = "done"]
    /\ status' = [status EXCEPT ![r] = code]
    /\ call' = [call EXCEPT ![r] = None]
    /\ attached' = [attached EXCEPT ![r] = {}]

GoTo(r, place) ==
    /\ pc' = [pc EXCEPT ![r] = place]
    /\ UNCHANGED <<status, call, attached>>

-----------------------------------------------------------------------------
(* Limiters. *)

(* req.user.sub, or the address.  Without a sub a limiter per user lets    *)
(* through; sessionAuth sets none.                                         *)
KeyOf(l, ip, user) ==
    IF ~l.perUser THEN ip
    ELSE IF "sub" \in DOMAIN user THEN user.sub ELSE None

(* A Map, after set and delete. *)
With(f, x, v)  == [y \in DOMAIN f \cup {x} |-> IF y = x THEN v ELSE f[y]]
Without(f, xs) == [y \in DOMAIN f \ xs |-> f[y]]

(* A bug to detect: a window lives through the instant it ends at. *)
incrementLate(ws, k, windowMs) ==
    IF k \notin DOMAIN ws \/ now > ws[k].resetAt
    THEN With(ws, k, [count |-> 1, resetAt |-> now + windowMs])
    ELSE [ws EXCEPT ![k].count = @ + 1]

(* A bug to detect: a window ends an instant early. *)
incrementEarly(ws, k, windowMs) ==
    IF k \notin DOMAIN ws \/ now + 1 >= ws[k].resetAt
    THEN With(ws, k, [count |-> 1, resetAt |-> now + windowMs])
    ELSE [ws EXCEPT ![k].count = @ + 1]

increment(ws, k, windowMs) ==
    IF k \notin DOMAIN ws \/ now >= ws[k].resetAt
    THEN With(ws, k, [count |-> 1, resetAt |-> now + windowMs])
    ELSE [ws EXCEPT ![k].count = @ + 1]

(* Limiters that are given no store share the default one. *)
StoreOf(l) == IF l.store = None THEN "default" ELSE l.store

(* One limiter, after those before it; the first that refuses ends it.     *)
Limit(st, l, ip, user) ==
    LET key == KeyOf(l, ip, user)
        k   == <<StoreOf(l), key>>
        ws  == increment(st.windows, k, l.windowMs)
    IN  IF st.refusedBy # {} \/ key = None THEN st
        ELSE IF ws[k].count > l.limit
             THEN [st EXCEPT !.windows = ws, !.refusedBy = {[limiter |-> l, key |-> key]}]
        ELSE [st EXCEPT !.windows = ws, !.passed = @ \cup {[limiter |-> l, key |-> key]}]

(* One after the other. *)
Passing(st, ls, ip, user) ==
    LET after[i \in 0..Len(ls)] ==
            IF i = 0 THEN st ELSE Limit(after[i - 1], ls[i], ip, user)
    IN  after

LimitAll(st, ls, ip, user) == Passing(st, ls, ip, user)[Len(ls)]

Stamped(r, ps) == {[limiter |-> p.limiter, key |-> p.key, at |-> now, request |-> r] : p \in ps}

-----------------------------------------------------------------------------
(* SessionStore. *)

(* A bug to detect: a session lives through the instant it expires at. *)
isExpiredLate(s) == now > s.expiresAt

isExpired(s) == now >= s.expiresAt

Expired == {t \in DOMAIN sessions : isExpired(sessions[t])}

(* The counters of stats() are left out. *)
evict(ts) == sessions' = Without(sessions, ts)

(* get: an expired session is evicted when it is read. *)
get(t) == IF t \in DOMAIN sessions \ Expired THEN {sessions[t]} ELSE {}

create(t, user, role) ==
    /\ sessions' = With(sessions, t, [userId |-> user, role |-> role, expiresAt |-> now + TtlMs])
    /\ seenAt' = With(seenAt, t, now)
    /\ UNCHANGED loggedOut

delete(t) ==
    /\ sessions' = Without(sessions, {t})
    /\ loggedOut' = loggedOut \cup {t}
    /\ UNCHANGED seenAt

(* touch, which nothing in src calls: an expired session is evicted.       *)
touch(t) ==
    /\ t \in DOMAIN sessions
    /\ IF t \in Expired
       THEN evict({t}) /\ UNCHANGED seenAt
       ELSE /\ sessions' = [sessions EXCEPT ![t].expiresAt = now + TtlMs]
            /\ seenAt' = [seenAt EXCEPT ![t] = now]
    /\ UNCHANGED <<now, limitVars, loggedOut, pc, status, call, attached, restarts>>

(* The timer of startSweep. *)
sweep ==
    /\ Expired # {}
    /\ evict(Expired)
    /\ UNCHANGED <<now, limitVars, seenAt, loggedOut, pc, status, call, attached, restarts>>

-----------------------------------------------------------------------------
(* Requests. *)

(* r arrives, and the limiters count it; res is what they say. *)
Receive(r, res) ==
    /\ pc[r] = "idle"
    /\ windows' = res.windows
    /\ passed' = passed \cup Stamped(r, res.passed)
    /\ refused' = refused \cup Stamped(r, res.refusedBy)
    /\ UNCHANGED <<now, restarts>>

AtDoor(c) ==
    LimitAll([windows |-> windows, passed |-> {}, refusedBy |-> {}], Before[c.route], c.ip, <<>>)

(* What sessionAuth attaches; requireAuth of index.ts, the id and the role *)
(* the headers give.                                                       *)
UserOf(c) ==
    IF c.route \in ByHeader
    THEN IF c.user = None THEN {} ELSE {[id |-> c.user, role |-> c.role]}
    ELSE {[id |-> s.userId, role |-> s.role] : s \in get(c.token)}

(* The limiters behind the authentication. *)
AfterAuth(c, user) == LimitAll(AtDoor(c), After[c.route], c.ip, user)

(* A limiter refuses: before the authentication, or behind it. *)
TooMany(r, c) ==
    /\ pc[r] = "idle"
    /\ \/ /\ AtDoor(c).refusedBy # {}
          /\ Receive(r, AtDoor(c))
       \/ \E user \in UserOf(c) :
             /\ AtDoor(c).refusedBy = {} /\ AfterAuth(c, user).refusedBy # {}
             /\ Receive(r, AfterAuth(c, user))
    /\ Answer(r, 429)
    /\ UNCHANGED storeVars

(* Neither headers nor a live session; an expired one is evicted. *)
Unauthorized(r, c) ==
    /\ pc[r] = "idle" /\ UserOf(c) = {}
    /\ AtDoor(c).refusedBy = {}
    /\ Receive(r, AtDoor(c))
    /\ Answer(r, 401)
    /\ evict(Expired \cap {c.token})
    /\ UNCHANGED <<seenAt, loggedOut>>

(* r comes as far as the handler of its route, as user. *)
Enters(r, c, user) ==
    /\ pc[r] = "idle" /\ user \in UserOf(c)
    /\ AtDoor(c).refusedBy = {}
    /\ AfterAuth(c, user).refusedBy = {}
    /\ Receive(r, AfterAuth(c, user))

(* Its handler takes it up: what follows waits. *)
Begin(r, c, user, place) ==
    /\ pc' = [pc EXCEPT ![r] = place]
    /\ call' = [call EXCEPT ![r] = c]
    /\ attached' = [attached EXCEPT ![r] = {user}]
    /\ UNCHANGED status

Login(r, c) ==
    /\ c.route = "login"
    /\ \E user \in UserOf(c) :
           /\ Enters(r, c, user)
           /\ create(r, user.id, user.role)
           /\ Answer(r, 201)

Logout(r, c) ==
    /\ c.route = "logout"
    /\ \E user \in UserOf(c) :
           /\ Enters(r, c, user)
           /\ delete(c.token)
           /\ Answer(r, 204)

Me(r, c) ==
    /\ c.route = "me"
    /\ \E user \in UserOf(c) :
           /\ Enters(r, c, user)
           /\ Answer(r, 200)
           /\ UNCHANGED storeVars

Tick ==
    /\ now < MaxTime
    /\ now' = now + 1
    /\ UNCHANGED <<limitVars, storeVars, pc, status, call, attached, restarts>>

(* The process ends, on a signal or otherwise, and another one starts: on  *)
(* a signal shutdown waits for the pool alone, not for requests.           *)
RestartDoor ==
    /\ restarts < MaxRestarts
    /\ restarts' = restarts + 1
    /\ windows' = <<>> /\ sessions' = <<>>
    /\ pc' = [r \in Requests |-> IF pc[r] \in {"idle", "done"} THEN pc[r] ELSE "cut"]
    /\ passed' = {} /\ refused' = {}
    /\ seenAt' = <<>> /\ loggedOut' = {}
    /\ call' = [r \in Requests |-> None]
    /\ attached' = [r \in Requests |-> {}]
    /\ UNCHANGED <<now, status>>

-----------------------------------------------------------------------------
(* How limiters may share stores.  rateLimit.ts: "create one store per     *)
(* distinct limit policy if you need different windows".                   *)
Mounted ==
    UNION {{ls[i] : i \in DOMAIN ls} :
             ls \in {Before[route] : route \in Routes} \cup {After[route] : route \in Routes}}

OneWindowPerStore == \A l, m \in Mounted : StoreOf(l) = StoreOf(m) => l.windowMs = m.windowMs

(* One instance of the middleware is not mounted twice on one route. *)
MountedOnce ==
    \A route \in Routes :
        /\ \A i \in DOMAIN Before[route], j \in DOMAIN After[route] :
              Before[route][i] # After[route][j]
        /\ \A i, j \in DOMAIN Before[route] : Before[route][i] = Before[route][j] => i = j
        /\ \A i, j \in DOMAIN After[route] : After[route][i] = After[route][j] => i = j

(* A burst at the end of a window may be followed by one at the start of   *)
(* the next; but a window starts with a request, so a span as long as a    *)
(* window has at most 2 * limit - 1 of a key let through.                  *)
BurstBound ==
    \A p \in passed :
        Cardinality({q \in passed : /\ q.limiter = p.limiter /\ q.key = p.key
                                    /\ p.at <= q.at /\ q.at < p.at + p.limiter.windowMs})
          < 2 * p.limiter.limit

(* What counts against a limiter that refuses something: what the limiters *)
(* of its store have let through of the key, and what those with a lower   *)
(* limit have refused.  Its own refusals do not.                           *)
Against(f) ==
    {p \in passed \cup {g \in refused : g.limiter.limit < f.limiter.limit} :
        /\ StoreOf(p.limiter) = StoreOf(f.limiter) /\ p.key = f.key
        /\ p.at <= f.at /\ f.at < p.at + f.limiter.windowMs}

(* A limiter refuses a request only when as many of its key as its limit   *)
(* says count against it, no longer ago than its window is long.           *)
RefusalIsDue == \A f \in refused : Cardinality(Against(f)) >= f.limiter.limit

(* A token gets past sessionAuth only when this process has issued it, it  *)
(* was not logged out, and was issued or touched less than ttlMs ago.      *)
LiveSessionOnly ==
    \A t \in Requests : get(t) # {} =>
        /\ t \in DOMAIN seenAt \ loggedOut
        /\ now < seenAt[t] + TtlMs

==============================================================================

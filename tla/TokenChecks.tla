----------------------------- MODULE TokenChecks -----------------------------
(***************************************************************************)
(* Who a request is, as the authentication middlewares see it: the JWTs    *)
(* the server issues (issueToken, signJwt), the three ways it verifies one *)
(* (lib/jwt, utils/jwt and middleware/auth, which disagree at the edges),  *)
(* and the middlewares built on them.                                      *)
(*                                                                         *)
(* A token is what the verifiers look at: whether it has the form of a     *)
(* JWT, the algorithm its header names, the secret it was signed with (the *)
(* HMAC idealised: a signature verifies exactly when it was made with the  *)
(* verifier's secret), and its claims.  Times are whole seconds.  iss and  *)
(* aud are compared only when the caller names them; none does.            *)
(***************************************************************************)
EXTENDS Integers

CONSTANTS TokenSecrets, \* secrets tokens are signed with
          Ours,         \* JWT_SECRET
          Users,        \* subjects
          Lifetime,     \* expiresIn
          Tolerance     \* clockToleranceSeconds

NoClaim == -1          \* the claim is absent
NoUser  == "nobody"    \* a blank or absent subject; an anonymous request

ASSUME TokenAssumption ==
    /\ Ours \in TokenSecrets /\ NoUser \notin Users
    /\ Lifetime \in Nat \ {0} /\ Tolerance \in Nat

(* Log-in and refresh issue two tokens, and store the hash of the second.  *)
Uses == {"access", "refresh"}
StoredHash == "refresh"

Tokens(Times) ==
    [jwt : BOOLEAN, alg : {"HS256", "other"}, secret : TokenSecrets, use : Uses,
     sub : Users \cup {NoUser}, sid : BOOLEAN, role : {"investor", "another"},
     iat : Times \cup {NoClaim}, exp : Times \cup {NoClaim}, nbf : Times \cup {NoClaim}]

(* A session row: what the two session checks read of it.  hash is the use *)
(* of the token whose hash is token_hash.                                  *)
Sessions(Times) ==
    [found : BOOLEAN, user : Users, revoked : BOOLEAN, expires : Times, hash : Uses]

issueToken(user, role, use, now) ==
    [jwt |-> TRUE, alg |-> "HS256", secret |-> Ours, use |-> use, sub |-> user, sid |-> TRUE,
     role |-> role, iat |-> now, exp |-> now + Lifetime, nbf |-> NoClaim]

(* utils/jwt, which no handler uses: no role. *)
signJwt(user, now) == issueToken(user, "another", "access", now)

(* A bug to detect: the tolerance is applied the wrong way round. *)
ClaimsStrict(t, now) ==
    /\ t.sub # NoUser
    /\ t.iat # NoClaim => t.iat + Tolerance <= now

validateClaims(t, now) ==
    /\ t.sub # NoUser
    /\ t.exp # NoClaim => t.exp >= now - Tolerance
    /\ t.iat # NoClaim => t.iat <= now + Tolerance
    /\ t.nbf # NoClaim => t.nbf <= now + Tolerance

(* jsonwebtoken, which is given no tolerance: it refuses from exp on and   *)
(* before nbf, so that of the tolerance above only the one on iat is left. *)
jwtVerify(t, now) ==
    /\ t.jwt /\ t.alg = "HS256" /\ t.secret = Ours
    /\ t.exp # NoClaim => now < t.exp
    /\ t.nbf # NoClaim => t.nbf <= now

verifyToken(t, now) == jwtVerify(t, now) /\ validateClaims(t, now)

(* The two verifiers of its own look at the signature and at exp only, and *)
(* take the algorithm for granted; a token is good in the second exp too.  *)
verifyJwt(t, now) ==
    t.jwt /\ t.secret = Ours /\ (t.exp # NoClaim => t.exp >= now)

utilsVerifyJwt(t, now) ==
    t.jwt /\ t.secret = Ours /\ ~(t.exp # NoClaim /\ now > t.exp)

Refuse(code) == [code |-> code, user |-> NoUser]
Pass(user)   == [code |-> 0, user |-> user]

authMiddleware(r, now) ==
    IF r.header = "bearer" /\ verifyToken(r.token, now) THEN Pass(r.token.sub) ELSE Refuse(401)

optionalAuthMiddleware(r, now) ==
    Pass(IF r.header = "bearer" /\ verifyToken(r.token, now) THEN r.token.sub ELSE NoUser)

requireInvestor(r, now) ==
    IF r.header # "bearer" \/ ~verifyJwt(r.token, now) THEN Refuse(401)
    ELSE IF r.token.role # "investor" THEN Refuse(403)
    ELSE Pass(r.token.sub)

(* A stand-in that reads no token: it believes the header X-Issuer-Id.     *)
requireIssuerAuth(r) == IF r.issuer = NoUser THEN Refuse(401) ELSE Pass(r.issuer)

(* The guard of auth/logout and of the startup routes: revoked_at is not   *)
(* looked at.                                                              *)
createRequireAuth(r, s, now) ==
    IF /\ r.header = "bearer" /\ verifyToken(r.token, now) /\ r.token.sid
       /\ s.found /\ s.user = r.token.sub
       /\ s.expires >= now /\ s.hash = r.token.use
    THEN Pass(r.token.sub) ELSE Refuse(401)

(* Its sibling looks at revoked_at, and neither at the session's user nor  *)
(* at the token's hash.                                                    *)
createRequireAuthWithSession(r, s, now) ==
    IF /\ r.header = "bearer" /\ verifyToken(r.token, now) /\ r.token.sid
       /\ s.found /\ ~s.revoked /\ s.expires >= now
    THEN Pass(r.token.sub) ELSE Refuse(401)

Guards == {"authMiddleware", "optionalAuthMiddleware", "requireInvestor",
           "requireIssuerAuth", "createRequireAuth", "createRequireAuthWithSession"}

(* The guards that read a token. *)
TokenGuards == Guards \ {"requireIssuerAuth"}

Identify(guard, r, s, now) ==
    CASE guard = "authMiddleware"         -> authMiddleware(r, now)
      [] guard = "optionalAuthMiddleware" -> optionalAuthMiddleware(r, now)
      [] guard = "requireInvestor"        -> requireInvestor(r, now)
      [] guard = "requireIssuerAuth"      -> requireIssuerAuth(r)
      [] guard = "createRequireAuth"      -> createRequireAuth(r, s, now)
      [] guard = "createRequireAuthWithSession" -> createRequireAuthWithSession(r, s, now)

-----------------------------------------------------------------------------
(* What the guards that read a token promise; of requireIssuerAuth nothing *)
(* is claimed.                                                             *)

(* A guard names a user only on a token of that user signed with the       *)
(* server's secret, in force by the guard's own clock: not past exp and,   *)
(* where lib/jwt is used, before exp and at most Tolerance ahead of iat;   *)
(* the guards with a session need one that has not expired either.         *)
NamesOnlyBearers(guard, r, s, now) ==
    LET t == r.token
        u == Identify(guard, r, s, now).user
    IN  guard \in TokenGuards /\ u # NoUser =>
            /\ r.header = "bearer" /\ t.secret = Ours /\ t.sub = u
            /\ t.exp # NoClaim => now <= t.exp
            /\ guard # "requireInvestor" =>
                   /\ t.exp # NoClaim => now < t.exp
                   /\ t.iat # NoClaim => t.iat - Tolerance <= now
            /\ guard \in {"createRequireAuth", "createRequireAuthWithSession"} =>
                   s.found /\ now <= s.expires

(* A token the server issued opens every guard that reads one for its      *)
(* whole lifetime, on a server whose clock is up to Tolerance behind the   *)
(* issuer's as well, as long as its session stands; createRequireAuth      *)
(* takes the token whose hash the session holds, and no other.  And the    *)
(* verifiers of its own never refuse what lib/jwt accepts.                 *)
InForce(u, use, r, s, now) ==
    /\ r.header = "bearer"
    /\ \E t0 \in (now - Lifetime + 1)..(now + Tolerance) :
           r.token = issueToken(u, "investor", use, t0)
    /\ s.found /\ s.user = u /\ ~s.revoked /\ s.expires >= now

OwnTokensPass(guard, r, s, now) ==
    /\ \A u \in Users, use \in Uses :
           /\ InForce(u, use, r, s, now) /\ guard \in TokenGuards
           /\ guard = "createRequireAuth" => use = s.hash
           => Identify(guard, r, s, now) = Pass(u)
    /\ verifyToken(r.token, now) =>
           verifyJwt(r.token, now) /\ utilsVerifyJwt(r.token, now)
    /\ \A t0 \in 0..now, u \in Users :
           r.token = signJwt(u, t0) =>
               (utilsVerifyJwt(r.token, now) <=> now <= t0 + Lifetime)

TokensMeanTheirBearer(guard, r, s, now) ==
    NamesOnlyBearers(guard, r, s, now) /\ OwnTokensPass(guard, r, s, now)
==============================================================================

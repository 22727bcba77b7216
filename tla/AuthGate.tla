------------------------------- MODULE AuthGate -------------------------------
(***************************************************************************)
(* The onRequest hooks every request passes (server.ts, rate-limit.ts,     *)
(* auth.ts), in their order: the limiter by IP of requests without a       *)
(* usable bearer, the authentication, and the limiter by user, which is    *)
(* @fastify/rate-limit.  Verifying a JWT awaits; the rest runs at once.    *)
(*                                                                         *)
(* A window's `left` is its end minus now, held at 0.                      *)
(***************************************************************************)
EXTENDS Integers, FiniteSets, EventHistory

CONSTANTS
    Ip, Owner, Token,      \* addresses, users, values of static tokens
    Jwt,                   \* values of JWT shape, genuine or not
    Claims,                \* what a JWT says: its subject and whether it has the scope mcp
    Forged,                \* JWTs of another key, issuer or audience
    Revocations,           \* bound: values of STELLARA_REVOKED_TOKENS
    Pending,               \* bound: requests under verification at once
    UnauthMax, UserMax,    \* UNAUTH_RATE_LIMIT_MAX, RATE_LIMIT_MAX
    GateWindow             \* both windows, in clock units

ASSUME GateAssumption ==
    /\ Claims \in [Jwt -> [sub : Owner, mcp : BOOLEAN]] /\ Forged \subseteq Jwt
    /\ Revocations \subseteq SUBSET (Token \cup Jwt)
    /\ UnauthMax \in Nat \ {0} /\ UserMax \in Nat \ {0} /\ GateWindow \in Nat \ {0}

VARIABLES
    tokens,      \* config.tokens: the user of each static token, or Nobody
    revoked,     \* config.revokedTokens
    expired,     \* JWTs whose exp has passed
    pending,     \* the JWT each request under verification carries
    byIp,        \* counters of the limiter by IP
    byUser,      \* counters of @fastify/rate-limit
    passes,      \* history: the requests without a bearer let through in a window, per IP
    calls,       \* history: each user's authenticated requests within a window
    outcome      \* history: what became of the request of the last step

gateVars ==
    <<tokens, revoked, expired, pending, byIp, byUser, passes, calls, outcome>>

Nobody == "nobody"
Free == "free"
NoWindow == [count |-> 0, left |-> 0]
NoOutcome == [status |-> 0, user |-> Nobody, bearer |-> Free]

\* loadConfig: every token belongs to one user (buildTokenMap).
Configured ==
    /\ tokens' \in [Token -> Owner \cup {Nobody}]
    /\ revoked' \in Revocations

GateInit ==
    /\ tokens \in [Token -> Owner \cup {Nobody}]
    /\ revoked \in Revocations
    /\ expired = {}
    /\ pending = [r \in Pending |-> Free]
    /\ byIp = [i \in Ip |-> NoWindow]
    /\ byUser = [u \in Owner |-> NoWindow]
    /\ passes = [i \in Ip |-> {}]
    /\ calls = [u \in Owner |-> {}]
    /\ outcome = NoOutcome

-----------------------------------------------------------------------------
\* One hit in a fixed window that opens with its first hit.
Hit(window, max) ==
    IF window.left = 0
    THEN [count |-> 1, left |-> GateWindow]
    ELSE [window EXCEPT !.count = IF @ <= max THEN @ + 1 ELSE @]

Ends(status, user, bearer) ==
    outcome' = [status |-> status, user |-> user, bearer |-> bearer]

\* Both limiters, no authentication
PublicRequest ==
    /\ Ends(200, Nobody, Free)
    /\ UNCHANGED <<tokens, revoked, expired, pending, byIp, byUser, passes, calls>>

Allowed(window) == window.count <= UnauthMax

\* No Authorization header, another scheme, or an empty token: at most 401.
BareRequest(i) ==
    LET window == Hit(byIp[i], UnauthMax) IN
    /\ byIp' = [byIp EXCEPT ![i] = window]
    /\ IF Allowed(window)
       THEN /\ passes' = [passes EXCEPT ![i] = Recorded(@, 2 * UnauthMax)]
            /\ Ends(401, Nobody, Free)
       ELSE Ends(429, Nobody, Free) /\ UNCHANGED passes
    /\ UNCHANGED <<tokens, revoked, expired, pending, byUser, calls>>

KeyByIp(u) == CHOOSE v \in Owner : TRUE   \* mutant: all users share a counter
RateLimitKey(u) == u

\* The limiter by user, then the handler.
Authenticated(u, bearer) ==
    LET key    == RateLimitKey(u)
        window == Hit(byUser[key], UserMax)
    IN
    /\ byUser' = [byUser EXCEPT ![key] = window]
    /\ calls' = [calls EXCEPT ![u] = Recorded(@, UserMax + 1)]
    /\ Ends(IF window.count <= UserMax THEN 200 ELSE 429, u, bearer)

Rejected(bearer) ==
    /\ Ends(401, Nobody, bearer)
    /\ UNCHANGED <<byUser, calls>>

MatchOnly(t) == tokens[t]   \* mutant: a match ends the scan

\* resolveStaticTokenConstantTime
StaticUser(t) == IF t \in revoked THEN Nobody ELSE tokens[t]

StaticRequest(t) ==
    /\ IF StaticUser(t) = Nobody THEN Rejected(t) ELSE Authenticated(StaticUser(t), t)
    /\ UNCHANGED <<tokens, revoked, expired, pending, byIp, passes>>

\* Exact revocation comes before the verification.
JwtRequest(r, j) ==
    /\ pending[r] = Free
    /\ IF j \in revoked
       THEN Rejected(j) /\ UNCHANGED pending
       ELSE /\ pending' = [pending EXCEPT ![r] = j]
            /\ outcome' = NoOutcome
            /\ UNCHANGED <<byUser, calls>>
    /\ UNCHANGED <<tokens, revoked, expired, byIp, passes>>

\* verifyAccessToken with its checks, and the scope
Accepted(j) == j \notin Forged \cup expired /\ Claims[j].mcp

Verified(r) ==
    LET j == pending[r] IN
    /\ j # Free
    /\ pending' = [pending EXCEPT ![r] = Free]
    /\ IF Accepted(j) THEN Authenticated(Claims[j].sub, j) ELSE Rejected(j)
    /\ UNCHANGED <<tokens, revoked, expired, byIp, passes>>

JwtExpires(j) ==
    /\ j \notin expired
    /\ expired' = expired \cup {j}
    /\ outcome' = NoOutcome
    /\ UNCHANGED <<tokens, revoked, pending, byIp, byUser, passes, calls>>

Later(window) == IF window.left <= 1 THEN NoWindow ELSE [window EXCEPT !.left = @ - 1]

GateTick ==
    /\ byIp' = [i \in Ip |-> Later(byIp[i])]
    /\ byUser' = [u \in Owner |-> Later(byUser[u])]
    /\ passes' = [i \in Ip |-> Elder(passes[i], GateWindow)]
    /\ calls' = [u \in Owner |-> Elder(calls[u], GateWindow)]
    /\ outcome' = NoOutcome
    /\ UNCHANGED <<tokens, revoked, expired, pending>>

\* The counters and the requests are lost; tokens may have moved to other users.
Restart ==
    /\ Configured
    /\ pending' = [r \in Pending |-> Free]
    /\ byIp' = [i \in Ip |-> NoWindow]
    /\ byUser' = [u \in Owner |-> NoWindow]
    /\ passes' = [i \in Ip |-> {}]
    /\ calls' = [u \in Owner |-> {}]
    /\ outcome' = NoOutcome
    /\ UNCHANGED expired

GateNext ==
    \/ PublicRequest
    \/ \E i \in Ip : BareRequest(i)
    \/ \E t \in Token : StaticRequest(t)
    \/ \E r \in Pending : (\E j \in Jwt : JwtRequest(r, j)) \/ Verified(r)
    \/ \E j \in Jwt : JwtExpires(j)
    \/ GateTick
    \/ Restart

GateSpec == GateInit /\ [][GateNext]_gateVars

-----------------------------------------------------------------------------
(* Properties *)

\* A request runs as a user only with a bearer of that user's that is not revoked:
\* a static token of the present configuration, or a genuine JWT with the scope mcp
\* that had not expired when it was verified; overlapping verifications, restarts
\* and tokens that move between users do not mix them up (resolveBearerToken).
ServedToOwner ==
    outcome.user # Nobody =>
        LET b == outcome.bearer IN
        /\ b \notin revoked
        /\ \/ b \in Token /\ tokens[b] = outcome.user
           \/ /\ b \in Jwt \ (Forged \cup expired)
              /\ Claims[b].sub = outcome.user /\ Claims[b].mcp

\* Between restarts no address gets more than twice the maximum, less one, of
\* requests without a bearer past its limiter within any window.  A user is refused
\* for a quota only when the user's own authenticated requests within the window
\* used it up: neither other users nor refused bearers spend it (recordUnauthHit,
\* rateLimitKey, the order of the hooks).
QuotasExact ==
    /\ \A i \in Ip : Cardinality(passes[i]) <= 2 * UnauthMax - 1
    /\ outcome.status = 429 /\ outcome.user # Nobody =>
         Cardinality(calls[outcome.user]) > UserMax
=============================================================================

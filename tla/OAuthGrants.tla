----------------------------- MODULE OAuthGrants -----------------------------
(***************************************************************************)
(* The grant store of the OAuth authorization server: login sessions,      *)
(* authorization codes, refresh tokens and access tokens, the static       *)
(* credentials they descend from, and the reconciliation of the database   *)
(* with the configured credentials at every boot (src/oauth/*.ts and the   *)
(* handlers of src/routes/oauth/*.ts).                                     *)
(*                                                                         *)
(* better-sqlite3 is synchronous: a handler's statements between two       *)
(* awaits, and every transaction, are one step.  The steps a handler does  *)
(* take apart are those around `await signAccessToken`: the database is    *)
(* committed before it, the token exists only after it, and a crash may    *)
(* fall between the two.                                                   *)
(*                                                                         *)
(* A table is the set of its rows.  Rows carry the columns the handlers    *)
(* read and, as history, `cred`: the static credential the user typed into *)
(* the login form the row descends from.                                   *)
(***************************************************************************)
EXTENDS Integers, Sequences, FiniteSets

CONSTANTS
    User,            \* user ids
    Credential,      \* static tokens (one STELLARA_TOKEN_<USERID> value each)
    Owner,           \* the user a static token is configured for
    Client,          \* OAuth client ids
    Binding,         \* pairs of a redirect URI and a PKCE challenge
    SessionId,       \* session cookies
    CodeId,          \* authorization codes
    RefreshId,       \* refresh tokens
    KeyId,           \* signing keys
    Null,            \* SQL NULL, an absent or unreadable value
    CodeTTL, RefreshTTL, SessionTTL, AccessTTL,   \* lifetimes, in clock units
    RenewalThreshold,                             \* session.ts slidingRenewalThresholdMs
    MaxTime                                       \* bound of the clock

ASSUME OwnerAssumption == Owner \in [Credential -> User]
ASSUME NullAssumption ==
    /\ Null \notin RefreshId /\ Null \notin CodeId /\ Null \notin KeyId
    /\ \A E \in SUBSET Credential : Null # E
ASSUME TtlAssumption ==
    /\ CodeTTL \in Nat \ {0} /\ RefreshTTL \in Nat \ {0}
    /\ SessionTTL \in Nat \ {0} /\ AccessTTL \in Nat \ {0}
    /\ RenewalThreshold \in Nat /\ MaxTime \in Nat

VARIABLES
    now,         \* Date.now()
    phase,       \* "down", "reconciled" (booting, key not loaded) or "serving"
    effective,   \* static tokens configured and not revoked, in this process
    activeKey,   \* the signing key held by this process
    bootedAt,    \* when this process reconciled the database
    pending,     \* token requests committed, awaiting signAccessToken
    snapshot,    \* oauth_meta: credentials effective at the last reconciliation
    sessions, codes, refresh,   \* oauth_sessions, oauth_codes, oauth_refresh_tokens
    keys,        \* oauth_keys, newest first
    jwts,        \* access tokens signed and not past their exp
    familyOf,    \* history: the code each refresh token descends from, if minted
    retired,     \* history: refresh tokens that have been rotated
    detected,    \* history: families whose replay rotateRefreshToken recognised
    missed       \* history: families whose replay it answered "unknown"

process  == <<phase, effective, activeKey, bootedAt, pending>>
database == <<snapshot, sessions, codes, refresh, keys>>
history  == <<jwts, familyOf, retired, detected, missed>>
vars     == <<now, process, database, history>>

-----------------------------------------------------------------------------
(* Rows *)

SessionRow == [id : SessionId, user : User, cred : Credential, expires : Nat]
CodeRow == [id : CodeId, user : User, client : Client, binding : Binding,
            cred : Credential, expires : Nat]
RefreshRow == [id : RefreshId, user : User, client : Client, cred : Credential,
               issued : Nat, expires : Nat, rotatedTo : RefreshId \cup {Null}]
Pending == [user : User, client : Client, cred : Credential]
AccessToken == [user : User, client : Client, cred : Credential, kid : KeyId, exp : Nat]

TypeOK ==
    /\ now \in Nat
    /\ phase \in {"down", "reconciled", "serving"}
    /\ effective \in SUBSET Credential
    /\ activeKey \in IF phase = "serving" THEN KeyId ELSE {Null}
    /\ bootedAt \in Nat
    /\ pending \in SUBSET Pending
    /\ snapshot \in (SUBSET Credential) \cup {Null}
    /\ sessions \in SUBSET SessionRow
    /\ codes \in SUBSET CodeRow
    /\ refresh \in SUBSET RefreshRow
    /\ keys \in Seq(KeyId)
    /\ jwts \in SUBSET AccessToken
    /\ familyOf \in [RefreshId -> CodeId \cup {Null}]
    /\ retired \in SUBSET RefreshId
    /\ detected \in SUBSET (CodeId \cup {Null})
    /\ missed \in SUBSET (CodeId \cup {Null})

\* A 256-bit random id collides with no row of its table.
FreshSession(s) == \A r \in sessions : r.id # s
FreshRefresh(t) == familyOf[t] = Null
FreshCode(k) == /\ \A r \in codes : r.id # k
                /\ \A t \in RefreshId : familyOf[t] # k

Init ==
    /\ now = 0
    /\ phase = "down"
    /\ effective = {}
    /\ activeKey = Null
    /\ bootedAt = 0
    /\ pending = {}
    /\ snapshot = Null
    /\ sessions = {} /\ codes = {} /\ refresh = {}
    /\ keys = << >>
    /\ jwts = {}
    /\ familyOf = [t \in RefreshId |-> Null]
    /\ retired = {} /\ detected = {} /\ missed = {}

-----------------------------------------------------------------------------
(* Boot: server.ts bootstrapOAuth *)

\* usersWithRemovedTokens: users some previously effective token of whom is gone.
UsersWithRemovedTokens(previous, current) == {Owner[c] : c \in previous \ current}

KeptRowsOfConfiguredUsers(table, current) ==   \* mutant: one token left is enough
    IF snapshot = Null THEN {} ELSE {r \in table : \E c \in current : Owner[c] = r.user}

\* deleteAuthorizationRows: the rows a reconciliation keeps; all go when the
\* previous snapshot is absent, malformed or of another version.
KeptRows(table, current) ==
    IF snapshot = Null
    THEN {}
    ELSE {r \in table : r.user \notin UsersWithRemovedTokens(snapshot, current)}

\* reconcileStaticTokenState, one transaction, before any route is registered.
\* E is what the environment configures: the tokens minus the revoked ones.
Reconcile(E) ==
    /\ phase = "down"
    /\ phase' = "reconciled"
    /\ effective' = E
    /\ bootedAt' = now
    /\ sessions' = KeptRows(sessions, E)
    /\ codes' = KeptRows(codes, E)
    /\ refresh' = KeptRows(refresh, E)
    /\ snapshot' = E
    /\ UNCHANGED <<now, activeKey, pending, keys, history>>

BootKeyAlwaysNew(kid) == kid \in KeyId   \* mutant: bootstraps on every boot

\* loadOrBootstrapSigningKey: the newest persisted key, or a new one on first boot.
BootKey(kid) == IF keys = << >> THEN kid \in KeyId ELSE kid = Head(keys)

LoadSigningKey ==
    /\ phase = "reconciled"
    /\ phase' = "serving"
    /\ \E kid \in KeyId :
         /\ BootKey(kid)
         /\ activeKey' = kid
         /\ keys' = IF keys = << >> THEN <<kid>> ELSE keys
    /\ UNCHANGED <<now, effective, bootedAt, pending, snapshot, sessions, codes,
                   refresh, history>>

\* The process ends, by shutdown or crash, and loses everything it held.
Stop ==
    /\ phase # "down"
    /\ phase' = "down"
    /\ effective' = {}
    /\ activeKey' = Null
    /\ pending' = {}
    /\ UNCHANGED <<now, bootedAt, database, history>>

\* While the process is down the metadata value may be lost or damaged, or
\* written by a build whose format parseSnapshot does not accept.
LoseSnapshot ==
    /\ phase = "down"
    /\ snapshot # Null
    /\ snapshot' = Null
    /\ UNCHANGED <<now, process, sessions, codes, refresh, keys, history>>

-----------------------------------------------------------------------------
(* Login and authorization *)

\* POST /oauth/login: resolveStaticTokenConstantTime accepts a configured,
\* unrevoked token; createSession.
Login(c, s) ==
    /\ phase = "serving"
    /\ c \in effective
    /\ FreshSession(s)
    /\ sessions' = sessions \cup
         {[id |-> s, user |-> Owner[c], cred |-> c, expires |-> now + SessionTTL]}
    /\ UNCHANGED <<now, process, snapshot, codes, refresh, keys, history>>

LiveAtExpiry(r) == r.expires >= now   \* mutant: <= for <

\* resolveSession: a live session, renewed once it has aged past the threshold.
Live(r) == r.expires > now
Renewed(r) ==
    IF r.expires - now < SessionTTL - RenewalThreshold
    THEN [r EXCEPT !.expires = now + SessionTTL]
    ELSE r

\* GET /oauth/authorize with the cookie of session r: an expired session is
\* deleted and the login form shown; a live one is renewed and a code issued.
Authorize(r, cl, b, k) ==
    /\ phase = "serving"
    /\ r \in sessions
    /\ \/ /\ ~Live(r)
          /\ sessions' = sessions \ {r}
          /\ UNCHANGED codes
       \/ /\ Live(r)
          /\ FreshCode(k)
          /\ sessions' = (sessions \ {r}) \cup {Renewed(r)}
          /\ codes' = codes \cup
               {[id |-> k, user |-> r.user, client |-> cl, binding |-> b,
                 cred |-> r.cred, expires |-> now + CodeTTL]}
    /\ UNCHANGED <<now, process, snapshot, refresh, keys, history>>

-----------------------------------------------------------------------------
(* POST /oauth/token *)

\* issueRefreshToken, also used by a rotation: a new row for the same grant.
NewRefresh(t, from) ==
    [id |-> t, user |-> from.user, client |-> from.client, cred |-> from.cred,
     issued |-> now, expires |-> now + RefreshTTL, rotatedTo |-> Null]

AwaitSigning(row) ==
    pending' = pending \cup {[user |-> row.user, client |-> row.client, cred |-> row.cred]}

Unconsumed(r) == codes   \* mutant: the code survives its redemption

Consumed(r) == codes \ {r}

\* exchangeAuthCode, presented by cl with binding b: one transaction.  Of the
\* refusals only the expired code changes the database; unknown codes and a
\* mismatch of client, redirect URI or PKCE verifier leave it alone.
ExchangeCode(r, cl, b, t) ==
    /\ phase = "serving"
    /\ r \in codes
    /\ codes' = Consumed(r)
    /\ \/ /\ ~Live(r)
          /\ UNCHANGED <<pending, refresh, familyOf>>
       \/ /\ Live(r)
          /\ r.client = cl
          /\ r.binding = b
          /\ FreshRefresh(t)
          /\ refresh' = refresh \cup {NewRefresh(t, r)}
          /\ familyOf' = [familyOf EXCEPT ![t] = r.id]
          /\ AwaitSigning(r)
    /\ UNCHANGED <<now, phase, effective, activeKey, bootedAt, snapshot, sessions,
                   keys, jwts, retired, detected, missed>>

Unmarked(r, t) == r   \* mutant: markRefreshTokenRotated is forgotten

\* markRefreshTokenRotated
Rotated(r, t) == [r EXCEPT !.rotatedTo = t]

\* rotateRefreshToken, presented by the token's own client: one transaction.
RotateRefresh(r, cl, t) ==
    /\ phase = "serving"
    /\ r \in refresh
    /\ r.client = cl
    /\ r.rotatedTo = Null
    /\ Live(r)
    /\ FreshRefresh(t)
    /\ refresh' = (refresh \ {r}) \cup {Rotated(r, t), NewRefresh(t, r)}
    /\ familyOf' = [familyOf EXCEPT ![t] = familyOf[r.id]]
    /\ retired' = retired \cup {r.id}
    /\ AwaitSigning(r)
    /\ UNCHANGED <<now, phase, effective, activeKey, bootedAt, snapshot, sessions,
                   codes, keys, jwts, detected, missed>>

ChainOfOne(r) == {r}   \* mutant: only the presented token

\* deleteRefreshTokenChain: every refresh token of the (user, client) pair.
Chain(r) == {q \in refresh : q.user = r.user /\ q.client = r.client}

\* rotateRefreshToken with a token that has been rotated: the check comes
\* before the one for expiry.
ReplayStored(r, cl) ==
    /\ phase = "serving"
    /\ r \in refresh
    /\ r.client = cl
    /\ r.rotatedTo # Null
    /\ refresh' = refresh \ Chain(r)
    /\ detected' = detected \cup {familyOf[r.id]}
    /\ UNCHANGED <<now, process, snapshot, sessions, codes, keys, jwts, familyOf,
                   retired, missed>>

\* The same once the row is no longer stored: answered "unknown".
ReplayForgotten(t) ==
    /\ phase = "serving"
    /\ t \in retired
    /\ \A r \in refresh : r.id # t
    /\ missed' = missed \cup {familyOf[t]}
    /\ UNCHANGED <<now, process, database, jwts, familyOf, retired, detected>>

MintedForRefreshTTL(p) ==   \* mutant: the wrong lifetime
    [user |-> p.user, client |-> p.client, cred |-> p.cred, kid |-> activeKey,
     exp |-> now + RefreshTTL]

Minted(p) ==
    [user |-> p.user, client |-> p.client, cred |-> p.cred, kid |-> activeKey,
     exp |-> now + AccessTTL]

\* The continuation after `await signAccessToken`.
SignAccessToken(p) ==
    /\ phase = "serving"
    /\ p \in pending
    /\ pending' = pending \ {p}
    /\ jwts' = jwts \cup {Minted(p)}
    /\ UNCHANGED <<now, phase, effective, activeKey, bootedAt, database, familyOf,
                   retired, detected, missed>>

-----------------------------------------------------------------------------
(* The clock and the sweep *)

UnsweptAtExpiry(table) == {r \in table : r.expires > now}   \* mutant: <= for <
UnsweptRefresh(table) ==   \* mutant: one table is forgotten
    {r \in table : r.expires >= now \/ r \in refresh}

\* OAuthStorage.sweepExpired: rows whose expiry lies strictly in the past.
Unswept(table) == {r \in table : r.expires >= now}

SweepExpired ==
    /\ phase = "serving"
    /\ sessions' = Unswept(sessions)
    /\ codes' = Unswept(codes)
    /\ refresh' = Unswept(refresh)
    /\ UNCHANGED <<now, process, snapshot, keys, history>>

\* Time passes whether or not the process runs.  Access tokens past their exp
\* are refused by every verifier and forgotten here.
Tick ==
    /\ now < MaxTime
    /\ now' = now + 1
    /\ jwts' = {j \in jwts : j.exp > now + 1}
    /\ UNCHANGED <<process, database, familyOf, retired, detected, missed>>

-----------------------------------------------------------------------------
Next ==
    \/ \E E \in SUBSET Credential : Reconcile(E)
    \/ LoadSigningKey
    \/ Stop
    \/ LoseSnapshot
    \/ \E c \in Credential, s \in SessionId : Login(c, s)
    \/ \E r \in sessions, cl \in Client, b \in Binding, k \in CodeId : Authorize(r, cl, b, k)
    \/ \E r \in codes, cl \in Client, b \in Binding, t \in RefreshId : ExchangeCode(r, cl, b, t)
    \/ \E r \in refresh, cl \in Client, t \in RefreshId : RotateRefresh(r, cl, t)
    \/ \E r \in refresh, cl \in Client : ReplayStored(r, cl)
    \/ \E t \in RefreshId : ReplayForgotten(t)
    \/ \E p \in pending : SignAccessToken(p)
    \/ SweepExpired
    \/ Tick

Spec == Init /\ [][Next]_vars

\* The sweep timer of a serving process keeps firing (setInterval, 60 s).
FairSpec == Spec /\ WF_vars(SweepExpired)

-----------------------------------------------------------------------------
(* Properties *)

\* While the process runs, every session, code, refresh token and request in
\* flight descends from a static credential that is configured and not revoked
\* now: removing, rotating or revoking a credential ends, at the next boot,
\* everything obtained with it (storage-reconciliation.ts).
GrantsBackedByCredential ==
    phase # "down" =>
        \A r \in sessions \cup codes \cup refresh \cup pending : r.cred \in effective

\* An access token whose credential has been withdrawn is accepted for at most
\* AccessTTL after the boot that withdrew it: verifyAccessToken consults no
\* table, so its lifetime is all that bounds it.
AccessOutlivesCredentialByTtl ==
    phase # "down" =>
        \A j \in jwts : j.cred \in effective \/ j.exp <= bootedAt + AccessTTL

\* A code is redeemed once and a refresh token rotated once: however requests
\* interleave, one grant never has two refresh tokens that both still work.
OneLiveTokenPerGrant ==
    \A r, q \in refresh :
        /\ r.rotatedTo = Null
        /\ q.rotatedTo = Null
        /\ familyOf[r.id] = familyOf[q.id]
        => r = q

\* Once a replay of a rotated token has been recognised, no refresh token of
\* that grant exists again, by rotation, by a second redemption of its code or
\* through a row the deletion missed.
ReplayedGrantStaysDead == \A r \in refresh : familyOf[r.id] \notin detected

\* The documented promise (stellara-konzept.md 6.6): presenting a rotated token
\* again invalidates the chain, whenever that happens.
ReplayInvalidatesChain == \A r \in refresh : familyOf[r.id] \notin detected \cup missed

\* A rotation happens strictly before the rotated token expires, stays with the
\* same user and client, and its successor lives on at least as long: replay
\* detection finds the predecessor's row before the successor's is swept away.
RotationChainsSound ==
    \A r \in refresh : r.rotatedTo # Null =>
        \E q \in refresh :
            /\ q.id = r.rotatedTo
            /\ q.user = r.user /\ q.client = r.client
            /\ q.issued < r.expires
            /\ q.expires >= r.expires

\* An access token signed before a restart still verifies after it, because
\* every boot loads the same persisted key.
AccessSurvivesRestart == phase = "serving" => \A j \in jwts : j.kid = activeKey

\* While the process serves, a refresh token leaves the table only because it
\* expired or together with every other token of its user and client: no
\* failure path deletes part of a chain.
NoPartialRevocation ==
    [][phase = "serving" /\ phase' = "serving" =>
         \A r \in refresh :
            \/ \E q \in refresh' : q.id = r.id
            \/ r.expires < now
            \/ \A q \in refresh' : ~(q.user = r.user /\ q.client = r.client)]_vars

\* The process is up and the table has a row of this id past its expiry.
Overdue(table, id) == phase = "serving" /\ \E r \in table : r.id = id /\ r.expires < now

\* A session, a code or a refresh token past its expiry does not stay while the
\* process keeps serving, whatever is issued, renewed or rotated meanwhile: no table
\* grows with dead rows (sweepExpired and its timer).
ExpiredRowsSwept ==
    /\ \A s \in SessionId : Overdue(sessions, s) ~> ~Overdue(sessions, s)
    /\ \A k \in CodeId : Overdue(codes, k) ~> ~Overdue(codes, k)
    /\ \A t \in RefreshId : Overdue(refresh, t) ~> ~Overdue(refresh, t)

=============================================================================

-------------------------- MODULE ClientRegistration --------------------------
(***************************************************************************)
(* Dynamic client registration and the `resource` cutover (oauth/clients.ts,*)
(* oauth/resource.ts).  The first start of this version persists a cutover *)
(* time; clients registered before it may leave `resource` out at every    *)
(* OAuth endpoint, all others must send it.  Registrations are limited per *)
(* address by fixed windows kept in memory.                                *)
(*                                                                         *)
(* The wall clock runs while the process serves, and may be set to any     *)
(* time, an earlier one too, while it is down.                             *)
(***************************************************************************)
EXTENDS Integers, FiniteSets

CONSTANTS
    Client,        \* opaque client ids
    Cimd,          \* https client ids: their metadata is fetched, never registered
    Address,       \* request.ip
    Uri,           \* redirect URIs
    PolicyUri,     \* those validateSingleRedirectUri accepts
    Null,
    MaxPerHour,
    Hour,
    MaxTime        \* bound of the clock

ASSUME RegistrationAssumption ==
    /\ Client \cap Cimd = {} /\ PolicyUri \subseteq Uri
    /\ Null \notin [count : Nat, reset : Nat]
    /\ MaxPerHour \in Nat \ {0} /\ Hour \in Nat \ {0} /\ MaxTime \in Nat \ {0}

VARIABLES
    now,        \* Date.now()
    serving,    \* the process runs
    cutover,    \* oauth_resource_required_since, or 0 before the first start
    clients,    \* oauth_clients: the row of each id, or Null
    buckets,    \* the registrar's table: a window per address, or Null
    code,       \* the code issued last: its client and redirect URI, or Null
    relying,    \* history: clients authorized without `resource`
    older,      \* history: clients registered by builds without the cutover
    recent      \* history: registrations of each address in this process within the last hour

regVars == <<now, serving, cutover, clients, buckets, code, relying, older, recent>>

-----------------------------------------------------------------------------
\* last_used_at is left out: its only reader, sweepStaleClients, has no caller.
Row == [uris : SUBSET Uri, created : Nat]
Window == [count : 1..MaxPerHour, reset : Nat]

RegistrationTypeOK ==
    /\ now \in 1..MaxTime /\ cutover \in 0..MaxTime /\ serving \in BOOLEAN
    /\ clients \in [Client -> Row \cup {Null}]
    /\ buckets \in [Address -> Window \cup {Null}]
    /\ code \in [client : Client \cup Cimd, uri : Uri] \cup {Null}
    /\ relying \subseteq Client \cup Cimd
    /\ older \subseteq Client
    /\ recent \in [Address -> SUBSET (Client \X (1..MaxTime))]

Empty == [a \in Address |-> Null]

\* An older build may have left clients in the database.
RegistrationInit ==
    /\ now \in 1..MaxTime
    /\ serving = FALSE
    /\ cutover = 0
    /\ older \in SUBSET Client
    /\ \E t \in 1..now, U \in (SUBSET PolicyUri) \ {{}} :
         clients = [c \in Client |-> IF c \in older THEN [uris |-> U, created |-> t]
                                     ELSE Null]
    /\ buckets = Empty
    /\ code = Null
    /\ relying = {}
    /\ recent = [a \in Address |-> {}]

-----------------------------------------------------------------------------
\* getOrInitializeMeta keeps the first value.
Cutover == IF cutover = 0 THEN now ELSE cutover

\* Starts, again after a crash, with an empty bucket table.
Boot ==
    /\ ~serving
    /\ serving' = TRUE
    /\ cutover' = Cutover
    /\ buckets' = Empty
    /\ UNCHANGED <<now, clients, code, relying, older, recent>>

Stop ==
    /\ serving
    /\ serving' = FALSE
    /\ recent' = [a \in Address |-> {}]
    /\ UNCHANGED <<now, cutover, clients, buckets, code, relying, older>>

-----------------------------------------------------------------------------
BackdatedRow(U) == [uris |-> U, created |-> now]   \* mutant: Math.max is left out

Latest(s, t) == IF s < t THEN t ELSE s
NewRow(U) == [uris |-> U, created |-> Latest(now, cutover)]

Room(w) == w.count < MaxPerHour

ElapsedAtCap(w) == w.reset <= now \/ w.count = MaxPerHour   \* mutant: a full window starts over
Elapsed(w) == w.reset <= now

UrisAllowed(U) == U \subseteq PolicyUri

\* consumeBucket, when it allows the request: the window it leaves.
Consumed(w) ==
    IF w = Null \/ Elapsed(w) THEN [count |-> 1, reset |-> now + Hour]
    ELSE [w EXCEPT !.count = @ + 1]

\* registerClient answered ok: an invalid redirect URI and a full window change nothing.
RegisterClient(a, c, U) ==
    LET w == buckets[a] IN
    /\ serving
    /\ UrisAllowed(U)
    /\ w # Null => Elapsed(w) \/ Room(w)
    /\ clients[c] = Null
    /\ buckets' = [buckets EXCEPT ![a] = Consumed(w)]
    /\ clients' = [clients EXCEPT ![c] = NewRow(U)]
    /\ recent' = [recent EXCEPT ![a] = @ \cup {<<c, now>>}]
    /\ UNCHANGED <<now, serving, cutover, code, relying, older>>

-----------------------------------------------------------------------------
\* Ids resolveClient does not refuse.
Known == Cimd \cup {c \in Client : clients[c] # Null}

\* The rule for requests without `resource`, as validateResolvedClientResource
\* applies it to a resolved client at the login and authorize endpoints ...
LegacyAtCutover(c) == c \in Client /\ clients[c].created <= cutover   \* mutant: <= for <
LegacyResolved(c) == c \in Client /\ clients[c].created < cutover

\* ... and as validateBoundTokenResource applies it to a client id at the token
\* endpoint, from the stored row and without fetching metadata.
LegacyBound(c) == c \in Known \ Cimd /\ clients[c].created < cutover

\* /oauth/authorize with a session, up to the code; U are the redirect URIs of
\* the stored row, or of the document fetched for an https id.
Authorize(c, uri, omitted) ==
    /\ serving
    /\ c \in Known
    /\ \E U \in IF c \in Client THEN {clients[c].uris} ELSE SUBSET PolicyUri :
         uri \in U /\ (omitted => LegacyResolved(c))
    /\ code' = [client |-> c, uri |-> uri]
    /\ relying' = IF omitted THEN relying \cup {c} ELSE relying
    /\ UNCHANGED <<now, serving, cutover, clients, buckets, older, recent>>

-----------------------------------------------------------------------------
\* Time passes in a running process.
Tick ==
    /\ serving /\ now < MaxTime
    /\ now' = now + 1
    /\ recent' = [a \in Address |-> {r \in recent[a] : r[2] + Hour > now'}]
    /\ UNCHANGED <<serving, cutover, clients, buckets, code, relying, older>>

\* The clock is corrected, or the volume moves to another host.
SetClock(t) ==
    /\ ~serving
    /\ now' = t
    /\ UNCHANGED <<serving, cutover, clients, buckets, code, relying, older, recent>>

RegistrationNext ==
    \/ Boot
    \/ Stop
    \/ \E a \in Address, c \in Client, U \in (SUBSET Uri) \ {{}} : RegisterClient(a, c, U)
    \/ \E c \in Client \cup Cimd, uri \in Uri, omitted \in BOOLEAN : Authorize(c, uri, omitted)
    \/ Tick
    \/ \E t \in 1..MaxTime : SetClock(t)

RegistrationSpec == RegistrationInit /\ [][RegistrationNext]_regVars

-----------------------------------------------------------------------------
\* A client registered by this version, and every https client, must send
\* `resource` at every endpoint, wherever the clock was when it registered.
NewClientsStrict ==
    \A c \in (Client \ older) \cup Cimd : ~LegacyBound(c) /\ c \notin relying

\* What authorize granted to a client that leaves `resource` out, the token
\* endpoint accepts from it, across restarts and clock corrections.
RelyingClientsServed == serving => \A c \in relying : LegacyBound(c)

\* A code goes to a redirect URI the policy allows and, for a registered client,
\* to one it registered.
RedirectsAllowed ==
    code # Null =>
        /\ code.uri \in PolicyUri
        /\ code.client \in Client => code.uri \in clients[code.client].uris

\* No address registers more than two windows' worth less one within an hour of
\* one process.
RegistrationsBounded ==
    \A a \in Address : Cardinality(recent[a]) <= 2 * MaxPerHour - 1
=============================================================================

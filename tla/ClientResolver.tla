---------------------------- MODULE ClientResolver ----------------------------
(***************************************************************************)
(* The resolver of client metadata documents (oauth/client-metadata.ts):   *)
(* a cache of answers, one shared flight per client id, a cap on flights,  *)
(* a timeout that aborts a flight, and close() at shutdown.                *)
(*                                                                         *)
(* A flight goes through the callbacks of startFlight's promise chain, one *)
(* step each: the fetch settles and the answer is cached (then / catch),   *)
(* the flight is taken down and its callers are answered (finally).  A     *)
(* cache row carries `left`, its expiresAt minus now, held at 0.           *)
(* Whether the source's rate limit admits a miss is SourceRateLimiter's    *)
(* business and a free choice here; so is what the network answers.        *)
(***************************************************************************)
EXTENDS Integers, SequencesExt

CONSTANTS
    ClientId,      \* https client ids that parse
    Caller,        \* requests that may be resolving at once
    Null,
    MaxInFlight,   \* maxInFlight
    MaxEntries,    \* cacheMaxEntries
    PositiveTTL,   \* the freshness lifetimes documents may declare
    NegativeTTL    \* NEGATIVE_TTL_MS, in the same unit

ASSUME ResolverAssumption ==
    /\ Null \notin ClientId
    /\ MaxInFlight \in Nat \ {0} /\ MaxEntries \in Nat \ {0}
    /\ PositiveTTL \subseteq Nat \ {0} /\ NegativeTTL \in Nat \ {0}

VARIABLES
    state,      \* "open", "closing" (close() awaits the flights) or "closed"
    cache,      \* the Map, least recently used first
    flights,    \* each id: "none", "fetching" or "settled"
    aborted,    \* ids whose controller has been aborted
    inFlight,   \* state.inFlight
    waiting     \* the flight each caller awaits, or Null

resolverVars == <<state, cache, flights, aborted, inFlight, waiting>>

CacheRow == [id : ClientId, kind : {"positive", "negative"}, left : Nat]

ResolverTypeOK ==
    /\ state \in {"open", "closing", "closed"}
    /\ cache \in Seq(CacheRow) /\ Len(cache) <= MaxEntries
    /\ \A i, j \in DOMAIN cache : cache[i].id = cache[j].id => i = j
    /\ flights \in [ClientId -> {"none", "fetching", "settled"}]
    /\ aborted \in SUBSET ClientId
    /\ inFlight \in Nat
    /\ waiting \in [Caller -> ClientId \cup {Null}]

ResolverInit ==
    /\ state = "open"
    /\ cache = << >>
    /\ flights = [id \in ClientId |-> "none"]
    /\ aborted = {}
    /\ inFlight = 0
    /\ waiting = [q \in Caller |-> Null]

-----------------------------------------------------------------------------
(* The cache *)

RowsOf(id) == {r \in ToSet(cache) : r.id = id}
RowAt(id) == CHOOSE i \in DOMAIN cache : cache[i].id = id
Without(id) == IF RowsOf(id) = {} THEN cache ELSE RemoveAt(cache, RowAt(id))

\* writeCache: newest last, oldest dropped beyond the bound.
Written(row) ==
    LET all == Append(Without(row.id), row) IN
    IF Len(all) > MaxEntries THEN Tail(all) ELSE all

-----------------------------------------------------------------------------
(* resolveCimd: runs to its first await in one step *)

\* readCache finds a fresh row, which becomes the most recently used.
CacheHit(q, id) ==
    /\ state = "open" /\ waiting[q] = Null
    /\ \E r \in RowsOf(id) : r.left > 0 /\ cache' = Append(Without(id), r)
    /\ UNCHANGED <<state, flights, aborted, inFlight, waiting>>

MissKeepingStale(q, id) ==   \* mutant: readCache leaves the stale row
    /\ state = "open" /\ waiting[q] = Null
    /\ \A r \in RowsOf(id) : r.left = 0
    /\ UNCHANGED cache

\* Otherwise a stale row is dropped, and the caller joins the flight there is,
Miss(q, id) ==
    /\ state = "open" /\ waiting[q] = Null
    /\ \A r \in RowsOf(id) : r.left = 0
    /\ cache' = Without(id)

JoinFlight(q, id) ==
    /\ Miss(q, id)
    /\ flights[id] # "none"
    /\ waiting' = [waiting EXCEPT ![q] = id]
    /\ UNCHANGED <<state, flights, aborted, inFlight>>

\* or is refused by the cap on flights or the rate limit,
RefuseMiss(q, id) ==
    /\ Miss(q, id)
    /\ flights[id] = "none"
    /\ UNCHANGED <<state, flights, aborted, inFlight, waiting>>

RoomForFlight == inFlight < MaxInFlight

\* or starts one.
StartFlight(q, id) ==
    /\ Miss(q, id)
    /\ flights[id] = "none"
    /\ RoomForFlight
    /\ inFlight' = inFlight + 1
    /\ flights' = [flights EXCEPT ![id] = "fetching"]
    /\ waiting' = [waiting EXCEPT ![q] = id]
    /\ UNCHANGED <<state, aborted>>

-----------------------------------------------------------------------------
(* The flight *)

\* The timer of startFlight fires.
Timeout(id) ==
    /\ flights[id] = "fetching"
    /\ aborted' = aborted \cup {id}
    /\ UNCHANGED <<state, cache, flights, inFlight, waiting>>

CacheableUntilClosed(id) == state = "open"   \* mutant: signal.aborted is not read

\* Nothing is cached once the resolver is closed or the flight aborted.
Cacheable(id) == state = "open" /\ id \notin aborted

\* cacheSuccess: the document is valid and declares a lifetime.
FetchSucceeds(id, ttl) ==
    /\ flights[id] = "fetching"
    /\ flights' = [flights EXCEPT ![id] = "settled"]
    /\ cache' = IF Cacheable(id)
                THEN Written([id |-> id, kind |-> "positive", left |-> ttl])
                ELSE cache
    /\ UNCHANGED <<state, aborted, inFlight, waiting>>

\* cacheFailure: the fetch or the validation rejects, as an aborted one does.
FetchFails(id) ==
    /\ flights[id] = "fetching"
    /\ flights' = [flights EXCEPT ![id] = "settled"]
    /\ cache' = IF Cacheable(id)
                THEN Written([id |-> id, kind |-> "negative", left |-> NegativeTTL])
                ELSE cache
    /\ UNCHANGED <<state, aborted, inFlight, waiting>>

FinishUnaborted(id) ==   \* mutant: the clean-up is in then(), not in finally()
    /\ flights[id] = "settled" /\ id \notin aborted
    /\ flights' = [flights EXCEPT ![id] = "none"]
    /\ inFlight' = inFlight - 1
    /\ waiting' = [q \in Caller |-> IF waiting[q] = id THEN Null ELSE waiting[q]]
    /\ UNCHANGED <<state, cache, aborted>>

\* finally: the flight is taken down; every caller awaiting it is answered.
FinishFlight(id) ==
    /\ flights[id] = "settled"
    /\ flights' = [flights EXCEPT ![id] = "none"]
    /\ aborted' = aborted \ {id}
    /\ inFlight' = inFlight - 1
    /\ waiting' = [q \in Caller |-> IF waiting[q] = id THEN Null ELSE waiting[q]]
    /\ UNCHANGED <<state, cache>>

-----------------------------------------------------------------------------
(* closeResolver *)

Flying == {id \in ClientId : flights[id] # "none"}

Close ==
    /\ state = "open"
    /\ state' = "closing"
    /\ cache' = << >>
    /\ aborted' = aborted \cup Flying
    /\ UNCHANGED <<flights, inFlight, waiting>>

\* allSettled over the flights there were; none can start any more.
CloseDone ==
    /\ state = "closing"
    /\ Flying = {}
    /\ state' = "closed"
    /\ cache' = << >>
    /\ UNCHANGED <<flights, aborted, inFlight, waiting>>

Aged(r) == [r EXCEPT !.left = IF @ > 0 THEN @ - 1 ELSE 0]

Tick ==
    /\ cache' = [i \in DOMAIN cache |-> Aged(cache[i])]
    /\ UNCHANGED <<state, flights, aborted, inFlight, waiting>>

-----------------------------------------------------------------------------
ResolverNext ==
    \/ \E q \in Caller, id \in ClientId : CacheHit(q, id)
    \/ \E q \in Caller, id \in ClientId : JoinFlight(q, id)
    \/ \E q \in Caller, id \in ClientId : RefuseMiss(q, id)
    \/ \E q \in Caller, id \in ClientId : StartFlight(q, id)
    \/ \E id \in ClientId : Timeout(id)
    \/ \E id \in ClientId, ttl \in PositiveTTL : FetchSucceeds(id, ttl)
    \/ \E id \in ClientId : FetchFails(id)
    \/ \E id \in ClientId : FinishFlight(id)
    \/ Close
    \/ CloseDone
    \/ Tick

ResolverSpec == ResolverInit /\ [][ResolverNext]_resolverVars

\* The timer fires; an abort rejects the pending fetch (waitForCimdOperation);
\* promise callbacks run.  The network itself owes nothing.
ResolverFairness ==
    /\ \A id \in ClientId :
         /\ WF_resolverVars(Timeout(id))
         /\ WF_resolverVars(id \in aborted /\ FetchFails(id))
         /\ WF_resolverVars(FinishFlight(id))
    /\ WF_resolverVars(CloseDone)

FairResolverSpec == ResolverSpec /\ ResolverFairness

-----------------------------------------------------------------------------
(* Properties *)

\* The counter that admits flights is the number of flights: no path, success,
\* failure, timeout or shutdown, leaks a slot or returns one twice.  Callers share:
\* nobody awaits a flight that is gone, and while one fetches an id the cache has no
\* answer for it, so that one miss costs one fetch (startFlight, its finally).
FlightsExact ==
    /\ inFlight = Cardinality(Flying) /\ inFlight <= MaxInFlight
    /\ \A q \in Caller : waiting[q] # Null => flights[waiting[q]] # "none"
    /\ \A id \in ClientId : flights[id] = "fetching" => RowsOf(id) = {}

\* A flight that settles after close() began leaves nothing behind, and one that was
\* aborted leaves no answer: a timeout is not remembered against the client for the
\* negative lifetime (cacheSuccess, cacheFailure).
CacheHonest ==
    /\ state # "open" => cache = << >>
    /\ \A id \in aborted : RowsOf(id) = {}

\* Every caller is answered, and close() returns, whether or not the network ever
\* answers (startFlight's timer, closeResolver).
CallersAnswered ==
    /\ \A q \in Caller : waiting[q] # Null ~> waiting[q] = Null
    /\ state = "closing" ~> state = "closed"
=============================================================================

-------------------------- MODULE SourceRateLimiter --------------------------
(***************************************************************************)
(* The per-source limiter of metadata lookups                              *)
(* (oauth/client-metadata-rate-limit.ts): a fixed window per source, held  *)
(* in a Map that is bounded by dropping the least recently used source and *)
(* that is pruned of expired windows now and then.                         *)
(*                                                                         *)
(* The Map is the set of its rows, and its order a relation: `order` has   *)
(* the pair <<s, t>> when s was used before t.  A bucket's `left` is its   *)
(* resetAt minus now, held at 0.                                           *)
(***************************************************************************)
EXTENDS Integers, FiniteSets, EventHistory

CONSTANTS
    Source,          \* source addresses
    MaxPerWindow,    \* maxPerMinute
    MaxBuckets,      \* rateBucketMaxBuckets
    PruneInterval,   \* PRUNE_INTERVAL
    Window           \* RATE_WINDOW_MS in clock units

ASSUME LimiterAssumption ==
    /\ MaxPerWindow \in Nat \ {0} /\ MaxBuckets \in Nat \ {0}
    /\ PruneInterval \in Nat \ {0} /\ Window \in Nat \ {0}

VARIABLES
    buckets,   \* the rows of the Map
    order,     \* its order: pairs of sources, the less recently used first
    misses,    \* missesSincePrune
    recent,    \* history: each source's admissions within the last Window
    dropped,   \* history: sources whose open window was evicted for another's
    answer     \* history: the consume() of the last step, its source and outcome

limiterVars == <<buckets, order, misses, recent, dropped, answer>>

Bucket == [source : Source, count : 1..MaxPerWindow, left : 0..Window]

LimiterTypeOK ==
    /\ buckets \in SUBSET Bucket
    /\ order \in SUBSET (Source \X Source)
    /\ misses \in 0..PruneInterval - 1
    /\ recent \in [Source -> SUBSET ((0..Window - 1) \X Nat)]
    /\ dropped \in SUBSET Source
    /\ answer \in [source : Source, admitted : BOOLEAN] \cup {<< >>}

LimiterInit ==
    /\ buckets = {}
    /\ order = {}
    /\ misses = 0
    /\ recent = [s \in Source |-> {}]
    /\ dropped = {}
    /\ answer = << >>

-----------------------------------------------------------------------------
PrunedAll(table) == {}   \* mutant: clears instead of pruning

\* pruneExpiredBuckets
Pruned(table) == {b \in table : b.left > 0}

\* ensureCapacity: of the rows, the most recently used, with room for one more.
Capped(table) ==
    {b \in table : Cardinality({c \in table : <<b.source, c.source>> \in order}) < MaxBuckets - 1}

Others(table, s) == {b \in table : b.source # s}
Full(b) == b.count >= MaxPerWindow
Open(table, s) == {b \in table : b.source = s /\ b.left > 0}

\* The Map is set to these rows, and last to that of s.
Placed(rest, s, row) ==
    LET before == {b.source : b \in rest} IN
    /\ buckets' = rest \cup {row}
    /\ order' = (order \cap (before \X before)) \cup (before \X {s})

Admit(s) ==
    /\ recent' = [recent EXCEPT ![s] = Recorded(@, 2 * MaxPerWindow)]
    /\ answer' = [source |-> s, admitted |-> TRUE]

Refuse(s) ==
    /\ answer' = [source |-> s, admitted |-> FALSE]
    /\ UNCHANGED recent

\* The table consume() works on, after its occasional prune.
Swept == IF misses + 1 >= PruneInterval \/ Cardinality(buckets) >= MaxBuckets
         THEN Pruned(buckets) ELSE buckets

\* consume(): an open window admits up to its maximum and moves to the end;
\* otherwise a new window opens, making room if it must.
Consume(s) ==
    LET rest == Others(Swept, s) IN
    /\ misses' = IF misses + 1 >= PruneInterval \/ Cardinality(buckets) >= MaxBuckets
                 THEN 0 ELSE misses + 1
    /\ \/ /\ Open(Swept, s) = {}
          /\ Placed(Capped(rest), s, [source |-> s, count |-> 1, left |-> Window])
          /\ dropped' = dropped \cup {b.source : b \in {r \in rest \ Capped(rest) : r.left > 0}}
          /\ Admit(s)
       \/ /\ \E b \in Open(Swept, s) :
               ~Full(b) /\ Placed(rest, s, [b EXCEPT !.count = @ + 1])
          /\ Admit(s)
          /\ UNCHANGED dropped
       \/ /\ \E b \in Open(Swept, s) : Full(b) /\ Placed(rest, s, b)
          /\ Refuse(s)
          /\ UNCHANGED dropped

\* clear(), at shutdown of the resolver.
Clear ==
    /\ buckets' = {}
    /\ order' = {}
    /\ misses' = 0
    /\ recent' = [s \in Source |-> {}]
    /\ dropped' = {}
    /\ answer' = << >>

LimiterTick ==
    /\ buckets' = {[b EXCEPT !.left = IF @ > 0 THEN @ - 1 ELSE 0] : b \in buckets}
    /\ recent' = [s \in Source |-> Elder(recent[s], Window)]
    /\ dropped' = {s \in dropped : recent'[s] # {}}
    /\ answer' = << >>
    /\ UNCHANGED <<order, misses>>

LimiterNext ==
    \/ \E s \in Source : Consume(s)
    \/ Clear
    \/ LimiterTick

LimiterSpec == LimiterInit /\ [][LimiterNext]_limiterVars

-----------------------------------------------------------------------------
(* Properties *)

\* A source is refused only if it really was admitted MaxPerWindow times within the
\* last Window, whatever was dropped or pruned meanwhile; and unless its open window
\* was dropped to make room for another source, none is admitted more than twice
\* that, less one, within any Window: windows are fixed, not sliding, and neither
\* prune nor clock reopens one early.  However sources rotate, the table keeps its
\* bound (consume, ensureCapacity).
LimiterExact ==
    /\ answer # << >> /\ ~answer.admitted => Cardinality(recent[answer.source]) >= MaxPerWindow
    /\ \A s \in Source \ dropped : Cardinality(recent[s]) <= 2 * MaxPerWindow - 1
    /\ Cardinality(buckets) <= MaxBuckets
=============================================================================

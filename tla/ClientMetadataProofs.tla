------------------------- MODULE ClientMetadataProofs -------------------------
(***************************************************************************)
(* Theorems about the resolver of client metadata documents, for any       *)
(* number of clients and callers and any bounds.                           *)
(***************************************************************************)
EXTENDS ClientResolver, SequenceTheorems, FiniteSetTheorems, TLAPS

Ids(s) == {s[i].id : i \in DOMAIN s}

Distinct(s) == \A i, j \in DOMAIN s : s[i].id = s[j].id => i = j

-----------------------------------------------------------------------------
(* The cache as a sequence *)

\* Deleting an index leaves the rows before it and the rows after it.
LEMMA RemovedRow ==
  ASSUME NEW R, NEW s \in Seq(R), NEW k \in DOMAIN s
  PROVE  /\ RemoveAt(s, k) \in Seq(R)
         /\ Len(RemoveAt(s, k)) = Len(s) - 1
         /\ \A i \in 1 .. Len(s) - 1 :
              RemoveAt(s, k)[i] = IF i < k THEN s[i] ELSE s[i + 1]
<1> DEFINE a == SubSeq(s, 1, k - 1)
           b == SubSeq(s, k + 1, Len(s))
<1>1. Len(s) \in Nat /\ DOMAIN s = 1 .. Len(s) /\ k \in 1 .. Len(s)
  BY LenProperties
<1>2. \A i \in 1 .. Len(s) : s[i] \in R
  BY ElementOfSeq
<1>3. /\ a \in Seq(R) /\ Len(a) = k - 1
      /\ \A i \in 1 .. k - 1 : a[i] = s[i]
  <2>1. \A i \in 1 .. (k - 1) : s[i] \in R
    BY <1>1, <1>2
  <2>2. /\ a \in Seq(R)
        /\ Len(a) = IF 1 <= k - 1 THEN (k - 1) - 1 + 1 ELSE 0
        /\ \A i \in 1 .. (k - 1) - 1 + 1 : a[i] = s[1 + i - 1]
    BY <1>1, <2>1, SubSeqProperties
  <2> QED BY <1>1, <2>2
<1>4. /\ b \in Seq(R) /\ Len(b) = Len(s) - k
      /\ \A i \in 1 .. Len(s) - k : b[i] = s[k + i]
  <2>1. \A i \in (k + 1) .. Len(s) : s[i] \in R
    BY <1>1, <1>2
  <2>2. /\ b \in Seq(R)
        /\ Len(b) = IF k + 1 <= Len(s) THEN Len(s) - (k + 1) + 1 ELSE 0
        /\ \A i \in 1 .. Len(s) - (k + 1) + 1 : b[i] = s[(k + 1) + i - 1]
    BY <1>1, <2>1, SubSeqProperties
  <2> QED BY <1>1, <2>2
<1> HIDE DEF a, b
<1>5. /\ a \o b \in Seq(R) /\ Len(a \o b) = Len(a) + Len(b)
      /\ \A i \in 1 .. Len(a) + Len(b) :
           (a \o b)[i] = IF i <= Len(a) THEN a[i] ELSE b[i - Len(a)]
  BY <1>3, <1>4, ConcatProperties
<1>6. RemoveAt(s, k) = a \o b
  BY DEF RemoveAt, a, b
<1>7. Len(a) + Len(b) = Len(s) - 1
  BY <1>1, <1>3, <1>4
<1>8. ASSUME NEW i \in 1 .. Len(s) - 1
      PROVE  (a \o b)[i] = IF i < k THEN s[i] ELSE s[i + 1]
  <2>1. CASE i < k
    BY <1>1, <1>3, <1>4, <1>5, <1>7, <2>1
  <2>2. CASE ~(i < k)
    <3>1. /\ i - Len(a) \in 1 .. Len(s) - k /\ ~(i <= Len(a))
          /\ k + (i - Len(a)) = i + 1
      BY <1>1, <1>3, <2>2
    <3>2. (a \o b)[i] = b[i - Len(a)]
      BY <1>5, <1>7, <3>1
    <3>3. b[i - Len(a)] = s[k + (i - Len(a))]
      BY <1>4, <3>1
    <3> QED BY <2>2, <3>1, <3>2, <3>3
  <2> QED BY <2>1, <2>2
<1> QED BY <1>5, <1>6, <1>7, <1>8

\* Dropping an id's row leaves every other row, once each.
LEMMA WithoutId ==
  ASSUME cache \in Seq(CacheRow), Distinct(cache), NEW id
  PROVE  /\ Without(id) \in Seq(CacheRow)
         /\ Distinct(Without(id))
         /\ Ids(Without(id)) = Ids(cache) \ {id}
         /\ Len(Without(id)) <= Len(cache)
         /\ id \in Ids(cache) => Len(Without(id)) < Len(cache)
<1>0. Len(cache) \in Nat /\ DOMAIN cache = 1 .. Len(cache)
  BY LenProperties
<1>1. CASE RowsOf(id) = {}
  <2>1. id \notin Ids(cache)
    BY <1>1 DEF RowsOf, ToSet, Ids
  <2>2. Without(id) = cache
    BY <1>1 DEF Without
  <2> QED BY <1>0, <2>1, <2>2
<1>2. CASE RowsOf(id) # {}
  <2> DEFINE k == RowAt(id)
             t == RemoveAt(cache, k)
  <2>1. \E i \in DOMAIN cache : cache[i].id = id
    BY <1>2 DEF RowsOf, ToSet
  <2>2. k \in DOMAIN cache /\ cache[k].id = id
    BY <2>1 DEF RowAt
  <2> HIDE DEF k
  <2>3. /\ t \in Seq(CacheRow) /\ Len(t) = Len(cache) - 1
        /\ \A i \in 1 .. Len(cache) - 1 :
             t[i] = IF i < k THEN cache[i] ELSE cache[i + 1]
    BY <2>2, RemovedRow
  <2>4. Without(id) = t
    BY <1>2 DEF Without, k
  <2> HIDE DEF t
  <2>5. DOMAIN t = 1 .. Len(cache) - 1
    BY <2>3, LenProperties
  <2> DEFINE src(i) == IF i < k THEN i ELSE i + 1
  <2>6. \A i \in DOMAIN t : src(i) \in DOMAIN cache /\ src(i) # k /\ t[i] = cache[src(i)]
    BY <1>0, <2>2, <2>3, <2>5
  <2>7. \A i, j \in DOMAIN t : src(i) = src(j) => i = j
    BY <1>0, <2>2, <2>5
  <2>8. \A j \in DOMAIN cache : j # k => \E i \in DOMAIN t : src(i) = j
    <3> SUFFICES ASSUME NEW j \in DOMAIN cache, j # k
                 PROVE  \E i \in DOMAIN t : src(i) = j
      OBVIOUS
    <3>1. CASE j < k
      <4>1. j \in DOMAIN t /\ src(j) = j
        BY <1>0, <2>2, <2>5, <3>1
      <4> QED BY <4>1
    <3>2. CASE ~(j < k)
      <4>1. j - 1 \in DOMAIN t /\ src(j - 1) = j
        BY <1>0, <2>2, <2>5, <3>2
      <4> QED BY <4>1
    <3> QED BY <3>1, <3>2
  <2> HIDE DEF src
  <2>9. Distinct(t)
    BY <2>6, <2>7 DEF Distinct
  <2>10. Ids(t) = Ids(cache) \ {id}
    <3>1. \A i \in DOMAIN t : t[i].id \in Ids(cache) /\ t[i].id # id
      BY <2>2, <2>6 DEF Ids, Distinct
    <3>2. \A j \in DOMAIN cache : cache[j].id # id => cache[j].id \in Ids(t)
      BY <2>2, <2>6, <2>8 DEF Ids
    <3> QED BY <3>1, <3>2 DEF Ids
  <2> QED BY <1>0, <2>3, <2>4, <2>9, <2>10
<1> QED BY <1>1, <1>2

\* A row added behind rows of other ids is told apart from them.
LEMMA AppendedRow ==
  ASSUME NEW s \in Seq(CacheRow), Distinct(s),
         NEW row \in CacheRow, row.id \notin Ids(s)
  PROVE  /\ Append(s, row) \in Seq(CacheRow)
         /\ Distinct(Append(s, row))
         /\ Ids(Append(s, row)) = Ids(s) \cup {row.id}
         /\ Len(Append(s, row)) = Len(s) + 1
<1> DEFINE t == Append(s, row)
<1>1. /\ t \in Seq(CacheRow) /\ Len(t) = Len(s) + 1
      /\ \A i \in 1 .. Len(s) : t[i] = s[i]
      /\ t[Len(s) + 1] = row
  BY AppendProperties
<1>2. /\ Len(s) \in Nat /\ DOMAIN s = 1 .. Len(s)
      /\ DOMAIN t = 1 .. Len(s) + 1
  BY <1>1, LenProperties
<1> HIDE DEF t
<1>3. \A i \in DOMAIN s : t[i].id \in Ids(s) /\ i \in DOMAIN t
  BY <1>1, <1>2 DEF Ids
<1>4. \A i \in DOMAIN t : i \in DOMAIN s \/ i = Len(s) + 1
  BY <1>2
<1>5. Distinct(t)
  BY <1>1, <1>2, <1>3, <1>4 DEF Distinct
<1>6. Ids(t) = Ids(s) \cup {row.id}
  <2>1. Len(s) + 1 \in DOMAIN t
    BY <1>2
  <2>2. \A i \in DOMAIN t : t[i].id \in Ids(s) \cup {row.id}
    BY <1>1, <1>3, <1>4
  <2>3. Ids(s) \subseteq Ids(t)
    BY <1>1, <1>2, <1>3 DEF Ids
  <2> QED BY <1>1, <2>1, <2>2, <2>3 DEF Ids
<1> QED BY <1>1, <1>5, <1>6 DEF t

\* Dropping the oldest row keeps the rest, once each.
LEMMA OldestDropped ==
  ASSUME NEW s \in Seq(CacheRow), s # << >>, Distinct(s)
  PROVE  /\ Tail(s) \in Seq(CacheRow)
         /\ Distinct(Tail(s))
         /\ Ids(Tail(s)) \subseteq Ids(s)
         /\ Len(Tail(s)) = Len(s) - 1
<1> DEFINE t == Tail(s)
<1>1. /\ t \in Seq(CacheRow) /\ Len(t) = Len(s) - 1
      /\ \A i \in 1 .. Len(t) : t[i] = s[i + 1]
  BY HeadTailProperties
<1>2. /\ Len(s) \in Nat /\ DOMAIN s = 1 .. Len(s) /\ DOMAIN t = 1 .. Len(s) - 1
  BY <1>1, LenProperties
<1> HIDE DEF t
<1>3. \A i \in DOMAIN t : t[i] = s[i + 1] /\ i + 1 \in DOMAIN s
  BY <1>1, <1>2
<1>4. \A i, j \in DOMAIN t : i + 1 = j + 1 => i = j
  BY <1>2
<1>5. Distinct(t)
  BY <1>3, <1>4 DEF Distinct
<1>6. Ids(t) \subseteq Ids(s)
  BY <1>3 DEF Ids
<1> QED BY <1>1, <1>5, <1>6 DEF t

\* writeCache stays within the bound and answers for no id but the one written.
LEMMA WrittenRow ==
  ASSUME ResolverTypeOK, NEW row \in CacheRow
  PROVE  /\ Written(row) \in Seq(CacheRow) /\ Len(Written(row)) <= MaxEntries
         /\ Distinct(Written(row))
         /\ Ids(Written(row)) \subseteq Ids(cache) \cup {row.id}
<1> DEFINE w == Without(row.id)
           all == Append(w, row)
<1>1. cache \in Seq(CacheRow) /\ Distinct(cache) /\ Len(cache) <= MaxEntries
  BY DEF ResolverTypeOK, Distinct
<1>2. /\ w \in Seq(CacheRow) /\ Distinct(w)
      /\ Ids(w) = Ids(cache) \ {row.id} /\ Len(w) <= Len(cache)
  BY <1>1, WithoutId
<1> HIDE DEF w
<1>3. /\ all \in Seq(CacheRow) /\ Distinct(all)
      /\ Ids(all) = Ids(w) \cup {row.id} /\ Len(all) = Len(w) + 1
  BY <1>2, AppendedRow
<1>4. all # << >>
  BY <1>2, AppendProperties
<1> HIDE DEF all
<1>5. /\ Tail(all) \in Seq(CacheRow) /\ Distinct(Tail(all))
      /\ Ids(Tail(all)) \subseteq Ids(all) /\ Len(Tail(all)) = Len(all) - 1
  BY <1>3, <1>4, OldestDropped
<1>6. Written(row) = IF Len(all) > MaxEntries THEN Tail(all) ELSE all
  BY DEF Written, all, w
<1>7. Len(cache) \in Nat /\ Len(w) \in Nat /\ MaxEntries \in Nat
  BY <1>1, <1>2, LenProperties, ResolverAssumption
<1>8. Ids(all) \subseteq Ids(cache) \cup {row.id}
  BY <1>2, <1>3
<1>9. CASE Len(all) > MaxEntries
  BY <1>1, <1>2, <1>3, <1>5, <1>6, <1>7, <1>8, <1>9
<1>10. CASE ~(Len(all) > MaxEntries)
  BY <1>1, <1>2, <1>3, <1>6, <1>7, <1>8, <1>10
<1> QED BY <1>9, <1>10

-----------------------------------------------------------------------------
(* The invariant.  A flight in progress goes with no answer in the cache,   *)
(* for its own id and for every id aborted: FetchSucceeds, FetchFails and   *)
(* the shutdown rely on it.  The flights are counted, so they are finite    *)
(* however many clients there are.                                          *)

ResolverInv ==
    /\ ResolverTypeOK
    /\ IsFiniteSet(Flying)
    /\ FlightsExact
    /\ CacheHonest

\* A row answers for an id if the id is among the cache's.
LEMMA RowsAreIds == \A id : RowsOf(id) = {} <=> id \notin Ids(cache)
  BY DEF RowsOf, ToSet, Ids

\* The resolver opens with no flight and no answer.
LEMMA InitResolver == ResolverInit => ResolverInv
<1> SUFFICES ASSUME ResolverInit PROVE ResolverInv
  OBVIOUS
<1> USE DEF ResolverInit
<1>1. cache \in Seq(CacheRow) /\ Len(cache) = 0 /\ DOMAIN cache = {}
  <2>1. << >> \in Seq(CacheRow) /\ Len(<< >>) = 0
    BY EmptySeq
  <2> QED BY <2>1, LenProperties
<1>2. ResolverTypeOK
  BY <1>1, ResolverAssumption DEF ResolverTypeOK
<1>3. Flying = {} /\ IsFiniteSet(Flying) /\ Cardinality(Flying) = 0
  BY FS_EmptySet DEF Flying
<1>4. FlightsExact
  BY <1>3, ResolverAssumption DEF FlightsExact
<1>5. CacheHonest
  BY DEF CacheHonest
<1> QED BY <1>2, <1>3, <1>4, <1>5 DEF ResolverInv

\* The cache after each step, as far as the invariant reads it.
CacheStep ==
    /\ cache' \in Seq(CacheRow) /\ Len(cache') <= MaxEntries
    /\ Distinct(cache')

\* A miss deletes the stale row of its id and no other.
LEMMA MissKeeps ==
  ASSUME ResolverInv, NEW q \in Caller, NEW id \in ClientId, Miss(q, id)
  PROVE  CacheStep /\ Ids(cache') = Ids(cache) \ {id} /\ state = "open"
<1>1. cache \in Seq(CacheRow) /\ Distinct(cache) /\ Len(cache) <= MaxEntries
  BY DEF ResolverInv, ResolverTypeOK, Distinct
<1>2. cache' = Without(id) /\ state = "open"
  BY DEF Miss
<1>3. /\ cache' \in Seq(CacheRow) /\ Distinct(cache')
      /\ Ids(cache') = Ids(cache) \ {id} /\ Len(cache') <= Len(cache)
  BY <1>1, <1>2, WithoutId
<1>4. Len(cache) \in Nat /\ Len(cache') \in Nat
  BY <1>1, <1>3, LenProperties
<1> QED BY <1>1, <1>2, <1>3, <1>4, ResolverAssumption DEF CacheStep

\* What settles a flight writes for that flight's id, and only if it may.
LEMMA SettleKeeps ==
  ASSUME ResolverInv, NEW id \in ClientId, NEW row \in CacheRow, row.id = id,
         cache' = IF Cacheable(id) THEN Written(row) ELSE cache
  PROVE  /\ CacheStep
         /\ Ids(cache') \subseteq Ids(cache) \cup {id}
         /\ ~Cacheable(id) => cache' = cache
<1>1. /\ ResolverTypeOK /\ cache \in Seq(CacheRow) /\ Distinct(cache)
      /\ Len(cache) <= MaxEntries
  BY DEF ResolverInv, ResolverTypeOK, Distinct
<1>2. CASE Cacheable(id)
  BY <1>1, <1>2, WrittenRow DEF CacheStep
<1>3. CASE ~Cacheable(id)
  BY <1>1, <1>3 DEF CacheStep
<1> QED BY <1>2, <1>3

\* Every step of the resolver preserves the invariant.
LEMMA ResolverStep == ResolverInv /\ [ResolverNext]_resolverVars => ResolverInv'
<1> SUFFICES ASSUME ResolverInv, [ResolverNext]_resolverVars PROVE ResolverInv'
  OBVIOUS
<1>t. /\ state \in {"open", "closing", "closed"}
      /\ cache \in Seq(CacheRow) /\ Len(cache) <= MaxEntries
      /\ Distinct(cache)
      /\ flights \in [ClientId -> {"none", "fetching", "settled"}]
      /\ aborted \in SUBSET ClientId
      /\ inFlight \in Nat
      /\ waiting \in [Caller -> ClientId \cup {Null}]
  BY DEF ResolverInv, ResolverTypeOK, Distinct
<1>f. /\ IsFiniteSet(Flying) /\ inFlight = Cardinality(Flying) /\ inFlight <= MaxInFlight
      /\ \A q \in Caller : waiting[q] # Null => flights[waiting[q]] # "none"
      /\ \A id \in ClientId : flights[id] = "fetching" => id \notin Ids(cache)
  BY RowsAreIds DEF ResolverInv, FlightsExact
<1>h. /\ state # "open" => cache = << >>
      /\ \A id \in aborted : id \notin Ids(cache)
  BY RowsAreIds DEF ResolverInv, CacheHonest
<1>n. MaxInFlight \in Nat /\ MaxEntries \in Nat /\ Null \notin ClientId
  BY ResolverAssumption
<1>e. << >> \in Seq(CacheRow) /\ Len(<< >>) = 0 /\ DOMAIN << >> = {}
  <2>1. << >> \in Seq(CacheRow) /\ Len(<< >>) = 0
    BY EmptySeq
  <2> QED BY <2>1, LenProperties
\* The six facts the invariant is made of, for the state after a step.
<1>q. ASSUME state' \in {"open", "closing", "closed"}, CacheStep,
             flights' \in [ClientId -> {"none", "fetching", "settled"}],
             aborted' \in SUBSET ClientId, inFlight' \in Nat,
             waiting' \in [Caller -> ClientId \cup {Null}],
             IsFiniteSet(Flying)', inFlight' = Cardinality(Flying)',
             inFlight' <= MaxInFlight,
             \A q \in Caller : waiting'[q] # Null => flights'[waiting'[q]] # "none",
             \A id \in ClientId : flights'[id] = "fetching" => id \notin Ids(cache'),
             state' # "open" => cache' = << >>,
             \A id \in aborted' : id \notin Ids(cache')
      PROVE  ResolverInv'
  <2>1. \A id : RowsOf(id)' = {} <=> id \notin Ids(cache')
    BY DEF RowsOf, ToSet, Ids
  <2>2. ResolverTypeOK'
    BY <1>q DEF ResolverTypeOK, CacheStep, Distinct
  <2>3. FlightsExact'
    BY <1>q, <2>1 DEF FlightsExact
  <2>4. CacheHonest'
    BY <1>q, <2>1 DEF CacheHonest
  <2> QED BY <1>q, <2>2, <2>3, <2>4 DEF ResolverInv
<1>s. flights' = flights => IsFiniteSet(Flying)' /\ Cardinality(Flying)' = inFlight
  BY <1>f DEF Flying
<1>1. ASSUME NEW q \in Caller, NEW id \in ClientId, CacheHit(q, id)
      PROVE  ResolverInv'
  <2>1. PICK r \in RowsOf(id) : r.left > 0 /\ cache' = Append(Without(id), r)
    BY <1>1 DEF CacheHit
  <2>2. r \in CacheRow /\ r.id = id /\ id \in Ids(cache)
    <3>1. PICK i \in DOMAIN cache : r = cache[i] /\ r.id = id
      BY <2>1 DEF RowsOf, ToSet
    <3>2. cache[i] \in CacheRow
      BY <1>t, ElementOfSeq, LenProperties
    <3> QED BY <3>1, <3>2 DEF Ids
  <2>3. /\ Without(id) \in Seq(CacheRow) /\ Distinct(Without(id))
        /\ Ids(Without(id)) = Ids(cache) \ {id}
        /\ Len(Without(id)) < Len(cache)
    BY <1>t, <2>2, WithoutId
  <2>4. /\ cache' \in Seq(CacheRow) /\ Distinct(cache')
        /\ Ids(cache') = Ids(Without(id)) \cup {id}
        /\ Len(cache') = Len(Without(id)) + 1
    BY <2>1, <2>2, <2>3, AppendedRow
  <2>5. Len(cache) \in Nat /\ Len(Without(id)) \in Nat
    BY <1>t, <2>3, LenProperties
  <2>6. CacheStep
    BY <1>t, <1>n, <2>3, <2>4, <2>5 DEF CacheStep
  <2>7. Ids(cache') = Ids(cache)
    BY <2>2, <2>3, <2>4
  <2>8. state = "open" /\ UNCHANGED <<state, flights, aborted, inFlight, waiting>>
    BY <1>1 DEF CacheHit
  <2> QED BY <1>t, <1>f, <1>h, <1>s, <2>6, <2>7, <2>8, <1>q
<1>2. ASSUME NEW q \in Caller, NEW id \in ClientId, JoinFlight(q, id)
      PROVE  ResolverInv'
  <2>1. CacheStep /\ Ids(cache') = Ids(cache) \ {id} /\ state = "open"
    BY <1>2, MissKeeps DEF JoinFlight
  <2>2. /\ flights[id] # "none" /\ waiting' = [waiting EXCEPT ![q] = id]
        /\ UNCHANGED <<state, flights, aborted, inFlight>>
    BY <1>2 DEF JoinFlight
  <2>3. /\ waiting' \in [Caller -> ClientId \cup {Null}]
        /\ \A p \in Caller : waiting'[p] # Null => flights'[waiting'[p]] # "none"
    BY <1>t, <1>f, <2>2
  <2> QED BY <1>t, <1>f, <1>h, <1>s, <2>1, <2>2, <2>3, <1>q
<1>3. ASSUME NEW q \in Caller, NEW id \in ClientId, RefuseMiss(q, id)
      PROVE  ResolverInv'
  <2>1. CacheStep /\ Ids(cache') = Ids(cache) \ {id} /\ state = "open"
    BY <1>3, MissKeeps DEF RefuseMiss
  <2>2. UNCHANGED <<state, flights, aborted, inFlight, waiting>>
    BY <1>3 DEF RefuseMiss
  <2> QED BY <1>t, <1>f, <1>h, <1>s, <2>1, <2>2, <1>q
<1>4. ASSUME NEW q \in Caller, NEW id \in ClientId, StartFlight(q, id)
      PROVE  ResolverInv'
  <2>1. CacheStep /\ Ids(cache') = Ids(cache) \ {id} /\ state = "open"
    BY <1>4, MissKeeps DEF StartFlight
  <2>2. /\ flights[id] = "none" /\ inFlight < MaxInFlight
        /\ inFlight' = inFlight + 1
        /\ flights' = [flights EXCEPT ![id] = "fetching"]
        /\ waiting' = [waiting EXCEPT ![q] = id]
        /\ UNCHANGED <<state, aborted>>
    BY <1>4 DEF StartFlight, RoomForFlight
  <2>3. flights' \in [ClientId -> {"none", "fetching", "settled"}]
    BY <1>t, <2>2
  <2>4. IsFiniteSet(Flying)' /\ Cardinality(Flying)' = inFlight + 1
    <3>1. Flying' = Flying \cup {id} /\ id \notin Flying
      BY <1>t, <2>2 DEF Flying
    <3> QED BY <1>f, <3>1, FS_AddElement
  <2>5. inFlight' \in Nat /\ inFlight' <= MaxInFlight
    BY <1>t, <1>n, <2>2
  <2>6. waiting' \in [Caller -> ClientId \cup {Null}]
    BY <1>t, <2>2
  <2>7. \A p \in Caller : waiting'[p] # Null => flights'[waiting'[p]] # "none"
    <3> SUFFICES ASSUME NEW p \in Caller, waiting'[p] # Null
                 PROVE  flights'[waiting'[p]] # "none"
      OBVIOUS
    <3>1. CASE p = q
      BY <1>t, <2>2, <3>1
    <3>2. CASE p # q
      BY <1>t, <1>f, <2>2, <3>2
    <3> QED BY <3>1, <3>2
  <2>8. \A i \in ClientId : flights'[i] = "fetching" => i \notin Ids(cache')
    BY <1>t, <1>f, <2>1, <2>2
  <2> QED BY <1>t, <1>h, <2>1, <2>2, <2>3, <2>4, <2>5, <2>6, <2>7, <2>8, <1>q
<1>5. ASSUME NEW id \in ClientId, Timeout(id)
      PROVE  ResolverInv'
  <2>1. /\ flights[id] = "fetching" /\ aborted' = aborted \cup {id}
        /\ UNCHANGED <<state, cache, flights, inFlight, waiting>>
    BY <1>5 DEF Timeout
  <2> QED BY <1>t, <1>f, <1>h, <1>s, <2>1, <1>q DEF CacheStep
\* Either way a flight settles.
<1>6. ASSUME NEW id \in ClientId, NEW row \in CacheRow, row.id = id,
             flights[id] = "fetching",
             flights' = [flights EXCEPT ![id] = "settled"],
             cache' = IF Cacheable(id) THEN Written(row) ELSE cache,
             UNCHANGED <<state, aborted, inFlight, waiting>>
      PROVE  ResolverInv'
  <2>1. /\ CacheStep /\ Ids(cache') \subseteq Ids(cache) \cup {id}
        /\ ~Cacheable(id) => cache' = cache
    BY <1>6, SettleKeeps
  <2>2. flights' \in [ClientId -> {"none", "fetching", "settled"}]
    BY <1>t, <1>6
  <2>3. IsFiniteSet(Flying)' /\ Cardinality(Flying)' = inFlight
    <3>1. Flying' = Flying
      BY <1>t, <1>6 DEF Flying
    <3> QED BY <1>f, <3>1
  <2>4. \A p \in Caller : waiting'[p] # Null => flights'[waiting'[p]] # "none"
    <3> SUFFICES ASSUME NEW p \in Caller, waiting'[p] # Null
                 PROVE  flights'[waiting'[p]] # "none"
      OBVIOUS
    <3>1. waiting[p] \in ClientId /\ flights[waiting[p]] # "none"
      BY <1>t, <1>f, <1>6
    <3> QED BY <1>t, <1>6, <3>1
  <2>5. \A i \in ClientId : flights'[i] = "fetching" => i \notin Ids(cache')
    BY <1>t, <1>f, <1>6, <2>1
  <2>6. state' # "open" => cache' = << >>
    BY <1>h, <1>6, <2>1 DEF Cacheable
  <2>7. \A i \in aborted' : i \notin Ids(cache')
    <3>1. CASE Cacheable(id)
      BY <1>h, <1>6, <2>1, <3>1 DEF Cacheable
    <3>2. CASE ~Cacheable(id)
      BY <1>h, <1>6, <2>1, <3>2
    <3> QED BY <3>1, <3>2
  <2> QED BY <1>t, <1>f, <1>6, <2>1, <2>2, <2>3, <2>4, <2>5, <2>6, <2>7, <1>q
<1>7. ASSUME NEW id \in ClientId, NEW ttl \in PositiveTTL, FetchSucceeds(id, ttl)
      PROVE  ResolverInv'
  <2> DEFINE row == [id |-> id, kind |-> "positive", left |-> ttl]
  <2>1. row \in CacheRow /\ row.id = id
    BY ResolverAssumption DEF CacheRow
  <2> QED BY <1>6, <1>7, <2>1 DEF FetchSucceeds
<1>8. ASSUME NEW id \in ClientId, FetchFails(id)
      PROVE  ResolverInv'
  <2> DEFINE row == [id |-> id, kind |-> "negative", left |-> NegativeTTL]
  <2>1. row \in CacheRow /\ row.id = id
    BY ResolverAssumption DEF CacheRow
  <2> QED BY <1>6, <1>8, <2>1 DEF FetchFails
<1>9. ASSUME NEW id \in ClientId, FinishFlight(id)
      PROVE  ResolverInv'
  <2>1. /\ flights[id] = "settled" /\ flights' = [flights EXCEPT ![id] = "none"]
        /\ aborted' = aborted \ {id} /\ inFlight' = inFlight - 1
        /\ waiting' = [p \in Caller |-> IF waiting[p] = id THEN Null ELSE waiting[p]]
        /\ UNCHANGED <<state, cache>>
    BY <1>9 DEF FinishFlight
  <2>2. flights' \in [ClientId -> {"none", "fetching", "settled"}]
    BY <1>t, <2>1
  <2>3. IsFiniteSet(Flying)' /\ Cardinality(Flying)' = inFlight - 1
    <3>1. Flying' = Flying \ {id} /\ id \in Flying
      BY <1>t, <2>1 DEF Flying
    <3> QED BY <1>f, <3>1, FS_RemoveElement
  <2>4. Cardinality(Flying)' \in Nat
    BY <2>3, FS_CardinalityType
  <2>5. inFlight' \in Nat /\ inFlight' <= MaxInFlight
    BY <1>t, <1>f, <1>n, <2>1, <2>3, <2>4
  <2>6. waiting' \in [Caller -> ClientId \cup {Null}]
    BY <1>t, <2>1
  <2>7. \A p \in Caller : waiting'[p] # Null => flights'[waiting'[p]] # "none"
    <3> SUFFICES ASSUME NEW p \in Caller, waiting'[p] # Null
                 PROVE  flights'[waiting'[p]] # "none"
      OBVIOUS
    <3>1. waiting'[p] = waiting[p] /\ waiting[p] # id /\ waiting[p] \in ClientId
      BY <1>t, <2>1
    <3> QED BY <1>t, <1>f, <2>1, <3>1
  <2>8. \A i \in ClientId : flights'[i] = "fetching" => i \notin Ids(cache')
    BY <1>t, <1>f, <2>1
  <2>9. CacheStep
    BY <1>t, <2>1 DEF CacheStep
  <2> QED BY <1>t, <1>f, <1>h, <2>1, <2>2, <2>3, <2>5, <2>6, <2>7, <2>8, <2>9, <1>q
<1>10. CASE Close
  <2>1. /\ state' = "closing" /\ cache' = << >> /\ aborted' = aborted \cup Flying
        /\ UNCHANGED <<flights, inFlight, waiting>>
    BY <1>10 DEF Close
  <2>2. CacheStep /\ Ids(cache') = {}
    BY <1>e, <1>n, <2>1 DEF CacheStep, Distinct, Ids
  <2>3. aborted' \in SUBSET ClientId
    BY <1>t, <2>1 DEF Flying
  <2> QED BY <1>t, <1>f, <1>s, <2>1, <2>2, <2>3, <1>q
<1>11. CASE CloseDone
  <2>1. /\ state' = "closed" /\ cache' = << >>
        /\ UNCHANGED <<flights, aborted, inFlight, waiting>>
    BY <1>11 DEF CloseDone
  <2>2. CacheStep /\ Ids(cache') = {}
    BY <1>e, <1>n, <2>1 DEF CacheStep, Distinct, Ids
  <2> QED BY <1>t, <1>f, <1>s, <2>1, <2>2, <1>q
<1>12. CASE Tick
  <2>1. /\ cache' = [i \in DOMAIN cache |-> Aged(cache[i])]
        /\ UNCHANGED <<state, flights, aborted, inFlight, waiting>>
    BY <1>12 DEF Tick
  <2>2. Len(cache) \in Nat /\ DOMAIN cache = 1 .. Len(cache)
    BY <1>t, LenProperties
  <2>3. \A r \in CacheRow : Aged(r) \in CacheRow /\ Aged(r).id = r.id
    BY DEF CacheRow, Aged
  <2>4. \A i \in DOMAIN cache : cache'[i] \in CacheRow /\ cache'[i].id = cache[i].id
    <3>1. \A i \in DOMAIN cache : cache[i] \in CacheRow
      BY <1>t, <2>2, ElementOfSeq
    <3> QED BY <2>1, <2>3, <3>1
  <2>5. cache' \in Seq(CacheRow) /\ Len(cache') = Len(cache) /\ DOMAIN cache' = DOMAIN cache
    <3>1. cache' \in [1 .. Len(cache) -> CacheRow]
      BY <2>1, <2>2, <2>4
    <3>2. cache' \in Seq(CacheRow)
      BY <2>2, <3>1
    <3> QED BY <2>1, <2>2, <3>1, <3>2, LenProperties
  <2>6. CacheStep /\ Ids(cache') = Ids(cache)
    <3>1. Distinct(cache')
      BY <1>t, <2>4, <2>5 DEF Distinct
    <3> QED BY <1>t, <2>4, <2>5, <3>1 DEF CacheStep, Ids
  <2>7. state' # "open" => cache' = << >>
    <3>1. state # "open" => DOMAIN cache = {}
      BY <1>e, <1>h
    <3>2. state # "open" => cache' = cache
      BY <1>h, <1>e, <2>1, <3>1
    <3> QED BY <1>h, <2>1, <3>2
  <2> QED BY <1>t, <1>f, <1>h, <1>s, <2>1, <2>6, <2>7, <1>q
<1>13. CASE UNCHANGED resolverVars
  BY <1>t, <1>f, <1>h, <1>s, <1>13, <1>q DEF CacheStep, resolverVars
<1> QED BY <1>1, <1>2, <1>3, <1>4, <1>5, <1>7, <1>8, <1>9, <1>10, <1>11, <1>12, <1>13
        DEF ResolverNext

\* The invariant holds of every behaviour of the resolver.
THEOREM ResolverIsSound == ResolverSpec => []ResolverInv
  BY InitResolver, ResolverStep, PTL DEF ResolverSpec

\* The counter that admits flights is the number of flights in the air, for any
\* number of clients: no success, failure, timeout or shutdown leaks a slot or gives
\* one back twice; and one miss costs one fetch (startFlight).
THEOREM FlightsAreExact == ResolverSpec => []FlightsExact
  BY ResolverIsSound, PTL DEF ResolverInv

\* Neither an aborted flight nor one that ends after close() began leaves an answer
\* in the cache (cacheSuccess, cacheFailure).
THEOREM CacheIsHonest == ResolverSpec => []CacheHonest
  BY ResolverIsSound, PTL DEF ResolverInv
=============================================================================

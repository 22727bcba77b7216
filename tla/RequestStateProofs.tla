-------------------------- MODULE RequestStateProofs --------------------------
(***************************************************************************)
(* Theorems about the state requests leave behind, for every value of the  *)
(* constants: who a request runs as and what it spends (AuthGate,          *)
(* SourceRateLimiter), the tabs of a session (BrowserTabs), the points of  *)
(* the memory store (MemoryStore).                                         *)
(***************************************************************************)
EXTENDS AuthGate, SourceRateLimiter, BrowserTabs, MemoryStore,
        SequenceTheorems, FiniteSetTheorems, TLAPS

-----------------------------------------------------------------------------
(* EventHistory: what the fixed windows of the limiters let through within *)
(* a sliding one.  The first event of an open window is as old as the      *)
(* window, so when it is over that event is forgotten: at most max - 1 of  *)
(* its events are left when the next one opens.                            *)

\* A set of naturals has a least one.
LEMMA LeastNatural ==
  ASSUME NEW S, S \subseteq Nat, S # {}
  PROVE  \E m \in S : \A p \in S : m <= p
  <1>1. PICK m \in S : \A p \in S : ~(<<p, m>> \in OpToRel(<, Nat))
    BY Zenon, NatLessThanWellFounded, WFMin
  <1>2. \A p \in S : ~(p < m)
    BY Zenon, <1>1 DEF OpToRel
  <1> QED
    BY <1>2

\* A history of at most `limit` events, within a window of `length`.
Events(past, limit, length) ==
    /\ past \subseteq (0 .. length - 1) \X (1 .. limit)
    /\ IsFiniteSet(past) /\ Cardinality(past) <= limit

Aged(past, from, to) == {q \in past : from <= q[1] /\ q[1] <= to}

\* Nothing to see of the windows before but less than their maximum.
Rested(past, max) == Cardinality(past) < max /\ Aged(past, 0, 0) = {}

\* A window opened `age` ago and let n events through, the first when it opened.
Tight(past, age, n, max, length) ==
    /\ Cardinality(Aged(past, 0, age)) <= n
    /\ Cardinality(Aged(past, 0, age - 1)) <= n - 1
    /\ Cardinality(Aged(past, age + 1, length - 1)) < max

\* At least n events since `age`.
Covered(past, age, n) == Cardinality(Aged(past, 0, age)) >= n

LEMMA AgedFinite ==
  ASSUME NEW P, IsFiniteSet(P), NEW a, NEW b
  PROVE  /\ Aged(P, a, b) \in SUBSET P /\ IsFiniteSet(Aged(P, a, b))
         /\ Cardinality(Aged(P, a, b)) \in Nat /\ Cardinality(P) \in Nat
         /\ Cardinality(Aged(P, a, b)) <= Cardinality(P)
  <1>1. Aged(P, a, b) \in SUBSET P
    BY DEF Aged
  <1> QED
    BY <1>1, FS_Subset, FS_CardinalityType

\* A part of a history by its ages is no larger than another that contains it.
LEMMA AgedWithin ==
  ASSUME NEW P, IsFiniteSet(P), NEW a, NEW b, NEW c, NEW d,
         Aged(P, a, b) \subseteq Aged(P, c, d)
  PROVE  Cardinality(Aged(P, a, b)) <= Cardinality(Aged(P, c, d))
  BY AgedFinite, FS_Subset

\* A history is what has at most some age and what is older.
LEMMA AgedSplit ==
  ASSUME NEW limit, NEW length \in Nat, NEW P, Events(P, limit, length), NEW e \in Int,
         0 <= e
  PROVE  Cardinality(P) =
           Cardinality(Aged(P, 0, e)) + Cardinality(Aged(P, e + 1, length - 1))
  <1> DEFINE A == Aged(P, 0, e)
             B == Aged(P, e + 1, length - 1)
  <1>1. P = A \cup B /\ A \cap B = {}
    <2>1. \A q \in P : q[1] \in Int /\ 0 <= q[1] /\ q[1] <= length - 1
      BY DEF Events
    <2> QED
      BY <2>1 DEF Aged
  <1>2. IsFiniteSet(A) /\ IsFiniteSet(B) /\ Cardinality(A) \in Nat /\ Cardinality(B) \in Nat
    BY AgedFinite DEF Events
  <1>3. Cardinality(A \cap B) = 0
    BY <1>1, FS_EmptySet
  <1> HIDE DEF A, B
  <1>4. Cardinality(A \cup B) = Cardinality(A) + Cardinality(B) - Cardinality(A \cap B)
    BY <1>2, FS_Union
  <1>5. Cardinality(P) = Cardinality(A) + Cardinality(B)
    BY <1>1, <1>2, <1>3, <1>4
  <1> QED
    BY <1>5 DEF A, B

\* A history that is not full has a number to spare.
LEMMA NumberToSpare ==
  ASSUME NEW limit \in Nat, NEW P, IsFiniteSet(P), Cardinality(P) < limit
  PROVE  \E k \in 1 .. limit : <<0, k>> \notin P
  <1> SUFFICES ASSUME \A k \in 1 .. limit : <<0, k>> \in P PROVE FALSE
    OBVIOUS
  <1> DEFINE f == [k \in 1 .. limit |-> <<0, k>>]
  <1>1. f \in Injection(1 .. limit, P)
    BY DEF Injection, IsInjective
  <1>2. IsFiniteSet(1 .. limit) /\ Cardinality(1 .. limit) = limit
    BY FS_Interval
  <1> HIDE DEF f
  <1>3. limit <= Cardinality(P)
    BY <1>1, <1>2, FS_Injection
  <1> QED
    BY <1>3, FS_CardinalityType

\* A full history has an oldest event.
LEMMA OldestFound ==
  ASSUME NEW limit \in Nat, NEW length \in Nat, NEW P, Events(P, limit, length), P # {}
  PROVE  Oldest(P) \in P /\ \A q \in P : q[1] <= Oldest(P)[1]
  <1> DEFINE ages == {length - q[1] : q \in P}
  <1>1. \A q \in P : /\ q[1] \in 0 .. length - 1 /\ q[2] \in 1 .. limit
                      /\ q = <<q[1], q[2]>>
    BY DEF Events
  <1>2. ages \subseteq Nat /\ ages # {}
    BY <1>1
  <1>3. PICK a \in P : \A q \in P : length - a[1] <= length - q[1]
    <2>1. PICK n \in ages : \A m \in ages : n <= m
      BY <1>2, LeastNatural
    <2> QED
      BY <2>1
  <1> DEFINE same == {q \in P : q[1] = a[1]}
             numbers == {limit - q[2] : q \in same}
  <1>4. numbers \subseteq Nat /\ numbers # {}
    BY <1>1
  <1>5. PICK b \in same : \A q \in same : limit - b[2] <= limit - q[2]
    <2>1. PICK n \in numbers : \A m \in numbers : n <= m
      BY <1>4, LeastNatural
    <2> QED
      BY <2>1
  <1>6. b \in P /\ \A q \in P \ {b} : Older(b, q)
    <2> SUFFICES ASSUME NEW q \in P \ {b} PROVE Older(b, q)
      OBVIOUS
    <2>1. /\ q[1] \in Nat /\ a[1] \in Nat /\ b[1] = a[1] /\ q[2] \in Nat /\ b[2] \in Nat
          /\ length - a[1] <= length - q[1] /\ q[1] <= a[1]
      BY <1>1, <1>3
    <2>2. CASE q[1] < a[1]
      BY <2>1, <2>2 DEF Older
    <2>3. CASE q[1] = a[1]
      <3>1. q \in same /\ limit - b[2] <= limit - q[2]
        BY <1>5, <2>3
      <3>2. q[2] <= b[2] /\ q[2] # b[2]
        <4>1. q[2] <= b[2]
          BY <2>1, <3>1
        <4>2. q = <<q[1], q[2]>> /\ b = <<b[1], b[2]>>
          BY <1>1
        <4> QED
          BY <2>1, <2>3, <4>1, <4>2
      <3> QED
        BY <2>1, <2>3, <3>2 DEF Older
    <2> QED
      BY <2>1, <2>2, <2>3
  <1>7. Oldest(P) \in P /\ \A q \in P \ {Oldest(P)} : Older(Oldest(P), q)
    BY <1>6 DEF Oldest
  <1> QED
    BY <1>1, <1>7 DEF Older

\* What recording an event does: to a history with room it adds a new one.
LEMMA RecordedAdds ==
  ASSUME NEW limit \in Nat \ {0}, NEW length \in Nat \ {0},
         NEW P, Events(P, limit, length), Cardinality(P) < limit
  PROVE  \E k \in 1 .. limit : <<0, k>> \notin P /\ Recorded(P, limit) = P \cup {<<0, k>>}
  <1>1. \E k \in 1 .. limit : <<0, k>> \notin P
    BY NumberToSpare DEF Events
  <1> QED
    BY <1>1 DEF Recorded

\* A full one it makes forget its oldest.
LEMMA RecordedForgets ==
  ASSUME NEW limit \in Nat \ {0}, NEW length \in Nat \ {0},
         NEW P, Events(P, limit, length), ~(Cardinality(P) < limit)
  PROVE  \E o \in P : \E k \in 1 .. limit :
           /\ \A q \in P : q[1] <= o[1]
           /\ <<0, k>> \notin P \ {o} /\ Recorded(P, limit) = (P \ {o}) \cup {<<0, k>>}
           /\ Cardinality(P) = limit /\ Cardinality(P \ {o}) = limit - 1
  <1>1. Cardinality(P) = limit
    BY FS_CardinalityType DEF Events
  <1>2. P # {}
    BY <1>1, FS_EmptySet
  <1>3. Oldest(P) \in P /\ \A q \in P : q[1] <= Oldest(P)[1]
    BY <1>2, OldestFound
  <1>4. IsFiniteSet(P \ {Oldest(P)}) /\ Cardinality(P \ {Oldest(P)}) = limit - 1
    BY <1>1, <1>3, FS_RemoveElement DEF Events
  <1>5. \E k \in 1 .. limit : <<0, k>> \notin P \ {Oldest(P)}
    BY <1>4, NumberToSpare
  <1> QED
    BY <1>1, <1>3, <1>4, <1>5 DEF Recorded

LEMMA RecordedType ==
  ASSUME NEW limit \in Nat \ {0}, NEW length \in Nat \ {0}, NEW P, Events(P, limit, length)
  PROVE  Events(Recorded(P, limit), limit, length)
  <1>1. CASE Cardinality(P) < limit
    <2>1. PICK k \in 1 .. limit : <<0, k>> \notin P /\ Recorded(P, limit) = P \cup {<<0, k>>}
      BY <1>1, RecordedAdds
    <2>2. /\ IsFiniteSet(P \cup {<<0, k>>}) /\ Cardinality(P) \in Nat
          /\ Cardinality(P \cup {<<0, k>>}) = Cardinality(P) + 1
      BY <2>1, FS_AddElement, FS_CardinalityType DEF Events
    <2>3. P \cup {<<0, k>>} \subseteq (0 .. length - 1) \X (1 .. limit)
      BY DEF Events
    <2>4. Cardinality(P \cup {<<0, k>>}) <= limit
      BY <1>1, <2>2
    <2> QED
      BY <2>1, <2>2, <2>3, <2>4 DEF Events
  <1>2. CASE ~(Cardinality(P) < limit)
    <2>1. PICK o \in P, k \in 1 .. limit :
             /\ <<0, k>> \notin P \ {o} /\ Recorded(P, limit) = (P \ {o}) \cup {<<0, k>>}
             /\ Cardinality(P \ {o}) = limit - 1
      BY <1>2, RecordedForgets
    <2> DEFINE R == (P \ {o}) \cup {<<0, k>>}
    <2>2. IsFiniteSet(P \ {o})
      BY FS_RemoveElement DEF Events
    <2>3. IsFiniteSet(R) /\ Cardinality(R) = limit
      BY <2>1, <2>2, FS_AddElement
    <2>4. R \subseteq (0 .. length - 1) \X (1 .. limit)
      BY DEF Events
    <2> QED
      BY <2>1, <2>3, <2>4 DEF Events
  <1> QED
    BY <1>1, <1>2

\* A recorded event counts among those of its age.
LEMMA AgedAdd ==
  ASSUME NEW P, IsFiniteSet(P), NEW e \in Nat, NEW k, <<0, k>> \notin P
  PROVE  /\ Cardinality(Aged(P \cup {<<0, k>>}, 0, e)) = Cardinality(Aged(P, 0, e)) + 1
         /\ \A b : Aged(P \cup {<<0, k>>}, e + 1, b) = Aged(P, e + 1, b)
  <1>1. Aged(P \cup {<<0, k>>}, 0, e) = Aged(P, 0, e) \cup {<<0, k>>}
    BY DEF Aged
  <1>2. <<0, k>> \notin Aged(P, 0, e)
    BY DEF Aged
  <1>3. \A b : Aged(P \cup {<<0, k>>}, e + 1, b) = Aged(P, e + 1, b)
    BY DEF Aged
  <1> QED
    BY <1>1, <1>2, <1>3, AgedFinite, FS_AddElement

LEMMA HitCovered ==
  ASSUME NEW limit \in Nat \ {0}, NEW length \in Nat \ {0},
         NEW P, Events(P, limit, length), NEW e \in Nat, NEW n \in Nat, NEW m \in Nat,
         Covered(P, e, n), m <= n + 1, m <= limit
  PROVE  Covered(Recorded(P, limit), e, m)
  <1> DEFINE R == Recorded(P, limit)
  <1>0. IsFiniteSet(P)
    BY DEF Events
  <1>1. CASE Cardinality(P) < limit
    <2>1. PICK k \in 1 .. limit : <<0, k>> \notin P /\ R = P \cup {<<0, k>>}
      BY <1>1, RecordedAdds
    <2>2. Cardinality(Aged(R, 0, e)) = Cardinality(Aged(P, 0, e)) + 1
      BY <1>0, <2>1, AgedAdd
    <2>3. Cardinality(Aged(P, 0, e)) \in Nat /\ Cardinality(Aged(P, 0, e)) >= n
      BY <1>0, AgedFinite DEF Covered
    <2> HIDE DEF R
    <2>4. Cardinality(Aged(R, 0, e)) >= m
      BY <2>2, <2>3
    <2> QED
      BY <2>4 DEF Covered, R
  <1>2. CASE ~(Cardinality(P) < limit)
    <2>1. PICK o \in P, k \in 1 .. limit :
             /\ \A q \in P : q[1] <= o[1]
             /\ <<0, k>> \notin P \ {o} /\ R = (P \ {o}) \cup {<<0, k>>}
             /\ Cardinality(P) = limit /\ Cardinality(P \ {o}) = limit - 1
      BY <1>2, RecordedForgets
    <2>2. IsFiniteSet(P \ {o})
      BY <1>0, FS_RemoveElement
    <2>3. Cardinality(Aged(R, 0, e)) = Cardinality(Aged(P \ {o}, 0, e)) + 1
      BY <2>1, <2>2, AgedAdd
    <2>4. \A q \in P : q[1] \in Int /\ 0 <= q[1]
      BY DEF Events
    <2>5. Cardinality(Aged(R, 0, e)) >= m
      <3>1. CASE o[1] <= e
        <4>1. Aged(P \ {o}, 0, e) = P \ {o}
          BY <2>1, <2>4, <3>1 DEF Aged
        <4>2. Cardinality(Aged(P \ {o}, 0, e)) = limit - 1
          BY <2>1, <4>1
        <4>3. Cardinality(Aged(R, 0, e)) = limit
          BY <2>3, <4>2
        <4> QED
          BY <4>3
      <3>2. CASE ~(o[1] <= e)
        <4>1. Aged(P \ {o}, 0, e) = Aged(P, 0, e)
          BY <3>2 DEF Aged
        <4>2. Cardinality(Aged(P, 0, e)) \in Nat /\ Cardinality(Aged(P, 0, e)) >= n
          BY <1>0, AgedFinite DEF Covered
        <4> QED
          BY <2>3, <4>1, <4>2
      <3> QED
        BY <3>1, <3>2
    <2> QED
      BY <2>5 DEF Covered
  <1> QED
    BY <1>1, <1>2

LEMMA OpensTight ==
  ASSUME NEW limit \in Nat \ {0}, NEW length \in Nat \ {0}, NEW max \in Nat \ {0},
         NEW P, Events(P, limit, length), Rested(P, max), max <= limit
  PROVE  Tight(Recorded(P, limit), 0, 1, max, length)
  <1>0. IsFiniteSet(P) /\ Cardinality(P) < limit
    BY FS_CardinalityType DEF Events, Rested
  <1>1. PICK k \in 1 .. limit : <<0, k>> \notin P /\ Recorded(P, limit) = P \cup {<<0, k>>}
    BY <1>0, RecordedAdds
  <1> DEFINE R == P \cup {<<0, k>>}
  <1>2. Cardinality(Aged(R, 0, 0)) = Cardinality(Aged(P, 0, 0)) + 1 /\ Cardinality(Aged(P, 0, 0)) = 0
    BY <1>0, <1>1, AgedAdd, FS_EmptySet DEF Rested
  <1>3. Cardinality(Aged(R, 0, 0 - 1)) = 0
    <2>1. Aged(R, 0, 0 - 1) = {}
      BY <1>1 DEF Aged, Events
    <2> QED
      BY <2>1, FS_EmptySet
  <1>4. Cardinality(Aged(R, 0 + 1, length - 1)) < max
    <2>1. Aged(R, 0 + 1, length - 1) = Aged(P, 0 + 1, length - 1)
      BY <1>0, <1>1, AgedAdd
    <2>2. Cardinality(P) < max
      BY DEF Rested
    <2>3. /\ Cardinality(Aged(P, 0 + 1, length - 1)) <= Cardinality(P)
          /\ Cardinality(P) \in Nat /\ Cardinality(Aged(P, 0 + 1, length - 1)) \in Nat
      BY <1>0, AgedFinite
    <2> QED
      BY <2>1, <2>2, <2>3
  <1> HIDE DEF R
  <1>5. Tight(R, 0, 1, max, length)
    BY <1>2, <1>3, <1>4 DEF Tight
  <1> QED
    BY <1>1, <1>5 DEF R

LEMMA HitTight ==
  ASSUME NEW limit \in Nat \ {0}, NEW length \in Nat \ {0}, NEW max \in Nat \ {0},
         NEW P, Events(P, limit, length), Cardinality(P) < limit,
         NEW e \in Nat, NEW n \in Nat \ {0}, Tight(P, e, n, max, length)
  PROVE  Tight(Recorded(P, limit), e, n + 1, max, length)
  <1>0. IsFiniteSet(P)
    BY DEF Events
  <1>1. PICK k \in 1 .. limit : <<0, k>> \notin P /\ Recorded(P, limit) = P \cup {<<0, k>>}
    BY RecordedAdds
  <1> DEFINE R == P \cup {<<0, k>>}
  <1>2. Cardinality(Aged(R, 0, e)) <= n + 1
    <2>1. Cardinality(Aged(R, 0, e)) = Cardinality(Aged(P, 0, e)) + 1
      BY <1>0, <1>1, AgedAdd
    <2>2. Cardinality(Aged(P, 0, e)) \in Nat /\ Cardinality(Aged(P, 0, e)) <= n
      BY <1>0, AgedFinite DEF Tight
    <2> QED
      BY <2>1, <2>2
  <1>3. Cardinality(Aged(R, 0, e - 1)) <= n
    <2>1. CASE e = 0
      <3>1. Aged(R, 0, e - 1) = {}
        BY <1>1, <2>1 DEF Aged, Events
      <3> QED
        BY <3>1, FS_EmptySet
    <2>2. CASE e # 0
      <3>1. e - 1 \in Nat
        BY <2>2
      <3>2. Cardinality(Aged(R, 0, e - 1)) = Cardinality(Aged(P, 0, e - 1)) + 1
        BY <1>0, <1>1, <3>1, AgedAdd
      <3>3. Cardinality(Aged(P, 0, e - 1)) \in Nat /\ Cardinality(Aged(P, 0, e - 1)) <= n - 1
        BY <1>0, AgedFinite DEF Tight
      <3> QED
        BY <3>2, <3>3
    <2> QED
      BY <2>1, <2>2
  <1>4. Cardinality(Aged(R, e + 1, length - 1)) < max
    BY <1>0, <1>1, AgedAdd DEF Tight
  <1> HIDE DEF R
  <1>5. Tight(R, e, n + 1, max, length)
    BY <1>2, <1>3, <1>4 DEF Tight
  <1> QED
    BY <1>1, <1>5 DEF R

\* An open window and what was before it.
LEMMA TightBound ==
  ASSUME NEW limit, NEW length \in Nat \ {0}, NEW max \in Nat \ {0},
         NEW P, Events(P, limit, length),
         NEW e \in Nat, NEW n \in Nat, n <= max, Tight(P, e, n, max, length)
  PROVE  Cardinality(P) <= 2 * max - 1
  <1> DEFINE a == Cardinality(Aged(P, 0, e))
             b == Cardinality(Aged(P, e + 1, length - 1))
  <1>1. Cardinality(P) = a + b
    BY AgedSplit
  <1>2. a <= n /\ b < max
    BY DEF Tight
  <1>3. a \in Nat /\ b \in Nat
    BY AgedFinite DEF Events
  <1> HIDE DEF a, b
  <1> QED
    BY <1>1, <1>2, <1>3

LEMMA ElderType ==
  ASSUME NEW limit \in Nat \ {0}, NEW length \in Nat \ {0}, NEW P, Events(P, limit, length)
  PROVE  Events(Elder(P, length), limit, length) /\ Cardinality(Elder(P, length)) <= Cardinality(P)
  <1> DEFINE kept == {q \in P : q[1] + 1 < length}
             f == [r \in kept |-> <<r[1] + 1, r[2]>>]
             E == Elder(P, length)
  <1>1. IsFiniteSet(kept) /\ Cardinality(kept) <= Cardinality(P)
    BY FS_Subset DEF Events
  <1>2. f \in Surjection(kept, E)
    BY DEF Surjection, Elder
  <1>3. E \subseteq (0 .. length - 1) \X (1 .. limit)
    BY DEF Elder, Events
  <1>4. Cardinality(P) \in Nat /\ Cardinality(kept) \in Nat /\ Cardinality(P) <= limit
    BY <1>1, FS_CardinalityType DEF Events
  <1> HIDE DEF f, kept, E
  <1>5. IsFiniteSet(E) /\ Cardinality(E) <= Cardinality(kept) /\ Cardinality(E) \in Nat
    BY <1>1, <1>2, FS_Surjection, FS_CardinalityType
  <1>6. Cardinality(E) <= Cardinality(P) /\ Cardinality(E) <= limit
    BY <1>1, <1>4, <1>5
  <1> QED
    BY <1>3, <1>5, <1>6 DEF E, Events

\* Time shifts the ages.
LEMMA ElderShifts ==
  ASSUME NEW limit \in Nat \ {0}, NEW length \in Nat \ {0}, NEW P, Events(P, limit, length),
         NEW a \in Int, NEW b \in Int, b + 1 < length
  PROVE  Cardinality(Aged(Elder(P, length), a + 1, b + 1)) = Cardinality(Aged(P, a, b))
  <1> DEFINE S == Aged(P, a, b)
             T == Aged(Elder(P, length), a + 1, b + 1)
             f == [r \in S |-> <<r[1] + 1, r[2]>>]
  <1>0. \A q \in P : q[1] \in Int /\ q = <<q[1], q[2]>>
    BY DEF Events
  <1>1. \A r \in S : <<r[1] + 1, r[2]>> \in T
    <2> SUFFICES ASSUME NEW r \in S PROVE <<r[1] + 1, r[2]>> \in T
      OBVIOUS
    <2>1. r \in P /\ r[1] \in Int /\ a <= r[1] /\ r[1] <= b
      BY <1>0 DEF Aged
    <2>2. r \in {q \in P : q[1] + 1 < length}
      BY <2>1
    <2>3. <<r[1] + 1, r[2]>> \in Elder(P, length)
      BY <2>2 DEF Elder
    <2> QED
      BY <2>1, <2>3 DEF Aged
  <1>2. \A t \in T : \E r \in S : t = <<r[1] + 1, r[2]>>
    <2> SUFFICES ASSUME NEW t \in T PROVE \E r \in S : t = <<r[1] + 1, r[2]>>
      OBVIOUS
    <2>1. PICK r \in P : t = <<r[1] + 1, r[2]>>
      BY DEF Aged, Elder
    <2>2. a + 1 <= r[1] + 1 /\ r[1] + 1 <= b + 1
      BY <2>1 DEF Aged
    <2>3. r \in S
      BY <1>0, <2>2 DEF Aged
    <2> QED
      BY <2>1, <2>3
  <1>3. \A r, q \in S : <<r[1] + 1, r[2]>> = <<q[1] + 1, q[2]>> => r = q
    <2>1. \A r, q \in S : r[1] + 1 = q[1] + 1 /\ r[2] = q[2] => r = q
      BY <1>0 DEF Aged
    <2> QED
      BY <2>1
  <1>4. IsFiniteSet(S)
    BY AgedFinite DEF Events
  <1> HIDE DEF S, T
  <1>5. f \in Surjection(S, T) /\ f \in Injection(S, T)
    BY <1>1, <1>2, <1>3 DEF Surjection, Injection, IsInjective
  <1> HIDE DEF f
  <1>6. Cardinality(T) = Cardinality(S)
    BY <1>4, <1>5, FS_Surjection
  <1> QED
    BY <1>6 DEF S, T

\* Nothing of the present is left.
LEMMA ElderLeavesNow ==
  ASSUME NEW limit \in Nat \ {0}, NEW length \in Nat \ {0}, NEW P, Events(P, limit, length)
  PROVE  \A b : Aged(Elder(P, length), 0, b) = Aged(Elder(P, length), 1, b)
  <1>1. \A q \in Elder(P, length) : q[1] \in Int /\ 1 <= q[1]
    BY DEF Elder, Events
  <1> QED
    BY <1>1 DEF Aged

LEMMA LaterCovered ==
  ASSUME NEW limit \in Nat \ {0}, NEW length \in Nat \ {0}, NEW P, Events(P, limit, length),
         NEW e \in Nat, e + 1 < length, NEW n, Covered(P, e, n)
  PROVE  Covered(Elder(P, length), e + 1, n)
  <1>1. Cardinality(Aged(Elder(P, length), 0 + 1, e + 1)) = Cardinality(Aged(P, 0, e))
    BY ElderShifts
  <1>2. Aged(Elder(P, length), 0, e + 1) = Aged(Elder(P, length), 0 + 1, e + 1)
    BY ElderLeavesNow
  <1> QED
    BY <1>1, <1>2 DEF Covered

LEMMA LaterTight ==
  ASSUME NEW limit \in Nat \ {0}, NEW length \in Nat \ {0}, NEW P, Events(P, limit, length),
         NEW e \in Nat, e + 1 < length, NEW n, NEW max \in Nat, Tight(P, e, n, max, length)
  PROVE  Tight(Elder(P, length), e + 1, n, max, length)
  <1> DEFINE E == Elder(P, length)
  <1>1. Cardinality(Aged(E, 0, e + 1)) = Cardinality(Aged(P, 0, e))
    <2>1. Cardinality(Aged(E, 0 + 1, e + 1)) = Cardinality(Aged(P, 0, e))
      BY ElderShifts
    <2> QED
      BY <2>1, ElderLeavesNow
  <1>2. Cardinality(Aged(E, 0, e)) = Cardinality(Aged(P, 0, e - 1))
    <2>1. Cardinality(Aged(E, 0 + 1, (e - 1) + 1)) = Cardinality(Aged(P, 0, e - 1))
      BY ElderShifts
    <2> QED
      BY <2>1, ElderLeavesNow
  <1>3. Cardinality(Aged(E, (e + 1) + 1, length - 1)) < max
    <2>1. Cardinality(Aged(E, (e + 1) + 1, (length - 2) + 1)) = Cardinality(Aged(P, e + 1, length - 2))
      BY ElderShifts
    <2>2. Aged(P, e + 1, length - 2) \subseteq Aged(P, e + 1, length - 1)
      BY DEF Aged, Events
    <2>3. Cardinality(Aged(P, e + 1, length - 2)) <= Cardinality(Aged(P, e + 1, length - 1))
      BY <2>2, AgedWithin DEF Events
    <2>4. /\ Cardinality(Aged(P, e + 1, length - 2)) \in Nat
          /\ Cardinality(Aged(P, e + 1, length - 1)) \in Nat
          /\ Cardinality(Aged(P, e + 1, length - 1)) < max
      BY AgedFinite DEF Events, Tight
    <2>5. Cardinality(Aged(E, (e + 1) + 1, (length - 2) + 1)) < max
      BY <2>1, <2>3, <2>4
    <2> QED
      BY <2>5
  <1>4. Cardinality(Aged(P, 0, e)) <= n /\ Cardinality(Aged(P, 0, e - 1)) <= n - 1
    BY DEF Tight
  <1>5. e + 1 - 1 = e
    OBVIOUS
  <1> HIDE DEF E
  <1>6. Tight(E, e + 1, n, max, length)
    BY <1>1, <1>2, <1>3, <1>4, <1>5 DEF Tight
  <1> QED
    BY <1>6 DEF E

\* Of what is forgotten, all but the last tick's is left.
LEMMA ElderKeeps ==
  ASSUME NEW limit \in Nat \ {0}, NEW length \in Nat \ {0}, NEW P, Events(P, limit, length)
  PROVE  /\ Cardinality(Elder(P, length)) = Cardinality(Aged(P, 0, length - 2))
         /\ Aged(Elder(P, length), 0, 0) = {}
  <1> DEFINE E == Elder(P, length)
  <1>1. Cardinality(Aged(E, 0 + 1, (length - 2) + 1)) = Cardinality(Aged(P, 0, length - 2))
    BY ElderShifts
  <1>2. E = Aged(E, 0 + 1, (length - 2) + 1) /\ Aged(E, 0, 0) = {}
    <2>1. \A q \in E : q[1] \in Int /\ 1 <= q[1] /\ q[1] <= length - 1
      BY DEF Elder, Events
    <2> HIDE DEF E
    <2> QED
      BY <2>1 DEF Aged
  <1> QED
    BY <1>1, <1>2

\* A window that ends leaves less than its maximum behind.
LEMMA EndRests ==
  ASSUME NEW limit \in Nat \ {0}, NEW length \in Nat \ {0}, NEW P, Events(P, limit, length),
         NEW n \in Nat, NEW max \in Nat, n <= max, Tight(P, length - 1, n, max, length)
  PROVE  Rested(Elder(P, length), max)
  <1>1. Cardinality(Aged(P, 0, length - 2)) <= n - 1
    <2>1. length - 1 - 1 = length - 2
      OBVIOUS
    <2> QED
      BY <2>1 DEF Tight
  <1>2. Cardinality(Aged(P, 0, length - 2)) \in Nat
    BY AgedFinite DEF Events
  <1>3. Cardinality(Elder(P, length)) < max
    BY <1>1, <1>2, ElderKeeps
  <1> QED
    BY <1>3, ElderKeeps DEF Rested

LEMMA RestedLater ==
  ASSUME NEW limit \in Nat \ {0}, NEW length \in Nat \ {0}, NEW P, Events(P, limit, length),
         NEW max \in Nat, Rested(P, max)
  PROVE  Rested(Elder(P, length), max)
  <1>1. /\ Cardinality(Aged(P, 0, length - 2)) <= Cardinality(P)
        /\ Cardinality(Aged(P, 0, length - 2)) \in Nat /\ Cardinality(P) \in Nat
    BY AgedFinite DEF Events
  <1>2. Cardinality(Elder(P, length)) < max
    BY <1>1, ElderKeeps DEF Rested
  <1> QED
    BY <1>2, ElderKeeps DEF Rested

-----------------------------------------------------------------------------
(* AuthGate: who a request runs as *)

\* The revocation list changes at a restart only, and that ends every verification:
\* what was tested before the await still holds after it.
PendingUnrevoked ==
    /\ pending \in [Pending -> Jwt \cup {Free}]
    /\ \A r \in Pending : pending[r] # Free => pending[r] \notin revoked

OwnerInv == PendingUnrevoked /\ ServedToOwner

LEMMA NobodyServed ==
  ASSUME NEW status, NEW bearer, Ends(status, Nobody, bearer) PROVE ServedToOwner'
  BY DEF Ends, ServedToOwner

LEMMA NothingServed == outcome' = NoOutcome => ServedToOwner'
  BY DEF NoOutcome, ServedToOwner

LEMMA PendingKept ==
  PendingUnrevoked /\ UNCHANGED <<pending, revoked>> => PendingUnrevoked'
  BY DEF PendingUnrevoked

LEMMA StaticOwner ==
  ASSUME OwnerInv, NEW t \in Token, StaticRequest(t)
  PROVE  OwnerInv'
  <1>1. PendingUnrevoked'
    BY PendingKept DEF StaticRequest, OwnerInv
  <1>2. CASE StaticUser(t) = Nobody
    BY <1>1, <1>2, NobodyServed DEF StaticRequest, Rejected, OwnerInv
  <1>3. CASE StaticUser(t) # Nobody
    <2>1. t \notin revoked /\ tokens[t] = StaticUser(t)
      BY <1>3 DEF StaticUser
    <2>2. outcome'.user = StaticUser(t) /\ outcome'.bearer = t
      BY <1>3 DEF StaticRequest, Authenticated, Ends
    <2>3. UNCHANGED <<tokens, revoked>>
      BY DEF StaticRequest
    <2> QED
      BY <1>1, <2>1, <2>2, <2>3 DEF OwnerInv, ServedToOwner
  <1> QED
    BY <1>1, <1>2, <1>3 DEF OwnerInv

LEMMA JwtOwner ==
  ASSUME OwnerInv, NEW r \in Pending, NEW j \in Jwt, JwtRequest(r, j)
  PROVE  OwnerInv'
  <1>1. CASE j \in revoked
    BY <1>1, NobodyServed, PendingKept DEF JwtRequest, Rejected, OwnerInv
  <1>2. CASE j \notin revoked
    <2>1. pending' = [pending EXCEPT ![r] = j] /\ revoked' = revoked /\ outcome' = NoOutcome
      BY <1>2 DEF JwtRequest
    <2>2. PendingUnrevoked'
      BY <1>2, <2>1 DEF OwnerInv, PendingUnrevoked
    <2> QED
      BY <2>1, <2>2, NothingServed DEF OwnerInv
  <1> QED
    BY <1>1, <1>2

LEMMA VerifiedOwner ==
  ASSUME OwnerInv, NEW r \in Pending, Verified(r)
  PROVE  OwnerInv'
  <1> DEFINE j == pending[r]
  <1>1. j \in Jwt /\ j \notin revoked
    BY DEF Verified, OwnerInv, PendingUnrevoked
  <1>2. pending' = [pending EXCEPT ![r] = Free] /\ UNCHANGED <<tokens, revoked, expired>>
    BY DEF Verified
  <1>3. PendingUnrevoked'
    BY <1>2 DEF OwnerInv, PendingUnrevoked
  <1>4. CASE Accepted(j)
    <2>1. outcome'.user = Claims[j].sub /\ outcome'.bearer = j
      BY <1>4 DEF Verified, Authenticated, Ends
    <2> QED
      BY <1>1, <1>2, <1>3, <1>4, <2>1 DEF OwnerInv, ServedToOwner, Accepted
  <1>5. CASE ~Accepted(j)
    BY <1>3, <1>5, NobodyServed DEF Verified, Rejected, OwnerInv
  <1> QED
    BY <1>4, <1>5

LEMMA OwnerStep == OwnerInv /\ GateNext => OwnerInv'
  <1> SUFFICES ASSUME OwnerInv, GateNext PROVE OwnerInv'
    OBVIOUS
  <1>1. CASE PublicRequest
    BY <1>1, NobodyServed, PendingKept DEF PublicRequest, OwnerInv
  <1>2. ASSUME NEW i \in Ip, BareRequest(i) PROVE OwnerInv'
    <2>1. Ends(401, Nobody, Free) \/ Ends(429, Nobody, Free)
      BY <1>2 DEF BareRequest
    <2> QED
      BY <1>2, <2>1, NobodyServed, PendingKept DEF BareRequest, OwnerInv
  <1>3. ASSUME NEW j \in Jwt, JwtExpires(j) PROVE OwnerInv'
    BY <1>3, NothingServed, PendingKept DEF JwtExpires, OwnerInv
  <1>4. CASE GateTick
    BY <1>4, NothingServed, PendingKept DEF GateTick, OwnerInv
  <1>5. CASE Restart
    <2>1. PendingUnrevoked'
      BY <1>5 DEF Restart, PendingUnrevoked
    <2> QED
      BY <1>5, <2>1, NothingServed DEF Restart, OwnerInv
  <1> QED
    BY <1>1, <1>2, <1>3, <1>4, <1>5, StaticOwner, JwtOwner, VerifiedOwner DEF GateNext

\* A request runs as a user only with an unrevoked bearer of that user's, whatever
\* requests overlap and whatever a restart changes (resolveBearerToken).
THEOREM OwnerServed == GateSpec => []ServedToOwner
  <1>1. GateInit => OwnerInv
    BY DEF GateInit, OwnerInv, PendingUnrevoked, ServedToOwner, NoOutcome
  <1>2. OwnerInv /\ UNCHANGED gateVars => OwnerInv'
    BY DEF gateVars, OwnerInv, PendingUnrevoked, ServedToOwner
  <1>3. OwnerInv => ServedToOwner
    BY DEF OwnerInv
  <1> QED
    BY OwnerStep, <1>1, <1>2, <1>3, PTL DEF GateSpec

-----------------------------------------------------------------------------
(* AuthGate: the quotas *)

Counter(max) == [count : 0 .. max + 1, left : 0 .. GateWindow]

\* What an open window let through: it counts one hit beyond its maximum.
Passed(window, max) == IF window.count <= max THEN window.count ELSE max

\* The limiter by IP: while a window is open its history is tight, and between
\* windows less than the maximum of the last one is in sight.
LetThrough(window, past) ==
    IF window.left = 0
    THEN Rested(past, UnauthMax)
    ELSE /\ window.count >= 1
         /\ Tight(past, GateWindow - window.left, Passed(window, UnauthMax), UnauthMax, GateWindow)

\* The limiter by user: every hit of an open window is a call of that user.
Spent(window, past) ==
    window.left > 0 => Covered(past, GateWindow - window.left, window.count)

QuotaInv ==
    /\ tokens \in [Token -> Owner \cup {Nobody}]
    /\ byIp \in [Ip -> Counter(UnauthMax)] /\ byUser \in [Owner -> Counter(UserMax)]
    /\ passes = [i \in Ip |-> passes[i]] /\ calls = [u \in Owner |-> calls[u]]
    /\ \A i \in Ip : Events(passes[i], 2 * UnauthMax, GateWindow) /\ LetThrough(byIp[i], passes[i])
    /\ \A u \in Owner : Events(calls[u], UserMax + 1, GateWindow) /\ Spent(byUser[u], calls[u])
    /\ outcome.status = 429 /\ outcome.user # Nobody =>
         Cardinality(calls[outcome.user]) > UserMax

LEMMA HitType ==
  ASSUME NEW max \in Nat \ {0}, NEW w \in Counter(max)
  PROVE  /\ Hit(w, max) \in Counter(max) /\ Hit(w, max).left > 0 /\ Hit(w, max).count >= 1
         /\ w.left = 0 => Hit(w, max).count = 1 /\ Hit(w, max).left = GateWindow
         /\ w.left # 0 => /\ Hit(w, max).left = w.left
                          /\ Hit(w, max).count = IF w.count <= max THEN w.count + 1 ELSE w.count
  <1>1. w.count \in 0 .. max + 1 /\ w.left \in 0 .. GateWindow /\ GateWindow \in Nat \ {0}
    BY GateAssumption DEF Counter
  <1>2. CASE w.left = 0
    BY <1>1, <1>2 DEF Hit, Counter
  <1>3. CASE w.left # 0
    <2>1. Hit(w, max) = [w EXCEPT !.count = IF @ <= max THEN @ + 1 ELSE @]
      BY <1>3 DEF Hit
    <2>2. /\ Hit(w, max).left = w.left
          /\ Hit(w, max).count = IF w.count <= max THEN w.count + 1 ELSE w.count
      BY <2>1 DEF Counter
    <2>3. Hit(w, max).count \in 0 .. max + 1 /\ Hit(w, max).count >= 1
      BY <1>1, <2>2
    <2>4. Hit(w, max) = [count |-> Hit(w, max).count, left |-> w.left]
      BY <2>1 DEF Counter
    <2> QED
      BY <1>1, <1>3, <2>2, <2>3, <2>4 DEF Counter
  <1> QED
    BY <1>2, <1>3

\* An address is never let through more than twice the maximum, less one.
LEMMA LetBound ==
  ASSUME NEW w \in Counter(UnauthMax), NEW P, Events(P, 2 * UnauthMax, GateWindow), LetThrough(w, P)
  PROVE  Cardinality(P) <= 2 * UnauthMax - 1
  <1>1. /\ GateWindow \in Nat \ {0} /\ UnauthMax \in Nat \ {0}
        /\ w.count \in 0 .. UnauthMax + 1 /\ w.left \in 0 .. GateWindow
    BY GateAssumption DEF Counter
  <1>2. CASE w.left = 0
    <2>1. Cardinality(P) \in Nat /\ Cardinality(P) < UnauthMax
      BY <1>2, FS_CardinalityType DEF LetThrough, Events, Rested
    <2> QED
      BY <1>1, <2>1
  <1>3. CASE w.left # 0
    <2>1. GateWindow - w.left \in Nat /\ Passed(w, UnauthMax) \in Nat /\ Passed(w, UnauthMax) <= UnauthMax
      BY <1>1 DEF Passed
    <2>2. Tight(P, GateWindow - w.left, Passed(w, UnauthMax), UnauthMax, GateWindow)
      BY <1>3 DEF LetThrough
    <2> QED
      BY <1>1, <2>1, <2>2, TightBound
  <1> QED
    BY <1>2, <1>3

LEMMA LetHit ==
  ASSUME NEW w \in Counter(UnauthMax), NEW P, Events(P, 2 * UnauthMax, GateWindow), LetThrough(w, P)
  PROVE  LET v == Hit(w, UnauthMax) IN
         IF Allowed(v) THEN LetThrough(v, Recorded(P, 2 * UnauthMax)) ELSE LetThrough(v, P)
  <1> DEFINE v == Hit(w, UnauthMax)
             R == Recorded(P, 2 * UnauthMax)
  <1>1. /\ GateWindow \in Nat \ {0} /\ UnauthMax \in Nat \ {0} /\ 2 * UnauthMax \in Nat \ {0}
        /\ w.count \in 0 .. UnauthMax + 1 /\ w.left \in 0 .. GateWindow
    BY GateAssumption DEF Counter
  <1>2. v.left > 0 /\ v.count >= 1
    BY <1>1, HitType
  <1>3. CASE w.left = 0
    <2>1. v.count = 1 /\ v.left = GateWindow
      BY <1>1, <1>3, HitType
    <2>2. Rested(P, UnauthMax)
      BY <1>3 DEF LetThrough
    <2>3. Tight(R, 0, 1, UnauthMax, GateWindow)
      BY <1>1, <2>2, OpensTight
    <2> HIDE DEF v, R
    <2>4. Passed(v, UnauthMax) = 1 /\ GateWindow - v.left = 0 /\ Allowed(v)
      BY <1>1, <2>1 DEF Passed, Allowed
    <2>5. LetThrough(v, R)
      BY <1>2, <2>3, <2>4 DEF LetThrough
    <2> QED
      BY <2>4, <2>5 DEF v, R
  <1>4. CASE w.left # 0
    <2>1. v.left = w.left /\ v.count = IF w.count <= UnauthMax THEN w.count + 1 ELSE w.count
      BY <1>1, <1>4, HitType
    <2> DEFINE e == GateWindow - w.left
               n == Passed(w, UnauthMax)
    <2>2. w.count >= 1 /\ Tight(P, e, n, UnauthMax, GateWindow)
      BY <1>4 DEF LetThrough
    <2>3. e \in Nat /\ n \in Nat \ {0}
      BY <1>1, <2>2 DEF Passed
    <2>4. CASE v.count <= UnauthMax
      <3>1. n = w.count /\ v.count = n + 1
        BY <1>1, <2>1, <2>4 DEF Passed
      <3>2. Cardinality(P) < 2 * UnauthMax
        <4>1. Cardinality(P) <= 2 * UnauthMax - 1 /\ Cardinality(P) \in Nat
          BY LetBound, FS_CardinalityType DEF Events
        <4> QED
          BY <1>1, <4>1
      <3> HIDE DEF n, e
      <3>3. Tight(R, e, n + 1, UnauthMax, GateWindow)
        BY <1>1, <2>2, <2>3, <3>2, HitTight
      <3> HIDE DEF v, R
      <3>4. Passed(v, UnauthMax) = n + 1 /\ Allowed(v) /\ e = GateWindow - v.left
        BY <2>1, <2>4, <3>1 DEF Passed, Allowed, e
      <3>5. LetThrough(v, R)
        BY <1>2, <3>3, <3>4 DEF LetThrough
      <3> QED
        BY <3>4, <3>5 DEF v, R
    <2>5. CASE ~(v.count <= UnauthMax)
      <3>1. n = UnauthMax /\ Passed(v, UnauthMax) = UnauthMax
        BY <1>1, <2>1, <2>5 DEF Passed
      <3> HIDE DEF n
      <3>2. ~Allowed(v) /\ e = GateWindow - v.left
        BY <2>1, <2>5 DEF Allowed
      <3> HIDE DEF v, R, e
      <3>3. LetThrough(v, P)
        BY <1>2, <2>2, <3>1, <3>2 DEF LetThrough
      <3> QED
        BY <3>2, <3>3 DEF v, R
    <2> QED
      BY <2>4, <2>5
  <1> QED
    BY <1>3, <1>4

LEMMA LaterType ==
  ASSUME NEW max \in Nat \ {0}, NEW w \in Counter(max)
  PROVE  /\ Later(w) \in Counter(max)
         /\ w.left <= 1 => Later(w).left = 0
         /\ ~(w.left <= 1) => Later(w).left = w.left - 1 /\ Later(w).count = w.count
  <1>1. w.count \in 0 .. max + 1 /\ w.left \in 0 .. GateWindow /\ GateWindow \in Nat \ {0}
    BY GateAssumption DEF Counter
  <1>2. CASE w.left <= 1
    BY <1>1, <1>2 DEF Later, NoWindow, Counter
  <1>3. CASE ~(w.left <= 1)
    <2>1. Later(w) = [w EXCEPT !.left = @ - 1]
      BY <1>3 DEF Later
    <2>2. Later(w) = [count |-> w.count, left |-> w.left - 1]
      BY <2>1 DEF Counter
    <2> QED
      BY <1>1, <1>3, <2>2 DEF Counter
  <1> QED
    BY <1>2, <1>3

LEMMA LetLater ==
  ASSUME NEW w \in Counter(UnauthMax), NEW P, Events(P, 2 * UnauthMax, GateWindow), LetThrough(w, P)
  PROVE  LetThrough(Later(w), Elder(P, GateWindow))
  <1> DEFINE E == Elder(P, GateWindow)
             n == Passed(w, UnauthMax)
  <1>1. /\ GateWindow \in Nat \ {0} /\ UnauthMax \in Nat \ {0} /\ 2 * UnauthMax \in Nat \ {0}
        /\ w.count \in 0 .. UnauthMax + 1 /\ w.left \in 0 .. GateWindow
        /\ n \in Nat /\ n <= UnauthMax
    BY GateAssumption DEF Counter, Passed
  <1> HIDE DEF n
  <1>2. CASE w.left <= 1
    <2>1. Rested(E, UnauthMax)
      <3>1. CASE w.left = 0
        BY <1>1, <3>1, RestedLater DEF LetThrough
      <3>2. CASE w.left = 1
        <4>1. Tight(P, GateWindow - 1, n, UnauthMax, GateWindow)
          BY <3>2 DEF LetThrough, n
        <4> QED
          BY <1>1, <4>1, EndRests
      <3> QED
        BY <1>1, <1>2, <3>1, <3>2
    <2>2. Later(w).left = 0
      BY <1>1, <1>2, LaterType
    <2> QED
      BY <2>1, <2>2 DEF LetThrough
  <1>3. CASE ~(w.left <= 1)
    <2> DEFINE e == GateWindow - w.left
    <2>1. w.count >= 1 /\ Tight(P, e, n, UnauthMax, GateWindow)
      BY <1>1, <1>3 DEF LetThrough, n
    <2>2. e \in Nat /\ e + 1 < GateWindow
      BY <1>1, <1>3
    <2>3. Tight(E, e + 1, n, UnauthMax, GateWindow)
      BY <1>1, <2>1, <2>2, LaterTight
    <2>4. Later(w).left = w.left - 1 /\ Later(w).count = w.count
      BY <1>1, <1>3, LaterType
    <2>5. /\ Later(w).left # 0 /\ GateWindow - Later(w).left = e + 1
          /\ Later(w).count >= 1
      BY <1>1, <1>3, <2>1, <2>4
    <2>6. Passed(Later(w), UnauthMax) = n
      BY <2>4 DEF Passed, n
    <2> HIDE DEF E, e
    <2>7. LetThrough(Later(w), E)
      BY <2>3, <2>5, <2>6 DEF LetThrough
    <2> QED
      BY <2>7 DEF E
  <1> QED
    BY <1>2, <1>3

LEMMA SpentHit ==
  ASSUME NEW w \in Counter(UserMax), NEW P, Events(P, UserMax + 1, GateWindow), Spent(w, P)
  PROVE  Spent(Hit(w, UserMax), Recorded(P, UserMax + 1))
  <1> DEFINE v == Hit(w, UserMax)
             R == Recorded(P, UserMax + 1)
             e == GateWindow - v.left
  <1>1. /\ GateWindow \in Nat \ {0} /\ UserMax \in Nat \ {0} /\ UserMax + 1 \in Nat \ {0}
        /\ w.count \in 0 .. UserMax + 1 /\ w.left \in 0 .. GateWindow
    BY GateAssumption DEF Counter
  <1>2. v \in Counter(UserMax) /\ v.left > 0
    BY <1>1, HitType
  <1>3. v.count \in Nat /\ v.count <= UserMax + 1 /\ e \in Nat
    BY <1>1, <1>2 DEF Counter
  <1>4. \E n \in Nat : Covered(P, e, n) /\ v.count <= n + 1
    <2>1. CASE w.left = 0
      <3>1. v.count = 1
        BY <1>1, <2>1, HitType
      <3>2. Cardinality(Aged(P, 0, e)) \in Nat
        BY AgedFinite DEF Events
      <3>3. Covered(P, e, 0)
        BY <3>2 DEF Covered
      <3> QED
        BY <3>1, <3>3
    <2>2. CASE w.left # 0
      <3>1. v.left = w.left /\ v.count = IF w.count <= UserMax THEN w.count + 1 ELSE w.count
        BY <1>1, <2>2, HitType
      <3>2. w.left > 0
        BY <1>1, <2>2
      <3>3. Covered(P, e, w.count)
        BY <3>1, <3>2 DEF Spent
      <3>4. w.count \in Nat /\ v.count <= w.count + 1
        BY <1>1, <3>1
      <3> QED
        BY <3>3, <3>4
    <2> QED
      BY <2>1, <2>2
  <1>5. Covered(R, e, v.count)
    BY <1>1, <1>3, <1>4, HitCovered
  <1> QED
    BY <1>5 DEF Spent

LEMMA SpentLater ==
  ASSUME NEW w \in Counter(UserMax), NEW P, Events(P, UserMax + 1, GateWindow), Spent(w, P)
  PROVE  Spent(Later(w), Elder(P, GateWindow))
  <1>1. /\ GateWindow \in Nat \ {0} /\ UserMax \in Nat \ {0} /\ UserMax + 1 \in Nat \ {0}
        /\ w.count \in 0 .. UserMax + 1 /\ w.left \in 0 .. GateWindow
    BY GateAssumption DEF Counter
  <1>2. CASE w.left <= 1
    <2>1. Later(w).left = 0
      BY <1>1, <1>2, LaterType
    <2> QED
      BY <2>1 DEF Spent
  <1>3. CASE ~(w.left <= 1)
    <2> DEFINE e == GateWindow - w.left
    <2>1. Covered(P, e, w.count)
      BY <1>1, <1>3 DEF Spent
    <2>2. e \in Nat /\ e + 1 < GateWindow
      BY <1>1, <1>3
    <2>3. Covered(Elder(P, GateWindow), e + 1, w.count)
      BY <1>1, <2>1, <2>2, LaterCovered
    <2>4. Later(w).left = w.left - 1 /\ Later(w).count = w.count
      BY <1>1, <1>3, LaterType
    <2>5. GateWindow - Later(w).left = e + 1
      BY <1>1, <2>4
    <2> HIDE DEF e
    <2> QED
      BY <2>3, <2>4, <2>5 DEF Spent
  <1> QED
    BY <1>2, <1>3

\* Nothing recorded.
LEMMA NothingPast ==
  ASSUME NEW limit \in Nat, NEW w, w.left = 0
  PROVE  Events({}, limit, GateWindow) /\ LetThrough(w, {}) /\ Spent(w, {})
  <1>1. Aged({}, 0, 0) = {}
    BY DEF Aged
  <1> QED
    BY <1>1, FS_EmptySet, GateAssumption DEF Events, LetThrough, Rested, Spent

LEMMA QuotaInit == GateInit => QuotaInv
  <1> SUFFICES ASSUME GateInit PROVE QuotaInv
    OBVIOUS
  <1>1. NoWindow \in Counter(UnauthMax) /\ NoWindow \in Counter(UserMax) /\ NoWindow.left = 0
    BY GateAssumption DEF NoWindow, Counter
  <1>2. /\ Events({}, 2 * UnauthMax, GateWindow) /\ Events({}, UserMax + 1, GateWindow)
        /\ LetThrough(NoWindow, {}) /\ Spent(NoWindow, {})
    BY <1>1, NothingPast, GateAssumption
  <1>3. outcome.user = Nobody
    BY DEF GateInit, NoOutcome
  <1> QED
    BY <1>1, <1>2, <1>3 DEF GateInit, QuotaInv

\* A step that leaves the counters and the histories, and refuses nobody for a quota.
LEMMA QuotaKept ==
  ASSUME QuotaInv, UNCHANGED <<tokens, byIp, byUser, passes, calls>>,
         outcome'.user = Nobody \/ outcome'.status # 429
  PROVE  QuotaInv'
  BY DEF QuotaInv

LEMMA BareQuota ==
  ASSUME QuotaInv, NEW i \in Ip, BareRequest(i) PROVE QuotaInv'
  <1> DEFINE v == Hit(byIp[i], UnauthMax)
  <1>1. /\ UnauthMax \in Nat \ {0} /\ 2 * UnauthMax \in Nat \ {0} /\ GateWindow \in Nat \ {0}
        /\ byIp[i] \in Counter(UnauthMax)
        /\ Events(passes[i], 2 * UnauthMax, GateWindow) /\ LetThrough(byIp[i], passes[i])
    BY GateAssumption DEF QuotaInv
  <1>2. v \in Counter(UnauthMax)
    BY <1>1, HitType
  <1>3. IF Allowed(v) THEN LetThrough(v, Recorded(passes[i], 2 * UnauthMax)) ELSE LetThrough(v, passes[i])
    BY <1>1, LetHit
  <1>4. Events(Recorded(passes[i], 2 * UnauthMax), 2 * UnauthMax, GateWindow)
    BY <1>1, RecordedType
  <1> HIDE DEF v
  <1>5. /\ byIp' = [byIp EXCEPT ![i] = v]
        /\ passes' = IF Allowed(v)
                     THEN [passes EXCEPT ![i] = Recorded(@, 2 * UnauthMax)] ELSE passes
        /\ UNCHANGED <<tokens, byUser, calls>> /\ outcome'.user = Nobody
    BY DEF BareRequest, Ends, v
  <1>6. byIp' \in [Ip -> Counter(UnauthMax)] /\ passes' = [k \in Ip |-> passes'[k]]
    <2>1. byIp' \in [Ip -> Counter(UnauthMax)]
      BY <1>2, <1>5 DEF QuotaInv
    <2>2. passes' = [k \in Ip |-> passes'[k]]
      BY <1>5 DEF QuotaInv
    <2> QED
      BY <2>1, <2>2
  <1>7. \A k \in Ip : Events(passes'[k], 2 * UnauthMax, GateWindow) /\ LetThrough(byIp'[k], passes'[k])
    <2> SUFFICES ASSUME NEW k \in Ip
                 PROVE  Events(passes'[k], 2 * UnauthMax, GateWindow) /\ LetThrough(byIp'[k], passes'[k])
      OBVIOUS
    <2>1. CASE k = i
      <3>1. byIp'[k] = v /\ passes'[k] = IF Allowed(v) THEN Recorded(passes[i], 2 * UnauthMax) ELSE passes[i]
        BY <1>5, <2>1 DEF QuotaInv
      <3> QED
        BY <1>1, <1>3, <1>4, <3>1
    <2>2. CASE k # i
      <3>1. byIp'[k] = byIp[k] /\ passes'[k] = passes[k]
        BY <1>5, <2>2 DEF QuotaInv
      <3> QED
        BY <3>1 DEF QuotaInv
    <2> QED
      BY <2>1, <2>2
  <1> QED
    BY <1>5, <1>6, <1>7 DEF QuotaInv

\* What the limiter by user does, whichever bearer the user showed.
LEMMA UserQuota ==
  ASSUME QuotaInv, NEW u \in Owner, NEW bearer, Authenticated(u, bearer),
         UNCHANGED <<tokens, byIp, passes>>
  PROVE  QuotaInv'
  <1> DEFINE v == Hit(byUser[u], UserMax)
             R == Recorded(calls[u], UserMax + 1)
  <1>1. /\ UserMax \in Nat \ {0} /\ UserMax + 1 \in Nat \ {0} /\ GateWindow \in Nat \ {0}
        /\ byUser[u] \in Counter(UserMax)
        /\ Events(calls[u], UserMax + 1, GateWindow) /\ Spent(byUser[u], calls[u])
    BY GateAssumption DEF QuotaInv
  <1>2. v \in Counter(UserMax) /\ v.left > 0
    BY <1>1, HitType
  <1>3. Spent(v, R)
    BY <1>1, SpentHit
  <1>4. Events(R, UserMax + 1, GateWindow)
    BY <1>1, RecordedType
  <1> HIDE DEF v, R
  <1>5. /\ byUser' = [byUser EXCEPT ![u] = v] /\ calls' = [calls EXCEPT ![u] = R]
        /\ outcome'.user = u
        /\ outcome'.status = IF v.count <= UserMax THEN 200 ELSE 429
    BY DEF Authenticated, RateLimitKey, Ends, v, R
  <1>6. byUser' \in [Owner -> Counter(UserMax)] /\ calls' = [k \in Owner |-> calls'[k]]
    <2>1. byUser' \in [Owner -> Counter(UserMax)]
      BY <1>2, <1>5 DEF QuotaInv
    <2>2. calls' = [k \in Owner |-> calls'[k]]
      BY <1>5 DEF QuotaInv
    <2> QED
      BY <2>1, <2>2
  <1>7. \A k \in Owner : Events(calls'[k], UserMax + 1, GateWindow) /\ Spent(byUser'[k], calls'[k])
    <2> SUFFICES ASSUME NEW k \in Owner
                 PROVE  Events(calls'[k], UserMax + 1, GateWindow) /\ Spent(byUser'[k], calls'[k])
      OBVIOUS
    <2>1. CASE k = u
      <3>1. byUser'[k] = v /\ calls'[k] = R
        BY <1>5, <2>1 DEF QuotaInv
      <3> QED
        BY <1>3, <1>4, <3>1
    <2>2. CASE k # u
      <3>1. byUser'[k] = byUser[k] /\ calls'[k] = calls[k]
        BY <1>5, <2>2 DEF QuotaInv
      <3> QED
        BY <3>1 DEF QuotaInv
    <2> QED
      BY <2>1, <2>2
  <1>8. outcome'.status = 429 => Cardinality(calls'[u]) > UserMax
    <2> SUFFICES ASSUME outcome'.status = 429 PROVE Cardinality(calls'[u]) > UserMax
      OBVIOUS
    <2>1. ~(v.count <= UserMax)
      BY <1>5
    <2>2. calls'[u] = R
      BY <1>5 DEF QuotaInv
    <2>3. Cardinality(Aged(R, 0, GateWindow - v.left)) >= v.count
      BY <1>2, <1>3 DEF Spent, Covered
    <2>4. /\ Cardinality(Aged(R, 0, GateWindow - v.left)) <= Cardinality(R)
          /\ Cardinality(Aged(R, 0, GateWindow - v.left)) \in Nat /\ Cardinality(R) \in Nat
      BY <1>4, AgedFinite DEF Events
    <2>5. v.count \in Nat
      BY <1>1, <1>2 DEF Counter
    <2>6. Cardinality(R) > UserMax
      BY <1>1, <2>1, <2>3, <2>4, <2>5
    <2> QED
      BY <2>2, <2>6
  <1> QED
    BY <1>5, <1>6, <1>7, <1>8 DEF QuotaInv

LEMMA TickQuota == ASSUME QuotaInv, GateTick PROVE QuotaInv'
  <1>0. /\ UserMax \in Nat \ {0} /\ UserMax + 1 \in Nat \ {0} /\ GateWindow \in Nat \ {0}
        /\ UnauthMax \in Nat \ {0} /\ 2 * UnauthMax \in Nat \ {0}
    BY GateAssumption
  <1>1. /\ byIp' = [i \in Ip |-> Later(byIp[i])]
        /\ byUser' = [u \in Owner |-> Later(byUser[u])]
        /\ passes' = [i \in Ip |-> Elder(passes[i], GateWindow)]
        /\ calls' = [u \in Owner |-> Elder(calls[u], GateWindow)]
        /\ outcome'.user = Nobody /\ tokens' = tokens
    BY DEF GateTick, NoOutcome
  <1>2. ASSUME NEW i \in Ip
        PROVE  /\ byIp'[i] \in Counter(UnauthMax)
               /\ Events(passes'[i], 2 * UnauthMax, GateWindow) /\ LetThrough(byIp'[i], passes'[i])
    <2>1. /\ byIp[i] \in Counter(UnauthMax)
          /\ Events(passes[i], 2 * UnauthMax, GateWindow) /\ LetThrough(byIp[i], passes[i])
      BY DEF QuotaInv
    <2>2. Later(byIp[i]) \in Counter(UnauthMax)
      BY <1>0, <2>1, LaterType
    <2>3. Events(Elder(passes[i], GateWindow), 2 * UnauthMax, GateWindow)
      BY <1>0, <2>1, ElderType
    <2>4. LetThrough(Later(byIp[i]), Elder(passes[i], GateWindow))
      BY <2>1, LetLater
    <2> QED
      BY <1>1, <2>2, <2>3, <2>4
  <1>3. ASSUME NEW u \in Owner
        PROVE  /\ byUser'[u] \in Counter(UserMax)
               /\ Events(calls'[u], UserMax + 1, GateWindow) /\ Spent(byUser'[u], calls'[u])
    <2>1. /\ byUser[u] \in Counter(UserMax)
          /\ Events(calls[u], UserMax + 1, GateWindow) /\ Spent(byUser[u], calls[u])
      BY DEF QuotaInv
    <2>2. Later(byUser[u]) \in Counter(UserMax)
      BY <1>0, <2>1, LaterType
    <2>3. Events(Elder(calls[u], GateWindow), UserMax + 1, GateWindow)
      BY <1>0, <2>1, ElderType
    <2>4. Spent(Later(byUser[u]), Elder(calls[u], GateWindow))
      BY <2>1, SpentLater
    <2> QED
      BY <1>1, <2>2, <2>3, <2>4
  <1>4. byIp' \in [Ip -> Counter(UnauthMax)] /\ byUser' \in [Owner -> Counter(UserMax)]
    BY <1>1, <1>2, <1>3
  <1>5. passes' = [i \in Ip |-> passes'[i]] /\ calls' = [u \in Owner |-> calls'[u]]
    BY <1>1
  <1>6. tokens' \in [Token -> Owner \cup {Nobody}]
    BY <1>1 DEF QuotaInv
  <1> QED
    BY <1>1, <1>2, <1>3, <1>4, <1>5, <1>6 DEF QuotaInv

LEMMA RestartQuota == ASSUME QuotaInv, Restart PROVE QuotaInv'
  <1>1. NoWindow \in Counter(UnauthMax) /\ NoWindow \in Counter(UserMax) /\ NoWindow.left = 0
    BY GateAssumption DEF NoWindow, Counter
  <1>2. /\ Events({}, 2 * UnauthMax, GateWindow) /\ Events({}, UserMax + 1, GateWindow)
        /\ LetThrough(NoWindow, {}) /\ Spent(NoWindow, {})
    BY <1>1, NothingPast, GateAssumption
  <1>3. outcome'.user = Nobody
    BY DEF Restart, NoOutcome
  <1> QED
    BY <1>1, <1>2, <1>3 DEF Restart, Configured, QuotaInv

LEMMA QuotaStep == OwnerInv /\ QuotaInv /\ GateNext => QuotaInv'
  <1> SUFFICES ASSUME OwnerInv, QuotaInv, GateNext PROVE QuotaInv'
    OBVIOUS
  <1>1. CASE PublicRequest
    BY <1>1, QuotaKept DEF PublicRequest, Ends
  <1>2. ASSUME NEW i \in Ip, BareRequest(i) PROVE QuotaInv'
    BY <1>2, BareQuota
  <1>3. ASSUME NEW t \in Token, StaticRequest(t) PROVE QuotaInv'
    <2>1. CASE StaticUser(t) = Nobody
      BY <1>3, <2>1, QuotaKept DEF StaticRequest, Rejected, Ends
    <2>2. CASE StaticUser(t) # Nobody
      <3>1. StaticUser(t) \in Owner
        BY <2>2 DEF StaticUser, QuotaInv
      <3>2. Authenticated(StaticUser(t), t) /\ UNCHANGED <<tokens, byIp, passes>>
        BY <1>3, <2>2 DEF StaticRequest
      <3> QED
        BY <3>1, <3>2, UserQuota
    <2> QED
      BY <2>1, <2>2
  <1>4. ASSUME NEW r \in Pending, NEW j \in Jwt, JwtRequest(r, j) PROVE QuotaInv'
    <2>1. UNCHANGED <<tokens, byIp, byUser, passes, calls>> /\ outcome'.user = Nobody
      BY <1>4 DEF JwtRequest, Rejected, Ends, NoOutcome
    <2> QED
      BY <2>1, QuotaKept
  <1>5. ASSUME NEW r \in Pending, Verified(r) PROVE QuotaInv'
    <2> DEFINE j == pending[r]
    <2>1. UNCHANGED <<tokens, byIp, passes>>
      BY <1>5 DEF Verified
    <2>2. j \in Jwt
      BY <1>5 DEF Verified, OwnerInv, PendingUnrevoked
    <2>3. CASE Accepted(j)
      <3>1. Claims[j].sub \in Owner
        BY <2>2, GateAssumption
      <3>2. Authenticated(Claims[j].sub, j)
        BY <1>5, <2>3 DEF Verified
      <3> QED
        BY <2>1, <3>1, <3>2, UserQuota
    <2>4. CASE ~Accepted(j)
      <3>1. UNCHANGED <<byUser, calls>> /\ outcome'.user = Nobody
        BY <1>5, <2>4 DEF Verified, Rejected, Ends
      <3> QED
        BY <2>1, <3>1, QuotaKept
    <2> QED
      BY <2>3, <2>4
  <1>6. ASSUME NEW j \in Jwt, JwtExpires(j) PROVE QuotaInv'
    BY <1>6, QuotaKept DEF JwtExpires, NoOutcome
  <1> QED
    BY <1>1, <1>2, <1>3, <1>4, <1>5, <1>6, TickQuota, RestartQuota DEF GateNext

\* The limiter by IP lets through at most twice its maximum, less one, within any
\* window, and a user is refused only for that user's own calls (recordUnauthHit,
\* rateLimitKey).
THEOREM QuotasAreExact == GateSpec => []QuotasExact
  <1>1. GateInit => OwnerInv
    BY DEF GateInit, OwnerInv, PendingUnrevoked, ServedToOwner, NoOutcome
  <1>2. OwnerInv /\ QuotaInv /\ UNCHANGED gateVars => OwnerInv' /\ QuotaInv'
    <2>1. OwnerInv /\ UNCHANGED gateVars => OwnerInv'
      BY DEF gateVars, OwnerInv, PendingUnrevoked, ServedToOwner
    <2>2. QuotaInv /\ UNCHANGED gateVars => QuotaInv'
      BY DEF gateVars, QuotaInv
    <2> QED
      BY <2>1, <2>2
  <1>3. QuotaInv => QuotasExact
    BY LetBound DEF QuotaInv, QuotasExact
  <1> QED
    BY QuotaInit, OwnerStep, QuotaStep, <1>1, <1>2, <1>3, PTL DEF GateSpec

-----------------------------------------------------------------------------
(* SourceRateLimiter: the windows of the sources *)

\* The open window of a source, if there is one.
Windows(k) == {b \in buckets : b.source = k /\ b.left > 0}

\* Every hit of an open window was recorded; and unless a window was dropped, the
\* history of an open one is tight and that of none at rest.
SourceInv(k) ==
    /\ Events(recent[k], 2 * MaxPerWindow, Window)
    /\ \A b \in Windows(k) :
         /\ Covered(recent[k], Window - b.left, b.count)
         /\ k \notin dropped => Tight(recent[k], Window - b.left, b.count, MaxPerWindow, Window)
    /\ k \notin dropped /\ Windows(k) = {} => Rested(recent[k], MaxPerWindow)

LimiterInv ==
    /\ buckets \subseteq Bucket
    /\ \A b, c \in buckets : b.source = c.source => b = c
    /\ recent = [k \in Source |-> recent[k]]
    /\ \A k \in Source : SourceInv(k)
    /\ answer # << >> /\ ~answer.admitted => Cardinality(recent[answer.source]) >= MaxPerWindow

LEMMA LimiterConstants ==
  /\ MaxPerWindow \in Nat \ {0} /\ 2 * MaxPerWindow \in Nat \ {0} /\ Window \in Nat \ {0}
  /\ MaxPerWindow <= 2 * MaxPerWindow
  BY LimiterAssumption

LEMMA LimiterInitInv == LimiterInit => LimiterInv
  <1> SUFFICES ASSUME LimiterInit PROVE LimiterInv
    OBVIOUS
  <1>1. Aged({}, 0, 0) = {}
    BY DEF Aged
  <1>2. Events({}, 2 * MaxPerWindow, Window) /\ Rested({}, MaxPerWindow)
    BY <1>1, FS_EmptySet, LimiterConstants DEF Events, Rested
  <1>3. \A k \in Source : SourceInv(k)
    BY <1>2 DEF LimiterInit, SourceInv, Windows
  <1> QED
    BY <1>3 DEF LimiterInit, LimiterInv

\* A pruned table still has every open window.
LEMMA SweptKeepsOpen ==
  /\ Swept \subseteq buckets /\ \A b \in buckets : b.left > 0 => b \in Swept
  BY DEF Swept, Pruned

\* What a call for another source may do to a source.
LEMMA SourceKept ==
  ASSUME NEW k, SourceInv(k), recent'[k] = recent[k], Windows(k)' \subseteq Windows(k),
         k \notin dropped' => k \notin dropped /\ Windows(k)' = Windows(k)
  PROVE  SourceInv(k)'
  BY DEF SourceInv

\* An open window counts within its bounds.
LEMMA WindowShape ==
  ASSUME buckets \subseteq Bucket, NEW k, NEW b \in Windows(k)
  PROVE  /\ b \in buckets /\ b.source = k /\ b.count \in 1 .. MaxPerWindow
         /\ b.left \in 1 .. Window /\ Window - b.left \in Nat /\ Window - b.left < Window
  BY LimiterConstants DEF Windows, Bucket

LEMMA RecentBound ==
  ASSUME LimiterInv, NEW k \in Source, k \notin dropped
  PROVE  Cardinality(recent[k]) <= 2 * MaxPerWindow - 1
  <1>1. Events(recent[k], 2 * MaxPerWindow, Window) /\ Cardinality(recent[k]) \in Nat
    BY FS_CardinalityType DEF LimiterInv, SourceInv, Events
  <1>2. CASE Windows(k) = {}
    <2>1. Cardinality(recent[k]) < MaxPerWindow
      BY <1>2 DEF LimiterInv, SourceInv, Rested
    <2> QED
      BY <1>1, <2>1, LimiterConstants
  <1>3. CASE Windows(k) # {}
    <2>1. PICK b \in Windows(k) : TRUE
      BY <1>3
    <2>2. /\ Window - b.left \in Nat /\ b.count \in Nat /\ b.count <= MaxPerWindow
      BY WindowShape DEF LimiterInv
    <2>3. Tight(recent[k], Window - b.left, b.count, MaxPerWindow, Window)
      BY DEF LimiterInv, SourceInv
    <2> QED
      BY <1>1, <2>2, <2>3, LimiterConstants, TightBound
  <1> QED
    BY <1>2, <1>3

\* Whatever consume() places, sources stay unique and rows are rows.
LEMMA PlacedShape ==
  ASSUME LimiterInv, NEW s \in Source, NEW rest, rest \subseteq Others(Swept, s),
         NEW row \in Bucket, row.source = s, Placed(rest, s, row)
  PROVE  /\ buckets' = rest \cup {row}
         /\ buckets' \subseteq Bucket
         /\ \A b, c \in buckets' : b.source = c.source => b = c
  <1>1. buckets' = rest \cup {row}
    BY DEF Placed
  <1>2. rest \subseteq buckets /\ \A b \in rest : b.source # s
    BY SweptKeepsOpen DEF Others
  <1>3. buckets' \subseteq Bucket
    BY <1>1, <1>2 DEF LimiterInv
  <1>4. \A b, c \in buckets' : b.source = c.source => b = c
    <2> SUFFICES ASSUME NEW b \in buckets', NEW c \in buckets', b.source = c.source
                 PROVE  b = c
      OBVIOUS
    <2>1. CASE b \in rest /\ c \in rest
      BY <1>2, <2>1 DEF LimiterInv
    <2>2. CASE b = row \/ c = row
      BY <1>1, <1>2, <2>2
    <2> QED
      BY <1>1, <2>1, <2>2
  <1> QED
    BY <1>1, <1>3, <1>4

LEMMA OpenConsume ==
  ASSUME LimiterInv, NEW s \in Source, Open(Swept, s) = {},
         Placed(Capped(Others(Swept, s)), s, [source |-> s, count |-> 1, left |-> Window]),
         dropped' = dropped \cup {b.source : b \in
             {r \in Others(Swept, s) \ Capped(Others(Swept, s)) : r.left > 0}},
         Admit(s)
  PROVE  LimiterInv'
  <1> DEFINE rest == Others(Swept, s)
             kept == Capped(rest)
             row == [source |-> s, count |-> 1, left |-> Window]
             R == Recorded(recent[s], 2 * MaxPerWindow)
  <1>1. kept \subseteq rest /\ rest \subseteq buckets /\ \A b \in rest : b.source # s
    BY SweptKeepsOpen DEF Others, Capped
  <1>2. row \in Bucket
    BY LimiterConstants DEF Bucket
  <1>3. /\ buckets' = kept \cup {row} /\ buckets' \subseteq Bucket
        /\ \A b, c \in buckets' : b.source = c.source => b = c
    <2> HIDE DEF rest, kept, row
    <2>1. Placed(kept, s, row) /\ row.source = s
      BY DEF rest, kept, row
    <2>2. kept \subseteq Others(Swept, s)
      BY <1>1 DEF rest
    <2> QED
      BY <1>2, <2>1, <2>2, PlacedShape
  <1>4. Windows(s) = {}
    BY SweptKeepsOpen DEF Windows, Open
  <1>5. Windows(s)' = {row}
    <2>1. row.source = s /\ row.left > 0
      BY LimiterConstants
    <2> HIDE DEF kept, row, rest
    <2> QED
      BY <1>1, <1>3, <2>1 DEF Windows
  <1>6. recent' = [recent EXCEPT ![s] = R] /\ recent'[s] = R
        /\ recent' = [k \in Source |-> recent'[k]] /\ \A k \in Source \ {s} : recent'[k] = recent[k]
    BY DEF Admit, LimiterInv
  <1>7. answer'.admitted
    BY DEF Admit
  <1>8. SourceInv(s)'
    <2>1. Events(recent[s], 2 * MaxPerWindow, Window)
      BY DEF LimiterInv, SourceInv
    <2>2. Events(R, 2 * MaxPerWindow, Window)
      BY <2>1, LimiterConstants, RecordedType
    <2>3. Covered(R, 0, 1)
      <3>1. Covered(recent[s], 0, 0)
        BY <2>1, AgedFinite DEF Covered, Events
      <3> QED
        BY <2>1, <3>1, LimiterConstants, HitCovered
    <2>4. s \notin dropped' => Tight(R, 0, 1, MaxPerWindow, Window)
      <3> SUFFICES ASSUME s \notin dropped' PROVE Tight(R, 0, 1, MaxPerWindow, Window)
        OBVIOUS
      <3>1. Rested(recent[s], MaxPerWindow)
        BY <1>4 DEF LimiterInv, SourceInv
      <3> QED
        BY <2>1, <3>1, LimiterConstants, OpensTight
    <2>5. Window - row.left = 0 /\ row.count = 1
      BY LimiterConstants
    <2> HIDE DEF R, row
    <2> QED
      BY <1>5, <1>6, <2>2, <2>3, <2>4, <2>5 DEF SourceInv
  <1>9. ASSUME NEW k \in Source, k # s PROVE SourceInv(k)'
    <2>1. Windows(k)' \subseteq Windows(k)
      <3>1. row.source = s
        OBVIOUS
      <3> HIDE DEF row, kept, rest
      <3> QED
        BY <1>1, <1>3, <1>9, <3>1 DEF Windows
    <2>2. ASSUME k \notin dropped' PROVE k \notin dropped /\ Windows(k)' = Windows(k)
      <3>1. k \notin dropped
        BY <2>2
      <3>2. \A b \in rest \ kept : b.left > 0 => b.source # k
        BY <2>2
      <3>3. \A b \in Windows(k) : b \in rest
        BY <1>9, SweptKeepsOpen DEF Windows, Others
      <3>4. \A b \in Windows(k) : b \in kept
        <4> HIDE DEF rest, kept
        <4> QED
          BY <3>2, <3>3 DEF Windows
      <3>5. Windows(k) \subseteq Windows(k)'
        <4> HIDE DEF rest, kept, row
        <4> QED
          BY <1>3, <3>4 DEF Windows
      <3> QED
        BY <2>1, <3>1, <3>5
    <2>3. SourceInv(k)
      BY DEF LimiterInv
    <2>4. recent'[k] = recent[k]
      BY <1>6, <1>9
    <2> QED
      BY <2>1, <2>2, <2>3, <2>4, SourceKept
  <1>10. \A k \in Source : SourceInv(k)'
    BY <1>8, <1>9
  <1> QED
    BY <1>3, <1>6, <1>7, <1>10 DEF LimiterInv

\* A call in an open window leaves the others' windows.
LEMMA OthersKept ==
  ASSUME LimiterInv, NEW s \in Source, NEW row, row.source = s,
         buckets' = Others(Swept, s) \cup {row}, UNCHANGED dropped,
         \A k \in Source \ {s} : recent'[k] = recent[k]
  PROVE  \A k \in Source \ {s} : SourceInv(k)'
  <1> SUFFICES ASSUME NEW k \in Source \ {s} PROVE SourceInv(k)'
    OBVIOUS
  <1>1. Windows(k)' = Windows(k)
    BY SweptKeepsOpen DEF Windows, Others
  <1>2. SourceInv(k) /\ recent'[k] = recent[k]
    BY DEF LimiterInv
  <1> QED
    BY <1>1, <1>2, SourceKept

LEMMA HitConsume ==
  ASSUME LimiterInv, NEW s \in Source, NEW b \in Open(Swept, s), ~Full(b),
         Placed(Others(Swept, s), s, [b EXCEPT !.count = @ + 1]), Admit(s), UNCHANGED dropped
  PROVE  LimiterInv'
  <1> DEFINE row == [b EXCEPT !.count = @ + 1]
             R == Recorded(recent[s], 2 * MaxPerWindow)
             e == Window - b.left
  <1>1. b \in Windows(s) /\ b \in buckets
    BY SweptKeepsOpen DEF Open, Windows
  <1>2. /\ b.source = s /\ b.count \in 1 .. MaxPerWindow /\ b.left \in 1 .. Window /\ e \in Nat
        /\ b \in Bucket
    BY <1>1, WindowShape DEF LimiterInv
  <1>3. b.count + 1 <= MaxPerWindow
    BY <1>2, LimiterConstants DEF Full
  <1>4. /\ row \in Bucket /\ row.source = s /\ row.count = b.count + 1 /\ row.left = b.left
    <2>1. row = [source |-> b.source, count |-> b.count + 1, left |-> b.left]
      BY <1>2 DEF Bucket
    <2> HIDE DEF row
    <2> QED
      BY <1>2, <1>3, <2>1, LimiterConstants DEF Bucket
  <1> HIDE DEF row
  <1>5. /\ buckets' = Others(Swept, s) \cup {row} /\ buckets' \subseteq Bucket
        /\ \A a, c \in buckets' : a.source = c.source => a = c
    <2>1. Placed(Others(Swept, s), s, row)
      BY DEF row
    <2> QED
      BY <1>4, <2>1, PlacedShape
  <1>6. Windows(s)' = {row}
    BY <1>2, <1>4, <1>5 DEF Windows, Others
  <1>7. recent'[s] = R /\ recent' = [k \in Source |-> recent'[k]]
        /\ \A k \in Source \ {s} : recent'[k] = recent[k]
    BY DEF Admit, LimiterInv
  <1>8. answer'.admitted
    BY DEF Admit
  <1>9. SourceInv(s)'
    <2>1. Events(recent[s], 2 * MaxPerWindow, Window) /\ Covered(recent[s], e, b.count)
      BY <1>1 DEF LimiterInv, SourceInv
    <2>2. Events(R, 2 * MaxPerWindow, Window)
      BY <2>1, LimiterConstants, RecordedType
    <2>3. Covered(R, e, b.count + 1)
      <3>1. b.count \in Nat /\ b.count + 1 \in Nat /\ b.count + 1 <= 2 * MaxPerWindow
        BY <1>2, <1>3, LimiterConstants
      <3> HIDE DEF e
      <3> QED
        BY <1>2, <2>1, <3>1, LimiterConstants, HitCovered
    <2>4. s \notin dropped' => Tight(R, e, b.count + 1, MaxPerWindow, Window)
      <3> SUFFICES ASSUME s \notin dropped
                   PROVE  Tight(R, e, b.count + 1, MaxPerWindow, Window)
        OBVIOUS
      <3>1. Tight(recent[s], e, b.count, MaxPerWindow, Window)
        BY <1>1 DEF LimiterInv, SourceInv
      <3>2. Cardinality(recent[s]) < 2 * MaxPerWindow
        <4>1. Cardinality(recent[s]) <= 2 * MaxPerWindow - 1 /\ Cardinality(recent[s]) \in Nat
          BY <2>1, RecentBound, FS_CardinalityType DEF Events
        <4> QED
          BY <4>1, LimiterConstants
      <3>3. b.count \in Nat \ {0}
        BY <1>2
      <3> HIDE DEF e
      <3> QED
        BY <1>2, <2>1, <3>1, <3>2, <3>3, LimiterConstants, HitTight
    <2> HIDE DEF R
    <2> QED
      BY <1>4, <1>6, <1>7, <2>2, <2>3, <2>4 DEF SourceInv
  <1>10. \A k \in Source : SourceInv(k)'
    BY <1>4, <1>5, <1>7, <1>9, OthersKept
  <1> QED
    BY <1>5, <1>7, <1>8, <1>10 DEF LimiterInv

LEMMA FullConsume ==
  ASSUME LimiterInv, NEW s \in Source, NEW b \in Open(Swept, s), Full(b),
         Placed(Others(Swept, s), s, b), Refuse(s), UNCHANGED dropped
  PROVE  LimiterInv'
  <1>1. b \in Windows(s) /\ b \in buckets
    BY SweptKeepsOpen DEF Open, Windows
  <1>2. /\ b.source = s /\ b.count \in 1 .. MaxPerWindow /\ b \in Bucket
        /\ Windows(s) = {b}
    BY <1>1, WindowShape DEF LimiterInv, Windows
  <1>3. /\ buckets' = Others(Swept, s) \cup {b} /\ buckets' \subseteq Bucket
        /\ \A a, c \in buckets' : a.source = c.source => a = c
    BY <1>2, PlacedShape
  <1>4. Windows(s)' = {b}
    BY <1>1, <1>2, <1>3 DEF Windows, Others
  <1>5. recent' = recent /\ answer'.source = s
    BY DEF Refuse
  <1>6. SourceInv(s)'
    BY <1>2, <1>4, <1>5, SourceKept DEF LimiterInv
  <1>7. \A k \in Source : SourceInv(k)'
    BY <1>2, <1>3, <1>5, <1>6, OthersKept
  <1>8. Cardinality(recent[s]) >= MaxPerWindow
    <2>1. /\ Cardinality(Aged(recent[s], 0, Window - b.left)) >= b.count
          /\ IsFiniteSet(recent[s])
      BY <1>1 DEF LimiterInv, SourceInv, Covered, Events
    <2>2. /\ Cardinality(Aged(recent[s], 0, Window - b.left)) <= Cardinality(recent[s])
          /\ Cardinality(Aged(recent[s], 0, Window - b.left)) \in Nat
          /\ Cardinality(recent[s]) \in Nat
      BY <2>1, AgedFinite
    <2>3. b.count = MaxPerWindow
      BY <1>2, LimiterConstants DEF Full
    <2> QED
      BY <2>1, <2>2, <2>3, LimiterConstants
  <1> QED
    BY <1>3, <1>5, <1>7, <1>8 DEF LimiterInv

LEMMA LimiterTicks ==
  ASSUME LimiterInv, LimiterTick PROVE LimiterInv'
  <1> DEFINE older(b) == [b EXCEPT !.left = IF @ > 0 THEN @ - 1 ELSE 0]
  <1>1. /\ buckets' = {older(b) : b \in buckets}
        /\ recent' = [k \in Source |-> Elder(recent[k], Window)]
        /\ dropped' = {k \in dropped : recent'[k] # {}}
        /\ answer' = << >>
    BY DEF LimiterTick
  <1>2. ASSUME NEW b \in buckets
        PROVE  /\ older(b) \in Bucket /\ older(b).source = b.source /\ older(b).count = b.count
               /\ older(b).left > 0 => b.left > 1 /\ older(b).left = b.left - 1
               /\ b.left > 1 => older(b).left > 0
    <2>1. b \in Bucket /\ b.left \in 0 .. Window /\ b.count \in 1 .. MaxPerWindow
      BY DEF LimiterInv, Bucket
    <2>2. older(b) = [source |-> b.source, count |-> b.count,
                      left |-> IF b.left > 0 THEN b.left - 1 ELSE 0]
      BY <2>1 DEF Bucket
    <2> HIDE DEF older
    <2>3. /\ older(b).source = b.source /\ older(b).count = b.count
          /\ older(b).left = IF b.left > 0 THEN b.left - 1 ELSE 0
      BY <2>2
    <2>4. older(b).left \in 0 .. Window
      BY <2>1, <2>3, LimiterConstants
    <2>5. older(b) \in Bucket
      BY <2>1, <2>2, <2>3, <2>4 DEF Bucket
    <2> QED
      BY <2>1, <2>3, <2>5
  <1> HIDE DEF older
  <1>3. buckets' \subseteq Bucket
    BY <1>1, <1>2
  <1>4. \A b, c \in buckets' : b.source = c.source => b = c
    <2> SUFFICES ASSUME NEW b \in buckets, NEW c \in buckets, older(b).source = older(c).source
                 PROVE  older(b) = older(c)
      BY <1>1
    <2> QED
      BY <1>2 DEF LimiterInv
  <1>5. ASSUME NEW k \in Source PROVE SourceInv(k)'
    <2> DEFINE E == Elder(recent[k], Window)
    <2>1. SourceInv(k) /\ Events(recent[k], 2 * MaxPerWindow, Window)
      BY DEF LimiterInv, SourceInv
    <2>2. recent'[k] = E
      BY <1>1
    <2>3. Events(E, 2 * MaxPerWindow, Window)
      BY <2>1, LimiterConstants, ElderType
    <2>4. \A c \in Windows(k)' : \E b \in Windows(k) :
             b.left > 1 /\ c.left = b.left - 1 /\ c.count = b.count
      <3> SUFFICES ASSUME NEW c \in Windows(k)'
                   PROVE  \E b \in Windows(k) :
                            b.left > 1 /\ c.left = b.left - 1 /\ c.count = b.count
        OBVIOUS
      <3>1. c \in buckets' /\ c.source = k /\ c.left > 0
        BY DEF Windows
      <3>2. PICK b \in buckets : c = older(b)
        BY <1>1, <3>1
      <3>3. b.left > 1 /\ c.left = b.left - 1 /\ c.count = b.count /\ b.source = k
        BY <1>2, <3>1, <3>2
      <3>4. b.left > 0
        BY <3>2, <3>3 DEF LimiterInv, Bucket
      <3> QED
        BY <3>2, <3>3, <3>4 DEF Windows
    <2>5. ASSUME NEW c \in Windows(k)', NEW b \in Windows(k),
                 b.left > 1, c.left = b.left - 1, c.count = b.count
          PROVE  /\ Covered(E, Window - c.left, c.count)
                 /\ k \notin dropped => Tight(E, Window - c.left, c.count, MaxPerWindow, Window)
                 /\ E # {}
      <3> DEFINE e == Window - b.left
      <3>1. /\ b.count \in 1 .. MaxPerWindow /\ b.left \in 1 .. Window
            /\ e \in Nat /\ e + 1 < Window /\ Window - c.left = e + 1
        BY <2>5, WindowShape, LimiterConstants DEF LimiterInv
      <3>2. Covered(recent[k], e, b.count)
        BY <2>1 DEF SourceInv
      <3>3. Covered(E, e + 1, b.count)
        <4> HIDE DEF e
        <4> QED
          BY <2>1, <3>1, <3>2, LimiterConstants, LaterCovered
      <3>4. k \notin dropped => Tight(E, e + 1, b.count, MaxPerWindow, Window)
        <4>1. k \notin dropped => Tight(recent[k], e, b.count, MaxPerWindow, Window)
          BY <2>1 DEF SourceInv
        <4> HIDE DEF e
        <4> QED
          BY <2>1, <3>1, <4>1, LimiterConstants, LaterTight
      <3>5. E # {}
        <4>1. Cardinality(Aged(E, 0, e + 1)) # 0
          BY <3>1, <3>3 DEF Covered
        <4>2. Aged(E, 0, e + 1) # {}
          BY <4>1, FS_EmptySet
        <4> QED
          BY <4>2 DEF Aged
      <3> HIDE DEF e, E
      <3> QED
        BY <2>5, <3>1, <3>3, <3>4, <3>5
    <2> HIDE DEF E
    <2>6. ASSUME NEW c \in Windows(k)'
          PROVE  /\ Covered(E, Window - c.left, c.count)
                 /\ k \notin dropped' => Tight(E, Window - c.left, c.count, MaxPerWindow, Window)
      <3>1. PICK b \in Windows(k) : b.left > 1 /\ c.left = b.left - 1 /\ c.count = b.count
        BY <2>4
      <3>2. /\ Covered(E, Window - c.left, c.count) /\ E # {}
            /\ k \notin dropped => Tight(E, Window - c.left, c.count, MaxPerWindow, Window)
        BY <2>5, <3>1
      <3>3. k \notin dropped' => k \notin dropped
        BY <1>1, <2>2, <3>2
      <3> QED
        BY <3>2, <3>3
    <2>7. ASSUME k \notin dropped', Windows(k)' = {} PROVE Rested(E, MaxPerWindow)
      <3>1. CASE E = {}
        <4>1. Cardinality(E) = 0 /\ Aged(E, 0, 0) = {}
          BY <3>1, FS_EmptySet DEF Aged
        <4> QED
          BY <4>1, LimiterConstants DEF Rested
      <3>2. CASE E # {}
        <4>1. k \notin dropped
          BY <1>1, <2>2, <2>7, <3>2
        <4>2. CASE Windows(k) = {}
          BY <2>1, <4>1, <4>2, LimiterConstants, RestedLater DEF SourceInv, E
        <4>3. CASE Windows(k) # {}
          <5>1. PICK b \in Windows(k) : TRUE
            BY <4>3
          <5>2. /\ b \in buckets /\ b.source = k /\ b.count \in 1 .. MaxPerWindow
                /\ b.left \in 1 .. Window
            BY WindowShape DEF LimiterInv
          <5>3. ~(b.left > 1)
            <6> SUFFICES ASSUME b.left > 1 PROVE FALSE
              OBVIOUS
            <6>1. older(b) \in Windows(k)'
              BY <1>1, <1>2, <5>2 DEF Windows
            <6> QED
              BY <2>7, <6>1
          <5>4. b.left = 1
            BY <5>2, <5>3
          <5>5. Tight(recent[k], Window - 1, b.count, MaxPerWindow, Window)
            BY <2>1, <4>1, <5>4 DEF SourceInv
          <5>6. b.count \in Nat /\ b.count <= MaxPerWindow
            BY <5>2
          <5> QED
            BY <2>1, <5>5, <5>6, LimiterConstants, EndRests DEF E
        <4> QED
          BY <4>2, <4>3
      <3> QED
        BY <3>1, <3>2
    <2> QED
      BY <2>2, <2>3, <2>6, <2>7 DEF SourceInv
  <1>6. recent' = [k \in Source |-> recent'[k]]
    BY <1>1
  <1> QED
    BY <1>1, <1>3, <1>4, <1>5, <1>6 DEF LimiterInv

LEMMA LimiterStep == LimiterInv /\ [LimiterNext]_limiterVars => LimiterInv'
  <1> SUFFICES ASSUME LimiterInv, [LimiterNext]_limiterVars PROVE LimiterInv'
    OBVIOUS
  <1>1. ASSUME NEW s \in Source, Consume(s) PROVE LimiterInv'
    <2> USE <1>1
    <2>1. CASE Open(Swept, s) = {}
      BY <2>1, OpenConsume DEF Consume
    <2>2. CASE \E b \in Open(Swept, s) :
                 ~Full(b) /\ Placed(Others(Swept, s), s, [b EXCEPT !.count = @ + 1])
               /\ Admit(s) /\ UNCHANGED dropped
      BY <2>2, HitConsume
    <2>3. CASE \E b \in Open(Swept, s) :
                 Full(b) /\ Placed(Others(Swept, s), s, b) /\ Refuse(s) /\ UNCHANGED dropped
      BY <2>3, FullConsume
    <2> QED
      BY <2>1, <2>2, <2>3 DEF Consume
  <1>2. CASE Clear
    <2>1. LimiterInit'
      BY <1>2 DEF Clear, LimiterInit
    <2>2. Aged({}, 0, 0) = {}
      BY DEF Aged
    <2>3. Events({}, 2 * MaxPerWindow, Window) /\ Rested({}, MaxPerWindow)
      BY <2>2, FS_EmptySet, LimiterConstants DEF Events, Rested
    <2>4. \A k \in Source : SourceInv(k)'
      BY <2>1, <2>3 DEF LimiterInit, SourceInv, Windows
    <2> QED
      BY <2>1, <2>4 DEF LimiterInit, LimiterInv
  <1>3. CASE LimiterTick
    BY <1>3, LimiterTicks
  <1>4. CASE UNCHANGED limiterVars
    <2>1. \A k \in Source : SourceInv(k)'
      BY <1>4, SourceKept DEF limiterVars, LimiterInv, Windows
    <2> QED
      BY <1>4, <2>1 DEF limiterVars, LimiterInv
  <1> QED
    BY <1>1, <1>2, <1>3, <1>4 DEF LimiterNext

-----------------------------------------------------------------------------
(* SourceRateLimiter: the bound of the table *)

\* The order of the Map is a strict linear order of its rows.
Ordered(table, rel) ==
    \A b, c, d \in table :
        /\ <<b.source, b.source>> \notin rel
        /\ b # c => <<b.source, c.source>> \in rel \/ <<c.source, b.source>> \in rel
        /\ <<b.source, c.source>> \in rel /\ <<c.source, d.source>> \in rel
             => <<b.source, d.source>> \in rel

TableInv ==
    /\ IsFiniteSet(buckets) /\ Cardinality(buckets) <= MaxBuckets
    /\ Ordered(buckets, order)

\* Of the rows kept, the least recently used has all others behind it.
LEMMA CappedFits ==
  ASSUME NEW table, IsFiniteSet(table), Ordered(table, order)
  PROVE  IsFiniteSet(Capped(table)) /\ Cardinality(Capped(table)) <= MaxBuckets - 1
  <1> DEFINE K == Capped(table)
             Newer(b) == {c \in table : <<b.source, c.source>> \in order}
             S == {MaxBuckets - Cardinality(Newer(b)) : b \in K}
  <1>1. MaxBuckets \in Nat \ {0}
    BY LimiterAssumption
  <1>2. K \subseteq table /\ IsFiniteSet(K)
    BY FS_Subset DEF Capped
  <1>3. ASSUME NEW b
        PROVE  IsFiniteSet(Newer(b)) /\ Cardinality(Newer(b)) \in Nat
    <2>1. Newer(b) \in SUBSET table
      OBVIOUS
    <2> QED
      BY Zenon, <2>1, FS_Subset, FS_CardinalityType
  <1>4. \A b \in K : Cardinality(Newer(b)) < MaxBuckets - 1
    BY DEF Capped
  <1>5. CASE K = {}
    BY <1>1, <1>2, <1>5, FS_EmptySet
  <1>6. CASE K # {}
    <2>1. S \subseteq Nat /\ S # {}
      <3>1. \A b \in K : MaxBuckets - Cardinality(Newer(b)) \in Nat
        <4> HIDE DEF Newer, K
        <4> QED
          BY <1>1, <1>3, <1>4
      <3> QED
        BY <1>6, <3>1
    <2>2. PICK least \in S : \A p \in S : least <= p
      <3> HIDE DEF S
      <3> QED
        BY <2>1, LeastNatural
    <2>3. PICK m \in K : \A b \in K : Cardinality(Newer(b)) <= Cardinality(Newer(m))
      <3>1. PICK m \in K : least = MaxBuckets - Cardinality(Newer(m))
        OBVIOUS
      <3>2. ASSUME NEW b \in K PROVE Cardinality(Newer(b)) <= Cardinality(Newer(m))
        <4>1. least <= MaxBuckets - Cardinality(Newer(b))
          BY <2>2
        <4> HIDE DEF Newer, K, S
        <4> QED
          BY <1>1, <1>3, <3>1, <4>1
      <3> QED
        BY <3>2
    <2>4. ASSUME NEW b \in K, b # m PROVE b \in Newer(m)
      <3>1. b \in table /\ m \in table
        BY <1>2
      <3>2. CASE <<b.source, m.source>> \in order
        <4>1. m \in Newer(b) /\ m \notin Newer(m) /\ Newer(m) \in SUBSET Newer(b)
          BY <3>1, <3>2 DEF Ordered
        <4>2. IsFiniteSet(Newer(b)) /\ Newer(m) # Newer(b)
          BY <1>3, <4>1
        <4>3. /\ Cardinality(Newer(m)) <= Cardinality(Newer(b))
              /\ Cardinality(Newer(m)) # Cardinality(Newer(b))
          <5> HIDE DEF Newer
          <5> QED
            BY <4>1, <4>2, FS_Subset
        <4>4. /\ Cardinality(Newer(b)) <= Cardinality(Newer(m))
              /\ Cardinality(Newer(b)) \in Nat /\ Cardinality(Newer(m)) \in Nat
          BY <1>3, <2>3
        <4> HIDE DEF Newer, K
        <4> QED
          BY <4>3, <4>4
      <3>3. CASE <<m.source, b.source>> \in order
        BY <3>1, <3>3
      <3> QED
        BY <2>4, <3>1, <3>2, <3>3 DEF Ordered
    <2>5. K \ {m} \in SUBSET Newer(m)
      BY <2>4
    <2>6. Cardinality(K \ {m}) <= Cardinality(Newer(m)) /\ Cardinality(K \ {m}) = Cardinality(K) - 1
      <3> HIDE DEF Newer, K
      <3> QED
        BY <1>2, <1>3, <2>5, FS_Subset, FS_RemoveElement
    <2> HIDE DEF Newer, K
    <2> QED
      BY <1>1, <1>2, <1>3, <1>4, <2>6, FS_CardinalityType DEF K
  <1> QED
    BY <1>5, <1>6

\* The Map takes one row more.
LEMMA PlacedFits ==
  ASSUME NEW s, NEW rest, NEW row, row.source = s, \A b \in rest : b.source # s,
         IsFiniteSet(rest), Cardinality(rest) <= MaxBuckets - 1, Ordered(rest, order),
         Placed(rest, s, row)
  PROVE  TableInv'
  <1>1. buckets' = rest \cup {row}
    BY DEF Placed
  <1>2. IsFiniteSet(buckets') /\ Cardinality(buckets') <= MaxBuckets
    <2>1. row \notin rest
      OBVIOUS
    <2>2. IsFiniteSet(buckets') /\ Cardinality(buckets') = Cardinality(rest) + 1
      BY <1>1, <2>1, FS_AddElement
    <2>3. Cardinality(rest) \in Nat
      BY FS_CardinalityType
    <2> QED
      BY <2>2, <2>3, LimiterAssumption
  <1> DEFINE before == {b.source : b \in rest}
  <1>3. order' = (order \cap (before \X before)) \cup (before \X {s}) /\ s \notin before
    BY DEF Placed
  <1>4. ASSUME NEW b \in rest, NEW c \in rest
        PROVE  <<b.source, c.source>> \in order' <=> <<b.source, c.source>> \in order
    <2>1. b.source \in before /\ c.source \in before
      OBVIOUS
    <2> HIDE DEF before
    <2> QED
      BY <1>3, <2>1
  <1>5. <<s, s>> \notin order'
        /\ \A b \in rest : <<b.source, s>> \in order' /\ <<s, b.source>> \notin order'
    <2>1. \A b \in rest : b.source \in before
      OBVIOUS
    <2> HIDE DEF before
    <2> QED
      BY <1>3, <2>1
  <1> HIDE DEF before
  <1>6. Ordered(buckets', order')
    <2> SUFFICES ASSUME NEW b \in buckets', NEW c \in buckets', NEW d \in buckets'
                 PROVE  /\ <<b.source, b.source>> \notin order'
                        /\ b # c => \/ <<b.source, c.source>> \in order'
                                    \/ <<c.source, b.source>> \in order'
                        /\ <<b.source, c.source>> \in order' /\ <<c.source, d.source>> \in order'
                             => <<b.source, d.source>> \in order'
      BY DEF Ordered
    <2>1. CASE b = row
      BY <1>1, <1>5, <2>1
    <2>2. CASE b \in rest /\ c = row
      BY <1>1, <1>4, <1>5, <2>2 DEF Ordered
    <2>3. CASE b \in rest /\ c \in rest /\ d = row
      BY <1>4, <1>5, <2>3 DEF Ordered
    <2>4. CASE b \in rest /\ c \in rest /\ d \in rest
      BY <1>4, <2>4 DEF Ordered
    <2> QED
      BY <1>1, <2>1, <2>2, <2>3, <2>4
  <1> QED
    BY <1>2, <1>6 DEF TableInv

LEMMA OrderedPart ==
  ASSUME NEW table, NEW rel, Ordered(table, rel), NEW part, part \subseteq table
  PROVE  Ordered(part, rel)
  BY DEF Ordered

LEMMA ConsumeFits ==
  ASSUME TableInv, NEW s \in Source, Consume(s)
  PROVE  TableInv'
  <1> DEFINE rest == Others(Swept, s)
  <1>1. rest \subseteq buckets /\ \A b \in rest : b.source # s
    BY SweptKeepsOpen DEF Others
  <1>2. IsFiniteSet(rest) /\ Ordered(rest, order)
    <2> HIDE DEF rest
    <2> QED
      BY <1>1, FS_Subset, OrderedPart DEF TableInv
  <1>3. CASE Placed(Capped(rest), s, [source |-> s, count |-> 1, left |-> Window])
    <2>1. Capped(rest) \subseteq rest
      BY DEF Capped
    <2> HIDE DEF rest
    <2>2. IsFiniteSet(Capped(rest)) /\ Cardinality(Capped(rest)) <= MaxBuckets - 1
      BY <1>2, CappedFits
    <2>3. Ordered(Capped(rest), order) /\ \A b \in Capped(rest) : b.source # s
      BY <1>1, <1>2, <2>1, OrderedPart
    <2> QED
      BY <1>3, <2>2, <2>3, PlacedFits
  <1>4. ASSUME NEW b \in Open(Swept, s), NEW row, row.source = s, Placed(rest, s, row)
        PROVE  TableInv'
    <2>1. b \in buckets /\ b.source = s
      BY SweptKeepsOpen DEF Open
    <2> HIDE DEF rest
    <2>2. rest \in SUBSET (buckets \ {b})
      BY <1>1, <2>1
    <2>3. IsFiniteSet(buckets \ {b}) /\ Cardinality(buckets \ {b}) = Cardinality(buckets) - 1
      BY <2>1, FS_RemoveElement DEF TableInv
    <2>4. Cardinality(rest) <= MaxBuckets - 1
      <3>1. Cardinality(rest) <= Cardinality(buckets \ {b})
        BY <2>2, <2>3, FS_Subset
      <3>2. /\ Cardinality(rest) \in Nat /\ Cardinality(buckets) \in Nat
            /\ Cardinality(buckets) <= MaxBuckets
        BY <1>2, FS_CardinalityType DEF TableInv
      <3> QED
        BY <2>3, <3>1, <3>2, LimiterAssumption
    <2> QED
      BY <1>1, <1>2, <1>4, <2>4, PlacedFits
  <1>5. ASSUME NEW b \in Open(Swept, s)
        PROVE  b.source = s /\ [b EXCEPT !.count = @ + 1].source = b.source
    BY DEF Open
  <1> QED
    BY <1>3, <1>4, <1>5 DEF Consume

LEMMA TickFits ==
  ASSUME LimiterInv, TableInv, LimiterTick
  PROVE  TableInv'
  <1> DEFINE older(b) == [b EXCEPT !.left = IF @ > 0 THEN @ - 1 ELSE 0]
             f == [b \in buckets |-> older(b)]
  <1>1. buckets' = {older(b) : b \in buckets} /\ order' = order
    BY DEF LimiterTick
  <1>2. \A b \in buckets : older(b).source = b.source
    BY DEF LimiterInv, Bucket
  <1> HIDE DEF older
  <1>3. f \in Surjection(buckets, buckets')
    BY <1>1 DEF Surjection
  <1>4. IsFiniteSet(buckets') /\ Cardinality(buckets') <= Cardinality(buckets)
    BY <1>3, FS_Surjection DEF TableInv
  <1>5. Cardinality(buckets') <= MaxBuckets
    BY <1>4, FS_CardinalityType, LimiterAssumption DEF TableInv
  <1>6. Ordered(buckets', order')
    <2> SUFFICES ASSUME NEW b \in buckets, NEW c \in buckets, NEW d \in buckets
                 PROVE  LET x == older(b)
                            y == older(c)
                            z == older(d) IN
                        /\ <<x.source, x.source>> \notin order
                        /\ x # y => \/ <<x.source, y.source>> \in order
                                    \/ <<y.source, x.source>> \in order
                        /\ <<x.source, y.source>> \in order /\ <<y.source, z.source>> \in order
                             => <<x.source, z.source>> \in order
      BY <1>1 DEF Ordered
    <2> QED
      BY <1>2 DEF TableInv, Ordered
  <1> QED
    BY <1>4, <1>5, <1>6 DEF TableInv

LEMMA EmptyFits == ASSUME buckets = {} PROVE TableInv
  BY FS_EmptySet, LimiterAssumption DEF TableInv, Ordered

LEMMA TableStep == LimiterInv /\ TableInv /\ [LimiterNext]_limiterVars => TableInv'
  <1> SUFFICES ASSUME LimiterInv, TableInv, [LimiterNext]_limiterVars PROVE TableInv'
    OBVIOUS
  <1>1. CASE Clear
    <2>1. buckets' = {}
      BY <1>1 DEF Clear
    <2> QED
      BY <2>1, FS_EmptySet, LimiterAssumption DEF TableInv, Ordered
  <1>2. CASE UNCHANGED limiterVars
    BY <1>2 DEF limiterVars, TableInv
  <1> QED
    BY <1>1, <1>2, ConsumeFits, TickFits DEF LimiterNext

\* A source is refused only for its own admissions within the window, and unless its
\* window was dropped it gets at most twice the maximum, less one, within any window,
\* however the table is pruned; and the table keeps its bound (consume, ensureCapacity).
THEOREM LimiterIsExact == LimiterSpec => []LimiterExact
  <1>1. LimiterInv /\ TableInv => LimiterExact
    BY RecentBound DEF LimiterInv, TableInv, LimiterExact
  <1>2. LimiterInit => TableInv
    BY EmptyFits DEF LimiterInit
  <1> QED
    BY LimiterInitInv, LimiterStep, TableStep, <1>1, <1>2, PTL DEF LimiterSpec

-----------------------------------------------------------------------------
(* MemoryStore: one call at a time on a point.  While a single call is     *)
(* under way on a point, nothing else writes it: so what the call read     *)
(* before its write is still so when the write is applied, and what it     *)
(* wrote is still so when it is answered.  A point two calls were ever     *)
(* under way on at once is contended, and stays so.                        *)

\* The counts a delete may report.
Counts == {0} \cup {Cardinality(S) : S \in SUBSET Key}

OpShape == [stage : Stage, kind : {"put", "drop"}, user : User \cup {None}, ids : SUBSET Id,
            at : Nat, created : Nat, told : Counts, removed : Counts]

CallsTypeOK ==
    /\ now \in Nat
    /\ points \in [Key -> Payload \cup {None}]
    /\ ops \in [Call -> OpShape]
    /\ known \in [Key -> {"put", "drop", "unsure", "contended"}]

OneAtATime ==
    \A k \in Key, c \in Call : InUse(c, k) /\ known[k] # "contended" =>
        /\ known[k] = "unsure"
        /\ \A d \in Call : InUse(d, k) => d = c

KnownTrue ==
    \A k \in Key : /\ known[k] = "put" => points[k] # None
                   /\ known[k] = "drop" => points[k] = None

OnePoint ==
    \A c \in Call : ops[c].kind = "put" /\ ops[c].stage # "idle" =>
        \E k \in Key : KeysOf(ops[c]) = {k}

Alone(c) == KeysOf(ops[c]) \cap Contended = {}

ReadStillTrue ==
    \A c \in Call : Alone(c) =>
        /\ ops[c].stage = "writing" /\ ops[c].kind = "drop" =>
             ops[c].told = Told(ops[c])
        /\ ops[c].stage \in {"writing", "background"} /\ ops[c].kind = "put" =>
             \A k \in KeysOf(ops[c]) : points[k] # None => ops[c].created = points[k].created

AppliedStillTrue ==
    \A c \in Call : ops[c].stage = "applied" =>
        /\ \A k \in KeysOf(ops[c]) \ Contended :
             IF ops[c].kind = "put" THEN points[k] # None ELSE points[k] = None
        /\ ops[c].kind = "drop" /\ Alone(c) => ops[c].told = ops[c].removed

CallsInv ==
    /\ CallsTypeOK /\ OneAtATime /\ KnownTrue /\ OnePoint
    /\ ReadStillTrue /\ AppliedStillTrue

LEMMA CallsInit == StoreInit => CallsInv
  <1> SUFFICES ASSUME StoreInit PROVE CallsInv
    OBVIOUS
  <1> USE DEF StoreInit
  <1>1. \A c \in Call : ops[c] = Idle
    OBVIOUS
  <1>2. Idle \in OpShape /\ Idle.stage = "idle" /\ Idle.kind = "put"
    BY DEF Idle, OpShape, Stage, Counts
  <1>3. CallsTypeOK
    <2>1. points \in [Key -> Payload \cup {None}]
      BY DEF Payload
    <2>2. known \in [Key -> {"put", "drop", "unsure", "contended"}] /\ now \in Nat
      OBVIOUS
    <2>3. ops \in [Call -> OpShape]
      BY <1>2
    <2> QED
      BY <2>1, <2>2, <2>3 DEF CallsTypeOK
  <1>4. OneAtATime /\ OnePoint /\ ReadStillTrue /\ AppliedStillTrue
    BY <1>1, <1>2 DEF OneAtATime, OnePoint, ReadStillTrue, AppliedStillTrue, InUse
  <1>5. KnownTrue
    BY DEF KnownTrue
  <1> QED
    BY <1>3, <1>4, <1>5 DEF CallsInv

\* No point is under way in an idle call.
LEMMA IdleTouchesNothing ==
  /\ Idle \in OpShape /\ Idle.stage = "idle" /\ Idle.kind = "put"
  /\ KeysOf(Idle) = {}
  BY DEF Idle, OpShape, Stage, Counts, KeysOf

\* A step of one call that writes no point and settles no answer: what has to be
\* shown of it concerns that call alone.
LEMMA OneCallMoves ==
  ASSUME CallsInv, NEW c \in Call, NEW o \in OpShape,
         ops' = [ops EXCEPT ![c] = o], UNCHANGED <<now, points, known>>,
         o.stage # "idle" => KeysOf(o) = KeysOf(ops[c]) /\ ops[c].stage # "idle",
         o.stage # "applied",
         o.stage # "idle" => o.kind = ops[c].kind,
         KeysOf(o) \cap Contended = {} =>
           /\ o.stage = "writing" /\ o.kind = "drop" => o.told = Told(o)
           /\ o.stage \in {"writing", "background"} /\ o.kind = "put" =>
                \A k \in KeysOf(o) : points[k] # None => o.created = points[k].created
  PROVE  CallsInv'
  <1>1. ops'[c] = o /\ \A d \in Call : d # c => ops'[d] = ops[d]
    BY DEF CallsInv, CallsTypeOK
  <1>2. CallsTypeOK'
    BY DEF CallsInv, CallsTypeOK
  <1>3. Contended' = Contended
    BY DEF Contended
  <1>4. \A d \in Call, k \in Key : InUse(d, k)' => InUse(d, k)
    BY <1>1 DEF InUse
  <1>5. OneAtATime'
    BY <1>4 DEF CallsInv, OneAtATime
  <1>6. KnownTrue'
    BY DEF CallsInv, KnownTrue
  <1>7. OnePoint'
    BY <1>1 DEF CallsInv, OnePoint
  <1>8. ReadStillTrue'
    <2> SUFFICES ASSUME NEW d \in Call, Alone(d)'
                 PROVE  /\ ops'[d].stage = "writing" /\ ops'[d].kind = "drop" =>
                             ops'[d].told = Told(ops[d])'
                        /\ ops'[d].stage \in {"writing", "background"} /\ ops'[d].kind = "put" =>
                             \A k \in KeysOf(ops'[d]) : points'[k] # None =>
                               ops'[d].created = points'[k].created
      BY DEF ReadStillTrue, KeysOf
    <2>1. CASE d = c
      <3>1. Told(ops[d])' = Told(o) /\ KeysOf(o) \cap Contended = {}
        BY <1>1, <1>3, <2>1 DEF Told, Present, KeysOf, Alone
      <3> QED
        BY <1>1, <2>1, <3>1
    <2>2. CASE d # c
      <3>1. Told(ops[d])' = Told(ops[d]) /\ Alone(d) /\ ops'[d] = ops[d]
        BY <1>1, <1>3, <2>2 DEF Told, Present, KeysOf, Alone
      <3> QED
        BY <3>1 DEF CallsInv, ReadStillTrue
    <2> QED
      BY <2>1, <2>2
  <1>9. AppliedStillTrue'
    <2> SUFFICES ASSUME NEW d \in Call, ops'[d].stage = "applied"
                 PROVE  /\ \A k \in KeysOf(ops'[d]) \ Contended :
                             IF ops'[d].kind = "put" THEN points[k] # None ELSE points[k] = None
                        /\ ops'[d].kind = "drop" /\ Alone(d)' => ops'[d].told = ops'[d].removed
      BY <1>3 DEF AppliedStillTrue, KeysOf
    <2>1. d # c /\ ops'[d] = ops[d]
      BY <1>1
    <2>2. Alone(d)' = Alone(d)
      BY <1>3, <2>1 DEF Alone, KeysOf
    <2> QED
      BY <2>1, <2>2 DEF CallsInv, AppliedStillTrue
  <1> QED
    BY <1>2, <1>5, <1>6, <1>7, <1>8, <1>9 DEF CallsInv

\* A point under way in two calls becomes contended, any other one unsure.
LEMMA BeginCall ==
  ASSUME CallsInv, NEW c \in Call, NEW kind \in {"put", "drop"}, NEW u \in Active,
         NEW I \in SUBSET Id, kind = "put" => \E i \in Id : I = {i},
         Begin(c, kind, u, I)
  PROVE  CallsInv'
  <1> DEFINE o == [Idle EXCEPT !.stage = "reading", !.kind = kind, !.user = u, !.ids = I,
                               !.at = IF kind = "put" THEN now ELSE 0]
  <1>1. /\ o \in OpShape /\ o.stage = "reading" /\ o.kind = kind /\ o.user = u /\ o.ids = I
        /\ ops[c].stage = "idle" /\ ops \in [Call -> OpShape]
    BY StoreAssumption DEF CallsInv, CallsTypeOK, OpShape, Stage, Counts, Idle, Begin
  <1>2. KeysOf(o) # {} /\ ops' = [ops EXCEPT ![c] = o] /\ UNCHANGED <<now, points>>
    BY DEF Begin
  <1>3. known' = [k \in Key |->
                    IF k \notin KeysOf(o) \/ known[k] = "contended" THEN known[k]
                    ELSE IF \E d \in Call : InUse(d, k) THEN "contended" ELSE "unsure"]
    BY DEF Begin
  <1> HIDE DEF o
  <1>4. ops'[c] = o /\ \A d \in Call : d # c => ops'[d] = ops[d]
    BY <1>1, <1>2
  <1>5. CallsTypeOK'
    <2>1. known \in [Key -> {"put", "drop", "unsure", "contended"}]
      BY DEF CallsInv, CallsTypeOK
    <2>2. known' \in [Key -> {"put", "drop", "unsure", "contended"}]
      BY <1>3, <2>1
    <2>3. ops' \in [Call -> OpShape]
      BY <1>1, <1>2
    <2> QED
      BY <1>2, <2>2, <2>3 DEF CallsInv, CallsTypeOK
  <1>6. Contended \subseteq Contended'
    BY <1>3 DEF Contended
  <1>7. \A d \in Call, k \in Key : InUse(d, k)' <=> IF d = c THEN k \in KeysOf(o) ELSE InUse(d, k)
    BY <1>1, <1>4 DEF InUse, KeysOf
  <1>8. OneAtATime'
    <2> SUFFICES ASSUME NEW k \in Key, NEW d \in Call, InUse(d, k)', known'[k] # "contended"
                 PROVE  known'[k] = "unsure" /\ \A e \in Call : InUse(e, k)' => e = d
      BY DEF OneAtATime
    <2>1. CASE k \in KeysOf(o)
      <3>1. known'[k] = "unsure" /\ \A e \in Call : ~InUse(e, k)
        BY <1>3, <2>1
      <3> QED
        BY <1>7, <3>1
    <2>2. CASE k \notin KeysOf(o)
      <3>1. known'[k] = known[k] /\ d # c /\ InUse(d, k)
        BY <1>3, <1>7, <2>2
      <3>2. \A e \in Call : InUse(e, k)' => InUse(e, k)
        BY <1>7, <2>2
      <3> QED
        BY <3>1, <3>2 DEF CallsInv, OneAtATime
    <2> QED
      BY <2>1, <2>2
  <1>9. KnownTrue'
    BY <1>2, <1>3 DEF CallsInv, KnownTrue
  <1>10. OnePoint'
    <2> SUFFICES ASSUME NEW d \in Call, ops'[d].kind = "put", ops'[d].stage # "idle"
                 PROVE  \E k \in Key : KeysOf(ops'[d]) = {k}
      BY DEF OnePoint, KeysOf
    <2>1. CASE d = c
      <3>1. PICK i \in Id : I = {i}
        BY <1>1, <1>4, <2>1
      <3>2. KeysOf(o) \subseteq {<<u, i>>} /\ KeysOf(o) \subseteq Key
        BY <1>1, <3>1 DEF KeysOf
      <3> QED
        BY <1>2, <1>4, <2>1, <3>2
    <2>2. CASE d # c
      BY <1>4, <2>2 DEF CallsInv, OnePoint
    <2> QED
      BY <2>1, <2>2
  <1>11. \A d \in Call : Alone(d)' /\ d # c => Alone(d)
    BY <1>4, <1>6 DEF Alone, KeysOf
  <1>12. ReadStillTrue'
    <2> SUFFICES ASSUME NEW d \in Call, Alone(d)', d # c
                 PROVE  /\ ops'[d].stage = "writing" /\ ops'[d].kind = "drop" =>
                             ops'[d].told = Told(ops[d])'
                        /\ ops'[d].stage \in {"writing", "background"} /\ ops'[d].kind = "put" =>
                             \A k \in KeysOf(ops'[d]) : points'[k] # None =>
                               ops'[d].created = points'[k].created
      BY <1>1, <1>4 DEF ReadStillTrue, KeysOf
    <2>1. Told(ops[d])' = Told(ops[d]) /\ ops'[d] = ops[d] /\ Alone(d)
      BY <1>2, <1>4, <1>11 DEF Told, Present, KeysOf
    <2> QED
      BY <1>2, <2>1 DEF CallsInv, ReadStillTrue
  <1>13. AppliedStillTrue'
    <2> SUFFICES ASSUME NEW d \in Call, ops'[d].stage = "applied"
                 PROVE  /\ \A k \in KeysOf(ops'[d]) \ Contended' :
                             IF ops'[d].kind = "put" THEN points[k] # None ELSE points[k] = None
                        /\ ops'[d].kind = "drop" /\ Alone(d)' => ops'[d].told = ops'[d].removed
      BY <1>2 DEF AppliedStillTrue, KeysOf
    <2>1. d # c /\ ops'[d] = ops[d]
      BY <1>1, <1>4
    <2> QED
      BY <1>6, <1>11, <2>1 DEF CallsInv, AppliedStillTrue
  <1> QED
    BY <1>5, <1>8, <1>9, <1>10, <1>12, <1>13 DEF CallsInv

\* What a call reads is what its write will meet.
LEMMA ReadCall ==
  ASSUME CallsInv, NEW c \in Call, Read(c) PROVE CallsInv'
  <1>1. /\ ops \in [Call -> OpShape] /\ ops[c] \in OpShape /\ ops[c].stage = "reading"
        /\ UNCHANGED <<now, points, known>>
    BY DEF CallsInv, CallsTypeOK, Read
  <1>2. CASE ops[c].kind = "put"
    <2> DEFINE x == Original(ops[c])
               o == [ops[c] EXCEPT !.stage = "writing", !.created = x]
    <2>1. PICK k \in Key : KeysOf(ops[c]) = {k}
      BY <1>1, <1>2 DEF CallsInv, OnePoint
    <2>2. x = IF points[k] = None THEN ops[c].at ELSE points[k].created
      BY <2>1 DEF Original
    <2>3. x \in Nat
      BY <1>1, <2>2 DEF CallsInv, CallsTypeOK, OpShape, Payload
    <2> HIDE DEF x
    <2>4. /\ o \in OpShape /\ o.stage = "writing" /\ o.kind = "put" /\ o.created = x
          /\ o.user = ops[c].user /\ o.ids = ops[c].ids
      BY <1>1, <1>2, <2>3 DEF OpShape, Stage
    <2>5. ops' = [ops EXCEPT ![c] = o]
      BY <1>2 DEF Read, x
    <2> HIDE DEF o
    <2>6. KeysOf(o) = {k}
      BY <2>1, <2>4 DEF KeysOf
    <2>7. \A q \in KeysOf(o) : points[q] # None => o.created = points[q].created
      BY <2>2, <2>4, <2>6
    <2> QED
      BY <1>1, <1>2, <2>1, <2>4, <2>5, <2>6, <2>7, OneCallMoves
  <1>3. CASE ops[c].kind # "put"
    <2> DEFINE x == Told(ops[c])
               o == [ops[c] EXCEPT !.stage = "writing", !.told = x]
    <2>1. x \in Counts
      BY DEF Told, Present, KeysOf, Counts
    <2> HIDE DEF x
    <2>2. /\ o \in OpShape /\ o.stage = "writing" /\ o.kind = ops[c].kind /\ o.told = x
          /\ o.user = ops[c].user /\ o.ids = ops[c].ids
      BY <1>1, <2>1 DEF OpShape, Stage
    <2>3. ops' = [ops EXCEPT ![c] = o]
      BY <1>3 DEF Read, x
    <2> HIDE DEF o
    <2>4. KeysOf(o) = KeysOf(ops[c]) /\ Told(o) = x
      BY <2>2 DEF KeysOf, Told, Present, x
    <2> QED
      BY <1>1, <1>3, <2>2, <2>3, <2>4, OneCallMoves
  <1> QED
    BY <1>2, <1>3

\* Giving a call up leaves its write on the way, or nothing.
LEMMA AbandonCall ==
  ASSUME CallsInv, NEW c \in Call, Abandon(c) \/ LoseWrite(c) PROVE CallsInv'
  <1>1. /\ ops \in [Call -> OpShape] /\ ops[c] \in OpShape
        /\ UNCHANGED <<now, points, known>>
    BY DEF CallsInv, CallsTypeOK, Abandon, LoseWrite
  <1>2. CASE ops' = [ops EXCEPT ![c] = Idle]
    BY <1>1, <1>2, IdleTouchesNothing, OneCallMoves
  <1>3. CASE /\ ops[c].stage = "writing"
             /\ ops' = [ops EXCEPT ![c] = [ops[c] EXCEPT !.stage = "background", !.told = 0]]
    <2> DEFINE o == [ops[c] EXCEPT !.stage = "background", !.told = 0]
    <2>1. /\ o \in OpShape /\ o.stage = "background" /\ o.kind = ops[c].kind
          /\ o.created = ops[c].created /\ o.user = ops[c].user /\ o.ids = ops[c].ids
      BY <1>1 DEF OpShape, Stage, Counts
    <2>2. ops' = [ops EXCEPT ![c] = o]
      BY <1>3
    <2> HIDE DEF o
    <2>3. KeysOf(o) = KeysOf(ops[c])
      BY <2>1 DEF KeysOf
    <2>4. KeysOf(o) \cap Contended = {} /\ o.kind = "put" =>
            \A k \in KeysOf(o) : points[k] # None => o.created = points[k].created
      BY <1>3, <2>1, <2>3 DEF CallsInv, ReadStillTrue, Alone
    <2> QED
      BY <1>1, <1>3, <2>1, <2>2, <2>3, <2>4, OneCallMoves
  <1>4. CASE Abandon(c)
    <2>1. ops' = [ops EXCEPT ![c] =
            IF ops[c].stage = "writing" THEN [ops[c] EXCEPT !.stage = "background", !.told = 0]
            ELSE Idle]
      BY <1>1, <1>4 DEF Abandon
    <2> QED
      BY <1>2, <1>3, <2>1
  <1>5. CASE LoseWrite(c)
    BY <1>2, <1>5 DEF LoseWrite
  <1> QED
    BY <1>4, <1>5

\* The write of one call, on points no other call is at unless they are contended.
LEMMA ApplyCall ==
  ASSUME CallsInv, NEW c \in Call, Apply(c)
  PROVE  /\ CallsInv'
         /\ \A k \in Key \ Contended' :
              points[k] # None /\ points'[k] # None => points'[k].created = points[k].created
  <1> DEFINE o == ops[c]
             gone == IF o.kind = "drop" THEN Present(o) ELSE {}
             p == IF o.stage = "background" THEN Idle
                  ELSE [o EXCEPT !.stage = "applied", !.removed = Cardinality(gone),
                                 !.at = 0, !.created = 0]
  <1>1. /\ ops \in [Call -> OpShape] /\ o \in OpShape /\ o.stage \in {"writing", "background"}
        /\ UNCHANGED <<now, known>>
        /\ points \in [Key -> Payload \cup {None}]
    BY DEF CallsInv, CallsTypeOK, Apply
  <1>2. /\ ops' = [ops EXCEPT ![c] = p]
        /\ points' = [k \in Key |->
                        IF o.kind = "put" /\ k \in KeysOf(o) THEN Written(c)
                        ELSE IF k \in gone THEN None ELSE points[k]]
    BY DEF Apply
  <1>3. gone \subseteq KeysOf(o) /\ Cardinality(gone) \in Counts /\ KeysOf(o) \subseteq Key
    BY DEF Present, KeysOf, Counts
  <1>4. Written(c) \in Payload /\ Written(c) # None /\ Written(c).created = o.created
    BY <1>1, StoreAssumption DEF Written, Payload, OpShape
  <1>5. /\ p \in OpShape
        /\ p.stage = "applied" =>
             /\ p.kind = o.kind /\ p.user = o.user /\ p.ids = o.ids /\ p.told = o.told
             /\ p.removed = Cardinality(gone) /\ o.stage = "writing"
        /\ p.stage # "applied" => p.stage = "idle"
    <2>1. CASE o.stage = "background"
      BY <2>1, IdleTouchesNothing
    <2>2. CASE o.stage # "background"
      BY <1>1, <1>3, <2>2 DEF OpShape, Stage
    <2> QED
      BY <2>1, <2>2
  <1>g. /\ o.kind = "drop" => gone = Present(o)
        /\ o.kind # "drop" => gone = {}
    OBVIOUS
  <1>k. Alone(c) => KeysOf(o) \cap Contended = {}
    BY DEF Alone
  <1> HIDE DEF gone, p
  <1>6. \A k \in Key : k \notin KeysOf(o) => points'[k] = points[k]
    BY <1>2, <1>3
  <1>7. \A k \in KeysOf(o) : InUse(c, k)
    BY <1>1 DEF InUse
  <1>8. ops'[c] = p /\ \A d \in Call : d # c => ops'[d] = ops[d]
    BY <1>1, <1>2
  <1>9. Contended' = Contended
    BY <1>1 DEF Contended
  <1>10. CallsTypeOK'
    <2>1. points' \in [Key -> Payload \cup {None}]
      BY <1>1, <1>2, <1>4
    <2>2. ops' \in [Call -> OpShape]
      BY <1>1, <1>2, <1>5
    <2> QED
      BY <1>1, <2>1, <2>2 DEF CallsInv, CallsTypeOK
  <1>11. \A d \in Call, k \in Key : InUse(d, k)' => InUse(d, k)
    <2>1. KeysOf(p) = KeysOf(o) \/ p.stage = "idle"
      BY <1>5 DEF KeysOf
    <2> QED
      BY <1>1, <1>8, <2>1 DEF InUse, KeysOf
  <1>12. OneAtATime'
    BY <1>1, <1>11 DEF CallsInv, OneAtATime
  \* What another call is at by itself, this write leaves alone.
  <1>13. ASSUME NEW d \in Call, d # c, ops[d].stage # "idle"
         PROVE  /\ \A k \in KeysOf(ops[d]) \ Contended : points'[k] = points[k]
                /\ Alone(d) => Told(ops[d])' = Told(ops[d])
    <2>1. ASSUME NEW k \in KeysOf(ops[d]) \ Contended PROVE points'[k] = points[k]
      <3>1. k \in Key /\ InUse(d, k) /\ known[k] # "contended"
        BY <1>13 DEF InUse, KeysOf, Contended
      <3>2. k \notin KeysOf(o)
        BY <1>7, <1>13, <3>1 DEF CallsInv, OneAtATime
      <3> QED
        BY <1>6, <3>1, <3>2
    <2>2. ASSUME Alone(d) PROVE Told(ops[d])' = Told(ops[d])
      <3>1. \A k \in KeysOf(ops[d]) : points'[k] = points[k]
        BY <2>1, <2>2 DEF Alone
      <3>2. Present(ops[d])' = Present(ops[d])
        BY <1>8, <1>13, <3>1 DEF Present, KeysOf
      <3> QED
        BY <3>2 DEF Told
    <2> QED
      BY <2>1, <2>2
  <1>14. KnownTrue'
    <2> SUFFICES ASSUME NEW k \in Key, known[k] \in {"put", "drop"}
                 PROVE  points'[k] = points[k]
      BY <1>1 DEF CallsInv, KnownTrue
    <2>1. k \notin KeysOf(o)
      BY <1>7 DEF CallsInv, OneAtATime
    <2> QED
      BY <1>6, <2>1
  <1>15. OnePoint'
    BY <1>5, <1>8 DEF CallsInv, OnePoint, KeysOf
  <1>16. ReadStillTrue'
    <2> SUFFICES ASSUME NEW d \in Call, Alone(d)', ops'[d].stage \in {"writing", "background"}
                 PROVE  /\ ops'[d].stage = "writing" /\ ops'[d].kind = "drop" =>
                             ops'[d].told = Told(ops[d])'
                        /\ ops'[d].kind = "put" =>
                             \A k \in KeysOf(ops'[d]) : points'[k] # None =>
                               ops'[d].created = points'[k].created
      BY DEF ReadStillTrue, KeysOf
    <2>1. d # c /\ ops'[d] = ops[d] /\ ops[d].stage # "idle"
      BY <1>5, <1>8
    <2>2. Alone(d)
      BY <1>9, <2>1 DEF Alone, KeysOf
    <2>3. Told(ops[d])' = Told(ops[d]) /\ \A k \in KeysOf(ops[d]) : points'[k] = points[k]
      BY <1>13, <2>1, <2>2 DEF Alone
    <2> QED
      BY <2>1, <2>2, <2>3 DEF CallsInv, ReadStillTrue
  <1>17. AppliedStillTrue'
    <2> SUFFICES ASSUME NEW d \in Call, ops'[d].stage = "applied"
                 PROVE  /\ \A k \in KeysOf(ops'[d]) \ Contended :
                             IF ops'[d].kind = "put" THEN points'[k] # None ELSE points'[k] = None
                        /\ ops'[d].kind = "drop" /\ Alone(d)' => ops'[d].told = ops'[d].removed
      BY <1>9 DEF AppliedStillTrue, KeysOf
    <2>1. CASE d = c
      <3>1. /\ KeysOf(ops'[d]) = KeysOf(o) /\ ops'[d].kind = o.kind /\ ops'[d].told = o.told
            /\ ops'[d].removed = Cardinality(gone) /\ o.stage = "writing"
        BY <1>5, <1>8, <2>1 DEF KeysOf
      <3>2. o.kind = "put" => \A k \in KeysOf(o) : points'[k] # None
        BY <1>2, <1>3, <1>4
      <3>3. o.kind # "put" => \A k \in KeysOf(o) : points'[k] = None
        <4> SUFFICES ASSUME o.kind # "put", NEW k \in KeysOf(o) PROVE points'[k] = None
          OBVIOUS
        <4>1. o.kind = "drop" /\ k \in Key
          BY <1>1, <1>3 DEF OpShape
        <4>2. k \notin gone => points[k] = None
          BY <1>g, <4>1 DEF Present
        <4> QED
          BY <1>2, <4>1, <4>2
      <3>4. o.kind = "drop" /\ Alone(d)' => o.told = Cardinality(gone)
        <4> SUFFICES ASSUME o.kind = "drop", Alone(d)' PROVE o.told = Cardinality(gone)
          OBVIOUS
        <4>1. Alone(c)
          BY <1>9, <2>1, <3>1 DEF Alone, KeysOf
        <4>2. o.told = Told(o)
          BY <3>1, <4>1 DEF CallsInv, ReadStillTrue
        <4> QED
          BY <1>g, <4>2 DEF Told
      <3> QED
        BY <3>1, <3>2, <3>3, <3>4
    <2>2. CASE d # c
      <3>1. ops'[d] = ops[d] /\ \A k \in KeysOf(ops[d]) \ Contended : points'[k] = points[k]
        BY <1>8, <1>13, <2>2
      <3>2. Alone(d)' => Alone(d)
        BY <1>9, <3>1 DEF Alone, KeysOf
      <3>3. \A k \in KeysOf(ops[d]) \ Contended :
              IF ops[d].kind = "put" THEN points[k] # None ELSE points[k] = None
        BY <3>1 DEF CallsInv, AppliedStillTrue
      <3>4. ops[d].kind = "drop" /\ Alone(d)' => ops[d].told = ops[d].removed
        BY <3>1, <3>2 DEF CallsInv, AppliedStillTrue
      <3> QED
        BY <3>1, <3>3, <3>4
    <2> QED
      BY <2>1, <2>2
  <1>18. ASSUME NEW k \in Key \ Contended', points[k] # None, points'[k] # None
         PROVE  points'[k].created = points[k].created
    <2>1. CASE o.kind = "put" /\ k \in KeysOf(o)
      <3>1. KeysOf(o) = {k}
        BY <1>1, <2>1 DEF CallsInv, OnePoint
      <3>2. Alone(c)
        BY <1>9, <1>18, <3>1 DEF Alone
      <3>3. o.created = points[k].created
        BY <1>1, <1>18, <2>1, <3>2 DEF CallsInv, ReadStillTrue
      <3> QED
        BY <1>2, <1>4, <2>1, <3>3
    <2>2. CASE ~(o.kind = "put" /\ k \in KeysOf(o))
      BY <1>2, <1>18, <2>2
    <2> QED
      BY <2>1, <2>2
  <1> QED
    BY <1>10, <1>12, <1>14, <1>15, <1>16, <1>17, <1>18 DEF CallsInv

\* The caller is told what is so.
LEMMA AnswerCall ==
  ASSUME CallsInv, NEW c \in Call, Answer(c) PROVE CallsInv'
  <1>1. /\ ops \in [Call -> OpShape] /\ ops[c] \in OpShape /\ ops[c].stage = "applied"
        /\ ops' = [ops EXCEPT ![c] = Idle] /\ UNCHANGED <<now, points>>
        /\ known \in [Key -> {"put", "drop", "unsure", "contended"}]
    BY DEF CallsInv, CallsTypeOK, Answer
  <1>2. known' = [k \in Key |-> IF k \in KeysOf(ops[c]) \ Contended THEN ops[c].kind
                                ELSE known[k]]
    BY DEF Answer
  <1>3. ops'[c] = Idle /\ \A d \in Call : d # c => ops'[d] = ops[d]
    BY <1>1
  <1>4. CallsTypeOK'
    <2>1. known' \in [Key -> {"put", "drop", "unsure", "contended"}]
      BY <1>1, <1>2 DEF OpShape
    <2>2. ops' \in [Call -> OpShape]
      BY <1>1, IdleTouchesNothing
    <2> QED
      BY <1>1, <2>1, <2>2 DEF CallsInv, CallsTypeOK
  <1>5. Contended' = Contended
    <2>1. ops[c].kind \in {"put", "drop"}
      BY <1>1 DEF OpShape
    <2> QED
      BY <1>1, <1>2, <2>1 DEF Contended
  <1>6. \A d \in Call, k \in Key : InUse(d, k)' => InUse(d, k) /\ d # c
    BY <1>3, IdleTouchesNothing DEF InUse, KeysOf
  <1>7. OneAtATime'
    <2> SUFFICES ASSUME NEW k \in Key, NEW d \in Call, InUse(d, k)', known'[k] # "contended"
                 PROVE  known'[k] = "unsure" /\ \A e \in Call : InUse(e, k)' => e = d
      BY DEF OneAtATime
    <2>1. InUse(d, k) /\ d # c /\ k \notin Contended
      BY <1>5, <1>6 DEF Contended
    <2>2. ~InUse(c, k)
      BY <2>1 DEF CallsInv, OneAtATime, Contended
    <2>3. known'[k] = known[k]
      BY <1>1, <1>2, <2>2 DEF InUse
    <2> QED
      BY <1>6, <2>1, <2>3 DEF CallsInv, OneAtATime
  <1>8. KnownTrue'
    <2> SUFFICES ASSUME NEW k \in Key
                 PROVE  /\ known'[k] = "put" => points[k] # None
                        /\ known'[k] = "drop" => points[k] = None
      BY <1>1 DEF KnownTrue
    <2>1. CASE k \in KeysOf(ops[c]) \ Contended
      <3>1. known'[k] = ops[c].kind
        BY <1>2, <2>1
      <3>2. IF ops[c].kind = "put" THEN points[k] # None ELSE points[k] = None
        BY <1>1, <2>1 DEF CallsInv, AppliedStillTrue
      <3> QED
        BY <3>1, <3>2
    <2>2. CASE k \notin KeysOf(ops[c]) \ Contended
      BY <1>2, <2>2 DEF CallsInv, KnownTrue
    <2> QED
      BY <2>1, <2>2
  <1>9. OnePoint'
    BY <1>3, IdleTouchesNothing DEF CallsInv, OnePoint, KeysOf
  <1>10. \A d \in Call : d # c => Told(ops[d])' = Told(ops[d]) /\ Alone(d)' = Alone(d)
    BY <1>1, <1>3, <1>5 DEF Told, Present, KeysOf, Alone
  <1>11. ReadStillTrue'
    <2> SUFFICES ASSUME NEW d \in Call, Alone(d)', d # c
                 PROVE  /\ ops'[d].stage = "writing" /\ ops'[d].kind = "drop" =>
                             ops'[d].told = Told(ops[d])'
                        /\ ops'[d].stage \in {"writing", "background"} /\ ops'[d].kind = "put" =>
                             \A k \in KeysOf(ops'[d]) : points'[k] # None =>
                               ops'[d].created = points'[k].created
      BY <1>3, IdleTouchesNothing DEF ReadStillTrue, KeysOf
    <2> QED
      BY <1>1, <1>3, <1>10 DEF CallsInv, ReadStillTrue
  <1>12. AppliedStillTrue'
    <2> SUFFICES ASSUME NEW d \in Call, ops'[d].stage = "applied"
                 PROVE  /\ \A k \in KeysOf(ops'[d]) \ Contended :
                             IF ops'[d].kind = "put" THEN points[k] # None ELSE points[k] = None
                        /\ ops'[d].kind = "drop" /\ Alone(d)' => ops'[d].told = ops'[d].removed
      BY <1>1, <1>5 DEF AppliedStillTrue, KeysOf
    <2>1. d # c /\ ops'[d] = ops[d]
      BY <1>3, IdleTouchesNothing
    <2> QED
      BY <1>10, <2>1 DEF CallsInv, AppliedStillTrue
  <1> QED
    BY <1>4, <1>7, <1>8, <1>9, <1>11, <1>12 DEF CallsInv

\* Every step of the store preserves the invariant and the creation times.
LEMMA CallsStep ==
  ASSUME CallsInv, [StoreNext]_storeVars
  PROVE  /\ CallsInv'
         /\ \A k \in Key \ Contended' :
              points[k] # None /\ points'[k] # None => points'[k].created = points[k].created
  <1> DEFINE Kept == \A k \in Key \ Contended' :
               points[k] # None /\ points'[k] # None => points'[k].created = points[k].created
  <1>0. points' = points => Kept
    OBVIOUS
  <1> HIDE DEF Kept
  <1>1. ASSUME NEW c \in Call, NEW u \in Active, NEW i \in Id, BeginUpsert(c, u, i)
        PROVE  CallsInv' /\ Kept
    <2>1. Begin(c, "put", u, {i}) /\ {i} \in SUBSET Id /\ \E x \in Id : {i} = {x}
      BY <1>1 DEF BeginUpsert
    <2>2. CallsInv'
      BY <2>1, BeginCall
    <2> QED
      BY <1>0, <2>1, <2>2 DEF Begin
  <1>2. ASSUME NEW c \in Call, NEW u \in Active, NEW I \in SUBSET Id, BeginDelete(c, u, I)
        PROVE  CallsInv' /\ Kept
    BY <1>0, <1>2, BeginCall DEF BeginDelete, Begin
  <1>3. ASSUME NEW c \in Call, Read(c) PROVE CallsInv' /\ Kept
    BY <1>0, <1>3, ReadCall DEF Read
  <1>4. ASSUME NEW c \in Call, Apply(c) PROVE CallsInv' /\ Kept
    BY <1>4, ApplyCall DEF Kept
  <1>5. ASSUME NEW c \in Call, Answer(c) PROVE CallsInv' /\ Kept
    BY <1>0, <1>5, AnswerCall DEF Answer
  <1>6. ASSUME NEW c \in Call, Abandon(c) \/ LoseWrite(c) PROVE CallsInv' /\ Kept
    BY <1>0, <1>6, AbandonCall DEF Abandon, LoseWrite
  <1>7. ASSUME UNCHANGED <<points, ops, known>>, now' \in Nat PROVE CallsInv' /\ Kept
    <2>1. /\ \A c \in Call, k \in Key : InUse(c, k)' = InUse(c, k)
          /\ \A c \in Call : /\ Told(ops[c])' = Told(ops[c]) /\ Alone(c)' = Alone(c)
                             /\ KeysOf(ops[c])' = KeysOf(ops[c])
          /\ Contended' = Contended
      BY <1>7 DEF InUse, Told, Present, Alone, KeysOf, Contended
    <2>2. CallsTypeOK' /\ OneAtATime' /\ KnownTrue' /\ OnePoint'
      BY <1>7, <2>1 DEF CallsInv, CallsTypeOK, OneAtATime, KnownTrue, OnePoint
    <2>3. ReadStillTrue' /\ AppliedStillTrue'
      BY <1>7, <2>1 DEF CallsInv, ReadStillTrue, AppliedStillTrue
    <2> QED
      BY <1>0, <1>7, <2>2, <2>3 DEF CallsInv
  <1>8. now \in Nat
    BY DEF CallsInv, CallsTypeOK
  <1>9. CASE (\E u \in Active : BeginWalk(u)) \/ Page \/ EndWalk \/ Tick \/ UNCHANGED storeVars
    <2>1. UNCHANGED <<points, ops, known>> /\ now' \in Nat
      <3>1. ASSUME NEW u \in Active, BeginWalk(u)
            PROVE  UNCHANGED <<points, ops, known>> /\ now' \in Nat
        BY <1>8, <3>1 DEF BeginWalk
      <3>2. CASE Page
        BY <1>8, <3>2 DEF Page
      <3>3. CASE EndWalk
        BY <1>8, <3>3 DEF EndWalk
      <3>4. CASE Tick
        BY <1>8, <3>4 DEF Tick
      <3>5. CASE UNCHANGED storeVars
        BY <1>8, <3>5 DEF storeVars
      <3> QED
        BY <1>9, <3>1, <3>2, <3>3, <3>4, <3>5
    <2> QED
      BY <1>7, <2>1
  <1> QED
    BY <1>1, <1>2, <1>3, <1>4, <1>5, <1>6, <1>9 DEF StoreNext, Kept

\* What a caller was told is done stays done until another call on that point begins,
\* and a delete reports what it removed, for any users, ids and number of calls
\* (upsert, delete of services/qdrant.ts).
THEOREM AnswersAreTrue == StoreSpec => []AnswersTrue
  <1>1. CallsInv /\ [StoreNext]_storeVars => CallsInv'
    BY CallsStep
  <1>2. CallsInv => AnswersTrue
    BY DEF CallsInv, KnownTrue, AppliedStillTrue, Alone, AnswersTrue
  <1> QED
    BY CallsInit, <1>1, <1>2, PTL DEF StoreSpec

\* A point keeps its createdAt for as long as it exists (fetchExistingCreatedAt).
THEOREM CreationTimesKept == StoreSpec => CreatedAtPreserved
  <1> DEFINE Kept == \A k \in Key \ Contended' :
               points[k] # None /\ points'[k] # None => points'[k].created = points[k].created
  <1>1. CallsInv /\ [StoreNext]_storeVars => CallsInv'
    BY CallsStep
  <1>2. CallsInv /\ [StoreNext]_storeVars => [Kept]_storeVars
    BY CallsStep
  <1>3. StoreSpec => [][Kept]_storeVars
    BY CallsInit, <1>1, <1>2, PTL DEF StoreSpec
  <1> QED
    BY <1>3 DEF CreatedAtPreserved

-----------------------------------------------------------------------------
(* MemoryStore: a walk through the pages.  A page returns the points from  *)
(* the cursor on whose rank is within the page size, and the next cursor   *)
(* is the first point beyond: so what was returned lies before the cursor, *)
(* and what has been there all along was returned or lies at or after it.  *)

Ahead(k) == walk.cursor # 0 /\ Position[k] >= walk.cursor

WalkInv ==
    /\ points \in [Key -> Payload \cup {None}]
    /\ walk \in [user : User \cup {None}, cursor : Nat, items : [Key -> Nat], stayed : SUBSET Key]
    /\ \A k \in Key :
         /\ walk.items[k] <= 1
         /\ walk.user # None /\ walk.items[k] = 1 => ~Ahead(k)
    /\ walk.user # None => \A k \in walk.stayed :
         /\ k[1] = walk.user /\ points[k] # None
         /\ walk.items[k] = 1 \/ Ahead(k)

\* Of the points a page could return, those up to any given one are finitely many.
LEMMA RanksCount ==
  ASSUME NEW rows \in SUBSET Key, NEW j \in rows, NEW k \in rows,
         Rank(k, rows) <= PageSize, ~(Rank(j, rows) <= PageSize)
  PROVE  Position[k] < Position[j]
  <1> DEFINE upTo(i) == {q \in rows : Position[q] <= Position[i]}
  <1>1. /\ Position[j] \in Nat /\ Position[k] \in Nat
        /\ \A q \in rows : Position[q] \in Nat \ {0}
        /\ \A p, q \in rows : Position[p] = Position[q] => p = q
        /\ PageSize \in Nat
    BY StoreAssumption DEF IsInjective
  <1>2. SUFFICES ASSUME Position[j] <= Position[k] PROVE FALSE
    BY <1>1
  <1>3. IsFiniteSet(upTo(k))
    <2> DEFINE f == [q \in upTo(k) |-> Position[q]]
    <2>1. f \in Injection(upTo(k), 1 .. Position[k])
      BY <1>1 DEF Injection, IsInjective
    <2>2. IsFiniteSet(1 .. Position[k])
      BY <1>1, FS_Interval
    <2> HIDE DEF f, upTo
    <2> QED
      BY <2>1, <2>2, FS_Injection
  <1>4. upTo(j) \in SUBSET upTo(k)
    BY <1>1, <1>2
  <1>5. Cardinality(upTo(j)) <= Cardinality(upTo(k))
    BY <1>3, <1>4, FS_Subset
  <1>6. /\ Rank(j, rows) = Cardinality(upTo(j)) /\ Rank(k, rows) = Cardinality(upTo(k))
        /\ Cardinality(upTo(j)) \in Nat /\ Cardinality(upTo(k)) \in Nat
    BY <1>3, <1>4, FS_Subset, FS_CardinalityType DEF Rank
  <1> HIDE DEF upTo
  <1> QED
    BY <1>1, <1>5, <1>6

\* The next cursor is the first point that the page left out.
LEMMA NextCursor ==
  ASSUME NEW rows \in SUBSET Key, rows # Returned(rows)
  PROVE  \E k \in rows \ Returned(rows) :
           /\ NextOffset(rows) = Position[k] /\ Position[k] \in Nat \ {0}
           /\ \A j \in rows \ Returned(rows) : Position[k] <= Position[j]
  <1> DEFINE L == rows \ Returned(rows)
             P == {Position[q] : q \in L}
  <1>1. L # {} /\ P # {}
    BY DEF Returned
  <1>2. P \subseteq Nat \ {0} /\ \A q \in L : Position[q] \in P
    BY StoreAssumption
  <1>3. \E n \in P : \A m \in P : n <= m
    BY <1>1, <1>2, LeastNatural
  <1>4. \E k \in L : \A j \in L : Position[k] <= Position[j]
    BY <1>2, <1>3
  <1> QED
    BY <1>2, <1>4 DEF NextOffset

\* A page keeps the invariant: what it returns was ahead and is no longer.
LEMMA PageKeeps ==
  ASSUME WalkInv, Page PROVE WalkInv'
  <1> DEFINE rows == From(walk.cursor)
             page == Returned(rows)
             next == NextOffset(rows)
  <1>1. /\ walk \in [user : User \cup {None}, cursor : Nat, items : [Key -> Nat],
                     stayed : SUBSET Key]
        /\ points \in [Key -> Payload \cup {None}] /\ points' = points
        /\ walk.user # None /\ walk.cursor # 0 /\ walk.cursor \in Nat
    BY DEF WalkInv, Page
  <1>2. walk' = [walk EXCEPT !.items = [k \in Key |-> IF k \in page THEN walk.items[k] + 1
                                                      ELSE walk.items[k]],
                             !.cursor = next]
    BY DEF Page
  <1>3. /\ rows \in SUBSET Key /\ page \subseteq rows
        /\ \A k \in Key : k \in rows <=>
             k[1] = walk.user /\ points[k] # None /\ Position[k] >= walk.cursor
    BY DEF From, Returned
  <1> HIDE DEF rows
  <1>4. \A k \in Key : Position[k] \in Nat \ {0}
    BY StoreAssumption
  <1>5. next \in Nat /\ (next = 0 <=> rows = page)
    <2>1. CASE rows = page
      BY <2>1 DEF NextOffset
    <2>2. CASE rows # page
      BY <1>3, <2>2, NextCursor
    <2> QED
      BY <2>1, <2>2
  \* The cursor parts what the page returned from what it left.
  <1>6. ASSUME next # 0, NEW k \in rows
        PROVE  IF k \in page THEN Position[k] < next ELSE Position[k] >= next
    <2>1. PICK j \in rows \ page :
            next = Position[j] /\ \A i \in rows \ page : Position[j] <= Position[i]
      BY <1>3, <1>5, <1>6, NextCursor
    <2>2. CASE k \in page
      <3>1. Rank(k, rows) <= PageSize /\ ~(Rank(j, rows) <= PageSize)
        BY <2>1, <2>2 DEF Returned
      <3> QED
        BY <1>3, <2>1, <2>2, <3>1, RanksCount
    <2>3. CASE k \notin page
      BY <1>3, <1>4, <2>1, <2>3
    <2> QED
      BY <2>2, <2>3
  <1>7. /\ walk'.user = walk.user /\ walk'.stayed = walk.stayed /\ walk'.cursor = next
        /\ \A k \in Key : walk'.items[k] =
             IF k \in page THEN walk.items[k] + 1 ELSE walk.items[k]
    BY <1>1, <1>2
  <1>8. walk' \in [user : User \cup {None}, cursor : Nat, items : [Key -> Nat],
                   stayed : SUBSET Key]
    <2>1. \A k \in Key : walk.items[k] \in Nat
      BY <1>1
    <2>2. [k \in Key |-> IF k \in page THEN walk.items[k] + 1 ELSE walk.items[k]]
            \in [Key -> Nat]
      BY <2>1
    <2> QED
      BY <1>1, <1>2, <1>5, <2>2
  <1> HIDE DEF page, next
  <1>9. ASSUME NEW k \in Key
        PROVE  /\ walk'.items[k] <= 1
               /\ walk'.items[k] = 1 => ~Ahead(k)'
    <2>1. walk.items[k] \in Nat /\ walk.items[k] <= 1 /\ (walk.items[k] = 1 => ~Ahead(k))
      BY <1>1 DEF WalkInv
    <2>2. CASE k \in page
      <3>1. k \in rows /\ Ahead(k)
        BY <1>1, <1>3, <2>2 DEF Ahead
      <3>2. walk.items[k] = 0 /\ walk'.items[k] = 1
        BY <1>7, <2>1, <2>2, <3>1
      <3>3. ~Ahead(k)'
        BY <1>4, <1>5, <1>6, <1>7, <2>2, <3>1 DEF Ahead
      <3> QED
        BY <3>2, <3>3
    <2>3. CASE k \notin page
      <3>1. walk'.items[k] = walk.items[k]
        BY <1>7, <2>3
      <3>2. ASSUME walk.items[k] = 1 PROVE ~Ahead(k)'
        <4>1. Position[k] < walk.cursor
          BY <1>1, <1>4, <2>1, <3>2 DEF Ahead
        <4>2. next # 0 => \E j \in rows : next = Position[j]
          BY <1>3, <1>5, NextCursor DEF page, next
        <4>3. next # 0 => next >= walk.cursor
          BY <1>3, <4>2
        <4> QED
          BY <1>1, <1>4, <1>5, <1>7, <4>1, <4>3 DEF Ahead
      <3> QED
        BY <2>1, <3>1, <3>2
    <2> QED
      BY <2>2, <2>3
  <1>10. ASSUME NEW k \in walk'.stayed
         PROVE  /\ k[1] = walk'.user /\ points'[k] # None
                /\ walk'.items[k] = 1 \/ Ahead(k)'
    <2>1. /\ k \in Key /\ k[1] = walk.user /\ points[k] # None
          /\ walk.items[k] = 1 \/ Ahead(k)
      BY <1>1, <1>7 DEF WalkInv
    <2>2. CASE k \in page
      <3>1. walk.items[k] \in Nat /\ walk'.items[k] <= 1 /\ walk'.items[k] = walk.items[k] + 1
        BY <1>1, <1>7, <1>9, <2>1, <2>2
      <3> QED
        BY <1>1, <1>7, <2>1, <3>1
    <2>3. CASE k \notin page /\ walk.items[k] = 1
      BY <1>1, <1>7, <2>1, <2>3
    <2>4. CASE k \notin page /\ Ahead(k)
      <3>1. k \in rows
        BY <1>3, <2>1, <2>4 DEF Ahead
      <3>2. next # 0 /\ Position[k] >= next
        BY <1>5, <1>6, <2>4, <3>1
      <3> QED
        BY <1>1, <1>7, <2>1, <3>2 DEF Ahead
    <2> QED
      BY <2>1, <2>2, <2>3, <2>4
  <1> QED
    BY <1>1, <1>8, <1>9, <1>10 DEF WalkInv

LEMMA WalkInit == StoreInit => WalkInv
  <1> SUFFICES ASSUME StoreInit PROVE WalkInv
    OBVIOUS
  <1>1. points \in [Key -> Payload \cup {None}]
    BY DEF StoreInit, Payload
  <1>2. /\ walk = NoWalk
        /\ walk \in [user : User \cup {None}, cursor : Nat, items : [Key -> Nat],
                     stayed : SUBSET Key]
    BY DEF StoreInit, NoWalk
  <1>3. walk.user = None /\ \A k \in Key : walk.items[k] = 0
    BY <1>2 DEF NoWalk
  <1> QED
    BY <1>1, <1>2, <1>3 DEF WalkInv

\* The writes of calls matter to a walk only in what they delete.
LEMMA WalkStep == CallsInv /\ WalkInv /\ [StoreNext]_storeVars => WalkInv'
  <1> SUFFICES ASSUME CallsInv, WalkInv, [StoreNext]_storeVars PROVE WalkInv'
    OBVIOUS
  <1>t. /\ points' \in [Key -> Payload \cup {None}]
        /\ walk \in [user : User \cup {None}, cursor : Nat, items : [Key -> Nat],
                     stayed : SUBSET Key]
    BY CallsStep DEF WalkInv, CallsInv, CallsTypeOK
  <1>1. ASSUME UNCHANGED <<points, walk>> PROVE WalkInv'
    BY <1>1 DEF WalkInv, Ahead
  \* A write creates points, or takes the ones it deletes off what stayed.
  <1>2. ASSUME NEW c \in Call, Apply(c) PROVE WalkInv'
    <2> DEFINE gone == IF ops[c].kind = "drop" THEN Present(ops[c]) ELSE {}
    <2>1. /\ points' = [k \in Key |->
                IF ops[c].kind = "put" /\ k \in KeysOf(ops[c]) THEN Written(c)
                ELSE IF k \in gone THEN None ELSE points[k]]
          /\ walk' = [walk EXCEPT !.stayed = @ \ gone]
      BY <1>2 DEF Apply
    <2>2. ops[c] \in OpShape
      BY DEF CallsInv, CallsTypeOK
    <2> HIDE DEF gone
    <2>3. Written(c) # None
      BY <2>2, StoreAssumption DEF Written, OpShape
    <2>4. \A k \in Key : points[k] # None /\ k \notin gone => points'[k] # None
      BY <2>1, <2>3
    <2>5. /\ walk'.user = walk.user /\ walk'.cursor = walk.cursor /\ walk'.items = walk.items
          /\ walk'.stayed = walk.stayed \ gone
          /\ walk' \in [user : User \cup {None}, cursor : Nat, items : [Key -> Nat],
                        stayed : SUBSET Key]
      BY <1>t, <2>1
    <2>6. \A k : Ahead(k)' <=> Ahead(k)
      BY <2>5 DEF Ahead
    <2>7. \A k \in walk'.stayed : k \in walk.stayed /\ k \in Key /\ k \notin gone
      BY <1>t, <2>5
    <2> QED
      BY <1>t, <2>4, <2>5, <2>6, <2>7 DEF WalkInv
  <1>3. ASSUME NEW u \in Active, BeginWalk(u) PROVE WalkInv'
    <2>1. walk' = [NoWalk EXCEPT !.user = u, !.cursor = 1,
                                 !.stayed = {k \in Key : k[1] = u /\ points[k] # None}]
      BY <1>3 DEF BeginWalk
    <2>2. u \in User
      BY StoreAssumption
    <2>3. /\ walk'.user = u /\ walk'.cursor = 1 /\ walk'.items = [k \in Key |-> 0]
          /\ walk'.stayed = {k \in Key : k[1] = u /\ points[k] # None}
          /\ walk' \in [user : User \cup {None}, cursor : Nat, items : [Key -> Nat],
                        stayed : SUBSET Key]
      BY <2>1, <2>2 DEF NoWalk
    <2>4. \A k \in Key : Ahead(k)' /\ walk'.items[k] = 0
      BY <2>3, StoreAssumption DEF Ahead
    <2>5. points' = points
      BY <1>3 DEF BeginWalk
    <2> QED
      BY <1>t, <2>3, <2>4, <2>5 DEF WalkInv
  <1>4. CASE Page
    BY <1>4, PageKeeps
  <1>5. CASE EndWalk
    <2>1. walk' = NoWalk
      BY <1>5 DEF EndWalk
    <2>2. /\ walk'.user = None /\ \A k \in Key : walk'.items[k] = 0
          /\ walk' \in [user : User \cup {None}, cursor : Nat, items : [Key -> Nat],
                        stayed : SUBSET Key]
      BY <2>1 DEF NoWalk
    <2> QED
      BY <1>t, <2>2 DEF WalkInv
  <1>6. CASE \/ Tick \/ UNCHANGED storeVars
    BY <1>1, <1>6 DEF Tick, storeVars
  <1>7. ASSUME NEW c \in Call, NEW kind \in {"put", "drop"}, NEW u \in Active,
               NEW I \in SUBSET Id, Begin(c, kind, u, I)
        PROVE  WalkInv'
    BY <1>1, <1>7 DEF Begin
  <1>8. ASSUME NEW c \in Call, Read(c) \/ Answer(c) \/ Abandon(c) \/ LoseWrite(c)
        PROVE  WalkInv'
    BY <1>1, <1>8 DEF Read, Answer, Abandon, LoseWrite
  <1>9. ASSUME NEW c \in Call, NEW u \in Active, NEW i \in Id, BeginUpsert(c, u, i)
        PROVE  WalkInv'
    <2>1. {i} \in SUBSET Id /\ Begin(c, "put", u, {i})
      BY <1>9 DEF BeginUpsert
    <2> QED
      BY <1>7, <2>1
  <1>10. ASSUME NEW c \in Call, NEW u \in Active, NEW I \in SUBSET Id, BeginDelete(c, u, I)
         PROVE  WalkInv'
    BY <1>7, <1>10 DEF BeginDelete
  <1> QED
    BY <1>2, <1>3, <1>4, <1>5, <1>6, <1>8, <1>9, <1>10 DEF StoreNext

\* A walk through the pages returns every point that was there all along, and no
\* point twice, whatever is written and deleted between two pages (list, the cursor
\* codec of services/qdrant-payload.ts).
THEOREM WalksAreComplete == StoreSpec => []WalkComplete
  <1>1. CallsInv /\ [StoreNext]_storeVars => CallsInv'
    BY CallsStep
  <1>2. WalkInv => WalkComplete
    <2> SUFFICES ASSUME WalkInv PROVE WalkComplete
      OBVIOUS
    <2>1. walk.cursor = 0 => \A k : ~Ahead(k)
      BY DEF Ahead
    <2> QED
      BY <2>1 DEF WalkInv, WalkComplete
  <1> QED
    BY CallsInit, WalkInit, WalkStep, <1>1, <1>2, PTL DEF StoreSpec

-----------------------------------------------------------------------------
(* BrowserTabs: a page that an openTab call waits for exists and is not a  *)
(* tab yet, and no two calls wait for the same page.  So what openTab adds *)
(* at its end is a new tab, whatever was closed or opened meanwhile.       *)

TabsInv ==
    /\ pages \in Seq(PageId)
    /\ active \in 0 .. Len(pages) - 1
    /\ \A i, j \in 1 .. Len(pages) : pages[i] = pages[j] => i = j
    /\ \A i \in 1 .. Len(pages) : pages[i] \in openPages
    /\ opening \in [Opener -> {"idle", "newPage"} \cup PageId]
    /\ \A o \in Opener : opening[o] \in PageId =>
         /\ opening[o] \in openPages
         /\ \A i \in 1 .. Len(pages) : pages[i] # opening[o]
         /\ \A q \in Opener : opening[q] = opening[o] => q = o

\* Taking a tab out shifts those behind it by one.
LEMMA RemovedTab ==
  ASSUME NEW s \in Seq(PageId), NEW k \in 1 .. Len(s)
  PROVE  /\ RemoveAt(s, k) \in Seq(PageId)
         /\ Len(RemoveAt(s, k)) = Len(s) - 1
         /\ \A i \in 1 .. Len(s) - 1 :
              RemoveAt(s, k)[i] = IF i < k THEN s[i] ELSE s[i + 1]
<1> DEFINE a == SubSeq(s, 1, k - 1)
           b == SubSeq(s, k + 1, Len(s))
<1>1. Len(s) \in Nat /\ \A i \in 1 .. Len(s) : s[i] \in PageId
  BY LenProperties, ElementOfSeq
<1>2. /\ a \in Seq(PageId) /\ Len(a) = k - 1
      /\ \A i \in 1 .. k - 1 : a[i] = s[i]
  <2>1. \A i \in 1 .. (k - 1) : s[i] \in PageId
    BY <1>1
  <2>2. /\ a \in Seq(PageId)
        /\ Len(a) = IF 1 <= k - 1 THEN (k - 1) - 1 + 1 ELSE 0
        /\ \A i \in 1 .. (k - 1) - 1 + 1 : a[i] = s[1 + i - 1]
    BY <1>1, <2>1, SubSeqProperties
  <2> QED
    BY <1>1, <2>2
<1>3. /\ b \in Seq(PageId) /\ Len(b) = Len(s) - k
      /\ \A i \in 1 .. Len(s) - k : b[i] = s[k + i]
  <2>1. \A i \in (k + 1) .. Len(s) : s[i] \in PageId
    BY <1>1
  <2>2. /\ b \in Seq(PageId)
        /\ Len(b) = IF k + 1 <= Len(s) THEN Len(s) - (k + 1) + 1 ELSE 0
        /\ \A i \in 1 .. Len(s) - (k + 1) + 1 : b[i] = s[(k + 1) + i - 1]
    BY <1>1, <2>1, SubSeqProperties
  <2> QED
    BY <1>1, <2>2
<1> HIDE DEF a, b
<1>4. /\ a \o b \in Seq(PageId) /\ Len(a \o b) = Len(s) - 1
      /\ \A i \in 1 .. Len(s) - 1 :
           (a \o b)[i] = IF i <= Len(a) THEN a[i] ELSE b[i - Len(a)]
  <2>1. /\ a \o b \in Seq(PageId) /\ Len(a \o b) = Len(a) + Len(b)
        /\ \A i \in 1 .. Len(a) + Len(b) :
             (a \o b)[i] = IF i <= Len(a) THEN a[i] ELSE b[i - Len(a)]
    BY <1>2, <1>3, ConcatProperties
  <2>2. Len(a) + Len(b) = Len(s) - 1
    BY <1>1, <1>2, <1>3
  <2> QED
    BY <2>1, <2>2
<1>5. ASSUME NEW i \in 1 .. Len(s) - 1
      PROVE  (a \o b)[i] = IF i < k THEN s[i] ELSE s[i + 1]
  <2>1. CASE i < k
    BY <1>1, <1>2, <1>4, <2>1
  <2>2. CASE ~(i < k)
    <3>1. /\ i - Len(a) \in 1 .. Len(s) - k /\ ~(i <= Len(a))
          /\ k + (i - Len(a)) = i + 1
      BY <1>1, <1>2, <2>2
    <3> QED
      BY <1>3, <1>4, <2>2, <3>1
  <2> QED
    BY <2>1, <2>2
<1>6. RemoveAt(s, k) = a \o b
  BY DEF RemoveAt, a, b
<1> QED
  BY <1>4, <1>5, <1>6

LEMMA TabsInitInv == TabsInit => TabsInv
  <1> SUFFICES ASSUME TabsInit PROVE TabsInv
    OBVIOUS
  <1>1. PICK p \in PageId : pages = <<p>> /\ openPages = {p}
    BY DEF TabsInit
  <1>2. pages \in Seq(PageId) /\ Len(pages) = 1 /\ pages[1] = p
    BY <1>1
  <1>3. /\ active = 0 /\ \A o \in Opener : opening[o] = "idle"
        /\ opening \in [Opener -> {"idle", "newPage"} \cup PageId]
    BY DEF TabsInit
  <1> QED
    BY <1>1, <1>2, <1>3, TabsAssumption DEF TabsInv

\* The page in focus, and the tabs, as the property names them.
LEMMA FocusOf ==
  ASSUME TabsInv
  PROVE  ActiveTabValid /\ \A p : InFocus(p) <=> pages[active + 1] = p
  <1>1. Len(pages) \in Nat /\ DOMAIN pages = 1 .. Len(pages)
    BY LenProperties DEF TabsInv
  <1>2. IsInjective(pages)
    BY <1>1 DEF TabsInv, IsInjective
  <1>3. ToSet(pages) \subseteq openPages
    BY <1>1 DEF TabsInv, ToSet
  <1>4. active \in TabIndex
    BY DEF TabsInv, TabIndex
  <1> QED
    BY <1>2, <1>3, <1>4 DEF ActiveTabValid, InFocus

\* Closing a tab leaves the others, and the focus on what had it.
LEMMA CloseTabKeeps ==
  ASSUME TabsInv, NEW i \in TabIndex, CloseTab(i)
  PROVE  TabsInv' /\ CloseKeepsFocus
  <1> DEFINE n == Len(pages)
  <1>1. /\ n \in Nat /\ n # 1 /\ i \in 0 .. n - 1 /\ active \in 0 .. n - 1
        /\ pages \in Seq(PageId) /\ i + 1 \in 1 .. n
        /\ \A a, b \in 1 .. n : pages[a] = pages[b] => a = b
    BY LenProperties DEF TabsInv, CloseTab, TabIndex
  <1>2. /\ pages' = RemoveAt(pages, i + 1) /\ active' = FocusAfterClose(i)
        /\ openPages' = openPages \ {pages[i + 1]} /\ opening' = opening
    BY DEF CloseTab
  <1>3. /\ pages' \in Seq(PageId) /\ Len(pages') = n - 1
        /\ \A a \in 1 .. n - 1 : pages'[a] = IF a < i + 1 THEN pages[a] ELSE pages[a + 1]
    BY <1>1, <1>2, RemovedTab
  <1> DEFINE src(a) == IF a < i + 1 THEN a ELSE a + 1
  <1>4. \A a \in 1 .. n - 1 : src(a) \in 1 .. n /\ src(a) # i + 1 /\ pages'[a] = pages[src(a)]
    BY <1>1, <1>3
  <1>5. \A a, b \in 1 .. n - 1 : src(a) = src(b) => a = b
    BY <1>1
  <1>6. active' \in 0 .. n - 2 /\ (active # i => src(active' + 1) = active + 1)
    <2>1. CASE active = i
      <3>1. active' = IF i = 0 THEN 0 ELSE i - 1
        BY <1>2, <2>1 DEF FocusAfterClose
      <3>2. active' \in 0 .. n - 2
        <4> HIDE DEF src, n
        <4>1. i \in Int /\ 0 <= i /\ i <= n - 1 /\ n \in Int /\ n # 1
          BY <1>1
        <4>2. n >= 2
          BY <4>1
        <4>3. CASE i = 0
          BY <3>1, <4>2, <4>3, <4>1
        <4>4. CASE i # 0
          BY <3>1, <4>1, <4>4
        <4> QED
          BY <4>3, <4>4
      <3> QED
        BY <2>1, <3>2
    <2>2. CASE active > i
      BY <1>1, <1>2, <2>2 DEF FocusAfterClose
    <2>3. CASE active < i
      BY <1>1, <1>2, <2>3 DEF FocusAfterClose
    <2> QED
      BY <1>1, <2>1, <2>2, <2>3
  <1> HIDE DEF src, n
  <1>7. TabsInv'
    <2>1. \A a, b \in 1 .. n - 1 : pages'[a] = pages'[b] => a = b
      BY <1>1, <1>4, <1>5
    <2>2. \A a \in 1 .. n - 1 : pages'[a] \in openPages'
      BY <1>1, <1>2, <1>4 DEF TabsInv, n
    <2>3. ASSUME NEW o \in Opener, opening'[o] \in PageId
          PROVE  /\ opening'[o] \in openPages'
                 /\ \A a \in 1 .. n - 1 : pages'[a] # opening'[o]
                 /\ \A q \in Opener : opening'[q] = opening'[o] => q = o
      <3>1. /\ opening[o] \in openPages /\ \A a \in 1 .. n : pages[a] # opening[o]
            /\ \A q \in Opener : opening[q] = opening[o] => q = o
        BY <1>2, <2>3 DEF TabsInv, n
      <3> QED
        BY <1>1, <1>2, <1>4, <3>1
    <2>4. /\ active' \in 0 .. Len(pages') - 1
          /\ opening' \in [Opener -> {"idle", "newPage"} \cup PageId]
      BY <1>1, <1>2, <1>3, <1>6 DEF TabsInv
    <2> QED
      BY <1>3, <2>1, <2>2, <2>3, <2>4 DEF TabsInv
  <1>8. CloseKeepsFocus
    <2> SUFFICES ASSUME NEW p \in PageId, InFocus(p), p \in ToSet(pages')
                 PROVE  InFocus(p)'
      BY DEF CloseKeepsFocus
    <2>1. pages[active + 1] = p
      BY FocusOf
    <2>2. PICK a \in 1 .. n - 1 : pages'[a] = p
      <3>1. DOMAIN pages' = 1 .. n - 1
        BY <1>3, LenProperties
      <3> QED
        BY <3>1 DEF ToSet
    <2>3. active # i
      <3>1. active + 1 = src(a)
        BY <1>1, <1>4, <2>1, <2>2
      <3> QED
        BY <1>1, <1>4, <3>1
    <2>4. pages'[active' + 1] = p
      BY <1>1, <1>4, <1>6, <2>1, <2>3
    <2>5. active' \in TabIndex'
      BY <1>7 DEF TabsInv, TabIndex
    <2> QED
      BY <2>4, <2>5 DEF InFocus
  <1> QED
    BY <1>7, <1>8

\* The page an openTab call waited for becomes the last tab.
LEMMA FinishOpenKeeps ==
  ASSUME TabsInv, NEW o \in Opener, FinishOpen(o)
  PROVE  TabsInv' /\ Len(pages') = Len(pages) + 1
  <1> DEFINE n == Len(pages)
             p == opening[o]
  <1>1. /\ p \in PageId /\ pages' = Append(pages, p) /\ active' = n
        /\ opening' = [opening EXCEPT ![o] = "idle"] /\ openPages' = openPages
        /\ pages \in Seq(PageId) /\ n \in Nat
    BY LenProperties DEF FinishOpen, TabsInv
  <1>2. /\ pages' \in Seq(PageId) /\ Len(pages') = n + 1
        /\ \A a \in 1 .. n : pages'[a] = pages[a]
        /\ pages'[n + 1] = p
    BY <1>1, AppendProperties
  <1>3. /\ \A a, b \in 1 .. n : pages[a] = pages[b] => a = b
        /\ \A a \in 1 .. n : pages[a] \in openPages /\ pages[a] # p
        /\ p \in openPages
        /\ opening \in [Opener -> {"idle", "newPage"} \cup PageId]
    BY <1>1 DEF TabsInv
  <1>4. \A a \in 1 .. n + 1 : a \in 1 .. n \/ a = n + 1
    BY <1>1
  <1>5. \A q \in Opener : opening'[q] \in PageId =>
          /\ opening'[q] = opening[q] /\ opening[q] \in PageId /\ q # o
    BY <1>1, <1>3, TabsAssumption
  <1>6. ASSUME NEW q \in Opener, opening'[q] \in PageId
        PROVE  /\ opening'[q] \in openPages'
               /\ \A a \in 1 .. n + 1 : pages'[a] # opening'[q]
               /\ \A r \in Opener : opening'[r] = opening'[q] => r = q
    <2>1. /\ opening[q] \in openPages /\ \A a \in 1 .. n : pages[a] # opening[q]
          /\ \A r \in Opener : opening[r] = opening[q] => r = q
          /\ opening'[q] = opening[q] /\ q # o
      BY <1>5, <1>6 DEF TabsInv
    <2>2. p # opening[q]
      BY <2>1
    <2>3. \A r \in Opener : opening'[r] = opening'[q] => r = q
      BY <1>5, <1>6, <2>1
    <2> HIDE DEF p
    <2>4. \A a \in 1 .. n + 1 : pages'[a] # opening'[q]
      BY <1>2, <1>4, <2>1, <2>2
    <2> QED
      BY <1>1, <2>1, <2>3, <2>4
  <1>7. /\ opening' \in [Opener -> {"idle", "newPage"} \cup PageId]
        /\ active' \in 0 .. Len(pages') - 1
    BY <1>1, <1>2, <1>3
  <1> HIDE DEF p
  <1>8. /\ \A a, b \in 1 .. n + 1 : pages'[a] = pages'[b] => a = b
        /\ \A a \in 1 .. n + 1 : pages'[a] \in openPages'
    BY <1>1, <1>2, <1>3, <1>4
  <1> QED
    BY <1>2, <1>6, <1>7, <1>8 DEF TabsInv

\* What leaves the tabs alone, and of the pages under way gives up some or starts new
\* ones, keeps the invariant.
LEMMA OpeningKeeps ==
  ASSUME TabsInv, UNCHANGED <<pages, active>>, openPages \subseteq openPages',
         NEW o \in Opener, NEW v \in {"idle", "newPage"} \cup PageId,
         opening' = [opening EXCEPT ![o] = v],
         v \in PageId => v \in openPages' \ openPages
  PROVE  TabsInv'
  <1>1. /\ opening \in [Opener -> {"idle", "newPage"} \cup PageId]
        /\ \A a \in 1 .. Len(pages) : pages[a] \in openPages
        /\ \A q \in Opener : opening[q] \in PageId =>
             /\ opening[q] \in openPages /\ \A a \in 1 .. Len(pages) : pages[a] # opening[q]
             /\ \A r \in Opener : opening[r] = opening[q] => r = q
    BY DEF TabsInv
  <1>2. opening'[o] = v /\ \A q \in Opener : q # o => opening'[q] = opening[q]
    BY <1>1
  <1>3. ASSUME NEW q \in Opener, opening'[q] \in PageId
        PROVE  /\ opening'[q] \in openPages'
               /\ \A a \in 1 .. Len(pages) : pages[a] # opening'[q]
               /\ \A r \in Opener : opening'[r] = opening'[q] => r = q
    <2>1. CASE q = o
      BY <1>1, <1>2, <1>3, <2>1
    <2>2. CASE q # o
      BY <1>1, <1>2, <1>3, <2>2
    <2> QED
      BY <2>1, <2>2
  <1>4. opening' \in [Opener -> {"idle", "newPage"} \cup PageId]
    BY <1>1
  <1> QED
    BY <1>1, <1>3, <1>4 DEF TabsInv

LEMMA TabsStep ==
  ASSUME TabsInv, [TabsNext]_tabVars
  PROVE  TabsInv' /\ CloseKeepsFocus
  <1>0. Len(pages) \in Nat
    BY LenProperties DEF TabsInv
  <1>1. ASSUME TabsInv', Len(pages') >= Len(pages) PROVE TabsInv' /\ CloseKeepsFocus
    <2>1. Len(pages') \in Nat
      BY <1>1, LenProperties DEF TabsInv
    <2> QED
      BY <1>0, <1>1, <2>1 DEF CloseKeepsFocus
  <1>2. ASSUME UNCHANGED <<pages, active, opening, openPages>>
        PROVE  TabsInv' /\ CloseKeepsFocus
    <2>1. TabsInv'
      BY <1>2 DEF TabsInv
    <2> QED
      BY <1>0, <1>1, <1>2, <2>1
  <1>3. ASSUME NEW i \in TabIndex, SwitchTab(i) PROVE TabsInv' /\ CloseKeepsFocus
    <2>1. TabsInv' /\ pages' = pages
      BY <1>3 DEF SwitchTab, TabsInv, TabIndex
    <2> QED
      BY <1>0, <1>1, <2>1
  <1>4. ASSUME NEW i \in TabIndex, CloseTab(i) PROVE TabsInv' /\ CloseKeepsFocus
    BY <1>4, CloseTabKeeps
  <1>5. ASSUME NEW o \in Opener, BeginOpen(o) \/ OpenFails(o)
        PROVE  TabsInv' /\ CloseKeepsFocus
    <2>1. /\ UNCHANGED <<pages, active, openPages>>
          /\ \/ opening' = [opening EXCEPT ![o] = "newPage"]
             \/ opening' = [opening EXCEPT ![o] = "idle"]
      BY <1>5 DEF BeginOpen, OpenFails
    <2>2. TabsInv'
      BY <2>1, OpeningKeeps, TabsAssumption
    <2> QED
      BY <1>0, <1>1, <2>1, <2>2
  <1>6. ASSUME NEW o \in Opener, NEW p \in PageId, PageCreated(o, p)
        PROVE  TabsInv' /\ CloseKeepsFocus
    <2>1. /\ UNCHANGED <<pages, active>> /\ openPages' = openPages \cup {p}
          /\ p \notin openPages /\ opening' = [opening EXCEPT ![o] = p]
      BY <1>6 DEF PageCreated
    <2>2. TabsInv'
      BY <2>1, OpeningKeeps
    <2> QED
      BY <1>0, <1>1, <2>1, <2>2
  <1>7. ASSUME NEW o \in Opener, FinishOpen(o) PROVE TabsInv' /\ CloseKeepsFocus
    <2>1. TabsInv' /\ Len(pages') = Len(pages) + 1
      BY <1>7, FinishOpenKeeps
    <2> QED
      BY <1>0, <1>1, <2>1
  <1>8. ASSUME NEW b \in BufferId, NEW p \in PageId,
               HarStart(b) \/ HarStop \/ CaptureBegins(b, p) \/ CaptureEnds(b)
        PROVE  TabsInv' /\ CloseKeepsFocus
    BY <1>2, <1>8 DEF HarStart, HarStop, CaptureBegins, CaptureEnds
  <1>9. ASSUME NEW b \in BufferId, HarStart(b) \/ CaptureEnds(b)
        PROVE  TabsInv' /\ CloseKeepsFocus
    BY <1>2, <1>9 DEF HarStart, CaptureEnds
  <1>10. CASE HarStop \/ UNCHANGED tabVars
    BY <1>2, <1>10 DEF HarStop, tabVars
  <1> QED
    BY <1>3, <1>4, <1>5, <1>6, <1>7, <1>8, <1>9, <1>10 DEF TabsNext

\* However opens, closes and switches interleave, the active index names a tab, the
\* tabs are distinct pages that exist, and a close leaves the focus on the page that
\* had it unless that is the page closed (runTabs).
THEOREM FocusIsSound == TabsSpec => FocusSound
  <1>1. TabsInv /\ [TabsNext]_tabVars => TabsInv'
    BY TabsStep
  <1>2. TabsInv /\ [TabsNext]_tabVars => [ActiveTabValid' /\ CloseKeepsFocus]_tabVars
    <2>1. TabsInv' => ActiveTabValid'
      <3>1. TabsInv => ActiveTabValid
        BY FocusOf
      <3> QED
        BY <3>1, PTL
    <2> QED
      BY <2>1, TabsStep
  <1>3. TabsSpec => [][ActiveTabValid' /\ CloseKeepsFocus]_tabVars
    BY TabsInitInv, <1>1, <1>2, PTL DEF TabsSpec
  <1> QED
    BY <1>3 DEF FocusSound
=============================================================================

----------------------- MODULE ClientRegistrationProofs -----------------------
(***************************************************************************)
(* The cutover separates clients for good: for any sets of clients and     *)
(* addresses, any limits, and any correction of the clock between two runs *)
(* of the process.                                                         *)
(***************************************************************************)
EXTENDS ClientRegistration, FiniteSetTheorems, TLAPS

LEMMA RegistrationInitType == RegistrationInit => RegistrationTypeOK
  <1> SUFFICES ASSUME RegistrationInit PROVE RegistrationTypeOK
    OBVIOUS
  <1> USE RegistrationAssumption DEF RegistrationInit
  <1>1. clients \in [Client -> Row \cup {Null}]
    <2>1. PICK t \in 1..now, U \in (SUBSET PolicyUri) \ {{}} :
            clients = [c \in Client |-> IF c \in older THEN [uris |-> U, created |-> t] ELSE Null]
      OBVIOUS
    <2>2. [uris |-> U, created |-> t] \in Row
      BY DEF Row
    <2> QED
      BY <2>1, <2>2
  <1>2. buckets \in [Address -> Window \cup {Null}]
    BY DEF Empty
  <1>3. now \in 1..MaxTime /\ cutover \in 0..MaxTime
    OBVIOUS
  <1>4. /\ serving \in BOOLEAN
        /\ code \in [client : Client \cup Cimd, uri : Uri] \cup {Null}
        /\ relying \subseteq Client \cup Cimd /\ older \subseteq Client
    BY Zenon
  <1>5. recent \in [Address -> SUBSET (Client \X (1..MaxTime))]
    OBVIOUS
  <1> HIDE DEF RegistrationInit
  <1> QED
    BY <1>1, <1>2, <1>3, <1>4, <1>5 DEF RegistrationTypeOK

\* consumeBucket leaves a window that counts at least one and at most the maximum.
LEMMA ConsumedType ==
  ASSUME now \in Nat, NEW w \in Window \cup {Null}, w # Null => Elapsed(w) \/ Room(w)
  PROVE  Consumed(w) \in Window
  <1>1. CASE w = Null \/ Elapsed(w)
    BY <1>1, RegistrationAssumption DEF Consumed, Window
  <1>2. CASE ~(w = Null \/ Elapsed(w))
    <2>1. w \in Window /\ w.count < MaxPerHour
      BY <1>2 DEF Room
    <2> QED
      BY <1>2, <2>1, RegistrationAssumption DEF Consumed, Window
  <1> QED
    BY <1>1, <1>2

LEMMA RegistrationStepType ==
  RegistrationTypeOK /\ [RegistrationNext]_regVars => RegistrationTypeOK'
  <1> SUFFICES ASSUME RegistrationTypeOK, [RegistrationNext]_regVars
               PROVE  RegistrationTypeOK'
    OBVIOUS
  <1> USE RegistrationAssumption DEF RegistrationTypeOK
  <1>1. CASE Boot
    BY <1>1 DEF Boot, Cutover, Empty
  <1>2. CASE Stop
    BY <1>2 DEF Stop
  <1>3. ASSUME NEW a \in Address, NEW c \in Client, NEW U \in (SUBSET Uri) \ {{}},
               RegisterClient(a, c, U)
        PROVE  RegistrationTypeOK'
    <2>1. Consumed(buckets[a]) \in Window
      BY <1>3, ConsumedType DEF RegisterClient
    <2>2. NewRow(U) \in Row
      BY DEF NewRow, Latest, Row
    <2> QED
      BY <1>3, <2>1, <2>2 DEF RegisterClient
  <1>4. ASSUME NEW c \in Client \cup Cimd, NEW uri \in Uri, NEW omitted \in BOOLEAN,
               Authorize(c, uri, omitted)
        PROVE  RegistrationTypeOK'
    BY <1>4 DEF Authorize
  <1>5. CASE Tick
    BY <1>5 DEF Tick
  <1>6. ASSUME NEW t \in 1..MaxTime, SetClock(t) PROVE RegistrationTypeOK'
    BY <1>6 DEF SetClock
  <1>7. CASE UNCHANGED regVars
    BY <1>7 DEF regVars
  <1> QED
    BY <1>1, <1>2, <1>3, <1>4, <1>5, <1>6, <1>7 DEF RegistrationNext

\* Every variable of the registration model keeps its type.
THEOREM RegistrationTypeCorrect == RegistrationSpec => []RegistrationTypeOK
  BY RegistrationInitType, RegistrationStepType, PTL DEF RegistrationSpec

-----------------------------------------------------------------------------
(* The strengthening: before the first start nothing was registered or     *)
(* authorized by this version; from then on the cutover stays, new rows    *)
(* are not below it, and whoever relies on the default has a row below it. *)

BeforeCutover ==
    cutover = 0 => /\ ~serving /\ relying = {} /\ code = Null
                   /\ \A c \in Client \ older : clients[c] = Null

NewNotBelow ==
    \A c \in Client \ older : clients[c] # Null => clients[c].created >= cutover

RelyingBelow ==
    \A c \in relying : /\ c \in older /\ clients[c] # Null
                       /\ clients[c].created < cutover

RowsAllowed ==
    \A c \in Client : clients[c] # Null => clients[c].uris \subseteq PolicyUri

CodeAllowed ==
    code # Null => /\ code.uri \in PolicyUri
                   /\ code.client \in Client => /\ clients[code.client] # Null
                                                /\ code.uri \in clients[code.client].uris

CutoverInv ==
    /\ RegistrationTypeOK
    /\ BeforeCutover /\ NewNotBelow /\ RelyingBelow /\ RowsAllowed /\ CodeAllowed

LEMMA CutoverInvInit == RegistrationInit => CutoverInv
  <1> SUFFICES ASSUME RegistrationInit PROVE CutoverInv
    OBVIOUS
  <1>1. RegistrationTypeOK
    BY RegistrationInitType
  <1>2. BeforeCutover /\ NewNotBelow /\ RelyingBelow /\ RowsAllowed /\ CodeAllowed
    BY DEF RegistrationInit, BeforeCutover, NewNotBelow, RelyingBelow, RowsAllowed, CodeAllowed
  <1> QED
    BY <1>1, <1>2 DEF CutoverInv

LEMMA CutoverInvStep == CutoverInv /\ [RegistrationNext]_regVars => CutoverInv'
  <1> SUFFICES ASSUME CutoverInv, [RegistrationNext]_regVars PROVE CutoverInv'
    OBVIOUS
  <1>t. RegistrationTypeOK /\ RegistrationTypeOK'
    BY RegistrationStepType DEF CutoverInv
  <1> DEFINE Rest == BeforeCutover /\ NewNotBelow /\ RelyingBelow /\ RowsAllowed /\ CodeAllowed
  <1> USE RegistrationAssumption
      DEF CutoverInv, RegistrationTypeOK,
          BeforeCutover, NewNotBelow, RelyingBelow, RowsAllowed, CodeAllowed
  <1>1. CASE Boot
    BY <1>1, <1>t DEF Boot, Cutover
  <1>2. CASE Stop
    BY <1>2, <1>t DEF Stop
  <1>3. ASSUME NEW a \in Address, NEW c \in Client, NEW U \in (SUBSET Uri) \ {{}},
               RegisterClient(a, c, U)
        PROVE  CutoverInv'
    <2>1. /\ clients' = [clients EXCEPT ![c] = NewRow(U)] /\ clients[c] = Null
          /\ UNCHANGED <<now, serving, cutover, code, relying, older>>
          /\ serving /\ U \subseteq PolicyUri
      BY <1>3 DEF RegisterClient, UrisAllowed
    <2>2. NewRow(U).created >= cutover /\ NewRow(U).uris = U
      BY DEF NewRow, Latest
    <2>3. BeforeCutover'
      BY <2>1
    <2>4. NewNotBelow'
      BY <2>1, <2>2
    <2>5. RelyingBelow'
      BY <2>1
    <2>6. RowsAllowed'
      BY <2>1, <2>2
    <2>7. CodeAllowed'
      BY <2>1
    <2> QED
      BY <1>t, <2>3, <2>4, <2>5, <2>6, <2>7
  <1>4. ASSUME NEW c \in Client \cup Cimd, NEW uri \in Uri, NEW omitted \in BOOLEAN,
               Authorize(c, uri, omitted)
        PROVE  CutoverInv'
    <2>1. /\ code' = [client |-> c, uri |-> uri]
          /\ relying' = IF omitted THEN relying \cup {c} ELSE relying
          /\ UNCHANGED <<now, serving, cutover, clients, older>>
          /\ serving /\ c \in Known
          /\ omitted => LegacyResolved(c)
      BY <1>4 DEF Authorize
    <2>2. uri \in PolicyUri /\ (c \in Client => uri \in clients[c].uris)
      BY <1>4 DEF Authorize, Known
    <2>3. omitted => c \in older /\ clients[c] # Null /\ clients[c].created < cutover
      <3> SUFFICES ASSUME omitted
                   PROVE  c \in older /\ clients[c] # Null /\ clients[c].created < cutover
        OBVIOUS
      <3>1. c \in Client /\ clients[c] # Null /\ clients[c].created < cutover
        BY <2>1 DEF LegacyResolved, Known
      <3>2. clients[c].created \in Nat
        BY <3>1 DEF Row
      <3> QED
        BY <3>1, <3>2
    <2>4. BeforeCutover' /\ NewNotBelow' /\ RowsAllowed'
      BY <2>1
    <2>5. RelyingBelow'
      BY <2>1, <2>3
    <2>6. CodeAllowed'
      BY <2>1, <2>2 DEF Known
    <2> QED
      BY <1>t, <2>4, <2>5, <2>6
  <1>5. CASE Tick
    BY <1>5, <1>t DEF Tick
  <1>6. ASSUME NEW t \in 1..MaxTime, SetClock(t) PROVE CutoverInv'
    BY <1>6, <1>t DEF SetClock
  <1>7. CASE UNCHANGED regVars
    BY <1>7, <1>t DEF regVars
  <1> QED
    BY <1>1, <1>2, <1>3, <1>4, <1>5, <1>6, <1>7 DEF RegistrationNext

LEMMA CutoverInvariant == RegistrationSpec => []CutoverInv
  BY CutoverInvInit, CutoverInvStep, PTL DEF RegistrationSpec

-----------------------------------------------------------------------------
\* No client registered by this version, and no https client, is ever served
\* without `resource`, however the clock was set between two starts.
THEOREM NewStrict == RegistrationSpec => []NewClientsStrict
  <1>1. CutoverInv => NewClientsStrict
    <2> SUFFICES ASSUME CutoverInv, NEW c \in (Client \ older) \cup Cimd
                 PROVE  ~LegacyBound(c) /\ c \notin relying
      BY DEF NewClientsStrict
    <2> USE RegistrationAssumption DEF CutoverInv, RegistrationTypeOK
    <2>1. ~LegacyBound(c)
      <3> SUFFICES ASSUME LegacyBound(c) PROVE FALSE
        OBVIOUS
      <3>1. c \in Client \ older /\ clients[c] # Null /\ clients[c].created < cutover
        BY DEF LegacyBound, Known
      <3>2. clients[c].created \in Nat
        BY <3>1 DEF Row
      <3> QED
        BY <3>1, <3>2 DEF NewNotBelow
    <2>2. c \notin relying
      BY DEF RelyingBelow
    <2> QED
      BY <2>1, <2>2
  <1> QED
    BY CutoverInvariant, <1>1, PTL

\* A client that was authorized without `resource` is served without it at the
\* token endpoint, in every later run of the process.
THEOREM RelyingServed == RegistrationSpec => []RelyingClientsServed
  <1>1. CutoverInv => RelyingClientsServed
    BY RegistrationAssumption
       DEF CutoverInv, RegistrationTypeOK, RelyingClientsServed, RelyingBelow, LegacyBound, Known
  <1> QED
    BY CutoverInvariant, <1>1, PTL

\* Codes go only to redirect URIs the policy allows and the client registered.
THEOREM RedirectsStayAllowed == RegistrationSpec => []RedirectsAllowed
  <1>1. CutoverInv => RedirectsAllowed
    BY DEF CutoverInv, RedirectsAllowed, CodeAllowed
  <1> QED
    BY CutoverInvariant, <1>1, PTL

-----------------------------------------------------------------------------
(* The registrations of an address within the last hour fall in two        *)
(* windows: the one its bucket holds, which began at reset - Hour, and at  *)
(* most one before it.  The invariant counts each part by itself.  A new   *)
(* window opens when the last one has elapsed, and by then its first       *)
(* registration is an hour old: the window before holds one less than the  *)
(* maximum, which is why the bound is 2 * MaxPerHour - 1.                  *)

Start(w) == w.reset - Hour
Inside(R, t) == {r \in R : r[2] >= t}
After(R, t) == {r \in R : r[2] > t}
Before(R, t) == {r \in R : r[2] < t}

WindowCounts(w, R) ==
    /\ Start(w) <= now
    /\ \A r \in R : r[2] < w.reset
    /\ Cardinality(Inside(R, Start(w))) <= w.count
    /\ Cardinality(After(R, Start(w))) <= w.count - 1
    /\ Cardinality(Before(R, Start(w))) <= MaxPerHour - 1

AddressInv(a) ==
    /\ IsFiniteSet(recent[a])
    /\ \A r \in recent[a] : r[2] <= now /\ r[2] + Hour > now
    /\ buckets[a] = Null => recent[a] = {}
    /\ buckets[a] # Null => WindowCounts(buckets[a], recent[a])

BoundInv ==
    /\ RegistrationTypeOK
    /\ serving => \A a \in Address : AddressInv(a)
    /\ ~serving => \A a \in Address : recent[a] = {}

\* A subset of what a window counts is within the same counts.
LEMMA FewerCounted ==
  ASSUME NEW R, NEW Q \in SUBSET R, IsFiniteSet(R), NEW t
  PROVE  /\ IsFiniteSet(Q)
         /\ Cardinality(Inside(Q, t)) <= Cardinality(Inside(R, t))
         /\ Cardinality(After(Q, t)) <= Cardinality(After(R, t))
         /\ Cardinality(Before(Q, t)) <= Cardinality(Before(R, t))
         /\ \A T \in {Inside(Q, t), Inside(R, t), After(Q, t), After(R, t),
                      Before(Q, t), Before(R, t)} : IsFiniteSet(T) /\ Cardinality(T) \in Nat
  <1>1. \A T \in SUBSET R : IsFiniteSet(T) /\ Cardinality(T) \in Nat
    BY FS_Subset, FS_CardinalityType
  <1>2. /\ Inside(Q, t) \subseteq Inside(R, t) /\ Inside(R, t) \subseteq R
        /\ After(Q, t) \subseteq After(R, t) /\ After(R, t) \subseteq R
        /\ Before(Q, t) \subseteq Before(R, t) /\ Before(R, t) \subseteq R
    BY DEF Inside, After, Before
  <1> QED
    BY <1>1, <1>2, FS_Subset

\* A registration at the hour's end adds one to its window at most.
LEMMA OneCounted ==
  ASSUME NEW R, IsFiniteSet(R), NEW r, NEW t \in Int, r[2] \in Int, r[2] >= t
  PROVE  /\ IsFiniteSet(R \cup {r})
         /\ Cardinality(Inside(R \cup {r}, t)) <= Cardinality(Inside(R, t)) + 1
         /\ Cardinality(After(R \cup {r}, t)) <=
              IF r[2] > t THEN Cardinality(After(R, t)) + 1 ELSE Cardinality(After(R, t))
         /\ Before(R \cup {r}, t) = Before(R, t)
  <1>1. /\ Inside(R, t) \in SUBSET R /\ After(R, t) \in SUBSET R
        /\ Inside(R \cup {r}, t) = Inside(R, t) \cup {r}
        /\ After(R \cup {r}, t) = IF r[2] > t THEN After(R, t) \cup {r} ELSE After(R, t)
        /\ Before(R \cup {r}, t) = Before(R, t)
    BY DEF Inside, After, Before
  <1>2. /\ IsFiniteSet(Inside(R, t)) /\ IsFiniteSet(After(R, t))
        /\ Cardinality(Inside(R, t)) \in Nat /\ Cardinality(After(R, t)) \in Nat
    BY <1>1, FS_Subset, FS_CardinalityType
  <1>3. /\ Cardinality(Inside(R, t) \cup {r}) <= Cardinality(Inside(R, t)) + 1
        /\ Cardinality(After(R, t) \cup {r}) <= Cardinality(After(R, t)) + 1
    <2>1. ASSUME NEW S, IsFiniteSet(S)
          PROVE  Cardinality(S \cup {r}) <= Cardinality(S) + 1
      <3>1. Cardinality(S) \in Nat
        BY <2>1, FS_CardinalityType
      <3>2. Cardinality(S \cup {r}) = IF r \in S THEN Cardinality(S) ELSE Cardinality(S) + 1
        BY <2>1, FS_AddElement
      <3> QED
        BY <3>1, <3>2
    <2> QED
      BY <1>2, <2>1
  <1>4. IsFiniteSet(R \cup {r})
    BY FS_AddElement
  <1>5. CASE r[2] > t
    BY <1>1, <1>3, <1>4, <1>5
  <1>6. CASE ~(r[2] > t)
    <2>1. After(R \cup {r}, t) = After(R, t)
      BY <1>1, <1>6
    <2>2. Cardinality(After(R, t)) <= Cardinality(After(R, t))
      BY <1>2
    <2> QED
      BY <1>1, <1>3, <1>4, <1>6, <2>1, <2>2
  <1> QED
    BY <1>5, <1>6

LEMMA BoundInvInit == RegistrationInit => BoundInv
  BY RegistrationInitType DEF RegistrationInit, BoundInv

\* A registration that consumeBucket admits keeps the counts of its address.
LEMMA RegistrationCounted ==
  ASSUME BoundInv, NEW a \in Address, NEW c \in Client,
         serving, buckets[a] # Null => Elapsed(buckets[a]) \/ Room(buckets[a]),
         now' = now, buckets'[a] = Consumed(buckets[a]),
         recent'[a] = recent[a] \cup {<<c, now>>}
  PROVE  AddressInv(a)'
  <1> DEFINE w == buckets[a]
             R == recent[a]
             r == <<c, now>>
             w2 == Consumed(w)
             R2 == R \cup {r}
  <1>1. /\ now \in Nat /\ Hour \in Nat \ {0} /\ MaxPerHour \in Nat \ {0}
        /\ w \in Window \cup {Null} /\ R \in SUBSET (Client \X (1..MaxTime))
    BY RegistrationAssumption DEF BoundInv, RegistrationTypeOK
  <1>2. r[2] = now /\ \A q \in R : q[2] \in Nat
    BY <1>1
  <1>3. /\ IsFiniteSet(R) /\ \A q \in R : q[2] <= now /\ q[2] + Hour > now
        /\ w = Null => R = {}
        /\ w # Null => WindowCounts(w, R)
    BY DEF BoundInv, AddressInv
  <1>4. w2 \in Window
    BY <1>1, ConsumedType
  <1> HIDE DEF w, R, r
  <1>5. IsFiniteSet(R2) /\ \A q \in R2 : q[2] <= now /\ q[2] + Hour > now
    BY <1>1, <1>2, <1>3, FS_AddElement
  <1>6. WindowCounts(w2, R2)
    <2>1. CASE w = Null \/ Elapsed(w)
      <3>1. w2 = [count |-> 1, reset |-> now + Hour] /\ Start(w2) = now
        BY <1>1, <2>1 DEF Consumed, Start
      <3>2. \A q \in R : q[2] < now
        BY <1>1, <1>2, <1>3, <2>1 DEF WindowCounts, Elapsed, Window
      <3>3. Cardinality(R) \in Nat /\ Cardinality(R) <= MaxPerHour - 1
        <4>1. CASE w = Null
          BY <1>1, <1>3, <4>1, FS_EmptySet
        <4>2. CASE w # Null
          <5>1. w \in Window /\ w.count \in 1..MaxPerHour /\ w.reset \in Nat /\ w.reset <= now
            BY <1>1, <2>1, <4>2 DEF Window, Elapsed
          <5>2. \A q \in R : q[2] > Start(w)
            BY <1>1, <1>2, <1>3, <5>1 DEF Start
          <5>3. After(R, Start(w)) = R
            BY <5>2 DEF After
          <5>4. Cardinality(R) <= w.count - 1
            BY <1>3, <4>2, <5>3 DEF WindowCounts
          <5> QED
            BY <1>1, <1>3, <5>1, <5>4, FS_CardinalityType
        <4> QED
          BY <4>1, <4>2
      <3>4. /\ Inside(R2, now) = {r} /\ After(R2, now) = {} /\ Before(R2, now) = R
        BY <1>1, <1>2, <3>2 DEF Inside, After, Before
      <3>5. Cardinality({r}) = 1 /\ Cardinality({}) = 0
        BY FS_Singleton, FS_EmptySet
      <3> HIDE DEF w2, R2
      <3>6. w2.count = 1 /\ w2.reset = now + Hour
        BY <3>1
      <3>7. \A q \in R2 : q[2] < w2.reset
        BY <1>1, <1>2, <3>2, <3>6 DEF R2
      <3>8. Start(w2) = now /\ Start(w2) <= now
        BY <1>1, <3>1
      <3>9. /\ Cardinality(Inside(R2, Start(w2))) = 1
            /\ Cardinality(After(R2, Start(w2))) = 0
            /\ Before(R2, Start(w2)) = R
        BY <3>4, <3>5, <3>8
      <3> QED
        BY <3>3, <3>6, <3>7, <3>8, <3>9 DEF WindowCounts
    <2>2. CASE ~(w = Null \/ Elapsed(w))
      <3>1. /\ w \in Window /\ w.count \in 1..MaxPerHour /\ w.reset \in Nat
            /\ w.reset > now /\ w.count < MaxPerHour
        BY <1>1, <2>2 DEF Window, Elapsed, Room, w
      <3>2. w2 = [w EXCEPT !.count = @ + 1]
        BY <2>2 DEF Consumed
      <3>3. w2.count = w.count + 1 /\ w2.reset = w.reset
        BY <3>1, <3>2 DEF Window
      <3> DEFINE t == Start(w)
      <3>4. t \in Int /\ Start(w2) = t /\ t <= now
        BY <1>1, <1>3, <2>2, <3>1, <3>3 DEF Start, WindowCounts
      <3>5. /\ \A q \in R : q[2] < w.reset
            /\ Cardinality(Inside(R, t)) <= w.count
            /\ Cardinality(After(R, t)) <= w.count - 1
            /\ Cardinality(Before(R, t)) <= MaxPerHour - 1
        BY <1>3, <2>2 DEF WindowCounts
      <3> HIDE DEF t, w2, R2
      <3>6. \A T \in {Inside(R, t), After(R, t), Before(R, t)} : Cardinality(T) \in Nat
        BY <1>3, FewerCounted
      <3>7. /\ IsFiniteSet(R2)
            /\ Cardinality(Inside(R2, t)) <= Cardinality(Inside(R, t)) + 1
            /\ Cardinality(After(R2, t)) <=
                 IF now > t THEN Cardinality(After(R, t)) + 1 ELSE Cardinality(After(R, t))
            /\ Before(R2, t) = Before(R, t)
        <4>1. r[2] \in Int /\ r[2] >= t /\ r[2] = now
          BY <1>1, <1>2, <3>4
        <4>2. /\ IsFiniteSet(R \cup {r})
              /\ Cardinality(Inside(R \cup {r}, t)) <= Cardinality(Inside(R, t)) + 1
              /\ Cardinality(After(R \cup {r}, t)) <=
                   IF r[2] > t THEN Cardinality(After(R, t)) + 1 ELSE Cardinality(After(R, t))
              /\ Before(R \cup {r}, t) = Before(R, t)
          BY <1>3, <3>4, <4>1, OneCounted
        <4> QED
          BY <4>1, <4>2 DEF R2
      <3>8. \A T \in {Inside(R2, t), After(R2, t)} : Cardinality(T) \in Nat
        BY <3>7, FewerCounted
      <3>9. \A q \in R2 : q[2] < w2.reset
        BY <1>2, <3>1, <3>3, <3>5 DEF R2
      <3>10. Cardinality(Inside(R2, t)) <= w2.count
        BY <3>1, <3>3, <3>5, <3>6, <3>7, <3>8
      <3>11. Cardinality(After(R2, t)) <= w2.count - 1
        BY <1>1, <3>1, <3>3, <3>4, <3>5, <3>6, <3>7, <3>8
      <3> QED
        BY <3>4, <3>5, <3>7, <3>9, <3>10, <3>11 DEF WindowCounts
    <2> QED
      BY <2>1, <2>2
  <1>7. /\ now' = now /\ buckets'[a] = w2 /\ recent'[a] = R2 /\ w2 # Null
    <2>1. Null \notin Window
      BY RegistrationAssumption DEF Window
    <2> QED
      BY <1>4, <2>1 DEF w, R, r
  <1> QED
    BY <1>5, <1>6, <1>7 DEF AddressInv, WindowCounts

LEMMA BoundInvStep == BoundInv /\ [RegistrationNext]_regVars => BoundInv'
  <1> SUFFICES ASSUME BoundInv, [RegistrationNext]_regVars PROVE BoundInv'
    OBVIOUS
  <1>t. RegistrationTypeOK /\ RegistrationTypeOK'
    BY RegistrationStepType DEF BoundInv
  <1>n. /\ now \in Nat /\ Hour \in Nat \ {0} /\ MaxPerHour \in Nat \ {0}
        /\ recent \in [Address -> SUBSET (Client \X (1..MaxTime))]
        /\ buckets \in [Address -> Window \cup {Null}]
    BY <1>t, RegistrationAssumption DEF RegistrationTypeOK
  <1>1. CASE Boot
    <2>1. /\ ~serving /\ serving' /\ buckets' = Empty /\ UNCHANGED <<now, recent>>
      BY <1>1 DEF Boot
    <2>2. \A a \in Address : recent'[a] = {} /\ buckets'[a] = Null
      BY <2>1 DEF BoundInv, Empty
    <2>3. \A a \in Address : AddressInv(a)'
      BY <2>2, FS_EmptySet DEF AddressInv
    <2> QED
      BY <1>t, <2>1, <2>3 DEF BoundInv
  <1>2. CASE Stop
    <2>1. ~serving' /\ \A a \in Address : recent'[a] = {}
      BY <1>2 DEF Stop
    <2> QED
      BY <1>t, <2>1 DEF BoundInv
  <1>3. ASSUME NEW a \in Address, NEW c \in Client, NEW U \in (SUBSET Uri) \ {{}},
               RegisterClient(a, c, U)
        PROVE  BoundInv'
    <2>1. /\ serving /\ serving' = serving /\ now' = now
          /\ buckets[a] # Null => Elapsed(buckets[a]) \/ Room(buckets[a])
          /\ buckets' = [buckets EXCEPT ![a] = Consumed(buckets[a])]
          /\ recent' = [recent EXCEPT ![a] = recent[a] \cup {<<c, now>>}]
      BY <1>3 DEF RegisterClient
    <2>2. buckets'[a] = Consumed(buckets[a]) /\ recent'[a] = recent[a] \cup {<<c, now>>}
      BY <1>n, <2>1
    <2>3. AddressInv(a)'
      BY <2>1, <2>2, RegistrationCounted
    <2>4. ASSUME NEW b \in Address, b # a PROVE AddressInv(b)'
      <3>1. buckets'[b] = buckets[b] /\ recent'[b] = recent[b] /\ AddressInv(b)
        BY <1>n, <2>1, <2>4 DEF BoundInv
      <3> QED
        BY <2>1, <3>1 DEF AddressInv, WindowCounts
    <2> QED
      BY <1>t, <2>1, <2>3, <2>4 DEF BoundInv
  <1>4. ASSUME UNCHANGED <<now, serving, buckets, recent>> PROVE BoundInv'
    <2>1. \A a \in Address : AddressInv(a) => AddressInv(a)'
      BY <1>4 DEF AddressInv, WindowCounts
    <2> QED
      BY <1>t, <1>4, <2>1 DEF BoundInv
  <1>5. CASE Tick
    <2>1. /\ serving /\ serving' = serving /\ now' = now + 1 /\ buckets' = buckets
          /\ recent' = [a \in Address |-> {r \in recent[a] : r[2] + Hour > now'}]
      BY <1>5 DEF Tick
    <2>2. ASSUME NEW a \in Address PROVE AddressInv(a)'
      <3> DEFINE w == buckets[a]
                 R == recent[a]
                 Q == recent'[a]
      <3>1. AddressInv(a)
        BY <2>1 DEF BoundInv
      <3>2. Q = {r \in R : r[2] + Hour > now'} /\ Q \in SUBSET R
        BY <2>1
      <3>3. \A r \in R : r[2] \in Nat
        BY <1>n
      <3>4. \A r \in Q : r[2] <= now' /\ r[2] + Hour > now'
        BY <1>n, <2>1, <3>1, <3>2, <3>3 DEF AddressInv
      <3>5. IsFiniteSet(Q)
        BY <3>1, <3>2, FS_Subset DEF AddressInv
      <3>6. w = Null => Q = {}
        BY <3>1, <3>2 DEF AddressInv
      <3>7. ASSUME w # Null
            PROVE  /\ Start(w) <= now' /\ \A r \in Q : r[2] < w.reset
                   /\ Cardinality(Inside(Q, Start(w))) <= w.count
                   /\ Cardinality(After(Q, Start(w))) <= w.count - 1
                   /\ Cardinality(Before(Q, Start(w))) <= MaxPerHour - 1
        <4> DEFINE t == Start(w)
        <4>1. WindowCounts(w, R) /\ w \in Window
          BY <1>n, <3>1, <3>7 DEF AddressInv
        <4>2. /\ t <= now /\ t \in Int /\ w.count \in Nat
              /\ \A r \in Q : r[2] < w.reset
          BY <1>n, <3>2, <4>1 DEF WindowCounts, Start, Window
        <4>3. IsFiniteSet(R)
          BY <3>1 DEF AddressInv
        <4> HIDE DEF R, Q, t
        <4>4. /\ Cardinality(Inside(R, t)) <= w.count
              /\ Cardinality(After(R, t)) <= w.count - 1
              /\ Cardinality(Before(R, t)) <= MaxPerHour - 1
          BY <4>1 DEF WindowCounts, t
        <4>5. /\ Cardinality(Inside(Q, t)) <= Cardinality(Inside(R, t))
              /\ Cardinality(After(Q, t)) <= Cardinality(After(R, t))
              /\ Cardinality(Before(Q, t)) <= Cardinality(Before(R, t))
              /\ \A T \in {Inside(Q, t), Inside(R, t), After(Q, t), After(R, t),
                           Before(Q, t), Before(R, t)} : Cardinality(T) \in Nat
          BY <3>2, <4>3, FewerCounted
        <4>6. /\ Cardinality(Inside(Q, t)) <= w.count
              /\ Cardinality(After(Q, t)) <= w.count - 1
              /\ Cardinality(Before(Q, t)) <= MaxPerHour - 1
          BY <1>n, <4>2, <4>4, <4>5
        <4>7. t <= now'
          BY <1>n, <2>1, <4>2
        <4> QED
          BY <4>2, <4>6, <4>7 DEF t
      <3>8. buckets'[a] = w /\ recent'[a] = Q
        BY <2>1
      <3> HIDE DEF w, Q
      <3> QED
        BY <3>4, <3>5, <3>6, <3>7, <3>8 DEF AddressInv, WindowCounts
    <2> QED
      BY <1>t, <2>1, <2>2 DEF BoundInv
  <1>6. ASSUME NEW t \in 1..MaxTime, SetClock(t) PROVE BoundInv'
    BY <1>t, <1>6 DEF SetClock, BoundInv
  <1>7. CASE UNCHANGED regVars
    BY <1>4, <1>7 DEF regVars
  <1>8. ASSUME NEW c \in Client \cup Cimd, NEW uri \in Uri, NEW omitted \in BOOLEAN,
               Authorize(c, uri, omitted)
        PROVE  BoundInv'
    BY <1>4, <1>8 DEF Authorize
  <1> QED
    BY <1>1, <1>2, <1>3, <1>5, <1>6, <1>7, <1>8 DEF RegistrationNext

\* No address registers more than two windows' worth less one within an hour of one
\* process, whatever the maximum, the length of the hour and the number of clients
\* (consumeBucket: the windows are fixed, not sliding).
THEOREM RegistrationsAreBounded == RegistrationSpec => []RegistrationsBounded
  <1>1. BoundInv => RegistrationsBounded
    <2> SUFFICES ASSUME BoundInv, NEW a \in Address
                 PROVE  Cardinality(recent[a]) <= 2 * MaxPerHour - 1
      BY DEF RegistrationsBounded
    <2> DEFINE R == recent[a]
               w == buckets[a]
    <2>1. /\ MaxPerHour \in Nat \ {0} /\ Hour \in Nat
          /\ recent \in [Address -> SUBSET (Client \X (1..MaxTime))]
          /\ w \in Window \cup {Null}
      BY RegistrationAssumption DEF BoundInv, RegistrationTypeOK
    <2>2. CASE R = {}
      BY <2>1, <2>2, FS_EmptySet
    <2>3. CASE R # {}
      <3>1. AddressInv(a)
        BY <2>3 DEF BoundInv
      <3>2. w # Null
        BY <2>3, <3>1 DEF AddressInv
      <3>3. w \in Window /\ WindowCounts(w, R) /\ IsFiniteSet(R)
        BY <2>1, <3>1, <3>2 DEF AddressInv
      <3> DEFINE t == Start(w)
      <3>4. t \in Int /\ w.count \in 1..MaxPerHour
        BY <2>1, <3>3 DEF Start, Window
      <3>5. /\ Cardinality(Inside(R, t)) <= w.count
            /\ Cardinality(Before(R, t)) <= MaxPerHour - 1
        BY <3>3 DEF WindowCounts
      <3>6. \A r \in R : r[2] \in Nat
        BY <2>1
      <3> HIDE DEF R, t, w
      <3>7. R = Inside(R, t) \cup Before(R, t) /\ Inside(R, t) \cap Before(R, t) = {}
        BY <3>4, <3>6 DEF Inside, Before
      <3>8. /\ IsFiniteSet(Inside(R, t)) /\ Cardinality(Inside(R, t)) \in Nat
            /\ IsFiniteSet(Before(R, t)) /\ Cardinality(Before(R, t)) \in Nat
        BY <3>3, FewerCounted
      <3>9. Cardinality(R) = Cardinality(Inside(R, t)) + Cardinality(Before(R, t))
        <4>1. Cardinality(Inside(R, t) \cup Before(R, t)) =
                Cardinality(Inside(R, t)) + Cardinality(Before(R, t))
                - Cardinality(Inside(R, t) \cap Before(R, t))
          BY <3>8, FS_Union
        <4>2. Cardinality(Inside(R, t) \cap Before(R, t)) = 0
          BY <3>7, FS_EmptySet
        <4>3. Cardinality(Inside(R, t) \cup Before(R, t)) = Cardinality(R)
          BY <3>7
        <4> QED
          BY <3>8, <4>1, <4>2, <4>3
      <3> QED
        BY <2>1, <3>4, <3>5, <3>8, <3>9 DEF R
    <2> QED
      BY <2>2, <2>3
  <1> QED
    BY BoundInvInit, BoundInvStep, <1>1, PTL DEF RegistrationSpec
=============================================================================

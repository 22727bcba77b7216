---------------------------- MODULE BrowserProofs ----------------------------
(***************************************************************************)
(* Theorems about the browser session pool, for every set of users, calls  *)
(* and Chromium processes, every cap and every timeout.                    *)
(***************************************************************************)
EXTENDS BrowserPool, FiniteSetTheorems, TLAPS

-----------------------------------------------------------------------------
(* Contexts *)

\* What a startSession call holds: its user, the browser it was given and, once it
\* has one, an identity of that browser.
CallSound(k) ==
    /\ k.stage # "none" => k.user \in User
    /\ k.stage \in {"launched", "opening", "loading"} => k.browser \in BrowserId
    /\ k.stage = "launching" => k.identity = Null
    /\ k.identity \in {Null, k.browser}

\* Why ContextsSound is inductive: the cached version belongs to the browser at
\* hand, if there is one, and a call's identity to the browser it was given.
ContextsInv ==
    /\ PoolTypeOK
    /\ browser # Null => chromeMajor \in {Null, browser}
    /\ \A c \in Call : CallSound(calls[c])
    /\ ContextsSound

LEMMA NoCallType ==
    NoCall \in CallState /\ NoCall.stage = "none" /\ CallSound(NoCall)
  BY DEF NoCall, CallState, Stage, CallSound

\* Only contexts close, or sessions change but none that a context belongs to.
LEMMA ContextsClose ==
    ASSUME ContextsInv, PoolTypeOK', contexts' \subseteq contexts, UNCHANGED calls,
           browser' # Null => chromeMajor' \in {Null, browser'},
           \A x \in contexts' : HasSession(x.id) => HasSession(x.id)'
    PROVE  ContextsInv'
  BY DEF ContextsInv, ContextsSound

\* One call moves on; the contexts keep their callers and sessions.
LEMMA CallMovesOn ==
    ASSUME ContextsInv, PoolTypeOK', UNCHANGED <<contexts, sessions>>,
           NEW c \in Call, calls[c].stage # "loading",
           \A d \in Call \ {c} : calls'[d] = calls[d],
           browser' # Null => chromeMajor' \in {Null, browser'},
           CallSound(calls'[c])
    PROVE  ContextsInv'
<1>1. \A x \in contexts : x.id \in Call
  BY DEF ContextsInv, PoolTypeOK, Context
<1>2. \A x \in contexts : HasSession(x.id)' = HasSession(x.id)
  BY DEF HasSession
<1>3. \A x \in contexts : calls[x.id].stage = "loading" => calls'[x.id] = calls[x.id]
  BY <1>1
<1>4. ContextsSound'
  BY <1>2, <1>3 DEF ContextsInv, ContextsSound
<1>5. \A d \in Call : CallSound(calls'[d])
  BY DEF ContextsInv
<1>6. QED
  BY <1>4, <1>5 DEF ContextsInv

LEMMA StartKeepsContexts ==
    ASSUME ContextsInv, NEW c \in Call, NEW u \in User, StartSession(c, u)
    PROVE  ContextsInv'
<1> DEFINE n == IF Reusable
                THEN [NoCall EXCEPT !.stage = "launched", !.user = u, !.browser = browser]
                ELSE [NoCall EXCEPT !.stage = "launching", !.user = u]
<1>1. calls' = [calls EXCEPT ![c] = n] /\ calls[c].stage = "none"
      /\ UNCHANGED <<lifecycle, browser, chromeMajor, running, contexts, sessions>>
  BY DEF StartSession, InFlight
<1>2. Reusable => browser \in BrowserId
  BY DEF Reusable, ContextsInv, PoolTypeOK
<1>3. n \in CallState /\ CallSound(n)
  BY <1>2 DEF NoCall, CallState, Stage, CallSound
<1> HIDE DEF n
<1>4. calls'[c] = n /\ \A d \in Call \ {c} : calls'[d] = calls[d]
  BY <1>1 DEF ContextsInv, PoolTypeOK
<1>5. overlapped' \in BOOLEAN
  BY DEF StartSession, ContextsInv, PoolTypeOK
<1>6. PoolTypeOK'
  BY <1>1, <1>3, <1>5 DEF ContextsInv, PoolTypeOK
<1>7. QED
  BY <1>1, <1>3, <1>4, <1>6, CallMovesOn DEF ContextsInv

LEMMA LaunchKeepsContexts ==
    ASSUME ContextsInv, NEW c \in Call, NEW b \in BrowserId, Launched(c, b)
    PROVE  ContextsInv'
<1> DEFINE n == [calls[c] EXCEPT !.stage = "launched", !.browser = b]
<1>1. /\ calls' = [calls EXCEPT ![c] = n] /\ calls[c].stage = "launching"
      /\ running' = running \cup {b}
      /\ UNCHANGED <<lifecycle, browser, chromeMajor, contexts, sessions, overlapped>>
  BY DEF Launched, ContextsInv, PoolTypeOK
<1>2. n \in CallState /\ CallSound(n)
  BY <1>1 DEF ContextsInv, PoolTypeOK, CallState, Stage, CallSound
<1> HIDE DEF n
<1>3. calls'[c] = n /\ \A d \in Call \ {c} : calls'[d] = calls[d]
  BY <1>1 DEF ContextsInv, PoolTypeOK
<1>4. PoolTypeOK'
  BY <1>1, <1>2 DEF ContextsInv, PoolTypeOK
<1>5. QED
  BY <1>1, <1>2, <1>3, <1>4, CallMovesOn DEF ContextsInv

\* The version read for a context is that of the browser the context will live in.
LEMMA AdoptKeepsContexts ==
    ASSUME ContextsInv, NEW c \in Call, NEW stealth \in BOOLEAN, AdoptBrowser(c, stealth)
    PROVE  ContextsInv'
<1> DEFINE b == calls[c].browser
           kept == CachedMajor(b)
           read == IF stealth /\ kept = Null THEN b ELSE kept
           n == [calls[c] EXCEPT !.stage = "opening",
                                 !.identity = IF stealth THEN read ELSE Null]
<1>1. /\ calls[c].stage = "launched" /\ browser' = b /\ chromeMajor' = read
      /\ calls' = [calls EXCEPT ![c] = n]
      /\ UNCHANGED <<lifecycle, running, contexts, sessions, overlapped>>
  BY DEF AdoptBrowser, ContextsInv, PoolTypeOK
<1>2. b \in BrowserId /\ b # Null /\ calls[c] \in CallState
  BY <1>1, PoolAssumption DEF ContextsInv, PoolTypeOK, CallSound
<1>3. kept \in {Null, b}
  BY <1>2 DEF CachedMajor, ContextsInv
<1> HIDE DEF kept
<1>4. read \in {Null, b}
  BY <1>3
<1> HIDE DEF read
<1>5. calls[c].user \in User
  BY <1>1 DEF ContextsInv, CallSound
<1>51. n \in CallState /\ CallSound(n)
  BY <1>2, <1>4, <1>5 DEF CallState, Stage, CallSound
<1> HIDE DEF n
<1>6. calls'[c] = n /\ \A d \in Call \ {c} : calls'[d] = calls[d]
  BY <1>1 DEF ContextsInv, PoolTypeOK
<1>7. PoolTypeOK'
  BY <1>1, <1>2, <1>4, <1>51 DEF ContextsInv, PoolTypeOK
<1>8. QED
  BY <1>1, <1>2, <1>4, <1>51, <1>6, <1>7, CallMovesOn

LEMMA OpenKeepsContexts ==
    ASSUME ContextsInv, NEW c \in Call, ContextOpened(c)
    PROVE  ContextsInv'
<1> DEFINE x == [id |-> c, browser |-> calls[c].browser, identity |-> calls[c].identity]
           n == [calls[c] EXCEPT !.stage = "loading"]
<1>1. /\ calls[c].stage = "opening" /\ contexts' = contexts \cup {x}
      /\ calls' = [calls EXCEPT ![c] = n]
      /\ UNCHANGED <<lifecycle, browser, chromeMajor, running, sessions, overlapped>>
  BY DEF ContextOpened, ContextsInv, PoolTypeOK
<1>2. calls[c] \in CallState /\ calls[c].browser \in BrowserId
      /\ calls[c].identity \in {Null, calls[c].browser} /\ calls[c].user \in User
  BY <1>1 DEF ContextsInv, PoolTypeOK, CallSound
<1>3. /\ x \in Context /\ x.id = c /\ x.identity \in {Null, x.browser}
  BY <1>2 DEF Context, CallState
<1>4. n \in CallState /\ n.stage = "loading" /\ CallSound(n)
  BY <1>2 DEF CallState, Stage, CallSound
<1> HIDE DEF n, x
<1>5. calls'[c] = n /\ \A d \in Call \ {c} : calls'[d] = calls[d]
  BY <1>1 DEF ContextsInv, PoolTypeOK
<1>6. PoolTypeOK'
  BY <1>1, <1>3, <1>4 DEF ContextsInv, PoolTypeOK
<1>7. \A y \in contexts' : calls'[y.id].stage = "loading" \/ HasSession(y.id)'
  BY <1>1, <1>3, <1>4, <1>5
     DEF ContextsInv, ContextsSound, HasSession, PoolTypeOK, Context
<1>8. \A y \in contexts' : y.identity \in {Null, y.browser}
  BY <1>1, <1>3 DEF ContextsInv, ContextsSound
<1>9. \A d \in Call : CallSound(calls'[d])
  BY <1>4, <1>5 DEF ContextsInv
<1>10. QED
  BY <1>1, <1>6, <1>7, <1>8, <1>9 DEF ContextsInv, ContextsSound

\* A call ends: its context belongs to its session now, or is closed.
LEMMA CallEndsKeepsContexts ==
    ASSUME ContextsInv, PoolTypeOK', NEW c \in Call, calls' = [calls EXCEPT ![c] = NoCall],
           UNCHANGED <<browser, chromeMajor>>, sessions \subseteq sessions',
           contexts' \subseteq contexts,
           HasSession(c)' \/ \A x \in contexts' : x.id # c
    PROVE  ContextsInv'
<1>1. calls'[c] = NoCall /\ \A d \in Call \ {c} : calls'[d] = calls[d]
  BY DEF ContextsInv, PoolTypeOK
<1>2. \A x \in contexts' : calls'[x.id].stage = "loading" \/ HasSession(x.id)'
  BY <1>1 DEF ContextsInv, ContextsSound, HasSession, PoolTypeOK, Context
<1>3. \A x \in contexts' : x.identity \in {Null, x.browser}
  BY DEF ContextsInv, ContextsSound
<1>4. \A d \in Call : CallSound(calls'[d])
  BY <1>1, NoCallType DEF ContextsInv
<1>5. QED
  BY <1>2, <1>3, <1>4 DEF ContextsInv, ContextsSound

LEMMA RegisterKeepsContexts ==
    ASSUME ContextsInv, NEW c \in Call, RegisterSession(c)
    PROVE  ContextsInv'
<1> DEFINE e == [id |-> c, user |-> calls[c].user, idle |-> 0, left |-> HardLifetime]
<1>1. /\ sessions' = sessions \cup {e} /\ calls' = [calls EXCEPT ![c] = NoCall]
      /\ UNCHANGED <<lifecycle, browser, chromeMajor, running, contexts, overlapped>>
  BY DEF RegisterSession
<1>2. calls[c].user \in User
  BY DEF RegisterSession, ContextsInv, CallSound
<1>3. e \in SessionEntry /\ e.id = c
  BY <1>2, PoolAssumption DEF SessionEntry
<1> HIDE DEF e
<1>4. PoolTypeOK'
  BY <1>1, <1>3, NoCallType DEF ContextsInv, PoolTypeOK
<1>5. HasSession(c)'
  BY <1>1, <1>3 DEF HasSession
<1>6. QED
  BY <1>1, <1>4, <1>5, CallEndsKeepsContexts

LEMMA FailKeepsContexts ==
    ASSUME ContextsInv, NEW c \in Call, StartFails(c)
    PROVE  ContextsInv'
<1>1. /\ contexts' = ContextsWithout({c}) /\ calls' = [calls EXCEPT ![c] = NoCall]
      /\ UNCHANGED <<lifecycle, browser, chromeMajor, running, sessions, overlapped>>
  BY DEF StartFails
<1>2. contexts' \subseteq contexts /\ \A x \in contexts' : x.id # c
  BY <1>1 DEF ContextsWithout
<1>3. PoolTypeOK'
  BY <1>1, <1>2, NoCallType DEF ContextsInv, PoolTypeOK
<1>4. QED
  BY <1>1, <1>2, <1>3, CallEndsKeepsContexts

LEMMA TouchTypes ==
    ASSUME NEW e \in SessionEntry
    PROVE  /\ [e EXCEPT !.idle = 0] \in SessionEntry
           /\ [e EXCEPT !.idle = 0].id = e.id /\ [e EXCEPT !.idle = 0].user = e.user
  BY PoolAssumption DEF SessionEntry

\* A session counts again as used; the pool keeps the same sessions of the same users.
LEMMA OpenTabTypes ==
    ASSUME NEW e \in SessionEntry,
           NEW left, left = IF e.left < LoadTimeout THEN HardLifetime ELSE e.left
    PROVE  /\ [e EXCEPT !.idle = 0, !.left = left] \in SessionEntry
           /\ [e EXCEPT !.idle = 0, !.left = left].id = e.id
           /\ [e EXCEPT !.idle = 0, !.left = left].user = e.user
<1>1. left \in 0..HardLifetime
  BY PoolAssumption DEF SessionEntry
<1>2. 0 \in 0..IdleTimeout
  BY PoolAssumption
<1>3. QED
  BY <1>1, <1>2 DEF SessionEntry

LEMMA OlderTypes ==
    ASSUME NEW e \in SessionEntry
    PROVE  Older(e) \in SessionEntry /\ Older(e).id = e.id /\ Older(e).user = e.user
<1> DEFINE i == IF e.idle < IdleTimeout THEN e.idle + 1 ELSE e.idle
           l == IF e.left > 0 THEN e.left - 1 ELSE 0
<1>1. i \in 0..IdleTimeout /\ l \in 0..HardLifetime
  BY PoolAssumption DEF SessionEntry
<1>2. Older(e) = [e EXCEPT !.idle = i, !.left = l]
  BY DEF Older
<1> HIDE DEF i, l
<1>3. QED
  BY <1>1, <1>2 DEF SessionEntry

LEMMA TouchKeepsContexts ==
    ASSUME ContextsInv, NEW e \in sessions, FinishAction(e) \/ FinishOpenTab(e)
    PROVE  ContextsInv'
<1>1. e \in SessionEntry
  BY DEF ContextsInv, PoolTypeOK
<1>2. PICK f \in SessionEntry : f.id = e.id /\ sessions' = (sessions \ {e}) \cup {f}
  BY <1>1, TouchTypes, OpenTabTypes DEF FinishAction, FinishOpenTab, Touch
<1>3. UNCHANGED <<lifecycle, browser, chromeMajor, running, calls, contexts, overlapped>>
  BY DEF FinishAction, FinishOpenTab
<1>4. PoolTypeOK'
  BY <1>2, <1>3 DEF ContextsInv, PoolTypeOK
<1>5. \A c : HasSession(c) => HasSession(c)'
  BY <1>2 DEF HasSession
<1>6. QED
  BY <1>3, <1>4, <1>5, ContextsClose DEF ContextsInv

LEMMA TickKeepsContexts ==
    ASSUME ContextsInv, Tick
    PROVE  ContextsInv'
<1>1. /\ sessions' = {Older(e) : e \in sessions}
      /\ UNCHANGED <<lifecycle, browser, chromeMajor, running, calls, contexts, overlapped>>
  BY DEF Tick
<1>2. \A e \in sessions : Older(e) \in SessionEntry /\ Older(e).id = e.id
  BY OlderTypes DEF ContextsInv, PoolTypeOK
<1>3. PoolTypeOK'
  BY <1>1, <1>2 DEF ContextsInv, PoolTypeOK
<1>4. \A c : HasSession(c) => HasSession(c)'
  BY <1>1, <1>2 DEF HasSession
<1>5. QED
  BY <1>1, <1>3, <1>4, ContextsClose DEF ContextsInv

\* Sessions leave the pool, by their owner, by the sweeper or in close(), and their
\* contexts with them.
LEMMA LeaveKeepsContexts ==
    ASSUME ContextsInv,
           \/ \E e \in sessions : StopSession(e)
           \/ Sweep
           \/ Close
    PROVE  ContextsInv'
<1>1. PICK gone : /\ sessions' = sessions \ gone
                  /\ contexts' = ContextsWithout({e.id : e \in gone})
  <2>1. CASE \E e \in sessions : StopSession(e)
    <3>1. PICK e \in sessions : sessions' = sessions \ {e} /\ contexts' = ContextsWithout({e.id})
      BY <2>1 DEF StopSession
    <3>2. {d.id : d \in {e}} = {e.id}
      OBVIOUS
    <3>3. QED
      BY <3>1, <3>2
  <2>2. CASE Sweep
    BY <2>2 DEF Sweep
  <2>3. CASE Close
    <3>1. sessions' = sessions \ sessions
      BY <2>3 DEF Close
    <3>2. QED
      BY <2>3, <3>1 DEF Close
  <2>4. QED
    BY <2>1, <2>2, <2>3
<1>2. /\ UNCHANGED <<browser, chromeMajor, running, calls>>
      /\ lifecycle' \in {lifecycle, "draining"} /\ overlapped' \in BOOLEAN
  BY DEF StopSession, Sweep, Close, ContextsInv, PoolTypeOK
<1>3. contexts' \subseteq contexts /\ \A x \in contexts' : x.id \notin {e.id : e \in gone}
  BY <1>1 DEF ContextsWithout
<1>4. PoolTypeOK'
  BY <1>1, <1>2, <1>3 DEF ContextsInv, PoolTypeOK
<1>5. \A x \in contexts' : HasSession(x.id) => HasSession(x.id)'
  BY <1>1, <1>3 DEF HasSession
<1>6. QED
  BY <1>2, <1>3, <1>4, <1>5, ContextsClose DEF ContextsInv

LEMMA BrowserEndsKeepsContexts ==
    ASSUME ContextsInv,
           \/ \E b \in BrowserId : Disconnect(b)
           \/ CloseBrowser
           \/ ForgetBrowser
    PROVE  ContextsInv'
<1>1. /\ contexts' \subseteq contexts /\ running' \subseteq running
      /\ UNCHANGED <<chromeMajor, calls, sessions, overlapped>>
      /\ browser' \in {browser, Null}
      /\ lifecycle' \in {lifecycle, "stopping", "closed"}
  BY DEF Disconnect, CloseBrowser, ForgetBrowser, ProcessesLeft
<1>2. PoolTypeOK'
  BY <1>1 DEF ContextsInv, PoolTypeOK
<1>3. \A c : HasSession(c)' = HasSession(c)
  BY <1>1 DEF HasSession
<1>4. browser' # Null => chromeMajor' \in {Null, browser'}
  BY <1>1 DEF ContextsInv
<1>5. QED
  BY <1>1, <1>2, <1>3, <1>4, ContextsClose

LEMMA ContextsInit == PoolInit => ContextsInv
<1> SUFFICES ASSUME PoolInit PROVE ContextsInv
  OBVIOUS
<1>1. PoolTypeOK
  BY NoCallType DEF PoolInit, PoolTypeOK
<1>2. QED
  BY <1>1, NoCallType DEF PoolInit, ContextsInv, ContextsSound

LEMMA ContextsStep == ContextsInv /\ [PoolNext]_poolVars => ContextsInv'
<1> SUFFICES ASSUME ContextsInv, [PoolNext]_poolVars PROVE ContextsInv'
  OBVIOUS
<1>1. ASSUME UNCHANGED poolVars PROVE ContextsInv'
  BY <1>1 DEF poolVars, ContextsInv, PoolTypeOK, ContextsSound, HasSession
<1>2. ASSUME NEW c \in Call, NEW u \in User, StartSession(c, u) PROVE ContextsInv'
  BY <1>2, StartKeepsContexts
<1>3. ASSUME NEW c \in Call, NEW b \in BrowserId, Launched(c, b) PROVE ContextsInv'
  BY <1>3, LaunchKeepsContexts
<1>4. ASSUME NEW c \in Call, NEW stealth \in BOOLEAN, AdoptBrowser(c, stealth)
      PROVE  ContextsInv'
  BY <1>4, AdoptKeepsContexts
<1>5. ASSUME NEW c \in Call, ContextOpened(c) PROVE ContextsInv'
  BY <1>5, OpenKeepsContexts
<1>6. ASSUME NEW c \in Call, RegisterSession(c) PROVE ContextsInv'
  BY <1>6, RegisterKeepsContexts
<1>7. ASSUME NEW c \in Call, StartFails(c) PROVE ContextsInv'
  BY <1>7, FailKeepsContexts
<1>8. ASSUME NEW e \in sessions, FinishAction(e) \/ FinishOpenTab(e) PROVE ContextsInv'
  BY <1>8, TouchKeepsContexts
<1>9. QED
  BY <1>1, <1>2, <1>3, <1>4, <1>5, <1>6, <1>7, <1>8, LeaveKeepsContexts,
     TickKeepsContexts, BrowserEndsKeepsContexts DEF PoolNext

\* No browser context is lost, and the version a context claims is that of the
\* browser it lives in, for every interleaving of starts, launches, crashes, sweeps
\* and close(), overlapping calls included.
THEOREM ContextsAreSound == PoolSpec => []ContextsSound
<1>1. ContextsInv => ContextsSound
  BY DEF ContextsInv
<1>2. QED
  BY <1>1, ContextsInit, ContextsStep, PTL DEF PoolSpec

-----------------------------------------------------------------------------
(* Serial calls *)

OfUser(S, u) == {e \in S : e.user = u}

\* What startSession relies on while no call overlaps another one or close(): it is
\* alone, the room it saw is still there, no process runs beside the browser at hand
\* or the one it was given, and after close() nothing happens any more.
OneCall == \A c, d \in Call : InFlight(c) /\ InFlight(d) => c = d
RoomLeft == \A c \in Call : InFlight(c) => CapacityFor(calls[c].user)
OneBrowser ==
    /\ \A c \in Call : calls[c].stage = "launching" => running = {}
    /\ \A c \in Call : calls[c].stage = "launched" => running \subseteq {calls[c].browser}
    /\ (\A c \in Call : calls[c].stage \notin {"launching", "launched"})
         => running \subseteq {browser}
Quiet ==
    /\ lifecycle # "open" => sessions = {} /\ contexts = {} /\ \A c \in Call : ~InFlight(c)
    /\ lifecycle \in {"stopping", "closed"} => running = {}

SerialInv ==
    /\ ContextsInv
    /\ IsFiniteSet(sessions)
    /\ ~overlapped => CapsRespected /\ OneCall /\ RoomLeft /\ OneBrowser /\ Quiet

LEMMA SerialInvSafe == SerialInv => SerialCallsSafe
<1> SUFFICES ASSUME SerialInv, ~overlapped
             PROVE  CapsRespected /\ Cardinality(running) <= 1
                    /\ (lifecycle = "closed" => running = {} /\ contexts = {} /\ sessions = {})
  BY DEF SerialCallsSafe
<1>1. CapsRespected /\ OneBrowser /\ Quiet
  BY DEF SerialInv
<1>2. PICK b : running \subseteq {b}
  BY <1>1 DEF OneBrowser
<1>3. IsFiniteSet({b}) /\ Cardinality({b}) = 1 /\ running \in SUBSET {b}
  BY <1>2, FS_Singleton
<1>4. Cardinality(running) <= 1
  BY <1>3, FS_Subset
<1>5. QED
  BY <1>1, <1>4 DEF Quiet

\* The pool gains no session: it loses some, or renames each after the same user.
Fewer ==
    /\ IsFiniteSet(sessions')
    /\ Cardinality(sessions') <= Cardinality(sessions)
    /\ \A u : Cardinality(OfUser(sessions', u)) <= Cardinality(OfUser(sessions, u))
    /\ sessions = {} => sessions' = {}

LEMMA SubsetFewer ==
    ASSUME IsFiniteSet(sessions), sessions' \subseteq sessions
    PROVE  Fewer
<1>1. IsFiniteSet(sessions') /\ Cardinality(sessions') <= Cardinality(sessions)
  BY FS_Subset
<1>2. ASSUME NEW u
      PROVE  Cardinality(OfUser(sessions', u)) <= Cardinality(OfUser(sessions, u))
  <2>1. OfUser(sessions, u) \in SUBSET sessions
        /\ OfUser(sessions', u) \in SUBSET OfUser(sessions, u)
    BY DEF OfUser
  <2>2. IsFiniteSet(OfUser(sessions, u))
    BY <2>1, FS_Subset
  <2>3. QED
    BY <2>1, <2>2, FS_Subset
<1>3. QED
  BY <1>1, <1>2 DEF Fewer

LEMMA ImageIsNoLarger ==
    ASSUME NEW S, IsFiniteSet(S), NEW g \in [S -> SessionEntry]
    PROVE  /\ IsFiniteSet({g[e] : e \in S})
           /\ Cardinality({g[e] : e \in S}) <= Cardinality(S)
<1> DEFINE T == {g[e] : e \in S}
           h == [e \in S |-> g[e]]
<1>1. h \in [S -> T] /\ \A t \in T : \E e \in S : h[e] = t
  OBVIOUS
<1>2. h \in Surjection(S, T)
  BY <1>1 DEF Surjection
<1> HIDE DEF h
<1>3. QED
  BY <1>2, FS_Surjection

LEMMA RenamedFewer ==
    ASSUME IsFiniteSet(sessions), NEW g \in [sessions -> SessionEntry],
           \A e \in sessions : g[e].user = e.user,
           sessions' = {g[e] : e \in sessions}
    PROVE  Fewer
<1>1. IsFiniteSet(sessions') /\ Cardinality(sessions') <= Cardinality(sessions)
  BY ImageIsNoLarger
<1>2. ASSUME NEW u
      PROVE  Cardinality(OfUser(sessions', u)) <= Cardinality(OfUser(sessions, u))
  <2> DEFINE S == OfUser(sessions, u)
             k == [e \in S |-> g[e]]
  <2>1. S \in SUBSET sessions
    BY DEF OfUser
  <2>2. IsFiniteSet(S)
    BY <2>1, FS_Subset
  <2>3. k \in [S -> SessionEntry]
    BY <2>1
  <2>4. OfUser(sessions', u) = {k[e] : e \in S}
    BY DEF OfUser
  <2> HIDE DEF S, k
  <2>5. Cardinality({k[e] : e \in S}) <= Cardinality(S)
    BY <2>2, <2>3, ImageIsNoLarger
  <2>6. QED
    BY <2>4, <2>5 DEF S
<1>3. QED
  BY <1>1, <1>2 DEF Fewer

\* What Fewer means for the caps.
LEMMA FewerKeepsRoom ==
    ASSUME IsFiniteSet(sessions), Fewer
    PROVE  /\ CapsRespected => CapsRespected'
           /\ \A u : CapacityFor(u) => CapacityFor(u)'
<1>1. /\ Cardinality(sessions) \in Nat /\ Cardinality(sessions') \in Nat
      /\ Cardinality(sessions') <= Cardinality(sessions)
      /\ MaxSessions \in Nat /\ MaxSessionsPerUser \in Nat
  BY FS_CardinalityType, PoolAssumption DEF Fewer
<1>2. ASSUME NEW u
      PROVE  /\ Cardinality(OfUser(sessions, u)) \in Nat
             /\ Cardinality(OfUser(sessions', u)) \in Nat
             /\ Cardinality(OfUser(sessions', u)) <= Cardinality(OfUser(sessions, u))
  <2>1. OfUser(sessions, u) \in SUBSET sessions /\ OfUser(sessions', u) \in SUBSET sessions'
    BY DEF OfUser
  <2>2. IsFiniteSet(OfUser(sessions, u)) /\ IsFiniteSet(OfUser(sessions', u))
    BY <2>1, FS_Subset DEF Fewer
  <2>3. QED
    BY <2>2, FS_CardinalityType DEF Fewer
<1>3. /\ CapsRespected <=> /\ Cardinality(sessions) <= MaxSessions
                           /\ \A u \in User :
                                Cardinality(OfUser(sessions, u)) <= MaxSessionsPerUser
      /\ CapsRespected' <=> /\ Cardinality(sessions') <= MaxSessions
                            /\ \A u \in User :
                                 Cardinality(OfUser(sessions', u)) <= MaxSessionsPerUser
  BY DEF CapsRespected, OfUser
<1>4. \A u : /\ CapacityFor(u) <=> /\ Cardinality(sessions) < MaxSessions
                                   /\ Cardinality(OfUser(sessions, u)) < MaxSessionsPerUser
             /\ CapacityFor(u)' <=> /\ Cardinality(sessions') < MaxSessions
                                    /\ Cardinality(OfUser(sessions', u)) < MaxSessionsPerUser
  BY DEF CapacityFor, OfUser
<1>5. CapsRespected => CapsRespected'
  BY <1>1, <1>2, <1>3
<1>6. \A u : CapacityFor(u) => CapacityFor(u)'
  BY <1>1, <1>2, <1>4
<1>7. QED
  BY <1>5, <1>6

\* Sessions leave, age or are used, contexts close, a browser dies.
LEMMA FewerKeepsSerial ==
    ASSUME SerialInv, ContextsInv', Fewer, contexts' \subseteq contexts,
           running' \subseteq running, UNCHANGED <<lifecycle, browser, calls, overlapped>>
    PROVE  SerialInv'
<1>1. IsFiniteSet(sessions')
  BY DEF Fewer
<1>2. SUFFICES ASSUME ~overlapped
               PROVE  CapsRespected' /\ OneCall' /\ RoomLeft' /\ OneBrowser' /\ Quiet'
  BY <1>1 DEF SerialInv
<1>3. CapsRespected /\ OneCall /\ RoomLeft /\ OneBrowser /\ Quiet /\ IsFiniteSet(sessions)
  BY <1>2 DEF SerialInv
<1>4. CapsRespected' /\ RoomLeft'
  BY <1>3, FewerKeepsRoom DEF RoomLeft, InFlight
<1>5. OneCall' /\ OneBrowser'
  BY <1>3 DEF OneCall, InFlight, OneBrowser
<1>6. Quiet'
  BY <1>3 DEF Quiet, InFlight, Fewer
<1>7. QED
  BY <1>4, <1>5, <1>6

LEMMA StartKeepsSerial ==
    ASSUME SerialInv, ContextsInv', NEW c \in Call, NEW u \in User, StartSession(c, u)
    PROVE  SerialInv'
<1> DEFINE n == IF Reusable
                THEN [NoCall EXCEPT !.stage = "launched", !.user = u, !.browser = browser]
                ELSE [NoCall EXCEPT !.stage = "launching", !.user = u]
<1>1. /\ lifecycle = "open" /\ CapacityFor(u) /\ calls' = [calls EXCEPT ![c] = n]
      /\ overlapped' = (overlapped \/ \E d \in Call : InFlight(d))
      /\ UNCHANGED <<lifecycle, browser, running, contexts, sessions>>
  BY DEF StartSession
<1>2. /\ n.user = u
      /\ \/ n.stage = "launched" /\ n.browser = browser
         \/ n.stage = "launching" /\ browser \notin running
  BY DEF NoCall, Reusable
<1> HIDE DEF n
<1>3. calls'[c] = n /\ \A d \in Call \ {c} : calls'[d] = calls[d]
  BY <1>1 DEF SerialInv, ContextsInv, PoolTypeOK
<1>4. SUFFICES ASSUME ~overlapped'
               PROVE  CapsRespected' /\ OneCall' /\ RoomLeft' /\ OneBrowser' /\ Quiet'
  BY <1>1 DEF SerialInv
<1>5. /\ ~overlapped /\ \A d \in Call : calls[d].stage = "none"
      /\ CapsRespected /\ OneBrowser /\ Quiet
  BY <1>1, <1>4 DEF SerialInv, InFlight
<1>6. running \subseteq {browser}
  BY <1>5 DEF OneBrowser
<1>7. \A d \in Call : calls'[d].stage # "none" => d = c
  BY <1>3, <1>5
<1>8. OneCall'
  BY <1>7 DEF OneCall, InFlight
<1>9. CapsRespected' /\ RoomLeft'
  <2>1. CapsRespected' /\ CapacityFor(u)'
    BY <1>1, <1>5 DEF CapsRespected, CapacityFor
  <2>2. calls'[c].user = u
    BY <1>2, <1>3
  <2>3. QED
    BY <1>7, <2>1, <2>2 DEF RoomLeft, InFlight
<1>10. OneBrowser'
  BY <1>1, <1>2, <1>3, <1>6, <1>7 DEF OneBrowser
<1>11. QED
  BY <1>1, <1>8, <1>9, <1>10 DEF Quiet

\* The one call in flight launches, adopts or opens: pool and lifecycle stay.
LEMMA CallKeepsSerial ==
    ASSUME SerialInv, ContextsInv', NEW c \in Call, InFlight(c),
           NEW n, calls' = [calls EXCEPT ![c] = n], n.user = calls[c].user,
           n.stage \in {"launched", "opening", "loading"},
           UNCHANGED <<lifecycle, sessions, overlapped>>,
           contexts' \subseteq contexts \/ lifecycle = "open" \/ overlapped,
           ~overlapped /\ n.stage = "launched" => running' \subseteq {n.browser},
           ~overlapped /\ n.stage # "launched" => running' \subseteq {browser'}
    PROVE  SerialInv'
<1>1. calls'[c] = n /\ \A d \in Call \ {c} : calls'[d] = calls[d]
  BY DEF SerialInv, ContextsInv, PoolTypeOK
<1>2. SUFFICES ASSUME ~overlapped
               PROVE  CapsRespected' /\ OneCall' /\ RoomLeft' /\ OneBrowser' /\ Quiet'
  BY DEF SerialInv
<1>3. CapsRespected /\ OneCall /\ RoomLeft /\ Quiet /\ lifecycle = "open"
  BY <1>2 DEF SerialInv, Quiet
<1>4. \A d \in Call \ {c} : calls'[d].stage = "none"
  BY <1>1, <1>3 DEF OneCall, InFlight
<1>5. OneCall' /\ Quiet'
  BY <1>3, <1>4 DEF OneCall, Quiet, InFlight
<1>6. CapsRespected' /\ RoomLeft'
  BY <1>1, <1>3, <1>4 DEF CapsRespected, RoomLeft, InFlight, CapacityFor
<1>7. OneBrowser'
  BY <1>1, <1>2, <1>4 DEF OneBrowser
<1>8. QED
  BY <1>5, <1>6, <1>7

LEMMA LaunchKeepsSerial ==
    ASSUME SerialInv, ContextsInv', NEW c \in Call, NEW b \in BrowserId, Launched(c, b)
    PROVE  SerialInv'
<1> DEFINE n == [calls[c] EXCEPT !.stage = "launched", !.browser = b]
<1>1. /\ calls[c].stage = "launching" /\ calls' = [calls EXCEPT ![c] = n]
      /\ running' = running \cup {b}
      /\ UNCHANGED <<lifecycle, contexts, sessions, overlapped>>
  BY DEF Launched, SerialInv, ContextsInv, PoolTypeOK
<1>2. n.user = calls[c].user /\ n.stage = "launched" /\ n.browser = b
  BY DEF SerialInv, ContextsInv, PoolTypeOK, CallState
<1> HIDE DEF n
<1>3. ~overlapped => running' \subseteq {n.browser}
  BY <1>1, <1>2 DEF SerialInv, OneBrowser
<1>4. QED
  BY <1>1, <1>2, <1>3, CallKeepsSerial DEF InFlight

LEMMA AdoptKeepsSerial ==
    ASSUME SerialInv, ContextsInv', NEW c \in Call, NEW stealth \in BOOLEAN,
           AdoptBrowser(c, stealth)
    PROVE  SerialInv'
<1>1. PICK i : calls' = [calls EXCEPT ![c].stage = "opening", ![c].identity = i]
  BY DEF AdoptBrowser
<1> DEFINE n == [calls[c] EXCEPT !.stage = "opening", !.identity = i]
<1>2. /\ calls[c].stage = "launched" /\ browser' = calls[c].browser
      /\ calls' = [calls EXCEPT ![c] = n]
      /\ UNCHANGED <<lifecycle, running, contexts, sessions, overlapped>>
  BY <1>1 DEF AdoptBrowser, SerialInv, ContextsInv, PoolTypeOK
<1>3. n.user = calls[c].user /\ n.stage = "opening"
  BY DEF SerialInv, ContextsInv, PoolTypeOK, CallState
<1> HIDE DEF n
<1>4. ~overlapped => running' \subseteq {browser'}
  BY <1>2 DEF SerialInv, OneBrowser
<1>5. QED
  BY <1>2, <1>3, <1>4, CallKeepsSerial DEF InFlight

LEMMA OpenKeepsSerial ==
    ASSUME SerialInv, ContextsInv', NEW c \in Call, ContextOpened(c)
    PROVE  SerialInv'
<1> DEFINE n == [calls[c] EXCEPT !.stage = "loading"]
<1>1. /\ calls[c].stage = "opening" /\ calls' = [calls EXCEPT ![c] = n]
      /\ UNCHANGED <<lifecycle, browser, running, sessions, overlapped>>
  BY DEF ContextOpened, SerialInv, ContextsInv, PoolTypeOK
<1>2. n.user = calls[c].user /\ n.stage = "loading"
  BY DEF SerialInv, ContextsInv, PoolTypeOK, CallState
<1> HIDE DEF n
<1>3. ~overlapped => running' \subseteq {browser'} /\ lifecycle = "open"
  BY <1>1 DEF SerialInv, OneBrowser, OneCall, InFlight, Quiet
<1>4. QED
  BY <1>1, <1>2, <1>3, CallKeepsSerial DEF InFlight

\* The call ends, and nothing of it is in flight any more.
LEMMA NoneInFlight ==
    ASSUME SerialInv, NEW c \in Call, InFlight(c), calls' = [calls EXCEPT ![c] = NoCall],
           ~overlapped
    PROVE  \A d \in Call : calls'[d].stage = "none"
<1>1. calls'[c] = NoCall /\ \A d \in Call \ {c} : calls'[d] = calls[d]
  BY DEF SerialInv, ContextsInv, PoolTypeOK
<1>2. \A d \in Call \ {c} : calls[d].stage = "none"
  BY DEF SerialInv, OneCall, InFlight
<1>3. QED
  BY <1>1, <1>2, NoCallType

\* The session registers into the room its call saw, for the call was alone.
LEMMA RegisterKeepsSerial ==
    ASSUME SerialInv, ContextsInv', NEW c \in Call, RegisterSession(c)
    PROVE  SerialInv'
<1> DEFINE e == [id |-> c, user |-> calls[c].user, idle |-> 0, left |-> HardLifetime]
<1>1. /\ sessions' = sessions \cup {e} /\ calls' = [calls EXCEPT ![c] = NoCall]
      /\ calls[c].stage = "loading" /\ InFlight(c)
      /\ UNCHANGED <<lifecycle, browser, running, contexts, overlapped>>
  BY DEF RegisterSession, InFlight
<1>2. IsFiniteSet(sessions) /\ IsFiniteSet(sessions')
  BY <1>1, FS_AddElement DEF SerialInv
<1>3. SUFFICES ASSUME ~overlapped
               PROVE  CapsRespected' /\ OneCall' /\ RoomLeft' /\ OneBrowser' /\ Quiet'
  BY <1>1, <1>2 DEF SerialInv
<1>4. CapsRespected /\ CapacityFor(calls[c].user) /\ OneCall /\ OneBrowser /\ Quiet
  BY <1>1, <1>3 DEF SerialInv, RoomLeft
<1>5. \A d \in Call : calls'[d].stage = "none"
  BY <1>1, <1>3, NoneInFlight
<1>6. running \subseteq {browser}
  BY <1>1, <1>4 DEF OneBrowser, OneCall, InFlight
<1>7. Cardinality(sessions') <= MaxSessions
  <2> HIDE DEF e
  <2>1. Cardinality(sessions') <= Cardinality(sessions) + 1 /\ Cardinality(sessions) \in Nat
    BY <1>1, <1>2, FS_AddElement, FS_CardinalityType
  <2>2. QED
    BY <1>2, <1>4, <2>1, FS_CardinalityType, PoolAssumption DEF CapacityFor
<1>8. ASSUME NEW u \in User
      PROVE  Cardinality(OfUser(sessions', u)) <= MaxSessionsPerUser
  <2>1. e.user = calls[c].user
    OBVIOUS
  <2> HIDE DEF e
  <2>2. CASE u = calls[c].user
    <3>1. OfUser(sessions', u) = OfUser(sessions, u) \cup {e}
      BY <1>1, <2>1, <2>2 DEF OfUser
    <3>2. OfUser(sessions, u) \in SUBSET sessions
      BY DEF OfUser
    <3>3. IsFiniteSet(OfUser(sessions, u))
      BY <1>2, <3>2, FS_Subset
    <3>4. /\ Cardinality(OfUser(sessions', u)) <= Cardinality(OfUser(sessions, u)) + 1
          /\ Cardinality(OfUser(sessions, u)) \in Nat
          /\ Cardinality(OfUser(sessions', u)) \in Nat
      <4>1. IsFiniteSet(OfUser(sessions, u) \cup {e})
        BY <3>3, FS_AddElement
      <4>2. QED
        BY <3>1, <3>3, <4>1, FS_AddElement, FS_CardinalityType
    <3>5. Cardinality(OfUser(sessions, u)) < MaxSessionsPerUser
      BY <1>4, <2>2 DEF CapacityFor, OfUser
    <3>6. QED
      BY <3>4, <3>5, PoolAssumption
  <2>3. CASE u # calls[c].user
    <3>1. OfUser(sessions', u) = OfUser(sessions, u)
      BY <1>1, <2>1, <2>3 DEF OfUser
    <3>2. QED
      BY <1>4, <3>1 DEF CapsRespected, OfUser
  <2>4. QED
    BY <2>2, <2>3
<1>9. CapsRespected'
  BY <1>7, <1>8 DEF CapsRespected, OfUser
<1>10. OneCall' /\ RoomLeft' /\ OneBrowser'
  BY <1>1, <1>5, <1>6 DEF OneCall, RoomLeft, InFlight, OneBrowser
<1>11. Quiet'
  BY <1>1, <1>4 DEF Quiet
<1>12. QED
  BY <1>9, <1>10, <1>11

LEMMA FailKeepsSerial ==
    ASSUME SerialInv, ContextsInv', NEW c \in Call, StartFails(c)
    PROVE  SerialInv'
<1>1. /\ calls' = [calls EXCEPT ![c] = NoCall] /\ InFlight(c)
      /\ calls[c].stage # "launched" /\ contexts' \subseteq contexts
      /\ UNCHANGED <<lifecycle, browser, running, sessions, overlapped>>
  BY DEF StartFails, InFlight, ContextsWithout
<1>2. SUFFICES ASSUME ~overlapped
               PROVE  CapsRespected' /\ OneCall' /\ RoomLeft' /\ OneBrowser' /\ Quiet'
  BY <1>1 DEF SerialInv
<1>3. CapsRespected /\ OneCall /\ OneBrowser /\ Quiet
  BY <1>2 DEF SerialInv
<1>4. \A d \in Call : calls'[d].stage = "none"
  BY <1>1, <1>2, NoneInFlight
<1>5. running \subseteq {browser}
  BY <1>1, <1>3 DEF OneBrowser, OneCall, InFlight
<1>6. OneCall' /\ RoomLeft' /\ OneBrowser'
  BY <1>1, <1>4, <1>5 DEF OneCall, RoomLeft, InFlight, OneBrowser
<1>7. CapsRespected' /\ Quiet'
  BY <1>1, <1>3 DEF CapsRespected, Quiet
<1>8. QED
  BY <1>6, <1>7

LEMMA TouchFewer ==
    ASSUME SerialInv, NEW e \in sessions, FinishAction(e) \/ FinishOpenTab(e)
    PROVE  Fewer
<1>1. e \in SessionEntry /\ sessions \subseteq SessionEntry
  BY DEF SerialInv, ContextsInv, PoolTypeOK
<1>2. PICK f \in SessionEntry : f.user = e.user /\ sessions' = (sessions \ {e}) \cup {f}
  BY <1>1, TouchTypes, OpenTabTypes DEF FinishAction, FinishOpenTab, Touch
<1> DEFINE g == [x \in sessions |-> IF x = e THEN f ELSE x]
<1>3. /\ g \in [sessions -> SessionEntry]
      /\ \A x \in sessions : g[x].user = x.user
      /\ sessions' = {g[x] : x \in sessions}
  BY <1>1, <1>2
<1> HIDE DEF g
<1>4. QED
  BY <1>3, RenamedFewer DEF SerialInv

LEMMA TickFewer ==
    ASSUME SerialInv, Tick
    PROVE  Fewer
<1> DEFINE g == [e \in sessions |-> Older(e)]
<1>1. /\ g \in [sessions -> SessionEntry]
      /\ \A e \in sessions : g[e].user = e.user
  BY OlderTypes DEF SerialInv, ContextsInv, PoolTypeOK
<1>2. sessions' = {g[e] : e \in sessions}
  BY DEF Tick
<1> HIDE DEF g
<1>3. QED
  BY <1>1, <1>2, RenamedFewer DEF SerialInv

\* close() with no call in flight: every context belongs to a session, and all go.
LEMMA CloseKeepsSerial ==
    ASSUME SerialInv, ContextsInv', Close
    PROVE  SerialInv'
<1>1. /\ lifecycle' = "draining" /\ sessions' = {}
      /\ overlapped' = (overlapped \/ \E c \in Call : InFlight(c))
      /\ contexts' = ContextsWithout({e.id : e \in sessions})
      /\ UNCHANGED <<browser, running, calls>>
  BY DEF Close
<1>2. Fewer
  BY <1>1, SubsetFewer DEF SerialInv
<1>3. SUFFICES ASSUME ~overlapped'
               PROVE  CapsRespected' /\ OneCall' /\ RoomLeft' /\ OneBrowser' /\ Quiet'
  BY <1>2 DEF SerialInv, Fewer
<1>4. ~overlapped /\ \A c \in Call : calls[c].stage = "none"
  BY <1>1, <1>3 DEF InFlight
<1>5. CapsRespected /\ OneBrowser /\ IsFiniteSet(sessions)
  BY <1>4 DEF SerialInv
<1>6. \A x \in contexts : x.id \in Call /\ HasSession(x.id)
  BY <1>4 DEF SerialInv, ContextsInv, ContextsSound, PoolTypeOK, Context
<1>7. contexts' = {}
  BY <1>1, <1>6 DEF ContextsWithout, HasSession
<1>8. CapsRespected'
  BY <1>2, <1>5, FewerKeepsRoom
<1>9. OneCall' /\ RoomLeft' /\ OneBrowser'
  BY <1>1, <1>4, <1>5 DEF OneCall, RoomLeft, InFlight, OneBrowser
<1>10. Quiet'
  BY <1>1, <1>4, <1>7 DEF Quiet, InFlight
<1>11. QED
  BY <1>8, <1>9, <1>10

LEMMA ClosingKeepsSerial ==
    ASSUME SerialInv, ContextsInv', CloseBrowser \/ ForgetBrowser
    PROVE  SerialInv'
<1>1. /\ lifecycle # "open" /\ lifecycle' # "open" /\ contexts' \subseteq contexts
      /\ UNCHANGED <<calls, sessions, overlapped>>
  BY DEF CloseBrowser, ForgetBrowser
<1>2. SUFFICES ASSUME ~overlapped
               PROVE  CapsRespected' /\ OneCall' /\ RoomLeft' /\ OneBrowser' /\ Quiet'
  BY <1>1 DEF SerialInv
<1>3. /\ CapsRespected /\ OneBrowser /\ Quiet
      /\ \A c \in Call : calls[c].stage = "none"
      /\ sessions = {} /\ contexts = {}
  BY <1>1, <1>2 DEF SerialInv, Quiet, InFlight
<1>4. running \subseteq {browser}
  BY <1>3 DEF OneBrowser
<1>5. running' = {}
  BY <1>3, <1>4 DEF CloseBrowser, ForgetBrowser, ProcessesLeft, Quiet
<1>6. CapsRespected'
  BY <1>1, <1>3 DEF CapsRespected
<1>7. OneCall' /\ RoomLeft' /\ OneBrowser' /\ Quiet'
  BY <1>1, <1>3, <1>5 DEF OneCall, RoomLeft, InFlight, OneBrowser, Quiet
<1>8. QED
  BY <1>6, <1>7

LEMMA SerialInit == PoolInit => SerialInv
<1> SUFFICES ASSUME PoolInit PROVE SerialInv
  OBVIOUS
<1>1. ContextsInv /\ IsFiniteSet(sessions) /\ Cardinality({}) = 0
  BY ContextsInit, FS_EmptySet DEF PoolInit
<1>2. \A u : OfUser(sessions, u) = {}
  BY DEF PoolInit, OfUser
<1>3. CapsRespected
  BY <1>1, <1>2, PoolAssumption DEF PoolInit, CapsRespected, OfUser
<1>4. \A c \in Call : calls[c].stage = "none"
  BY NoCallType DEF PoolInit
<1>5. OneCall /\ RoomLeft /\ OneBrowser /\ Quiet
  BY <1>4 DEF PoolInit, OneCall, RoomLeft, InFlight, OneBrowser, Quiet
<1>6. QED
  BY <1>1, <1>3, <1>5 DEF SerialInv

LEMMA SerialStep == SerialInv /\ [PoolNext]_poolVars => SerialInv'
<1> SUFFICES ASSUME SerialInv, [PoolNext]_poolVars PROVE SerialInv'
  OBVIOUS
<1>0. ContextsInv'
  BY ContextsStep DEF SerialInv
<1>f. IsFiniteSet(sessions)
  BY DEF SerialInv
<1>1. ASSUME UNCHANGED poolVars PROVE SerialInv'
  <2>1. Fewer /\ UNCHANGED <<lifecycle, browser, running, calls, contexts, overlapped>>
    BY <1>1, <1>f, SubsetFewer DEF poolVars
  <2>2. QED
    BY <1>0, <2>1, FewerKeepsSerial
<1>2. ASSUME NEW c \in Call, NEW u \in User, StartSession(c, u) PROVE SerialInv'
  BY <1>0, <1>2, StartKeepsSerial
<1>3. ASSUME NEW c \in Call, NEW b \in BrowserId, Launched(c, b) PROVE SerialInv'
  BY <1>0, <1>3, LaunchKeepsSerial
<1>4. ASSUME NEW c \in Call, NEW stealth \in BOOLEAN, AdoptBrowser(c, stealth)
      PROVE  SerialInv'
  BY <1>0, <1>4, AdoptKeepsSerial
<1>5. ASSUME NEW c \in Call, ContextOpened(c) PROVE SerialInv'
  BY <1>0, <1>5, OpenKeepsSerial
<1>6. ASSUME NEW c \in Call, RegisterSession(c) PROVE SerialInv'
  BY <1>0, <1>6, RegisterKeepsSerial
<1>7. ASSUME NEW c \in Call, StartFails(c) PROVE SerialInv'
  BY <1>0, <1>7, FailKeepsSerial
<1>8. ASSUME NEW e \in sessions, FinishAction(e) \/ FinishOpenTab(e) PROVE SerialInv'
  <2>1. UNCHANGED <<lifecycle, browser, running, calls, contexts, overlapped>>
    BY <1>8 DEF FinishAction, FinishOpenTab
  <2>2. QED
    BY <1>0, <1>8, <2>1, TouchFewer, FewerKeepsSerial
<1>9. ASSUME Tick PROVE SerialInv'
  <2>1. UNCHANGED <<lifecycle, browser, running, calls, contexts, overlapped>>
    BY <1>9 DEF Tick
  <2>2. QED
    BY <1>0, <1>9, <2>1, TickFewer, FewerKeepsSerial
<1>10. ASSUME (\E e \in sessions : StopSession(e)) \/ Sweep PROVE SerialInv'
  <2>1. /\ sessions' \subseteq sessions /\ contexts' \subseteq contexts
        /\ UNCHANGED <<lifecycle, browser, running, calls, overlapped>>
    BY <1>10 DEF StopSession, Sweep, ContextsWithout
  <2>2. QED
    BY <1>0, <1>f, <2>1, SubsetFewer, FewerKeepsSerial
<1>11. ASSUME NEW b \in BrowserId, Disconnect(b) PROVE SerialInv'
  <2>1. /\ sessions' \subseteq sessions /\ contexts' \subseteq contexts
        /\ running' \subseteq running /\ UNCHANGED <<lifecycle, browser, calls, overlapped>>
    BY <1>11 DEF Disconnect
  <2>2. QED
    BY <1>0, <1>f, <2>1, SubsetFewer, FewerKeepsSerial
<1>12. QED
  BY <1>0, <1>1, <1>2, <1>3, <1>4, <1>5, <1>6, <1>7, <1>8, <1>9, <1>10, <1>11,
     CloseKeepsSerial, ClosingKeepsSerial DEF PoolNext

\* As long as no startSession call overlaps another one or close(), the caps hold, one
\* Chromium process at most runs, and close() leaves nothing behind.
THEOREM SerialCallsAreSafe == PoolSpec => []SerialCallsSafe
<1>1. QED
  BY SerialInvSafe, SerialInit, SerialStep, PTL DEF PoolSpec
=============================================================================

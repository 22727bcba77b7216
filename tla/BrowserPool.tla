----------------------------- MODULE BrowserPool -----------------------------
(***************************************************************************)
(* The Playwright session pool (services/playwright.ts, playwright-pool.ts)*)
(* one lazily launched Chromium shared by all sessions, a map of sessions  *)
(* with a global and a per-user cap, a sweeper for idle and over-aged      *)
(* sessions, and close() at shutdown.                                      *)
(*                                                                         *)
(* Node runs one callback at a time, so a step is what happens between two *)
(* awaits: startSession checks the caps, then awaits the launch, the new   *)
(* context and the page load before it registers the session, and          *)
(* everything else may run in between.  A session is named by the call     *)
(* that opened it (at most one each), as is its browser context.           *)
(*                                                                         *)
(* Timestamps appear as ages in clock units: `idle` is now - lastActionAt, *)
(* `left` is hardDeadline - now, each held at the limit beyond which the   *)
(* code no longer tells values apart.                                      *)
(*                                                                         *)
(* A context or process counts as closed once its close() is called: that  *)
(* call takes time and may fail, which the code swallows and never looks   *)
(* at again (swallow, evictExpiredSessions).                               *)
(***************************************************************************)
EXTENDS Integers, FiniteSets

CONSTANTS
    User,
    Call,                 \* startSession calls, reused once nothing of them is left
    BrowserId,            \* Chromium processes
    Null,
    MaxSessions, MaxSessionsPerUser,
    IdleTimeout, HardLifetime, LoadTimeout

ASSUME PoolAssumption ==
    /\ Null \notin BrowserId /\ Null \notin User
    /\ MaxSessions \in Nat \ {0} /\ MaxSessionsPerUser \in Nat \ {0}
    /\ IdleTimeout \in Nat \ {0} /\ HardLifetime \in Nat \ {0} /\ LoadTimeout \in Nat
    /\ LoadTimeout <= HardLifetime

VARIABLES
    lifecycle,   \* close(): "open", "draining", "stopping", "closed"
    browser,     \* this.browser
    chromeMajor, \* this.chromeMajor: the browser whose version is cached
    running,     \* Chromium processes that are connected, close() not called
    calls,       \* progress of each startSession call
    contexts,    \* browser contexts, close() not called
    sessions,    \* the pool: entries of this.sessions
    overlapped   \* history: a startSession call ran beside another, or beside close()

poolVars == <<lifecycle, browser, chromeMajor, running, calls, contexts, sessions,
              overlapped>>

-----------------------------------------------------------------------------
Stage == {"none", "launching", "launched", "opening", "loading"}
CallState == [stage : Stage, user : User \cup {Null}, browser : BrowserId \cup {Null},
              identity : BrowserId \cup {Null}]
\* `identity` is the browser whose version the context's user agent claims.
Context == [id : Call, browser : BrowserId, identity : BrowserId \cup {Null}]
SessionEntry == [id : Call, user : User, idle : 0..IdleTimeout, left : 0..HardLifetime]

NoCall == [stage |-> "none", user |-> Null, browser |-> Null, identity |-> Null]

PoolTypeOK ==
    /\ lifecycle \in {"open", "draining", "stopping", "closed"}
    /\ browser \in BrowserId \cup {Null}
    /\ chromeMajor \in BrowserId \cup {Null}
    /\ running \in SUBSET BrowserId
    /\ calls \in [Call -> CallState]
    /\ contexts \in SUBSET Context
    /\ sessions \in SUBSET SessionEntry
    /\ overlapped \in BOOLEAN

InFlight(c) == calls[c].stage # "none"
HasContext(c) == \E x \in contexts : x.id = c
HasSession(c) == \E e \in sessions : e.id = c

PoolInit ==
    /\ lifecycle = "open"
    /\ browser = Null
    /\ chromeMajor = Null
    /\ running = {}
    /\ calls = [c \in Call |-> NoCall]
    /\ contexts = {}
    /\ sessions = {}
    /\ overlapped = FALSE

-----------------------------------------------------------------------------
(* startSession *)

CapacityAtLimit(u) ==   \* mutant: > for >=
    /\ Cardinality(sessions) <= MaxSessions
    /\ Cardinality({e \in sessions : e.user = u}) <= MaxSessionsPerUser

\* enforceCapacity: both caps, counted over the registered sessions.
CapacityFor(u) ==
    /\ Cardinality(sessions) < MaxSessions
    /\ Cardinality({e \in sessions : e.user = u}) < MaxSessionsPerUser

\* ensureBrowser: the browser at hand is used while it is connected.
Reusable == browser \in running

\* Up to the await on ensureBrowser.
StartSession(c, u) ==
    /\ lifecycle = "open"
    /\ ~InFlight(c) /\ ~HasSession(c) /\ ~HasContext(c)
    /\ CapacityFor(u)
    /\ calls' = [calls EXCEPT ![c] =
         IF Reusable
         THEN [NoCall EXCEPT !.stage = "launched", !.user = u, !.browser = browser]
         ELSE [NoCall EXCEPT !.stage = "launching", !.user = u]]
    /\ overlapped' = (overlapped \/ \E d \in Call : InFlight(d))
    /\ UNCHANGED <<lifecycle, browser, chromeMajor, running, contexts, sessions>>

\* Process ids are not reused while anything refers to them.
FreshBrowser(b) ==
    /\ b \notin running /\ b # browser /\ b # chromeMajor
    /\ \A c \in Call : calls[c].browser # b

Launched(c, b) ==
    /\ calls[c].stage = "launching"
    /\ FreshBrowser(b)
    /\ running' = running \cup {b}
    /\ calls' = [calls EXCEPT ![c].stage = "launched", ![c].browser = b]
    /\ UNCHANGED <<lifecycle, browser, chromeMajor, contexts, sessions, overlapped>>

MajorEverCached(b) == chromeMajor   \* mutant: the cache survives a new browser

CachedMajor(b) == IF b # browser THEN Null ELSE chromeMajor

\* The continuation: adopt the browser, drop a version cached from another one,
\* build the identity (cached per browser) and ask for a context.
AdoptBrowser(c, stealth) ==
    LET b    == calls[c].browser
        kept == CachedMajor(b)
        read == IF stealth /\ kept = Null THEN b ELSE kept
    IN
    /\ calls[c].stage = "launched"
    /\ browser' = b
    /\ chromeMajor' = read
    /\ calls' = [calls EXCEPT ![c].stage = "opening",
                              ![c].identity = IF stealth THEN read ELSE Null]
    /\ UNCHANGED <<lifecycle, running, contexts, sessions, overlapped>>

\* browser.newContext resolves; newPage and goto follow.
ContextOpened(c) ==
    /\ calls[c].stage = "opening"
    /\ calls[c].browser \in running
    /\ contexts' = contexts \cup
         {[id |-> c, browser |-> calls[c].browser, identity |-> calls[c].identity]}
    /\ calls' = [calls EXCEPT ![c].stage = "loading"]
    /\ UNCHANGED <<lifecycle, browser, chromeMajor, running, sessions, overlapped>>

\* The page has loaded: registerSession, with no further look at caps or close().
RegisterSession(c) ==
    /\ calls[c].stage = "loading"
    /\ HasContext(c)
    /\ sessions' = sessions \cup
         {[id |-> c, user |-> calls[c].user, idle |-> 0, left |-> HardLifetime]}
    /\ calls' = [calls EXCEPT ![c] = NoCall]
    /\ UNCHANGED <<lifecycle, browser, chromeMajor, running, contexts, overlapped>>

\* context.close() for the sessions or calls in ids.
ContextsWithout(ids) == {x \in contexts : x.id \notin ids}

\* The launch, the context or the page load fails; a context already opened is closed.
StartFails(c) ==
    /\ calls[c].stage \in {"launching", "opening", "loading"}
    /\ contexts' = ContextsWithout({c})
    /\ calls' = [calls EXCEPT ![c] = NoCall]
    /\ UNCHANGED <<lifecycle, browser, chromeMajor, running, sessions, overlapped>>

-----------------------------------------------------------------------------
(* Registered sessions *)

StopSession(e) ==
    /\ lifecycle = "open"
    /\ e \in sessions
    /\ sessions' = sessions \ {e}
    /\ contexts' = ContextsWithout({e.id})
    /\ UNCHANGED <<lifecycle, browser, chromeMajor, running, calls, overlapped>>

Touch(e, f) == sessions' = (sessions \ {e}) \cup {f}

\* A tool call ends well (runOnContext, har): lastActionAt is set at its end.
\* Listing tabs and HAR recording succeed even on a dead context.
FinishAction(e) ==
    /\ lifecycle = "open"
    /\ e \in sessions
    /\ Touch(e, [e EXCEPT !.idle = 0])
    /\ UNCHANGED <<lifecycle, browser, chromeMajor, running, calls, contexts, overlapped>>

\* browser_tabs "new" ends well: openTab moves a near deadline.
FinishOpenTab(e) ==
    /\ lifecycle = "open"
    /\ e \in sessions
    /\ HasContext(e.id)
    /\ Touch(e, [e EXCEPT !.idle = 0,
                          !.left = IF e.left < LoadTimeout THEN HardLifetime ELSE e.left])
    /\ UNCHANGED <<lifecycle, browser, chromeMajor, running, calls, contexts, overlapped>>

ExpiredAlive(e) ==   \* mutant: skips sessions whose context has closed
    HasContext(e.id) /\ (e.idle >= IdleTimeout \/ e.left = 0)
Expired(e) == e.idle >= IdleTimeout \/ e.left = 0

\* evictExpiredSessions; the interval is cleared by close().
Sweep ==
    LET gone == {e \in sessions : Expired(e)} IN
    /\ lifecycle = "open"
    /\ sessions' = sessions \ gone
    /\ contexts' = ContextsWithout({e.id : e \in gone})
    /\ UNCHANGED <<lifecycle, browser, chromeMajor, running, calls, overlapped>>

Older(e) ==
    [e EXCEPT !.idle = IF e.idle < IdleTimeout THEN e.idle + 1 ELSE e.idle,
              !.left = IF e.left > 0 THEN e.left - 1 ELSE 0]

Tick ==
    /\ sessions' = {Older(e) : e \in sessions}
    /\ UNCHANGED <<lifecycle, browser, chromeMajor, running, calls, contexts, overlapped>>

\* A Chromium process dies; every context in it is gone.
Disconnect(b) ==
    /\ b \in running
    /\ running' = running \ {b}
    /\ contexts' = {x \in contexts : x.browser # b}
    /\ UNCHANGED <<lifecycle, browser, chromeMajor, calls, sessions, overlapped>>

-----------------------------------------------------------------------------
(* close() *)

Close ==
    /\ lifecycle = "open"
    /\ lifecycle' = "draining"
    /\ overlapped' = (overlapped \/ \E c \in Call : InFlight(c))
    /\ contexts' = ContextsWithout({e.id : e \in sessions})
    /\ sessions' = {}
    /\ UNCHANGED <<browser, chromeMajor, running, calls>>

ProcessesLeft == running \ {browser}

\* The contexts are closed; this.browser, if there is one, is closed too.
CloseBrowser ==
    /\ lifecycle = "draining"
    /\ lifecycle' = IF browser = Null THEN "closed" ELSE "stopping"
    /\ running' = ProcessesLeft
    /\ contexts' = {x \in contexts : x.browser \in ProcessesLeft}
    /\ UNCHANGED <<browser, chromeMajor, calls, sessions, overlapped>>

ForgetBrowser ==
    /\ lifecycle = "stopping"
    /\ lifecycle' = "closed"
    /\ browser' = Null
    /\ UNCHANGED <<chromeMajor, running, calls, contexts, sessions, overlapped>>

-----------------------------------------------------------------------------
PoolNext ==
    \/ \E c \in Call, u \in User : StartSession(c, u)
    \/ \E c \in Call, b \in BrowserId : Launched(c, b)
    \/ \E c \in Call, stealth \in BOOLEAN : AdoptBrowser(c, stealth)
    \/ \E c \in Call : ContextOpened(c)
    \/ \E c \in Call : RegisterSession(c)
    \/ \E c \in Call : StartFails(c)
    \/ \E e \in sessions : StopSession(e)
    \/ \E e \in sessions : FinishAction(e)
    \/ \E e \in sessions : FinishOpenTab(e)
    \/ Sweep
    \/ Tick
    \/ \E b \in BrowserId : Disconnect(b)
    \/ Close
    \/ CloseBrowser
    \/ ForgetBrowser

PoolSpec == PoolInit /\ [][PoolNext]_poolVars

\* Time passes and the sweeper's interval keeps firing.
FairPoolSpec == PoolSpec /\ WF_poolVars(Tick) /\ WF_poolVars(Sweep)

-----------------------------------------------------------------------------
(* Properties *)

\* Both session caps hold, as documented (stellara-konzept.md 8.19).
CapsRespected ==
    /\ Cardinality(sessions) <= MaxSessions
    /\ \A u \in User : Cardinality({e \in sessions : e.user = u}) <= MaxSessionsPerUser

\* No browser context is lost: each that nobody has called close() on is either being
\* opened by a call or belongs to a session in the pool, whatever failed, expired or
\* was closed meanwhile; and its spoofed user agent names the version of the browser it
\* lives in, across concurrent launches, disconnects and restarts (openContext,
\* chromeMajor).
ContextsSound ==
    \A x \in contexts :
        /\ calls[x.id].stage = "loading" \/ HasSession(x.id)
        /\ x.identity \in {Null, x.browser}

\* As long as no startSession call overlaps another one or close(), both caps hold
\* and one Chromium process at most runs, through sweeps, crashes, failed launches
\* and slow page loads; and once close() has returned, the pool is empty and no
\* context and no process is left that close() was not called on (enforceCapacity,
\* ensureBrowser, server.ts onClose).
SerialCallsSafe ==
    ~overlapped =>
        /\ CapsRespected
        /\ Cardinality(running) <= 1
        /\ lifecycle = "closed" => running = {} /\ contexts = {} /\ sessions = {}

\* While the pool is open, no session holds its place in the caps for good: neither
\* one that is never used again, nor one whose browser has died, not even when its
\* owner keeps polling it (evictExpiredSessions).
SessionsReclaimed ==
    \A c \in Call :
        /\ []<>(\/ lifecycle # "open"
               \/ \A e \in sessions : e.id = c => e.idle = 0)
        /\ (HasSession(c) /\ ~HasContext(c)) ~> (~HasSession(c) \/ lifecycle # "open")
=============================================================================

---------------------------- MODULE ServerLifecycle ----------------------------
(***************************************************************************)
(* The server's life (server.ts): the boot sequence, and the shutdown that *)
(* each of SIGINT and SIGTERM starts, with a forced-exit timer of its own. *)
(* app.close() is Fastify's: it drains the connections, then runs the      *)
(* onClose hooks, the last registered first, and goes on when one throws.  *)
(*                                                                         *)
(* A client may leave before its answer; its handler runs on, unseen by    *)
(* the drain.  Of the handlers only those that wait for a metadata lookup  *)
(* use the SQLite storage afterwards.                                      *)
(***************************************************************************)
EXTENDS ProcessExit, SequencesExt

CONSTANTS
    Request,   \* places of requests under way
    Grace      \* requestTimeoutMs in clock units

ASSUME GraceAssumption == Grace \in Nat \ {0}

VARIABLES
    boot,       \* how far start() is
    storage,    \* the SQLite connection: "closed" or "open"
    requests,   \* what each request's handler awaits, and whether its client is there
    closing,    \* app.close(): "no", "drain", "hooks" or "closed"
    hooks,      \* onClose hooks still to run
    failed,     \* whether a hook has thrown: "none", "thrown", or "forgotten" since
    timers,     \* forceExitTimer of each signal's shutdown: time left, or Unset
    waited      \* history: time since the first signal

serverVars == <<boot, storage, requests, closing, hooks, failed, timers, waited>>

Unset == -1
NoRequest == [awaits |-> "none", connected |-> FALSE]

\* The onClose hooks in the order server.ts and routes/mcp.ts register them
Registered == <<"clients", "playwright", "mcp">>

ServerInit ==
    /\ boot = "off"
    /\ storage = "closed"
    /\ requests = [r \in Request |-> NoRequest]
    /\ closing = "no"
    /\ hooks = << >>
    /\ failed = "none"
    /\ timers = [s \in Signal |-> Unset]
    /\ waited = 0

Up == Alive("server")
Flights == {r \in Request : requests[r].awaits = "lookup"}
Connected == {r \in Request : requests[r].connected}

-----------------------------------------------------------------------------
(* Boot *)

StartServer ==
    /\ Launch("server")
    /\ boot' = "config"
    /\ UNCHANGED <<storage, requests, closing, hooks, failed, timers, waited>>

\* loadConfig, or anything later in start(), throws; bootstrapOAuth closes the storage
\* it opened before it does.
BootFails ==
    /\ Up /\ boot \in {"config", "probe", "bind"}
    /\ Exit("1")
    /\ UNCHANGED serverVars

\* buildApp: storage, reconciliation, cutover, signing key, plugins and routes.
BuildApp ==
    /\ Up /\ boot = "config"
    /\ boot' = "probe"
    /\ storage' = "open"
    /\ Stays
    /\ UNCHANGED <<requests, closing, hooks, failed, timers, waited>>

\* ensureCollection and app.ready succeed; signals are heard from here on.
Ready ==
    /\ Up /\ boot = "probe"
    /\ boot' = "bind"
    /\ handled' = Signal
    /\ UNCHANGED <<program, exit, storage, requests, closing, hooks, failed, timers, waited>>

Listen ==
    /\ Up /\ boot = "bind" /\ closing = "no"
    /\ boot' = "listening"
    /\ Stays
    /\ UNCHANGED <<storage, requests, closing, hooks, failed, timers, waited>>

-----------------------------------------------------------------------------
(* Requests *)

Arrives(r, awaits) ==
    /\ Up /\ boot = "listening" /\ closing = "no"
    /\ requests[r] = NoRequest
    /\ requests' = [requests EXCEPT ![r] = [awaits |-> awaits, connected |-> TRUE]]
    /\ Stays
    /\ UNCHANGED <<boot, storage, closing, hooks, failed, timers, waited>>

\* The handler's await ends: the rest of it, which after a lookup uses the storage,
\* runs at once.
HandlerEnds(r) ==
    /\ Up /\ requests[r] # NoRequest
    /\ requests' = [requests EXCEPT ![r] = NoRequest]
    /\ Stays
    /\ UNCHANGED <<boot, storage, closing, hooks, failed, timers, waited>>

ClientLeaves(r) ==
    /\ Up /\ r \in Connected
    /\ requests' = [requests EXCEPT ![r].connected = FALSE]
    /\ Stays
    /\ UNCHANGED <<boot, storage, closing, hooks, failed, timers, waited>>

-----------------------------------------------------------------------------
(* Shutdown *)

SharedTimer(s) == [t \in Signal |-> Grace]   \* mutant: a second signal extends the first

ForceExitTimer(s) == [timers EXCEPT ![s] = Grace]

\* A second app.close() joins the first, and Fastify may then report to both that all
\* went well although a hook has failed before.
ShutDown(s) ==
    /\ Up /\ Heard(s)
    /\ timers' = ForceExitTimer(s)
    /\ closing' = IF closing = "no" THEN "drain" ELSE closing
    /\ hooks' = IF closing = "no" THEN Reverse(Registered) ELSE hooks
    /\ failed' \in IF failed = "thrown" THEN {"thrown", "forgotten"} ELSE {failed}
    /\ UNCHANGED <<boot, storage, requests, waited>>

Drained ==
    /\ Up /\ closing = "drain"
    /\ Connected = {}
    /\ closing' = "hooks"
    /\ Stays
    /\ UNCHANGED <<boot, storage, requests, hooks, failed, timers, waited>>

FlightsAborted == TRUE   \* mutant: the resolver does not wait for what it aborts

\* closeResolver aborts its flights and waits until each has settled.
FlightsSettled == Flights = {}

\* The next hook: the MCP handler may throw, the pool swallows its errors, and the
\* storage is closed after the resolver.
HookEnds ==
    /\ Up /\ closing = "hooks" /\ hooks # << >>
    /\ Head(hooks) = "clients" => FlightsSettled
    /\ hooks' = Tail(hooks)
    /\ closing' = IF Len(hooks) = 1 THEN "closed" ELSE closing
    /\ storage' = IF Head(hooks) = "clients" THEN "closed" ELSE storage
    /\ failed' \in {failed} \cup IF Head(hooks) = "mcp" THEN {"thrown"} ELSE {}
    /\ Stays
    /\ UNCHANGED <<boot, requests, timers, waited>>

SwallowingCode == "0"   \* mutant: an error of a hook is not noticed

\* app.close() rejects with a hook's error.
CloseCode == IF failed = "thrown" THEN "1" ELSE "0"

CloseReturns ==
    /\ Up /\ closing = "closed"
    /\ Exit(CloseCode)
    /\ UNCHANGED serverVars

NeverDue(s) == FALSE   \* mutant: the timer is cleared as soon as the close begins

Due(s) == timers[s] = 0

ForceExit ==
    /\ Up /\ \E s \in Signal : Due(s)
    /\ Exit("1")
    /\ UNCHANGED serverVars

ServerTick ==
    /\ Up /\ \E s \in Signal : timers[s] # Unset
    /\ \A s \in Signal : ~Due(s)
    /\ timers' = [s \in Signal |-> IF timers[s] > 0 THEN timers[s] - 1 ELSE timers[s]]
    /\ waited' = IF waited <= Grace THEN waited + 1 ELSE waited
    /\ Stays
    /\ UNCHANGED <<boot, storage, requests, closing, hooks, failed>>

ServerKilled ==
    /\ Up /\ Killed
    /\ UNCHANGED serverVars

ServerReviewed ==
    /\ program = "server" /\ Reviewed
    /\ boot' = "off" /\ storage' = "closed"
    /\ requests' = [r \in Request |-> NoRequest]
    /\ closing' = "no" /\ hooks' = << >> /\ failed' = "none"
    /\ timers' = [s \in Signal |-> Unset]
    /\ waited' = 0

ServerNext ==
    \/ StartServer \/ BootFails \/ BuildApp \/ Ready \/ Listen
    \/ \E r \in Request :
         \/ \E awaits \in {"lookup", "tool"} : Arrives(r, awaits)
         \/ HandlerEnds(r) \/ ClientLeaves(r)
    \/ \E s \in Signal : ShutDown(s)
    \/ Drained \/ HookEnds \/ CloseReturns \/ ForceExit
    \/ ServerTick \/ ServerKilled \/ ServerReviewed

ServerSpec ==
    ProcessInit /\ ServerInit /\ [][ServerNext]_<<processVars, serverVars>>

\* The clock runs and so do the timers; requests, hooks and clients owe nothing.
ServerFairness ==
    /\ WF_<<processVars, serverVars>>(ServerTick)
    /\ WF_<<processVars, serverVars>>(ForceExit)

-----------------------------------------------------------------------------
(* Properties *)

\* The storage outlives everything that may still use it: no handler, not even one
\* whose client has left and which the drain did not see, waits for a lookup once
\* the storage is closed (the onClose hook awaits clientResolver.close() first).
StorageOutlivesHandlers ==
    Up /\ boot # "config" /\ storage = "closed" => Flights = {} /\ Connected = {}

\* Exit code 0 after a signal: every client was answered, every hook ran and none of
\* them failed; only after both signals may a failure have been forgotten
\* (app.close() in shutdown).
CleanExitIsClean ==
    program = "server" /\ exit = "0" =>
        /\ Connected = {} /\ hooks = << >> /\ storage = "closed"
        /\ failed = "none" \/ (failed = "forgotten" /\ \A s \in Signal : timers[s] # Unset)

\* The process is gone within one grace period of the FIRST signal, also when the
\* other signal starts a second shutdown with a timer of its own.
GoneWithinGrace == waited <= Grace
=============================================================================

----------------------------- MODULE ProcessProofs -----------------------------
(***************************************************************************)
(* Theorems about the two programs of the repository: the server, for any  *)
(* grace period and any number of requests, and the migration script, for  *)
(* any collection, any texts and any batch size.                           *)
(***************************************************************************)
EXTENDS ServerLifecycle, Migration, FiniteSetTheorems, WellFoundedInduction, TLAPS

-----------------------------------------------------------------------------
(* The server: the forced exit *)

NoTimer == \A s \in Signal : timers[s] = Unset

TimersType == waited \in Nat /\ timers \in [Signal -> Nat \cup {Unset}]

\* Once a timer runs, one of them has no more left than the first signal's grace
\* period has; without one no time has been counted.
FirstTimerKept ==
    \/ NoTimer /\ waited = 0
    \/ \E s \in Signal : timers[s] # Unset /\ waited + timers[s] <= Grace

\* A signal with a listener has started no shutdown, and nothing is heard before the
\* boot is through or after the exit: so no shutdown ever sets another one's timer.
ListenersFresh ==
    /\ handled \subseteq Signal
    /\ \A s \in handled : timers[s] = Unset
    /\ program = "none" \/ boot \in {"off", "config", "probe"} => handled = {} /\ NoTimer
    /\ exit # "running" => handled = {}

GraceInv == TimersType /\ FirstTimerKept /\ ListenersFresh

LEMMA GraceBounds == GraceInv => GoneWithinGrace
  <1> SUFFICES ASSUME GraceInv PROVE waited <= Grace
    BY DEF GoneWithinGrace
  <1>1. CASE NoTimer /\ waited = 0
    BY <1>1, GraceAssumption
  <1>2. ASSUME NEW s \in Signal, timers[s] # Unset, waited + timers[s] <= Grace
        PROVE  waited <= Grace
    <2>1. timers[s] \in Nat /\ waited \in Nat
      BY <1>2 DEF GraceInv, TimersType
    <2> QED
      BY <1>2, <2>1, GraceAssumption
  <1> QED
    BY <1>1, <1>2 DEF GraceInv, FirstTimerKept

LEMMA GraceInit == ProcessInit /\ ServerInit => GraceInv
  BY DEF ProcessInit, ServerInit, GraceInv, TimersType, FirstTimerKept, ListenersFresh, NoTimer

\* A signal starts a timer of its own and leaves the others alone.
LEMMA ShutDownKeepsFirst ==
  ASSUME GraceInv, NEW s \in Signal, ShutDown(s)
  PROVE  GraceInv'
  <1> USE DEF GraceInv
  <1>1. /\ s \in handled /\ handled' = handled \ {s}
        /\ timers' = [timers EXCEPT ![s] = Grace]
        /\ UNCHANGED <<boot, program, exit, waited>>
    BY DEF ShutDown, Heard, ForceExitTimer
  <1>2. timers[s] = Unset
    BY <1>1 DEF ListenersFresh
  <1>3. TimersType'
    BY <1>1, GraceAssumption DEF TimersType
  <1>4. timers'[s] = Grace /\ Grace # Unset
    BY <1>1, GraceAssumption DEF TimersType, Unset
  <1>5. FirstTimerKept'
    <2>1. CASE NoTimer /\ waited = 0
      BY <2>1, <1>1, <1>4, GraceAssumption DEF FirstTimerKept
    <2>2. ASSUME NEW t \in Signal, timers[t] # Unset, waited + timers[t] <= Grace
          PROVE  FirstTimerKept'
      <3>1. timers'[t] = timers[t]
        BY <2>2, <1>1, <1>2 DEF TimersType
      <3> QED
        BY <2>2, <3>1, <1>1 DEF FirstTimerKept
    <2> QED
      BY <2>1, <2>2 DEF FirstTimerKept
  <1>6. ListenersFresh'
    <2>1. \A t \in handled' : timers'[t] = timers[t]
      BY <1>1 DEF TimersType
    <2> QED
      BY <1>1, <2>1 DEF ListenersFresh
  <1> QED
    BY <1>3, <1>5, <1>6

\* A tick takes from every timer what it adds to the time waited.
LEMMA TickKeepsFirst ==
  ASSUME GraceInv, ServerTick
  PROVE  GraceInv'
  <1> USE DEF GraceInv
  <1>1. /\ \A s \in Signal : timers[s] # 0
        /\ timers' = [s \in Signal |-> IF timers[s] > 0 THEN timers[s] - 1 ELSE timers[s]]
        /\ waited' = IF waited <= Grace THEN waited + 1 ELSE waited
        /\ \E s \in Signal : timers[s] # Unset
        /\ UNCHANGED <<boot, program, handled, exit>>
    BY DEF ServerTick, Due, Stays, processVars
  <1>2. \A s \in Signal : timers'[s] = Unset <=> timers[s] = Unset
    <2> SUFFICES ASSUME NEW s \in Signal PROVE timers'[s] = Unset <=> timers[s] = Unset
      OBVIOUS
    <2>1. CASE timers[s] = Unset
      BY <2>1, <1>1 DEF Unset
    <2>2. CASE timers[s] \in Nat
      BY <2>2, <1>1 DEF Unset
    <2> QED
      BY <2>1, <2>2 DEF TimersType
  <1>3. TimersType'
    <2>1. ASSUME NEW s \in Signal PROVE timers'[s] \in Nat \cup {Unset}
      <3>1. CASE timers[s] = Unset
        BY <3>1, <1>2
      <3>2. CASE timers[s] \in Nat
        BY <3>2, <1>1
      <3> QED
        BY <3>1, <3>2 DEF TimersType
    <2>2. waited' \in Nat
      BY <1>1 DEF TimersType
    <2> QED
      BY <1>1, <2>1, <2>2 DEF TimersType
  <1>4. FirstTimerKept'
    <2>1. PICK s \in Signal : timers[s] # Unset /\ waited + timers[s] <= Grace
      BY <1>1 DEF FirstTimerKept, NoTimer
    <2>2. timers[s] \in Nat /\ timers[s] > 0 /\ waited \in Nat
      BY <2>1, <1>1 DEF TimersType
    <2>3. timers'[s] = timers[s] - 1 /\ waited' = waited + 1
      BY <2>1, <2>2, <1>1, GraceAssumption
    <2>4. waited' + timers'[s] <= Grace
      BY <2>1, <2>2, <2>3, GraceAssumption
    <2> QED
      BY <2>1, <2>4, <1>2 DEF FirstTimerKept
  <1>5. ListenersFresh'
    BY <1>1, <1>2 DEF ListenersFresh, NoTimer, TimersType
  <1> QED
    BY <1>3, <1>4, <1>5

\* A step that leaves timers and boot alone and takes listeners away at most.
LEMMA OthersKeepFirst ==
  ASSUME GraceInv,
         UNCHANGED <<timers, waited>>, handled' \subseteq handled,
         program' = "none" \/ boot' \in {"off", "config", "probe"}
           => program = "none" \/ boot \in {"off", "config", "probe"},
         exit' # "running" => exit # "running" \/ handled' = {}
  PROVE  GraceInv'
  BY DEF GraceInv, TimersType, FirstTimerKept, ListenersFresh, NoTimer

LEMMA GraceStep == GraceInv /\ [ServerNext]_<<processVars, serverVars>> => GraceInv'
  <1> SUFFICES ASSUME GraceInv, [ServerNext]_<<processVars, serverVars>> PROVE GraceInv'
    OBVIOUS
  <1>1. CASE StartServer
    BY <1>1, OthersKeepFirst DEF StartServer, Launch
  <1>2. CASE BootFails \/ CloseReturns \/ ForceExit \/ ServerKilled
    BY <1>2, OthersKeepFirst
       DEF BootFails, CloseReturns, ForceExit, ServerKilled, Killed, Exit, serverVars
  <1>3. CASE BuildApp \/ Listen \/ Drained \/ HookEnds
    BY <1>3, OthersKeepFirst DEF BuildApp, Listen, Drained, HookEnds, Stays, processVars
  <1>4. CASE Ready
    BY <1>4 DEF Ready, GraceInv, TimersType, FirstTimerKept, ListenersFresh, NoTimer, Up, Alive
  <1>5. ASSUME NEW r \in Request,
               (\E awaits \in {"lookup", "tool"} : Arrives(r, awaits))
                 \/ HandlerEnds(r) \/ ClientLeaves(r)
        PROVE  GraceInv'
    BY <1>5, OthersKeepFirst DEF Arrives, HandlerEnds, ClientLeaves, Stays, processVars
  <1>6. ASSUME NEW s \in Signal, ShutDown(s) PROVE GraceInv'
    BY <1>6, ShutDownKeepsFirst
  <1>7. CASE ServerTick
    BY <1>7, TickKeepsFirst
  <1>8. CASE ServerReviewed
    <2>1. /\ timers' = [s \in Signal |-> Unset] /\ waited' = 0
          /\ handled' = handled /\ program' = "none"
      BY <1>8 DEF ServerReviewed, Reviewed
    <2>2. handled = {}
      BY <1>8 DEF ServerReviewed, Reviewed, GraceInv, ListenersFresh
    <2> QED
      BY <2>1, <2>2 DEF GraceInv, TimersType, FirstTimerKept, ListenersFresh, NoTimer
  <1>9. CASE UNCHANGED <<processVars, serverVars>>
    BY <1>9, OthersKeepFirst DEF processVars, serverVars
  <1> QED
    BY <1>1, <1>2, <1>3, <1>4, <1>5, <1>6, <1>7, <1>8, <1>9 DEF ServerNext

\* However many signals arrive, the process never outlives the first one by more than
\* the grace period (shutdown's forceExitTimer).
THEOREM ForcedExit == ServerSpec => []GoneWithinGrace
  <1> QED
    BY GraceInit, GraceStep, GraceBounds, PTL DEF ServerSpec

-----------------------------------------------------------------------------
(* The server: storage and exit code *)

\* The hooks still to run, from the first of a shutdown to the last.
HooksLeft == {<<"mcp", "playwright", "clients">>, <<"playwright", "clients">>, <<"clients">>}

LEMMA HooksReversed == Reverse(Registered) = <<"mcp", "playwright", "clients">>
  <1> DEFINE R == <<"clients", "playwright", "mcp">>
  <1>1. Len(R) = 3 /\ R[1] = "clients" /\ R[2] = "playwright" /\ R[3] = "mcp"
    OBVIOUS
  <1>2. [i \in 1..3 |-> R[(3 - i) + 1]] = <<"mcp", "playwright", "clients">>
    <2>1. [i \in 1..3 |-> R[(3 - i) + 1]] = [i \in 1..3 |-> <<"mcp", "playwright", "clients">>[i]]
      <3>1. \A i \in 1..3 : R[(3 - i) + 1] = <<"mcp", "playwright", "clients">>[i]
        BY <1>1
      <3> QED
        BY <3>1
    <2> QED
      BY <2>1
  <1> QED
    BY <1>1, <1>2 DEF Reverse, Registered

LEMMA HooksTail ==
  ASSUME NEW h \in HooksLeft
  PROVE  /\ h # << >> /\ Len(h) \in {1, 2, 3}
         /\ Len(h) = 1 <=> Head(h) = "clients"
         /\ Len(h) = 1 => Tail(h) = << >>
         /\ Len(h) # 1 => Tail(h) \in HooksLeft
  <1>1. CASE h = <<"clients">>
    BY <1>1
  <1>2. CASE h = <<"playwright", "clients">>
    BY <1>2 DEF HooksLeft
  <1>3. CASE h = <<"mcp", "playwright", "clients">>
    BY <1>3 DEF HooksLeft
  <1> QED
    BY <1>1, <1>2, <1>3 DEF HooksLeft

RequestType ==
  requests \in [Request -> [awaits : {"none", "lookup", "tool"}, connected : BOOLEAN]]

\* How far the process is in its life, and what that says of the storage, the requests
\* and the hooks: requests arrive only at a listening server that is not closing, the
\* hooks run once every connection is gone, and the storage is closed by the last
\* hook, after its flights.
LifeInv ==
  /\ RequestType
  /\ boot \in {"off", "config", "probe", "bind", "listening"}
  /\ boot = "off" <=> program # "server"
  /\ program # "server" => exit = "running"
  /\ exit # "running" => handled = {}
  /\ closing \in {"no", "drain", "hooks", "closed"}
  /\ boot # "listening" => Flights = {} /\ Connected = {}
  /\ boot \in {"off", "config", "probe"} => handled = {} /\ closing = "no"
  /\ closing \in {"hooks", "closed"} => Connected = {}
  /\ failed \in {"none", "thrown", "forgotten"}
  /\ closing = "no" => failed = "none"
  /\ closing \in {"drain", "hooks"} => hooks \in HooksLeft
  /\ closing \in {"no", "closed"} => hooks = << >>
  /\ storage = "closed" <=> boot \in {"off", "config"} \/ closing = "closed"
  /\ closing = "closed" => Flights = {}
  /\ program = "server" /\ exit = "0" => closing = "closed" /\ failed # "thrown"

\* A request whose handler has ended awaits nothing and has no client.
LEMMA NothingAwaited ==
  NoRequest.awaits = "none" /\ NoRequest.connected = FALSE
    /\ NoRequest \in [awaits : {"none", "lookup", "tool"}, connected : BOOLEAN]
  BY DEF NoRequest

LEMMA LifeInit == ProcessInit /\ ServerInit => LifeInv
  BY NothingAwaited DEF ProcessInit, ServerInit, LifeInv, RequestType, Flights, Connected

\* A step that leaves the requests alone.
LEMMA SameRequests ==
  ASSUME UNCHANGED requests
  PROVE  Flights' = Flights /\ Connected' = Connected /\ (RequestType => RequestType')
  BY DEF Flights, Connected, RequestType

\* The exit of the process leaves everything else as it was.
LEMMA ExitKeepsLife ==
  ASSUME LifeInv, Up, NEW code, Exit(code), UNCHANGED serverVars,
         code = "0" => closing = "closed" /\ failed # "thrown"
  PROVE  LifeInv'
  BY SameRequests DEF LifeInv, Exit, serverVars, Up, Alive

LEMMA RequestsKeepLife ==
  ASSUME LifeInv, NEW r \in Request,
         (\E awaits \in {"lookup", "tool"} : Arrives(r, awaits))
           \/ HandlerEnds(r) \/ ClientLeaves(r)
  PROVE  LifeInv'
  <1>1. /\ UNCHANGED <<program, exit, handled, boot, storage, closing, hooks, failed>>
        /\ \A q \in Request \ {r} : requests'[q] = requests[q]
    BY DEF LifeInv, RequestType, Arrives, HandlerEnds, ClientLeaves, Stays, processVars
  <1>2. ASSUME NEW awaits \in {"lookup", "tool"}, Arrives(r, awaits)
        PROVE  LifeInv'
    <2>1. boot = "listening" /\ closing = "no"
          /\ requests' = [requests EXCEPT ![r] = [awaits |-> awaits, connected |-> TRUE]]
      BY <1>2 DEF Arrives
    <2>2. RequestType'
      BY <2>1 DEF LifeInv, RequestType
    <2> QED
      BY <1>1, <2>1, <2>2 DEF LifeInv
  <1>3. ASSUME requests'[r].awaits # "lookup" \/ requests'[r].awaits = requests[r].awaits,
               requests'[r].connected => requests[r].connected, RequestType'
        PROVE  LifeInv'
    <2>1. Flights' \subseteq Flights /\ Connected' \subseteq Connected
      BY <1>1, <1>3 DEF Flights, Connected
    <2> QED
      BY <1>1, <1>3, <2>1 DEF LifeInv
  <1>4. CASE HandlerEnds(r)
    <2>1. requests' = [requests EXCEPT ![r] = NoRequest]
      BY <1>4 DEF HandlerEnds
    <2>2. requests'[r] = NoRequest /\ RequestType'
      BY <2>1, NothingAwaited DEF LifeInv, RequestType
    <2> QED
      BY <1>3, <2>2, NothingAwaited
  <1>5. CASE ClientLeaves(r)
    <2>1. requests' = [requests EXCEPT ![r].connected = FALSE]
      BY <1>5 DEF ClientLeaves
    <2>2. requests'[r].connected = FALSE /\ requests'[r].awaits = requests[r].awaits
          /\ RequestType'
      BY <2>1 DEF LifeInv, RequestType
    <2> QED
      BY <1>3, <2>2
  <1> QED
    BY <1>2, <1>4, <1>5

LEMMA HooksKeepLife ==
  ASSUME LifeInv, HookEnds
  PROVE  LifeInv'
  <1>1. /\ closing = "hooks" /\ hooks \in HooksLeft /\ Up
        /\ Head(hooks) = "clients" => Flights = {}
        /\ hooks' = Tail(hooks)
        /\ closing' = IF Len(hooks) = 1 THEN "closed" ELSE closing
        /\ storage' = IF Head(hooks) = "clients" THEN "closed" ELSE storage
        /\ failed' \in {failed, "thrown"}
        /\ UNCHANGED <<program, exit, handled, boot, requests>>
    BY DEF HookEnds, LifeInv, FlightsSettled, Stays, processVars
  <1>2. boot \in {"bind", "listening"}
    BY <1>1 DEF LifeInv, Up, Alive
  <1>3. CASE Len(hooks) = 1
    <2>1. hooks' = << >> /\ closing' = "closed" /\ storage' = "closed" /\ Flights = {}
      BY <1>1, <1>3, HooksTail
    <2> QED
      BY <1>1, <1>2, <2>1, SameRequests DEF LifeInv, Up, Alive
  <1>4. CASE Len(hooks) # 1
    <2>1. hooks' \in HooksLeft /\ closing' = "hooks" /\ storage' = storage
      BY <1>1, <1>4, HooksTail
    <2> QED
      BY <1>1, <1>2, <2>1, SameRequests DEF LifeInv, Up, Alive
  <1> QED
    BY <1>3, <1>4

LEMMA LifeStep == LifeInv /\ [ServerNext]_<<processVars, serverVars>> => LifeInv'
  <1> SUFFICES ASSUME LifeInv, [ServerNext]_<<processVars, serverVars>> PROVE LifeInv'
    OBVIOUS
  <1>1. CASE StartServer
    BY <1>1, SameRequests DEF StartServer, Launch, LifeInv
  <1>2. CASE BootFails \/ CloseReturns \/ ForceExit \/ ServerKilled
    <2>1. CASE CloseReturns
      BY <2>1, ExitKeepsLife DEF CloseReturns, CloseCode
    <2>2. CASE BootFails \/ ForceExit
      BY <2>2, ExitKeepsLife DEF BootFails, ForceExit
    <2>3. CASE ServerKilled
      BY <2>3, ExitKeepsLife DEF ServerKilled, Killed
    <2> QED
      BY <1>2, <2>1, <2>2, <2>3
  <1>3. CASE BuildApp \/ Ready \/ Listen
    BY <1>3, SameRequests
       DEF BuildApp, Ready, Listen, Stays, processVars, LifeInv, Up, Alive, Signal
  <1>4. CASE Drained
    BY <1>4, SameRequests DEF Drained, Stays, processVars, LifeInv
  <1>5. CASE HookEnds
    BY <1>5, HooksKeepLife
  <1>6. ASSUME NEW r \in Request,
               (\E awaits \in {"lookup", "tool"} : Arrives(r, awaits))
                 \/ HandlerEnds(r) \/ ClientLeaves(r)
        PROVE  LifeInv'
    BY <1>6, RequestsKeepLife
  <1>7. ASSUME NEW s \in Signal, ShutDown(s) PROVE LifeInv'
    <2>1. /\ boot \in {"bind", "listening"}
          /\ UNCHANGED <<program, exit, boot, storage, requests>>
          /\ failed' = failed \/ (failed = "thrown" /\ failed' = "forgotten")
          /\ closing' = IF closing = "no" THEN "drain" ELSE closing
          /\ hooks' = IF closing = "no" THEN <<"mcp", "playwright", "clients">> ELSE hooks
      BY <1>7, HooksReversed DEF ShutDown, Heard, LifeInv
    <2> QED
      BY <1>7, <2>1, SameRequests DEF LifeInv, HooksLeft, Up, Alive, ShutDown
  <1>8. CASE ServerTick
    BY <1>8, SameRequests DEF ServerTick, Stays, processVars, LifeInv
  <1>9. CASE ServerReviewed
    <2>1. Flights' = {} /\ Connected' = {} /\ RequestType'
      BY <1>9, NothingAwaited DEF ServerReviewed, Flights, Connected, RequestType
    <2>2. handled' = {}
      BY <1>9 DEF ServerReviewed, Reviewed, LifeInv
    <2> QED
      BY <1>9, <2>1, <2>2 DEF ServerReviewed, Reviewed, LifeInv
  <1>10. CASE UNCHANGED <<processVars, serverVars>>
    BY <1>10, SameRequests DEF processVars, serverVars, LifeInv
  <1> QED
    BY <1>1, <1>2, <1>3, <1>4, <1>5, <1>6, <1>7, <1>8, <1>9, <1>10 DEF ServerNext

\* No handler, not even one the drain did not see, waits for a lookup once the
\* storage is closed.
THEOREM StorageOutlives == ServerSpec => []StorageOutlivesHandlers
  <1>1. LifeInv => StorageOutlivesHandlers
    BY DEF LifeInv, StorageOutlivesHandlers, Up, Alive
  <1> QED
    BY <1>1, LifeInit, LifeStep, PTL DEF ServerSpec

\* A shutdown under way was begun by a signal whose listener is gone, so the one that
\* makes Fastify forget a failure is the other: both timers have been set.
ForgetInv ==
  /\ closing # "no" => \E s \in Signal \ handled : timers[s] # Unset
  /\ failed = "forgotten" => \A s \in Signal : timers[s] # Unset

CleanInv == GraceInv /\ LifeInv /\ ForgetInv

\* A step that leaves timers and outcome alone, begins no shutdown and adds no listener.
LEMMA OthersForget ==
  ASSUME ForgetInv, UNCHANGED timers, handled' \subseteq handled,
         closing' = closing \/ closing # "no", failed' = failed \/ failed' = "thrown"
  PROVE  ForgetInv'
  BY DEF ForgetInv

LEMMA ForgetStep == CleanInv /\ [ServerNext]_<<processVars, serverVars>> => ForgetInv'
  <1> SUFFICES ASSUME CleanInv, [ServerNext]_<<processVars, serverVars>> PROVE ForgetInv'
    OBVIOUS
  <1> USE DEF CleanInv
  <1>1. CASE StartServer
    BY <1>1, OthersForget DEF StartServer, Launch
  <1>2. CASE BootFails \/ CloseReturns \/ ForceExit \/ ServerKilled
    BY <1>2, OthersForget
       DEF BootFails, CloseReturns, ForceExit, ServerKilled, Killed, Exit, serverVars
  <1>3. CASE BuildApp \/ Listen \/ Drained \/ HookEnds
    BY <1>3, OthersForget DEF BuildApp, Listen, Drained, HookEnds, Stays, processVars
  <1>4. CASE Ready
    BY <1>4 DEF Ready, LifeInv, ForgetInv
  <1>5. ASSUME NEW r \in Request,
               (\E awaits \in {"lookup", "tool"} : Arrives(r, awaits))
                 \/ HandlerEnds(r) \/ ClientLeaves(r)
        PROVE  ForgetInv'
    BY <1>5, OthersForget DEF Arrives, HandlerEnds, ClientLeaves, Stays, processVars
  <1>6. ASSUME NEW s \in Signal, ShutDown(s) PROVE ForgetInv'
    <2>1. /\ s \in handled /\ handled' = handled \ {s}
          /\ timers' = [timers EXCEPT ![s] = Grace]
          /\ failed' = failed \/ (failed = "thrown" /\ failed' = "forgotten")
      BY <1>6 DEF ShutDown, Heard, ForceExitTimer
    <2>2. timers'[s] # Unset /\ s \in Signal \ handled'
      BY <2>1, GraceAssumption DEF GraceInv, TimersType, Unset
    <2>3. \A t \in Signal \ {s} : timers'[t] = timers[t]
      BY <2>1 DEF GraceInv, TimersType
    <2>4. CASE closing = "no"
      BY <2>1, <2>2, <2>4 DEF ForgetInv, LifeInv
    <2>5. CASE closing # "no"
      <3>1. PICK t \in Signal \ handled : timers[t] # Unset
        BY <2>5 DEF ForgetInv
      <3>2. t # s /\ \A u \in Signal : u = s \/ u = t
        BY <2>1, <3>1 DEF Signal
      <3>3. \A u \in Signal : timers'[u] # Unset
        BY <2>2, <2>3, <3>1, <3>2
      <3> QED
        BY <2>2, <3>3 DEF ForgetInv
    <2> QED
      BY <2>4, <2>5
  <1>7. CASE ServerTick
    <2>1. timers' = [s \in Signal |-> IF timers[s] > 0 THEN timers[s] - 1 ELSE timers[s]]
          /\ UNCHANGED <<closing, failed, handled>>
      BY <1>7 DEF ServerTick, Stays, processVars
    <2>2. ASSUME NEW s \in Signal, timers[s] # Unset PROVE timers'[s] # Unset
      <3>1. timers[s] \in Nat
        BY <2>2 DEF GraceInv, TimersType
      <3> QED
        BY <2>1, <3>1 DEF Unset
    <2> QED
      BY <2>1, <2>2 DEF ForgetInv
  <1>8. CASE ServerReviewed
    BY <1>8 DEF ServerReviewed, ForgetInv
  <1>9. CASE UNCHANGED <<processVars, serverVars>>
    BY <1>9, OthersForget DEF processVars, serverVars
  <1> QED
    BY <1>1, <1>2, <1>3, <1>4, <1>5, <1>6, <1>7, <1>8, <1>9 DEF ServerNext

\* Exit code 0 means every client answered, every hook run and, unless both signals
\* were heard, none failed.
THEOREM CleanExit == ServerSpec => []CleanExitIsClean
  <1>1. ProcessInit /\ ServerInit => CleanInv
    BY GraceInit, LifeInit DEF CleanInv, ForgetInv, ServerInit
  <1>2. CleanInv /\ [ServerNext]_<<processVars, serverVars>> => CleanInv'
    BY GraceStep, LifeStep, ForgetStep DEF CleanInv
  <1>3. CleanInv => CleanExitIsClean
    <2> SUFFICES ASSUME CleanInv, program = "server" /\ exit = "0"
                 PROVE  /\ Connected = {} /\ hooks = << >> /\ storage = "closed"
                        /\ failed = "none"
                             \/ (failed = "forgotten" /\ \A s \in Signal : timers[s] # Unset)
      BY DEF CleanExitIsClean
    <2>1. closing = "closed" /\ failed # "thrown"
      BY DEF CleanInv, LifeInv
    <2>2. Connected = {} /\ hooks = << >> /\ storage = "closed"
      BY <2>1 DEF CleanInv, LifeInv
    <2>3. failed \in {"none", "forgotten"}
      BY <2>1 DEF CleanInv, LifeInv
    <2> QED
      BY <2>2, <2>3 DEF CleanInv, ForgetInv
  <1> QED
    BY <1>1, <1>2, <1>3, PTL DEF ServerSpec

-----------------------------------------------------------------------------
(* The migration: least and greatest points, and pages *)

LEMMA LeastPoint ==
    ASSUME NEW S, S \subseteq Nat, S # {}
    PROVE  \E m \in S : \A p \in S : m <= p
<1>1. PICK m \in S : \A p \in S : ~(<<p, m>> \in OpToRel(<, Nat))
  BY Zenon, NatLessThanWellFounded, WFMin
<1>2. \A p \in S : ~(p < m)
  BY Zenon, <1>1 DEF OpToRel
<1>3. QED
  BY <1>2

LEMMA PointsFinite == Points \in Nat /\ Point \subseteq Nat \ {0} /\ IsFiniteSet(Point)
<1>1. Points \in Int /\ 1 \in Int /\ Points \in Nat
  BY MigrationAssumption
<1>2. IsFiniteSet(1..Points)
  BY <1>1, FS_Interval
<1>3. QED
  BY <1>1, <1>2 DEF Point

LEMMA GreatestPoint ==
    ASSUME NEW S, S \subseteq Point, S # {}
    PROVE  Max(S) \in S /\ \A p \in S : p <= Max(S)
<1>1. Points \in Nat /\ S \subseteq Nat \ {0}
  BY PointsFinite
<1> DEFINE B == {n \in Nat : \A p \in S : p <= n}
<1>2. Points \in B
  BY <1>1 DEF Point
<1>3. PICK m \in B : \A n \in B : m <= n
  BY <1>2, LeastPoint
<1>4. m \in S
  <2>1. CASE m = 0
    <3>1. PICK p \in S : TRUE
      OBVIOUS
    <3>2. p <= 0 /\ p \in Nat \ {0}
      BY <1>1, <1>3, <2>1
    <3>3. QED
      BY <3>2
  <2>2. CASE m # 0
    <3>1. m - 1 \in Nat /\ ~(m <= m - 1)
      BY <1>3, <2>2
    <3>2. m - 1 \notin B
      BY <1>3, <3>1
    <3>3. PICK p \in S : ~(p <= m - 1)
      BY <3>1, <3>2
    <3>4. p = m
      BY <1>1, <1>3, <3>1, <3>3 DEF Point
    <3>5. QED
      BY <3>4
  <2>3. QED
    BY <2>1, <2>2
<1>5. \E x \in S : \A y \in S : x >= y
  <2>1. \A y \in S : m >= y
    BY <1>3
  <2>2. QED
    BY <1>4, <2>1
<1>6. Max(S) \in S /\ \A y \in S : Max(S) >= y
  BY <1>5 DEF Max
<1>7. QED
  BY <1>1, <1>6

\* A page of a nonempty rest is nonempty and takes the points in order.
LEMMA PageInOrder ==
    ASSUME NEW rest, rest \subseteq Point, script.batchSize \in Nat \ {0}, rest # {}
    PROVE  /\ FirstPage(rest) # {}
           /\ FirstPage(rest) \subseteq rest
           /\ \A p \in FirstPage(rest), q \in rest : q <= p => q \in FirstPage(rest)
<1> DEFINE Upto(p) == {q \in rest : q <= p}
<1>1. IsFiniteSet(rest)
  BY PointsFinite, FS_Subset
<1>7. rest \subseteq Nat
  BY PointsFinite
<1>2. ASSUME NEW p \in rest, NEW q \in rest, q <= p
      PROVE  Cardinality(Upto(q)) <= Cardinality(Upto(p)) /\ Cardinality(Upto(q)) \in Nat
             /\ Cardinality(Upto(p)) \in Nat
  <2>1. Upto(q) \subseteq Upto(p)
    <3>1. ASSUME NEW x \in rest, x <= q
          PROVE  x <= p
      BY <1>2, <1>7, <3>1
    <3>2. QED
      BY <3>1
  <2>2. Upto(p) \subseteq rest
    OBVIOUS
  <2>3. IsFiniteSet(Upto(p))
    BY <1>1, <2>2, FS_Subset
  <2>4. IsFiniteSet(Upto(q)) /\ Cardinality(Upto(q)) <= Cardinality(Upto(p))
    BY <2>1, <2>3, FS_Subset
  <2>5. QED
    BY <2>3, <2>4, FS_CardinalityType
<1>3. PICK m \in rest : \A p \in rest : m <= p
  BY <1>7, LeastPoint
<1>4. m \in FirstPage(rest)
  <2>1. Upto(m) = {m}
    <3>1. ASSUME NEW x \in rest, x <= m
          PROVE  x = m
      <4>1. m <= x /\ m \in Nat /\ x \in Nat
        BY <1>3, <1>7
      <4>2. QED
        BY <3>1, <4>1
    <3>2. m \in Upto(m)
      BY <1>7
    <3>3. QED
      BY <3>1, <3>2
  <2>2. Cardinality(Upto(m)) = 1
    BY <2>1, FS_Singleton
  <2>3. QED
    BY <2>2 DEF FirstPage
<1>5. ASSUME NEW p \in FirstPage(rest), NEW q \in rest, q <= p
      PROVE  q \in FirstPage(rest)
  <2>1. p \in rest /\ Cardinality(Upto(p)) <= script.batchSize
    BY DEF FirstPage
  <2>2. Cardinality(Upto(q)) <= script.batchSize
    BY <1>2, <1>5, <2>1
  <2>3. QED
    BY <2>2 DEF FirstPage
<1>6. QED
  BY <1>4, <1>5 DEF FirstPage

-----------------------------------------------------------------------------
(* The migration's invariant *)

Content == Text \cup {"no text", "absent"}
Working == {"loop", "scroll", "embed", "upsert", "count"}

ScriptIn(steps) ==
    [step : steps, dryRun : BOOLEAN, batchSize : Nat, cursor : Nat, page : SUBSET Point,
     embedded : Nat, empties : Nat, calm : BOOLEAN]

MigrationTypeOK ==
    /\ source \in [Point -> Content]
    /\ target \in [Point -> Content]
    /\ program \in {"none", "migration"}
    /\ exit \in {"running", "0", "1", "2", "3", "130", "killed"}
    /\ script \in ScriptIn(Working \cup {"none", "usage", "configure"})
    /\ stopped \in BOOLEAN

\* The points the run has dealt with hold the vector of their present text, or in a
\* dry run a text.
Covered ==
    \A p \in Point : p <= script.cursor /\ source[p] # "absent" =>
        /\ source[p] # "no text"
        /\ ~script.dryRun => target[p] = source[p]

\* The page in hand is the first part of what remains.
PageNext ==
    /\ script.page # {} /\ script.page \subseteq Remaining
    /\ \A p \in Remaining : p <= Max(script.page) => p \in script.page
    /\ TextsPresent(script.page)
    /\ ~script.dryRun

InOrder == (\A p \in Point : source[p] # "no text") /\ StalePoints = {}

MigrationInv ==
    /\ MigrationTypeOK
    /\ program = "none" => exit = "running" /\ script.step = "none" /\ script.calm = FALSE
    /\ script.step \in Working \cup {"configure"} => script.batchSize # 0
    /\ script.step \in Working => Covered
    /\ script.step \in {"configure", "usage"} => script.cursor = 0
    /\ script.step \in {"embed", "upsert"} => PageNext
    /\ script.step = "count" => Remaining = {}
    /\ exit = "0" /\ script.step \notin {"count", "usage"} => FALSE
    /\ exit = "0" /\ script.step = "count" /\ ~script.dryRun => CountsMatch
    /\ script.calm => InOrder /\ script.empties = 0
    /\ RerunCompletes

\* The script stays where it is and the process ends with `code`.
LEMMA ExitKeeps ==
    ASSUME MigrationInv, Alive("migration"), UNCHANGED migrationVars,
           NEW code \in {"0", "1", "2", "3", "130", "killed"}, Exit(code),
           code = "0" => script.step \in {"count", "usage"},
           code = "0" /\ script.step = "count" /\ ~script.dryRun => CountsMatch,
           Begun /\ script.calm /\ ~stopped => code = "0"
    PROVE  MigrationInv'
<1>1. /\ source' = source /\ target' = target /\ script' = script /\ stopped' = stopped
      /\ program = "migration" /\ program' = "migration" /\ exit' = code
  BY DEF Alive, Exit, migrationVars
<1>2. MigrationTypeOK'
  BY <1>1 DEF MigrationInv, MigrationTypeOK
<1>3. Covered' = Covered /\ PageNext' = PageNext /\ Remaining' = Remaining
      /\ InOrder' = InOrder /\ CountsMatch' = CountsMatch /\ Begun' = Begun
  BY <1>1 DEF Covered, PageNext, Remaining, InOrder, StalePoints, CountsMatch, Begun, TextsPresent
<1>4. QED
  BY <1>1, <1>2, <1>3 DEF MigrationInv, RerunCompletes

\* What a script that goes on must keep.
LEMMA GoingOnKeeps ==
    ASSUME MigrationInv, Alive("migration"), Stays, UNCHANGED <<source, stopped>>,
           target' \in [Point -> Content],
           script' \in ScriptIn(Working),
           script'.batchSize # 0, Covered',
           script'.step \in {"embed", "upsert"} => PageNext',
           script'.step = "count" => Remaining' = {},
           script'.calm => InOrder' /\ script'.empties = 0
    PROVE  MigrationInv'
<1>1. program' = "migration" /\ exit' = "running" /\ source' = source /\ stopped' = stopped
  BY DEF Alive, Stays, processVars
<1>2. MigrationTypeOK'
  BY <1>1 DEF MigrationInv, MigrationTypeOK, ScriptIn
<1>3. script'.step \in Working
  BY DEF ScriptIn
<1>4. script'.step \notin {"none", "configure", "usage"}
  BY <1>3 DEF Working
<1>5. QED
  BY <1>1, <1>2, <1>3, <1>4 DEF MigrationInv, RerunCompletes

\* The page in hand is done: what is covered grows by it, and if nothing lies
\* beyond it nothing remains.
LEMMA PageDoneKeeps ==
    ASSUME MigrationInv, Alive("migration"), script.step \in Working,
           NEW page, page # {}, page \subseteq Remaining, TextsPresent(page),
           \A p \in Remaining : p <= Max(page) => p \in page,
           PageDone(page), UNCHANGED <<source, stopped>>,
           target' \in [Point -> Content],
           \A p \in Point \ page : target'[p] = target[p],
           ~script.dryRun => \A p \in page : target'[p] = source[p],
           script.dryRun => target' = target
    PROVE  MigrationInv'
<1> DEFINE m == Max(page)
           next == [script EXCEPT !.cursor = m, !.page = {}, !.embedded = 0, !.empties = 0]
           loop == [next EXCEPT !.step = "loop"]
           count == [next EXCEPT !.step = "count"]
           later == \E p \in Point : p > m /\ source[p] # "absent"
<1>0. script \in ScriptIn(Working \cup {"none", "usage", "configure"})
  BY DEF MigrationInv, MigrationTypeOK
<1>1. m \in page /\ m \in Point /\ m \in Nat /\ \A p \in page : p <= m
  BY GreatestPoint, PointsFinite DEF Remaining
<1>2. InOrder => InOrder'
  <2>1. \A p \in page : source[p] # "absent"
    BY DEF Remaining
  <2>2. \A p \in Point : source[p] = "absent" => target'[p] = target[p]
    BY <2>1
  <2>3. QED
    BY <2>2 DEF InOrder, StalePoints
<1> HIDE DEF m
<1>3. ASSUME NEW p \in Point, p <= m, source[p] # "absent"
      PROVE  source[p] # "no text" /\ (~script.dryRun => target'[p] = source[p])
  <2>1. CASE p <= script.cursor
    <3>1. p \notin Remaining /\ p \notin page
      BY <1>0, <2>1, PointsFinite DEF Remaining, ScriptIn
    <3>2. QED
      BY <1>3, <2>1, <3>1 DEF MigrationInv, Covered
  <2>2. CASE ~(p <= script.cursor)
    <3>1. p \in page
      BY <1>0, <1>3, <2>2, PointsFinite DEF Remaining, ScriptIn, m
    <3>2. QED
      BY <3>1 DEF TextsPresent
  <2>3. QED
    BY <2>1, <2>2
<1>4. /\ next.cursor = m /\ next.batchSize = script.batchSize /\ next.dryRun = script.dryRun
      /\ next.calm = script.calm /\ next.empties = 0 /\ next.page = {}
      /\ loop \in ScriptIn(Working)
      /\ count \in ScriptIn(Working)
  BY <1>0, <1>1 DEF Working, ScriptIn
<1>5. \A s \in {loop, count} : /\ s.cursor = m /\ s.dryRun = script.dryRun
                               /\ s.batchSize = script.batchSize
                               /\ s.calm = script.calm /\ s.empties = 0
  BY <1>0 DEF ScriptIn
<1>6. loop.step = "loop" /\ count.step = "count"
  BY <1>0 DEF ScriptIn
<1>7. /\ later => script' = loop /\ Stays
      /\ ~later => IF stopped THEN Exit("130") /\ UNCHANGED script ELSE script' = count /\ Stays
  BY DEF PageDone, Proceed, CursorAfter, m
<1>8. script.batchSize # 0 /\ (script.calm => InOrder)
  BY DEF MigrationInv
<1> HIDE DEF loop, count, next, later
<1>9. ASSUME script' \in {loop, count}, Stays, script' = count => ~later
      PROVE  MigrationInv'
  <2>1. Covered'
    BY <1>3, <1>5, <1>9 DEF Covered
  <2>2. script'.step = "count" => Remaining' = {}
    <3> SUFFICES ASSUME script' = count PROVE Remaining' = {}
      BY <1>6, <1>9
    <3>1. \A p \in Point : p <= m \/ source[p] = "absent"
      BY <1>1, <1>9, PointsFinite DEF later
    <3>2. script'.cursor = m
      BY <1>5
    <3>3. \A p \in Point : ~(p > m /\ source[p] # "absent")
      BY <1>1, <3>1, PointsFinite
    <3>4. QED
      BY <3>2, <3>3 DEF Remaining
  <2>3. script' \in ScriptIn(Working)
    BY <1>4, <1>9
  <2>4. script'.batchSize # 0 /\ (script'.calm => InOrder' /\ script'.empties = 0)
    BY <1>2, <1>5, <1>8, <1>9
  <2>5. script'.step \notin {"embed", "upsert"}
    BY <1>6, <1>9
  <2>6. QED
    BY <1>9, <2>1, <2>2, <2>3, <2>4, <2>5, GoingOnKeeps
<1>10. ASSUME stopped, Exit("130"), UNCHANGED script
       PROVE  MigrationInv'
  <2>1. MigrationTypeOK' /\ (script.calm => InOrder')
    BY <1>2, <1>8, <1>10 DEF MigrationInv, MigrationTypeOK, Alive, Exit
  <2>2. Covered'
    <3>1. \A p \in Point : p <= script.cursor => p \notin page
      BY <1>0, PointsFinite DEF Remaining, ScriptIn
    <3>2. QED
      BY <1>10, <3>1 DEF Covered, MigrationInv
  <2>3. PageNext' = PageNext /\ Remaining' = Remaining
    BY <1>10 DEF PageNext, Remaining, TextsPresent
  <2>4. QED
    BY <1>10, <2>1, <2>2, <2>3 DEF MigrationInv, RerunCompletes, Alive, Exit, Working
<1>11. QED
  BY <1>6, <1>7, <1>9, <1>10

LEMMA MigrationTyped ==
    ASSUME MigrationInv
    PROVE  /\ script \in ScriptIn(Working \cup {"none", "usage", "configure"})
           /\ script.step \in Working => script.batchSize \in Nat \ {0}
           /\ source \in [Point -> Content] /\ target \in [Point -> Content]
  BY DEF MigrationInv, MigrationTypeOK, ScriptIn

\* The empty answer, or a page; a real run takes the page in hand, a dry run has
\* looked at it.
LEMMA PageArrivesKeeps ==
    ASSUME MigrationInv, PageArrives
    PROVE  MigrationInv'
<1> DEFINE page == FirstPage(Remaining)
<1>1. /\ Alive("migration") /\ script.step = "scroll" /\ UNCHANGED <<source, target, stopped>>
      /\ script.step \in Working
  BY DEF PageArrives, At, Working
<1>2. Remaining \subseteq Point
  BY DEF Remaining
<1>3. Remaining # {} => /\ page # {} /\ page \subseteq Remaining
                        /\ \A p \in page, q \in Remaining : q <= p => q \in page
  BY <1>1, <1>2, MigrationTyped, PageInOrder
<1>4. Remaining = {} => page = {}
  BY DEF FirstPage
<1>5. script.calm => ~TooManyEmpties
  BY DEF MigrationInv, TooManyEmpties, MAX_EMPTY_PAGES
<1>6. script.calm => \A p \in Point : source[p] # "no text"
  BY DEF MigrationInv, InOrder
<1>7. page # {} => /\ page \subseteq Remaining
                   /\ \A p \in Remaining : p <= Max(page) => p \in page
  BY <1>2, <1>3, <1>4, GreatestPoint
<1>8. /\ page = {} /\ ~TooManyEmpties => Proceed([script EXCEPT !.step = "count"])
      /\ page = {} /\ TooManyEmpties => Fail /\ UNCHANGED script
      /\ page # {} /\ ~TextsPresent(page) => Fail /\ UNCHANGED script
      /\ page # {} /\ TextsPresent(page) /\ script.dryRun => PageDone(page)
      /\ page # {} /\ TextsPresent(page) /\ ~script.dryRun
           => Proceed([script EXCEPT !.step = "embed", !.page = page, !.empties = 0])
  BY DEF PageArrives
<1>9. page # {} /\ script.calm => TextsPresent(page)
  BY <1>2, <1>6, <1>7 DEF TextsPresent
<1> HIDE DEF page
<1>10. ASSUME Fail, UNCHANGED script, ~script.calm
       PROVE  MigrationInv'
  BY <1>1, <1>10, ExitKeeps DEF Fail, migrationVars
<1>11. ASSUME stopped, Exit("130"), UNCHANGED script
       PROVE  MigrationInv'
  BY <1>1, <1>11, ExitKeeps DEF migrationVars
<1>12. CASE page = {} /\ ~TooManyEmpties
  <2> DEFINE s == [script EXCEPT !.step = "count"]
  <2>1. /\ s \in ScriptIn(Working) /\ s.step = "count" /\ s.batchSize = script.batchSize
        /\ s.cursor = script.cursor /\ s.dryRun = script.dryRun /\ s.calm = script.calm
        /\ s.empties = script.empties
    BY MigrationTyped DEF ScriptIn, Working
  <2> HIDE DEF s
  <2>2. Remaining = {}
    BY <1>3, <1>12
  <2>3. ASSUME script' = s, Stays
        PROVE  MigrationInv'
    <3>1. Covered' /\ Remaining' = {} /\ (script'.calm => InOrder' /\ script'.empties = 0)
          /\ script'.batchSize # 0
      BY <1>1, <2>1, <2>2, <2>3
         DEF Covered, Remaining, MigrationInv, InOrder, StalePoints
    <3>2. QED
      BY <1>1, <2>1, <2>3, <3>1, GoingOnKeeps, MigrationTyped
  <2>4. QED
    BY <1>8, <1>11, <1>12, <2>3 DEF Proceed, s
<1>13. CASE page # {} /\ TextsPresent(page) /\ script.dryRun
  BY <1>1, <1>7, <1>8, <1>13, PageDoneKeeps, MigrationTyped
<1>14. CASE page # {} /\ TextsPresent(page) /\ ~script.dryRun
  <2> DEFINE s == [script EXCEPT !.step = "embed", !.page = page, !.empties = 0]
  <2>1. page \in SUBSET Point
    BY <1>2, <1>7, <1>14
  <2>2. /\ s \in ScriptIn(Working) /\ s.step = "embed" /\ s.batchSize = script.batchSize
        /\ s.cursor = script.cursor /\ s.dryRun = script.dryRun /\ s.calm = script.calm
        /\ s.empties = 0 /\ s.page = page
    BY <2>1, MigrationTyped DEF ScriptIn, Working
  <2> HIDE DEF s
  <2>3. ASSUME script' = s, Stays
        PROVE  MigrationInv'
    <3>1. Covered' /\ Remaining' = Remaining /\ (script'.calm => InOrder')
          /\ script'.batchSize # 0
      BY <1>1, <2>2, <2>3
         DEF Covered, Remaining, MigrationInv, InOrder, StalePoints
    <3>2. PageNext'
      BY <1>1, <1>7, <1>14, <2>2, <2>3, <3>1 DEF PageNext, TextsPresent
    <3>3. QED
      BY <1>1, <2>2, <2>3, <3>1, <3>2, GoingOnKeeps, MigrationTyped
  <2>4. QED
    BY <1>8, <1>11, <1>14, <2>3 DEF Proceed, s
<1>15. QED
  BY <1>5, <1>8, <1>9, <1>10, <1>12, <1>13, <1>14

\* A step within the page or around it: nothing covered is lost.
LEMMA WithinPageKeeps ==
    ASSUME MigrationInv, Alive("migration"), script.step \in Working,
           UNCHANGED <<source, target, stopped>>,
           NEW s \in ScriptIn(Working),
           s.step = "count" <=> script.step = "count",
           s.step \in {"embed", "upsert"} => script.step \in {"embed", "upsert"},
           s.batchSize = script.batchSize, s.cursor = script.cursor,
           s.dryRun = script.dryRun, s.page = script.page,
           s.calm => script.calm /\ s.empties = 0,
           Proceed(s)
    PROVE  MigrationInv'
<1>1. CASE stopped
  BY <1>1, ExitKeeps DEF Proceed, migrationVars
<1>2. CASE ~stopped
  <2>1. script' = s /\ Stays
    BY <1>2 DEF Proceed
  <2>2. Covered' /\ Remaining' = Remaining /\ (script'.calm => InOrder' /\ script'.empties = 0)
        /\ script'.batchSize # 0
    BY <2>1 DEF Covered, Remaining, MigrationInv, InOrder, StalePoints
  <2>3. script'.step \in {"embed", "upsert"} => PageNext'
    BY <2>1, <2>2 DEF MigrationInv, PageNext, TextsPresent
  <2>4. QED
    BY <2>1, <2>2, <2>3, GoingOnKeeps, MigrationTyped DEF MigrationInv
<1>3. QED
  BY <1>1, <1>2

LEMMA StartKeeps ==
    ASSUME MigrationInv, NEW args \in Arguments, StartMigration(args)
    PROVE  MigrationInv'
<1> DEFINE s == [NoScript EXCEPT
                    !.step = IF ArgumentsOk(args) THEN "configure" ELSE "usage",
                    !.dryRun = args.dryRun,
                    !.batchSize = args.batchSize,
                    !.calm = StalePoints = {} /\ \A p \in Point : source[p] # "no text"]
<1>1. /\ script' = s /\ stopped' = FALSE /\ UNCHANGED <<source, target>>
      /\ program = "none" /\ program' = "migration" /\ exit' = exit
  BY DEF StartMigration, Launch
<1>2. args.batchSize \in Nat /\ args.dryRun \in BOOLEAN
  BY MigrationAssumption DEF Arguments
<1>3. ArgumentsOk(args) => args.batchSize # 0
  <2>1. ArgumentsOk(args) => args.batchSize \in 1..MAX_BATCH_SIZE
    BY Zenon DEF ArgumentsOk
  <2>2. 0 \notin 1..MAX_BATCH_SIZE
    BY DEF MAX_BATCH_SIZE
  <2>3. QED
    BY Zenon, <2>1, <2>2
<1>4. /\ s \in ScriptIn({"usage", "configure"}) /\ s.cursor = 0 /\ s.empties = 0
      /\ s.batchSize = args.batchSize /\ (s.step = "configure" => ArgumentsOk(args))
      /\ s.calm => InOrder
  BY <1>2 DEF NoScript, ScriptIn, InOrder
<1> HIDE DEF s
<1>5. s.step \in {"usage", "configure"} /\ s.step \notin Working
  BY <1>4 DEF ScriptIn, Working
<1>6. s \in ScriptIn(Working \cup {"none", "usage", "configure"})
  BY <1>4 DEF ScriptIn
<1>7. exit = "running" /\ MigrationTypeOK
  BY <1>1 DEF MigrationInv
<1>8. MigrationTypeOK'
  BY <1>1, <1>6, <1>7 DEF MigrationTypeOK
<1>9. InOrder' = InOrder
  BY <1>1 DEF InOrder, StalePoints
<1>10. QED
  BY <1>1, <1>3, <1>4, <1>5, <1>7, <1>8, <1>9
     DEF MigrationInv, RerunCompletes, Begun, Working

LEMMA ConfigureKeeps ==
    ASSUME MigrationInv, Configure
    PROVE  MigrationInv'
<1>1. Alive("migration") /\ script.step = "configure" /\ UNCHANGED <<source, target, stopped>>
  BY DEF Configure, At
<1>2. CASE Fail /\ UNCHANGED script
  BY <1>1, <1>2, ExitKeeps DEF Fail, Begun, migrationVars
<1>3. CASE /\ UNCHANGED <<program, exit>> /\ script' = [script EXCEPT !.step = "loop"]
  <2>1. /\ script' \in ScriptIn(Working) /\ script'.step = "loop" /\ script'.cursor = 0
        /\ script'.batchSize = script.batchSize /\ script'.dryRun = script.dryRun
        /\ script'.calm = script.calm /\ script'.empties = script.empties
    BY <1>1, <1>3, MigrationTyped DEF ScriptIn, Working, MigrationInv
  <2>2. Covered'
    <3>1. \A p \in Point : ~(p <= script'.cursor)
      BY <2>1, PointsFinite
    <3>2. QED
      BY <3>1 DEF Covered
  <2>3. MigrationTypeOK'
    BY <1>1, <1>3, <2>1 DEF MigrationInv, MigrationTypeOK, ScriptIn
  <2>4. InOrder' = InOrder
    BY <1>1 DEF InOrder, StalePoints
  <2>5. QED
    BY <1>1, <1>3, <2>1, <2>2, <2>3, <2>4 DEF MigrationInv, RerunCompletes, Alive, Working
<1>4. QED
  BY <1>2, <1>3 DEF Configure

LEMMA StepWithinKeeps ==
    ASSUME MigrationInv, NextScroll \/ EmptyPageArrives \/ PointEmbedded
    PROVE  MigrationInv'
<1>1. CASE NextScroll
  <2> DEFINE s == [script EXCEPT !.step = "scroll"]
  <2>1. /\ Alive("migration") /\ script.step = "loop" /\ UNCHANGED <<source, target, stopped>>
        /\ Proceed(s)
    BY <1>1 DEF NextScroll, At
  <2>2. /\ s \in ScriptIn(Working) /\ s.step = "scroll" /\ s.batchSize = script.batchSize
        /\ s.cursor = script.cursor /\ s.dryRun = script.dryRun /\ s.calm = script.calm
        /\ s.empties = script.empties /\ s.page = script.page
    BY MigrationTyped DEF ScriptIn, Working
  <2>3. (script.calm => script.empties = 0) /\ script.step \in Working
    BY <2>1 DEF MigrationInv, Working
  <2> HIDE DEF s
  <2>4. QED
    BY <2>1, <2>2, <2>3, WithinPageKeeps
<1>2. CASE EmptyPageArrives
  <2> DEFINE e == IF script.empties < MAX_EMPTY_PAGES THEN script.empties + 1 ELSE script.empties
             s == [script EXCEPT !.step = "loop", !.calm = FALSE, !.empties = e]
  <2>1. Alive("migration") /\ script.step = "scroll" /\ UNCHANGED <<source, target, stopped>>
    BY <1>2 DEF EmptyPageArrives, At
  <2>2. TooManyEmpties => ~script.calm
    BY DEF MigrationInv, TooManyEmpties, MAX_EMPTY_PAGES
  <2>3. CASE TooManyEmpties
    BY <1>2, <2>1, <2>2, <2>3, ExitKeeps DEF EmptyPageArrives, Fail, migrationVars
  <2>4. CASE ~TooManyEmpties
    <3>1. script' = s /\ Stays
      BY <1>2, <2>4 DEF EmptyPageArrives
    <3>2. e \in Nat
      BY MigrationTyped DEF ScriptIn, MAX_EMPTY_PAGES
    <3>3. /\ s \in ScriptIn(Working) /\ s.step = "loop" /\ s.batchSize = script.batchSize
          /\ s.cursor = script.cursor /\ s.dryRun = script.dryRun /\ s.calm = FALSE
          /\ s.page = script.page
      BY <3>2, MigrationTyped DEF ScriptIn, Working
    <3> HIDE DEF s
    <3>4. Covered' /\ script'.batchSize # 0
      BY <2>1, <3>1, <3>3 DEF Covered, MigrationInv, Working
    <3>5. QED
      BY <2>1, <3>1, <3>3, <3>4, GoingOnKeeps, MigrationTyped
  <2>5. QED
    BY <2>3, <2>4
<1>3. CASE PointEmbedded
  <2> DEFINE t == IF script.embedded + 1 = Cardinality(script.page) THEN "upsert" ELSE "embed"
             s == [script EXCEPT !.embedded = script.embedded + 1, !.step = t]
  <2>1. /\ Alive("migration") /\ script.step = "embed" /\ UNCHANGED <<source, target, stopped>>
        /\ Proceed(s)
    BY <1>3 DEF PointEmbedded, At
  <2>2. t \in {"embed", "upsert"} /\ script.embedded + 1 \in Nat
    BY MigrationTyped DEF ScriptIn
  <2> HIDE DEF t
  <2>3. /\ s \in ScriptIn(Working) /\ s.step = t /\ s.batchSize = script.batchSize
        /\ s.cursor = script.cursor /\ s.dryRun = script.dryRun /\ s.calm = script.calm
        /\ s.empties = script.empties /\ s.page = script.page
    BY <2>2, MigrationTyped DEF ScriptIn, Working
  <2>4. (script.calm => script.empties = 0) /\ script.step \in Working
    BY <2>1 DEF MigrationInv, Working
  <2> HIDE DEF s
  <2>5. QED
    BY <2>1, <2>2, <2>3, <2>4, WithinPageKeeps
<1>4. QED
  BY <1>1, <1>2, <1>3

LEMMA UpsertTyped ==
    ASSUME MigrationInv
    PROVE  /\ Upserted \in [Point -> Content]
           /\ \A p \in Point \ script.page : Upserted[p] = target[p]
           /\ \A p \in script.page : Upserted[p] = source[p]
  BY MigrationTyped DEF Upserted, ScriptIn

LEMMA UpsertKeeps ==
    ASSUME MigrationInv, PageUpserted
    PROVE  MigrationInv'
<1>1. /\ Alive("migration") /\ script.step = "upsert" /\ target' = Upserted
      /\ PageDone(script.page) /\ UNCHANGED <<source, stopped>> /\ script.step \in Working
  BY DEF PageUpserted, At, Working
<1>2. PageNext
  BY <1>1 DEF MigrationInv
<1>3. QED
  BY <1>1, <1>2, UpsertTyped, PageDoneKeeps DEF PageNext

\* At the counts of an undisturbed run nothing is missing and nothing is left over.
LEMMA CountsReadKeeps ==
    ASSUME MigrationInv, CountsRead
    PROVE  MigrationInv'
<1>1. Alive("migration") /\ script.step = "count" /\ UNCHANGED migrationVars
      /\ Exit(IF script.dryRun \/ CountsMatch THEN "0" ELSE "3")
  BY DEF CountsRead, At
<1>2. script.calm /\ ~script.dryRun => CountsMatch
  <2> SUFFICES ASSUME script.calm, ~script.dryRun
               PROVE  CountsMatch
    OBVIOUS
  <2>1. Covered /\ Remaining = {} /\ StalePoints = {}
    BY <1>1 DEF MigrationInv, InOrder, Working
  <2>2. script.cursor \in Nat
    BY MigrationTyped DEF ScriptIn
  <2>3. \A p \in Point : source[p] # "absent" => p <= script.cursor
    BY <2>1, <2>2, PointsFinite DEF Remaining
  <2>4. \A p \in Point : source[p] # "absent" <=> target[p] # "absent"
    BY <2>1, <2>3 DEF Covered, StalePoints
  <2>5. QED
    BY <2>4 DEF CountsMatch
<1>3. CASE script.dryRun \/ CountsMatch
  BY <1>1, <1>3, ExitKeeps
<1>4. CASE ~(script.dryRun \/ CountsMatch)
  BY <1>1, <1>2, <1>4, ExitKeeps
<1>5. QED
  BY <1>3, <1>4

\* A run broken off: the page in hand may have been written all the same.
LEMMA BrokenOffKeeps ==
    ASSUME MigrationInv, Alive("migration"), UNCHANGED <<source, stopped>>,
           script' = [script EXCEPT !.calm = FALSE],
           NEW code \in {"1", "killed"}, Exit(code),
           target' = target \/ (script.step = "upsert" /\ target' = Upserted)
    PROVE  MigrationInv'
<1>1. /\ program' = "migration" /\ exit' = code /\ program = "migration"
      /\ source' = source /\ stopped' = stopped
  BY DEF Alive, Exit
<1>2. /\ script' \in ScriptIn(Working \cup {"none", "usage", "configure"})
      /\ script'.step = script.step /\ script'.batchSize = script.batchSize
      /\ script'.cursor = script.cursor /\ script'.dryRun = script.dryRun
      /\ script'.calm = FALSE /\ script'.page = script.page
  BY MigrationTyped DEF ScriptIn
<1>3. MigrationTypeOK'
  BY <1>1, <1>2, UpsertTyped DEF MigrationInv, MigrationTypeOK
<1>4. Remaining' = Remaining /\ PageNext' = PageNext
  BY <1>1, <1>2 DEF Remaining, PageNext, TextsPresent
<1>5. Covered => Covered'
  <2>1. \A p \in Point : target'[p] = target[p] \/ target'[p] = source[p]
    BY UpsertTyped
  <2>2. QED
    BY <1>1, <1>2, <2>1 DEF Covered
<1>6. QED
  BY <1>1, <1>2, <1>3, <1>4, <1>5 DEF MigrationInv, RerunCompletes

LEMMA MigrationStepInv ==
    MigrationInv /\ [MigrationNext]_<<processVars, migrationVars>> => MigrationInv'
<1> SUFFICES ASSUME MigrationInv, [MigrationNext]_<<processVars, migrationVars>>
             PROVE  MigrationInv'
  OBVIOUS
<1>1. ASSUME NEW args \in Arguments, StartMigration(args) PROVE MigrationInv'
  BY <1>1, StartKeeps
<1>2. CASE ShowUsage
  BY <1>2, ExitKeeps DEF ShowUsage, At, Begun
<1>3. CASE Configure
  BY <1>3, ConfigureKeeps
<1>4. CASE NextScroll \/ EmptyPageArrives \/ PointEmbedded
  BY <1>4, StepWithinKeeps
<1>5. CASE PageArrives
  BY <1>5, PageArrivesKeeps
<1>6. CASE PageUpserted
  BY <1>6, UpsertKeeps
<1>7. CASE CountsRead
  BY <1>7, CountsReadKeeps
<1>8. CASE RequestFails
  BY <1>8, BrokenOffKeeps DEF RequestFails, At, Fail
<1>9. CASE EmbeddingAborted
  BY <1>9, ExitKeeps DEF EmbeddingAborted, At, Fail
<1>10. ASSUME NEW sig \in Signal, StopHeard(sig) PROVE MigrationInv'
  <2>1. UNCHANGED <<program, exit, source, target, script>> /\ stopped' = TRUE
        /\ exit = "running"
    BY <1>10 DEF StopHeard, Alive, Heard
  <2>2. Covered' = Covered /\ Remaining' = Remaining /\ PageNext' = PageNext
        /\ InOrder' = InOrder /\ CountsMatch' = CountsMatch
    BY <2>1 DEF Covered, Remaining, PageNext, TextsPresent, InOrder, StalePoints, CountsMatch
  <2>3. QED
    BY <2>1, <2>2 DEF MigrationInv, MigrationTypeOK, RerunCompletes
<1>11. CASE MigrationKilled
  BY <1>11, BrokenOffKeeps DEF MigrationKilled, Killed, At
<1>12. ASSUME NEW p \in Point, NEW text \in Text \cup {"no text", "absent"}, OwnerEdits(p, text)
       PROVE  MigrationInv'
  <2>1. /\ program = "none" /\ source' = [source EXCEPT ![p] = text]
        /\ UNCHANGED <<program, exit, target, script, stopped>>
    BY <1>12 DEF OwnerEdits, processVars
  <2>2. MigrationTypeOK'
    BY <2>1 DEF MigrationInv, MigrationTypeOK, Content
  <2>3. script.step = "none" /\ exit = "running" /\ script.calm = FALSE
    BY <2>1 DEF MigrationInv
  <2>4. QED
    BY <2>1, <2>2, <2>3 DEF MigrationInv, RerunCompletes, Working
<1>13. CASE MigrationReviewed
  <2>1. /\ program' = "none" /\ exit' = "running" /\ script' = NoScript /\ stopped' = FALSE
        /\ UNCHANGED <<source, target>>
    BY <1>13 DEF MigrationReviewed, Reviewed
  <2>2. /\ NoScript \in ScriptIn({"none"}) /\ NoScript.step = "none" /\ NoScript.calm = FALSE
    BY DEF NoScript, ScriptIn
  <2>3. MigrationTypeOK'
    BY <2>1, <2>2 DEF MigrationInv, MigrationTypeOK, ScriptIn
  <2>4. QED
    BY <2>1, <2>2, <2>3 DEF MigrationInv, RerunCompletes, Working
<1>14. CASE UNCHANGED <<processVars, migrationVars>>
  BY <1>14 DEF processVars, migrationVars, MigrationInv, MigrationTypeOK, Covered, PageNext,
       Remaining, TextsPresent, InOrder, StalePoints, CountsMatch, RerunCompletes, Begun
<1>15. QED
  BY <1>1, <1>2, <1>3, <1>4, <1>5, <1>6, <1>7, <1>8, <1>9, <1>10, <1>11, <1>12, <1>13, <1>14
     DEF MigrationNext, MigrationStep

LEMMA MigrationInitInv == ProcessInit /\ MigrationInit => MigrationInv
<1> SUFFICES ASSUME ProcessInit, MigrationInit
             PROVE  MigrationInv
  OBVIOUS
<1>1. NoScript \in ScriptIn({"none"}) /\ NoScript.step = "none" /\ NoScript.calm = FALSE
  BY DEF NoScript, ScriptIn
<1>2. MigrationTypeOK
  BY <1>1 DEF ProcessInit, MigrationInit, MigrationTypeOK, ScriptIn, Content
<1>3. QED
  BY <1>1, <1>2 DEF ProcessInit, MigrationInit, MigrationInv, RerunCompletes, Working

\* At the counts every point of the source has been found to have a text.
LEMMA TextsFound ==
    ASSUME MigrationInv, script.step = "count"
    PROVE  \A p \in Point : source[p] # "no text"
<1>1. Covered /\ Remaining = {}
  BY DEF MigrationInv, Working
<1>2. script.cursor \in Nat
  BY MigrationTyped DEF ScriptIn
<1>3. \A p \in Point : source[p] # "absent" => p <= script.cursor
  BY <1>1, <1>2, PointsFinite DEF Remaining
<1>4. QED
  BY <1>1, <1>3 DEF Covered

\* Exit code 0 of a real run: equal counts are enough, because every point of the
\* source has been covered and a finite set has no proper subset of its size.
THEOREM SuccessExact == MigrationSpec => []SuccessIsExact
<1>1. MigrationInv => SuccessIsExact
  <2> SUFFICES ASSUME MigrationInv, exit = "0", script.step = "count", ~script.dryRun
               PROVE  target = source
    BY DEF SuccessIsExact
  <2> DEFINE present == {p \in Point : source[p] # "absent"}
             written == {p \in Point : target[p] # "absent"}
  <2>1. Covered /\ Remaining = {} /\ Cardinality(present) = Cardinality(written)
    BY DEF MigrationInv, Working, CountsMatch
  <2>2. script.cursor \in Nat
    BY MigrationTyped DEF ScriptIn
  <2>3. \A p \in present : target[p] = source[p]
    <3>1. \A p \in present : p <= script.cursor
      BY <2>1, <2>2, PointsFinite DEF Remaining
    <3>2. QED
      BY <2>1, <3>1 DEF Covered
  <2>4. present \subseteq written /\ written \subseteq Point
    BY <2>3
  <2>5. IsFiniteSet(written)
    BY <2>4, PointsFinite, FS_Subset
  <2>6. present = written
    BY <2>1, <2>4, <2>5, FS_Subset
  <2>7. \A p \in Point : target[p] = source[p]
    BY <2>3, <2>6
  <2>8. QED
    BY <2>7, MigrationTyped
<1>2. QED
  BY <1>1, MigrationInitInv, MigrationStepInv, PTL DEF MigrationSpec

\* A run that nothing disturbs ends with exit code 0, whatever an earlier run left
\* half filled.
THEOREM RerunsComplete == MigrationSpec => []RerunCompletes
<1>1. MigrationInv => RerunCompletes
  BY DEF MigrationInv
<1>2. QED
  BY <1>1, MigrationInitInv, MigrationStepInv, PTL DEF MigrationSpec

\* A dry run writes nothing, and exits with 0 only if the real run would find a text
\* in every point.
THEOREM DryRunIsHonest == MigrationSpec => DryRunHonest
<1> DEFINE Honest ==
        script.dryRun /\ Alive("migration") =>
           /\ target' = target
           /\ exit' = "0" /\ script.step = "count" => \A p \in Point : source[p] # "no text"
<1>1. MigrationInv /\ [MigrationNext]_<<processVars, migrationVars>>
        => [Honest]_<<processVars, migrationVars>>
  <2> SUFFICES ASSUME MigrationInv, MigrationNext, script.dryRun, Alive("migration")
               PROVE  /\ target' = target
                      /\ exit' = "0" /\ script.step = "count"
                           => \A p \in Point : source[p] # "no text"
    OBVIOUS
  <2>1. script.step # "upsert"
    BY DEF MigrationInv, PageNext
  <2>2. target' = target
    BY <2>1 DEF MigrationNext, MigrationStep, StartMigration, ShowUsage, Configure, NextScroll,
         PageArrives, EmptyPageArrives, PointEmbedded, PageUpserted, CountsRead, RequestFails,
         EmbeddingAborted, StopHeard, MigrationKilled, OwnerEdits, MigrationReviewed,
         migrationVars, At, Alive
  <2>3. script.step = "count" => \A p \in Point : source[p] # "no text"
    BY TextsFound
  <2>4. QED
    BY <2>2, <2>3
<1>2. QED
  BY <1>1, MigrationInitInv, MigrationStepInv, PTL DEF MigrationSpec, DryRunHonest
================================================================================

------------------------------ MODULE ToolCall ------------------------------
(***************************************************************************)
(* One call of an outbound tool under withTimeout (timeouts.ts): a timer   *)
(* aborts the call's signal at the route's limit, and whatever the call is *)
(* awaiting at that moment rejects.  The timer answers nothing by itself:  *)
(* a call ends only when the function it runs returns or throws.           *)
(*                                                                         *)
(* The modules of the single tools extend this one with what they await.   *)
(* Timers are prompt: the clock stands still while one is due.             *)
(***************************************************************************)
EXTENDS Integers

VARIABLES
    tool,      \* the tool called
    call,      \* "idle", "running" or "answered"
    limit,     \* timeoutMs of the route, in clock units
    elapsed,   \* time since the call began, held at limit
    aborted,   \* controller.signal.aborted
    answer     \* what the call returned or threw

callVars == <<tool, call, limit, elapsed, aborted, answer>>

CallInit ==
    /\ tool = "none" /\ call = "idle"
    /\ limit = 0 /\ elapsed = 0
    /\ aborted = FALSE
    /\ answer = << >>

Running == call = "running"

\* The timer of withTimeout is set.
Begin(name, timeout) ==
    /\ call = "idle"
    /\ call' = "running"
    /\ tool' = name
    /\ limit' = timeout
    /\ UNCHANGED <<elapsed, aborted, answer>>

\* Time passes; timerDue says that a shorter timer of the call waits to run.
Pass(timerDue) ==
    /\ Running
    /\ elapsed < limit /\ ~timerDue
    /\ elapsed' = elapsed + 1
    /\ UNCHANGED <<tool, call, limit, aborted, answer>>

\* controller.abort()
FireTimer ==
    /\ Running
    /\ elapsed = limit /\ ~aborted
    /\ aborted' = TRUE
    /\ UNCHANGED <<tool, call, limit, elapsed, answer>>

\* The function returned or threw; finally clears the timer.
Settle(a) ==
    /\ Running
    /\ call' = "answered"
    /\ answer' = a
    /\ UNCHANGED <<tool, limit, elapsed, aborted>>

\* mapUpstreamError: what an error that is no AppError becomes.
UpstreamCode == IF aborted THEN "TIMEOUT" ELSE "UPSTREAM_ERROR"
=============================================================================

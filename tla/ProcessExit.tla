------------------------------ MODULE ProcessExit ------------------------------
(***************************************************************************)
(* A process of the repository, the server (server.ts) or the migration    *)
(* script (scripts/migrate-embeddings.ts), as its operator sees it: it     *)
(* hears SIGINT and SIGTERM and ends with an exit code.                    *)
(*                                                                         *)
(* Both programs listen with process.once, each signal with a listener of  *)
(* its own: the first of a kind runs the program's handler, the next of    *)
(* that kind meets no listener and ends the process on the spot.           *)
(***************************************************************************)
EXTENDS Integers

VARIABLES
    program,    \* the program that runs or ran last
    handled,    \* signals that have a listener
    exit        \* what ended it, or "running"

processVars == <<program, handled, exit>>

Signal == {"SIGINT", "SIGTERM"}

ProcessInit ==
    /\ program = "none"
    /\ handled = {}
    /\ exit = "running"

Alive(name) == program = name /\ exit = "running"

Launch(name) ==
    /\ program = "none"
    /\ program' = name
    /\ UNCHANGED <<handled, exit>>

\* A signal is heard: its listener is gone.
Heard(s) ==
    /\ s \in handled
    /\ handled' = handled \ {s}
    /\ UNCHANGED <<program, exit>>

\* process.exit(code), or the end of main: code 0.
Exit(code) ==
    /\ exit' = code
    /\ handled' = {}
    /\ UNCHANGED program

\* A signal without a listener; also SIGKILL and a crash.
Killed == Exit("killed")

Stays == UNCHANGED processVars

\* The operator looks at the exit code and may launch a program again.
Reviewed ==
    /\ exit # "running"
    /\ program' = "none"
    /\ exit' = "running"
    /\ UNCHANGED handled
=============================================================================

------------------------------- MODULE MCProcess -------------------------------
(***************************************************************************)
(* The server and the migration script under the operator's signals, for   *)
(* TLC: one of them runs at a time, as the migration requires, and the     *)
(* variables of the other stand still.                                     *)
(***************************************************************************)
EXTENDS ServerLifecycle, Migration

ProcessesInit == ProcessInit /\ ServerInit /\ MigrationInit

\* The server's life reads nothing of the collections: one state of them will do.
NothingMigrated == \A p \in Point : source[p] = "absent" /\ target[p] = "absent"

ProcessesNext ==
    \/ ServerNext /\ NothingMigrated /\ UNCHANGED migrationVars
    \/ MigrationNext /\ UNCHANGED serverVars

ProcessesSpec ==
    /\ ProcessesInit /\ [][ProcessesNext]_<<processVars, serverVars, migrationVars>>
    /\ ServerFairness /\ MigrationFairness

\* A signal leads to the end of the server although a request, a hook or a client
\* may hang for ever (the forced exit), and every migration ends, also when the
\* scroll's cursor advances over nothing for ever (MAX_EMPTY_PAGES).
ProcessesEnd ==
    /\ Up /\ closing # "no" ~> ~Up
    /\ program = "migration" ~> exit # "running"
=============================================================================

---------------------------- MODULE MCRequestState ----------------------------
(***************************************************************************)
(* What requests do to state that outlives them, for TLC: the counters of  *)
(* the authentication, the tabs of a session, the points of the store.     *)
(* The three share no state, so their state spaces are added, not          *)
(* multiplied: while one runs, the others stand still in an initial state. *)
(*                                                                         *)
(* Of the store: two points of one user and one of another, which lies     *)
(* between them in the order of the point ids.                             *)
(***************************************************************************)
EXTENDS AuthGate, BrowserTabs, MemoryStore, TLC

CONSTANTS
    u1, u2, j1, j2, j3, t1,   \* AuthGate
    alice, bob, i1, i2        \* MemoryStore

\* j1 may call tools, j2 lacks the scope, j3 claims to be another user's.
MCClaims == [j \in Jwt |-> [sub |-> IF j = j3 THEN u2 ELSE u1, mcp |-> j # j2]]
MCRevocations == {{}, {t1, j1}}

MCKey == {<<alice, i1>>, <<alice, i2>>, <<bob, i1>>}
MCPosition == (<<alice, i1>> :> 1) @@ (<<bob, i1>> :> 2) @@ (<<alice, i2>> :> 3)

Symmetry == Permutations(Call) \cup Permutations(Pending)

VARIABLE subject   \* the one of the three that runs

stateVars == <<subject, gateVars, tabVars, storeVars>>

\* The others stand still in one initial state.
StateInit ==
    /\ subject \in {"gate", "tabs", "store"}
    /\ GateInit /\ TabsInit /\ StoreInit
    /\ subject # "gate" => revoked = {} /\ tokens[t1] = u1
    /\ subject # "tabs" => pages[1] = CHOOSE p \in PageId : TRUE
    /\ subject # "store" => \A k \in Key : points[k] # None

StateNext ==
    /\ UNCHANGED subject
    /\ \/ subject = "gate" /\ GateNext /\ UNCHANGED <<tabVars, storeVars>>
       \/ subject = "tabs" /\ TabsNext /\ UNCHANGED <<gateVars, storeVars>>
       \/ subject = "store" /\ StoreNext /\ UNCHANGED <<gateVars, tabVars>>

StateSpec == StateInit /\ [][StateNext]_stateVars
=============================================================================

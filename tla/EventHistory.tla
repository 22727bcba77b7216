----------------------------- MODULE EventHistory -----------------------------
(***************************************************************************)
(* What the rate limiters let through lately, for their history variables: *)
(* a set of events, each its age and a number that tells it from others of *)
(* the same age.                                                           *)
(***************************************************************************)
EXTENDS Integers, FiniteSets

Older(p, q) == p[1] > q[1] \/ (p[1] = q[1] /\ p[2] > q[2])

Oldest(past) == CHOOSE p \in past : \A q \in past \ {p} : Older(p, q)

\* One event more, now.  Of more than `limit`, the oldest is forgotten.
Recorded(past, limit) ==
    LET kept == IF Cardinality(past) < limit THEN past ELSE past \ {Oldest(past)}
        n    == CHOOSE k \in 1..limit : <<0, k>> \notin kept
    IN  kept \cup {<<0, n>>}

\* Time passes: what is as old as the window is forgotten.
Elder(past, window) ==
    {<<r[1] + 1, r[2]>> : r \in {q \in past : q[1] + 1 < window}}
=============================================================================

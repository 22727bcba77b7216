--------------------------- MODULE GrantLifecycle ---------------------------
(***************************************************************************)
(* What the OAuth grant store promises a resource owner, without tables,   *)
(* clocks, credentials or crashes: a grant is offered as a code, becomes   *)
(* active by one redemption, is then carried by exactly one bearer token   *)
(* at a time, and once ended never carries a token again.                  *)
(***************************************************************************)
CONSTANTS
    Grant,
    Bearer,      \* tokens that may carry a grant
    NoBearer     \* a value that is no token

VARIABLES
    stage,    \* stage of each grant
    bearer,   \* the one token that can use an active grant
    spent     \* tokens that have ever been a grant's bearer

grantVars == <<stage, bearer, spent>>

LifecycleTypeOK ==
    /\ stage \in [Grant -> {"free", "offered", "active", "ended"}]
    /\ bearer \in [Grant -> Bearer \cup {NoBearer}]
    /\ spent \in SUBSET Bearer

LifecycleInit ==
    /\ stage = [g \in Grant |-> "free"]
    /\ bearer = [g \in Grant |-> NoBearer]
    /\ spent = {}

Offer(g) ==
    /\ stage[g] = "free"
    /\ stage' = [stage EXCEPT ![g] = "offered"]
    /\ UNCHANGED <<bearer, spent>>

Redeem(g, t) ==
    /\ stage[g] = "offered"
    /\ t \notin spent
    /\ stage' = [stage EXCEPT ![g] = "active"]
    /\ bearer' = [bearer EXCEPT ![g] = t]
    /\ spent' = spent \cup {t}

\* The previous bearer stops working in the same step.
Renew(g, t) ==
    /\ stage[g] = "active"
    /\ t \notin spent
    /\ bearer' = [bearer EXCEPT ![g] = t]
    /\ spent' = spent \cup {t}
    /\ UNCHANGED stage

\* Expiry, replay and withdrawn credentials take any set of grants at once: an
\* unredeemed offer lapses, an active grant ends for good.
Withdraw(G) ==
    /\ \A g \in G : stage[g] \in {"offered", "active"}
    /\ stage' = [g \in Grant |-> IF g \notin G THEN stage[g]
                                 ELSE IF stage[g] = "offered" THEN "free" ELSE "ended"]
    /\ bearer' = [g \in Grant |-> IF g \in G THEN NoBearer ELSE bearer[g]]
    /\ UNCHANGED spent

LifecycleNext ==
    \/ \E g \in Grant : Offer(g)
    \/ \E g \in Grant, t \in Bearer : Redeem(g, t) \/ Renew(g, t)
    \/ \E G \in SUBSET Grant : Withdraw(G)

LifecycleSpec == LifecycleInit /\ [][LifecycleNext]_grantVars

\* A grant has a bearer exactly while it is active, no token carries two, and a
\* token that ever was a bearer is on record as spent.
OneBearerPerGrant ==
    /\ \A g \in Grant : stage[g] = "active" <=> bearer[g] # NoBearer
    /\ \A g, h \in Grant : bearer[g] = bearer[h] /\ bearer[g] # NoBearer => g = h
    /\ \A g \in Grant : bearer[g] # NoBearer => bearer[g] \in spent

\* An ended grant stays ended, and a token replaced as its grant's bearer never
\* becomes the bearer of a grant again.
EndedForGood ==
    [][/\ \A g \in Grant : stage[g] = "ended" => stage'[g] = "ended"
       /\ \A g \in Grant : bearer'[g] \in spent => bearer'[g] = bearer[g]]_grantVars
=============================================================================

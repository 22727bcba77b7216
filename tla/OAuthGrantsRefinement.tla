------------------------ MODULE OAuthGrantsRefinement ------------------------
(***************************************************************************)
(* The refinement mapping from the grant store to GrantLifecycle: a grant  *)
(* is named by its code, offered while the code is stored, active while an *)
(* unrotated refresh token of its family is, and ended when it has been    *)
(* redeemed and no such token is left.                                     *)
(***************************************************************************)
EXTENDS OAuthGrants

Bearers(k) == {r.id : r \in {q \in refresh : q.rotatedTo = Null /\ familyOf[q.id] = k}}
Redeemed(k) == \E t \in RefreshId : familyOf[t] = k

stageOf == [k \in CodeId |->
              IF \E r \in codes : r.id = k THEN "offered"
              ELSE IF Bearers(k) # {} THEN "active"
              ELSE IF Redeemed(k) THEN "ended"
              ELSE "free"]

BearerAmong(tokens) == IF tokens = {} THEN Null ELSE CHOOSE t \in tokens : TRUE

bearerOf == [k \in CodeId |-> BearerAmong(Bearers(k))]

Lifecycle == INSTANCE GrantLifecycle
    WITH Grant <- CodeId, Bearer <- RefreshId, NoBearer <- Null,
         stage <- stageOf, bearer <- bearerOf,
         spent <- {t \in RefreshId : familyOf[t] # Null}

\* Every step of the handlers, of boot, of the sweep and of a crash is a step
\* of the lifecycle or leaves every grant as it was.
ImplementsLifecycle == Lifecycle!LifecycleSpec
=============================================================================

------------------------ MODULE GrantLifecycleProofs ------------------------
(***************************************************************************)
(* What every implementation of GrantLifecycle inherits, for any sets of   *)
(* grants and bearer tokens.  The conjunct about spent tokens makes        *)
(* OneBearerPerGrant inductive: a new bearer is none of the current ones   *)
(* because it was never spent.                                             *)
(***************************************************************************)
EXTENDS GrantLifecycle, TLAPS

LifecycleInv == LifecycleTypeOK /\ OneBearerPerGrant

LEMMA LifecycleInitInv ==
  ASSUME NoBearer \notin Bearer, LifecycleInit PROVE LifecycleInv
  BY DEF LifecycleInit, LifecycleInv, LifecycleTypeOK, OneBearerPerGrant

LEMMA LifecycleStepInv ==
  ASSUME NoBearer \notin Bearer, LifecycleInv, [LifecycleNext]_grantVars
  PROVE  LifecycleInv'
  <1> USE DEF LifecycleInv, LifecycleTypeOK, OneBearerPerGrant
  <1>1. ASSUME NEW g \in Grant, Offer(g) PROVE LifecycleInv'
    BY <1>1 DEF Offer
  <1>2. ASSUME NEW g \in Grant, NEW t \in Bearer, Redeem(g, t) PROVE LifecycleInv'
    BY <1>2 DEF Redeem
  <1>3. ASSUME NEW g \in Grant, NEW t \in Bearer, Renew(g, t) PROVE LifecycleInv'
    BY <1>3 DEF Renew
  <1>4. ASSUME NEW G \in SUBSET Grant, Withdraw(G) PROVE LifecycleInv'
    BY <1>4 DEF Withdraw
  <1>5. CASE UNCHANGED grantVars
    BY <1>5 DEF grantVars
  <1> QED
    BY <1>1, <1>2, <1>3, <1>4, <1>5 DEF LifecycleNext

\* An active grant is carried by exactly one token and a token carries one grant.
THEOREM OneBearer ==
  ASSUME NoBearer \notin Bearer PROVE LifecycleSpec => []OneBearerPerGrant
  <1>1. LifecycleInv => OneBearerPerGrant
    BY DEF LifecycleInv
  <1>2. LifecycleInit => LifecycleInv
    BY LifecycleInitInv
  <1>3. LifecycleInv /\ [LifecycleNext]_grantVars => LifecycleInv'
    BY LifecycleStepInv
  <1> QED
    BY <1>1, <1>2, <1>3, PTL DEF LifecycleSpec

\* Ended grants stay ended, and a replaced bearer never works again.
THEOREM EndsForGood ==
  ASSUME NoBearer \notin Bearer PROVE LifecycleSpec => EndedForGood
  <1> DEFINE Final == /\ \A g \in Grant : stage[g] = "ended" => stage'[g] = "ended"
                      /\ \A g \in Grant : bearer'[g] \in spent => bearer'[g] = bearer[g]
  <1>1. LifecycleInv /\ [LifecycleNext]_grantVars => [Final]_grantVars
    <2> SUFFICES ASSUME LifecycleInv, LifecycleNext PROVE Final
      BY DEF grantVars
    <2> USE DEF LifecycleInv, LifecycleTypeOK, OneBearerPerGrant
    <2>1. ASSUME NEW g \in Grant, Offer(g) PROVE Final
      BY <2>1 DEF Offer
    <2>2. ASSUME NEW g \in Grant, NEW t \in Bearer, Redeem(g, t) PROVE Final
      BY <2>2 DEF Redeem
    <2>3. ASSUME NEW g \in Grant, NEW t \in Bearer, Renew(g, t) PROVE Final
      BY <2>3 DEF Renew
    <2>4. ASSUME NEW G \in SUBSET Grant, Withdraw(G) PROVE Final
      BY <2>4 DEF Withdraw
    <2> QED
      BY <2>1, <2>2, <2>3, <2>4 DEF LifecycleNext
  <1>2. LifecycleInit => LifecycleInv
    BY LifecycleInitInv
  <1>3. LifecycleInv /\ [LifecycleNext]_grantVars => LifecycleInv'
    BY LifecycleStepInv
  <1> QED
    BY <1>1, <1>2, <1>3, PTL DEF LifecycleSpec, EndedForGood
=============================================================================

-------------------------- MODULE MCOAuthRevocation --------------------------
(***************************************************************************)
(* OAuthGrants for withdrawn credentials: one user with two static tokens  *)
(* and one with a single token, so that a boot may withdraw one of two,    *)
(* another user's, or none.                                                *)
(***************************************************************************)
EXTENDS OAuthGrants, TLC

CONSTANTS alice, bob, a1, a2, b1

MCOwner == (a1 :> alice) @@ (a2 :> alice) @@ (b1 :> bob)
=============================================================================

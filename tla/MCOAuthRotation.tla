--------------------------- MODULE MCOAuthRotation ---------------------------
(***************************************************************************)
(* OAuthGrants for rotation and replay, and against GrantLifecycle: one    *)
(* user and one static token, two clients, two codes and three refresh     *)
(* tokens, so that two grants of one (user, client) pair, two grants of    *)
(* different clients, and a chain of three tokens all occur.               *)
(***************************************************************************)
EXTENDS OAuthGrantsRefinement, TLC

CONSTANTS alice, a1

MCOwner == a1 :> alice

Symmetry == Permutations(CodeId) \cup Permutations(RefreshId) \cup Permutations(Client)
=============================================================================

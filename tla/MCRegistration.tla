---------------------------- MODULE MCRegistration ----------------------------
(***************************************************************************)
(* ClientRegistration for TLC: enough clients to use up one window of an   *)
(* address and open the next, one of them possibly older than the cutover. *)
(***************************************************************************)
EXTENDS ClientRegistration, TLC

Symmetry == Permutations(Client) \cup Permutations(PolicyUri)
=============================================================================

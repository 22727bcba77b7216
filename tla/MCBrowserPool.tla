---------------------------- MODULE MCBrowserPool ----------------------------
(***************************************************************************)
(* BrowserPool for TLC.  Calls, users and browsers are interchangeable in  *)
(* every safety property, so the safety runs use symmetry.                 *)
(***************************************************************************)
EXTENDS BrowserPool, TLC

Symmetry == Permutations(Call) \cup Permutations(User) \cup Permutations(BrowserId)
=============================================================================

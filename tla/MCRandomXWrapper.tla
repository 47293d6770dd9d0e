-------------------------- MODULE MCRandomXWrapper --------------------------
(* Two wrappers and six addresses: enough for both to be initialised and   *)
(* for one to reuse what the other released.                               *)
EXTENDS RandomXWrapper, TLC

Symmetric == Permutations(Wrappers)
=============================================================================

--------------------------- MODULE MCRouterCache ---------------------------
(***************************************************************************)
(* Instances of RouterCache for TLC.                                       *)
(***************************************************************************)
EXTENDS RouterCache, TLC

Symmetric == Permutations(Calls)
=============================================================================

-------------------------- MODULE MCLRURefinement --------------------------
(***************************************************************************)
(* LRURefinement on small regions; see MCLRUCache for the pairs.  Values   *)
(* are only stored and returned, so that any two may be exchanged.         *)
(***************************************************************************)
EXTENDS LRURefinement, TLC

ThreePairs == { <<0, 1>>, <<1, 0>>, <<1, 1>> }

AnyTwoValues == Permutations(Values)
=============================================================================

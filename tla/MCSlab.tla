------------------------------- MODULE MCSlab -------------------------------
(***************************************************************************)
(* Slab on a table of five slots and neighbourhoods of two.                *)
(***************************************************************************)
EXTENDS Slab

(* Three hashes with one home, so that a store hops or is refused, and one *)
(* two slots further, so that it hops and is then refused.                 *)
FourPairs == { <<5, 1>>, <<10, 2>>, <<7, 3>>, <<15, 4>> }
OnePair == { <<5, 1>> }

(* Whichever call stores a pair, its home and its key word are no other    *)
(* pair's: what the theorems about Slab assume holds of this instance.     *)
ASSUME InstanceApart == KeysApart
=============================================================================

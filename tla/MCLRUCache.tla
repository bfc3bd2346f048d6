---------------------------- MODULE MCLRUCache ----------------------------
(***************************************************************************)
(* LRUCache on small regions.  The caller's pairs are closed under the     *)
(* swap of hash and index, so that set_el and set_many meet on the same    *)
(* keys; MCLRURefinement adds the pair whose key is UINT64_MAX, the _hash  *)
(* of a deleted element.                                                   *)
(***************************************************************************)
EXTENDS LRUCache

TwoPairs == { <<0, 1>>, <<1, 0>> }
=============================================================================

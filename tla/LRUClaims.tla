------------------------------ MODULE LRUClaims ------------------------------
(***************************************************************************)
(* What the documentation and the comments say of an LRU segment and the   *)
(* code does not do.  Each property is expected to be violated.            *)
(***************************************************************************)
EXTENDS LRUCache

TwoPairs == { <<0, 1>>, <<1, 0>> }

(* node_shm_LRU.h:351-353 recognises an element that is "already deleted"  *)
(* and leaves it alone.  The test compares the 64-bit _hash, UINT64_MAX in *)
(* a deleted element, with UINT32_MAX: a second del_el links the element   *)
(* into the free list twice.                                               *)
SecondDeleteRefused ==
  [][ \A s \in FreeOf(links) : data[s] # NIL /\ DelEl(s) => UNCHANGED links ]_vars

(* readme.md:163: get_el_hash returns the value previously stored with the *)
(* same hash and index.  set_el and get_el_hash put the two words together *)
(* in opposite orders.                                                     *)
FoundAfterSet ==
  [][ \A p \in Pairs, v \in Values :
        SetEl(p, v) /\ table'[SetKey(p)] # NIL => table'[GetKey(p)] # NIL ]_vars
=============================================================================

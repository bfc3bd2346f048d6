------------------------------ MODULE LRULinks ------------------------------
(***************************************************************************)
(* The link words of a shared LRU region: the _prev and _next of every     *)
(* LRU_element, and what LRU_cache (src/node_shm_LRU.h) writes into them.  *)
(*                                                                         *)
(* A slot is a byte offset divided by _step.  The first three slots are    *)
(* control elements: the header and the tail of the allocated list, which  *)
(* is doubly linked and runs from the most to the least recently used      *)
(* element, and the head of the free list, which is singly linked.  A      *)
(* free element is recognised by its _prev, UINT32_MAX.                    *)
(*                                                                         *)
(* The operators are pure: the state machines that own a region apply      *)
(* them to its current links.  An assignment through the address           *)
(* start + UINT32_MAX lands outside the region, as EXCEPT outside the      *)
(* domain of a function does.                                              *)
(***************************************************************************)
EXTENDS Integers, FiniteSets

CONSTANTS
  RegionSize,   \* region_size, the bytes given to the LRU_cache
  Step          \* _step, sizeof(LRU_element) + record_size

(* The constructor refuses a region of at most four elements.              *)
ASSUME RegionAssumption ==
  /\ Step \in Nat \ {0}
  /\ RegionSize \in Nat
  /\ 4 * Step < RegionSize

NIL == -1          \* UINT32_MAX

CtrlHdr  == 0
CtrlTail == 1
CtrlFree == 2

(* The elements setup_region threads: every one that STARTS in the region. *)
Elements == { s \in 3 .. RegionSize : s * Step < RegionSize }

Slots == {CtrlHdr, CtrlTail, CtrlFree} \cup Elements

(* The capacity the constructor computes from the whole elements only.     *)
WholeCount == (RegionSize \div Step) - 3

Links == [ next : [Slots -> Slots \cup {NIL}],
           prev : [Slots -> Slots \cup {NIL}] ]

-----------------------------------------------------------------------------
(* What the code writes.                                                   *)

SetupLinks ==
  [ next |-> [ s \in Slots |-> CASE s = CtrlHdr  -> CtrlTail
                                 [] s = CtrlTail -> NIL
                                 [] OTHER -> IF s + 1 \in Elements THEN s + 1 ELSE NIL ],
    prev |-> [ s \in Slots |-> IF s = CtrlTail THEN CtrlHdr ELSE NIL ] ]

(* prev->_next = next_off; next->_prev = prev_off                          *)
Unlink(L, s) ==
  [ next |-> [ L.next EXCEPT ![L.prev[s]] = L.next[s] ],
    prev |-> [ L.prev EXCEPT ![L.next[s]] = L.prev[s] ] ]

(* Insert s between the header and the element that was first.             *)
PushFront(L, s) ==
  LET first == L.next[CtrlHdr]
  IN  [ next |-> [ L.next EXCEPT ![s] = first, ![CtrlHdr] = s ],
        prev |-> [ L.prev EXCEPT ![first] = s, ![s] = CtrlHdr ] ]

(* Fault: the rest of the free list is dropped with its first element.     *)
TakeFreeAll(L) ==
  [ next |-> [ L.next EXCEPT ![CtrlFree] = NIL ], prev |-> L.prev ]

(* ctrl_free->_next = new_el->_next                                        *)
TakeFree(L) ==
  [ next |-> [ L.next EXCEPT ![CtrlFree] = L.next[L.next[CtrlFree]] ],
    prev |-> L.prev ]

(* Fault: a freed element keeps the _prev that marks it as allocated.      *)
PutFreeUnmarked(L, s) ==
  [ next |-> [ L.next EXCEPT ![s] = L.next[CtrlFree], ![CtrlFree] = s ],
    prev |-> L.prev ]

PutFree(L, s) ==
  [ next |-> [ L.next EXCEPT ![s] = L.next[CtrlFree], ![CtrlFree] = s ],
    prev |-> [ L.prev EXCEPT ![s] = NIL ] ]

(* Fault: a used element stays where it is in the list.                    *)
TouchLinksInPlace(L, s) == L

AddLinks(L)      == PushFront(TakeFree(L), L.next[CtrlFree])
TouchLinks(L, s) == PushFront(Unlink(L, s), s)
DelLinks(L, s)   == PutFree(Unlink(L, s), s)

-----------------------------------------------------------------------------
(* What a region means.                                                    *)

Allocated(L) == { s \in Elements : L.prev[s] # NIL }
FreeOf(L)    == { s \in Elements : L.prev[s] = NIL }

(* The slots met by following f from a control element, as long as they    *)
(* are elements; one more than there are elements when f runs in a circle. *)
Trail(f, from) ==
  LET at[n \in Nat] == IF n = 0 THEN f[from]
                       ELSE LET p == at[n - 1]
                            IN  IF p \in Elements THEN f[p] ELSE p
      len == Cardinality({ n \in 0 .. Cardinality(Elements) : at[n] \in Elements })
  IN  [ n \in 1 .. len |-> at[n - 1] ]

Forward(L)   == Trail(L.next, CtrlHdr)
Backward(L)  == Trail(L.prev, CtrlTail)
FreeTrail(L) == Trail(L.next, CtrlFree)

(* A is the list: each neighbour of one of its elements points back at it. *)
ListOver(L, A) ==
  /\ L.prev[CtrlHdr] = NIL /\ L.next[CtrlTail] = NIL
  /\ \A s \in A \cup {CtrlHdr} :
       L.next[s] \in A \cup {CtrlTail} /\ L.prev[L.next[s]] = s
  /\ \A s \in A \cup {CtrlTail} :
       L.prev[s] \in A \cup {CtrlHdr} /\ L.next[L.prev[s]] = s

(* The free list stays in F, and no two of its links meet.                 *)
FreeOver(L, F) ==
  /\ \A s \in F \cup {CtrlFree} : L.next[s] \in F \cup {NIL}
  /\ \A s, t \in F \cup {CtrlFree} :
       L.next[s] = L.next[t] /\ L.next[s] # NIL => s = t

LinksOK(L) ==
  /\ L \in Links
  /\ ListOver(L, Allocated(L))
  /\ FreeOver(L, FreeOf(L))
=============================================================================

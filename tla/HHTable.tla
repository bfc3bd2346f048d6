------------------------------- MODULE HHTable -------------------------------
(***************************************************************************)
(* The hopscotch table of HH_map (src/node_shm_HH.h): N value slots and,   *)
(* for each of them as a home bucket, the set of distances at which its    *)
(* own entries lie.  An entry is a value, never 0 (the offset of an LRU    *)
(* element), and the 32-bit key it is compared by; a slot is free when     *)
(* both words are 0.                                                       *)
(*                                                                         *)
(* The operators are pure: one per private method of HH_map.               *)
(***************************************************************************)
EXTENDS Integers, FiniteSets

CONSTANTS
  N,         \* _max_n, the number of slots
  K,         \* _neighbor, the width of a neighbourhood: 32 in every table
  MaxWord    \* UINT32_MAX

ASSUME TableAssumption ==
  /\ N \in Nat \ {0} /\ K \in Nat \ {0}
  /\ MaxWord \in Nat /\ 2 * N <= MaxWord + 1

Word == 0 .. MaxWord
Slot == 0 .. N - 1
Distance == 0 .. K - 1
NoDistance == -1          \* UINT32_MAX

Entry == [val : Word, key : Word]
FreeSlot == [val |-> 0, key |-> 0]

Tables == [ H : [Slot -> SUBSET Distance], V : [Slot -> Entry], count : 0 .. N ]

EmptyTable ==
  [ H |-> [ s \in Slot |-> {} ], V |-> [ s \in Slot |-> FreeSlot ], count |-> 0 ]

Least(S) == CHOOSE i \in S : \A j \in S : i <= j
Greatest(S) == CHOOSE i \in S : \A j \in S : i >= j

(* The macro MOD subtracts once: the remainder of numbers below 2N only.   *)
MOD(x) == IF x < N THEN x ELSE x - N

Home(b) == b % N
SlotAt(h, d) == MOD(h + d)
Occupied(T) == { s \in Slot : T.V[s] # FreeSlot }

-----------------------------------------------------------------------------
(* Looking up.  get_val_at_hh_hash adds the distance to the unreduced      *)
(* 32-bit bucket, so that the sum may wrap around.                         *)

EntryAt(T, b, d) == T.V[((b + d) % (MaxWord + 1)) % N]

(* The distance of the entry hunt_hash_set stops at.                       *)
Hunt(T, b, k) ==
  LET hits == { d \in T.H[Home(b)] : EntryAt(T, b, d).key = k }
  IN  IF hits = {} THEN NoDistance ELSE Least(hits)

Lookup(T, b, k) ==
  IF Hunt(T, b, k) = NoDistance THEN 0 ELSE EntryAt(T, b, Hunt(T, b, k)).val

-----------------------------------------------------------------------------
(* Deleting.  del_hh_hash reads the low word of the slot, the key, and     *)
(* takes an entry whose key is 0 for a free slot.                          *)

(* Fault: the bit of the bucket stays set.                                 *)
RemoveAtKeepsBit(T, h, d) ==
  IF T.V[SlotAt(h, d)].key = 0 THEN T
  ELSE [ T EXCEPT !.V[SlotAt(h, d)] = FreeSlot, !.count = @ - 1 ]

RemoveAt(T, h, d) ==
  IF T.V[SlotAt(h, d)].key = 0 THEN T
  ELSE [ H |-> [ T.H EXCEPT ![h] = @ \ {d} ],
         V |-> [ T.V EXCEPT ![SlotAt(h, d)] = FreeSlot ],
         count |-> T.count - 1 ]

(* Fault: a deletion is counted whether or not the key is found.           *)
DeleteCounted(T, b, k) ==
  IF Hunt(T, b, k) = NoDistance THEN [ T EXCEPT !.count = @ - 1 ]
  ELSE RemoveAt(T, Home(b), Hunt(T, b, k))

Delete(T, b, k) ==
  IF Hunt(T, b, k) = NoDistance THEN T ELSE RemoveAt(T, Home(b), Hunt(T, b, k))

-----------------------------------------------------------------------------
(* Storing.                                                                *)

(* _probe: the distance of the first free slot from h, wrapping around.    *)
Probe(T, h) ==
  LET free == { d \in 0 .. N - 1 : SlotAt(h, d) \notin Occupied(T) }
  IN  IF free = {} THEN NoDistance ELSE Least(free)

(* Fault: the bucket's entry may lie beyond the free slot.                 *)
MovableAny(T, free) == { i \in 1 .. K - 1 : T.H[MOD(N + free - i)] # {} }

(* _hop_scotch: how far below the free slot the farthest bucket lies that  *)
(* has an entry between itself and the free slot; 0 when there is none.    *)
Movable(T, free) ==
  { i \in 1 .. K - 1 :
      LET b == MOD(N + free - i)
      IN  T.H[b] # {} /\ Least(T.H[b]) < i }

HopScotch(T, free) ==
  IF Movable(T, free) = {} THEN 0 ELSE Greatest(Movable(T, free))

(* Fault: the bit of the old distance stays set.                           *)
SwapKeepsBit(T, b, i, j) ==
  [ H |-> [ T.H EXCEPT ![b] = @ \cup {j} ],
    V |-> [ T.V EXCEPT ![SlotAt(b, j)] = T.V[SlotAt(b, i)], ![SlotAt(b, i)] = FreeSlot ],
    count |-> T.count ]

(* Fault: the slot moved from is not cleared.                              *)
SwapKeepsEntry(T, b, i, j) ==
  [ H |-> [ T.H EXCEPT ![b] = (@ \ {i}) \cup {j} ],
    V |-> [ T.V EXCEPT ![SlotAt(b, j)] = T.V[SlotAt(b, i)] ],
    count |-> T.count ]

(* _swap: bucket b moves its entry from distance i to the free slot at j.  *)
Swap(T, b, i, j) ==
  [ H |-> [ T.H EXCEPT ![b] = (@ \ {i}) \cup {j} ],
    V |-> [ T.V EXCEPT ![SlotAt(b, j)] = T.V[SlotAt(b, i)], ![SlotAt(b, i)] = FreeSlot ],
    count |-> T.count ]

(* Fault: the new entry is not counted.                                    *)
PlaceUncounted(T, h, d, e) ==
  [ T EXCEPT !.H[h] = @ \cup {d}, !.V[SlotAt(h, d)] = e ]

Place(T, h, d, e) ==
  [ H |-> [ T.H EXCEPT ![h] = @ \cup {d} ],
    V |-> [ T.V EXCEPT ![SlotAt(h, d)] = e ],
    count |-> T.count + 1 ]
=============================================================================

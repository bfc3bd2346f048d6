------------------------------ MODULE LRUSpec ------------------------------
(***************************************************************************)
(* What an LRU segment promises to the one process that uses it: a bounded *)
(* store of values under distinct keys, kept from the most to the least    *)
(* recently used, from which an eviction takes the least recently used     *)
(* keys only.  A batch of values is stored one after the other, to its     *)
(* end, those that are refused passed over.  Offsets, links, the hash      *)
(* table and the clock are absent: LRUCache has them, and LRURefinement    *)
(* shows that it implements this module.                                   *)
(***************************************************************************)
EXTENDS SequencesExt

CONSTANTS
  Key, Value,
  Capacity,     \* the number of elements threaded into the region
  NoValue       \* what val holds for a key that is not stored

VARIABLES
  order,        \* the stored keys, most recently used first
  val,          \* the value of each key
  evicting,     \* an eviction call is running
  todo,         \* what is left of a batch of keys and values
  answer        \* what the last step told the caller, None if nothing

vars == <<order, val, evicting, todo, answer>>

None == <<"none">>

Stored == ToSet(order)

Init ==
  /\ order = <<>>
  /\ val = [ k \in Key |-> NoValue ]
  /\ evicting = FALSE
  /\ todo = <<>>
  /\ answer = None

(* The keys are distinct: one position to leave out.                       *)
Without(k) ==
  IF k \in Stored
  THEN RemoveAt(order, CHOOSE i \in DOMAIN order : order[i] = k)
  ELSE order

(* Storing under a stored key replaces its value; a new key needs room.    *)
Put(k, v) ==
  /\ ~evicting
  /\ k \in Stored \/ Len(order) < Capacity
  /\ order' = <<k>> \o Without(k)
  /\ val' = [ val EXCEPT ![k] = v ]
  /\ answer' = <<"stored", k, v>>
  /\ UNCHANGED evicting

(* The only reason to refuse a value is that every element is in use.      *)
Refuse(k) ==
  /\ ~evicting
  /\ k \notin Stored /\ Len(order) = Capacity
  /\ answer' = <<"refused", k>>
  /\ UNCHANGED <<order, val, evicting>>

(* Reading a value makes its key the most recently used.                   *)
Get(k) ==
  /\ ~evicting
  /\ k \in Stored
  /\ order' = <<k>> \o Without(k)
  /\ answer' = <<"value", k, val[k]>>
  /\ UNCHANGED <<val, evicting>>

Miss(k) ==
  /\ ~evicting
  /\ k \notin Stored
  /\ answer' = <<"missing", k>>
  /\ UNCHANGED <<order, val, evicting>>

Erase(k) ==
  /\ ~evicting
  /\ k \in Stored
  /\ order' = Without(k)
  /\ val' = [ val EXCEPT ![k] = NoValue ]
  /\ answer' = <<"erased", k>>
  /\ UNCHANGED evicting

StartEvict ==
  /\ ~evicting
  /\ evicting' = TRUE
  /\ answer' = None
  /\ UNCHANGED <<order, val>>

(* One element of an eviction; it may be the last of the call.             *)
EvictOldest ==
  /\ evicting
  /\ order # <<>>
  /\ order' = Front(order)
  /\ val' = [ val EXCEPT ![Last(order)] = NoValue ]
  /\ evicting' \in BOOLEAN
  /\ answer' = <<"erased", Last(order)>>

FinishEvict ==
  /\ evicting
  /\ evicting' = FALSE
  /\ answer' = None
  /\ UNCHANGED <<order, val>>

(* Everything else the caller may do changes nothing that is stored.       *)
Silent ==
  /\ answer' = None
  /\ UNCHANGED <<order, val, evicting>>

Call ==
  \/ \E k \in Key, v \in Value : Put(k, v)
  \/ \E k \in Key : Refuse(k) \/ Get(k) \/ Miss(k) \/ Erase(k)
  \/ StartEvict \/ EvictOldest \/ FinishEvict

StartBatch ==
  /\ ~evicting
  /\ todo = <<>>
  /\ todo' \in Seq(Key \X Value) \ {<<>>}
  /\ Silent

(* One item of a batch, whether or not there was room for those before it. *)
PutNext ==
  /\ todo # <<>>
  /\ Put(Head(todo)[1], Head(todo)[2]) \/ Refuse(Head(todo)[1])
  /\ todo' = Tail(todo)

Next ==
  \/ todo = <<>> /\ Call /\ UNCHANGED todo
  \/ StartBatch \/ PutNext
  \/ Silent /\ UNCHANGED todo

Spec == Init /\ [][Next]_vars
=============================================================================

-------------------------------- MODULE HHMap --------------------------------
(***************************************************************************)
(* HH_map (src/node_shm_HH.h), the hopscotch table an LRU may be given in  *)
(* a shared segment, under the calls of HMap_interface made by one process *)
(* at a time.  A store that has to make room is started by one action and  *)
(* advanced by one hop per step, since it may give up after having moved   *)
(* entries of other buckets.                                               *)
(***************************************************************************)
EXTENDS HHTable

CONSTANTS
  Buckets,    \* the hash_bucket words the callers use
  ElKeys,     \* the el_key words
  Offsets     \* the v_value words: offsets of LRU elements, never 0

ASSUME MapAssumption ==
  /\ Buckets \subseteq Word /\ ElKeys \subseteq Word
  /\ Offsets \subseteq Word \ {0}

VARIABLES
  T,        \* the table in the segment
  put,      \* the put_hh_hash in progress, Idle if none
  answer    \* what the last call returned

vars == <<T, put, answer>>

Idle == [op |-> "idle"]
None == <<"none">>

Answers ==
  {None, <<"cleared">>}
  \cup ({"stored", "refused"} \X Buckets \X ElKeys \X Offsets)
  \cup ({"got"} \X Buckets \X ElKeys \X Word)
  \cup ({"deleted"} \X Buckets \X ElKeys)

TypeOK ==
  /\ T \in Tables
  /\ put \in {Idle} \cup [ op : {"put"}, bucket : Buckets, key : ElKeys, val : Offsets,
                          d : 0 .. N - 1 ]
  /\ answer \in Answers

Init == T = EmptyTable /\ put = Idle /\ answer = None

(* store, up to the loop of put_hh_hash                                    *)
Store(b, k, v) ==
  /\ put = Idle
  /\ \/ /\ T.count = N \/ Probe(T, Home(b)) = NoDistance
        /\ answer' = <<"refused", b, k, v>>
        /\ UNCHANGED put
     \/ /\ T.count # N /\ Probe(T, Home(b)) # NoDistance
        /\ put' = [ op |-> "put", bucket |-> b, key |-> k, val |-> v,
                    d |-> Probe(T, Home(b)) ]
        /\ answer' = None
  /\ UNCHANGED T

PutIsOver(kind) ==
  /\ put' = Idle
  /\ answer' = <<kind, put.bucket, put.key, put.val>>

(* One round of the loop: the free slot is exchanged for one closer to the *)
(* home bucket, or the table is frozen.                                    *)
Hop ==
  /\ put.op = "put" /\ put.d >= K
  /\ LET h == Home(put.bucket)
         free == SlotAt(h, put.d)
         z == HopScotch(T, free)
         b == MOD(N + free - z)
         i == Least(T.H[b])
     IN  \/ /\ z = 0
            /\ PutIsOver("refused")
            /\ UNCHANGED T
         \/ /\ z # 0
            /\ T' = Swap(T, b, i, z)
            /\ put' = [ put EXCEPT !.d = MOD(N + b + i - h) ]
            /\ UNCHANGED answer

Put ==
  /\ put.op = "put" /\ put.d < K
  /\ T' = Place(T, Home(put.bucket), put.d, [val |-> put.val, key |-> put.key])
  /\ PutIsOver("stored")

Get(b, k) ==
  /\ put = Idle
  /\ answer' = <<"got", b, k, Lookup(T, b, k)>>
  /\ UNCHANGED <<T, put>>

Del(b, k) ==
  /\ put = Idle
  /\ T' = Delete(T, b, k)
  /\ answer' = <<"deleted", b, k>>
  /\ UNCHANGED put

(* clear, in the process that initialised the table                        *)
Clear ==
  /\ put = Idle
  /\ T' = EmptyTable
  /\ answer' = <<"cleared">>
  /\ UNCHANGED put

Next ==
  \/ \E b \in Buckets, k \in ElKeys :
       Get(b, k) \/ Del(b, k) \/ \E v \in Offsets : Store(b, k, v)
  \/ Hop \/ Put
  \/ Clear

(* A store that has started runs to its end.                               *)
Spec == Init /\ [][Next]_vars /\ WF_vars(Hop \/ Put)

-----------------------------------------------------------------------------
(* Properties.                                                             *)

Claims(s) == { c \in Slot \X Distance : c[2] \in T.H[c[1]] /\ SlotAt(c[1], c[2]) = s }

(* Every occupied slot belongs to one bucket at one distance, and no       *)
(* bucket claims a free slot: also between two hops of a store, and after  *)
(* a store that hopped and was refused.                                    *)
ClaimedOnce ==
  \A s \in Slot : Cardinality(Claims(s)) = IF s \in Occupied(T) THEN 1 ELSE 0

(* _count, which decides whether the table is full, is the number of       *)
(* entries.                                                                *)
CountExact == T.count = Cardinality(Occupied(T))

(* The slot a store works with is free, and each hop brings it closer to   *)
(* the home bucket.                                                        *)
FreeSlotInHand ==
  put.op = "put" => SlotAt(Home(put.bucket), put.d) \notin Occupied(T)

HopsCloser == [][ Hop /\ put' # Idle => put'.d < put.d ]_vars

(* A store ends, with the entry placed or refused.                         *)
StoreReturns == put # Idle ~> put = Idle
=============================================================================

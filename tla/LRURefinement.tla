--------------------------- MODULE LRURefinement ---------------------------
(***************************************************************************)
(* LRUCache with what its calls return, and the proof by model checking    *)
(* that it implements LRUSpec when the caller deletes stored elements only *)
(* (CarefulDelete) and drops no entry of the table (KeepTable, so no       *)
(* remove_key either).                                                     *)
(*                                                                         *)
(* A returned offset stands for the key it was returned for.               *)
(***************************************************************************)
EXTENDS LRUCache

VARIABLE answer

None == <<"none">>

(* The offset add_el or update_el gave for the value, or false.            *)
SetAnswer(k, v) ==
  IF IF table[k] = NIL THEN links.next[CtrlFree] # NIL ELSE links.prev[table[k]] # NIL
  THEN <<"stored", k, v>>
  ELSE <<"refused", k>>

(* get_el returns the record; that of a deleted element behind "DELETED: ". *)
GetAnswer(s) ==
  IF links.prev[s] # NIL THEN <<"value", hash[s], data[s]>> ELSE None

(* get_el_hash gives -2 for an absent key and for a deleted element.       *)
HashAnswer(k) ==
  IF table[k] # NIL /\ links.prev[table[k]] # NIL
  THEN <<"value", k, data[table[k]]>>
  ELSE <<"missing", k>>

DelAnswer(s) == IF AlreadyDeleted(s) THEN None ELSE <<"erased", hash[s]>>

(* get_el_hash or del_key of a key that check_for_hash does not find.      *)
NotFound(p) ==
  /\ call = Idle
  /\ table[GetKey(p)] = NIL
  /\ answer' = <<"missing", GetKey(p)>>
  /\ UNCHANGED vars

AnswerInit == Init /\ answer = None

AnswerNext ==
  \/ \E p \in Pairs, v \in Values : SetEl(p, v) /\ answer' = SetAnswer(SetKey(p), v)
  \/ \E p \in Pairs :
       \/ GetElHash(p) /\ answer' = HashAnswer(GetKey(p))
       \/ DelKey(p) /\ answer' = DelAnswer(table[GetKey(p)])
       \/ NotFound(p)
  \/ \E s \in Elements :
       \/ GetEl(s) /\ answer' = GetAnswer(s)
       \/ DelEl(s) /\ answer' = DelAnswer(s)
  \/ LET item == Head(call.rest)
     IN  SetManyStep /\ answer' = SetAnswer(GetKey(item[1]), item[2])
  \/ EvictStep /\ answer' = IF Oldest = CtrlHdr THEN None ELSE DelAnswer(Oldest)
  \/ /\ \/ RejectedOffset \/ GetLastReason
        \/ \E batch \in Batches : SetMany(batch)
        \/ \E age \in 0 .. MaxTime, n \in 0 .. MaxEvict : RunLruEviction(age, n)
        \/ ReloadHashMap \/ ReloadStep
        \/ Tick
     /\ answer' = None

AnswerSpec == AnswerInit /\ [][AnswerNext]_<<vars, answer>>

-----------------------------------------------------------------------------
OrderOfKeys ==
  LET f == Forward(links) IN [ i \in DOMAIN f |-> hash[f[i]] ]

ValueOfKey(k) ==
  IF \E s \in Allocated(links) : hash[s] = k
  THEN data[CHOOSE s \in Allocated(links) : hash[s] = k]
  ELSE NIL

(* What set_many has still to store; it takes the pairs as they are.       *)
Remaining == IF call.op = "set_many" THEN call.rest ELSE <<>>

Promise == INSTANCE LRUSpec WITH
  Key <- Keys, Value <- Values, NoValue <- NIL,
  Capacity <- Cardinality(Elements),
  order <- OrderOfKeys,
  val <- [ k \in Keys |-> ValueOfKey(k) ],
  evicting <- (call.op = "evict"),
  todo <- Remaining

(* Every step of the cache, with its links, its offsets, its table and its *)
(* loops, is a step of the bounded store: what was stored under a key is   *)
(* what is read for it until it is erased or evicted, a value is refused   *)
(* only when the store is full, the order is that of use, an eviction      *)
(* takes the least recently used keys, and set_many goes on to its last    *)
(* item when one before it is refused.                                     *)
StoreSpec == Promise!Spec
=============================================================================

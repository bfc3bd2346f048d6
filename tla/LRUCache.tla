------------------------------ MODULE LRUCache ------------------------------
(***************************************************************************)
(* One process and one LRU segment: LRU_cache (src/node_shm_LRU.h) behind  *)
(* the calls of src/node_shm.cc, with the hash table kept in the process   *)
(* (_hmap_i == nullptr, no call of initHopScotch).                         *)
(*                                                                         *)
(* A call that loops over elements is started by one action and advanced   *)
(* by one step per iteration of its loop; the addon is synchronous, so no  *)
(* other call starts meanwhile, but time goes on and every iteration reads *)
(* what the one before wrote.                                              *)
(*                                                                         *)
(* A 64-bit hash is a pair <<high word, low word>> of words of 0..MaxWord. *)
(* The words come from the caller: a hash and an index.                    *)
(***************************************************************************)
EXTENDS LRULinks, Sequences

CONSTANTS
  MaxWord,        \* UINT32_MAX
  Pairs,          \* the <<hash, index>> pairs the callers use
  Values,         \* the values they store
  CountWrap,      \* 2^16: _count, _count_free and _max_count are uint16_t
  ByteWrap,       \* 2^8: max_evict is a uint8_t
  MaxTime,        \* bound on the clock
  MaxEvict,       \* bound on the max_evictions argument
  MaxBatch,       \* bound on the length of the array given to set_many
  CarefulDelete,  \* del_el is only called on elements that are stored
  KeepTable       \* no remove_key, and no reload_hash_map of a full list

Word == 0 .. MaxWord
Keys == Word \X Word

ASSUME CacheAssumption ==
  /\ MaxWord \in Nat /\ Pairs \subseteq Keys
  /\ CountWrap \in Nat \ {0} /\ ByteWrap \in Nat \ {0}
  /\ MaxTime \in Nat /\ MaxEvict \in Nat /\ MaxBatch \in Nat
  /\ CarefulDelete \in BOOLEAN /\ KeepTable \in BOOLEAN

Max64 == <<MaxWord, MaxWord>>   \* UINT64_MAX, the _hash of a deleted element
Max32 == <<0, MaxWord>>         \* UINT32_MAX compared with a 64-bit _hash

(* set_el takes the hash for the bucket, the low word; get_el_hash,        *)
(* del_key and set_many take it for the full hash, the high word.          *)
SetKey(p) == <<p[2], p[1]>>
GetKey(p) == p

MaxCount == WholeCount % CountWrap

OutOfMemory == "out of free memory: free count == 0"
Reasons == {"OK", OutOfMemory, "deleted", "already deleted",
            "OUT OF BOUNDS", "ELEMENT BOUNDAY VIOLATION"}

VARIABLES
  links,      \* _prev and _next of the elements of the region
  hash,       \* _hash of each element
  when,       \* _when of each element
  data,       \* the record after each element header
  table,      \* _local_hash_table, NIL for an absent key
  count,      \* _count
  freeCount,  \* _count_free
  reason,     \* _reason
  clock,      \* what epoch_ms() returns
  call        \* the looping call in progress

region == <<links, hash, when, data>>
vars == <<links, hash, when, data, table, count, freeCount, reason, clock, call>>

Idle == [op |-> "idle"]

Calls ==
  {Idle}
  \cup [op : {"set_many"}, rest : Seq(Pairs \X Values) \ {<<>>}]
  \cup [op : {"evict"}, cutoff : Int, max : 0 .. ByteWrap - 1, done : Nat]
  \cup [op : {"reload"}, at : Slots, seen : Nat]

TypeOK ==
  /\ links \in Links
  /\ hash \in [Elements -> Keys]
  /\ when \in [Elements -> 0 .. MaxTime]
  /\ data \in [Elements -> Values \cup {NIL}]
  /\ table \in [Keys -> Elements \cup {NIL}]
  /\ count \in 0 .. CountWrap - 1
  /\ freeCount \in 0 .. CountWrap - 1
  /\ reason \in Reasons
  /\ clock \in 0 .. MaxTime
  /\ call \in Calls

Init ==
  /\ links = SetupLinks
  /\ hash = [ s \in Elements |-> Max64 ]
  /\ when = [ s \in Elements |-> 0 ]
  /\ data = [ s \in Elements |-> NIL ]
  /\ table = [ k \in Keys |-> NIL ]
  /\ count = 0
  /\ freeCount = Cardinality(Elements) % CountWrap
  /\ reason = "OK"
  /\ clock = 0
  /\ call = Idle

-----------------------------------------------------------------------------
(* The methods of LRU_cache.                                               *)

(* Fault: taking an element off the free list is not counted.              *)
OneLessForgotten(n) == n

OneLess(n) == IF n > 0 THEN n - 1 ELSE n

add_el(k, v) ==
  LET s == links.next[CtrlFree]
  IN  \/ /\ s = NIL
         /\ reason' = OutOfMemory
         /\ UNCHANGED <<region, table, count, freeCount>>
      \/ /\ s # NIL
         /\ table' = [ table EXCEPT ![k] = s ]
         /\ links' = AddLinks(links)
         /\ when' = [ when EXCEPT ![s] = clock ]
         /\ hash' = [ hash EXCEPT ![s] = k ]
         /\ data' = [ data EXCEPT ![s] = v ]
         /\ count' = (count + 1) % CountWrap
         /\ freeCount' = OneLess(freeCount)
         /\ UNCHANGED reason

(* Fault: the two words of the key are taken in the other order.           *)
RemoveKeySwapped(k) == table' = [ table EXCEPT ![<<k[2], k[1]>>] = NIL ]

remove_key(k) == table' = [ table EXCEPT ![k] = NIL ]

(* Fault: a touched element keeps the time of its last use.                *)
TouchUnstamped(s) ==
  /\ links' = IF links.prev[s] # NIL THEN TouchLinks(links, s) ELSE links
  /\ UNCHANGED when

(* touch returns false and changes nothing when the element is not stored. *)
touch(s) ==
  /\ links' = IF links.prev[s] # NIL THEN TouchLinks(links, s) ELSE links
  /\ when' = IF links.prev[s] # NIL THEN [ when EXCEPT ![s] = clock ] ELSE when

get_el(s) ==
  /\ touch(s)
  /\ reason' = "OK"
  /\ UNCHANGED <<hash, data, table, count, freeCount>>

update_el(s, v) ==
  /\ touch(s)
  /\ data' = IF links.prev[s] # NIL THEN [ data EXCEPT ![s] = v ] ELSE data
  /\ reason' = IF links.prev[s] # NIL THEN "OK" ELSE "deleted"
  /\ UNCHANGED <<hash, table, count, freeCount>>

AlreadyDeleted(s) == links.prev[s] = NIL /\ hash[s] = Max32

del_el(s) ==
  /\ UNCHANGED <<when, data, count>>
  /\ IF AlreadyDeleted(s)
     THEN /\ reason' = "already deleted"
          /\ UNCHANGED <<links, hash, table, freeCount>>
     ELSE /\ reason' = "OK"
          /\ links' = DelLinks(links, s)
          /\ hash' = [ hash EXCEPT ![s] = Max64 ]
          /\ remove_key(hash[s])
          /\ freeCount' = (freeCount + 1) % CountWrap

(* Fault: the value of a key that is found is not replaced.                *)
StoreFirstOnly(k, v) ==
  IF table[k] = NIL THEN add_el(k, v) ELSE get_el(table[k])

(* Fault: add_el without asking check_for_hash.                            *)
StoreAlways(k, v) == add_el(k, v)

(* check_for_hash, then update_el or add_el                                *)
store(k, v) ==
  IF table[k] = NIL THEN add_el(k, v) ELSE update_el(table[k], v)

-----------------------------------------------------------------------------
(* The calls of the addon that finish in one step.                         *)

SetEl(p, v) ==
  /\ call = Idle
  /\ store(SetKey(p), v)
  /\ UNCHANGED <<clock, call>>

GetEl(s) ==
  /\ call = Idle
  /\ get_el(s)
  /\ UNCHANGED <<clock, call>>

GetElHash(p) ==
  /\ call = Idle
  /\ table[GetKey(p)] # NIL
  /\ get_el(table[GetKey(p)])
  /\ UNCHANGED <<clock, call>>

DelEl(s) ==
  /\ call = Idle
  /\ CarefulDelete => s \in Allocated(links)
  /\ del_el(s)
  /\ UNCHANGED <<clock, call>>

DelKey(p) ==
  /\ call = Idle
  /\ table[GetKey(p)] # NIL
  /\ del_el(table[GetKey(p)])
  /\ UNCHANGED <<clock, call>>

RemoveKey(p) ==
  /\ call = Idle
  /\ ~KeepTable
  /\ remove_key(SetKey(p))
  /\ UNCHANGED <<region, count, freeCount, reason, clock, call>>

(* An offset that check_offset rejects: beyond the region, or no multiple  *)
(* of _step.                                                               *)
RejectedOffset ==
  /\ call = Idle
  /\ reason' \in {"OUT OF BOUNDS", "ELEMENT BOUNDAY VIOLATION"}
  /\ UNCHANGED <<region, table, count, freeCount, clock, call>>

GetLastReason ==
  /\ call = Idle
  /\ reason' = "OK"
  /\ UNCHANGED <<region, table, count, freeCount, clock, call>>

-----------------------------------------------------------------------------
(* set_many: one element of the array per step.                            *)

SetMany(batch) ==
  /\ call = Idle
  /\ call' = [op |-> "set_many", rest |-> batch]
  /\ UNCHANGED <<region, table, count, freeCount, reason, clock>>

(* Fault: an item that finds no room is tried again.                       *)
NextItemOrRetry ==
  call' = IF reason' = OutOfMemory THEN call
          ELSE IF Len(call.rest) = 1 THEN Idle ELSE [call EXCEPT !.rest = Tail(@)]

(* Fault: the batch ends at an item that finds no room.                    *)
NextItemOrEnd ==
  call' = IF Len(call.rest) = 1 \/ reason' = OutOfMemory THEN Idle
          ELSE [call EXCEPT !.rest = Tail(@)]

NextItem ==
  call' = IF Len(call.rest) = 1 THEN Idle ELSE [call EXCEPT !.rest = Tail(@)]

SetManyStep ==
  /\ call.op = "set_many"
  /\ LET item == Head(call.rest)
     IN  store(GetKey(item[1]), item[2])
  /\ NextItem
  /\ UNCHANGED clock

-----------------------------------------------------------------------------
(* run_lru_eviction and run_lru_eviction_get_values: the cutoff argument   *)
(* is an age, and both loops delete before they test.                      *)

RunLruEviction(age, n) ==
  /\ call = Idle
  /\ call' = [op |-> "evict", cutoff |-> clock - age, max |-> n % ByteWrap, done |-> 0]
  /\ UNCHANGED <<region, table, count, freeCount, reason, clock>>

Oldest == links.prev[CtrlTail]

GoOn(s) == when[s] < call.cutoff /\ call.done + 1 < call.max

EvictStep ==
  /\ call.op = "evict"
  /\ \/ /\ Oldest = CtrlHdr
        /\ call' = Idle
        /\ UNCHANGED <<region, table, count, freeCount, reason>>
     \/ /\ Oldest # CtrlHdr
        /\ del_el(Oldest)
        /\ call' = IF GoOn(Oldest) THEN [call EXCEPT !.done = @ + 1] ELSE Idle
  /\ UNCHANGED clock

-----------------------------------------------------------------------------
(* reload_hash_map clears the table and walks the list from its head; the  *)
(* walk gives up, before mapping, at the element that makes _max_count.    *)

ReloadHashMap ==
  /\ call = Idle
  /\ KeepTable => Cardinality(Allocated(links)) < MaxCount
  /\ table' = [ k \in Keys |-> NIL ]
  /\ call' = [op |-> "reload", at |-> links.next[CtrlHdr], seen |-> 0]
  /\ UNCHANGED <<region, count, freeCount, reason, clock>>

(* Fault: the difference is not brought back to 16 bits.                   *)
WalkEndUnbounded(seen) ==
  /\ count' = seen - count
  /\ call' = Idle
  /\ UNCHANGED table

WalkEnd(seen) ==
  /\ count' = (seen - count) % CountWrap
  /\ call' = Idle
  /\ UNCHANGED table

WalkNext(s) ==
  /\ table' = [ table EXCEPT ![hash[s]] = s ]
  /\ call' = [call EXCEPT !.at = links.next[s], !.seen = @ + 1]
  /\ UNCHANGED count

ReloadStep ==
  /\ call.op = "reload"
  /\ \/ links.next[call.at] = NIL /\ WalkEnd(call.seen)
     \/ /\ links.next[call.at] # NIL
        /\ \/ call.seen + 1 >= MaxCount /\ WalkEnd(call.seen + 1)
           \/ call.seen + 1 < MaxCount /\ WalkNext(call.at)
  /\ UNCHANGED <<region, freeCount, reason, clock>>

-----------------------------------------------------------------------------
Tick ==
  /\ clock < MaxTime
  /\ clock' = clock + 1
  /\ UNCHANGED <<region, table, count, freeCount, reason, call>>

Batches == UNION { [1 .. n -> Pairs \X Values] : n \in 1 .. MaxBatch }

LoopStep == SetManyStep \/ EvictStep \/ ReloadStep

(* Callers pass offsets that set returned, or such as RejectedOffset.      *)
(* check_offset would also let the control elements and the end of the     *)
(* region through.                                                         *)
Next ==
  \/ \E p \in Pairs, v \in Values : SetEl(p, v)
  \/ \E p \in Pairs : GetElHash(p) \/ DelKey(p) \/ RemoveKey(p)
  \/ \E s \in Elements : GetEl(s) \/ DelEl(s)
  \/ RejectedOffset \/ GetLastReason
  \/ \E batch \in Batches : SetMany(batch)
  \/ \E age \in 0 .. MaxTime, n \in 0 .. MaxEvict : RunLruEviction(age, n)
  \/ ReloadHashMap
  \/ LoopStep
  \/ Tick

(* A call that has started runs to its end: the addon has no way to stop   *)
(* in the middle of a native method.                                       *)
Spec == Init /\ [][Next]_vars /\ WF_vars(LoopStep)

-----------------------------------------------------------------------------
(* Properties.                                                             *)

(* Neighbours agree, elements of the allocated list point at elements of   *)
(* it, and links of the free list never meet: what add_el, touch and       *)
(* del_el must leave behind for the next one of them.                      *)
LinkInv == LinksOK(links)

(* The list read forwards is the list read backwards, it holds every       *)
(* allocated element once, and the free list every other one: no element   *)
(* of the region is ever lost or handed out twice.                         *)
ListSound ==
  LET f == Forward(links)
      b == Backward(links)
      free == FreeTrail(links)
  IN  /\ Len(f) = Len(b) /\ \A i \in DOMAIN f : f[i] = b[Len(b) + 1 - i]
      /\ { f[i] : i \in DOMAIN f } = Allocated(links)
      /\ Len(f) = Cardinality(Allocated(links))
      /\ { free[i] : i \in DOMAIN free } = FreeOf(links)
      /\ Len(free) = Cardinality(FreeOf(links))

(* A key of the table leads to a stored element with that key, in the      *)
(* middle of a reload and after remove_key has made two elements of one    *)
(* key too: get_el_hash never returns a deleted or another key's value.    *)
TableSound ==
  \A k \in Keys : table[k] # NIL =>
    table[k] \in Allocated(links) /\ hash[table[k]] = k

(* Every stored element is found under its key, unless a reload is under   *)
(* way; with TableSound, no two elements have the same key.                *)
TableComplete ==
  call.op # "reload" => \A s \in Allocated(links) : table[hash[s]] = s

(* The list runs from the most to the least recently used element, which   *)
(* is what evict_least_used relies on when it reads only the tail.         *)
RecencyOrder ==
  \A s \in Allocated(links) :
    /\ when[s] <= clock
    /\ links.next[s] \in Elements => when[s] >= when[links.next[s]]

(* _count_free is the length of the free list.                             *)
FreeCountExact ==
  Cardinality(Elements) < CountWrap => freeCount = Cardinality(FreeOf(links))

(* An eviction that returns with deletions to spare has left no element    *)
(* that is older than the cutoff.                                          *)
EvictsAllOld ==
  [][ call.op = "evict" /\ call'.op = "idle" /\ call.done + 1 < call.max
      => \A s \in Allocated(links') : when'[s] >= call.cutoff ]_vars

(* Every loop ends: the walk of the list reaches its tail or gives up, and *)
(* the eviction runs out of elements, of old ones or of allowance.         *)
CallsReturn == call # Idle ~> call = Idle
=============================================================================

--------------------------- MODULE LRUCache_proofs ---------------------------
(***************************************************************************)
(* The safety of LRUCache for every region size, every set of words and    *)
(* values and every bound, when del_el is called on stored elements only;  *)
(* and that it implements LRUSpec when no entry of the table is dropped    *)
(* either: each step of the links, the table and the loops is a step of    *)
(* the bounded store, or changes nothing in it.                            *)
(***************************************************************************)
EXTENDS LRURefinement, LRULinks_proofs, FiniteSetTheorems, SequenceTheorems

(* The part of the state that the methods of LRU_cache own.                *)
StateType ==
  /\ links \in Links
  /\ hash \in [Elements -> Keys]
  /\ when \in [Elements -> 0 .. MaxTime]
  /\ data \in [Elements -> Values \cup {NIL}]
  /\ table \in [Keys -> Elements \cup {NIL}]
  /\ count \in 0 .. CountWrap - 1
  /\ freeCount \in 0 .. CountWrap - 1
  /\ reason \in Reasons
  /\ clock \in 0 .. MaxTime

StateOK == StateType /\ LinkInv /\ TableSound /\ RecencyOrder

(* A reload stands on an element of the list, or at its tail.              *)
WalkOnList ==
  call.op = "reload" => call.at \in Allocated(links) \cup {CtrlTail}

IInv == StateOK /\ call \in Calls /\ WalkOnList

LEMMA ModRange ==
  ASSUME NEW a \in Int, NEW n \in Nat \ {0}
  PROVE  a % n \in 0 .. n - 1
OBVIOUS

LEMMA WordFacts ==
  /\ Max64 \in Keys
  /\ \A p \in Pairs : SetKey(p) \in Keys /\ GetKey(p) \in Keys
  /\ NIL \notin Elements
BY CacheAssumption, SlotFacts DEF Max64, Keys, Word, SetKey, GetKey

LEMMA CountFacts ==
  0 \in 0 .. CountWrap - 1 /\ IsFiniteSet(Elements) /\ Cardinality(Elements) \in Nat
<1>1. RegionSize \in Int /\ CountWrap \in Nat \ {0}
  BY RegionAssumption, CacheAssumption
<1>2. IsFiniteSet(3 .. RegionSize)
  BY <1>1, FS_Interval
<1>3. Elements \subseteq 3 .. RegionSize
  BY DEF Elements
<1>4. IsFiniteSet(Elements) /\ Cardinality(Elements) \in Nat
  BY <1>2, <1>3, FS_Subset, FS_CardinalityType
<1> QED
  BY <1>1, <1>4

LEMMA TailFacts ==
  ASSUME NEW S, NEW q \in Seq(S), q # <<>>, Len(q) # 1
  PROVE  Tail(q) \in Seq(S) \ {<<>>}
<1>1. Tail(q) \in Seq(S) /\ Len(Tail(q)) = Len(q) - 1 /\ Len(q) \in Nat
  BY HeadTailProperties
<1>2. Len(q) # 0 /\ Len(<<>>) = 0
  BY EmptySeq
<1>3. Len(Tail(q)) # 0
  BY <1>1, <1>2
<1>4. Tail(q) # <<>>
  BY <1>2, <1>3
<1> QED
  BY <1>1, <1>4

-----------------------------------------------------------------------------
(* The order of use along the list, for any list A and time t.             *)
Recent(L, w, A, t) ==
  \A s \in A : w[s] <= t /\ (L.next[s] \in Elements => w[s] >= w[L.next[s]])

(* Closing the gap an unlinked element leaves keeps the order.             *)
LEMMA UnlinkRecent ==
  ASSUME NEW L \in Links, NEW A \in SUBSET Elements, NEW s \in A, ListOver(L, A),
         NEW t \in Nat, NEW w \in [Elements -> Nat], Recent(L, w, A, t)
  PROVE  Recent(Unlink(L, s), w, A \ {s}, t)
<1> DEFINE U == Unlink(L, s)
<1> SUFFICES ASSUME NEW e \in A \ {s}
             PROVE  w[e] <= t /\ (U.next[e] \in Elements => w[e] >= w[U.next[e]])
  BY DEF Recent
<1>1. w[e] <= t /\ (L.next[e] \in Elements => w[e] >= w[L.next[e]])
      /\ (L.next[s] \in Elements => w[s] >= w[L.next[s]])
  BY DEF Recent
<1>2. CASE L.prev[s] = e
  <2>1. L.next[e] = s /\ U.next[e] = L.next[s]
    BY <1>2, SlotFacts DEF ListOver, Unlink, Links
  <2>2. w[e] \in Nat /\ w[s] \in Nat /\ w[e] >= w[s]
    BY <1>1, <2>1
  <2>3. ASSUME L.next[s] \in Elements PROVE w[e] >= w[L.next[s]]
    BY <1>1, <2>2, <2>3
  <2> QED
    BY <1>1, <2>1, <2>3
<1>3. CASE L.prev[s] # e
  <2>1. U.next[e] = L.next[e]
    BY <1>3, SlotFacts DEF Unlink, Links
  <2> QED
    BY <1>1, <2>1
<1> QED
  BY <1>2, <1>3

(* So does putting the element used now before the others.                 *)
LEMMA PushRecent ==
  ASSUME NEW L \in Links, NEW N \in Links, NEW A \in SUBSET Elements,
         NEW s \in Elements \ A, NEW t \in Nat, NEW w \in [Elements -> Nat],
         ListOver(L, A), Recent(L, w, A, t),
         N.next[s] = L.next[CtrlHdr], \A e \in A : N.next[e] = L.next[e]
  PROVE  Recent(N, [w EXCEPT ![s] = t], A \cup {s}, t)
<1> DEFINE v == [w EXCEPT ![s] = t]
<1>1. v \in [Elements -> Nat] /\ v[s] = t /\ \A e \in A : v[e] = w[e]
  OBVIOUS
<1>2. \A e \in A : L.next[e] \in A \cup {CtrlTail}
  BY DEF ListOver
<1>3. L.next[CtrlHdr] \in A \cup {CtrlTail}
  BY DEF ListOver
<1>4. ASSUME NEW e \in A
      PROVE  v[e] <= t /\ (N.next[e] \in Elements => v[e] >= v[N.next[e]])
  BY <1>1, <1>2, SlotFacts DEF Recent
<1>5. v[s] <= t /\ (N.next[s] \in Elements => v[s] >= v[N.next[s]])
  BY <1>1, <1>3, SlotFacts DEF Recent
<1> QED
  BY <1>4, <1>5 DEF Recent

-----------------------------------------------------------------------------
(* Each method of LRU_cache keeps the state sound.                         *)

LEMMA RecentNow == RecencyOrder <=> Recent(links, when, Allocated(links), clock)
BY DEF RecencyOrder, Recent

LEMMA WhenType ==
  ASSUME NEW w \in [Elements -> 0 .. MaxTime], NEW t \in 0 .. MaxTime, NEW s \in Elements
  PROVE  /\ [w EXCEPT ![s] = t] \in [Elements -> 0 .. MaxTime]
         /\ w \in [Elements -> Nat] /\ t \in Nat
BY CacheAssumption

LEMMA AddOK ==
  ASSUME StateOK, NEW k \in Keys, NEW v \in Values, add_el(k, v), UNCHANGED clock
  PROVE  StateOK'
<1> DEFINE s == links.next[CtrlFree]
           A == Allocated(links)
<1>1. StateType /\ LinksOK(links) /\ TableSound /\ Recent(links, when, A, clock)
  BY RecentNow DEF StateOK, LinkInv
<1>2. CASE s = NIL
  <2>1. UNCHANGED <<links, hash, when, data, table, count, freeCount>>
        /\ reason' = OutOfMemory
    BY <1>2 DEF add_el, region
  <2>2. StateType'
    BY <1>1, <2>1 DEF StateType, Reasons
  <2> QED
    BY <1>1, <2>1, <2>2 DEF StateOK, LinkInv, TableSound, RecencyOrder, Recent
<1>3. CASE s # NIL
  <2>1. /\ table' = [ table EXCEPT ![k] = s ]
        /\ links' = AddLinks(links)
        /\ when' = [ when EXCEPT ![s] = clock ]
        /\ hash' = [ hash EXCEPT ![s] = k ]
        /\ data' = [ data EXCEPT ![s] = v ]
        /\ count' = (count + 1) % CountWrap
        /\ freeCount' = OneLess(freeCount)
        /\ reason' = reason
    BY <1>3 DEF add_el
  <2>2. /\ s \in FreeOf(links)
        /\ LinksOK(links')
        /\ Allocated(links') = A \cup {s}
        /\ links'.next[s] = links.next[CtrlHdr]
        /\ \A t \in A : links'.next[t] = links.next[t]
    BY <1>1, <1>3, <2>1, AddKeeps
  <2>3. A \subseteq Elements /\ s \in Elements \ A
    BY <2>2 DEF Allocated, FreeOf
  <2>4. StateType'
    <3>1. count' \in 0 .. CountWrap - 1 /\ freeCount' \in 0 .. CountWrap - 1
      BY <1>1, <2>1, ModRange, CacheAssumption DEF StateType, OneLess
    <3>2. links' \in Links
      BY <2>2 DEF LinksOK
    <3> QED
      BY <1>1, <2>1, <2>3, <3>1, <3>2 DEF StateType
  <2>5. TableSound'
    BY <1>1, <2>1, <2>2, <2>3 DEF TableSound, StateType
  <2>6. Recent(links', when', A \cup {s}, clock)
    <3>1. when \in [Elements -> Nat] /\ clock \in Nat
      BY <1>1, CacheAssumption DEF StateType
    <3>2. links \in Links /\ links' \in Links /\ ListOver(links, A)
      BY <1>1, <2>2 DEF LinksOK
    <3> QED
      BY <1>1, <2>1, <2>2, <2>3, <3>1, <3>2, PushRecent
  <2>7. RecencyOrder'
    BY <2>2, <2>6 DEF RecencyOrder, Recent
  <2> QED
    BY <2>2, <2>4, <2>5, <2>7 DEF StateOK, LinkInv
<1> QED
  BY <1>2, <1>3

LEMMA TouchOK ==
  ASSUME StateOK, NEW s \in Elements, touch(s), UNCHANGED clock
  PROVE  /\ links' \in Links /\ LinkInv'
         /\ when' \in [Elements -> 0 .. MaxTime]
         /\ Allocated(links') = Allocated(links)
         /\ RecencyOrder'
<1> DEFINE A == Allocated(links)
           U == Unlink(links, s)
<1>1. StateType /\ LinksOK(links) /\ Recent(links, when, A, clock)
  BY RecentNow DEF StateOK, LinkInv
<1>2. CASE links.prev[s] = NIL
  <2>1. links' = links /\ when' = when
    BY <1>2 DEF touch
  <2> QED
    BY <1>1, <2>1 DEF StateType, LinkInv, RecencyOrder, Recent
<1>3. CASE links.prev[s] # NIL
  <2>1. s \in A /\ links' = TouchLinks(links, s) /\ when' = [ when EXCEPT ![s] = clock ]
    BY <1>3 DEF touch, Allocated
  <2>2. /\ LinksOK(links')
        /\ Allocated(links') = A
        /\ links'.next[s] = U.next[CtrlHdr]
        /\ \A t \in A \ {s} : links'.next[t] = U.next[t]
    BY <1>1, <2>1, TouchKeeps
  <2>3. when' \in [Elements -> 0 .. MaxTime] /\ when \in [Elements -> Nat] /\ clock \in Nat
    BY <1>1, <2>1, CacheAssumption DEF StateType
  <2>4. links \in Links /\ links' \in Links /\ ListOver(links, A)
    BY <1>1, <2>2 DEF LinksOK
  <2>5. A \in SUBSET Elements
    BY DEF Allocated
  <2>6. U \in Links /\ ListOver(U, A \ {s})
    BY <2>1, <2>4, <2>5, UnlinkList
  <2>7. Recent(U, when, A \ {s}, clock)
    BY <1>1, <2>1, <2>3, <2>4, <2>5, UnlinkRecent
  <2>8. Recent(links', when', A, clock)
    <3> DEFINE B == A \ {s}
    <3>1. B \in SUBSET Elements /\ s \in Elements \ B /\ B \cup {s} = A
      BY <2>1, <2>5
    <3>2. ListOver(U, B) /\ Recent(U, when, B, clock)
          /\ \A t \in B : links'.next[t] = U.next[t]
      BY <2>2, <2>6, <2>7
    <3> HIDE DEF A, U, B
    <3>3. Recent(links', when', B \cup {s}, clock)
      BY <2>1, <2>2, <2>3, <2>4, <2>6, <3>1, <3>2, PushRecent
    <3> QED
      BY <3>1, <3>3
  <2>9. RecencyOrder'
    BY <2>2, <2>8 DEF RecencyOrder, Recent
  <2> QED
    BY <2>2, <2>3, <2>4, <2>9 DEF LinkInv
<1> QED
  BY <1>2, <1>3

LEMMA GetOK ==
  ASSUME StateOK, NEW s \in Elements, get_el(s), UNCHANGED clock
  PROVE  StateOK'
<1>1. touch(s) /\ reason' = "OK" /\ UNCHANGED <<hash, data, table, count, freeCount>>
  BY DEF get_el
<1>2. /\ links' \in Links /\ LinkInv'
      /\ when' \in [Elements -> 0 .. MaxTime]
      /\ Allocated(links') = Allocated(links)
      /\ RecencyOrder'
  BY <1>1, TouchOK
<1>3. StateType'
  BY <1>1, <1>2 DEF StateOK, StateType, Reasons
<1>4. TableSound'
  BY <1>1, <1>2 DEF StateOK, TableSound
<1> QED
  BY <1>2, <1>3, <1>4 DEF StateOK

LEMMA UpdateOK ==
  ASSUME StateOK, NEW s \in Elements, NEW v \in Values, update_el(s, v), UNCHANGED clock
  PROVE  StateOK'
<1>1. touch(s) /\ reason' \in {"OK", "deleted"} /\ UNCHANGED <<hash, table, count, freeCount>>
  BY DEF update_el
<1>2. data' \in [Elements -> Values \cup {NIL}]
  BY DEF update_el, StateOK, StateType
<1>3. /\ links' \in Links /\ LinkInv'
      /\ when' \in [Elements -> 0 .. MaxTime]
      /\ Allocated(links') = Allocated(links)
      /\ RecencyOrder'
  BY <1>1, TouchOK
<1>4. StateType'
  BY <1>1, <1>2, <1>3 DEF StateOK, StateType, Reasons
<1>5. TableSound'
  BY <1>1, <1>3 DEF StateOK, TableSound
<1> QED
  BY <1>3, <1>4, <1>5 DEF StateOK

LEMMA DelOK ==
  ASSUME StateOK, NEW s \in Allocated(links), del_el(s), UNCHANGED clock
  PROVE  StateOK' /\ Allocated(links') = Allocated(links) \ {s}
<1> DEFINE A == Allocated(links)
           U == Unlink(links, s)
<1>1. StateType /\ LinksOK(links) /\ TableSound /\ Recent(links, when, A, clock)
  BY RecentNow DEF StateOK, LinkInv
<1>2. A \in SUBSET Elements /\ s \in Elements /\ ~AlreadyDeleted(s)
  BY DEF Allocated, AlreadyDeleted
<1>3. /\ UNCHANGED <<when, data, count>>
      /\ reason' = "OK"
      /\ links' = DelLinks(links, s)
      /\ hash' = [ hash EXCEPT ![s] = Max64 ]
      /\ table' = [ table EXCEPT ![hash[s]] = NIL ]
      /\ freeCount' = (freeCount + 1) % CountWrap
  BY <1>2 DEF del_el, remove_key
<1>4. /\ LinksOK(links')
      /\ Allocated(links') = A \ {s}
      /\ \A t \in A \ {s} : links'.next[t] = U.next[t]
  BY <1>1, <1>3, DelKeeps
<1>5. StateType'
  <2>1. freeCount' \in 0 .. CountWrap - 1
    BY <1>1, <1>3, ModRange, CacheAssumption DEF StateType
  <2>2. links' \in Links
    BY <1>4 DEF LinksOK
  <2> QED
    BY <1>1, <1>2, <1>3, <2>1, <2>2, WordFacts DEF StateType, Reasons
<1>6. TableSound'
  BY <1>1, <1>2, <1>3, <1>4, WordFacts DEF TableSound, StateType
<1>7. RecencyOrder'
  <2>1. when \in [Elements -> Nat] /\ clock \in Nat
    BY <1>1, CacheAssumption DEF StateType
  <2>2. links \in Links /\ ListOver(links, A)
    BY <1>1 DEF LinksOK
  <2>3. Recent(U, when, A \ {s}, clock)
    BY <1>1, <1>2, <2>1, <2>2, UnlinkRecent
  <2> QED
    BY <1>3, <1>4, <2>3 DEF RecencyOrder, Recent
<1> QED
  BY <1>4, <1>5, <1>6, <1>7 DEF StateOK, LinkInv

LEMMA StoreOK ==
  ASSUME StateOK, NEW k \in Keys, NEW v \in Values, store(k, v), UNCHANGED clock
  PROVE  StateOK'
<1>1. CASE table[k] = NIL
  BY <1>1, AddOK DEF store
<1>2. CASE table[k] # NIL
  <2>1. table[k] \in Elements /\ update_el(table[k], v)
    BY <1>2 DEF store, StateOK, StateType
  <2> QED
    BY <2>1, UpdateOK
<1> QED
  BY <1>1, <1>2

-----------------------------------------------------------------------------
(* The invariant holds at the start and every step keeps it.               *)

LEMMA IInit == Init => IInv
<1> SUFFICES ASSUME Init PROVE IInv
  OBVIOUS
<1>1. LinkInv /\ links \in Links /\ Allocated(links) = {}
  <2>1. LinksOK(links) /\ Allocated(links) = {}
    BY SetupKeeps DEF Init
  <2> QED
    BY <2>1 DEF LinkInv, LinksOK
<1>2. freeCount \in 0 .. CountWrap - 1
  <2>1. freeCount = Cardinality(Elements) % CountWrap
    BY DEF Init
  <2>2. Cardinality(Elements) \in Int /\ CountWrap \in Nat \ {0}
    BY CountFacts, CacheAssumption
  <2> QED
    BY <2>1, <2>2, ModRange
<1>3. StateType
  BY <1>1, <1>2, CountFacts, WordFacts, CacheAssumption DEF Init, StateType, Reasons
<1>4. TableSound /\ RecencyOrder
  BY <1>1 DEF Init, TableSound, RecencyOrder
<1>5. call \in Calls /\ WalkOnList
  BY DEF Init, Calls, WalkOnList, Idle
<1> QED
  BY <1>1, <1>3, <1>4, <1>5 DEF IInv, StateOK

(* What a step that leaves the region alone has to show.                   *)
LEMMA QuietOK ==
  ASSUME StateOK, UNCHANGED region, TableSound', clock <= clock',
         table' \in [Keys -> Elements \cup {NIL}],
         count' \in 0 .. CountWrap - 1, UNCHANGED freeCount,
         reason' \in Reasons, clock' \in 0 .. MaxTime
  PROVE  StateOK'
<1>1. StateType'
  BY DEF StateOK, StateType, region
<1>2. LinkInv'
  BY DEF StateOK, LinkInv, region
<1>3. RecencyOrder'
  <2>1. \A s \in Allocated(links) : when[s] \in Nat /\ when[s] <= clock
    BY CacheAssumption DEF StateOK, StateType, RecencyOrder, Allocated
  <2>2. clock \in Nat /\ clock' \in Nat /\ UNCHANGED <<links, when>>
    BY CacheAssumption DEF StateOK, StateType, region
  <2>3. \A s \in Allocated(links) : when[s] <= clock'
    BY <2>1, <2>2
  <2> QED
    BY <2>2, <2>3 DEF StateOK, RecencyOrder
<1> QED
  BY <1>1, <1>2, <1>3 DEF StateOK

LEMMA CallFacts ==
  /\ Idle \in Calls /\ Idle.op = "idle"
  /\ \A c \in Calls : c.op = "set_many" =>
       /\ c = [op |-> "set_many", rest |-> c.rest]
       /\ c.rest \in Seq(Pairs \X Values) \ {<<>>}
  /\ \A c \in Calls : c.op = "evict" =>
       /\ c = [op |-> "evict", cutoff |-> c.cutoff, max |-> c.max, done |-> c.done]
       /\ c.cutoff \in Int /\ c.max \in 0 .. ByteWrap - 1 /\ c.done \in Nat
  /\ \A c \in Calls : c.op = "reload" =>
       /\ c = [op |-> "reload", at |-> c.at, seen |-> c.seen]
       /\ c.at \in Slots /\ c.seen \in Nat
BY DEF Calls, Idle

(* Every step but those of a reload leaves the walk out of the question:   *)
(* the call it ends with is none, or another loop, or it moves nothing.    *)
LEMMA IStep ==
  ASSUME CarefulDelete, IInv, [Next]_vars
  PROVE  IInv'
<1> USE DEF IInv
<1>1. StateOK /\ StateType /\ call \in Calls /\ Allocated(links) \subseteq Elements
  BY DEF StateOK, Allocated
<1>2. ASSUME NEW p \in Pairs, NEW v \in Values, SetEl(p, v) PROVE IInv'
  <2>1. StateOK'
    BY <1>1, <1>2, StoreOK, WordFacts DEF SetEl
  <2> QED
    BY <1>1, <1>2, <2>1, CallFacts DEF SetEl, WalkOnList
<1>3. ASSUME NEW p \in Pairs, GetElHash(p) PROVE IInv'
  <2>1. table[GetKey(p)] \in Elements
    BY <1>1, <1>3, WordFacts DEF GetElHash, StateType
  <2>2. StateOK'
    BY <1>1, <1>3, <2>1, GetOK DEF GetElHash
  <2> QED
    BY <1>1, <1>3, <2>2, CallFacts DEF GetElHash, WalkOnList
<1>4. ASSUME NEW p \in Pairs, DelKey(p) PROVE IInv'
  <2>1. table[GetKey(p)] \in Allocated(links)
    BY <1>1, <1>4, WordFacts DEF DelKey, StateOK, TableSound
  <2>2. StateOK'
    BY <1>1, <1>4, <2>1, DelOK DEF DelKey
  <2> QED
    BY <1>1, <1>4, <2>2, CallFacts DEF DelKey, WalkOnList
<1>5. ASSUME NEW p \in Pairs, RemoveKey(p) PROVE IInv'
  <2>1. table' \in [Keys -> Elements \cup {NIL}] /\ TableSound'
    BY <1>1, <1>5, WordFacts
    DEF RemoveKey, remove_key, region, StateType, StateOK, TableSound
  <2>2. StateOK'
    BY <1>1, <1>5, <2>1, QuietOK DEF RemoveKey, StateType
  <2> QED
    BY <1>1, <1>5, <2>2, CallFacts DEF RemoveKey, WalkOnList
<1>6. ASSUME NEW s \in Elements, GetEl(s) PROVE IInv'
  <2>1. StateOK'
    BY <1>1, <1>6, GetOK DEF GetEl
  <2> QED
    BY <1>1, <1>6, <2>1, CallFacts DEF GetEl, WalkOnList
<1>7. ASSUME NEW s \in Elements, DelEl(s) PROVE IInv'
  <2>1. s \in Allocated(links)
    BY <1>7 DEF DelEl
  <2>2. StateOK'
    BY <1>1, <1>7, <2>1, DelOK DEF DelEl
  <2> QED
    BY <1>1, <1>7, <2>2, CallFacts DEF DelEl, WalkOnList
<1>8. CASE RejectedOffset \/ GetLastReason
  <2>1. UNCHANGED <<region, table, count, freeCount, clock, call>> /\ reason' \in Reasons
        /\ call = Idle
    BY <1>8 DEF RejectedOffset, GetLastReason, Reasons
  <2>2. TableSound'
    BY <1>1, <2>1 DEF region, StateOK, TableSound
  <2>3. StateOK'
    BY <1>1, <2>1, <2>2, QuietOK, CacheAssumption DEF StateType
  <2> QED
    BY <1>1, <2>1, <2>3, CallFacts DEF WalkOnList
<1>9. ASSUME NEW batch \in Batches, SetMany(batch) PROVE IInv'
  <2>1. call' \in Calls /\ call'.op = "set_many"
    BY <1>9, CacheAssumption DEF SetMany, Calls, Batches
  <2>2. UNCHANGED <<region, table, count, freeCount, reason, clock>>
    BY <1>9 DEF SetMany
  <2>3. TableSound'
    BY <1>1, <2>2 DEF region, StateOK, TableSound
  <2>4. StateOK'
    BY <1>1, <2>2, <2>3, QuietOK, CacheAssumption DEF StateType
  <2> QED
    BY <2>1, <2>4 DEF WalkOnList
<1>10. ASSUME NEW age \in 0 .. MaxTime, NEW n \in 0 .. MaxEvict, RunLruEviction(age, n)
       PROVE IInv'
  <2>1. call' \in Calls /\ call'.op = "evict"
    <3>1. clock - age \in Int /\ n % ByteWrap \in 0 .. ByteWrap - 1
      BY <1>1, ModRange, CacheAssumption DEF StateType
    <3> QED
      BY <1>10, <3>1 DEF RunLruEviction, Calls
  <2>2. UNCHANGED <<region, table, count, freeCount, reason, clock>>
    BY <1>10 DEF RunLruEviction
  <2>3. TableSound'
    BY <1>1, <2>2 DEF region, StateOK, TableSound
  <2>4. StateOK'
    BY <1>1, <2>2, <2>3, QuietOK, CacheAssumption DEF StateType
  <2> QED
    BY <2>1, <2>4 DEF WalkOnList
<1>11. CASE ReloadHashMap
  <2>1. links.next[CtrlHdr] \in Allocated(links) \cup {CtrlTail}
    BY <1>1 DEF StateOK, LinkInv, LinksOK, ListOver
  <2>2. call' \in Calls /\ WalkOnList'
    BY <1>1, <1>11, <2>1, SlotFacts DEF ReloadHashMap, Calls, WalkOnList, region
  <2>3. table' \in [Keys -> Elements \cup {NIL}] /\ TableSound'
        /\ UNCHANGED <<region, count, freeCount, reason, clock>>
    BY <1>11 DEF ReloadHashMap, TableSound
  <2>4. StateOK'
    BY <1>1, <2>3, QuietOK, CacheAssumption DEF StateType
  <2> QED
    BY <2>2, <2>4
<1>12. CASE SetManyStep
  <2>1. call.op = "set_many" /\ NextItem /\ UNCHANGED clock
        /\ store(GetKey(Head(call.rest)[1]), Head(call.rest)[2])
    BY <1>12 DEF SetManyStep
  <2>2. call.rest \in Seq(Pairs \X Values) \ {<<>>}
        /\ call = [op |-> "set_many", rest |-> call.rest]
    BY <1>1, <2>1, CallFacts
  <2>3. Head(call.rest)[1] \in Pairs /\ Head(call.rest)[2] \in Values
    BY <2>2
  <2>4. StateOK'
    BY <1>1, <2>1, <2>3, StoreOK, WordFacts
  <2>5. call' \in Calls /\ call'.op # "reload"
    <3>1. CASE Len(call.rest) = 1
      BY <2>1, <3>1, CallFacts DEF NextItem
    <3>2. CASE Len(call.rest) # 1
      <4>1. call' = [op |-> "set_many", rest |-> Tail(call.rest)]
        BY <2>1, <2>2, <3>2 DEF NextItem
      <4>2. Tail(call.rest) \in Seq(Pairs \X Values) \ {<<>>}
        BY <2>2, <3>2, TailFacts
      <4> QED
        BY <4>1, <4>2 DEF Calls
    <3> QED
      BY <3>1, <3>2
  <2> QED
    BY <2>4, <2>5 DEF WalkOnList
<1>13. CASE EvictStep
  <2>1. links.prev[CtrlTail] \in Allocated(links) \cup {CtrlHdr}
    BY <1>1 DEF StateOK, LinkInv, LinksOK, ListOver
  <2>2. CASE Oldest = CtrlHdr
    <3>1. UNCHANGED <<region, table, count, freeCount, reason, clock>> /\ call' = Idle
      BY <1>13, <2>2 DEF EvictStep
    <3>2. TableSound'
      BY <1>1, <3>1 DEF region, StateOK, TableSound
    <3>3. StateOK'
      BY <1>1, <3>1, <3>2, QuietOK, CacheAssumption DEF StateType
    <3> QED
      BY <3>1, <3>3, CallFacts DEF WalkOnList
  <2>3. CASE Oldest # CtrlHdr
    <3>1. Oldest \in Allocated(links) /\ del_el(Oldest) /\ UNCHANGED clock
      BY <1>13, <2>1, <2>3 DEF EvictStep, Oldest
    <3>2. StateOK'
      BY <1>1, <3>1, DelOK
    <3>3. call' \in Calls /\ call'.op # "reload"
      <4>1. call' = Idle \/ call' = [call EXCEPT !.done = @ + 1]
        BY <1>13, <2>3 DEF EvictStep
      <4>2. call = [op |-> "evict", cutoff |-> call.cutoff, max |-> call.max, done |-> call.done]
            /\ call.cutoff \in Int /\ call.max \in 0 .. ByteWrap - 1 /\ call.done \in Nat
        BY <1>1, <1>13, CallFacts DEF EvictStep
      <4>3. [call EXCEPT !.done = @ + 1]
              = [op |-> "evict", cutoff |-> call.cutoff, max |-> call.max, done |-> call.done + 1]
        BY <4>2
      <4> QED
        BY <4>1, <4>2, <4>3, CallFacts DEF Calls
    <3> QED
      BY <3>2, <3>3 DEF WalkOnList
  <2> QED
    BY <2>2, <2>3
<1>14. CASE ReloadStep
  <2>1. /\ call.op = "reload" /\ UNCHANGED <<region, freeCount, reason, clock>>
        /\ call = [op |-> "reload", at |-> call.at, seen |-> call.seen]
        /\ call.at \in Allocated(links) \cup {CtrlTail} /\ call.seen \in Nat
    BY <1>1, <1>14, CallFacts DEF ReloadStep, WalkOnList
  <2>2. CASE WalkEnd(call.seen) \/ WalkEnd(call.seen + 1)
    <3>1. PICK n \in Nat : WalkEnd(n)
      BY <2>1, <2>2
    <3>2. count' \in 0 .. CountWrap - 1
      <4>1. count' = (n - count) % CountWrap /\ n - count \in Int
        BY <1>1, <3>1 DEF WalkEnd, StateType
      <4> QED
        BY <4>1, ModRange, CacheAssumption
    <3>3. call' = Idle /\ table' = table
      BY <3>1 DEF WalkEnd
    <3>4. TableSound'
      BY <1>1, <2>1, <3>3 DEF region, StateOK, TableSound
    <3>5. StateOK'
      BY <1>1, <2>1, <3>2, <3>3, <3>4, QuietOK DEF StateType
    <3> QED
      BY <3>3, <3>5, CallFacts DEF WalkOnList
  <2>3. CASE links.next[call.at] # NIL /\ WalkNext(call.at)
    <3>1. call.at \in Allocated(links)
      BY <1>1, <2>1, <2>3 DEF StateOK, LinkInv, LinksOK, ListOver
    <3>2. links.next[call.at] \in Allocated(links) \cup {CtrlTail}
      BY <1>1, <3>1 DEF StateOK, LinkInv, LinksOK, ListOver
    <3>3. /\ table' = [ table EXCEPT ![hash[call.at]] = call.at ]
          /\ call' = [op |-> "reload", at |-> links.next[call.at], seen |-> call.seen + 1]
          /\ count' = count
      BY <2>1, <2>3 DEF WalkNext
    <3>4. table' \in [Keys -> Elements \cup {NIL}] /\ TableSound'
      BY <1>1, <2>1, <3>1, <3>3 DEF StateType, StateOK, TableSound, region
    <3>5. StateOK'
      BY <1>1, <2>1, <3>3, <3>4, QuietOK DEF StateType
    <3>6. call' \in Calls /\ WalkOnList'
      BY <1>1, <2>1, <3>2, <3>3, SlotFacts DEF Calls, WalkOnList, region
    <3> QED
      BY <3>5, <3>6
  <2> QED
    BY <1>14, <2>2, <2>3 DEF ReloadStep
<1>15. CASE Tick
  <2>1. /\ clock' \in 0 .. MaxTime /\ clock <= clock'
        /\ UNCHANGED <<region, table, count, freeCount, reason, call>>
    BY <1>1, <1>15, CacheAssumption DEF Tick, StateType
  <2>2. TableSound'
    BY <1>1, <2>1 DEF region, StateOK, TableSound
  <2>3. StateOK'
    BY <1>1, <2>1, <2>2, QuietOK DEF StateType
  <2> QED
    BY <2>1, <2>3 DEF WalkOnList, region
<1>16. CASE UNCHANGED vars
  BY <1>16 DEF vars, StateOK, StateType, LinkInv, TableSound, RecencyOrder, WalkOnList
<1> QED
  BY <1>2, <1>3, <1>4, <1>5, <1>6, <1>7, <1>8, <1>9, <1>10, <1>11, <1>12, <1>13,
     <1>14, <1>15, <1>16 DEF Next, LoopStep

(* del_el on stored elements only: every call and every loop keeps IInv.   *)
THEOREM Invariance == ASSUME CarefulDelete PROVE Spec => []IInv
<1>1. IInv /\ [Next]_vars => IInv'
  BY IStep
<1> QED
  BY <1>1, IInit, PTL DEF Spec

-----------------------------------------------------------------------------
(* No sequence of calls takes a variable out of its type: counters stay    *)
(* within 16 bits, table and links lead to elements of the region.         *)
THEOREM TypeCorrect == ASSUME CarefulDelete PROVE Spec => []TypeOK
<1>1. IInv => TypeOK
  BY DEF IInv, StateOK, StateType, TypeOK
<1> QED
  BY <1>1, Invariance, PTL

(* Add, touch, delete and evict, in any order, leave two lists that are    *)
(* linked as add_el, touch and del_el expect them.                         *)
THEOREM LinksCorrect == ASSUME CarefulDelete PROVE Spec => []LinkInv
<1>1. IInv => LinkInv
  BY DEF IInv, StateOK
<1> QED
  BY <1>1, Invariance, PTL

(* check_for_hash never leads to a deleted element nor to the element of   *)
(* another key, whatever the callers remove or reload.                     *)
THEOREM TableCorrect == ASSUME CarefulDelete PROVE Spec => []TableSound
<1>1. IInv => TableSound
  BY DEF IInv, StateOK
<1> QED
  BY <1>1, Invariance, PTL

(* The list is in order of use, so the tail evict_least_used deletes is    *)
(* the least recently used element.                                        *)
THEOREM RecencyCorrect == ASSUME CarefulDelete PROVE Spec => []RecencyOrder
<1>1. IInv => RecencyOrder
  BY DEF IInv, StateOK
<1> QED
  BY <1>1, Invariance, PTL

-----------------------------------------------------------------------------
(* The counter of free elements, as long as 16 bits hold their number.     *)

LEMMA FreeFacts ==
  ASSUME NEW L \in Links
  PROVE  /\ FreeOf(L) = Elements \ Allocated(L)
         /\ IsFiniteSet(FreeOf(L)) /\ Cardinality(FreeOf(L)) \in Nat
         /\ Cardinality(FreeOf(L)) <= Cardinality(Elements)
<1>1. IsFiniteSet(Elements)
  BY CountFacts
<1>2. FreeOf(L) \subseteq Elements
  BY DEF FreeOf
<1>3. IsFiniteSet(FreeOf(L)) /\ Cardinality(FreeOf(L)) <= Cardinality(Elements)
  BY <1>1, <1>2, FS_Subset
<1>4. FreeOf(L) = Elements \ Allocated(L)
  BY DEF FreeOf, Allocated
<1> QED
  BY <1>3, <1>4, FS_CardinalityType

LEMMA AddCounts ==
  ASSUME StateOK, FreeCountExact, NEW k \in Keys, NEW v \in Values, add_el(k, v)
  PROVE  FreeCountExact'
<1>1. links \in Links /\ LinksOK(links)
  BY DEF StateOK, StateType, LinkInv
<1>2. CASE links.next[CtrlFree] = NIL
  BY <1>2 DEF add_el, region, FreeCountExact
<1>3. CASE links.next[CtrlFree] # NIL
  <2> DEFINE s == links.next[CtrlFree]
             F == FreeOf(links)
  <2>1. links' = AddLinks(links) /\ freeCount' = OneLess(freeCount)
    BY <1>3 DEF add_el
  <2>2. /\ s \in F /\ links' \in Links
        /\ Allocated(links') = Allocated(links) \cup {s}
    BY <1>1, <1>3, <2>1, AddKeeps DEF LinksOK
  <2>3. FreeOf(links') = F \ {s} /\ IsFiniteSet(F)
    BY <1>1, <2>2, FreeFacts
  <2>4. Cardinality(F \ {s}) = Cardinality(F) - 1 /\ Cardinality(F) \in Nat
        /\ Cardinality(F \ {s}) \in Nat
    BY <2>2, <2>3, FS_RemoveElement, FS_CardinalityType
  <2>5. Cardinality(F) > 0
    BY <2>4
  <2> QED
    BY <2>1, <2>3, <2>4, <2>5 DEF FreeCountExact, OneLess
<1> QED
  BY <1>2, <1>3

LEMMA TouchCounts ==
  ASSUME StateOK, FreeCountExact, NEW s \in Elements, touch(s), UNCHANGED freeCount
  PROVE  FreeCountExact'
<1>1. links \in Links /\ LinksOK(links)
  BY DEF StateOK, StateType, LinkInv
<1>2. CASE links.prev[s] = NIL
  BY <1>2 DEF touch, FreeCountExact
<1>3. CASE links.prev[s] # NIL
  <2>1. s \in Allocated(links) /\ links' = TouchLinks(links, s)
    BY <1>3 DEF touch, Allocated
  <2>2. links' \in Links /\ Allocated(links') = Allocated(links)
    BY <1>1, <2>1, TouchKeeps DEF LinksOK
  <2>3. FreeOf(links') = FreeOf(links)
    BY <1>1, <2>2, FreeFacts
  <2> QED
    BY <2>3 DEF FreeCountExact
<1> QED
  BY <1>2, <1>3

LEMMA DelCounts ==
  ASSUME StateOK, FreeCountExact, NEW s \in Allocated(links), del_el(s)
  PROVE  FreeCountExact'
<1> DEFINE F == FreeOf(links)
<1>1. links \in Links /\ LinksOK(links)
  BY DEF StateOK, StateType, LinkInv
<1>2. s \in Elements /\ s \notin F /\ ~AlreadyDeleted(s)
  BY DEF Allocated, FreeOf, AlreadyDeleted
<1>3. links' = DelLinks(links, s) /\ freeCount' = (freeCount + 1) % CountWrap
  BY <1>2 DEF del_el
<1>4. links' \in Links /\ Allocated(links') = Allocated(links) \ {s}
  BY <1>1, <1>3, DelKeeps DEF LinksOK
<1>5. FreeOf(links') = F \cup {s} /\ IsFiniteSet(F)
  BY <1>1, <1>2, <1>4, FreeFacts
<1>6. Cardinality(F \cup {s}) = Cardinality(F) + 1
  BY <1>2, <1>5, FS_AddElement
<1>7. Cardinality(F) \in Nat /\ Cardinality(F) + 1 <= Cardinality(Elements)
  BY <1>1, <1>4, <1>5, <1>6, FreeFacts
<1>8. ASSUME Cardinality(Elements) < CountWrap
      PROVE  (Cardinality(F) + 1) % CountWrap = Cardinality(F) + 1
  BY <1>7, <1>8, CountFacts, CacheAssumption
<1> QED
  BY <1>3, <1>5, <1>6, <1>8 DEF FreeCountExact

LEMMA StoreCounts ==
  ASSUME StateOK, FreeCountExact, NEW k \in Keys, NEW v \in Values, store(k, v)
  PROVE  FreeCountExact'
<1>1. CASE table[k] = NIL
  BY <1>1, AddCounts DEF store
<1>2. CASE table[k] # NIL
  <2>1. table[k] \in Elements /\ touch(table[k]) /\ UNCHANGED freeCount
    BY <1>2 DEF store, update_el, StateOK, StateType
  <2> QED
    BY <2>1, TouchCounts
<1> QED
  BY <1>1, <1>2

LEMMA FreeStep ==
  ASSUME CarefulDelete, IInv, FreeCountExact, [Next]_vars
  PROVE  FreeCountExact'
<1>1. StateOK /\ StateType /\ call \in Calls /\ LinksOK(links)
  BY DEF IInv, StateOK, LinkInv
<1>2. CASE UNCHANGED <<links, freeCount>>
  BY <1>2 DEF FreeCountExact
<1>3. ASSUME NEW p \in Pairs, NEW v \in Values, SetEl(p, v) PROVE FreeCountExact'
  BY <1>1, <1>3, StoreCounts, WordFacts DEF SetEl
<1>4. ASSUME NEW p \in Pairs, GetElHash(p) PROVE FreeCountExact'
  <2>1. table[GetKey(p)] \in Elements
    BY <1>1, <1>4, WordFacts DEF GetElHash, StateType
  <2> QED
    BY <1>1, <1>4, <2>1, TouchCounts DEF GetElHash, get_el
<1>5. ASSUME NEW p \in Pairs, DelKey(p) PROVE FreeCountExact'
  <2>1. table[GetKey(p)] \in Allocated(links)
    BY <1>1, <1>5, WordFacts DEF DelKey, StateOK, TableSound
  <2> QED
    BY <1>1, <1>5, <2>1, DelCounts DEF DelKey
<1>6. ASSUME NEW s \in Elements, GetEl(s) PROVE FreeCountExact'
  BY <1>1, <1>6, TouchCounts DEF GetEl, get_el
<1>7. ASSUME NEW s \in Elements, DelEl(s) PROVE FreeCountExact'
  <2>1. s \in Allocated(links)
    BY <1>7 DEF DelEl
  <2> QED
    BY <1>1, <1>7, <2>1, DelCounts DEF DelEl
<1>8. CASE SetManyStep
  <2>1. call.rest \in Seq(Pairs \X Values) \ {<<>>}
        /\ store(GetKey(Head(call.rest)[1]), Head(call.rest)[2])
    BY <1>1, <1>8, CallFacts DEF SetManyStep
  <2>2. Head(call.rest)[1] \in Pairs /\ Head(call.rest)[2] \in Values
    BY <2>1
  <2> QED
    BY <1>1, <2>1, <2>2, StoreCounts, WordFacts
<1>9. CASE EvictStep
  <2>1. CASE Oldest = CtrlHdr
    BY <1>2, <1>9, <2>1 DEF EvictStep, region
  <2>2. CASE Oldest # CtrlHdr
    <3>1. Oldest \in Allocated(links) /\ del_el(Oldest)
      BY <1>1, <1>9, <2>2 DEF EvictStep, Oldest, LinksOK, ListOver
    <3> QED
      BY <1>1, <3>1, DelCounts
  <2> QED
    BY <2>1, <2>2
<1>10. ASSUME NEW p \in Pairs, RemoveKey(p) PROVE FreeCountExact'
  BY <1>2, <1>10 DEF RemoveKey, region
<1>11. CASE RejectedOffset \/ GetLastReason \/ ReloadHashMap \/ ReloadStep \/ Tick
  BY <1>2, <1>11
  DEF RejectedOffset, GetLastReason, ReloadHashMap, ReloadStep, Tick, region
<1>12. CASE \/ \E batch \in Batches : SetMany(batch)
            \/ \E age \in 0 .. MaxTime, n \in 0 .. MaxEvict : RunLruEviction(age, n)
  BY <1>2, <1>12 DEF SetMany, RunLruEviction, region
<1>13. CASE UNCHANGED vars
  BY <1>2, <1>13 DEF vars
<1> QED
  BY <1>3, <1>4, <1>5, <1>6, <1>7, <1>8, <1>9, <1>10, <1>11, <1>12, <1>13
  DEF Next, LoopStep

(* _count_free is the length of the free list after any calls, which is    *)
(* what free_count reports.                                                *)
THEOREM FreeCountCorrect == ASSUME CarefulDelete PROVE Spec => []FreeCountExact
<1>1. Init => FreeCountExact
  <2> SUFFICES ASSUME Init, Cardinality(Elements) < CountWrap
               PROVE  freeCount = Cardinality(FreeOf(links))
    BY DEF FreeCountExact
  <2>1. links \in Links /\ Allocated(links) = {}
    BY SetupKeeps DEF Init, LinksOK
  <2>2. FreeOf(links) = Elements
    BY <2>1, FreeFacts
  <2>3. freeCount = Cardinality(Elements) % CountWrap
    BY DEF Init
  <2>4. Cardinality(Elements) % CountWrap = Cardinality(Elements)
    BY CountFacts, CacheAssumption
  <2> QED
    BY <2>2, <2>3, <2>4
<1>2. IInv /\ FreeCountExact /\ [Next]_vars => FreeCountExact'
  BY FreeStep
<1> QED
  BY <1>1, <1>2, Invariance, PTL DEF Spec

-----------------------------------------------------------------------------
(* The lists as a whole.                                                   *)

(* All that a step does to the links.                                      *)
LEMMA LinkSteps ==
  ASSUME CarefulDelete, IInv, [Next]_vars
  PROVE  \/ links' = links
         \/ links.next[CtrlFree] # NIL /\ links' = AddLinks(links)
         \/ \E s \in Allocated(links) :
              links' = TouchLinks(links, s) \/ links' = DelLinks(links, s)
<1> DEFINE Moves == \/ links' = links
                    \/ links.next[CtrlFree] # NIL /\ links' = AddLinks(links)
                    \/ \E s \in Allocated(links) :
                         links' = TouchLinks(links, s) \/ links' = DelLinks(links, s)
<1> SUFFICES Moves
  OBVIOUS
<1>1. StateOK /\ StateType /\ call \in Calls /\ LinksOK(links)
  BY DEF IInv, StateOK, LinkInv
<1>2. ASSUME NEW k \in Keys, NEW v \in Values, add_el(k, v) PROVE Moves
  BY <1>2 DEF add_el, region
<1>3. ASSUME NEW s \in Elements, touch(s) PROVE Moves
  BY <1>3 DEF touch, Allocated
<1>4. ASSUME NEW s \in Allocated(links), del_el(s) PROVE Moves
  BY <1>4 DEF del_el, AlreadyDeleted
<1>5. ASSUME NEW k \in Keys, NEW v \in Values, store(k, v) PROVE Moves
  <2>1. CASE table[k] = NIL
    BY <1>2, <1>5, <2>1 DEF store
  <2>2. CASE table[k] # NIL
    <3>1. table[k] \in Elements /\ touch(table[k])
      BY <1>1, <1>5, <2>2 DEF store, update_el, StateType
    <3> QED
      BY <1>3, <3>1
  <2> QED
    BY <2>1, <2>2
<1>6. CASE links' = links
  BY <1>6
<1> HIDE DEF Moves
<1>7. ASSUME NEW p \in Pairs, NEW v \in Values, SetEl(p, v) PROVE Moves
  BY <1>5, <1>7, WordFacts DEF SetEl
<1>8. ASSUME NEW p \in Pairs, GetElHash(p) PROVE Moves
  <2>1. table[GetKey(p)] \in Elements
    BY <1>1, <1>8, WordFacts DEF GetElHash, StateType
  <2> QED
    BY <1>3, <1>8, <2>1 DEF GetElHash, get_el
<1>9. ASSUME NEW p \in Pairs, DelKey(p) PROVE Moves
  <2>1. table[GetKey(p)] \in Allocated(links)
    BY <1>1, <1>9, WordFacts DEF DelKey, StateOK, TableSound
  <2> QED
    BY <1>4, <1>9, <2>1 DEF DelKey
<1>10. ASSUME NEW s \in Elements, GetEl(s) \/ DelEl(s) PROVE Moves
  <2>1. CASE GetEl(s)
    BY <1>3, <2>1 DEF GetEl, get_el
  <2>2. CASE DelEl(s)
    BY <1>4, <2>2 DEF DelEl
  <2> QED
    BY <1>10, <2>1, <2>2
<1>11. CASE SetManyStep
  <2>1. call.rest \in Seq(Pairs \X Values) \ {<<>>}
        /\ store(GetKey(Head(call.rest)[1]), Head(call.rest)[2])
    BY <1>1, <1>11, CallFacts DEF SetManyStep
  <2>2. Head(call.rest)[1] \in Pairs /\ Head(call.rest)[2] \in Values
    BY <2>1
  <2> QED
    BY <1>5, <2>1, <2>2, WordFacts
<1>12. CASE EvictStep
  <2>1. CASE Oldest = CtrlHdr
    BY <1>6, <1>12, <2>1 DEF EvictStep, region
  <2>2. CASE Oldest # CtrlHdr
    <3>1. Oldest \in Allocated(links) /\ del_el(Oldest)
      BY <1>1, <1>12, <2>2 DEF EvictStep, Oldest, LinksOK, ListOver
    <3> QED
      BY <1>4, <3>1
  <2> QED
    BY <2>1, <2>2
<1>13. CASE (\E p \in Pairs : RemoveKey(p)) \/ RejectedOffset \/ GetLastReason
            \/ ReloadHashMap \/ ReloadStep \/ Tick \/ UNCHANGED vars
  BY <1>6, <1>13
  DEF RemoveKey, RejectedOffset, GetLastReason, ReloadHashMap, ReloadStep, Tick, region, vars
<1>14. CASE \/ \E batch \in Batches : SetMany(batch)
            \/ \E age \in 0 .. MaxTime, n \in 0 .. MaxEvict : RunLruEviction(age, n)
  BY <1>6, <1>14 DEF SetMany, RunLruEviction, region
<1> QED
  BY <1>7, <1>8, <1>9, <1>10, <1>11, <1>12, <1>13, <1>14 DEF Next, LoopStep

(* No circle beside the list, and no element that neither list holds.      *)
ListInv == Threaded(links)

LEMMA ListInit == Init => ListInv
BY SetupThreads DEF Init, ListInv

LEMMA ListStep ==
  ASSUME CarefulDelete, IInv, ListInv, [Next]_vars
  PROVE  ListInv'
BY LinkSteps, AddThreads, TouchThreads, DelThreads DEF ListInv

(* Whatever the calls, the lists stay chains that end.                     *)
THEOREM ListInvariance == ASSUME CarefulDelete PROVE Spec => []ListInv
<1>1. IInv /\ ListInv /\ [Next]_vars => ListInv'
  BY ListStep
<1> QED
  BY <1>1, ListInit, Invariance, PTL DEF Spec

(* Whatever is added, used, deleted and evicted, the two walks of the list *)
(* meet every stored element once, in opposite orders, and the free list   *)
(* holds every other one: no element is lost and none is handed out twice. *)
THEOREM NothingLost == ASSUME CarefulDelete PROVE Spec => []ListSound
<1>1. ASSUME ListInv PROVE ListSound
  <2> DEFINE A == Allocated(links)
             n == Cardinality(A)
             E == FreeOf(links)
             f == Forward(links)
             b == Backward(links)
             free == FreeTrail(links)
  <2>1. Threaded(links) /\ A \in SUBSET Elements /\ E \in SUBSET Elements
    BY <1>1 DEF ListInv, Allocated, FreeOf
  <2>2. /\ Lists(f, links.next, CtrlHdr, CtrlTail, A)
        /\ Lists(b, links.prev, CtrlTail, CtrlHdr, A)
        /\ Lists(free, links.next, CtrlFree, NIL, E)
    BY <2>1, ForwardLists, BackwardLists, FreeLists
  <2>3. \A i \in 1 .. n : f[i] = b[n + 1 - i]
    BY <2>1, ListsMirror
  <2> HIDE DEF A, E, f, b, free
  <2>4. /\ Len(f) = n /\ DOMAIN f = 1 .. n
        /\ Len(b) = n /\ DOMAIN b = 1 .. n
        /\ Len(free) = Cardinality(E) /\ DOMAIN free = 1 .. Cardinality(E)
    BY <2>1, <2>2, ListIsSeq
  <2>5. { f[i] : i \in DOMAIN f } = A
    BY <2>2, <2>4 DEF Lists
  <2>6. { free[i] : i \in DOMAIN free } = E
    BY <2>2, <2>4 DEF Lists
  <2> HIDE DEF n
  <2>7. /\ Len(f) = Len(b) /\ \A i \in DOMAIN f : f[i] = b[Len(b) + 1 - i]
        /\ Len(f) = Cardinality(A) /\ Len(free) = Cardinality(E)
    BY <2>3, <2>4 DEF n
  <2> QED
    BY <2>5, <2>6, <2>7 DEF ListSound, A, E, f, b, free
<1> QED
  BY <1>1, ListInvariance, PTL

-----------------------------------------------------------------------------
(* The eviction.                                                           *)

(* The element at the tail has not been used after any other.              *)
LEMMA OldestIsOldest ==
  ASSUME IInv, ListInv, NEW s \in Allocated(links)
  PROVE  Oldest \in Allocated(links) /\ when[Oldest] <= when[s]
<1> DEFINE A == Allocated(links)
<1>1. /\ ListOver(links, A) /\ RecencyOrder /\ A \in SUBSET Elements
      /\ when \in [Elements -> Nat]
  BY CacheAssumption DEF IInv, StateOK, StateType, LinkInv, LinksOK, Allocated
<1>2. Oldest \in A
  <2>1. Lists(Backward(links), links.prev, CtrlTail, CtrlHdr, A)
    BY BackwardLists DEF ListInv
  <2>2. Cardinality(A) \in Nat /\ Cardinality(A) # 0
    BY <1>1, ElementsFinite, FS_EmptySet
  <2> QED
    BY <2>1, <2>2 DEF Lists, Oldest
<1>3. PICK m \in Nat : \E r \in [Elements -> 0 .. m] : Falls(links, r)
  BY DEF ListInv, Threaded
<1>4. PICK r \in [Elements -> 0 .. m] : Falls(links, r)
  BY <1>3
<1> DEFINE Younger == { e \in A : ~ (when[Oldest] <= when[e]) }
           Depths == { n \in Nat : \E e \in Younger : n = r[e] }
<1>5. ASSUME Younger # {} PROVE FALSE
  <2>1. Depths # {}
    BY <1>1, <1>5
  <2>2. PICK d \in Depths : \A x \in Depths : d <= x
    BY <2>1, LeastExists
  <2>3. PICK e \in Younger : d = r[e]
    BY <2>2
  <2>4. e \in A /\ e \in Elements /\ ~ (when[Oldest] <= when[e])
    BY <1>1, <2>3
  <2>5. links.next[e] # CtrlTail
    BY <1>1, <2>4 DEF ListOver, Oldest
  <2>6. links.next[e] \in A /\ links.next[e] \in Elements
    BY <1>1, <2>4, <2>5 DEF ListOver
  <2>7. when[e] >= when[links.next[e]]
    BY <2>4, <2>6, <1>1 DEF RecencyOrder
  <2>8. when[e] \in Nat /\ when[links.next[e]] \in Nat /\ when[Oldest] \in Nat
    BY <1>1, <1>2, <2>4, <2>6
  <2>9. links.next[e] \in Younger
    BY <2>4, <2>6, <2>7, <2>8
  <2>10. r[links.next[e]] < r[e] /\ r[links.next[e]] \in Nat /\ r[e] \in Nat
    BY <1>4, <2>4, <2>6 DEF Falls
  <2>11. r[links.next[e]] \in Depths
    BY <2>9, <2>10
  <2> QED
    BY <2>2, <2>3, <2>10, <2>11
<1> QED
  BY <1>2, <1>5

(* A run of evict_least_used that stops before its limit has deleted every *)
(* element older than the cutoff, although it reads the tail only.         *)
THEOREM EvictionComplete == ASSUME CarefulDelete PROVE Spec => EvictsAllOld
<1> DEFINE Ends == call.op = "evict" /\ call'.op = "idle" /\ call.done + 1 < call.max
           AllYoung == \A s \in Allocated(links') : when'[s] >= call.cutoff
<1>1. ASSUME IInv, ListInv, [Next]_vars, Ends PROVE AllYoung
  <2>1. call # Idle /\ call' # call
    BY <1>1 DEF Idle
  <2>2. EvictStep
    BY <1>1, <2>1
    DEF Next, vars, SetEl, GetElHash, DelKey, RemoveKey, GetEl, DelEl, RejectedOffset,
        GetLastReason, SetMany, RunLruEviction, ReloadHashMap, LoopStep, SetManyStep,
        ReloadStep, Tick
  <2>3. StateOK /\ LinksOK(links) /\ ListOver(links, Allocated(links))
        /\ when \in [Elements -> Nat] /\ Allocated(links) \in SUBSET Elements
    BY <1>1, CacheAssumption DEF IInv, StateOK, StateType, LinkInv, LinksOK, Allocated
  <2>4. CASE Oldest = CtrlHdr
    <3>1. links' = links
      BY <2>2, <2>4 DEF EvictStep, region
    <3>2. Allocated(links) = {}
      BY <1>1, <2>3, <2>4, OldestIsOldest, SlotFacts
    <3> QED
      BY <3>1, <3>2
  <2>5. CASE Oldest # CtrlHdr
    <3>1. Oldest \in Allocated(links) /\ del_el(Oldest) /\ UNCHANGED clock
      BY <2>2, <2>3, <2>5 DEF EvictStep, Oldest, ListOver
    <3>2. Allocated(links') = Allocated(links) \ {Oldest} /\ when' = when
      BY <2>3, <3>1, DelOK DEF del_el
    <3>3. ~ GoOn(Oldest)
      <4>1. ASSUME GoOn(Oldest) PROVE FALSE
        <5>1. call' = [call EXCEPT !.done = @ + 1]
          BY <2>2, <2>5, <4>1 DEF EvictStep
        <5>2. call'.op = call.op
          BY <1>1, <5>1, CallFacts DEF IInv
        <5> QED
          BY <1>1, <5>2
      <4> QED
        BY <4>1
    <3>4. ~ (when[Oldest] < call.cutoff)
      BY <1>1, <3>3 DEF GoOn
    <3>5. call.cutoff \in Int
      BY <1>1, CallFacts DEF IInv
    <3> SUFFICES ASSUME NEW s \in Allocated(links') PROVE when'[s] >= call.cutoff
      OBVIOUS
    <3>6. s \in Allocated(links) /\ when'[s] = when[s]
      BY <3>2
    <3>7. when[Oldest] <= when[s] /\ when[Oldest] \in Nat /\ when[s] \in Nat
      BY <1>1, <2>3, <3>1, <3>6, OldestIsOldest
    <3> QED
      BY <3>4, <3>5, <3>6, <3>7
  <2> QED
    BY <2>4, <2>5
<1>2. IInv /\ ListInv /\ [Next]_vars => [Ends => AllYoung]_vars
  BY <1>1
<1> QED
  BY <1>2, Invariance, ListInvariance, PTL DEF Spec, EvictsAllOld

-----------------------------------------------------------------------------
(* The table when no caller drops an entry of it.                          *)

Mapped == \A s \in Allocated(links) : table[hash[s]] = s

HashesApart == \A s, t \in Allocated(links) : hash[s] = hash[t] => s = t

(* V is what a reload has walked over and mapped.                          *)
Visited(V) ==
  /\ FrontPart(links, V, call.at) /\ Cardinality(V) = call.seen
  /\ \A v \in V : table[hash[v]] = v

CompleteInv ==
  /\ call.op # "reload" => Mapped
  /\ call.op = "reload" =>
       /\ HashesApart
       /\ Cardinality(Allocated(links)) < MaxCount
       /\ \E V \in SUBSET Allocated(links) : Visited(V)

(* A value goes under a key that the table does not have, or where the     *)
(* table leads: no stored element loses its entry.                         *)
LEMMA StoreMaps ==
  ASSUME StateOK, Mapped, NEW k \in Keys, NEW v \in Values, store(k, v)
  PROVE  Mapped'
<1>1. LinksOK(links) /\ StateType /\ TableSound /\ Allocated(links) \subseteq Elements
  BY DEF StateOK, LinkInv, Allocated
<1>2. CASE table[k] = NIL
  <2>1. add_el(k, v)
    BY <1>2 DEF store
  <2>2. CASE links.next[CtrlFree] = NIL
    BY <2>1, <2>2 DEF add_el, region, Mapped
  <2>3. CASE links.next[CtrlFree] # NIL
    <3> DEFINE s == links.next[CtrlFree]
    <3>1. /\ links' = AddLinks(links)
          /\ table' = [ table EXCEPT ![k] = s ]
          /\ hash' = [ hash EXCEPT ![s] = k ]
      BY <2>1, <2>3 DEF add_el
    <3>2. s \in FreeOf(links) /\ Allocated(links') = Allocated(links) \cup {s}
      BY <1>1, <2>3, <3>1, AddKeeps
    <3>3. s \in Elements /\ s \notin Allocated(links)
      BY <3>2 DEF FreeOf, Allocated
    <3>4. \A t \in Allocated(links) : hash[t] # k
      BY <1>1, <1>2, WordFacts DEF Mapped
    <3> QED
      BY <1>1, <3>1, <3>2, <3>3, <3>4 DEF Mapped, StateType
  <2> QED
    BY <2>2, <2>3
<1>3. CASE table[k] # NIL
  <2>1. table[k] \in Elements /\ touch(table[k]) /\ UNCHANGED <<hash, table>>
    BY <1>1, <1>3 DEF store, update_el, StateType
  <2>2. Allocated(links') = Allocated(links)
    <3>1. CASE links.prev[table[k]] = NIL
      BY <2>1, <3>1 DEF touch
    <3>2. CASE links.prev[table[k]] # NIL
      BY <1>1, <2>1, <3>2, TouchKeeps DEF touch, Allocated
    <3> QED
      BY <3>1, <3>2
  <2> QED
    BY <2>1, <2>2 DEF Mapped
<1> QED
  BY <1>2, <1>3

LEMMA GetMaps ==
  ASSUME StateOK, Mapped, NEW s \in Elements, get_el(s)
  PROVE  Mapped'
<1>1. LinksOK(links) /\ touch(s) /\ UNCHANGED <<hash, table>>
  BY DEF StateOK, LinkInv, get_el
<1>2. Allocated(links') = Allocated(links)
  <2>1. CASE links.prev[s] = NIL
    BY <1>1, <2>1 DEF touch
  <2>2. CASE links.prev[s] # NIL
    BY <1>1, <2>2, TouchKeeps DEF touch, Allocated
  <2> QED
    BY <2>1, <2>2
<1> QED
  BY <1>1, <1>2 DEF Mapped

LEMMA DelMaps ==
  ASSUME StateOK, Mapped, NEW s \in Allocated(links), del_el(s), UNCHANGED clock
  PROVE  Mapped'
<1>1. StateType /\ s \in Elements /\ ~AlreadyDeleted(s) /\ Allocated(links) \subseteq Elements
  BY DEF StateOK, Allocated, AlreadyDeleted
<1>2. /\ hash' = [ hash EXCEPT ![s] = Max64 ]
      /\ table' = [ table EXCEPT ![hash[s]] = NIL ]
  BY <1>1 DEF del_el, remove_key
<1>3. Allocated(links') = Allocated(links) \ {s}
  BY DelOK
<1>4. \A t \in Allocated(links) \ {s} : hash[t] # hash[s]
  BY DEF Mapped
<1> QED
  BY <1>1, <1>2, <1>3, <1>4 DEF Mapped, StateType

(* The walk moves over one element.                                        *)
LEMMA ReloadMoves ==
  ASSUME IInv, HashesApart, NEW V, Visited(V),
         call.at \in Allocated(links), UNCHANGED region,
         table' = [ table EXCEPT ![hash[call.at]] = call.at ],
         call'.at = links.next[call.at], call'.seen = call.seen + 1
  PROVE  \E W \in SUBSET Allocated(links') : Visited(W)'
<1>1. /\ LinksOK(links) /\ Allocated(links) \in SUBSET Elements
      /\ table \in [Keys -> Elements \cup {NIL}] /\ hash \in [Elements -> Keys]
  BY DEF IInv, StateOK, StateType, LinkInv, Allocated
<1>2. PICK a : a = call.at
  OBVIOUS
<1>3. /\ FrontPart(links, V, a) /\ Cardinality(V) = call.seen
      /\ \A v \in V : table[hash[v]] = v
      /\ a \in Allocated(links) /\ V \subseteq Allocated(links)
  BY <1>2 DEF Visited, FrontPart
<1>4. FrontPart(links, V \cup {a}, links.next[a])
      /\ Cardinality(V \cup {a}) = Cardinality(V) + 1
  BY <1>1, <1>3, FrontGrows
<1>5. \A v \in V \cup {a} : table'[hash[v]] = v
  BY <1>1, <1>2, <1>3 DEF HashesApart
<1>6. /\ FrontPart(links', V \cup {a}, call'.at) /\ Cardinality(V \cup {a}) = call'.seen
      /\ \A v \in V \cup {a} : table'[hash'[v]] = v
  BY <1>2, <1>3, <1>4, <1>5 DEF region
<1>7. Visited(V \cup {a})'
  BY <1>6 DEF Visited
<1> QED
  BY <1>3, <1>7 DEF region

LEMMA MaxCountInt == MaxCount \in Int
BY WholeCountInt, ModRange, CacheAssumption DEF MaxCount

(* Outside a reload every entry stays; a reload makes them all again.      *)
LEMMA CompleteStep ==
  ASSUME CarefulDelete, KeepTable, IInv, ListInv, CompleteInv, [Next]_vars
  PROVE  CompleteInv'
<1>1. StateOK /\ StateType /\ call \in Calls /\ LinksOK(links)
  BY DEF IInv, StateOK, LinkInv
<1>2. Idle.op # "reload" /\ (call = Idle => Mapped)
  BY CallFacts DEF CompleteInv
<1>3. ASSUME call'.op # "reload", Mapped' PROVE CompleteInv'
  BY <1>3 DEF CompleteInv
<1>4. ASSUME NEW p \in Pairs, NEW v \in Values, SetEl(p, v) PROVE CompleteInv'
  BY <1>1, <1>2, <1>3, <1>4, StoreMaps, WordFacts DEF SetEl
<1>5. ASSUME NEW p \in Pairs, GetElHash(p) PROVE CompleteInv'
  <2>1. table[GetKey(p)] \in Elements
    BY <1>1, <1>5, WordFacts DEF GetElHash, StateType
  <2> QED
    BY <1>1, <1>2, <1>3, <1>5, <2>1, GetMaps DEF GetElHash
<1>6. ASSUME NEW p \in Pairs, DelKey(p) PROVE CompleteInv'
  <2>1. table[GetKey(p)] \in Allocated(links)
    BY <1>1, <1>6, WordFacts DEF DelKey, StateOK, TableSound
  <2> QED
    BY <1>1, <1>2, <1>3, <1>6, <2>1, DelMaps DEF DelKey
<1>7. ASSUME NEW s \in Elements, GetEl(s) PROVE CompleteInv'
  BY <1>1, <1>2, <1>3, <1>7, GetMaps DEF GetEl
<1>8. ASSUME NEW s \in Elements, DelEl(s) PROVE CompleteInv'
  BY <1>1, <1>2, <1>3, <1>8, DelMaps DEF DelEl
<1>9. CASE SetManyStep
  <2>1. /\ call.op = "set_many" /\ NextItem
        /\ call.rest \in Seq(Pairs \X Values) \ {<<>>}
        /\ call = [op |-> "set_many", rest |-> call.rest]
        /\ store(GetKey(Head(call.rest)[1]), Head(call.rest)[2])
    BY <1>1, <1>9, CallFacts DEF SetManyStep
  <2>2. Head(call.rest)[1] \in Pairs /\ Head(call.rest)[2] \in Values
    BY <2>1
  <2>3. Mapped'
    BY <1>1, <2>1, <2>2, StoreMaps, WordFacts DEF CompleteInv
  <2>4. call'.op # "reload"
    <3>1. CASE Len(call.rest) = 1
      BY <1>2, <2>1, <3>1 DEF NextItem
    <3>2. CASE Len(call.rest) # 1
      <4>1. call' = [op |-> "set_many", rest |-> Tail(call.rest)]
        BY <2>1, <3>2 DEF NextItem
      <4> QED
        BY <4>1
    <3> QED
      BY <3>1, <3>2
  <2> QED
    BY <1>3, <2>3, <2>4
<1>10. CASE EvictStep
  <2>1. call.op = "evict" /\ Mapped /\ UNCHANGED clock
    BY <1>10 DEF EvictStep, CompleteInv
  <2>2. call'.op # "reload"
    <3>1. call' = Idle \/ call' = [call EXCEPT !.done = @ + 1]
      BY <1>10 DEF EvictStep
    <3>2. call = [op |-> "evict", cutoff |-> call.cutoff, max |-> call.max, done |-> call.done]
      BY <1>1, <2>1, CallFacts
    <3>3. [call EXCEPT !.done = @ + 1].op = call.op
      BY <3>2
    <3> QED
      BY <1>2, <2>1, <3>1, <3>3
  <2>3. CASE Oldest = CtrlHdr
    <3>1. UNCHANGED <<links, hash, table>>
      BY <1>10, <2>3 DEF EvictStep, region
    <3> QED
      BY <1>3, <2>1, <2>2, <3>1 DEF Mapped
  <2>4. CASE Oldest # CtrlHdr
    <3>1. Oldest \in Allocated(links) /\ del_el(Oldest)
      BY <1>1, <1>10, <2>4 DEF EvictStep, Oldest, LinksOK, ListOver
    <3> QED
      BY <1>1, <1>3, <2>1, <2>2, <3>1, DelMaps
  <2> QED
    BY <2>3, <2>4
<1>11. CASE ReloadHashMap
  <2>1. /\ Mapped /\ UNCHANGED region
        /\ Cardinality(Allocated(links)) < MaxCount
        /\ call' = [op |-> "reload", at |-> links.next[CtrlHdr], seen |-> 0]
    BY <1>2, <1>11 DEF ReloadHashMap
  <2>2. HashesApart'
    BY <2>1 DEF Mapped, HashesApart, region
  <2>3. Visited({})'
    BY <1>1, <2>1, FrontStarts DEF Visited, region
  <2> QED
    BY <2>1, <2>2, <2>3 DEF CompleteInv, region
<1>12. CASE ReloadStep
  <2>1. /\ call.op = "reload" /\ UNCHANGED region
        /\ call = [op |-> "reload", at |-> call.at, seen |-> call.seen]
        /\ call.at \in Allocated(links) \cup {CtrlTail} /\ call.seen \in Nat
    BY <1>1, <1>12, CallFacts DEF ReloadStep, WalkOnList, IInv
  <2>2. PICK V \in SUBSET Allocated(links) : Visited(V)
    BY <2>1 DEF CompleteInv
  <2>3. HashesApart /\ Cardinality(Allocated(links)) < MaxCount
    BY <2>1 DEF CompleteInv
  <2>4. CASE links.next[call.at] = NIL
    <3>1. call.at = CtrlTail
      BY <1>1, <2>1, <2>4, SlotFacts DEF LinksOK, ListOver, Allocated
    <3>2. Mapped
      BY <2>2, <3>1, FrontEnds DEF Visited, Mapped, ListInv
    <3>3. call' = Idle /\ table' = table
      BY <1>12, <2>4 DEF ReloadStep, WalkEnd
    <3> QED
      BY <1>2, <1>3, <2>1, <3>2, <3>3 DEF Mapped, region
  <2>5. CASE links.next[call.at] # NIL
    <3>1. call.at \in Allocated(links)
      BY <1>1, <2>1, <2>5 DEF LinksOK, ListOver
    <3>2. call.seen + 1 < MaxCount
      <4>1. FrontPart(links, V, call.at) /\ Cardinality(V) = call.seen
        BY <2>2 DEF Visited
      <4>2. /\ Cardinality(V \cup {call.at}) = call.seen + 1
            /\ Cardinality(V \cup {call.at}) <= Cardinality(Allocated(links))
        BY <1>1, <3>1, <4>1, FrontGrows
      <4>3. Cardinality(Allocated(links)) \in Nat
        BY <1>1, ElementsFinite DEF Allocated
      <4> QED
        BY <2>1, <2>3, <4>2, <4>3, MaxCountInt
    <3>3. WalkNext(call.at)
      BY <1>12, <2>1, <2>5, <3>2, MaxCountInt DEF ReloadStep
    <3>4. /\ table' = [ table EXCEPT ![hash[call.at]] = call.at ]
          /\ call' = [op |-> "reload", at |-> links.next[call.at], seen |-> call.seen + 1]
      BY <2>1, <3>3 DEF WalkNext
    <3>5. \E W \in SUBSET Allocated(links') : Visited(W)'
      BY <2>1, <2>2, <2>3, <3>1, <3>4, ReloadMoves
    <3>6. HashesApart' /\ (Cardinality(Allocated(links)) < MaxCount)'
      BY <2>1, <2>3 DEF HashesApart, region
    <3> QED
      BY <3>4, <3>5, <3>6 DEF CompleteInv
  <2> QED
    BY <2>4, <2>5
<1>13. CASE UNCHANGED <<links, hash, table, call>>
  BY <1>13 DEF CompleteInv, Mapped, HashesApart, Visited
<1>14. CASE RejectedOffset \/ GetLastReason \/ Tick \/ UNCHANGED vars
  BY <1>13, <1>14 DEF RejectedOffset, GetLastReason, Tick, region, vars
<1>15. CASE \/ \E batch \in Batches : SetMany(batch)
            \/ \E age \in 0 .. MaxTime, n \in 0 .. MaxEvict : RunLruEviction(age, n)
  <2>1. UNCHANGED <<links, hash, table>> /\ call = Idle /\ call'.op # "reload"
    BY <1>15 DEF SetMany, RunLruEviction, region
  <2> QED
    BY <1>2, <1>3, <2>1 DEF Mapped
<1>16. ASSUME NEW p \in Pairs, RemoveKey(p) PROVE FALSE
  BY <1>16 DEF RemoveKey
<1> QED
  BY <1>4, <1>5, <1>6, <1>7, <1>8, <1>9, <1>10, <1>11, <1>12, <1>14, <1>15, <1>16
  DEF Next, LoopStep

LEMMA CompleteInit == Init => CompleteInv
<1> SUFFICES ASSUME Init PROVE CompleteInv
  OBVIOUS
<1>1. Allocated(links) = {} /\ call.op # "reload"
  BY SetupKeeps DEF Init, Idle
<1> QED
  BY <1>1 DEF CompleteInv, Mapped

(* A caller that neither removes a key nor reloads a full list finds every *)
(* stored element under its key; with TableCorrect, no two elements have   *)
(* the same key.                                                           *)
THEOREM EveryElementFound ==
  ASSUME CarefulDelete, KeepTable
  PROVE  Spec => []TableComplete
<1>1. IInv /\ ListInv /\ CompleteInv /\ [Next]_vars => CompleteInv'
  BY CompleteStep
<1>2. CompleteInv => TableComplete
  BY DEF CompleteInv, Mapped, TableComplete
<1> QED
  BY <1>1, <1>2, CompleteInit, Invariance, ListInvariance, PTL DEF Spec

-----------------------------------------------------------------------------
(* The operators on sequences that LRUSpec uses.                           *)
LEMMA SeqOfLen ==
  ASSUME NEW S, NEW w \in Seq(S), NEW n, Len(w) = n
  PROVE  w \in [1 .. n -> S] /\ n \in Nat
BY LenProperties

LEMMA FrontedIsConcat ==
  ASSUME NEW S, NEW q \in Seq(S), NEW s \in S
  PROVE  <<s>> \o q = Fronted(s, q)
<1>1. <<s>> \in Seq(S) /\ Len(<<s>>) = 1 /\ <<s>>[1] = s
  OBVIOUS
<1>2. /\ <<s>> \o q \in Seq(S)
      /\ Len(<<s>> \o q) = 1 + Len(q)
      /\ \A i \in 1 .. 1 + Len(q) : (<<s>> \o q)[i] = IF i <= 1 THEN <<s>>[i] ELSE q[i - 1]
  BY <1>1, ConcatProperties
<1>3. Len(q) \in Nat
  BY LenProperties
<1>4. <<s>> \o q \in [1 .. Len(q) + 1 -> S]
  <2>1. Len(<<s>> \o q) = Len(q) + 1
    BY <1>2, <1>3
  <2> QED
    BY <1>2, <2>1, SeqOfLen
<1>5. \A i \in 1 .. Len(q) + 1 : (<<s>> \o q)[i] = IF i = 1 THEN s ELSE q[i - 1]
  BY <1>1, <1>2, <1>3
<1> QED
  BY <1>4, <1>5 DEF Fronted

LEMMA DroppedIsRemoveAt ==
  ASSUME NEW S, NEW q \in Seq(S), NEW p \in 1 .. Len(q)
  PROVE  Promise!RemoveAt(q, p) = Dropped(q, p)
<1> DEFINE a == SubSeq(q, 1, p - 1)
           b == SubSeq(q, p + 1, Len(q))
<1>1. Len(q) \in Nat /\ q \in [1 .. Len(q) -> S]
  BY LenProperties
<1>2. /\ a \in Seq(S) /\ Len(a) = p - 1
      /\ \A i \in 1 .. p - 1 : a[i] = q[i]
  <2>1. \A i \in 1 .. p - 1 : q[i] \in S /\ 1 + i - 1 = i
    BY <1>1
  <2>2. 1 \in Int /\ p - 1 \in Int /\ (p - 1) - 1 + 1 = p - 1
    OBVIOUS
  <2> QED
    BY <2>1, <2>2, SubSeqProperties
<1>3. /\ b \in Seq(S) /\ Len(b) = Len(q) - p
      /\ \A i \in 1 .. Len(q) - p : b[i] = q[i + p]
  <2>1. \A i \in p + 1 .. Len(q) : q[i] \in S
    BY <1>1
  <2>2. p + 1 \in Int /\ Len(q) - (p + 1) + 1 = Len(q) - p
        /\ \A i \in 1 .. Len(q) - p : (p + 1) + i - 1 = i + p
    BY <1>1
  <2>3. /\ b \in Seq(S) /\ Len(b) = IF p + 1 <= Len(q) THEN Len(q) - (p + 1) + 1 ELSE 0
        /\ \A i \in 1 .. Len(q) - (p + 1) + 1 : b[i] = q[(p + 1) + i - 1]
    BY <1>1, <2>1, <2>2, SubSeqProperties
  <2>4. Len(b) = Len(q) - p
    <3>1. p \in 1 .. Len(q) /\ Len(b) = IF p + 1 <= Len(q) THEN Len(q) - (p + 1) + 1 ELSE 0
      BY <2>3
    <3>2. PICK n \in Nat : n = Len(q)
      BY <1>1
    <3> HIDE DEF b
    <3>3. CASE p + 1 <= n
      BY <3>1, <3>2, <3>3
    <3>4. CASE ~ (p + 1 <= n)
      <4>1. p = n /\ n - p = 0
        BY <3>1, <3>2, <3>4
      <4> QED
        BY <3>1, <3>2, <3>4, <4>1
    <3> QED
      BY <3>3, <3>4
  <2>5. \A i \in 1 .. Len(q) - p : b[i] = q[i + p]
    <3> HIDE DEF b
    <3> QED
      BY <2>2, <2>3
  <2> QED
    BY <2>3, <2>4, <2>5
<1> HIDE DEF a, b
<1>4. /\ a \o b \in Seq(S) /\ Len(a \o b) = Len(q) - 1
      /\ \A i \in 1 .. Len(q) - 1 : (a \o b)[i] = IF i <= p - 1 THEN a[i] ELSE b[i - (p - 1)]
  <2>1. Len(a) + Len(b) = Len(q) - 1
    BY <1>1, <1>2, <1>3
  <2>2. /\ a \o b \in Seq(S) /\ Len(a \o b) = Len(a) + Len(b)
        /\ \A i \in 1 .. Len(a) + Len(b) :
             (a \o b)[i] = IF i <= Len(a) THEN a[i] ELSE b[i - Len(a)]
    BY <1>2, <1>3, ConcatProperties
  <2>3. Len(a) = p - 1
    BY <1>2
  <2> QED
    BY <2>1, <2>2, <2>3
<1>5. \A i \in 1 .. Len(q) - 1 : (a \o b)[i] = IF i < p THEN q[i] ELSE q[i + 1]
  <2> SUFFICES ASSUME NEW i \in 1 .. Len(q) - 1
               PROVE  (a \o b)[i] = IF i < p THEN q[i] ELSE q[i + 1]
    OBVIOUS
  <2>1. CASE i < p
    BY <1>1, <1>2, <1>4, <2>1
  <2>2. CASE ~ (i < p)
    <3>1. i - (p - 1) \in 1 .. Len(q) - p /\ (i - (p - 1)) + p = i + 1 /\ ~ (i <= p - 1)
      BY <1>1, <2>2
    <3> QED
      BY <1>3, <1>4, <2>2, <3>1
  <2> QED
    BY <2>1, <2>2
<1>6. a \o b \in [1 .. Len(q) - 1 -> S]
  BY <1>4, SeqOfLen
<1>7. a \o b = Dropped(q, p)
  BY <1>5, <1>6 DEF Dropped
<1> QED
  BY <1>7 DEF a, b, Promise!RemoveAt

-----------------------------------------------------------------------------
(* The order of the keys.                                                  *)

RefInv == IInv /\ ListInv /\ CompleteInv

LEMMA RefFacts ==
  ASSUME RefInv
  PROVE  /\ StateOK /\ StateType /\ call \in Calls
         /\ LinksOK(links) /\ links \in Links /\ Threaded(links)
         /\ Allocated(links) \in SUBSET Elements
         /\ HashesApart
         /\ \A s \in Elements : s \in Allocated(links) <=> links.prev[s] # NIL
         /\ \A s \in Elements : hash[s] \in Keys
<1>1. HashesApart
  BY DEF RefInv, CompleteInv, Mapped, HashesApart
<1> QED
  BY <1>1
  DEF RefInv, IInv, ListInv, Threaded, LinksOK, StateOK, StateType, Allocated

LEMMA OrderFacts ==
  ASSUME RefInv
  PROVE  /\ Lists(Forward(links), links.next, CtrlHdr, CtrlTail, Allocated(links))
         /\ Forward(links) \in Seq(Allocated(links))
         /\ Len(Forward(links)) = Cardinality(Allocated(links))
         /\ Cardinality(Allocated(links)) \in Nat
         /\ OrderOfKeys \in [1 .. Cardinality(Allocated(links)) -> Keys]
         /\ OrderOfKeys \in Seq(Keys)
         /\ Len(OrderOfKeys) = Cardinality(Allocated(links))
         /\ \A i \in 1 .. Cardinality(Allocated(links)) :
              Forward(links)[i] \in Allocated(links) /\ OrderOfKeys[i] = hash[Forward(links)[i]]
         /\ Promise!Stored = { hash[s] : s \in Allocated(links) }
<1> DEFINE A == Allocated(links)
           n == Cardinality(A)
           q == Forward(links)
           o == OrderOfKeys
<1>1. Threaded(links) /\ A \in SUBSET Elements /\ \A s \in Elements : hash[s] \in Keys
  BY RefFacts
<1>2. Lists(q, links.next, CtrlHdr, CtrlTail, A) /\ n \in Nat
  BY <1>1, ForwardLists, ElementsFinite
<1>3. q \in Seq(A) /\ Len(q) = n /\ DOMAIN q = 1 .. n
  BY <1>1, <1>2, ListIsSeq
<1>4. o = [ i \in 1 .. n |-> hash[q[i]] ]
  BY <1>3 DEF OrderOfKeys
<1>5. \A i \in 1 .. n : q[i] \in A
  BY <1>2 DEF Lists
<1>6. \A s \in A : \E i \in 1 .. n : q[i] = s
  BY <1>2 DEF Lists
<1> HIDE DEF A, n, q, o
<1>7. o \in [1 .. n -> Keys] /\ \A i \in 1 .. n : o[i] = hash[q[i]]
  BY <1>1, <1>4, <1>5
<1>8. o \in Seq(Keys) /\ Len(o) = n /\ DOMAIN o = 1 .. n
  BY <1>2, <1>7
<1>9. { o[i] : i \in DOMAIN o } = { hash[s] : s \in A }
  BY <1>5, <1>6, <1>7, <1>8
<1> QED
  BY <1>2, <1>3, <1>5, <1>7, <1>8, <1>9 DEF Promise!Stored, Promise!ToSet, A, n, q, o

(* The position of a stored key, and the order without it.                 *)
LEMMA PositionFacts ==
  ASSUME RefInv, NEW s \in Allocated(links)
  PROVE  \E p \in 1 .. Cardinality(Allocated(links)) :
           /\ s = Forward(links)[p]
           /\ Promise!Without(hash[s]) = Dropped(OrderOfKeys, p)
           /\ <<hash[s]>> \o Promise!Without(hash[s])
                = Fronted(hash[s], Dropped(OrderOfKeys, p))
<1> DEFINE A == Allocated(links)
           n == Cardinality(A)
           q == Forward(links)
           o == OrderOfKeys
           k == hash[s]
<1>1. /\ Lists(q, links.next, CtrlHdr, CtrlTail, A) /\ n \in Nat
      /\ o \in [1 .. n -> Keys] /\ o \in Seq(Keys) /\ Len(o) = n
      /\ \A i \in 1 .. n : q[i] \in A /\ o[i] = hash[q[i]]
      /\ Promise!Stored = { hash[e] : e \in A }
  BY OrderFacts
<1>2. PICK p \in 1 .. n : s = q[p]
  BY <1>1 DEF Lists
<1>3. HashesApart /\ k \in Keys
  BY RefFacts
<1>4. \A i \in 1 .. n : o[i] = k <=> i = p
  <2> SUFFICES ASSUME NEW i \in 1 .. n, o[i] = k PROVE i = p
    BY <1>1, <1>2
  <2>1. q[i] = s
    BY <1>1, <1>3 DEF HashesApart
  <2> QED
    BY <1>1, <1>2, <2>1 DEF Lists
<1>5. DOMAIN o = 1 .. n /\ k \in Promise!Stored
  BY <1>1
<1> HIDE DEF A, n, q, o, k
<1>6. (CHOOSE i \in DOMAIN o : o[i] = k) = p
  BY <1>4, <1>5
<1>7. Promise!Without(k) = Dropped(o, p)
  <2>1. Promise!RemoveAt(o, p) = Dropped(o, p)
    BY <1>1, DroppedIsRemoveAt
  <2> QED
    BY <1>5, <1>6, <2>1 DEF Promise!Without, o
<1>8. Dropped(o, p) \in Seq(Keys)
  <2>1. Dropped(o, p) \in [1 .. n - 1 -> Keys] /\ n - 1 \in Nat
    BY <1>1 DEF Dropped
  <2> QED
    BY <2>1
<1>9. <<k>> \o Dropped(o, p) = Fronted(k, Dropped(o, p))
  BY <1>3, <1>8, FrontedIsConcat
<1> QED
  BY <1>2, <1>7, <1>9 DEF A, n, q, o, k

LEMMA AddOrder ==
  ASSUME RefInv, NEW k, links.next[CtrlFree] # NIL, links' = AddLinks(links),
         hash' = [ hash EXCEPT ![links.next[CtrlFree]] = k ]
  PROVE  OrderOfKeys' = Fronted(k, OrderOfKeys)
<1> DEFINE n == Cardinality(Allocated(links))
           q == Forward(links)
           o == OrderOfKeys
           s == links.next[CtrlFree]
           r == Forward(links')
<1>1. Threaded(links) /\ LinksOK(links) /\ StateType
  BY RefFacts
<1>2. r = Fronted(s, q)
  BY <1>1, AddForward
<1>3. s \in Elements /\ s \notin Allocated(links)
  BY <1>1, AddKeeps DEF FreeOf, Allocated
<1>4. /\ n \in Nat /\ Len(q) = n /\ Len(o) = n
      /\ \A i \in 1 .. n : q[i] \in Allocated(links) /\ o[i] = hash[q[i]]
  BY OrderFacts
<1>5. hash'[s] = k /\ \A e \in Allocated(links) : hash'[e] = hash[e]
  BY <1>1, <1>3 DEF StateType, Allocated
<1>6. OrderOfKeys' = [ i \in DOMAIN r |-> hash'[r[i]] ]
  BY DEF OrderOfKeys
<1> HIDE DEF n, q, o, s, r
<1>7. DOMAIN r = 1 .. n + 1 /\ \A i \in 1 .. n + 1 : r[i] = IF i = 1 THEN s ELSE q[i - 1]
  BY <1>2, <1>4 DEF Fronted
<1>8. \A i \in 1 .. n + 1 : hash'[r[i]] = IF i = 1 THEN k ELSE o[i - 1]
  <2> SUFFICES ASSUME NEW i \in 1 .. n + 1
               PROVE  hash'[r[i]] = IF i = 1 THEN k ELSE o[i - 1]
    OBVIOUS
  <2>1. i # 1 => i - 1 \in 1 .. n
    BY <1>4
  <2> QED
    BY <1>4, <1>5, <1>7, <2>1
<1>9. OrderOfKeys' = [ i \in 1 .. n + 1 |-> IF i = 1 THEN k ELSE o[i - 1] ]
  BY <1>6, <1>7, <1>8
<1> QED
  BY <1>4, <1>9 DEF Fronted, o

LEMMA TouchOrder ==
  ASSUME RefInv, NEW p \in 1 .. Cardinality(Allocated(links)),
         NEW s, s = Forward(links)[p],
         links' = TouchLinks(links, s), hash' = hash
  PROVE  OrderOfKeys' = Fronted(hash[s], Dropped(OrderOfKeys, p))
<1> DEFINE n == Cardinality(Allocated(links))
           q == Forward(links)
           o == OrderOfKeys
           r == Forward(links')
<1>1. Threaded(links)
  BY RefFacts
<1>2. r = Fronted(s, Dropped(q, p))
  BY <1>1, TouchForward
<1>3. /\ n \in Nat /\ Len(q) = n /\ Len(o) = n /\ p \in 1 .. n
      /\ \A i \in 1 .. n : o[i] = hash[q[i]]
  BY OrderFacts
<1>4. OrderOfKeys' = [ i \in DOMAIN r |-> hash[r[i]] ]
  BY DEF OrderOfKeys
<1> HIDE DEF n, q, o, r
<1>5. /\ Dropped(q, p) = [ i \in 1 .. n - 1 |-> IF i < p THEN q[i] ELSE q[i + 1] ]
      /\ Dropped(o, p) = [ i \in 1 .. n - 1 |-> IF i < p THEN o[i] ELSE o[i + 1] ]
  BY <1>3 DEF Dropped
<1>6. PICK x : x = Dropped(q, p)
  OBVIOUS
<1>7. PICK y : y = Dropped(o, p)
  OBVIOUS
<1>8. n - 1 \in Nat /\ Len(x) = n - 1 /\ Len(y) = n - 1
      /\ \A i \in 1 .. n - 1 : y[i] = hash[x[i]]
  <2>1. n - 1 \in Nat
    BY <1>3
  <2>2. Len(x) = n - 1 /\ Len(y) = n - 1
    BY <1>5, <1>6, <1>7, <2>1
  <2>3. \A i \in 1 .. n - 1 : i \in 1 .. n /\ i + 1 \in 1 .. n
    BY <1>3
  <2> QED
    BY <1>3, <1>5, <1>6, <1>7, <2>1, <2>2, <2>3
<1>9. r = [ i \in 1 .. (n - 1) + 1 |-> IF i = 1 THEN s ELSE x[i - 1] ]
  BY <1>2, <1>6, <1>8 DEF Fronted
<1>10. \A i \in 1 .. (n - 1) + 1 : hash[r[i]] = IF i = 1 THEN hash[s] ELSE y[i - 1]
  <2> SUFFICES ASSUME NEW i \in 1 .. (n - 1) + 1
               PROVE  hash[r[i]] = IF i = 1 THEN hash[s] ELSE y[i - 1]
    OBVIOUS
  <2>1. i # 1 => i - 1 \in 1 .. n - 1
    BY <1>8
  <2> QED
    BY <1>8, <1>9, <2>1
<1>11. OrderOfKeys' = [ i \in 1 .. (n - 1) + 1 |-> IF i = 1 THEN hash[s] ELSE y[i - 1] ]
  BY <1>4, <1>9, <1>10
<1> QED
  BY <1>7, <1>8, <1>11 DEF Fronted, o

LEMMA DelOrder ==
  ASSUME RefInv, NEW p \in 1 .. Cardinality(Allocated(links)),
         NEW s, s = Forward(links)[p],
         links' = DelLinks(links, s), hash' = [ hash EXCEPT ![s] = Max64 ]
  PROVE  OrderOfKeys' = Dropped(OrderOfKeys, p)
<1> DEFINE n == Cardinality(Allocated(links))
           q == Forward(links)
           o == OrderOfKeys
           r == Forward(links')
<1>1. Threaded(links) /\ StateType
  BY RefFacts
<1>2. r = Dropped(q, p)
  BY <1>1, DelForward
<1>3. /\ n \in Nat /\ Len(q) = n /\ Len(o) = n /\ p \in 1 .. n
      /\ \A i \in 1 .. n : q[i] \in Allocated(links) /\ o[i] = hash[q[i]]
      /\ \A i, j \in 1 .. n : q[i] = q[j] => i = j
  BY OrderFacts DEF Lists
<1>4. OrderOfKeys' = [ i \in DOMAIN r |-> hash'[r[i]] ]
  BY DEF OrderOfKeys
<1>5. \A e \in Allocated(links) \ {s} : hash'[e] = hash[e]
  BY <1>1 DEF StateType, Allocated
<1>6. s = q[p]
  OBVIOUS
<1> HIDE DEF n, q, o, r
<1>7. r = [ i \in 1 .. n - 1 |-> IF i < p THEN q[i] ELSE q[i + 1] ]
  BY <1>2, <1>3 DEF Dropped
<1>8. \A i \in 1 .. n - 1 : hash'[r[i]] = IF i < p THEN o[i] ELSE o[i + 1]
  <2> SUFFICES ASSUME NEW i \in 1 .. n - 1
               PROVE  hash'[r[i]] = IF i < p THEN o[i] ELSE o[i + 1]
    OBVIOUS
  <2>1. i \in 1 .. n /\ i + 1 \in 1 .. n
    BY <1>3
  <2>2. CASE i < p
    <3>1. q[i] # s
      BY <1>3, <1>6, <2>1, <2>2
    <3> QED
      BY <1>3, <1>5, <1>7, <2>1, <2>2, <3>1
  <2>3. CASE ~ (i < p)
    <3>1. q[i + 1] # s
      <4>1. i + 1 # p
        BY <1>3, <2>3
      <4> QED
        BY <1>3, <1>6, <2>1, <4>1
    <3> QED
      BY <1>3, <1>5, <1>7, <2>1, <2>3, <3>1
  <2> QED
    BY <2>2, <2>3
<1>9. OrderOfKeys' = [ i \in 1 .. n - 1 |-> IF i < p THEN o[i] ELSE o[i + 1] ]
  BY <1>4, <1>7, <1>8
<1> QED
  BY <1>3, <1>9 DEF Dropped, o

-----------------------------------------------------------------------------
(* The values of the keys.                                                 *)

ValueOf(A, h, d, k) ==
  IF \E s \in A : h[s] = k THEN d[CHOOSE s \in A : h[s] = k] ELSE NIL

LEMMA ValueFacts ==
  ASSUME NEW A, NEW h, NEW d, \A s, t \in A : h[s] = h[t] => s = t
  PROVE  /\ \A s \in A : ValueOf(A, h, d, h[s]) = d[s]
         /\ \A k : (\A s \in A : h[s] # k) => ValueOf(A, h, d, k) = NIL
<1>1. ASSUME NEW s \in A PROVE ValueOf(A, h, d, h[s]) = d[s]
  <2>1. (CHOOSE t \in A : h[t] = h[s]) = s
    OBVIOUS
  <2> QED
    BY <2>1 DEF ValueOf
<1> QED
  BY <1>1 DEF ValueOf

(* From records d under keys h to records e under keys g, only k changes:  *)
(* the other elements keep their keys and records.                         *)
OnlyKey(k, v, A, h, d, B, g, e) ==
  /\ \A s, t \in A : h[s] = h[t] => s = t
  /\ \A s, t \in B : g[s] = g[t] => s = t
  /\ \A s \in A : h[s] # k => s \in B /\ g[s] = h[s] /\ e[s] = d[s]
  /\ \A s \in B : g[s] # k => s \in A /\ g[s] = h[s]
  /\ \A s \in B : g[s] = k => e[s] = v
  /\ (\A s \in B : g[s] # k) => v = NIL

LEMMA ValueChange ==
  ASSUME NEW A, NEW h, NEW d, NEW B, NEW g, NEW e, NEW k, NEW v,
         OnlyKey(k, v, A, h, d, B, g, e), NEW j
  PROVE  ValueOf(B, g, e, j) = IF j = k THEN v ELSE ValueOf(A, h, d, j)
<1> DEFINE Differ == /\ \A s, t \in A : h[s] = h[t] => s = t
                     /\ \A s, t \in B : g[s] = g[t] => s = t
<1>0. Differ
  BY DEF OnlyKey
<1>1. /\ \A s \in A : ValueOf(A, h, d, h[s]) = d[s]
      /\ (\A s \in A : h[s] # j) => ValueOf(A, h, d, j) = NIL
  BY <1>0, ValueFacts
<1>2. /\ \A s \in B : ValueOf(B, g, e, g[s]) = e[s]
      /\ (\A s \in B : g[s] # j) => ValueOf(B, g, e, j) = NIL
  BY <1>0, ValueFacts
<1> USE DEF OnlyKey
<1>3. CASE j = k
  BY <1>2, <1>3
<1>4. CASE j # k
  <2>1. CASE \E s \in B : g[s] = j
    <3>1. PICK s \in B : g[s] = j
      BY <2>1
    <3>2. s \in A /\ h[s] = j /\ e[s] = d[s]
      BY <1>4, <3>1
    <3> QED
      BY <1>1, <1>2, <1>4, <3>1, <3>2
  <2>2. CASE ~ \E s \in B : g[s] = j
    <3>1. \A s \in A : h[s] # j
      BY <1>4, <2>2
    <3> QED
      BY <1>1, <1>2, <1>4, <2>2, <3>1
  <2> QED
    BY <2>1, <2>2
<1> QED
  BY <1>3, <1>4

ValueFunction == [ k \in Keys |-> ValueOfKey(k) ]

(* What one key's change means for val.                                    *)
LEMMA ValuesChange ==
  ASSUME RefInv, RefInv', NEW k \in Keys, NEW v,
         \A s \in Allocated(links) : hash[s] # k =>
           s \in Allocated(links') /\ hash'[s] = hash[s] /\ data'[s] = data[s],
         \A s \in Allocated(links') : hash'[s] # k =>
           s \in Allocated(links) /\ hash'[s] = hash[s],
         \A s \in Allocated(links') : hash'[s] = k => data'[s] = v,
         (\A s \in Allocated(links') : hash'[s] # k) => v = NIL
  PROVE  ValueFunction' = [ ValueFunction EXCEPT ![k] = v ]
<1>1. \A s, t \in Allocated(links) : hash[s] = hash[t] => s = t
  BY DEF RefInv, CompleteInv, Mapped, HashesApart
<1>2. \A s, t \in Allocated(links') : hash'[s] = hash'[t] => s = t
  BY DEF RefInv, CompleteInv, Mapped, HashesApart
<1>3. \A j : ValueOfKey(j) = ValueOf(Allocated(links), hash, data, j)
  BY DEF ValueOfKey, ValueOf
<1>4. \A j : ValueOfKey(j)' = ValueOf(Allocated(links'), hash', data', j)
  BY DEF ValueOfKey, ValueOf
<1>5. ASSUME NEW j
      PROVE  ValueOf(Allocated(links'), hash', data', j) =
               IF j = k THEN v ELSE ValueOf(Allocated(links), hash, data, j)
  <2> DEFINE A == Allocated(links)
             B == Allocated(links')
  <2>1. PICK h : h = hash
    OBVIOUS
  <2>2. PICK g : g = hash'
    OBVIOUS
  <2>3. PICK d : d = data
    OBVIOUS
  <2>4. PICK e : e = data'
    OBVIOUS
  <2> HIDE DEF A, B
  <2>5. OnlyKey(k, v, A, h, d, B, g, e)
    BY <1>1, <1>2, <2>1, <2>2, <2>3, <2>4 DEF A, B, OnlyKey
  <2>6. ValueOf(B, g, e, j) = IF j = k THEN v ELSE ValueOf(A, h, d, j)
    BY <2>5, ValueChange
  <2> QED
    BY <2>1, <2>2, <2>3, <2>4, <2>6 DEF A, B
<1>6. \A j \in Keys : ValueFunction'[j] = IF j = k THEN v ELSE ValueFunction[j]
  BY <1>3, <1>4, <1>5 DEF ValueFunction
<1> QED
  BY <1>6 DEF ValueFunction

-----------------------------------------------------------------------------
(* The calls, as steps of the bounded store.                               *)

(* A free element is left exactly when the store has room.                 *)
LEMMA RoomFacts ==
  ASSUME RefInv
  PROVE  /\ links.next[CtrlFree] # NIL => Cardinality(Allocated(links)) < Cardinality(Elements)
         /\ links.next[CtrlFree] = NIL => Cardinality(Allocated(links)) = Cardinality(Elements)
<1> DEFINE A == Allocated(links)
           F == FreeOf(links)
<1>1. Threaded(links) /\ LinksOK(links) /\ A \in SUBSET Elements /\ F = Elements \ A
      /\ F \in SUBSET Elements
  BY RefFacts DEF FreeOf, Allocated
<1>2. /\ IsFiniteSet(Elements) /\ Cardinality(A) \in Nat /\ Cardinality(F) \in Nat
      /\ IsFiniteSet(F)
      /\ Cardinality(A) <= Cardinality(Elements) /\ Cardinality(Elements) \in Nat
  BY <1>1, ElementsFinite, CountFacts
<1>3. ASSUME links.next[CtrlFree] # NIL
      PROVE  Cardinality(A) < Cardinality(Elements)
  <2>1. links.next[CtrlFree] \in F
    BY <1>1, <1>3, AddKeeps
  <2>2. A # Elements
    BY <1>1, <2>1
  <2>3. Cardinality(A) # Cardinality(Elements)
    BY <1>1, <1>2, <2>2, FS_Subset
  <2> QED
    BY <1>2, <2>3
<1>4. ASSUME links.next[CtrlFree] = NIL
      PROVE  Cardinality(A) = Cardinality(Elements)
  <2>1. Lists(FreeTrail(links), links.next, CtrlFree, NIL, F)
    BY <1>1, FreeLists
  <2>2. Cardinality(F) = 0
    <3>1. ASSUME Cardinality(F) # 0 PROVE FALSE
      <4>1. Cardinality(F) > 0 /\ 1 \in 1 .. Cardinality(F)
        BY <1>2, <3>1
      <4>2. NIL \in F
        BY <1>4, <2>1, <4>1 DEF Lists
      <4> QED
        BY <1>1, <4>2, SlotFacts
    <3> QED
      BY <3>1
  <2>3. F = {}
    BY <1>2, <2>2, FS_EmptySet
  <2> QED
    BY <1>1, <2>3
<1> QED
  BY <1>3, <1>4

LEMMA TouchSteps ==
  ASSUME RefInv, NEW s \in Allocated(links), touch(s), hash' = hash
  PROVE  /\ Allocated(links') = Allocated(links)
         /\ OrderOfKeys' = <<hash[s]>> \o Promise!Without(hash[s])
         /\ hash[s] \in Promise!Stored
<1>1. LinksOK(links) /\ links.prev[s] # NIL
  BY RefFacts
<1>2. links' = TouchLinks(links, s)
  BY <1>1 DEF touch
<1>3. Allocated(links') = Allocated(links)
  BY <1>1, <1>2, TouchKeeps
<1>4. PICK p \in 1 .. Cardinality(Allocated(links)) :
           /\ s = Forward(links)[p]
           /\ Promise!Without(hash[s]) = Dropped(OrderOfKeys, p)
           /\ <<hash[s]>> \o Promise!Without(hash[s])
                = Fronted(hash[s], Dropped(OrderOfKeys, p))
  BY PositionFacts
<1>5. OrderOfKeys' = Fronted(hash[s], Dropped(OrderOfKeys, p))
  BY <1>2, <1>4, TouchOrder
<1>6. hash[s] \in Promise!Stored
  BY OrderFacts
<1> QED
  BY <1>3, <1>4, <1>5, <1>6

(* set_el and one item of set_many.                                        *)
LEMMA StorePuts ==
  ASSUME RefInv, RefInv', NEW k \in Keys, NEW v \in Values, store(k, v),
         call.op # "reload", call.op # "evict", call'.op # "evict",
         answer' = SetAnswer(k, v)
  PROVE  Promise!Put(k, v) \/ Promise!Refuse(k)
<1> DEFINE A == Allocated(links)
<1>1. /\ StateType /\ LinksOK(links) /\ A \in SUBSET Elements /\ HashesApart
      /\ \A s \in Elements : s \in A <=> links.prev[s] # NIL
  BY RefFacts
<1>2. Mapped /\ TableSound
  BY DEF RefInv, CompleteInv, IInv, StateOK
<1>3. /\ OrderOfKeys \in Seq(Keys) /\ Len(OrderOfKeys) = Cardinality(A)
      /\ Promise!Stored = { hash[s] : s \in A }
  BY OrderFacts
<1>4. (call.op = "evict") = (call'.op = "evict")
  OBVIOUS
<1>5. CASE table[k] = NIL
  <2>1. add_el(k, v)
    BY <1>5 DEF store
  <2>2. k \notin Promise!Stored
    BY <1>1, <1>2, <1>3, <1>5, WordFacts DEF Mapped
  <2>3. CASE links.next[CtrlFree] = NIL
    <3>1. UNCHANGED <<links, hash, data>>
      BY <2>1, <2>3 DEF add_el, region
    <3>2. OrderOfKeys' = OrderOfKeys /\ ValueFunction' = ValueFunction
      BY <3>1 DEF OrderOfKeys, ValueFunction, ValueOfKey
    <3>3. answer' = <<"refused", k>>
      BY <1>5, <2>3 DEF SetAnswer
    <3>4. Len(OrderOfKeys) = Cardinality(Elements)
      BY <1>3, <2>3, RoomFacts
    <3>5. Promise!Refuse(k)
      BY <1>4, <2>2, <3>2, <3>3, <3>4 DEF Promise!Refuse, ValueFunction
    <3> QED
      BY <3>5
  <2>4. CASE links.next[CtrlFree] # NIL
    <3> DEFINE s == links.next[CtrlFree]
    <3>1. /\ links' = AddLinks(links)
          /\ hash' = [ hash EXCEPT ![s] = k ]
          /\ data' = [ data EXCEPT ![s] = v ]
      BY <2>1, <2>4 DEF add_el
    <3>2. /\ s \in Elements /\ s \notin A
          /\ Allocated(links') = A \cup {s}
      BY <1>1, <2>4, <3>1, AddKeeps DEF FreeOf, Allocated
    <3>3. OrderOfKeys' = <<k>> \o Promise!Without(k)
      <4>1. OrderOfKeys' = Fronted(k, OrderOfKeys)
        BY <2>4, <3>1, AddOrder
      <4>2. Promise!Without(k) = OrderOfKeys
        BY <2>2 DEF Promise!Without
      <4> QED
        BY <1>3, <4>1, <4>2, FrontedIsConcat
    <3>4. ValueFunction' = [ ValueFunction EXCEPT ![k] = v ]
      <4>1. /\ \A t \in A : hash[t] # k
            /\ \A t \in A : hash'[t] = hash[t] /\ data'[t] = data[t]
            /\ hash'[s] = k /\ data'[s] = v
        BY <1>1, <1>3, <2>2, <3>1, <3>2 DEF StateType
      <4> HIDE DEF s
      <4>2. /\ \A t \in A : hash[t] # k =>
                 t \in Allocated(links') /\ hash'[t] = hash[t] /\ data'[t] = data[t]
            /\ \A t \in Allocated(links') : hash'[t] # k => t \in A /\ hash'[t] = hash[t]
            /\ \A t \in Allocated(links') : hash'[t] = k => data'[t] = v
            /\ \E t \in Allocated(links') : hash'[t] = k
        BY <3>2, <4>1
      <4> QED
        BY <4>2, ValuesChange
    <3>5. answer' = <<"stored", k, v>>
      BY <1>5, <2>4 DEF SetAnswer
    <3>6. Len(OrderOfKeys) < Cardinality(Elements)
      BY <1>3, <2>4, RoomFacts
    <3>7. Promise!Put(k, v)
      BY <1>4, <3>3, <3>4, <3>5, <3>6 DEF Promise!Put, ValueFunction
    <3> QED
      BY <3>7
  <2> QED
    BY <2>3, <2>4
<1>6. CASE table[k] # NIL
  <2>1. PICK s \in A : s = table[k] /\ hash[s] = k
    BY <1>2, <1>6 DEF TableSound
  <2>2. s \in Elements /\ links.prev[s] # NIL /\ update_el(s, v)
    BY <1>1, <1>6, <2>1 DEF store
  <2>3. touch(s) /\ hash' = hash /\ data' = [ data EXCEPT ![s] = v ]
    BY <2>2 DEF update_el
  <2>4. /\ Allocated(links') = A
        /\ OrderOfKeys' = <<k>> \o Promise!Without(k)
        /\ k \in Promise!Stored
    BY <2>1, <2>3, TouchSteps
  <2>5. ValueFunction' = [ ValueFunction EXCEPT ![k] = v ]
    <3>1. /\ \A t \in A : hash[t] = k => t = s
          /\ \A t \in A \ {s} : data'[t] = data[t]
          /\ data'[s] = v
      BY <1>1, <2>1, <2>2, <2>3 DEF HashesApart, StateType
    <3>2. \A t \in A : hash[t] # k => data'[t] = data[t]
      BY <2>1, <3>1
    <3>3. /\ \A t \in A : hash[t] # k =>
               t \in Allocated(links') /\ hash'[t] = hash[t] /\ data'[t] = data[t]
          /\ \A t \in Allocated(links') : hash'[t] # k => t \in A /\ hash'[t] = hash[t]
          /\ \A t \in Allocated(links') : hash'[t] = k => data'[t] = v
          /\ \E t \in Allocated(links') : hash'[t] = k
      BY <2>1, <2>3, <2>4, <3>1, <3>2
    <3> QED
      BY <3>3, ValuesChange
  <2>6. answer' = <<"stored", k, v>>
    BY <1>6, <2>1, <2>2 DEF SetAnswer
  <2>7. Promise!Put(k, v)
    BY <1>4, <2>4, <2>5, <2>6 DEF Promise!Put, ValueFunction
  <2> QED
    BY <2>7
<1> QED
  BY <1>5, <1>6

(* get_el of a stored element, by offset or by key.                        *)
LEMMA GetGets ==
  ASSUME RefInv, RefInv', NEW s \in Allocated(links), get_el(s),
         call.op # "evict", call'.op # "evict",
         answer' = <<"value", hash[s], data[s]>>
  PROVE  Promise!Get(hash[s])
<1>1. touch(s) /\ hash' = hash /\ data' = data
  BY DEF get_el
<1>2. /\ Allocated(links') = Allocated(links)
      /\ OrderOfKeys' = <<hash[s]>> \o Promise!Without(hash[s])
      /\ hash[s] \in Promise!Stored
  BY <1>1, TouchSteps
<1>3. hash[s] \in Keys /\ HashesApart
  BY RefFacts
<1>4. ValueFunction' = ValueFunction
  BY <1>1, <1>2 DEF ValueFunction, ValueOfKey
<1>5. ValueFunction[hash[s]] = data[s]
  <2>1. ValueOf(Allocated(links), hash, data, hash[s]) = data[s]
    BY <1>3, ValueFacts DEF HashesApart
  <2> QED
    BY <1>3, <2>1 DEF ValueFunction, ValueOfKey, ValueOf
<1>6. (call.op = "evict") = (call'.op = "evict")
  OBVIOUS
<1> QED
  BY <1>2, <1>4, <1>5, <1>6 DEF Promise!Get, ValueFunction

(* del_el of a stored element.                                             *)
LEMMA DelDrops ==
  ASSUME RefInv, RefInv', NEW s \in Allocated(links), del_el(s), UNCHANGED clock
  PROVE  /\ hash[s] \in Promise!Stored
         /\ OrderOfKeys' = Promise!Without(hash[s])
         /\ ValueFunction' = [ ValueFunction EXCEPT ![hash[s]] = NIL ]
         /\ DelAnswer(s) = <<"erased", hash[s]>>
<1> DEFINE A == Allocated(links)
<1>1. /\ StateOK /\ StateType /\ LinksOK(links) /\ HashesApart /\ s \in Elements
      /\ links.prev[s] # NIL /\ hash[s] \in Keys /\ A \in SUBSET Elements
  BY RefFacts
<1>2. ~AlreadyDeleted(s)
  BY <1>1 DEF AlreadyDeleted
<1>3. /\ links' = DelLinks(links, s) /\ data' = data
      /\ hash' = [ hash EXCEPT ![s] = Max64 ]
  BY <1>2 DEF del_el
<1>4. Allocated(links') = A \ {s}
  BY <1>1, <1>3, DelKeeps
<1>5. PICK p \in 1 .. Cardinality(A) :
        s = Forward(links)[p] /\ Promise!Without(hash[s]) = Dropped(OrderOfKeys, p)
  BY PositionFacts
<1>6. OrderOfKeys' = Dropped(OrderOfKeys, p)
  BY <1>3, <1>5, DelOrder
<1>7. PICK k \in Keys : k = hash[s]
  BY <1>1
<1>8. ValueFunction' = [ ValueFunction EXCEPT ![k] = NIL ]
  <2>1. /\ \A t \in A \ {s} : hash'[t] = hash[t] /\ hash[t] # k /\ data'[t] = data[t]
        /\ hash[s] = k
    BY <1>1, <1>3, <1>7 DEF HashesApart, StateType
  <2>2. /\ \A t \in A : hash[t] # k =>
             t \in Allocated(links') /\ hash'[t] = hash[t] /\ data'[t] = data[t]
        /\ \A t \in Allocated(links') : hash'[t] # k => t \in A /\ hash'[t] = hash[t]
        /\ \A t \in Allocated(links') : hash'[t] = k => data'[t] = NIL
    BY <1>4, <2>1
  <2> QED
    BY <2>2, ValuesChange
<1>9. hash[s] \in Promise!Stored
  BY OrderFacts
<1> QED
  BY <1>2, <1>5, <1>6, <1>7, <1>8, <1>9 DEF DelAnswer

LEMMA DelErases ==
  ASSUME RefInv, RefInv', NEW s \in Allocated(links), del_el(s), UNCHANGED clock,
         call.op # "evict", call'.op # "evict", answer' = DelAnswer(s)
  PROVE  Promise!Erase(hash[s])
<1>1. (call.op = "evict") = (call'.op = "evict")
  OBVIOUS
<1> QED
  BY <1>1, DelDrops DEF Promise!Erase, ValueFunction

(* One element of an eviction: the least recently used one.                *)
LEMMA EvictErases ==
  ASSUME RefInv, RefInv', call.op = "evict", Oldest \in Allocated(links),
         del_el(Oldest), UNCHANGED clock, answer' = DelAnswer(Oldest)
  PROVE  Promise!EvictOldest
<1> DEFINE A == Allocated(links)
           n == Cardinality(A)
           q == Forward(links)
           o == OrderOfKeys
<1>1. /\ Lists(q, links.next, CtrlHdr, CtrlTail, A) /\ n \in Nat
      /\ o \in Seq(Keys) /\ Len(o) = n /\ o \in [1 .. n -> Keys]
      /\ \A i \in 1 .. n : q[i] \in A /\ o[i] = hash[q[i]]
  BY OrderFacts
<1>2. PICK s \in A : s = Oldest
  OBVIOUS
<1>3. /\ hash[s] \in Promise!Stored
      /\ OrderOfKeys' = Promise!Without(hash[s])
      /\ ValueFunction' = [ ValueFunction EXCEPT ![hash[s]] = NIL ]
      /\ DelAnswer(s) = <<"erased", hash[s]>>
  BY <1>2, DelDrops
<1>4. PICK p \in 1 .. n : s = q[p] /\ Promise!Without(hash[s]) = Dropped(o, p)
  BY PositionFacts
<1>5. n > 0 /\ n \in 1 .. n
  BY <1>1, <1>4
<1>6. p = n
  <2>1. links.prev[links.next[q[n]]] = q[n]
    <3>1. ListOver(links, A) /\ q[n] \in A
      BY <1>1, <1>5, RefFacts DEF LinksOK
    <3> QED
      BY <3>1 DEF ListOver
  <2>2. q[n] = s
    BY <1>1, <1>2, <1>5, <2>1 DEF Lists, Oldest
  <2> QED
    BY <1>1, <1>4, <1>5, <2>2 DEF Lists
<1>7. Promise!Last(o) = hash[s]
  BY <1>1, <1>4, <1>5, <1>6 DEF Promise!Last
<1> HIDE DEF A, n, q, o
<1>8. Promise!Front(o) = Dropped(o, n)
  <2> DEFINE w == SubSeq(o, 1, n - 1)
  <2>1. \A i \in 1 .. n - 1 : o[i] \in Keys
    BY <1>1
  <2>2. 1 \in Int /\ n - 1 \in Int /\ (n - 1) - 1 + 1 = n - 1
        /\ \A i \in 1 .. n - 1 : 1 + i - 1 = i
    BY <1>1
  <2>3. /\ w \in Seq(Keys) /\ Len(w) = IF 1 <= n - 1 THEN (n - 1) - 1 + 1 ELSE 0
        /\ \A i \in 1 .. (n - 1) - 1 + 1 : w[i] = o[1 + i - 1]
    BY <2>1, <2>2, SubSeqProperties
  <2> HIDE DEF w
  <2>4. Len(w) = n - 1
    <3>1. CASE 1 <= n - 1
      BY <2>2, <2>3, <3>1
    <3>2. CASE ~ (1 <= n - 1)
      <4>1. n - 1 = 0
        BY <1>1, <1>5, <3>2
      <4> QED
        BY <2>3, <3>2, <4>1
    <3> QED
      BY <3>1, <3>2
  <2>5. w \in [1 .. n - 1 -> Keys]
    BY <2>3, <2>4, SeqOfLen
  <2>6. \A i \in 1 .. n - 1 : w[i] = o[i] /\ i < n
    BY <1>1, <2>2, <2>3
  <2>7. w = [ i \in 1 .. n - 1 |-> IF i < n THEN o[i] ELSE o[i + 1] ]
    BY <2>5, <2>6
  <2> QED
    BY <1>1, <2>7 DEF Promise!Front, Dropped, w
<1>9. o # <<>>
  <2>1. Len(<<>>) = 0
    BY EmptySeq
  <2> QED
    BY <1>1, <1>5, <2>1
<1>10. (call'.op = "evict") \in BOOLEAN
  OBVIOUS
<1> QED
  BY <1>2, <1>3, <1>4, <1>6, <1>7, <1>8, <1>9, <1>10 DEF Promise!EvictOldest, ValueFunction, o

-----------------------------------------------------------------------------
(* The refinement: initial states, steps, behaviours.                      *)

(* Links, words and values are all the mapping reads of a segment.         *)
LEMMA QuietSteps ==
  ASSUME UNCHANGED <<links, hash, data>>
  PROVE  /\ OrderOfKeys' = OrderOfKeys
         /\ ValueFunction' = ValueFunction
         /\ Promise!Stored' = Promise!Stored
BY DEF OrderOfKeys, ValueFunction, ValueOfKey, Promise!Stored, Promise!ToSet

LEMMA SilentSteps ==
  ASSUME UNCHANGED <<links, hash, data>>, (call'.op = "evict") = (call.op = "evict"),
         answer' = None
  PROVE  Promise!Silent
BY QuietSteps DEF Promise!Silent, ValueFunction, None, Promise!None

(* A call that is no batch is one of the store's calls.                    *)
LEMMA AloneMaps ==
  ASSUME call.op # "set_many", call'.op # "set_many", Promise!Call
  PROVE  Promise!Next
BY DEF Promise!Next, Remaining

LEMMA InitMaps == AnswerInit => RefInv /\ Promise!Init
<1> SUFFICES ASSUME AnswerInit PROVE RefInv /\ Promise!Init
  OBVIOUS
<1>1. Init /\ answer = None
  BY DEF AnswerInit
<1>2. RefInv
  BY <1>1, IInit, ListInit, CompleteInit DEF RefInv
<1>3. Allocated(links) = {} /\ call.op # "evict" /\ call.op # "set_many"
  BY <1>1, SetupKeeps, CallFacts DEF Init
<1>4. OrderOfKeys = <<>>
  <2>1. OrderOfKeys \in Seq(Keys) /\ Len(OrderOfKeys) = 0
    BY <1>2, <1>3, OrderFacts, FS_EmptySet
  <2> QED
    BY <2>1, EmptySeq
<1>5. ValueFunction = [ k \in Keys |-> NIL ]
  BY <1>3 DEF ValueFunction, ValueOfKey
<1> QED
  BY <1>1, <1>2, <1>3, <1>4, <1>5 DEF Promise!Init, ValueFunction, Remaining, None, Promise!None

(* The calls and what they return are steps of LRUCache.                   *)
LEMMA AnswerSteps ==
  ASSUME [AnswerNext]_<<vars, answer>>
  PROVE  [Next]_vars
BY DEF AnswerNext, Next, LoopStep, NotFound

LEMMA RefStep ==
  ASSUME CarefulDelete, KeepTable, RefInv, [AnswerNext]_<<vars, answer>>
  PROVE  RefInv'
BY AnswerSteps, IStep, ListStep, CompleteStep DEF RefInv

(* What the table knows is stored, and what it does not know is not.       *)
LEMMA FoundFacts ==
  ASSUME RefInv, call.op # "reload", NEW k \in Keys
  PROVE  /\ table[k] # NIL => table[k] \in Allocated(links) /\ hash[table[k]] = k
         /\ table[k] = NIL => k \notin Promise!Stored
<1>1. Mapped /\ TableSound /\ NIL \notin Elements
  BY WordFacts DEF RefInv, CompleteInv, IInv, StateOK
<1>2. Promise!Stored = { hash[s] : s \in Allocated(links) }
  BY OrderFacts
<1> QED
  BY <1>1, <1>2 DEF Mapped, TableSound, Allocated

LEMMA StepMaps ==
  ASSUME CarefulDelete, KeepTable, RefInv, RefInv', [AnswerNext]_<<vars, answer>>
  PROVE  [Promise!Next]_(Promise!vars)
<1>1. /\ StateType /\ LinksOK(links) /\ call \in Calls
      /\ Allocated(links) \in SUBSET Elements
      /\ \A s \in Elements : s \in Allocated(links) <=> links.prev[s] # NIL
  BY RefFacts DEF RefInv, IInv
<1>2. Idle.op # "reload" /\ Idle.op # "evict" /\ Idle.op # "set_many"
  BY CallFacts
<1>3. ASSUME NEW p \in Pairs, NEW v \in Values, SetEl(p, v), answer' = SetAnswer(SetKey(p), v)
      PROVE  Promise!Next
  <2>1. call = Idle /\ call' = Idle /\ store(SetKey(p), v) /\ SetKey(p) \in Keys
    BY <1>3, WordFacts DEF SetEl
  <2>2. Promise!Put(SetKey(p), v) \/ Promise!Refuse(SetKey(p))
    BY <1>2, <1>3, <2>1, StorePuts
  <2> QED
    BY <1>2, <2>1, <2>2, AloneMaps DEF Promise!Call
<1>4. ASSUME NEW p \in Pairs, GetElHash(p), answer' = HashAnswer(GetKey(p))
      PROVE  Promise!Next
  <2> DEFINE k == GetKey(p)
  <2>1. call = Idle /\ call' = Idle /\ get_el(table[k]) /\ k \in Keys /\ table[k] # NIL
    BY <1>4, WordFacts DEF GetElHash
  <2>2. PICK s \in Allocated(links) : s = table[k] /\ hash[s] = k
    BY <1>2, <2>1, FoundFacts
  <2>3. answer' = <<"value", hash[s], data[s]>>
    BY <1>1, <1>4, <2>1, <2>2 DEF HashAnswer
  <2>4. Promise!Get(k)
    BY <1>2, <2>1, <2>2, <2>3, GetGets
  <2> QED
    BY <1>2, <2>1, <2>4, AloneMaps DEF Promise!Call
<1>5. ASSUME NEW p \in Pairs, DelKey(p), answer' = DelAnswer(table[GetKey(p)])
      PROVE  Promise!Next
  <2> DEFINE k == GetKey(p)
  <2>1. /\ call = Idle /\ call' = Idle /\ del_el(table[k]) /\ UNCHANGED clock
        /\ k \in Keys /\ table[k] # NIL
    BY <1>5, WordFacts DEF DelKey
  <2>2. PICK s \in Allocated(links) : s = table[k] /\ hash[s] = k
    BY <1>2, <2>1, FoundFacts
  <2>3. Promise!Erase(k)
    BY <1>2, <1>5, <2>1, <2>2, DelErases
  <2> QED
    BY <1>2, <2>1, <2>3, AloneMaps DEF Promise!Call
<1>6. ASSUME NEW p \in Pairs, NotFound(p) PROVE Promise!Next
  <2> DEFINE k == GetKey(p)
  <2>1. /\ call = Idle /\ k \in Keys /\ table[k] = NIL
        /\ answer' = <<"missing", k>> /\ UNCHANGED <<links, hash, data, call>>
    BY <1>6, WordFacts DEF NotFound, vars
  <2>2. k \notin Promise!Stored
    BY <1>2, <2>1, FoundFacts
  <2>3. Promise!Miss(k)
    BY <1>2, <2>1, <2>2, QuietSteps DEF Promise!Miss, ValueFunction
  <2> QED
    BY <1>2, <2>1, <2>3, AloneMaps DEF Promise!Call
<1>7. ASSUME NEW s \in Elements, GetEl(s), answer' = GetAnswer(s) PROVE Promise!Next
  <2>1. call = Idle /\ call' = Idle /\ get_el(s)
    BY <1>7 DEF GetEl
  <2>2. CASE s \in Allocated(links)
    <3>1. answer' = <<"value", hash[s], data[s]>>
      BY <1>1, <1>7, <2>2 DEF GetAnswer
    <3>2. Promise!Get(hash[s]) /\ hash[s] \in Keys
      BY <1>1, <1>2, <2>1, <2>2, <3>1, GetGets, RefFacts
    <3> QED
      BY <1>2, <2>1, <3>2, AloneMaps DEF Promise!Call
  <2>3. CASE s \notin Allocated(links)
    <3>1. UNCHANGED <<links, hash, data>> /\ answer' = None
      BY <1>1, <1>7, <2>1, <2>3 DEF get_el, touch, GetAnswer
    <3> QED
      BY <2>1, <3>1, SilentSteps DEF Promise!Next, Remaining
  <2> QED
    BY <2>2, <2>3
<1>8. ASSUME NEW s \in Elements, DelEl(s), answer' = DelAnswer(s) PROVE Promise!Next
  <2>1. /\ call = Idle /\ call' = Idle /\ del_el(s) /\ UNCHANGED clock
        /\ s \in Allocated(links)
    BY <1>8 DEF DelEl
  <2>2. Promise!Erase(hash[s]) /\ hash[s] \in Keys
    BY <1>2, <1>8, <2>1, DelErases, RefFacts
  <2> QED
    BY <1>2, <2>1, <2>2, AloneMaps DEF Promise!Call
<1>9. ASSUME SetManyStep,
             answer' = SetAnswer(GetKey(Head(call.rest)[1]), Head(call.rest)[2])
      PROVE  Promise!Next
  <2> DEFINE item == Head(call.rest)
             k == GetKey(item[1])
  <2>1. /\ call.op = "set_many" /\ NextItem
        /\ call.rest \in Seq(Pairs \X Values) \ {<<>>}
        /\ call = [op |-> "set_many", rest |-> call.rest]
        /\ store(k, item[2])
    BY <1>1, <1>9, CallFacts DEF SetManyStep
  <2>2. item[1] \in Pairs /\ item[2] \in Values
    BY <2>1
  <2>3. k \in Keys
    BY <2>2, WordFacts
  <2>4. call'.op # "evict" /\ Remaining' = Tail(Remaining)
    <3>1. Remaining = call.rest
      BY <2>1 DEF Remaining
    <3>2. CASE Len(call.rest) = 1
      <4>1. call' = Idle /\ Tail(call.rest) = <<>>
        BY <2>1, <3>2 DEF NextItem
      <4> QED
        BY <1>2, <3>1, <4>1 DEF Remaining
    <3>3. CASE Len(call.rest) # 1
      <4>1. call' = [op |-> "set_many", rest |-> Tail(call.rest)]
        BY <2>1, <3>3 DEF NextItem
      <4> QED
        BY <3>1, <4>1 DEF Remaining
    <3> QED
      BY <3>2, <3>3
  <2>5. Promise!Put(k, item[2]) \/ Promise!Refuse(k)
    <3>1. call.op # "reload" /\ call.op # "evict"
      BY <2>1
    <3> QED
      BY <1>9, <2>1, <2>2, <2>3, <2>4, <3>1, StorePuts
  <2>6. Remaining # <<>> /\ item = Head(Remaining) /\ k = item[1]
    BY <2>1 DEF Remaining, GetKey
  <2> HIDE DEF item, k
  <2>7. Promise!PutNext
    BY <2>4, <2>5, <2>6 DEF Promise!PutNext
  <2> QED
    BY <2>7 DEF Promise!Next
<1>10. ASSUME EvictStep, answer' = IF Oldest = CtrlHdr THEN None ELSE DelAnswer(Oldest)
       PROVE  Promise!Next
  <2>1. call.op = "evict" /\ UNCHANGED clock
    BY <1>10 DEF EvictStep
  <2>2. CASE Oldest = CtrlHdr
    <3>1. call' = Idle /\ UNCHANGED <<links, hash, data>> /\ answer' = None
      BY <1>10, <2>2 DEF EvictStep, region
    <3>2. Promise!FinishEvict
      BY <1>2, <2>1, <3>1, QuietSteps DEF Promise!FinishEvict, ValueFunction, None, Promise!None
    <3> QED
      BY <1>2, <2>1, <3>1, <3>2, AloneMaps DEF Promise!Call
  <2>3. CASE Oldest # CtrlHdr
    <3>1. Oldest \in Allocated(links) /\ del_el(Oldest) /\ answer' = DelAnswer(Oldest)
      BY <1>1, <1>10, <2>3 DEF EvictStep, Oldest, LinksOK, ListOver
    <3>2. Promise!EvictOldest
      BY <2>1, <3>1, EvictErases
    <3>3. call' = Idle \/ call' = [call EXCEPT !.done = @ + 1]
      BY <1>10, <2>3 DEF EvictStep
    <3>4. [call EXCEPT !.done = @ + 1].op = call.op
      BY <1>1, <2>1, CallFacts
    <3> QED
      BY <1>2, <2>1, <3>2, <3>3, <3>4, AloneMaps DEF Promise!Call
  <2> QED
    BY <2>2, <2>3
<1>11. ASSUME NEW age, NEW n, RunLruEviction(age, n), answer' = None
       PROVE  Promise!Next
  <2>1. /\ call.op \notin {"evict", "set_many"} /\ call'.op = "evict"
        /\ UNCHANGED <<links, hash, data>>
    BY <1>2, <1>11 DEF RunLruEviction, region
  <2>2. Promise!StartEvict
    BY <1>11, <2>1, QuietSteps DEF Promise!StartEvict, ValueFunction, None, Promise!None
  <2> QED
    BY <2>1, <2>2, AloneMaps DEF Promise!Call
<1>12. ASSUME RejectedOffset \/ GetLastReason \/ Tick, answer' = None
       PROVE  Promise!Next
  <2>1. UNCHANGED <<links, hash, data, call>>
    BY <1>12 DEF RejectedOffset, GetLastReason, Tick, region
  <2> QED
    BY <1>12, <2>1, SilentSteps DEF Promise!Next, Remaining
<1>13. ASSUME ReloadHashMap, answer' = None PROVE Promise!Next
  <2>1. /\ call.op \notin {"evict", "set_many"} /\ call'.op \notin {"evict", "set_many"}
        /\ UNCHANGED <<links, hash, data>>
    BY <1>2, <1>13 DEF ReloadHashMap, region
  <2> QED
    BY <1>13, <2>1, SilentSteps DEF Promise!Next, Remaining
<1>14. ASSUME ReloadStep, answer' = None PROVE Promise!Next
  <2>1. call.op = "reload" /\ UNCHANGED <<links, hash, data>>
    BY <1>14 DEF ReloadStep, region
  <2>2. call' = Idle \/ call' = [call EXCEPT !.at = links.next[call.at], !.seen = @ + 1]
    BY <1>14 DEF ReloadStep, WalkEnd, WalkNext
  <2>3. call = [op |-> "reload", at |-> call.at, seen |-> call.seen]
    BY <1>1, <2>1, CallFacts
  <2>4. [call EXCEPT !.at = links.next[call.at], !.seen = @ + 1].op = call.op
    BY <2>3
  <2>5. call.op \notin {"evict", "set_many"} /\ call'.op \notin {"evict", "set_many"}
    BY <1>2, <2>1, <2>2, <2>4
  <2> QED
    BY <1>14, <2>1, <2>5, SilentSteps DEF Promise!Next, Remaining
<1>15. CASE UNCHANGED <<vars, answer>>
  <2>1. UNCHANGED <<links, hash, data, call, answer>>
    BY <1>15 DEF vars
  <2> QED
    BY <2>1, QuietSteps DEF Promise!vars, ValueFunction, Remaining
<1>16. ASSUME NEW batch \in Batches, SetMany(batch), answer' = None PROVE Promise!Next
  <2>1. /\ call.op \notin {"evict", "set_many"} /\ call' = [op |-> "set_many", rest |-> batch]
        /\ UNCHANGED <<links, hash, data>>
    BY <1>2, <1>16 DEF SetMany, region
  <2>2. call'.op = "set_many" /\ call'.rest = batch
    BY <2>1
  <2>3. batch \in Seq(Keys \X Values) \ {<<>>}
    <3>1. call' \in Calls
      BY DEF RefInv, IInv
    <3>2. batch \in Seq(Pairs \X Values) \ {<<>>}
      BY <2>2, <3>1, CallFacts
    <3> QED
      BY <3>2, CacheAssumption
  <2>4. Remaining = <<>> /\ Remaining' = batch
    BY <2>1, <2>2 DEF Remaining
  <2>5. Promise!Silent
    BY <1>16, <2>1, <2>2, SilentSteps
  <2>6. Promise!StartBatch
    BY <2>1, <2>3, <2>4, <2>5 DEF Promise!StartBatch
  <2> QED
    BY <2>6 DEF Promise!Next
<1> QED
  BY <1>3, <1>4, <1>5, <1>6, <1>7, <1>8, <1>9, <1>10, <1>11, <1>12, <1>13, <1>14, <1>15, <1>16
  DEF AnswerNext

(* A process alone on a segment whose callers delete stored elements only  *)
(* and drop no entry of the table sees a bounded store: what set_el keeps  *)
(* under a key is what get_el_hash reads for it until del_el or an         *)
(* eviction takes it, a value is refused only when no element is free, and *)
(* the eviction takes the keys that were used least recently.              *)
THEOREM CacheIsAStore ==
  ASSUME CarefulDelete, KeepTable
  PROVE  AnswerSpec => StoreSpec
<1>1. AnswerInit => RefInv
  BY InitMaps
<1>2. RefInv /\ [AnswerNext]_<<vars, answer>> => RefInv'
  BY RefStep
<1>3. AnswerInit => Promise!Init
  BY InitMaps
<1>4. RefInv /\ RefInv' /\ [AnswerNext]_<<vars, answer>> => [Promise!Next]_(Promise!vars)
  BY StepMaps
<1> QED
  BY <1>1, <1>2, <1>3, <1>4, PTL DEF AnswerSpec, StoreSpec, Promise!Spec
=============================================================================

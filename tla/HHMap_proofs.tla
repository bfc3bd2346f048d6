----------------------------- MODULE HHMap_proofs -----------------------------
(***************************************************************************)
(* HHMap, for a table of any size and width: bits and entries agree also   *)
(* between two hops of a store, a store works its way towards its home     *)
(* bucket, and every step of the table is a step of HHSpec's bag of        *)
(* entries, or leaves it alone.                                            *)
(***************************************************************************)
EXTENDS HHRefinement, HHTable_proofs

(* The home buckets are slots.                                             *)
LEMMA BucketFacts == \A b \in Buckets : b \in Word /\ Home(b) \in Slot
BY HomeFacts, MapAssumption

-----------------------------------------------------------------------------
(* The calls.                                                              *)

(* What makes the properties of HHMap last: the counter and the bits agree *)
(* with the entries, and a store in progress holds a free slot, to which   *)
(* the next hop moves an entry and which, in reach, takes the new one.     *)
MapInv == TypeOK /\ Agree(T) /\ FreeSlotInHand

Puts == [ op : {"put"}, bucket : Buckets, key : ElKeys, val : Offsets, d : 0 .. N - 1 ]

(* The table is empty and no store is in progress.                         *)
LEMMA MapInit == Init => MapInv
<1> SUFFICES ASSUME Init PROVE MapInv
  OBVIOUS
<1>1. TableInv(T) /\ put = Idle /\ answer = None
  BY EmptyKeeps DEF Init
<1>2. put.op # "put"
  BY <1>1 DEF Idle
<1> QED
  BY <1>1, <1>2 DEF MapInv, TableInv, TypeOK, FreeSlotInHand, Answers

(* put_hh_hash starts with the free slot that _probe has found.            *)
LEMMA StoreStep ==
  ASSUME MapInv, NEW b \in Buckets, NEW k \in ElKeys, NEW v \in Offsets, Store(b, k, v)
  PROVE  MapInv'
<1>1. T' = T /\ T \in Tables /\ Agree(T)
  BY DEF MapInv, TypeOK, Store
<1>2. CASE answer' = <<"refused", b, k, v>> /\ put' = put
  <2>1. answer' \in Answers
    BY <1>2 DEF Answers
  <2> QED
    BY <1>1, <1>2, <2>1 DEF MapInv, TypeOK, FreeSlotInHand
<1>3. CASE /\ Probe(T, Home(b)) # NoDistance /\ answer' = None
           /\ put' = [ op |-> "put", bucket |-> b, key |-> k, val |-> v,
                       d |-> Probe(T, Home(b)) ]
  <2>1. /\ Probe(T, Home(b)) \in 0 .. N - 1
        /\ SlotAt(Home(b), Probe(T, Home(b))) \notin Occupied(T)
    BY <1>3, ProbeFinds, BucketFacts
  <2>2. put' \in Puts /\ put'.bucket = b /\ put'.d = Probe(T, Home(b))
    BY <1>3, <2>1 DEF Puts
  <2>3. answer' \in Answers
    BY <1>3 DEF Answers
  <2> QED
    BY <1>1, <2>1, <2>2, <2>3 DEF MapInv, TypeOK, FreeSlotInHand, Puts
<1> QED
  BY <1>2, <1>3 DEF Store

(* A hop moves an entry into the free slot, and holds the slot it leaves.  *)
LEMMA HopStep ==
  ASSUME MapInv, Hop
  PROVE  /\ MapInv'
         /\ put' # Idle => put'.d < put.d
<1>1. TableInv(T) /\ put \in Puts /\ put.d >= K
  BY DEF MapInv, TypeOK, TableInv, Hop, Puts, Idle
<1> DEFINE h == Home(put.bucket)
           free == SlotAt(h, put.d)
           z == HopScotch(T, free)
           b == MOD(N + free - z)
           i == Least(T.H[b])
           e == MOD(N + b + i - h)
<1>2. /\ put.d \in 0 .. N - 1 /\ put.bucket \in Buckets /\ h \in Slot
      /\ free \notin Occupied(T)
  BY <1>1, BucketFacts DEF MapInv, FreeSlotInHand, Puts
<1>3. CASE z = 0 /\ PutIsOver("refused") /\ T' = T
  <2>1. put' = Idle /\ put'.op # "put"
    BY <1>3 DEF PutIsOver, Idle
  <2>2. answer' \in Answers
    BY <1>1, <1>3 DEF PutIsOver, Answers, Puts
  <2> QED
    BY <1>3, <2>1, <2>2 DEF MapInv, TypeOK, FreeSlotInHand
<1>4. CASE z # 0 /\ T' = Swap(T, b, i, z) /\ put' = [ put EXCEPT !.d = e ] /\ answer' = answer
  <2>1. /\ b \in Slot /\ i \in T.H[b] /\ z \in 1 .. K - 1 /\ i < z
        /\ z \in 0 .. N - 1 /\ SlotAt(b, z) = free
        /\ e \in 0 .. N - 1 /\ e < put.d /\ SlotAt(h, e) = SlotAt(b, i)
    <3> HIDE DEF h, free, z, b, i, e
    <3> QED
      BY <1>1, <1>2, <1>4, HopFinds DEF free, z, b, i, e, Below, Nearer
  <2> HIDE DEF z, b, i, e
  <2>2. /\ TableInv(T')
        /\ Occupied(T') = (Occupied(T) \ {SlotAt(b, i)}) \cup {SlotAt(b, z)}
    <3>1. z < K
      BY <2>1, TableAssumption
    <3> QED
      BY <1>1, <1>2, <1>4, <2>1, <3>1, SwapKeeps
  <2>3. put' \in Puts /\ put'.bucket = put.bucket /\ put'.d = e
    BY <1>1, <1>4, <2>1 DEF Puts
  <2>4. SlotAt(h, e) \notin Occupied(T')
    <3>1. SlotAt(b, i) \in Occupied(T)
      BY <1>1, <2>1 DEF TableInv, Agree
    <3> QED
      BY <1>2, <2>1, <2>2, <3>1
  <2> QED
    BY <1>4, <2>1, <2>2, <2>3, <2>4 DEF MapInv, TableInv, TypeOK, FreeSlotInHand, Puts
<1> QED
  BY <1>3, <1>4 DEF Hop

(* The new entry goes into the free slot, which is in reach.               *)
LEMMA PutStep ==
  ASSUME MapInv, Put
  PROVE  MapInv'
<1>1. TableInv(T) /\ put \in Puts /\ put.d < K
  BY DEF MapInv, TypeOK, TableInv, Put, Puts, Idle
<1> DEFINE h == Home(put.bucket)
           e == [ val |-> put.val, key |-> put.key ]
<1>2. /\ put.d \in 0 .. N - 1 /\ h \in Slot /\ SlotAt(h, put.d) \notin Occupied(T)
  BY <1>1, BucketFacts DEF MapInv, FreeSlotInHand, Puts
<1>3. e \in Entry /\ e # FreeSlot
  <2>1. put.val \in Word /\ put.val # 0 /\ put.key \in Word
    BY <1>1, MapAssumption DEF Puts
  <2> QED
    BY <2>1 DEF Entry, FreeSlot
<1>4. T' = Place(T, h, put.d, e) /\ put' = Idle /\ put'.op # "put"
  BY DEF Put, PutIsOver, Idle
<1>5. TableInv(T')
  <2> HIDE DEF e, h
  <2> QED
    BY <1>1, <1>2, <1>3, <1>4, PlaceKeeps
<1>6. answer' \in Answers
  BY <1>1 DEF Put, PutIsOver, Answers, Puts
<1> QED
  BY <1>4, <1>5, <1>6 DEF MapInv, TableInv, TypeOK, FreeSlotInHand

(* No call takes the bits, the entries and the counter apart.              *)
LEMMA MapStep == MapInv /\ [Next]_vars => MapInv'
<1> SUFFICES ASSUME MapInv, [Next]_vars PROVE MapInv'
  OBVIOUS
<1>1. CASE UNCHANGED vars
  BY <1>1 DEF vars, MapInv, TypeOK, Agree, FreeSlotInHand
<1>2. ASSUME NEW b \in Buckets, NEW k \in ElKeys, Get(b, k) PROVE MapInv'
  <2>1. answer' \in Answers
    BY <1>2, LookupType, BucketFacts DEF Get, Answers, MapInv, TypeOK
  <2> QED
    BY <1>2, <2>1 DEF Get, MapInv, TypeOK, Agree, FreeSlotInHand
<1>3. ASSUME NEW b \in Buckets, NEW k \in ElKeys, Del(b, k) PROVE MapInv'
  <2>1. TableInv(T')
    BY <1>3, DeleteKeeps, BucketFacts DEF Del, MapInv, TypeOK, TableInv
  <2>2. answer' \in Answers /\ put' = Idle /\ put'.op # "put"
    BY <1>3 DEF Del, Answers, Idle
  <2> QED
    BY <2>1, <2>2 DEF MapInv, TypeOK, TableInv, FreeSlotInHand
<1>4. ASSUME NEW b \in Buckets, NEW k \in ElKeys, NEW v \in Offsets, Store(b, k, v)
      PROVE  MapInv'
  BY <1>4, StoreStep
<1>5. CASE Hop \/ Put
  BY <1>5, HopStep, PutStep
<1>6. CASE Clear
  <2>1. TableInv(T')
    BY <1>6, EmptyKeeps DEF Clear
  <2>2. answer' \in Answers /\ put' = Idle /\ put'.op # "put"
    BY <1>6 DEF Clear, Answers, Idle
  <2> QED
    BY <2>1, <2>2 DEF MapInv, TypeOK, TableInv, FreeSlotInHand
<1> QED
  BY <1>1, <1>2, <1>3, <1>4, <1>5, <1>6 DEF Next

(* The invariant of the map.                                               *)
THEOREM MapAlways == Spec => []MapInv
BY MapInit, MapStep, PTL DEF Spec

(* The words of the table, the store in progress and the answers have      *)
(* their types; _count never leaves 0 .. N, and does not wrap around.      *)
THEOREM TypesCorrect == Spec => []TypeOK
<1>1. MapInv => TypeOK
  BY DEF MapInv
<1> QED
  BY <1>1, MapAlways, PTL

(* In a table of any size and width no entry is ever claimed twice or      *)
(* lost to its bucket, and no free slot is claimed: also between two hops  *)
(* of a store, and after a store that hopped in vain.                      *)
THEOREM EveryEntryClaimedOnce == Spec => []ClaimedOnce
<1>1. MapInv => ClaimedOnce
  <2> SUFFICES ASSUME MapInv, NEW s \in Slot
               PROVE  Cardinality(Claims(s)) = IF s \in Occupied(T) THEN 1 ELSE 0
    BY DEF ClaimedOnce
  <2>1. TableInv(T)
    BY DEF MapInv, TypeOK, TableInv
  <2>2. \A c \in Claims(s) :
          c[1] \in Slot /\ c[2] \in T.H[c[1]] /\ SlotAt(c[1], c[2]) = s /\ c = <<c[1], c[2]>>
    BY DEF Claims
  <2>3. CASE s \in Occupied(T)
    <3>1. PICK h \in Slot : \E d \in T.H[h] : SlotAt(h, d) = s
      BY <2>1, <2>3 DEF TableInv, Agree
    <3>2. PICK d \in T.H[h] : SlotAt(h, d) = s
      BY <3>1
    <3>3. <<h, d>> \in Claims(s)
      BY <2>1, <3>2, BitFacts DEF Claims
    <3>4. \A c \in Claims(s) : c = <<h, d>>
      BY <2>1, <2>2, <3>2 DEF TableInv, Agree
    <3>5. Claims(s) = {<<h, d>>}
      BY <3>3, <3>4
    <3> QED
      BY <2>3, <3>5, FS_Singleton
  <2>4. CASE s \notin Occupied(T)
    <3>1. Claims(s) = {}
      BY <2>1, <2>2, <2>4 DEF TableInv, Agree
    <3> QED
      BY <2>4, <3>1, FS_EmptySet
  <2> QED
    BY <2>3, <2>4
<1> QED
  BY <1>1, MapAlways, PTL

(* The counter that decides whether the table is full never drifts.        *)
THEOREM CounterExact == Spec => []CountExact
<1>1. MapInv => CountExact
  BY DEF MapInv, Agree, CountExact
<1> QED
  BY <1>1, MapAlways, PTL

(* No other call and no hop takes the slot a store holds.                  *)
THEOREM HeldSlotStaysFree == Spec => []FreeSlotInHand
<1>1. MapInv => FreeSlotInHand
  BY DEF MapInv
<1> QED
  BY <1>1, MapAlways, PTL

(* Each hop brings the free slot nearer, whatever the farthest bucket with *)
(* an entry to move is: the loop of put_hh_hash has a variant.             *)
THEOREM HopsApproach == Spec => HopsCloser
<1>1. MapInv /\ [Next]_vars => [ Hop /\ put' # Idle => put'.d < put.d ]_vars
  BY HopStep
<1> QED
  BY <1>1, MapAlways, PTL DEF Spec, HopsCloser

-----------------------------------------------------------------------------
(* The bag of entries.                                                     *)

(* What the callers are asked: no key is 0, the mark of a free slot, and   *)
(* the bucket and a distance never add up to more than a word.             *)
Callers == 0 \notin ElKeys /\ \A b \in Buckets : b + K <= MaxWord + 1

(* Every entry was stored by a caller, under a bucket of the callers.      *)
Stored(t) ==
  /\ \A h \in Slot : t.H[h] # {} => \E b \in Buckets : Home(b) = h
  /\ \A s \in Occupied(t) : t.V[s].key \in ElKeys /\ t.V[s].val \in Offsets

RefInv == MapInv /\ Stored(T)

-----------------------------------------------------------------------------
(* The steps of the promise.                                               *)

Classes == { Home(b) : b \in Buckets }

BagOf(t) == [ e \in Classes \X ElKeys \X Offsets |->
                Cardinality(Places(t, e[1], [val |-> e[3], key |-> e[2]])) ]

(* The mapped bag of the refinement is that of the current table.          *)
LEMMA BagFacts ==
  /\ BagOf(T) = [ e \in Classes \X ElKeys \X Offsets |-> Entries(e[1], e[2], e[3]) ]
  /\ \A b \in Buckets : Home(b) \in Classes /\ Classes \subseteq Slot
BY BucketFacts DEF BagOf, Entries, Places, Classes

(* From t to u one entry takes a place, or gives it up.                    *)
Gains(t, u, c, k, v, d) ==
  \A g \in Classes, l \in ElKeys, w \in Offsets :
    Places(u, g, [val |-> w, key |-> l])
      = IF <<g, l, w>> = <<c, k, v>> THEN Places(t, g, [val |-> w, key |-> l]) \cup {d}
                                  ELSE Places(t, g, [val |-> w, key |-> l])

Loses(t, u, c, k, v, d) ==
  \A g \in Classes, l \in ElKeys, w \in Offsets :
    Places(u, g, [val |-> w, key |-> l])
      = IF <<g, l, w>> = <<c, k, v>> THEN Places(t, g, [val |-> w, key |-> l]) \ {d}
                                  ELSE Places(t, g, [val |-> w, key |-> l])

(* The bag at one class, key and value.                                    *)
LEMMA BagValue ==
  ASSUME NEW t, NEW g \in Classes, NEW l \in ElKeys, NEW w \in Offsets
  PROVE  BagOf(t)[<<g, l, w>>] = Cardinality(Places(t, g, [val |-> w, key |-> l]))
BY DEF BagOf

(* One entry more, and the others as they were.                            *)
LEMMA BagPlus ==
  ASSUME NEW t \in Tables, NEW u \in Tables, NEW c \in Classes, NEW k \in ElKeys,
         NEW v \in Offsets, NEW d, d \notin Places(t, c, [val |-> v, key |-> k]),
         Gains(t, u, c, k, v, d)
  PROVE  BagOf(u) = [ BagOf(t) EXCEPT ![<<c, k, v>>] = @ + 1 ]
<1> DEFINE B == [ BagOf(t) EXCEPT ![<<c, k, v>>] = @ + 1 ]
           I == Classes \X ElKeys \X Offsets
           P == Places(t, c, [val |-> v, key |-> k])
           Q == Places(u, c, [val |-> v, key |-> k])
<1>1. c \in Slot
  BY BucketFacts DEF Classes
<1>2. Cardinality(Q) = Cardinality(P) + 1
  <2>1. Q = P \cup {d}
    BY DEF Gains
  <2>2. IsFiniteSet(P) /\ d \notin P
    BY <1>1, PlacesFinite
  <2> HIDE DEF P, Q
  <2> QED
    BY <2>1, <2>2, FS_AddElement
<1>3. <<c, k, v>> \in I
  OBVIOUS
<1>4. \A x \in I : B[x] = IF x = <<c, k, v>> THEN BagOf(t)[x] + 1 ELSE BagOf(t)[x]
  BY <1>3 DEF BagOf
<1>5. ASSUME NEW g \in Classes, NEW l \in ElKeys, NEW w \in Offsets
      PROVE  BagOf(u)[<<g, l, w>>] = B[<<g, l, w>>]
  <2>1. <<g, l, w>> \in I
    OBVIOUS
  <2>2. /\ BagOf(u)[<<g, l, w>>] = Cardinality(Places(u, g, [val |-> w, key |-> l]))
        /\ BagOf(t)[<<g, l, w>>] = Cardinality(Places(t, g, [val |-> w, key |-> l]))
    BY <2>1, BagValue
  <2>3. CASE <<g, l, w>> = <<c, k, v>>
    <3>1. g = c /\ l = k /\ w = v
      BY <2>3
    <3> HIDE DEF B, I
    <3> QED
      BY <1>2, <1>4, <2>1, <2>2, <2>3, <3>1
  <2>4. CASE <<g, l, w>> # <<c, k, v>>
    <3>1. Places(u, g, [val |-> w, key |-> l]) = Places(t, g, [val |-> w, key |-> l])
      BY <2>4 DEF Gains
    <3> HIDE DEF B, I
    <3> QED
      BY <1>4, <2>1, <2>2, <2>4, <3>1
  <2> QED
    BY <2>3, <2>4
<1>6. DOMAIN BagOf(u) = I /\ DOMAIN B = I
  BY DEF BagOf
<1>7. \A x \in I : BagOf(u)[x] = B[x]
  <2> SUFFICES ASSUME NEW x \in I PROVE BagOf(u)[x] = B[x]
    OBVIOUS
  <2>1. PICK g \in Classes, l \in ElKeys, w \in Offsets : x = <<g, l, w>>
    OBVIOUS
  <2> HIDE DEF B
  <2> QED
    BY <1>5, <2>1
<1>8. BagOf(u) = [ x \in I |-> BagOf(u)[x] ] /\ B = [ x \in I |-> B[x] ]
  BY <1>6 DEF BagOf
<1> HIDE DEF B, I
<1>9. BagOf(u) = B
  BY <1>7, <1>8
<1> QED
  BY <1>9 DEF B

(* One entry less, and the others as they were.                            *)
LEMMA BagMinus ==
  ASSUME NEW t \in Tables, NEW u \in Tables, NEW c \in Classes, NEW k \in ElKeys,
         NEW v \in Offsets, NEW d, d \in Places(t, c, [val |-> v, key |-> k]),
         Loses(t, u, c, k, v, d)
  PROVE  BagOf(u) = [ BagOf(t) EXCEPT ![<<c, k, v>>] = @ - 1 ]
<1> DEFINE B == [ BagOf(t) EXCEPT ![<<c, k, v>>] = @ - 1 ]
           I == Classes \X ElKeys \X Offsets
           P == Places(t, c, [val |-> v, key |-> k])
           Q == Places(u, c, [val |-> v, key |-> k])
<1>1. c \in Slot
  BY BucketFacts DEF Classes
<1>2. Cardinality(Q) = Cardinality(P) - 1
  <2>1. Q = P \ {d}
    BY DEF Loses
  <2>2. IsFiniteSet(P) /\ d \in P
    BY <1>1, PlacesFinite
  <2> HIDE DEF P, Q
  <2> QED
    BY <2>1, <2>2, FS_RemoveElement
<1>3. <<c, k, v>> \in I
  OBVIOUS
<1>4. \A x \in I : B[x] = IF x = <<c, k, v>> THEN BagOf(t)[x] - 1 ELSE BagOf(t)[x]
  BY <1>3 DEF BagOf
<1>5. ASSUME NEW g \in Classes, NEW l \in ElKeys, NEW w \in Offsets
      PROVE  BagOf(u)[<<g, l, w>>] = B[<<g, l, w>>]
  <2>1. <<g, l, w>> \in I
    OBVIOUS
  <2>2. /\ BagOf(u)[<<g, l, w>>] = Cardinality(Places(u, g, [val |-> w, key |-> l]))
        /\ BagOf(t)[<<g, l, w>>] = Cardinality(Places(t, g, [val |-> w, key |-> l]))
    BY <2>1, BagValue
  <2>3. CASE <<g, l, w>> = <<c, k, v>>
    <3>1. g = c /\ l = k /\ w = v
      BY <2>3
    <3> HIDE DEF B, I
    <3> QED
      BY <1>2, <1>4, <2>1, <2>2, <2>3, <3>1
  <2>4. CASE <<g, l, w>> # <<c, k, v>>
    <3>1. Places(u, g, [val |-> w, key |-> l]) = Places(t, g, [val |-> w, key |-> l])
      BY <2>4 DEF Loses
    <3> HIDE DEF B, I
    <3> QED
      BY <1>4, <2>1, <2>2, <2>4, <3>1
  <2> QED
    BY <2>3, <2>4
<1>6. DOMAIN BagOf(u) = I /\ DOMAIN B = I
  BY DEF BagOf
<1>7. \A x \in I : BagOf(u)[x] = B[x]
  <2> SUFFICES ASSUME NEW x \in I PROVE BagOf(u)[x] = B[x]
    OBVIOUS
  <2>1. PICK g \in Classes, l \in ElKeys, w \in Offsets : x = <<g, l, w>>
    OBVIOUS
  <2> HIDE DEF B
  <2> QED
    BY <1>5, <2>1
<1>8. BagOf(u) = [ x \in I |-> BagOf(u)[x] ] /\ B = [ x \in I |-> B[x] ]
  BY <1>6 DEF BagOf
<1> HIDE DEF B, I
<1>9. BagOf(u) = B
  BY <1>7, <1>8
<1> QED
  BY <1>9 DEF B

(* An empty table is an empty bag.                                        *)
LEMMA RefInit == Init => RefInv /\ Promise!Init
<1> SUFFICES ASSUME Init PROVE RefInv /\ Promise!Init
  OBVIOUS
<1>1. T = EmptyTable /\ answer = <<"none">>
  BY DEF Init, None
<1>2. Stored(T)
  BY <1>1, EmptyKeeps DEF Stored, EmptyTable
<1>3. \A c \in Slot : \A f : Places(T, c, f) = {}
  BY <1>1 DEF Places, EmptyTable
<1>4. BagOf(T) = [ e \in Classes \X ElKeys \X Offsets |-> 0 ]
  <2>1. \A e \in Classes \X ElKeys \X Offsets :
          Places(T, e[1], [val |-> e[3], key |-> e[2]]) = {}
    BY <1>3, BucketFacts DEF Classes
  <2> QED
    BY <2>1, FS_EmptySet, Zenon DEF BagOf
<1> QED
  BY <1>1, <1>2, <1>4, MapInit, BagFacts DEF RefInv, Promise!Init, Promise!Classes, Classes

(* The bag a step leaves is that of the next table.                        *)
PromiseBag == [ e \in { Home(b) : b \in Buckets } \X ElKeys \X Offsets |->
                  Entries(e[1], e[2], e[3]) ]

LEMMA BagPrimed == PromiseBag = BagOf(T) /\ PromiseBag' = BagOf(T')
BY DEF PromiseBag, BagOf, Classes, Entries, Places

(* hunt_hash_set finds an entry of the bucket with the key, if there is    *)
(* one, and get and del_key use that entry.                                *)
LEMMA HuntFinds ==
  ASSUME Callers, RefInv, NEW b \in Buckets, NEW k \in ElKeys
  PROVE  \/ /\ Hunt(T, b, k) = NoDistance
            /\ \A v \in Offsets : BagOf(T)[<<Home(b), k, v>>] = 0
         \/ \E v \in Offsets :
               /\ Hunt(T, b, k) # NoDistance
               /\ Hunt(T, b, k) \in Places(T, Home(b), [val |-> v, key |-> k])
               /\ BagOf(T)[<<Home(b), k, v>>] > 0
               /\ Lookup(T, b, k) = v
<1> DEFINE h == Home(b)
           hits == { d \in T.H[h] : EntryAt(T, b, d).key = k }
           d == Hunt(T, b, k)
<1>1. TableInv(T) /\ Stored(T) /\ T \in Tables
  BY DEF RefInv, MapInv, TypeOK, TableInv
<1>2. h \in Slot /\ h \in Classes
  BY BucketFacts DEF Classes
<1>3. \A c \in T.H[h] : EntryAt(T, b, c) = T.V[SlotAt(h, c)] /\ c \in Nat
  <2> TAKE c \in T.H[h]
  <2>1. c \in Distance /\ c < N
    BY <1>1, <1>2, BitFacts, TableAssumption
  <2> QED
    BY <2>1, SameSlot, BucketFacts, TableAssumption DEF EntryAt, Distance, Callers
<1>4. CASE hits = {}
  <2>1. d = NoDistance
    BY <1>4 DEF Hunt
  <2>2. ASSUME NEW v \in Offsets PROVE BagOf(T)[<<h, k, v>>] = 0
    <3>1. Places(T, h, [val |-> v, key |-> k]) = {}
      BY <1>3, <1>4 DEF Places
    <3>2. BagOf(T)[<<h, k, v>>] = Cardinality(Places(T, h, [val |-> v, key |-> k]))
      BY <1>2, BagValue
    <3> QED
      BY <3>1, <3>2, FS_EmptySet
  <2> QED
    BY <2>1, <2>2
<1>5. CASE hits # {}
  <2>1. d \in hits
    <3>1. hits \in SUBSET Nat /\ d = Least(hits)
      BY <1>3, <1>5 DEF Hunt
    <3> HIDE DEF hits, d
    <3> QED
      BY <1>5, <3>1, LeastFacts
  <2> DEFINE x == T.V[SlotAt(h, d)]
             v == x.val
  <2>2. d \in T.H[h] /\ EntryAt(T, b, d) = x /\ x.key = k /\ d # NoDistance
    BY <1>3, <2>1 DEF NoDistance
  <2>3. x \in Entry /\ v \in Offsets
    BY <1>1, <1>2, <2>2, BitFacts DEF TableInv, Tables, Agree, Stored
  <2>4. x = [val |-> v, key |-> k]
    BY <2>2, <2>3 DEF Entry
  <2>5. d \in Places(T, h, [val |-> v, key |-> k])
    BY <2>2, <2>4 DEF Places
  <2>6. BagOf(T)[<<h, k, v>>] > 0
    <3>1. BagOf(T)[<<h, k, v>>] = Cardinality(Places(T, h, [val |-> v, key |-> k]))
      BY <1>2, <2>3, BagValue
    <3>2. Cardinality(Places(T, h, [val |-> v, key |-> k])) > 0
      BY <1>1, <1>2, <2>5, PlacesFinite
    <3> QED
      BY <3>1, <3>2
  <2>7. Lookup(T, b, k) = v
    BY <2>2 DEF Lookup
  <2> QED
    BY <2>2, <2>3, <2>5, <2>6, <2>7
<1> QED
  BY <1>4, <1>5

(* store is refused, or starts to make room.                               *)
LEMMA StoreImplements ==
  ASSUME RefInv, NEW b \in Buckets, NEW k \in ElKeys, NEW v \in Offsets, Store(b, k, v)
  PROVE  Stored(T') /\ (Promise!Refuse(b, k, v) \/ Promise!Wait)
<1>1. T' = T /\ Stored(T') /\ PromiseBag' = PromiseBag
  BY BagPrimed DEF Store, RefInv
<1> QED
  BY <1>1 DEF Store, Promise!Refuse, Promise!Wait, PromiseBag, None

(* A lookup answers with an entry of the bag, or with 0 for none.          *)
LEMMA GetImplements ==
  ASSUME Callers, RefInv, NEW b \in Buckets, NEW k \in ElKeys, Get(b, k)
  PROVE  Stored(T') /\ Promise!Get(b, k)
<1>1. /\ T' = T /\ Stored(T') /\ PromiseBag' = PromiseBag /\ PromiseBag = BagOf(T)
      /\ answer' = <<"got", b, k, Lookup(T, b, k)>>
  BY BagPrimed DEF Get, RefInv
<1>2. Promise!Filed(b, k) = { v \in Offsets : BagOf(T)[<<Home(b), k, v>>] > 0 }
  BY <1>1 DEF Promise!Filed, PromiseBag
<1>3. CASE /\ Hunt(T, b, k) = NoDistance
           /\ \A v \in Offsets : BagOf(T)[<<Home(b), k, v>>] = 0
  <2>1. Promise!Filed(b, k) = {} /\ Lookup(T, b, k) = 0
    BY <1>2, <1>3 DEF Lookup
  <2> QED
    BY <1>1, <2>1 DEF Promise!Get, PromiseBag
<1>4. CASE \E v \in Offsets : /\ BagOf(T)[<<Home(b), k, v>>] > 0
                              /\ Lookup(T, b, k) = v
  <2>1. Lookup(T, b, k) \in Promise!Filed(b, k)
    BY <1>2, <1>4
  <2> QED
    BY <1>1, <2>1 DEF Promise!Get, PromiseBag
<1> QED
  BY <1>3, <1>4, HuntFinds

(* A deletion takes one entry of the bag, or there is none to take.        *)
LEMMA DelImplements ==
  ASSUME Callers, RefInv, MapInv', NEW b \in Buckets, NEW k \in ElKeys, Del(b, k)
  PROVE  Stored(T') /\ Promise!Del(b, k)
<1> DEFINE h == Home(b)
           d == Hunt(T, b, k)
<1>1. /\ TableInv(T) /\ T \in Tables /\ T' \in Tables /\ Stored(T) /\ h \in Slot /\ h \in Classes
      /\ T' = Delete(T, b, k) /\ answer' = <<"deleted", b, k>>
      /\ PromiseBag' = BagOf(T') /\ PromiseBag = BagOf(T)
  BY BucketFacts, BagPrimed DEF RefInv, MapInv, TypeOK, TableInv, Classes, Del
<1>2. Promise!Filed(b, k) = { v \in Offsets : BagOf(T)[<<h, k, v>>] > 0 }
  BY <1>1 DEF Promise!Filed, PromiseBag
<1>3. CASE /\ Hunt(T, b, k) = NoDistance
           /\ \A v \in Offsets : BagOf(T)[<<Home(b), k, v>>] = 0
  <2>1. Promise!Filed(b, k) = {} /\ T' = T
    BY <1>1, <1>2, <1>3 DEF Delete
  <2> QED
    BY <1>1, <2>1 DEF Promise!Del, PromiseBag
<1>4. ASSUME NEW v \in Offsets, d # NoDistance,
             d \in Places(T, h, [val |-> v, key |-> k]), BagOf(T)[<<h, k, v>>] > 0
      PROVE  Stored(T') /\ Promise!Del(b, k)
  <2> DEFINE f == [val |-> v, key |-> k]
             x == SlotAt(h, d)
  <2>1. d \in T.H[h] /\ T.V[x] = f
    BY <1>4 DEF Places
  <2>2. T.V[x].key # 0 /\ T' = RemoveAt(T, h, d)
    BY <1>1, <1>4, <2>1 DEF Callers, Delete
  <2>3. \A g \in Slot : \A e : Places(T', g, e) = IF g = h THEN Places(T, g, e) \ {d}
                                                       ELSE Places(T, g, e)
    BY <1>1, <2>1, <2>2, RemovePlaces
  <2>4. ASSUME NEW g \in Classes, NEW l \in ElKeys, NEW w \in Offsets
        PROVE  Places(T', g, [val |-> w, key |-> l])
                 = IF <<g, l, w>> = <<h, k, v>> THEN Places(T, g, [val |-> w, key |-> l]) \ {d}
                                             ELSE Places(T, g, [val |-> w, key |-> l])
    <3>1. g \in Slot
      BY BucketFacts DEF Classes
    <3>2. CASE g = h /\ ~ (l = k /\ w = v)
      <4>1. [val |-> w, key |-> l] # T.V[x]
        BY <2>1, <3>2
      <4>2. d \notin Places(T, g, [val |-> w, key |-> l])
        BY <3>2, <4>1 DEF Places
      <4>3. Places(T', g, [val |-> w, key |-> l]) = Places(T, g, [val |-> w, key |-> l])
        BY <2>3, <3>1, <4>2
      <4> QED
        BY <3>2, <4>3
    <3>3. CASE g # h \/ (g = h /\ l = k /\ w = v)
      BY <2>3, <3>1, <3>3
    <3> QED
      BY <3>2, <3>3
  <2>5. BagOf(T') = [ BagOf(T) EXCEPT ![<<h, k, v>>] = @ - 1 ]
    <3>1. /\ T \in Tables /\ T' \in Tables /\ h \in Classes
          /\ d \in Places(T, h, [val |-> v, key |-> k])
      BY <1>1, <1>4
    <3>2. Loses(T, T', h, k, v, d)
      BY <2>4, Zenon DEF Loses
    <3> HIDE DEF h, d
    <3> QED
      BY <3>1, <3>2, BagMinus
  <2>6. Stored(T')
    <3>1. /\ T.H \in [Slot -> SUBSET Distance] /\ T.V \in [Slot -> Entry] /\ x \in Slot
      BY <1>1, <2>1, BitFacts DEF Tables
    <3>2. /\ \A g \in Slot : T'.H[g] \subseteq T.H[g]
          /\ \A s \in Slot : T'.V[s] = T.V[s] \/ T'.V[s] = FreeSlot
      BY <2>2, <3>1 DEF RemoveAt
    <3> QED
      BY <1>1, <3>2 DEF Stored, Occupied
  <2>7. v \in Promise!Filed(b, k)
    BY <1>2, <1>4
  <2> QED
    BY <1>1, <2>5, <2>6, <2>7 DEF Promise!Del, PromiseBag
<1> QED
  BY <1>3, <1>4, HuntFinds

(* A hop leaves the bag alone; a store that can not hop is refused.        *)
LEMMA HopImplements ==
  ASSUME RefInv, MapInv', Hop
  PROVE  /\ Stored(T')
         /\ \/ Promise!Refuse(put.bucket, put.key, put.val)
               /\ put.bucket \in Buckets /\ put.key \in ElKeys /\ put.val \in Offsets
            \/ UNCHANGED Promise!vars
<1>1. /\ TableInv(T) /\ T' \in Tables /\ Stored(T) /\ put \in Puts /\ put.d >= K
      /\ PromiseBag' = BagOf(T') /\ PromiseBag = BagOf(T)
  BY BagPrimed DEF RefInv, MapInv, TypeOK, TableInv, Hop, Puts, Idle
<1> DEFINE h == Home(put.bucket)
           free == SlotAt(h, put.d)
           z == HopScotch(T, free)
           b == MOD(N + free - z)
           i == Least(T.H[b])
           e == MOD(N + b + i - h)
<1>2. /\ put.d \in 0 .. N - 1 /\ put.bucket \in Buckets /\ h \in Slot
      /\ free \notin Occupied(T)
  BY <1>1, BucketFacts DEF RefInv, MapInv, FreeSlotInHand, Puts
<1>3. CASE z = 0 /\ PutIsOver("refused") /\ T' = T
  BY <1>1, <1>3 DEF PutIsOver, Promise!Refuse, PromiseBag, Puts
<1>4. CASE z # 0 /\ T' = Swap(T, b, i, z) /\ answer' = answer
  <2>1. /\ b \in Slot /\ i \in T.H[b] /\ z \in 1 .. K - 1
        /\ z \in 0 .. N - 1 /\ SlotAt(b, z) = free
    <3> HIDE DEF h, free, z, b, i, e
    <3> QED
      BY <1>1, <1>2, <1>4, HopFinds DEF free, z, b, i, e, Below, Nearer
  <2>2. z < K
    BY <2>1, TableAssumption
  <2> HIDE DEF z, b, i, e
  <2>3. \A c \in Slot : \A f :
          /\ Places(T', c, f) = IF c = b /\ i \in Places(T, c, f)
                                  THEN (Places(T, c, f) \ {i}) \cup {z} ELSE Places(T, c, f)
          /\ z \notin Places(T, b, f)
    BY <1>1, <1>2, <1>4, <2>1, <2>2, SwapPlaces
  <2>4. ASSUME NEW c \in Slot, NEW f
        PROVE  Cardinality(Places(T', c, f)) = Cardinality(Places(T, c, f))
    <3> DEFINE P == Places(T, c, f)
    <3>1. CASE c = b /\ i \in P
      <4>1. IsFiniteSet(P) /\ Cardinality(P) \in Nat /\ z \notin P /\ i \in P
            /\ Places(T', c, f) = (P \ {i}) \cup {z}
        BY <1>1, <2>3, <3>1, PlacesFinite DEF TableInv
      <4> HIDE DEF P
      <4>2. IsFiniteSet(P \ {i}) /\ Cardinality(P \ {i}) = Cardinality(P) - 1
        BY <4>1, FS_RemoveElement
      <4>3. Cardinality((P \ {i}) \cup {z}) = Cardinality(P \ {i}) + 1
        BY <4>1, <4>2, FS_AddElement
      <4> QED
        BY <4>1, <4>2, <4>3 DEF P
    <3>2. CASE ~ (c = b /\ i \in P)
      BY <2>3, <3>2
    <3> QED
      BY <3>1, <3>2
  <2>5. BagOf(T') = BagOf(T)
    <3>1. \A c \in Classes, k \in ElKeys, v \in Offsets :
            Cardinality(Places(T', c, [val |-> v, key |-> k]))
              = Cardinality(Places(T, c, [val |-> v, key |-> k]))
      BY <2>4, BucketFacts DEF Classes
    <3>2. \A x \in Classes \X ElKeys \X Offsets :
            Cardinality(Places(T', x[1], [val |-> x[3], key |-> x[2]]))
              = Cardinality(Places(T, x[1], [val |-> x[3], key |-> x[2]]))
      BY <3>1
    <3> QED
      BY <3>2, Zenon DEF BagOf
  <2>6. Stored(T')
    <3>1. /\ T.H \in [Slot -> SUBSET Distance] /\ T.V \in [Slot -> Entry]
          /\ SlotAt(b, i) \in Slot /\ SlotAt(b, i) \in Occupied(T) /\ free \in Slot
      <4>1. SlotAt(b, i) \in Slot /\ SlotAt(b, i) \in Occupied(T)
        BY <1>1, <2>1, BitFacts DEF TableInv, Agree
      <4>2. free \in Slot
        BY <1>2, SlotAtFacts
      <4> QED
        BY <1>1, <4>1, <4>2 DEF TableInv, Tables
    <3>2. /\ \A g \in Slot : T'.H[g] # {} => T.H[g] # {}
          /\ \A s \in Slot : \/ T'.V[s] = T.V[s] \/ T'.V[s] = FreeSlot
                            \/ T'.V[s] = T.V[SlotAt(b, i)]
      BY <1>4, <2>1, <3>1 DEF Swap
    <3> QED
      BY <1>1, <3>1, <3>2 DEF Stored, Occupied
  <2> QED
    BY <1>1, <1>4, <2>5, <2>6 DEF Promise!vars, PromiseBag
<1> QED
  BY <1>3, <1>4 DEF Hop

(* The new entry goes into the bag of its bucket.                          *)
LEMMA PutImplements ==
  ASSUME RefInv, MapInv', Put
  PROVE  /\ Stored(T') /\ Promise!Store(put.bucket, put.key, put.val)
         /\ put.bucket \in Buckets /\ put.key \in ElKeys /\ put.val \in Offsets
<1> DEFINE h == Home(put.bucket)
           k == put.key
           v == put.val
           f == [val |-> v, key |-> k]
           d == put.d
           x == SlotAt(h, d)
<1>1. /\ TableInv(T) /\ T \in Tables /\ T' \in Tables /\ Stored(T) /\ put \in Puts /\ d < K
      /\ PromiseBag' = BagOf(T') /\ PromiseBag = BagOf(T)
      /\ T' = Place(T, h, d, f) /\ answer' = <<"stored", put.bucket, k, v>>
  BY BagPrimed DEF RefInv, MapInv, TypeOK, TableInv, Put, PutIsOver, Puts, Idle
<1>2. /\ d \in 0 .. N - 1 /\ put.bucket \in Buckets /\ k \in ElKeys /\ v \in Offsets
      /\ h \in Slot /\ h \in Classes /\ x \notin Occupied(T)
  BY <1>1, BucketFacts DEF RefInv, MapInv, FreeSlotInHand, Puts, Classes
<1>3. ASSUME NEW c \in Slot, NEW g, g # FreeSlot
      PROVE  /\ Places(T', c, g) = IF c = h /\ g = f THEN Places(T, c, g) \cup {d}
                                                    ELSE Places(T, c, g)
             /\ d \notin Places(T, h, g)
  <2> HIDE DEF h, k, v, f, d
  <2> QED
    BY <1>1, <1>2, <1>3, PlacePlaces DEF x
<1>4. ASSUME NEW c \in Classes, NEW l \in ElKeys, NEW w \in Offsets
      PROVE  /\ Places(T', c, [val |-> w, key |-> l])
                 = IF <<c, l, w>> = <<h, k, v>> THEN Places(T, c, [val |-> w, key |-> l]) \cup {d}
                                             ELSE Places(T, c, [val |-> w, key |-> l])
             /\ d \notin Places(T, h, [val |-> w, key |-> l])
  <2> DEFINE g == [val |-> w, key |-> l]
  <2>1. c \in Slot /\ g # FreeSlot /\ (g = f <=> l = k /\ w = v)
    BY BucketFacts, MapAssumption DEF Classes, FreeSlot
  <2> HIDE DEF g, f, h, k, v, d
  <2>2. Places(T', c, g) = (IF c = h /\ g = f THEN Places(T, c, g) \cup {d} ELSE Places(T, c, g))
        /\ d \notin Places(T, h, g)
    BY <1>3, <2>1
  <2>3. <<c, l, w>> = <<h, k, v>> <=> c = h /\ g = f
    BY <2>1
  <2> QED
    BY <2>2, <2>3 DEF g
<1>5. BagOf(T') = [ BagOf(T) EXCEPT ![<<h, k, v>>] = @ + 1 ]
  <2>1. /\ T \in Tables /\ T' \in Tables /\ h \in Classes /\ k \in ElKeys /\ v \in Offsets
        /\ d \notin Places(T, h, [val |-> v, key |-> k])
    BY <1>1, <1>2, <1>4
  <2>2. Gains(T, T', h, k, v, d)
    BY <1>4, Zenon DEF Gains
  <2> HIDE DEF h, k, v, f, d
  <2> QED
    BY <2>1, <2>2, BagPlus
<1>6. Stored(T')
  <2>1. /\ T.H \in [Slot -> SUBSET Distance] /\ T.V \in [Slot -> Entry] /\ x \in Slot
    BY <1>1, <1>2, SlotAtFacts DEF TableInv, Tables
  <2>2. /\ \A g \in Slot : T'.H[g] # {} => T.H[g] # {} \/ g = h
        /\ \A s \in Slot : T'.V[s] = T.V[s] \/ T'.V[s] = f
    BY <1>1, <1>2, <2>1 DEF Place
  <2> QED
    BY <1>1, <1>2, <2>2 DEF Stored, Occupied
<1> QED
  BY <1>1, <1>2, <1>5, <1>6 DEF Promise!Store, PromiseBag

(* clear empties the bag.                                                  *)
LEMMA ClearImplements ==
  ASSUME Clear
  PROVE  Stored(T') /\ Promise!Clear
<1>1. T' = EmptyTable /\ PromiseBag' = BagOf(T')
  BY BagPrimed DEF Clear
<1>2. Stored(T')
  BY <1>1, EmptyKeeps DEF Stored, EmptyTable
<1>3. \A c \in Slot : \A f : Places(T', c, f) = {}
  BY <1>1 DEF Places, EmptyTable
<1>4. BagOf(T') = [ e \in Classes \X ElKeys \X Offsets |-> 0 ]
  <2>1. \A e \in Classes \X ElKeys \X Offsets :
          Places(T', e[1], [val |-> e[3], key |-> e[2]]) = {}
    BY <1>3, BucketFacts DEF Classes
  <2> QED
    BY <2>1, FS_EmptySet, Zenon DEF BagOf
<1>5. DOMAIN PromiseBag = Classes \X ElKeys \X Offsets
  BY DEF PromiseBag, Classes
<1> QED
  BY <1>1, <1>2, <1>4, <1>5 DEF Clear, Promise!Clear, PromiseBag

(* Every call and every hop is a step of the promise or a stutter.         *)
LEMMA RefStep ==
  ASSUME Callers
  PROVE  RefInv /\ [Next]_vars => RefInv' /\ [Promise!Next]_(Promise!vars)
<1> SUFFICES ASSUME RefInv, [Next]_vars PROVE RefInv' /\ [Promise!Next]_(Promise!vars)
  OBVIOUS
<1>1. MapInv'
  BY MapStep DEF RefInv
<1>2. CASE UNCHANGED vars
  <2>1. Stored(T') /\ PromiseBag' = PromiseBag
    BY <1>2, BagPrimed DEF vars, RefInv
  <2> QED
    BY <1>1, <1>2, <2>1 DEF vars, RefInv, Promise!vars, PromiseBag
<1>3. ASSUME NEW b \in Buckets, NEW k \in ElKeys, Get(b, k)
      PROVE  Stored(T') /\ Promise!Next
  BY <1>3, GetImplements DEF Promise!Next
<1>4. ASSUME NEW b \in Buckets, NEW k \in ElKeys, Del(b, k)
      PROVE  Stored(T') /\ Promise!Next
  BY <1>1, <1>4, DelImplements DEF Promise!Next
<1>5. ASSUME NEW b \in Buckets, NEW k \in ElKeys, NEW v \in Offsets, Store(b, k, v)
      PROVE  Stored(T') /\ Promise!Next
  BY <1>5, StoreImplements DEF Promise!Next
<1>6. ASSUME Hop PROVE Stored(T') /\ [Promise!Next]_(Promise!vars)
  BY <1>1, <1>6, HopImplements DEF Promise!Next
<1>7. ASSUME Put PROVE Stored(T') /\ Promise!Next
  BY <1>1, <1>7, PutImplements DEF Promise!Next
<1>8. ASSUME Clear PROVE Stored(T') /\ Promise!Next
  BY <1>8, ClearImplements DEF Promise!Next
<1> QED
  BY <1>1, <1>2, <1>3, <1>4, <1>5, <1>6, <1>7, <1>8 DEF Next, RefInv

(* In a table of any size and width, under callers that use no key 0 and   *)
(* no bucket near the largest word, the table is the bag of its entries:   *)
(* no hop loses, doubles or refiles one, a refused store changes nothing,  *)
(* and what was stored is found and deleted from wherever it lies.         *)
THEOREM TableIsABag == ASSUME Callers PROVE Spec => MapSpec
<1>1. Init => RefInv /\ Promise!Init
  BY RefInit
<1>2. RefInv /\ [Next]_vars => RefInv' /\ [Promise!Next]_(Promise!vars)
  BY RefStep
<1> QED
  BY <1>1, <1>2, PTL DEF Spec, MapSpec, Promise!Spec
=============================================================================

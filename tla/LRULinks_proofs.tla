--------------------------- MODULE LRULinks_proofs ---------------------------
(***************************************************************************)
(* What the link operators of LRULinks do to a sound region, whatever its  *)
(* size: unlinking and pushing act on the allocated list, taking and       *)
(* putting on the free list, and neither disturbs the other.               *)
(***************************************************************************)
EXTENDS LRULinks, FiniteSetTheorems, SequenceTheorems, WellFoundedInduction, TLAPS

(* The control slots are distinct, and are neither elements nor NIL.       *)
LEMMA SlotFacts ==
  /\ NIL \notin Slots
  /\ CtrlHdr \in Slots /\ CtrlTail \in Slots /\ CtrlFree \in Slots
  /\ CtrlHdr \notin Elements /\ CtrlTail \notin Elements /\ CtrlFree \notin Elements
  /\ CtrlHdr # CtrlTail /\ CtrlHdr # CtrlFree /\ CtrlTail # CtrlFree
  /\ Elements \subseteq Slots
BY RegionAssumption DEF NIL, Slots, Elements, CtrlHdr, CtrlTail, CtrlFree

(* Unlinking s leaves the list without s, and the free list alone.         *)
LEMMA UnlinkList ==
  ASSUME NEW L \in Links, NEW A \in SUBSET Elements, NEW s \in A, ListOver(L, A)
  PROVE  /\ Unlink(L, s) \in Links
         /\ ListOver(Unlink(L, s), A \ {s})
         /\ \A t \in Slots \ (A \cup {CtrlHdr}) : Unlink(L, s).next[t] = L.next[t]
         /\ \A t \in Slots \ (A \cup {CtrlTail}) : Unlink(L, s).prev[t] = L.prev[t]
BY SlotFacts DEF Unlink, ListOver, Links

(* Pushing s puts it first.                                                *)
LEMMA PushList ==
  ASSUME NEW L \in Links, NEW A \in SUBSET Elements, NEW s \in Elements \ A,
         ListOver(L, A)
  PROVE  /\ PushFront(L, s) \in Links
         /\ ListOver(PushFront(L, s), A \cup {s})
         /\ \A t \in Slots \ (A \cup {CtrlHdr, s}) : PushFront(L, s).next[t] = L.next[t]
         /\ \A t \in Slots \ (A \cup {CtrlTail, s}) : PushFront(L, s).prev[t] = L.prev[t]
BY SlotFacts DEF PushFront, ListOver, Links


(* setup_region: an empty list, and every element free.                    *)
LEMMA SetupKeeps == LinksOK(SetupLinks) /\ Allocated(SetupLinks) = {}
<1> DEFINE L == SetupLinks
<1>1. /\ L.next[CtrlHdr] = CtrlTail /\ L.next[CtrlTail] = NIL
      /\ \A s \in Elements \cup {CtrlFree} :
           L.next[s] = IF s + 1 \in Elements THEN s + 1 ELSE NIL
  BY SlotFacts DEF SetupLinks
<1>2. /\ L.prev[CtrlTail] = CtrlHdr
      /\ \A s \in Slots \ {CtrlTail} : L.prev[s] = NIL
  BY SlotFacts DEF SetupLinks
<1>3. L \in Links
  BY SlotFacts DEF SetupLinks, Links
<1>4. Allocated(L) = {} /\ FreeOf(L) = Elements
  BY <1>2, SlotFacts DEF Allocated, FreeOf
<1>5. ListOver(L, {})
  BY <1>1, <1>2, SlotFacts DEF ListOver
<1>6. Elements \cup {CtrlFree} \subseteq Int
  BY RegionAssumption DEF Elements, CtrlFree
<1>7. FreeOver(L, Elements)
  BY <1>1, <1>6, SlotFacts DEF FreeOver, NIL
<1> QED
  BY <1>3, <1>4, <1>5, <1>7 DEF LinksOK

-----------------------------------------------------------------------------
(* add_el: the first free element becomes the first of the list.           *)
LEMMA AddKeeps ==
  ASSUME NEW L, LinksOK(L), L.next[CtrlFree] # NIL
  PROVE  /\ L.next[CtrlFree] \in FreeOf(L)
         /\ LinksOK(AddLinks(L))
         /\ Allocated(AddLinks(L)) = Allocated(L) \cup {L.next[CtrlFree]}
         /\ AddLinks(L).next[L.next[CtrlFree]] = L.next[CtrlHdr]
         /\ \A t \in Allocated(L) : AddLinks(L).next[t] = L.next[t]
<1> DEFINE s == L.next[CtrlFree]
           A == Allocated(L)
           F == FreeOf(L)
           T == TakeFree(L)
           N == AddLinks(L)
<1>1. L \in Links /\ ListOver(L, A) /\ FreeOver(L, F)
  BY DEF LinksOK
<1>2. A \subseteq Elements /\ F = Elements \ A /\ s \in F
  BY <1>1 DEF FreeOver, Allocated, FreeOf
<1>3. T \in Links /\ ListOver(T, A) /\ T.prev = L.prev
      /\ \A t \in Slots \ {CtrlFree} : T.next[t] = L.next[t]
  BY <1>1, <1>2, SlotFacts DEF TakeFree, Links, ListOver
<1>4. FreeOver(T, F \ {s})
  BY <1>1, <1>2, SlotFacts DEF TakeFree, FreeOver, Links
<1>5. N = PushFront(T, s)
  BY DEF AddLinks
<1>6. /\ N \in Links
      /\ ListOver(N, A \cup {s})
      /\ \A t \in Slots \ (A \cup {CtrlHdr, s}) : N.next[t] = T.next[t]
      /\ \A t \in Slots \ (A \cup {CtrlTail, s}) : N.prev[t] = T.prev[t]
  <2> HIDE DEF s, A, F, T, N
  <2>1. A \in SUBSET Elements /\ s \in Elements \ A
    BY <1>2
  <2> QED
    BY <1>3, <1>5, <2>1, PushList
<1>7. Allocated(N) = A \cup {s}
  <2>1. \A t \in A \cup {s} : N.prev[t] # NIL
    BY <1>2, <1>6, SlotFacts DEF ListOver
  <2>2. \A t \in F \ {s} : N.prev[t] = NIL
    BY <1>2, <1>3, <1>6, SlotFacts DEF FreeOf
  <2> QED
    BY <1>2, <2>1, <2>2 DEF Allocated
<1>8. FreeOf(N) = F \ {s}
  BY <1>2, <1>7 DEF Allocated, FreeOf
<1>9. FreeOver(N, F \ {s})
  <2>1. \A t \in (F \ {s}) \cup {CtrlFree} : N.next[t] = T.next[t]
    BY <1>2, <1>6, SlotFacts
  <2> QED
    BY <1>4, <2>1 DEF FreeOver
<1>10. N.next[s] = L.next[CtrlHdr] /\ \A t \in A : N.next[t] = L.next[t]
  BY <1>1, <1>2, <1>3, <1>5, SlotFacts DEF PushFront, Links
<1> QED
  BY <1>2, <1>6, <1>7, <1>8, <1>9, <1>10 DEF LinksOK

(* touch: the same elements are allocated and s is the first of them.      *)
LEMMA TouchKeeps ==
  ASSUME NEW L, LinksOK(L), NEW s \in Allocated(L)
  PROVE  /\ LinksOK(TouchLinks(L, s))
         /\ Allocated(TouchLinks(L, s)) = Allocated(L)
         /\ TouchLinks(L, s).next[s] = Unlink(L, s).next[CtrlHdr]
         /\ \A t \in Allocated(L) \ {s} :
              TouchLinks(L, s).next[t] = Unlink(L, s).next[t]
<1> DEFINE A == Allocated(L)
           F == FreeOf(L)
           U == Unlink(L, s)
           N == TouchLinks(L, s)
<1>1. L \in Links /\ ListOver(L, A) /\ FreeOver(L, F)
  BY DEF LinksOK
<1>2. A \subseteq Elements /\ F = Elements \ A
  BY DEF Allocated, FreeOf
<1>3. /\ U \in Links
      /\ ListOver(U, A \ {s})
      /\ \A t \in Slots \ (A \cup {CtrlHdr}) : U.next[t] = L.next[t]
      /\ \A t \in Slots \ (A \cup {CtrlTail}) : U.prev[t] = L.prev[t]
  BY <1>1, <1>2, UnlinkList
<1>4. N = PushFront(U, s)
  BY DEF TouchLinks
<1>5. (A \ {s}) \cup {s} = A /\ s \in Elements \ (A \ {s}) /\ A \ {s} \subseteq Elements
  BY <1>2
<1>6. /\ N \in Links
      /\ ListOver(N, A)
      /\ \A t \in Slots \ (A \cup {CtrlHdr}) : N.next[t] = U.next[t]
      /\ \A t \in Slots \ (A \cup {CtrlTail}) : N.prev[t] = U.prev[t]
  <2> DEFINE B == A \ {s}
  <2>1. B \in SUBSET Elements /\ s \in Elements \ B /\ ListOver(U, B) /\ B \cup {s} = A
    BY <1>3, <1>5
  <2> HIDE DEF A, F, U, N, B
  <2>2. /\ N \in Links
        /\ ListOver(N, B \cup {s})
        /\ \A t \in Slots \ (B \cup {CtrlHdr, s}) : N.next[t] = U.next[t]
        /\ \A t \in Slots \ (B \cup {CtrlTail, s}) : N.prev[t] = U.prev[t]
    BY <1>3, <1>4, <2>1, PushList
  <2> QED
    BY <2>1, <2>2
<1>7. Allocated(N) = A /\ FreeOf(N) = F
  <2>1. \A t \in A : N.prev[t] # NIL
    BY <1>2, <1>6, SlotFacts DEF ListOver
  <2>2. \A t \in F : N.prev[t] = NIL
    BY <1>2, <1>3, <1>6, SlotFacts DEF FreeOf
  <2> QED
    BY <1>2, <2>1, <2>2 DEF Allocated, FreeOf
<1>8. FreeOver(N, F)
  <2>1. \A t \in F \cup {CtrlFree} : N.next[t] = L.next[t]
    BY <1>2, <1>3, <1>6, SlotFacts
  <2> QED
    BY <1>1, <2>1 DEF FreeOver
<1>9. N.next[s] = U.next[CtrlHdr] /\ \A t \in A \ {s} : N.next[t] = U.next[t]
  BY <1>2, <1>3, <1>4, SlotFacts DEF PushFront, Links
<1> QED
  BY <1>6, <1>7, <1>8, <1>9 DEF LinksOK

(* del_el: s leaves the list and becomes the first free element.           *)
LEMMA DelKeeps ==
  ASSUME NEW L, LinksOK(L), NEW s \in Allocated(L)
  PROVE  /\ LinksOK(DelLinks(L, s))
         /\ Allocated(DelLinks(L, s)) = Allocated(L) \ {s}
         /\ \A t \in Allocated(L) \ {s} :
              DelLinks(L, s).next[t] = Unlink(L, s).next[t]
<1> DEFINE A == Allocated(L)
           F == FreeOf(L)
           U == Unlink(L, s)
           N == DelLinks(L, s)
<1>1. L \in Links /\ ListOver(L, A) /\ FreeOver(L, F)
  BY DEF LinksOK
<1>2. A \subseteq Elements /\ F = Elements \ A
  BY DEF Allocated, FreeOf
<1>3. /\ U \in Links
      /\ ListOver(U, A \ {s})
      /\ \A t \in Slots \ (A \cup {CtrlHdr}) : U.next[t] = L.next[t]
      /\ \A t \in Slots \ (A \cup {CtrlTail}) : U.prev[t] = L.prev[t]
  BY <1>1, <1>2, UnlinkList
<1>4. /\ N.next = [ U.next EXCEPT ![s] = L.next[CtrlFree], ![CtrlFree] = s ]
      /\ N.prev = [ U.prev EXCEPT ![s] = NIL ]
      /\ N \in Links
  BY <1>1, <1>2, <1>3, SlotFacts DEF DelLinks, PutFree, Links
<1>5. /\ N.next[CtrlFree] = s /\ N.next[s] = L.next[CtrlFree] /\ N.prev[s] = NIL
      /\ \A t \in Slots \ {s, CtrlFree} : N.next[t] = U.next[t]
      /\ \A t \in Slots \ {s} : N.prev[t] = U.prev[t]
  BY <1>2, <1>3, <1>4, SlotFacts DEF Links
<1>6. ListOver(N, A \ {s})
  BY <1>2, <1>3, <1>5, SlotFacts DEF ListOver
<1>7. Allocated(N) = A \ {s} /\ FreeOf(N) = F \cup {s}
  <2>1. \A t \in A \ {s} : N.prev[t] # NIL
    BY <1>2, <1>6, SlotFacts DEF ListOver
  <2>2. \A t \in F : N.prev[t] = NIL
    BY <1>2, <1>3, <1>5, SlotFacts DEF FreeOf
  <2> QED
    BY <1>2, <1>5, <2>1, <2>2 DEF Allocated, FreeOf
<1>8. FreeOver(N, F \cup {s})
  <2>1. \A t \in F : N.next[t] = L.next[t]
    BY <1>2, <1>3, <1>5, SlotFacts
  <2>2. \A t \in F \cup {CtrlFree} : L.next[t] # s
    BY <1>1, <1>2, SlotFacts DEF FreeOver
  <2> QED
    BY <1>1, <1>2, <1>5, <2>1, <2>2, SlotFacts DEF FreeOver
<1>9. \A t \in A \ {s} : N.next[t] = U.next[t]
  BY <1>2, <1>5, SlotFacts
<1> QED
  BY <1>4, <1>6, <1>7, <1>8, <1>9 DEF LinksOK

-----------------------------------------------------------------------------
(* Both lists reach all their elements.  That neighbours agree does not    *)
(* exclude a circle beside the list, nor a free element no link leads to:  *)
(* a rank that falls along the links does the first, FreeReached the       *)
(* second.                                                                 *)
Falls(L, r) ==
  \A s \in Elements : L.next[s] \in Elements => r[L.next[s]] < r[s]

FreeReached(L) ==
  \A t \in FreeOf(L) : \E p \in FreeOf(L) \cup {CtrlFree} : L.next[p] = t

Threaded(L) ==
  /\ LinksOK(L)
  /\ FreeReached(L)
  /\ \E m \in Nat : \E r \in [Elements -> 0 .. m] : Falls(L, r)

(* An element no other element points at can be ranked above the others.   *)
LEMMA TopFalls ==
  ASSUME NEW L \in Links, NEW s \in Elements, NEW m \in Nat,
         NEW r \in [Elements -> 0 .. m],
         \A e \in Elements \ {s} :
           L.next[e] # s /\ (L.next[e] \in Elements => r[L.next[e]] < r[e]),
         L.next[s] # s
  PROVE  \E n \in Nat : \E q \in [Elements -> 0 .. n] : Falls(L, q)
<1> DEFINE q == [r EXCEPT ![s] = m + 1]
<1>1. q \in [Elements -> 0 .. m + 1] /\ q[s] = m + 1 /\ m + 1 \in Nat
  OBVIOUS
<1>2. \A e \in Elements \ {s} : q[e] = r[e] /\ r[e] \in 0 .. m
  OBVIOUS
<1>3. ASSUME NEW e \in Elements, L.next[e] \in Elements
      PROVE  q[L.next[e]] < q[e]
  <2>1. CASE e = s
    <3>1. q[L.next[e]] = r[L.next[e]] /\ r[L.next[e]] \in 0 .. m
      BY <1>2, <1>3, <2>1
    <3> HIDE DEF q
    <3> QED
      BY <1>1, <2>1, <3>1
  <2>2. CASE e # s
    BY <1>2, <1>3, <2>2
  <2> QED
    BY <2>1, <2>2
<1>4. Falls(L, q)
  BY <1>3 DEF Falls
<1> HIDE DEF q
<1> QED
  BY <1>1, <1>4

(* What a list without s looks like to the other elements.                 *)
LEMMA UnlinkFalls ==
  ASSUME NEW L, LinksOK(L), NEW s \in Allocated(L), NEW m \in Nat,
         NEW r \in [Elements -> 0 .. m], Falls(L, r),
         NEW e \in Elements \ {s}
  PROVE  /\ Unlink(L, s).next[e] # s
         /\ Unlink(L, s).next[e] \in Elements => r[Unlink(L, s).next[e]] < r[e]
<1> DEFINE A == Allocated(L)
           U == Unlink(L, s)
<1>1. L \in Links /\ ListOver(L, A) /\ FreeOver(L, FreeOf(L))
  BY DEF LinksOK
<1>2. A \subseteq Elements /\ FreeOf(L) = Elements \ A
  BY DEF Allocated, FreeOf
<1>3. CASE L.prev[s] = e
  <2>1. L.next[e] = s /\ U.next[e] = L.next[s] /\ L.next[s] # s
    <3>1. L.next[e] = s /\ U.next[e] = L.next[s]
      BY <1>1, <1>2, <1>3, SlotFacts DEF ListOver, Unlink, Links
    <3>2. L.next[s] # s
      BY <1>1, <1>2, <1>3, SlotFacts DEF ListOver
    <3> QED
      BY <3>1, <3>2
  <2>2. r[s] < r[e] /\ (L.next[s] \in Elements => r[L.next[s]] < r[s])
    BY <1>2, <2>1 DEF Falls
  <2>3. r[s] \in Int /\ r[e] \in Int /\ (L.next[s] \in Elements => r[L.next[s]] \in Int)
    BY <1>2
  <2> QED
    BY <2>1, <2>2, <2>3
<1>4. CASE L.prev[s] # e
  <2>1. U.next[e] = L.next[e]
    BY <1>1, <1>4, SlotFacts DEF Unlink, Links
  <2>2. L.next[e] # s
    BY <1>1, <1>2, <1>4, SlotFacts DEF ListOver, FreeOver
  <2> QED
    BY <2>1, <2>2 DEF Falls
<1> QED
  BY <1>3, <1>4

LEMMA SetupThreads == Threaded(SetupLinks)
<1> DEFINE L == SetupLinks
           r == [s \in Elements |-> RegionSize - s]
<1>1. LinksOK(L) /\ Allocated(L) = {} /\ FreeOf(L) = Elements
  BY SetupKeeps DEF Allocated, FreeOf
<1>2. \A s \in Elements \cup {CtrlFree} :
        L.next[s] = IF s + 1 \in Elements THEN s + 1 ELSE NIL
  BY SlotFacts DEF SetupLinks
<1>3. FreeReached(L)
  <2> SUFFICES ASSUME NEW t \in Elements
               PROVE  \E p \in Elements \cup {CtrlFree} : L.next[p] = t
    BY <1>1 DEF FreeReached
  <2>1. t \in 3 .. RegionSize /\ t * Step < RegionSize
    BY DEF Elements
  <2>2. CASE t = 3
    BY <1>2, <2>2 DEF CtrlFree
  <2>3. CASE t # 3
    <3>1. t - 1 \in 3 .. RegionSize /\ (t - 1) + 1 = t
      BY <2>1, <2>3, RegionAssumption
    <3>2. (t - 1) * Step < RegionSize
      <4>1. (t - 1) * Step = t * Step - Step
        BY <2>1, RegionAssumption
      <4>2. t * Step \in Int
        BY <2>1, RegionAssumption
      <4> QED
        BY <2>1, <4>1, <4>2, RegionAssumption
    <3>3. t - 1 \in Elements
      BY <3>1, <3>2 DEF Elements
    <3> QED
      BY <1>2, <3>1, <3>3
  <2> QED
    BY <2>2, <2>3
<1>4. r \in [Elements -> 0 .. RegionSize] /\ Falls(L, r)
  <2>1. \A s \in Elements : s \in Int /\ 3 <= s /\ s <= RegionSize
    BY RegionAssumption DEF Elements
  <2>2. r \in [Elements -> 0 .. RegionSize]
    BY <2>1, RegionAssumption
  <2>3. \A s \in Elements : L.next[s] \in Elements => L.next[s] = s + 1
    BY <1>2, SlotFacts
  <2> QED
    BY <2>1, <2>2, <2>3, RegionAssumption DEF Falls
<1> HIDE DEF L, r
<1> QED
  BY <1>1, <1>3, <1>4, RegionAssumption DEF Threaded, L

LEMMA AddThreads ==
  ASSUME NEW L, Threaded(L), L.next[CtrlFree] # NIL
  PROVE  Threaded(AddLinks(L))
<1> DEFINE s == L.next[CtrlFree]
           A == Allocated(L)
           F == FreeOf(L)
           N == AddLinks(L)
<1>1. LinksOK(L) /\ L \in Links /\ ListOver(L, A) /\ FreeOver(L, F) /\ FreeReached(L)
  BY DEF Threaded, LinksOK
<1>2. /\ s \in F /\ LinksOK(N) /\ N \in Links
      /\ Allocated(N) = A \cup {s}
      /\ N.next[s] = L.next[CtrlHdr]
  BY <1>1, AddKeeps DEF LinksOK
<1>3. A \subseteq Elements /\ F = Elements \ A /\ FreeOf(N) = F \ {s}
  BY <1>2 DEF Allocated, FreeOf
<1>4. /\ N.next[CtrlFree] = L.next[s]
      /\ \A e \in Elements \ {s} : N.next[e] = L.next[e]
  BY <1>1, <1>2, <1>3, SlotFacts DEF AddLinks, TakeFree, PushFront, Links
<1>5. FreeReached(N)
  <2> SUFFICES ASSUME NEW t \in F \ {s}
               PROVE  \E p \in (F \ {s}) \cup {CtrlFree} : N.next[p] = t
    BY <1>3 DEF FreeReached
  <2>1. PICK p \in F \cup {CtrlFree} : L.next[p] = t
    BY <1>1 DEF FreeReached
  <2>2. CASE p = s
    BY <1>4, <2>1, <2>2
  <2>3. CASE p # s
    <3>1. p \in F \ {s}
      BY <2>1, <2>3
    <3> QED
      BY <1>3, <1>4, <2>1, <3>1
  <2> QED
    BY <2>2, <2>3
<1>6. PICK m \in Nat : \E r \in [Elements -> 0 .. m] : Falls(L, r)
  BY DEF Threaded
<1>7. PICK r \in [Elements -> 0 .. m] : Falls(L, r)
  BY <1>6
<1>8. \A e \in Elements \ {s} :
        N.next[e] # s /\ (N.next[e] \in Elements => r[N.next[e]] < r[e])
  <2>1. \A e \in Elements \ {s} : L.next[e] # s
    BY <1>1, <1>2, <1>3, SlotFacts DEF ListOver, FreeOver
  <2> QED
    BY <1>4, <1>7, <2>1 DEF Falls
<1>9. N.next[s] # s
  BY <1>1, <1>2, <1>3, SlotFacts DEF ListOver
<1>10. s \in Elements
  BY <1>2, <1>3
<1> HIDE DEF s, A, F, N
<1>11. \E n \in Nat : \E q \in [Elements -> 0 .. n] : Falls(N, q)
  BY <1>2, <1>8, <1>9, <1>10, TopFalls
<1> QED
  BY <1>2, <1>5, <1>11 DEF Threaded, N

LEMMA TouchThreads ==
  ASSUME NEW L, Threaded(L), NEW s \in Allocated(L)
  PROVE  Threaded(TouchLinks(L, s))
<1> DEFINE A == Allocated(L)
           F == FreeOf(L)
           U == Unlink(L, s)
           N == TouchLinks(L, s)
<1>1. LinksOK(L) /\ L \in Links /\ ListOver(L, A) /\ FreeOver(L, F) /\ FreeReached(L)
  BY DEF Threaded, LinksOK
<1>2. /\ LinksOK(N) /\ N \in Links
      /\ Allocated(N) = A
      /\ N.next[s] = U.next[CtrlHdr]
  BY <1>1, TouchKeeps DEF LinksOK
<1>3. A \subseteq Elements /\ s \in Elements /\ F = Elements \ A /\ FreeOf(N) = F
  BY <1>2 DEF Allocated, FreeOf
<1>4. /\ U \in Links /\ ListOver(U, A \ {s})
      /\ \A t \in Slots \ (A \cup {CtrlHdr}) : U.next[t] = L.next[t]
  BY <1>1, <1>3, UnlinkList
<1>5. \A e \in Slots \ {s, CtrlHdr} : N.next[e] = U.next[e]
  BY <1>3, <1>4, SlotFacts DEF TouchLinks, PushFront, Links
<1>6. FreeReached(N)
  <2>1. \A e \in F \cup {CtrlFree} : N.next[e] = L.next[e]
    BY <1>3, <1>4, <1>5, SlotFacts
  <2> QED
    BY <1>1, <1>3, <2>1 DEF FreeReached
<1>7. PICK m \in Nat : \E r \in [Elements -> 0 .. m] : Falls(L, r)
  BY DEF Threaded
<1>8. PICK r \in [Elements -> 0 .. m] : Falls(L, r)
  BY <1>7
<1>9. \A e \in Elements \ {s} :
        N.next[e] # s /\ (N.next[e] \in Elements => r[N.next[e]] < r[e])
  <2>1. \A e \in Elements \ {s} : N.next[e] = U.next[e]
    BY <1>5, SlotFacts
  <2> QED
    BY <1>1, <1>8, <2>1, UnlinkFalls
<1>10. N.next[s] # s
  <2>1. U.next[CtrlHdr] \in (A \ {s}) \cup {CtrlTail}
    BY <1>4 DEF ListOver
  <2> QED
    BY <1>2, <1>3, <2>1, SlotFacts
<1> HIDE DEF A, F, U, N
<1>11. \E n \in Nat : \E q \in [Elements -> 0 .. n] : Falls(N, q)
  BY <1>2, <1>3, <1>9, <1>10, TopFalls
<1> QED
  BY <1>2, <1>6, <1>11 DEF Threaded, N

LEMMA DelThreads ==
  ASSUME NEW L, Threaded(L), NEW s \in Allocated(L)
  PROVE  Threaded(DelLinks(L, s))
<1> DEFINE A == Allocated(L)
           F == FreeOf(L)
           U == Unlink(L, s)
           N == DelLinks(L, s)
<1>1. LinksOK(L) /\ L \in Links /\ ListOver(L, A) /\ FreeOver(L, F) /\ FreeReached(L)
  BY DEF Threaded, LinksOK
<1>2. LinksOK(N) /\ N \in Links /\ Allocated(N) = A \ {s}
  BY <1>1, DelKeeps DEF LinksOK
<1>3. A \subseteq Elements /\ s \in Elements /\ F = Elements \ A /\ FreeOf(N) = F \cup {s}
  BY <1>2 DEF Allocated, FreeOf
<1>4. /\ U \in Links /\ ListOver(U, A \ {s})
      /\ \A t \in Slots \ (A \cup {CtrlHdr}) : U.next[t] = L.next[t]
  BY <1>1, <1>3, UnlinkList
<1>5. /\ N.next[CtrlFree] = s /\ N.next[s] = L.next[CtrlFree]
      /\ \A e \in Slots \ {s, CtrlFree} : N.next[e] = U.next[e]
  BY <1>3, <1>4, SlotFacts DEF DelLinks, PutFree, Links
<1>6. FreeReached(N)
  <2> SUFFICES ASSUME NEW t \in F \cup {s}
               PROVE  \E p \in F \cup {s} \cup {CtrlFree} : N.next[p] = t
    BY <1>3 DEF FreeReached
  <2>1. CASE t = s
    BY <1>5, <2>1
  <2>2. CASE t # s
    <3>1. PICK p \in F \cup {CtrlFree} : L.next[p] = t
      BY <1>1, <2>2 DEF FreeReached
    <3>2. CASE p = CtrlFree
      BY <1>5, <3>1, <3>2
    <3>3. CASE p # CtrlFree
      <4>1. p \in F /\ p \in Slots \ (A \cup {CtrlHdr}) /\ p \in Slots \ {s, CtrlFree}
        BY <1>3, <3>1, <3>3, SlotFacts
      <4> QED
        BY <1>4, <1>5, <3>1, <4>1
    <3> QED
      BY <3>2, <3>3
  <2> QED
    BY <2>1, <2>2
<1>7. PICK m \in Nat : \E r \in [Elements -> 0 .. m] : Falls(L, r)
  BY DEF Threaded
<1>8. PICK r \in [Elements -> 0 .. m] : Falls(L, r)
  BY <1>7
<1>9. \A e \in Elements \ {s} :
        N.next[e] # s /\ (N.next[e] \in Elements => r[N.next[e]] < r[e])
  <2>1. \A e \in Elements \ {s} : N.next[e] = U.next[e]
    BY <1>5, SlotFacts
  <2> QED
    BY <1>1, <1>8, <2>1, UnlinkFalls
<1>10. N.next[s] # s
  BY <1>1, <1>3, <1>5, SlotFacts DEF FreeOver
<1> HIDE DEF A, F, U, N
<1>11. \E n \in Nat : \E q \in [Elements -> 0 .. n] : Falls(N, q)
  BY <1>2, <1>3, <1>9, <1>10, TopFalls
<1> QED
  BY <1>2, <1>6, <1>11 DEF Threaded, N

-----------------------------------------------------------------------------
(* The trail of a list.                                                    *)

LEMMA LeastExists ==
  ASSUME NEW S \in SUBSET Nat, S # {}
  PROVE  \E m \in S : \A x \in S : m <= x
<1> DEFINE R == OpToRel(<, Nat)
<1>1. \A x, y \in Nat : x < y => <<x, y>> \in R
  BY DEF OpToRel
<1>2. PICK m \in S : \A y \in S : ~ (<<y, m>> \in R)
  <2>1. IsWellFoundedOn(R, Nat)
    BY NatLessThanWellFounded
  <2> HIDE DEF R
  <2> QED
    BY <2>1, WFMin
<1>3. ASSUME NEW x \in S PROVE m <= x
  <2>1. ~ (<<x, m>> \in R)
    BY <1>2
  <2>2. ~ (x < m)
    BY <1>1, <2>1
  <2> QED
    BY <2>2
<1> QED
  BY <1>3

(* Where a walk along f stands after its next step.                        *)
Onward(f, p) == IF p \in Elements THEN f[p] ELSE p

(* The slots of the first steps, as far as n.                              *)
WalkTo(f, from, n, g) ==
  g = [ i \in 0 .. n |-> IF i = 0 THEN f[from] ELSE Onward(f, g[i - 1]) ]

(* The walk that Trail takes.                                              *)
WalkOf(f, from) ==
  LET at[n \in Nat] == IF n = 0 THEN f[from]
                       ELSE LET p == at[n - 1]
                            IN  IF p \in Elements THEN f[p] ELSE p
  IN  at

LEMMA TrailOfWalk ==
  ASSUME NEW f, NEW from
  PROVE  Trail(f, from) =
           [ n \in 1 .. Cardinality({ i \in 0 .. Cardinality(Elements) :
                                        WalkOf(f, from)[i] \in Elements })
               |-> WalkOf(f, from)[n - 1] ]
BY DEF Trail, WalkOf

LEMMA WalkExists ==
  ASSUME NEW f, NEW from, NEW n \in Nat
  PROVE  \E g : WalkTo(f, from, n, g)
<1> DEFINE Bad == { k \in Nat : ~ \E g : WalkTo(f, from, k, g) }
<1> SUFFICES ASSUME Bad # {} PROVE FALSE
  OBVIOUS
<1>1. PICK k \in Bad : \A j \in Bad : k <= j
  BY LeastExists
<1>2. CASE k = 0
  <2> DEFINE g == [ i \in 0 .. 0 |-> f[from] ]
  <2>1. g = [ i \in 0 .. 0 |-> IF i = 0 THEN f[from] ELSE Onward(f, g[i - 1]) ]
    OBVIOUS
  <2> QED
    BY <1>2, <2>1 DEF WalkTo
<1>3. CASE k # 0
  <2>1. k \in Nat /\ k - 1 \in Nat /\ k - 1 \notin Bad
    BY <1>1, <1>3
  <2>2. PICK g : WalkTo(f, from, k - 1, g)
    BY <2>1
  <2> DEFINE h == [ i \in 0 .. k |-> IF i = k THEN Onward(f, g[k - 1]) ELSE g[i] ]
  <2>3. \A i \in 0 .. k : i - 1 \in 0 .. k => h[i - 1] = g[i - 1]
    BY <2>1
  <2>4. \A i \in 0 .. k :
          h[i] = IF i = 0 THEN f[from] ELSE Onward(f, h[i - 1])
    <3> SUFFICES ASSUME NEW i \in 0 .. k
                 PROVE  h[i] = IF i = 0 THEN f[from] ELSE Onward(f, h[i - 1])
      OBVIOUS
    <3>1. CASE i = k
      BY <1>3, <2>1, <2>3, <3>1
    <3>2. CASE i # k
      <4>1. i \in 0 .. k - 1 /\ h[i] = g[i]
        BY <2>1, <3>2
      <4>2. g[i] = IF i = 0 THEN f[from] ELSE Onward(f, g[i - 1])
        BY <2>2, <4>1 DEF WalkTo
      <4>3. i # 0 => h[i - 1] = g[i - 1]
        BY <2>1, <2>3
      <4> QED
        BY <4>1, <4>2, <4>3
    <3> QED
      BY <3>1, <3>2
  <2>5. h = [ i \in 0 .. k |-> h[i] ]
    OBVIOUS
  <2> HIDE DEF h
  <2>6. WalkTo(f, from, k, h)
    BY <2>4, <2>5 DEF WalkTo
  <2> QED
    BY <1>1, <2>6
<1> QED
  BY <1>2, <1>3

(* Two walks from the same slot agree as far as both go.                   *)
LEMMA WalksAgree ==
  ASSUME NEW f, NEW from, NEW j \in Nat, NEW k \in Nat, NEW g, NEW h,
         WalkTo(f, from, j, g), WalkTo(f, from, k, h),
         NEW n \in Nat, n <= j, n <= k
  PROVE  g[n] = h[n]
<1> DEFINE Bad == { i \in Nat : i <= j /\ i <= k /\ g[i] # h[i] }
<1> SUFFICES ASSUME Bad # {} PROVE FALSE
  OBVIOUS
<1>1. PICK i \in Bad : \A x \in Bad : i <= x
  BY LeastExists
<1>2. i \in Nat /\ i \in 0 .. j /\ i \in 0 .. k /\ g[i] # h[i]
  BY <1>1
<1>3. /\ g[i] = IF i = 0 THEN f[from] ELSE Onward(f, g[i - 1])
      /\ h[i] = IF i = 0 THEN f[from] ELSE Onward(f, h[i - 1])
  BY <1>2 DEF WalkTo
<1>4. i # 0 /\ i - 1 \in Nat /\ i - 1 \notin Bad
  BY <1>1, <1>2, <1>3
<1>5. g[i - 1] = h[i - 1]
  BY <1>2, <1>4
<1> QED
  BY <1>2, <1>3, <1>4, <1>5

LEMMA WalkFacts ==
  ASSUME NEW f, NEW from
  PROVE  /\ WalkOf(f, from)[0] = f[from]
         /\ \A n \in Nat : WalkOf(f, from)[n + 1] = Onward(f, WalkOf(f, from)[n])
<1> DEFINE G(n) == CHOOSE g : WalkTo(f, from, n, g)
           W == [ n \in Nat |-> G(n)[n] ]
           Whole(at) == at = [ n \in Nat |-> IF n = 0 THEN f[from]
                                             ELSE LET p == at[n - 1]
                                                  IN  IF p \in Elements THEN f[p] ELSE p ]
<1>1. \A n \in Nat : WalkTo(f, from, n, G(n))
  BY WalkExists
<1> HIDE DEF G
<1>2. ASSUME NEW n \in Nat
      PROVE  W[n] = IF n = 0 THEN f[from] ELSE Onward(f, W[n - 1])
  <2>1. WalkTo(f, from, n, G(n)) /\ W[n] = G(n)[n]
    BY <1>1
  <2>2. CASE n = 0
    BY <2>1, <2>2 DEF WalkTo
  <2>3. CASE n # 0
    <3>1. n - 1 \in Nat /\ n - 1 <= n
      BY <2>3
    <3>2. WalkTo(f, from, n - 1, G(n - 1)) /\ W[n - 1] = G(n - 1)[n - 1]
      BY <1>1, <3>1
    <3>3. G(n)[n - 1] = G(n - 1)[n - 1]
      BY <2>1, <3>1, <3>2, WalksAgree
    <3>4. G(n)[n] = Onward(f, G(n)[n - 1])
      BY <2>1, <2>3 DEF WalkTo
    <3> QED
      BY <2>1, <2>3, <3>2, <3>3, <3>4
  <2> QED
    BY <2>2, <2>3
<1>3. Whole(W)
  <2>1. W = [ n \in Nat |-> W[n] ]
    OBVIOUS
  <2> HIDE DEF W
  <2> QED
    BY <1>2, <2>1 DEF Onward
<1> HIDE DEF W
<1>4. Whole(WalkOf(f, from))
  BY <1>3 DEF WalkOf
<1>5. \A n \in Nat : WalkOf(f, from)[n] =
        IF n = 0 THEN f[from] ELSE Onward(f, WalkOf(f, from)[n - 1])
  BY <1>4 DEF Onward
<1>6. \A n \in Nat : n + 1 \in Nat /\ n + 1 # 0 /\ (n + 1) - 1 = n
  OBVIOUS
<1> QED
  BY <1>5, <1>6

(* Following f from a control slot leads to the elements of A, to each of  *)
(* them, and then to end.                                                  *)
Leads(f, from, end, A) ==
  /\ \A s \in A \cup {from} : f[s] \in A \cup {end}
  /\ \A a \in A : \E p \in A \cup {from} : f[p] = a

(* q lists the elements of A, each once, in the order of f.                *)
Lists(q, f, from, end, A) ==
  /\ q \in [1 .. Cardinality(A) -> A]
  /\ \A a \in A : \E i \in 1 .. Cardinality(A) : q[i] = a
  /\ \A i, j \in 1 .. Cardinality(A) : q[i] = q[j] => i = j
  /\ Cardinality(A) = 0 => f[from] = end
  /\ Cardinality(A) > 0 => q[1] = f[from] /\ f[q[Cardinality(A)]] = end
  /\ \A i \in 1 .. Cardinality(A) - 1 : q[i + 1] = f[q[i]]

LEMMA ElementsFinite ==
  ASSUME NEW A \in SUBSET Elements
  PROVE  /\ IsFiniteSet(A) /\ Cardinality(A) \in Nat
         /\ Cardinality(A) <= Cardinality(Elements) /\ Cardinality(Elements) \in Nat
<1>1. IsFiniteSet(3 .. RegionSize)
  BY RegionAssumption, FS_Interval
<1>2. Elements \subseteq 3 .. RegionSize
  BY DEF Elements
<1>3. IsFiniteSet(Elements)
  BY <1>1, <1>2, FS_Subset
<1> QED
  BY <1>3, FS_Subset, FS_CardinalityType

(* The walk of a ranked list: k elements of A, and from there on its end.  *)
LEMMA WalkEnds ==
  ASSUME NEW f, NEW from, NEW end, NEW A \in SUBSET Elements, end \notin Elements,
         Leads(f, from, end, A), NEW m \in Nat, NEW r \in [Elements -> 0 .. m],
         \A s \in A : f[s] \in A => r[f[s]] < r[s]
  PROVE  \E k \in Nat :
           /\ \A n \in Nat : n < k => WalkOf(f, from)[n] \in A
           /\ \A n \in Nat : n >= k => WalkOf(f, from)[n] = end
           /\ \A i, j \in Nat : i < j /\ j < k =>
                r[WalkOf(f, from)[j]] < r[WalkOf(f, from)[i]]
<1> DEFINE w == WalkOf(f, from)
<1>1. w[0] = f[from] /\ \A n \in Nat : w[n + 1] = Onward(f, w[n])
  BY WalkFacts
<1> HIDE DEF w
<1>2. \A s \in A \cup {from} : f[s] \in A \cup {end}
  BY DEF Leads
<1>3. ASSUME NEW n \in Nat, n # 0
      PROVE  n - 1 \in Nat /\ w[n] = Onward(f, w[n - 1])
  <2>1. n - 1 \in Nat /\ (n - 1) + 1 = n
    BY <1>3
  <2> QED
    BY <1>1, <2>1
<1>4. ASSUME NEW n \in Nat PROVE w[n] \in A \cup {end}
  <2> DEFINE Bad == { i \in Nat : w[i] \notin A \cup {end} }
  <2> SUFFICES ASSUME Bad # {} PROVE FALSE
    BY <1>4
  <2>1. PICK i \in Bad : \A x \in Bad : i <= x
    BY LeastExists
  <2>2. i # 0
    BY <1>1, <1>2, <2>1
  <2>3. i - 1 \in Nat /\ w[i] = Onward(f, w[i - 1])
    BY <1>3, <2>1, <2>2
  <2>4. w[i - 1] \in A \cup {end}
    BY <2>1, <2>3
  <2> QED
    BY <1>2, <2>1, <2>3, <2>4 DEF Onward
<1>5. ASSUME NEW n \in Nat, n # 0, w[n] \in A
      PROVE  w[n - 1] \in A /\ w[n] = f[w[n - 1]] /\ r[w[n]] < r[w[n - 1]]
  <2>1. n - 1 \in Nat /\ w[n] = Onward(f, w[n - 1]) /\ w[n - 1] \in A \cup {end}
    BY <1>3, <1>4, <1>5
  <2>2. w[n - 1] # end
    BY <1>5, <2>1 DEF Onward
  <2> QED
    BY <1>5, <2>1, <2>2 DEF Onward
<1>6. ASSUME NEW n \in Nat, w[n] \in A PROVE r[w[n]] + n <= m
  <2> DEFINE Bad == { i \in Nat : w[i] \in A /\ ~ (r[w[i]] + i <= m) }
  <2> SUFFICES ASSUME Bad # {} PROVE FALSE
    BY <1>6
  <2>1. PICK i \in Bad : \A x \in Bad : i <= x
    BY LeastExists
  <2>2. i \in Nat /\ w[i] \in A /\ ~ (r[w[i]] + i <= m) /\ r[w[i]] \in 0 .. m
    BY <2>1
  <2>3. i # 0
    BY <2>2
  <2>4. w[i - 1] \in A /\ r[w[i]] < r[w[i - 1]] /\ i - 1 \in Nat
    BY <1>5, <2>2, <2>3
  <2>5. i - 1 \notin Bad /\ r[w[i - 1]] \in 0 .. m
    BY <2>1, <2>4
  <2> QED
    BY <2>2, <2>4, <2>5
<1>7. w[m + 1] = end
  <2>1. m + 1 \in Nat /\ w[m + 1] \in A \cup {end}
    BY <1>4
  <2>2. w[m + 1] \in A => r[w[m + 1]] + (m + 1) <= m /\ r[w[m + 1]] \in 0 .. m
    BY <1>6, <2>1
  <2> QED
    BY <2>1, <2>2
<1>8. PICK k \in { n \in Nat : w[n] = end } :
        \A x \in { n \in Nat : w[n] = end } : k <= x
  <2>1. { n \in Nat : w[n] = end } # {}
    BY <1>7
  <2> QED
    BY <2>1, LeastExists
<1>9. ASSUME NEW n \in Nat, n < k PROVE w[n] \in A
  BY <1>4, <1>8, <1>9
<1>10. ASSUME NEW n \in Nat, n >= k PROVE w[n] = end
  <2> DEFINE Bad == { i \in Nat : i >= k /\ w[i] # end }
  <2> SUFFICES ASSUME Bad # {} PROVE FALSE
    BY <1>10
  <2>1. PICK i \in Bad : \A x \in Bad : i <= x
    BY LeastExists
  <2>2. i # k /\ i \in Nat /\ i # 0 /\ w[i] # end
    BY <1>8, <2>1
  <2>3. i - 1 \in Nat /\ w[i] = Onward(f, w[i - 1])
    BY <1>3, <2>2
  <2>4. w[i - 1] = end
    BY <1>8, <2>1, <2>2, <2>3
  <2> QED
    BY <2>2, <2>3, <2>4 DEF Onward
<1>11. ASSUME NEW i \in Nat, NEW j \in Nat, i < j, j < k
       PROVE  r[w[j]] < r[w[i]]
  <2> DEFINE Bad == { x \in Nat : i < x /\ x < k /\ ~ (r[w[x]] < r[w[i]]) }
  <2> SUFFICES ASSUME Bad # {} PROVE FALSE
    BY <1>11
  <2>1. PICK x \in Bad : \A y \in Bad : x <= y
    BY LeastExists
  <2>2. x \in Nat /\ i < x /\ x < k /\ ~ (r[w[x]] < r[w[i]]) /\ k \in Nat
    BY <1>8, <2>1
  <2>3. x # 0 /\ x - 1 \in Nat /\ x - 1 < k /\ w[x] \in A /\ w[i] \in A
    BY <1>9, <1>8, <2>2
  <2>4. w[x - 1] \in A /\ r[w[x]] < r[w[x - 1]]
    BY <1>5, <2>3, <2>2
  <2>5. r[w[x]] \in Int /\ r[w[x - 1]] \in Int /\ r[w[i]] \in Int
    BY <2>3, <2>4
  <2>6. CASE x - 1 = i
    BY <2>2, <2>4, <2>6
  <2>7. CASE x - 1 # i
    <3>1. i < x - 1 /\ x - 1 \notin Bad
      BY <2>1, <2>2, <2>3, <2>7
    <3>2. r[w[x - 1]] < r[w[i]]
      BY <2>3, <3>1
    <3> QED
      BY <2>2, <2>4, <2>5, <3>2
  <2> QED
    BY <2>6, <2>7
<1> QED
  BY <1>8, <1>9, <1>10, <1>11 DEF w

(* A list with ranks is its trail.                                         *)
LEMMA TrailLists ==
  ASSUME NEW f, NEW from, NEW end, NEW A \in SUBSET Elements, end \notin Elements,
         Leads(f, from, end, A), NEW m \in Nat, NEW r \in [Elements -> 0 .. m],
         \A s \in A : f[s] \in A => r[f[s]] < r[s]
  PROVE  Lists(Trail(f, from), f, from, end, A)
<1> DEFINE w == WalkOf(f, from)
           N == Cardinality(Elements)
           T == Trail(f, from)
<1>1. w[0] = f[from] /\ \A n \in Nat : w[n + 1] = Onward(f, w[n])
  BY WalkFacts
<1>2. PICK k \in Nat :
        /\ \A n \in Nat : n < k => w[n] \in A
        /\ \A n \in Nat : n >= k => w[n] = end
        /\ \A i, j \in Nat : i < j /\ j < k => r[w[j]] < r[w[i]]
  BY WalkEnds
<1>3. T = [ n \in 1 .. Cardinality({ i \in 0 .. N : w[i] \in Elements }) |-> w[n - 1] ]
  BY TrailOfWalk
<1> HIDE DEF w, T
<1>4. \A n \in Nat : n < k => w[n + 1] = f[w[n]]
  BY <1>1, <1>2 DEF Onward
<1>5. ASSUME NEW i \in Nat, NEW j \in Nat, i < k, j < k, w[i] = w[j]
      PROVE  i = j
  <2>1. r[w[i]] \in Int /\ r[w[j]] \in Int
    BY <1>2, <1>5
  <2>2. ~ (i < j) /\ ~ (j < i)
    BY <1>2, <1>5, <2>1
  <2> QED
    BY <2>2
<1>6. ASSUME NEW a \in A PROVE \E i \in Nat : i < k /\ w[i] = a
  <2> DEFINE Missed == { t \in A : \A i \in Nat : i < k => w[i] # t }
             Depths == { n \in Nat : \E t \in Missed : n = m - r[t] }
  <2> SUFFICES ASSUME Missed # {} PROVE FALSE
    BY <1>6
  <2>1. Depths # {}
    <3>1. PICK t \in Missed : TRUE
      OBVIOUS
    <3>2. t \in A /\ r[t] \in 0 .. m
      BY <3>1
    <3>3. m - r[t] \in Nat
      BY <3>2
    <3> QED
      BY <3>1, <3>3
  <2>2. PICK d \in Depths : \A x \in Depths : d <= x
    BY <2>1, LeastExists
  <2>3. PICK t \in Missed : d = m - r[t]
    BY <2>2
  <2>4. PICK p \in A \cup {from} : f[p] = t
    BY <2>3 DEF Leads
  <2>5. p \in A
    <3>1. CASE p = from
      <4>1. w[0] = t /\ t \in A /\ ~ (0 >= k)
        BY <1>1, <1>2, <2>3, <2>4, <3>1
      <4> QED
        BY <2>3, <4>1
    <3> QED
      BY <2>4, <3>1
  <2>6. p \notin Missed
    <3>1. r[t] < r[p] /\ r[t] \in 0 .. m /\ r[p] \in 0 .. m
      BY <2>3, <2>4, <2>5
    <3>2. m - r[p] \in Nat /\ m - r[p] < m - r[t]
      BY <3>1
    <3>3. m - r[p] \notin Depths
      BY <2>2, <2>3, <3>2
    <3> QED
      BY <3>2, <3>3
  <2>7. PICK i \in Nat : i < k /\ w[i] = p
    BY <2>5, <2>6
  <2>8. w[i + 1] = t /\ i + 1 \in Nat
    BY <1>4, <2>4, <2>7
  <2>9. i + 1 < k
    BY <1>2, <2>3, <2>8
  <2> QED
    BY <2>3, <2>8, <2>9
<1>7. IsFiniteSet(A) /\ Cardinality(A) = k /\ k <= N /\ N \in Nat
  <2> DEFINE g == [ i \in 1 .. k |-> w[i - 1] ]
  <2>1. \A i \in 1 .. k : i - 1 \in Nat /\ i - 1 < k
    OBVIOUS
  <2>2. g \in [1 .. k -> A]
    BY <1>2, <2>1
  <2>3. \A i, j \in 1 .. k : g[i] = g[j] => i = j
    <3> SUFFICES ASSUME NEW i \in 1 .. k, NEW j \in 1 .. k, g[i] = g[j]
                 PROVE  i = j
      OBVIOUS
    <3>1. w[i - 1] = w[j - 1]
      OBVIOUS
    <3>2. i - 1 = j - 1
      BY <1>5, <2>1, <3>1
    <3> QED
      BY <3>2
  <2>4. \A a \in A : \E i \in 1 .. k : g[i] = a
    <3> SUFFICES ASSUME NEW a \in A PROVE \E i \in 1 .. k : g[i] = a
      OBVIOUS
    <3>1. PICK i \in Nat : i < k /\ w[i] = a
      BY <1>6
    <3>2. i + 1 \in 1 .. k /\ (i + 1) - 1 = i
      BY <3>1
    <3> QED
      BY <3>1, <3>2
  <2> HIDE DEF g
  <2>5. g \in Bijection(1 .. k, A)
    BY <2>2, <2>3, <2>4 DEF Bijection, Injection, Surjection, IsInjective
  <2>6. ExistsBijection(1 .. k, A)
    BY <2>5 DEF ExistsBijection
  <2>7. IsFiniteSet(1 .. k) /\ Cardinality(1 .. k) = k
    BY FS_Interval
  <2>8. Cardinality(A) = k
    BY <2>6, <2>7, FS_Bijection
  <2> QED
    BY <2>8, ElementsFinite
<1>8. Cardinality({ i \in 0 .. N : w[i] \in Elements }) = k
  <2>1. { i \in 0 .. N : w[i] \in Elements } = 0 .. k - 1
    BY <1>2, <1>7
  <2>2. Cardinality(0 .. k - 1) = k
    BY FS_Interval
  <2> QED
    BY <2>1, <2>2
<1>9. T = [ n \in 1 .. k |-> w[n - 1] ]
  BY <1>3, <1>8
<1>10. \A i \in 1 .. k : T[i] = w[i - 1] /\ i - 1 \in Nat /\ i - 1 < k
  BY <1>9
<1>11. T \in [1 .. k -> A]
  BY <1>2, <1>9, <1>10
<1>12. \A a \in A : \E i \in 1 .. k : T[i] = a
  <2> SUFFICES ASSUME NEW a \in A PROVE \E i \in 1 .. k : T[i] = a
    OBVIOUS
  <2>1. PICK i \in Nat : i < k /\ w[i] = a
    BY <1>6
  <2>2. i + 1 \in 1 .. k /\ (i + 1) - 1 = i
    BY <2>1
  <2> QED
    BY <1>10, <2>1, <2>2
<1>13. ASSUME NEW i \in 1 .. k, NEW j \in 1 .. k, T[i] = T[j] PROVE i = j
  <2>1. i - 1 = j - 1
    BY <1>5, <1>10, <1>13
  <2> QED
    BY <2>1
<1>14. k = 0 => f[from] = end
  BY <1>1, <1>2
<1>15. ASSUME k > 0 PROVE T[1] = f[from] /\ f[T[k]] = end
  <2>1. 1 \in 1 .. k /\ k \in 1 .. k /\ k - 1 \in Nat /\ k - 1 < k /\ (k - 1) + 1 = k
    BY <1>15
  <2>2. w[k] = f[w[k - 1]] /\ w[k] = end
    BY <1>2, <1>4, <2>1
  <2>3. T[1] = w[1 - 1] /\ T[k] = w[k - 1] /\ 1 - 1 = 0
    BY <1>10, <2>1
  <2> QED
    BY <1>1, <2>2, <2>3
<1>16. \A i \in 1 .. k - 1 : T[i + 1] = f[T[i]]
  <2> SUFFICES ASSUME NEW i \in 1 .. k - 1 PROVE T[i + 1] = f[T[i]]
    OBVIOUS
  <2>1. i \in 1 .. k /\ i + 1 \in 1 .. k /\ (i + 1) - 1 = i /\ (i - 1) + 1 = i
    OBVIOUS
  <2>2. T[i + 1] = w[i] /\ T[i] = w[i - 1] /\ w[i] = f[w[i - 1]]
    BY <1>4, <1>10, <2>1
  <2> QED
    BY <2>2
<1>17. Lists(T, f, from, end, A)
  BY <1>7, <1>11, <1>12, <1>13, <1>14, <1>15, <1>16 DEF Lists
<1> QED
  BY <1>17 DEF T

-----------------------------------------------------------------------------
(* The three trails of a region.                                           *)

LEMMA ForwardLists ==
  ASSUME NEW L, Threaded(L)
  PROVE  Lists(Forward(L), L.next, CtrlHdr, CtrlTail, Allocated(L))
<1> DEFINE A == Allocated(L)
<1>1. LinksOK(L) /\ ListOver(L, A) /\ A \in SUBSET Elements
  BY DEF Threaded, LinksOK, Allocated
<1>2. PICK m \in Nat : \E r \in [Elements -> 0 .. m] : Falls(L, r)
  BY DEF Threaded
<1>3. PICK r \in [Elements -> 0 .. m] : Falls(L, r)
  BY <1>2
<1>4. Leads(L.next, CtrlHdr, CtrlTail, A)
  BY <1>1 DEF ListOver, Leads
<1>5. \A s \in A : L.next[s] \in A => r[L.next[s]] < r[s]
  BY <1>1, <1>3 DEF Falls
<1> HIDE DEF A
<1>6. Lists(Trail(L.next, CtrlHdr), L.next, CtrlHdr, CtrlTail, A)
  BY <1>1, <1>3, <1>4, <1>5, SlotFacts, TrailLists
<1> QED
  BY <1>6 DEF Forward, A

(* Backwards the ranks rise: their distance from the top falls.            *)
LEMMA BackwardLists ==
  ASSUME NEW L, Threaded(L)
  PROVE  Lists(Backward(L), L.prev, CtrlTail, CtrlHdr, Allocated(L))
<1> DEFINE A == Allocated(L)
<1>1. LinksOK(L) /\ ListOver(L, A) /\ A \in SUBSET Elements
  BY DEF Threaded, LinksOK, Allocated
<1>2. PICK m \in Nat : \E r \in [Elements -> 0 .. m] : Falls(L, r)
  BY DEF Threaded
<1>3. PICK r \in [Elements -> 0 .. m] : Falls(L, r)
  BY <1>2
<1>4. Leads(L.prev, CtrlTail, CtrlHdr, A)
  BY <1>1 DEF ListOver, Leads
<1> DEFINE q == [s \in Elements |-> m - r[s]]
<1>5. q \in [Elements -> 0 .. m]
  OBVIOUS
<1>6. ASSUME NEW s \in A, L.prev[s] \in A PROVE q[L.prev[s]] < q[s]
  <2>1. L.next[L.prev[s]] = s /\ s \in Elements /\ L.prev[s] \in Elements
    BY <1>1, <1>6 DEF ListOver
  <2>2. r[s] < r[L.prev[s]]
    BY <1>3, <2>1 DEF Falls
  <2>3. r[s] \in 0 .. m /\ r[L.prev[s]] \in 0 .. m
    BY <2>1
  <2> QED
    BY <2>1, <2>2, <2>3
<1> HIDE DEF A, q
<1>7. Lists(Trail(L.prev, CtrlTail), L.prev, CtrlTail, CtrlHdr, A)
  BY <1>1, <1>4, <1>5, <1>6, SlotFacts, TrailLists
<1> QED
  BY <1>7 DEF Backward, A

LEMMA FreeLists ==
  ASSUME NEW L, Threaded(L)
  PROVE  Lists(FreeTrail(L), L.next, CtrlFree, NIL, FreeOf(L))
<1> DEFINE A == FreeOf(L)
<1>1. LinksOK(L) /\ FreeOver(L, A) /\ FreeReached(L) /\ A \in SUBSET Elements
  BY DEF Threaded, LinksOK, FreeOf
<1>2. PICK m \in Nat : \E r \in [Elements -> 0 .. m] : Falls(L, r)
  BY DEF Threaded
<1>3. PICK r \in [Elements -> 0 .. m] : Falls(L, r)
  BY <1>2
<1>4. Leads(L.next, CtrlFree, NIL, A)
  BY <1>1 DEF FreeOver, FreeReached, Leads
<1>5. \A s \in A : L.next[s] \in A => r[L.next[s]] < r[s]
  BY <1>1, <1>3 DEF Falls
<1>6. NIL \notin Elements
  BY SlotFacts
<1> HIDE DEF A
<1>7. Lists(Trail(L.next, CtrlFree), L.next, CtrlFree, NIL, A)
  BY <1>1, <1>3, <1>4, <1>5, <1>6, TrailLists
<1> QED
  BY <1>7 DEF FreeTrail, A

LEMMA ListIsSeq ==
  ASSUME NEW q, NEW f, NEW from, NEW end, NEW A \in SUBSET Elements,
         Lists(q, f, from, end, A)
  PROVE  q \in Seq(A) /\ Len(q) = Cardinality(A) /\ DOMAIN q = 1 .. Cardinality(A)
<1>1. Cardinality(A) \in Nat
  BY ElementsFinite
<1>2. q \in [1 .. Cardinality(A) -> A]
  BY DEF Lists
<1> QED
  BY <1>1, <1>2

(* There is one such list: two that follow the same links agree.           *)
LEMMA ListUnique ==
  ASSUME NEW f, NEW from, NEW end, NEW A \in SUBSET Elements,
         NEW p, NEW q, Lists(p, f, from, end, A), Lists(q, f, from, end, A)
  PROVE  p = q
<1> DEFINE n == Cardinality(A)
           Bad == { i \in Nat : i \in 1 .. n /\ p[i] # q[i] }
<1>1. n \in Nat /\ p \in [1 .. n -> A] /\ q \in [1 .. n -> A]
  BY ElementsFinite DEF Lists
<1> SUFFICES ASSUME Bad # {} PROVE FALSE
  BY <1>1
<1>2. PICK i \in Bad : \A x \in Bad : i <= x
  BY LeastExists
<1>3. i \in 1 .. n /\ p[i] # q[i]
  BY <1>2
<1>4. CASE i = 1
  BY <1>1, <1>3, <1>4 DEF Lists
<1>5. CASE i # 1
  <2>1. i - 1 \in 1 .. n - 1 /\ (i - 1) + 1 = i /\ i - 1 \in Nat
    BY <1>1, <1>3, <1>5
  <2>2. p[i - 1] = q[i - 1]
    <3>1. i - 1 \in 1 .. n /\ i - 1 \notin Bad
      BY <1>1, <1>2, <2>1
    <3> QED
      BY <2>1, <3>1
  <2>3. p[i] = f[p[i - 1]] /\ q[i] = f[q[i - 1]]
    BY <2>1 DEF Lists
  <2> QED
    BY <1>3, <2>2, <2>3
<1> QED
  BY <1>4, <1>5

(* The list read backwards is the list in the other direction.             *)
LEMMA ListsMirror ==
  ASSUME NEW L, Threaded(L), NEW i \in 1 .. Cardinality(Allocated(L))
  PROVE  Forward(L)[i] = Backward(L)[Cardinality(Allocated(L)) + 1 - i]
<1> DEFINE A == Allocated(L)
           n == Cardinality(A)
           F == Forward(L)
           B == Backward(L)
<1>1. /\ Lists(F, L.next, CtrlHdr, CtrlTail, A)
      /\ Lists(B, L.prev, CtrlTail, CtrlHdr, A)
  BY ForwardLists, BackwardLists
<1>2. ListOver(L, A) /\ n \in Nat
  BY ElementsFinite DEF Threaded, LinksOK, Allocated
<1>3. \A s \in A \cup {CtrlHdr} : L.prev[L.next[s]] = s
  BY <1>2 DEF ListOver
<1> HIDE DEF A, n, F, B
<1> DEFINE Bad == { j \in Nat : j \in 1 .. n /\ B[j] # F[n + 1 - j] }
<1>4. Bad = {}
  <2> SUFFICES ASSUME Bad # {} PROVE FALSE
    OBVIOUS
  <2>1. PICK j \in Bad : \A x \in Bad : j <= x
    BY LeastExists
  <2>2. j \in 1 .. n /\ B[j] # F[n + 1 - j]
    BY <2>1
  <2>3. F \in [1 .. n -> A]
    BY <1>1 DEF Lists, n
  <2>4. CASE j = 1
    <3>1. n > 0 /\ n \in 1 .. n
      BY <1>2, <2>2
    <3>2. B[1] = L.prev[CtrlTail] /\ L.next[F[n]] = CtrlTail
      BY <1>1, <3>1 DEF Lists, n
    <3>3. L.prev[L.next[F[n]]] = F[n]
      BY <1>3, <2>3, <3>1
    <3>4. n + 1 - j = n
      BY <1>2, <2>4
    <3> QED
      BY <2>2, <2>4, <3>2, <3>3, <3>4
  <2>5. CASE j # 1
    <3>1. /\ j - 1 \in 1 .. n - 1 /\ (j - 1) + 1 = j /\ j - 1 \in Nat
          /\ n + 1 - j \in 1 .. n - 1 /\ n + 1 - (j - 1) = (n + 1 - j) + 1
      BY <1>2, <2>2, <2>5
    <3>2. B[j - 1] = F[(n + 1 - j) + 1]
      <4>1. j - 1 \in 1 .. n /\ ~ (j <= j - 1) /\ j - 1 \notin Bad
        BY <1>2, <2>1, <2>2, <3>1
      <4> QED
        BY <3>1, <4>1
    <3>3. B[j] = L.prev[B[j - 1]]
      BY <1>1, <3>1 DEF Lists, n
    <3>4. F[(n + 1 - j) + 1] = L.next[F[n + 1 - j]]
      BY <1>1, <3>1 DEF Lists, n
    <3>5. L.prev[L.next[F[n + 1 - j]]] = F[n + 1 - j]
      <4>1. n + 1 - j \in 1 .. n
        BY <1>2, <3>1
      <4> QED
        BY <1>3, <2>3, <4>1
    <3> QED
      BY <2>2, <3>2, <3>3, <3>4, <3>5
  <2> QED
    BY <2>4, <2>5
<1>5. n + 1 - i \in 1 .. n /\ n + 1 - (n + 1 - i) = i
  BY <1>2 DEF n, A
<1>6. B[n + 1 - i] = F[n + 1 - (n + 1 - i)]
  BY <1>4, <1>5, <1>2
<1> QED
  BY <1>5, <1>6 DEF n, A, F, B

-----------------------------------------------------------------------------
(* What add_el, touch and del_el do to the list as a sequence.             *)

Dropped(q, p) == [ i \in 1 .. Len(q) - 1 |-> IF i < p THEN q[i] ELSE q[i + 1] ]

Fronted(s, q) == [ i \in 1 .. Len(q) + 1 |-> IF i = 1 THEN s ELSE q[i - 1] ]

(* A list depends on the links of its own elements only.                   *)
LEMMA ListsSame ==
  ASSUME NEW f, NEW g, NEW from, NEW end, NEW A \in SUBSET Elements,
         NEW q, Lists(q, f, from, end, A), \A t \in A \cup {from} : g[t] = f[t]
  PROVE  Lists(q, g, from, end, A)
<1> DEFINE n == Cardinality(A)
<1>1. n \in Nat /\ q \in [1 .. n -> A]
  BY ElementsFinite DEF Lists
<1>2. n > 0 => q[n] \in A
  BY <1>1
<1>3. \A i \in 1 .. n - 1 : q[i] \in A
  BY <1>1
<1> QED
  BY <1>2, <1>3 DEF Lists

LEMMA PushLists ==
  ASSUME NEW f, NEW g, NEW from, NEW end, NEW A \in SUBSET Elements,
         NEW s \in Elements \ A, NEW q, Lists(q, f, from, end, A),
         from # s, g[from] = s, g[s] = f[from], \A t \in A : g[t] = f[t]
  PROVE  Lists(Fronted(s, q), g, from, end, A \cup {s})
<1> DEFINE n == Cardinality(A)
           p == Fronted(s, q)
<1>1. n \in Nat /\ q \in [1 .. n -> A] /\ Len(q) = n
  BY ElementsFinite, ListIsSeq DEF Lists
<1>2. Cardinality(A \cup {s}) = n + 1
  BY ElementsFinite, FS_AddElement
<1>3. /\ p \in [1 .. n + 1 -> A \cup {s}] /\ p[1] = s
      /\ \A i \in 2 .. n + 1 : p[i] = q[i - 1] /\ i - 1 \in 1 .. n
  BY <1>1 DEF Fronted
<1>4. \A a \in A \cup {s} : \E i \in 1 .. n + 1 : p[i] = a
  <2> SUFFICES ASSUME NEW a \in A PROVE \E i \in 1 .. n + 1 : p[i] = a
    BY <1>1, <1>3
  <2>1. PICK i \in 1 .. n : q[i] = a
    BY DEF Lists
  <2>2. i + 1 \in 2 .. n + 1 /\ i + 1 \in 1 .. n + 1 /\ (i + 1) - 1 = i
    BY <1>1
  <2> QED
    BY <1>3, <2>1, <2>2
<1>5. ASSUME NEW i \in 1 .. n + 1, NEW j \in 1 .. n + 1, p[i] = p[j]
      PROVE  i = j
  <2>1. \A x \in 2 .. n + 1 : p[x] \in A
    BY <1>1, <1>3
  <2>2. CASE i = 1 \/ j = 1
    <3>1. i \in 2 .. n + 1 \/ i = 1
      BY <1>1
    <3>2. j \in 2 .. n + 1 \/ j = 1
      BY <1>1
    <3> QED
      BY <1>3, <1>5, <2>1, <2>2, <3>1, <3>2
  <2>3. CASE i # 1 /\ j # 1
    <3>1. i \in 2 .. n + 1 /\ j \in 2 .. n + 1
      BY <1>1, <2>3
    <3>2. q[i - 1] = q[j - 1] /\ i - 1 \in 1 .. n /\ j - 1 \in 1 .. n
      BY <1>3, <1>5, <3>1
    <3>3. i - 1 = j - 1
      BY <3>2 DEF Lists
    <3> QED
      BY <3>1, <3>3
  <2> QED
    BY <2>2, <2>3
<1> HIDE DEF p
<1>6. p[1] = g[from] /\ g[p[n + 1]] = end
  <2>1. CASE n = 0
    BY <1>3, <2>1 DEF Lists
  <2>2. CASE n # 0
    <3>1. n + 1 \in 2 .. n + 1 /\ (n + 1) - 1 = n /\ n \in 1 .. n /\ n > 0
      BY <1>1, <2>2
    <3>2. p[n + 1] = q[n] /\ q[n] \in A
      BY <1>1, <1>3, <3>1
    <3>3. f[q[n]] = end
      BY <3>1 DEF Lists
    <3> QED
      BY <1>3, <3>2, <3>3
  <2> QED
    BY <2>1, <2>2
<1>7. \A i \in 1 .. n : p[i + 1] = g[p[i]]
  <2> SUFFICES ASSUME NEW i \in 1 .. n PROVE p[i + 1] = g[p[i]]
    OBVIOUS
  <2>1. p[i + 1] = q[i]
    <3>1. i + 1 \in 2 .. n + 1 /\ (i + 1) - 1 = i
      BY <1>1
    <3> QED
      BY <1>3, <3>1
  <2>2. CASE i = 1
    <3>1. q[1] = f[from]
      BY <1>1, <2>2 DEF Lists
    <3> QED
      BY <1>3, <2>1, <2>2, <3>1
  <2>3. CASE i # 1
    <3>1. i \in 2 .. n + 1 /\ i - 1 \in 1 .. n - 1 /\ (i - 1) + 1 = i /\ i - 1 \in 1 .. n
      BY <1>1, <2>3
    <3>2. p[i] = q[i - 1] /\ q[i - 1] \in A
      BY <1>1, <1>3, <3>1
    <3>3. q[i] = f[q[i - 1]]
      BY <3>1 DEF Lists
    <3> QED
      BY <2>1, <3>2, <3>3
  <2> QED
    BY <2>2, <2>3
<1>8. n + 1 > 0 /\ n + 1 # 0 /\ (n + 1) - 1 = n
  BY <1>1
<1> DEFINE B == A \cup {s}
           N == n + 1
<1>9. /\ Cardinality(B) = N
      /\ p \in [1 .. N -> B]
      /\ \A a \in B : \E i \in 1 .. N : p[i] = a
      /\ \A i, j \in 1 .. N : p[i] = p[j] => i = j
      /\ N # 0
      /\ p[1] = g[from] /\ g[p[N]] = end
      /\ \A i \in 1 .. N - 1 : p[i + 1] = g[p[i]]
  BY <1>2, <1>3, <1>4, <1>5, <1>6, <1>7, <1>8
<1> HIDE DEF B, N
<1>10. Lists(p, g, from, end, B)
  BY <1>9 DEF Lists
<1> QED
  BY <1>10 DEF p, B

LEMMA DropLists ==
  ASSUME NEW f, NEW g, NEW from, NEW end, NEW A \in SUBSET Elements,
         NEW q, Lists(q, f, from, end, A), from \notin A, end \notin A,
         NEW p \in 1 .. Cardinality(A),
         \A t \in (A \ {q[p]}) \cup {from} :
           g[t] = IF f[t] = q[p] THEN f[q[p]] ELSE f[t]
  PROVE  Lists(Dropped(q, p), g, from, end, A \ {q[p]})
<1> DEFINE n == Cardinality(A)
           s == q[p]
           d == Dropped(q, p)
<1>1. n \in Nat /\ q \in [1 .. n -> A] /\ Len(q) = n /\ n > 0 /\ p \in 1 .. n /\ s \in A
  BY ElementsFinite, ListIsSeq DEF Lists
<1>2. Cardinality(A \ {s}) = n - 1
  BY <1>1, ElementsFinite, FS_RemoveElement
<1>3. \A i \in 1 .. n - 1 :
        /\ d[i] = IF i < p THEN q[i] ELSE q[i + 1]
        /\ i \in 1 .. n /\ i + 1 \in 1 .. n
  BY <1>1 DEF Dropped
<1>4. \A i, j \in 1 .. n : q[i] = q[j] => i = j
  BY DEF Lists
<1>5. d \in [1 .. n - 1 -> A \ {s}]
  <2>1. \A i \in 1 .. n - 1 : d[i] \in A \ {s}
    <3> SUFFICES ASSUME NEW i \in 1 .. n - 1 PROVE d[i] \in A \ {s}
      OBVIOUS
    <3>1. CASE i < p
      BY <1>1, <1>3, <1>4, <3>1
    <3>2. CASE ~ (i < p)
      <4>1. d[i] = q[i + 1] /\ i + 1 \in 1 .. n /\ i + 1 # p
        BY <1>1, <1>3, <3>2
      <4> QED
        BY <1>1, <1>4, <4>1
    <3> QED
      BY <3>1, <3>2
  <2>2. d = [ i \in 1 .. n - 1 |-> d[i] ]
    BY <1>1 DEF Dropped
  <2> HIDE DEF d
  <2> QED
    BY <2>1, <2>2
<1>6. \A a \in A \ {s} : \E i \in 1 .. n - 1 : d[i] = a
  <2> SUFFICES ASSUME NEW a \in A \ {s} PROVE \E i \in 1 .. n - 1 : d[i] = a
    OBVIOUS
  <2>1. PICK i \in 1 .. n : q[i] = a
    BY DEF Lists
  <2>2. i # p
    BY <2>1
  <2>3. CASE i < p
    <3>1. i \in 1 .. n - 1
      BY <1>1, <2>3
    <3> QED
      BY <1>3, <2>1, <2>3, <3>1
  <2>4. CASE i > p
    <3>1. i - 1 \in 1 .. n - 1 /\ ~ (i - 1 < p) /\ (i - 1) + 1 = i
      BY <1>1, <2>4
    <3> QED
      BY <1>3, <2>1, <3>1
  <2> QED
    BY <1>1, <2>2, <2>3, <2>4
<1> HIDE DEF d
<1>7. ASSUME NEW i \in 1 .. n - 1, NEW j \in 1 .. n - 1, d[i] = d[j]
      PROVE  i = j
  <2> DEFINE x == IF i < p THEN i ELSE i + 1
             y == IF j < p THEN j ELSE j + 1
  <2>1. x \in 1 .. n /\ y \in 1 .. n /\ d[i] = q[x] /\ d[j] = q[y]
    BY <1>3
  <2>2. x = y
    BY <1>4, <1>7, <2>1
  <2> QED
    BY <1>1, <2>2
<1>8. /\ q[1] = f[from] /\ f[q[n]] = end
      /\ \A i \in 1 .. n - 1 : q[i + 1] = f[q[i]]
  BY <1>1 DEF Lists
<1>9. ASSUME NEW i \in 1 .. n, i # p
      PROVE  /\ q[i] \in A \ {s}
             /\ i + 1 # p => g[q[i]] = f[q[i]]
             /\ i + 1 = p => g[q[i]] = f[s]
  <2>1. q[i] \in A \ {s}
    BY <1>1, <1>4, <1>9
  <2>2. ASSUME i + 1 = p PROVE f[q[i]] = s
    BY <1>1, <1>8, <2>2
  <2>3. ASSUME i + 1 # p PROVE f[q[i]] # s
    <3>1. CASE i = n
      BY <1>1, <1>8, <3>1
    <3>2. CASE i # n
      <4>1. i \in 1 .. n - 1 /\ i + 1 \in 1 .. n
        BY <1>1, <3>2
      <4>2. f[q[i]] = q[i + 1] /\ q[i + 1] # q[p]
        BY <1>1, <1>4, <1>8, <2>3, <4>1
      <4> QED
        BY <4>2
    <3> QED
      BY <3>1, <3>2
  <2> QED
    BY <2>1, <2>2, <2>3
<1>10. g[from] = IF p = 1 THEN f[s] ELSE f[from]
  <2>1. CASE p = 1
    BY <1>8, <2>1
  <2>2. CASE p # 1
    <3>1. 1 \in 1 .. n /\ q[1] # q[p]
      BY <1>1, <1>4, <2>2
    <3> QED
      BY <1>8, <2>2, <3>1
  <2> QED
    BY <2>1, <2>2
<1>11. n - 1 = 0 => g[from] = end
  BY <1>1, <1>8, <1>10
<1>12. ASSUME n - 1 > 0 PROVE d[1] = g[from] /\ g[d[n - 1]] = end
  <2>1. 1 \in 1 .. n - 1 /\ n - 1 \in 1 .. n - 1 /\ (n - 1) + 1 = n /\ n \in 1 .. n
        /\ n - 1 \in 1 .. n
    BY <1>1, <1>12
  <2>2. d[1] = g[from]
    <3>1. CASE p = 1
      <4>1. d[1] = q[1 + 1] /\ q[1 + 1] = f[q[1]]
        BY <1>3, <1>8, <2>1, <3>1
      <4> QED
        BY <1>10, <3>1, <4>1
    <3>2. CASE p # 1
      <4>1. d[1] = q[1]
        BY <1>1, <1>3, <2>1, <3>2
      <4> QED
        BY <1>8, <1>10, <3>2, <4>1
    <3> QED
      BY <3>1, <3>2
  <2>3. g[d[n - 1]] = end
    <3>1. CASE p = n
      <4>1. d[n - 1] = q[n - 1] /\ n - 1 # p /\ (n - 1) + 1 = p
        BY <1>1, <1>3, <2>1, <3>1
      <4> QED
        BY <1>8, <1>9, <2>1, <3>1, <4>1
    <3>2. CASE p # n
      <4>1. d[n - 1] = q[n] /\ n + 1 # p
        BY <1>1, <1>3, <2>1, <3>2
      <4> QED
        BY <1>8, <1>9, <2>1, <3>2, <4>1
    <3> QED
      BY <3>1, <3>2
  <2> QED
    BY <2>2, <2>3
<1>13. ASSUME NEW i \in 1 .. (n - 1) - 1 PROVE d[i + 1] = g[d[i]]
  <2>1. i \in 1 .. n - 1 /\ i + 1 \in 1 .. n - 1 /\ i \in 1 .. n /\ i + 1 \in 1 .. n
        /\ (i + 1) + 1 \in 1 .. n
    BY <1>1
  <2>2. CASE i + 1 < p
    <3>1. d[i + 1] = q[i + 1] /\ d[i] = q[i] /\ i # p /\ i + 1 # p
      BY <1>1, <1>3, <2>1, <2>2
    <3> QED
      BY <1>8, <1>9, <2>1, <3>1
  <2>3. CASE i + 1 = p
    <3>1. d[i + 1] = q[(i + 1) + 1] /\ d[i] = q[i] /\ i # p
      BY <1>1, <1>3, <2>1, <2>3
    <3>2. q[(i + 1) + 1] = f[q[i + 1]]
      BY <1>8, <2>1
    <3> QED
      BY <1>9, <2>1, <2>3, <3>1, <3>2
  <2>4. CASE i + 1 > p
    <3>1. d[i + 1] = q[(i + 1) + 1] /\ d[i] = q[i + 1] /\ i + 1 # p /\ (i + 1) + 1 # p
      BY <1>1, <1>3, <2>1, <2>4
    <3>2. q[(i + 1) + 1] = f[q[i + 1]]
      BY <1>8, <2>1
    <3> QED
      BY <1>9, <2>1, <3>1, <3>2
  <2> QED
    BY <1>1, <2>2, <2>3, <2>4
<1> DEFINE B == A \ {s}
           N == n - 1
<1>14. /\ Cardinality(B) = N
       /\ d \in [1 .. N -> B]
       /\ \A a \in B : \E i \in 1 .. N : d[i] = a
       /\ \A i, j \in 1 .. N : d[i] = d[j] => i = j
       /\ N = 0 => g[from] = end
       /\ N > 0 => d[1] = g[from] /\ g[d[N]] = end
       /\ \A i \in 1 .. N - 1 : d[i + 1] = g[d[i]]
  BY <1>2, <1>5, <1>6, <1>7, <1>11, <1>12, <1>13
<1> HIDE DEF B, N
<1>15. Lists(d, g, from, end, B)
  BY <1>14 DEF Lists
<1> QED
  BY <1>15 DEF d, B, s

LEMMA AddForward ==
  ASSUME NEW L, Threaded(L), L.next[CtrlFree] # NIL
  PROVE  Forward(AddLinks(L)) = Fronted(L.next[CtrlFree], Forward(L))
<1> DEFINE s == L.next[CtrlFree]
           A == Allocated(L)
           N == AddLinks(L)
<1>1. LinksOK(L) /\ L \in Links /\ A \in SUBSET Elements
  BY DEF Threaded, LinksOK, Allocated
<1>2. /\ s \in FreeOf(L) /\ N \in Links
      /\ Allocated(N) = A \cup {s}
      /\ N.next[s] = L.next[CtrlHdr]
      /\ \A t \in A : N.next[t] = L.next[t]
  BY <1>1, AddKeeps DEF LinksOK
<1>3. s \in Elements \ A
  BY <1>2 DEF FreeOf, Allocated
<1>4. N.next[CtrlHdr] = s
  BY <1>1, <1>3, SlotFacts DEF AddLinks, TakeFree, PushFront, Links
<1>5. Lists(Forward(L), L.next, CtrlHdr, CtrlTail, A)
  BY ForwardLists
<1>6. Threaded(N)
  BY AddThreads
<1>7. Lists(Forward(N), N.next, CtrlHdr, CtrlTail, A \cup {s})
  BY <1>2, <1>6, ForwardLists
<1> HIDE DEF s, A, N
<1>8. Lists(Fronted(s, Forward(L)), N.next, CtrlHdr, CtrlTail, A \cup {s})
  BY <1>1, <1>2, <1>3, <1>4, <1>5, SlotFacts, PushLists
<1>9. A \cup {s} \in SUBSET Elements
  BY <1>1, <1>3
<1>10. Forward(N) = Fronted(s, Forward(L))
  BY <1>7, <1>8, <1>9, ListUnique
<1> QED
  BY <1>10 DEF s, N

LEMMA UnlinkLists ==
  ASSUME NEW L, Threaded(L), NEW p \in 1 .. Cardinality(Allocated(L)),
         NEW s, s = Forward(L)[p]
  PROVE  /\ s \in Allocated(L)
         /\ Lists(Dropped(Forward(L), p), Unlink(L, s).next, CtrlHdr, CtrlTail,
                  Allocated(L) \ {s})
<1> DEFINE A == Allocated(L)
           q == Forward(L)
           U == Unlink(L, s)
<1>1. L \in Links /\ ListOver(L, A) /\ A \in SUBSET Elements
  BY DEF Threaded, LinksOK, Allocated
<1>2. Lists(q, L.next, CtrlHdr, CtrlTail, A)
  BY ForwardLists
<1>3. s \in A
  BY <1>2 DEF Lists
<1>4. \A t \in (A \ {s}) \cup {CtrlHdr} :
        U.next[t] = IF L.next[t] = s THEN L.next[s] ELSE L.next[t]
  BY <1>1, <1>3, SlotFacts DEF Unlink, ListOver, Links
<1> HIDE DEF A, q, U
<1>5. Lists(Dropped(q, p), U.next, CtrlHdr, CtrlTail, A \ {q[p]})
  <2>1. CtrlHdr \notin A /\ CtrlTail \notin A /\ p \in 1 .. Cardinality(A) /\ s = q[p]
    BY <1>1, SlotFacts DEF A, q
  <2>2. PICK g : g = U.next
    OBVIOUS
  <2>3. \A t \in (A \ {q[p]}) \cup {CtrlHdr} :
          g[t] = IF L.next[t] = q[p] THEN L.next[q[p]] ELSE L.next[t]
    BY <1>4, <2>1, <2>2
  <2>4. Lists(Dropped(q, p), g, CtrlHdr, CtrlTail, A \ {q[p]})
    BY <1>1, <1>2, <2>1, <2>3, DropLists
  <2> QED
    BY <2>2, <2>4
<1> QED
  BY <1>3, <1>5 DEF A, q, U

LEMMA TouchForward ==
  ASSUME NEW L, Threaded(L), NEW p \in 1 .. Cardinality(Allocated(L)),
         NEW s, s = Forward(L)[p]
  PROVE  Forward(TouchLinks(L, s)) = Fronted(s, Dropped(Forward(L), p))
<1> DEFINE A == Allocated(L)
           B == A \ {s}
           U == Unlink(L, s)
           N == TouchLinks(L, s)
           d == Dropped(Forward(L), p)
<1>1. LinksOK(L) /\ L \in Links /\ ListOver(L, A) /\ A \in SUBSET Elements
  BY DEF Threaded, LinksOK, Allocated
<1>2. s \in A /\ Lists(d, U.next, CtrlHdr, CtrlTail, B)
  BY UnlinkLists
<1>3. /\ N \in Links /\ Allocated(N) = A
      /\ N.next[s] = U.next[CtrlHdr]
      /\ \A t \in B : N.next[t] = U.next[t]
  BY <1>1, <1>2, TouchKeeps DEF LinksOK
<1>4. U \in Links
  BY <1>1, <1>2, UnlinkList
<1>5. N.next[CtrlHdr] = s
  BY <1>1, <1>2, <1>4, SlotFacts DEF TouchLinks, PushFront, Links
<1>6. Threaded(N)
  BY <1>2, TouchThreads
<1>7. Lists(Forward(N), N.next, CtrlHdr, CtrlTail, A)
  BY <1>3, <1>6, ForwardLists
<1>8. B \in SUBSET Elements /\ s \in Elements \ B /\ B \cup {s} = A
  BY <1>1, <1>2
<1> HIDE DEF A, B, U, N, d
<1>9. Lists(Fronted(s, d), N.next, CtrlHdr, CtrlTail, B \cup {s})
  BY <1>2, <1>3, <1>5, <1>8, SlotFacts, PushLists
<1>10. Forward(N) = Fronted(s, d)
  BY <1>1, <1>7, <1>8, <1>9, ListUnique
<1> QED
  BY <1>10 DEF N, d

LEMMA DelForward ==
  ASSUME NEW L, Threaded(L), NEW p \in 1 .. Cardinality(Allocated(L)),
         NEW s, s = Forward(L)[p]
  PROVE  Forward(DelLinks(L, s)) = Dropped(Forward(L), p)
<1> DEFINE A == Allocated(L)
           B == A \ {s}
           U == Unlink(L, s)
           N == DelLinks(L, s)
           d == Dropped(Forward(L), p)
<1>1. LinksOK(L) /\ L \in Links /\ ListOver(L, A) /\ A \in SUBSET Elements
  BY DEF Threaded, LinksOK, Allocated
<1>2. s \in A /\ Lists(d, U.next, CtrlHdr, CtrlTail, B)
  BY UnlinkLists
<1>3. /\ N \in Links /\ Allocated(N) = B
      /\ \A t \in B : N.next[t] = U.next[t]
  BY <1>1, <1>2, DelKeeps DEF LinksOK
<1>4. U \in Links
  BY <1>1, <1>2, UnlinkList
<1>5. N.next[CtrlHdr] = U.next[CtrlHdr]
  BY <1>1, <1>2, <1>4, SlotFacts DEF DelLinks, PutFree, Links
<1>6. Threaded(N)
  BY <1>2, DelThreads
<1>7. Lists(Forward(N), N.next, CtrlHdr, CtrlTail, B)
  BY <1>3, <1>6, ForwardLists
<1>8. B \in SUBSET Elements
  BY <1>1
<1> HIDE DEF A, B, U, N, d
<1>9. Lists(d, N.next, CtrlHdr, CtrlTail, B)
  BY <1>2, <1>3, <1>5, <1>8, ListsSame
<1>10. Forward(N) = d
  BY <1>7, <1>8, <1>9, ListUnique
<1> QED
  BY <1>10 DEF N, d

-----------------------------------------------------------------------------
(* A walk of the allocated list, step by step, as reload_hash_map does it. *)

(* V is what a walk that stands on a has behind it: a front part of the    *)
(* list that ends before a.                                                *)
FrontPart(L, V, a) ==
  /\ V \subseteq Allocated(L) /\ a \notin V
  /\ \A v \in V \cup {CtrlHdr} : L.next[v] \in V \cup {a}
  /\ \A v \in V \cup {a} : L.prev[v] \in V \cup {CtrlHdr}

LEMMA FrontStarts ==
  ASSUME NEW L, LinksOK(L)
  PROVE  FrontPart(L, {}, L.next[CtrlHdr]) /\ Cardinality({}) = 0
BY FS_EmptySet DEF LinksOK, ListOver, FrontPart

LEMMA FrontGrows ==
  ASSUME NEW L, LinksOK(L), NEW V, NEW a \in Allocated(L), FrontPart(L, V, a)
  PROVE  /\ FrontPart(L, V \cup {a}, L.next[a])
         /\ Cardinality(V) \in Nat /\ Cardinality(V \cup {a}) = Cardinality(V) + 1
         /\ Cardinality(V \cup {a}) <= Cardinality(Allocated(L))
<1> DEFINE A == Allocated(L)
<1>1. ListOver(L, A) /\ A \in SUBSET Elements
  BY DEF LinksOK, Allocated
<1>2. /\ V \in SUBSET A /\ a \notin V
      /\ \A v \in V \cup {CtrlHdr} : L.next[v] \in V \cup {a}
      /\ \A v \in V \cup {a} : L.prev[v] \in V \cup {CtrlHdr}
  BY DEF FrontPart
<1>3. L.prev[L.next[a]] = a
  BY <1>1 DEF ListOver
<1>4. L.next[a] \notin V \cup {a}
  BY <1>1, <1>2, <1>3, SlotFacts
<1>5. FrontPart(L, V \cup {a}, L.next[a])
  BY <1>2, <1>3, <1>4 DEF FrontPart
<1>6. /\ V \in SUBSET Elements /\ A \in SUBSET Elements
      /\ V \cup {a} \in SUBSET A
  BY <1>1, <1>2
<1>7. IsFiniteSet(V) /\ Cardinality(V) \in Nat /\ IsFiniteSet(A)
  BY <1>6, ElementsFinite
<1>8. Cardinality(V \cup {a}) = Cardinality(V) + 1
  BY <1>2, <1>7, FS_AddElement
<1>9. Cardinality(V \cup {a}) <= Cardinality(A)
  BY <1>6, <1>7, FS_Subset
<1> QED
  BY <1>5, <1>7, <1>8, <1>9

(* At the tail the walk has been everywhere.                               *)
LEMMA FrontEnds ==
  ASSUME NEW L, Threaded(L), NEW V, FrontPart(L, V, CtrlTail)
  PROVE  V = Allocated(L)
<1> DEFINE A == Allocated(L)
           Depths(m, r) == { n \in Nat : \E e \in A \ V : n = m - r[e] }
<1>1. ListOver(L, A) /\ A \in SUBSET Elements /\ V \in SUBSET A
  BY DEF Threaded, LinksOK, Allocated, FrontPart
<1>2. PICK m \in Nat : \E r \in [Elements -> 0 .. m] : Falls(L, r)
  BY DEF Threaded
<1>3. PICK r \in [Elements -> 0 .. m] : Falls(L, r)
  BY <1>2
<1> SUFFICES ASSUME A \ V # {} PROVE FALSE
  BY <1>1
<1>4. \A e \in Elements : m - r[e] \in Nat
  BY <1>3
<1>5. Depths(m, r) # {}
  BY <1>1, <1>4
<1>6. PICK d \in Depths(m, r) : \A x \in Depths(m, r) : d <= x
  BY <1>5, LeastExists
<1>7. PICK e \in A \ V : d = m - r[e]
  BY <1>6
<1> DEFINE p == L.prev[e]
<1>8. p \in A \cup {CtrlHdr} /\ L.next[p] = e /\ e \in Elements
  BY <1>1, <1>7 DEF ListOver
<1>9. p \in A \ V
  BY <1>7, <1>8, SlotFacts DEF FrontPart
<1>10. r[e] < r[p] /\ r[e] \in 0 .. m /\ r[p] \in 0 .. m
  BY <1>1, <1>3, <1>8, <1>9 DEF Falls
<1>11. m - r[p] \in Depths(m, r) /\ m - r[p] < m - r[e]
  BY <1>9, <1>10
<1> QED
  BY <1>6, <1>7, <1>10, <1>11

LEMMA WholeCountInt == WholeCount \in Int
<1>1. RegionSize \div Step \in Int
  BY RegionAssumption
<1> QED
  BY <1>1 DEF WholeCount
=============================================================================

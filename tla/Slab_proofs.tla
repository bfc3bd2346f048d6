----------------------------- MODULE Slab_proofs -----------------------------
(***************************************************************************)
(* An LRU and its hopscotch table, of any size and width, agree: through   *)
(* stores that hop or give up, deletions, evictions and evictions that put *)
(* the values back, every entry of the table leads to the element it was   *)
(* made for, and every element is found whose key nobody took out.         *)
(***************************************************************************)
EXTENDS Slab, LRULinks_proofs, HHTable_proofs

-----------------------------------------------------------------------------
(* Loops.                                                                  *)

(* What holds of 0, and of n + 1 when it holds of n, holds of all n.       *)
LEMMA EveryRound ==
  ASSUME NEW P \in SUBSET Nat, 0 \in P, \A n \in P : n + 1 \in P
  PROVE  P = Nat
<1> SUFFICES ASSUME Nat \ P # {} PROVE FALSE
  OBVIOUS
<1>1. PICK m \in Nat \ P : \A n \in Nat \ P : m <= n
  BY LeastExists
<1>2. m # 0 /\ m - 1 \in Nat /\ (m - 1) + 1 = m
  BY <1>1
<1>3. m - 1 \in P
  BY <1>1, <1>2
<1> QED
  BY <1>1, <1>2, <1>3

(* The first n rounds of a loop whose body is f and which starts from x.   *)
Rounds(D, f, x, n, g) ==
  /\ g \in [0 .. n -> D] /\ g[0] = x
  /\ \A i \in 1 .. n : g[i] = f[g[i - 1]]

LEMMA RoundsExist ==
  ASSUME NEW D, NEW x \in D, NEW f \in [D -> D], NEW n \in Nat
  PROVE  \E g : Rounds(D, f, x, n, g)
<1> DEFINE P == { k \in Nat : \E g : Rounds(D, f, x, k, g) }
<1>1. 0 \in P
  <2> DEFINE g == [ i \in 0 .. 0 |-> x ]
  <2>1. Rounds(D, f, x, 0, g)
    BY DEF Rounds
  <2> QED
    BY <2>1
<1>2. ASSUME NEW k \in P PROVE k + 1 \in P
  <2>1. PICK g : Rounds(D, f, x, k, g)
    BY <1>2
  <2> DEFINE h == [ i \in 0 .. k + 1 |-> IF i = k + 1 THEN f[g[k]] ELSE g[i] ]
  <2>2. k \in Nat /\ k \in 0 .. k /\ g \in [0 .. k -> D]
    BY <1>2, <2>1 DEF Rounds
  <2>3. h \in [0 .. k + 1 -> D] /\ h[0] = x
    <3>1. \A i \in 0 .. k + 1 : i # k + 1 => i \in 0 .. k
      BY <2>2
    <3>2. 0 \in 0 .. k + 1 /\ 0 # k + 1
      BY <2>2
    <3> QED
      BY <2>1, <2>2, <3>1, <3>2 DEF Rounds
  <2>4. \A i \in 1 .. k + 1 : h[i] = f[h[i - 1]]
    <3> TAKE i \in 1 .. k + 1
    <3>1. i \in 0 .. k + 1 /\ i - 1 \in 0 .. k /\ i - 1 \in 0 .. k + 1 /\ i - 1 # k + 1
      BY <2>2
    <3>2. h[i - 1] = g[i - 1]
      BY <3>1
    <3>3. CASE i = k + 1
      <4>1. i - 1 = k
        BY <2>2, <3>3
      <4> QED
        BY <3>1, <3>2, <3>3, <4>1
    <3>4. CASE i # k + 1
      <4>1. i \in 1 .. k
        BY <2>2, <3>4
      <4> QED
        BY <2>1, <3>1, <3>2, <3>4, <4>1 DEF Rounds
    <3> QED
      BY <3>3, <3>4
  <2> HIDE DEF h
  <2>5. Rounds(D, f, x, k + 1, h)
    BY <2>3, <2>4 DEF Rounds
  <2> QED
    BY <2>2, <2>5
<1> HIDE DEF P
<1>3. P = Nat
  <2>1. P \in SUBSET Nat
    BY DEF P
  <2> QED
    BY <1>1, <1>2, <2>1, EveryRound
<1> QED
  BY <1>3 DEF P

(* Two runs of the loop agree as far as both go.                           *)
LEMMA RoundsAgree ==
  ASSUME NEW D, NEW x, NEW f, NEW k \in Nat, NEW g, NEW h,
         Rounds(D, f, x, k, g), Rounds(D, f, x, k + 1, h)
  PROVE  g[k] = h[k]
<1> DEFINE P == { n \in Nat : n <= k => g[n] = h[n] }
<1>1. 0 \in P
  BY DEF Rounds
<1>2. ASSUME NEW n \in P PROVE n + 1 \in P
  <2>1. CASE n + 1 <= k
    <3>1. n + 1 \in 1 .. k /\ n + 1 \in 1 .. k + 1 /\ (n + 1) - 1 = n /\ n <= k /\ n + 1 \in Nat
      BY <2>1
    <3> QED
      BY <3>1 DEF Rounds
  <2>2. CASE ~ (n + 1 <= k)
    BY <2>2
  <2> QED
    BY <2>1, <2>2
<1> HIDE DEF P
<1>3. P = Nat
  <2>1. P \in SUBSET Nat
    BY DEF P
  <2> QED
    BY <1>1, <1>2, <2>1, EveryRound
<1> QED
  BY <1>3 DEF P

(* Every loop has a run.                                                   *)
LEMMA LoopRuns ==
  ASSUME NEW D, NEW x \in D, NEW f \in [D -> D]
  PROVE  \E g \in [Nat -> D] :
           \A n \in Nat : g[n] = IF n = 0 THEN x ELSE f[g[n - 1]]
<1> DEFINE G(n) == CHOOSE g : Rounds(D, f, x, n, g)
           W == [ n \in Nat |-> G(n)[n] ]
<1>1. \A n \in Nat : Rounds(D, f, x, n, G(n))
  BY RoundsExist
<1> HIDE DEF G
<1>2. W \in [Nat -> D]
  <2>1. \A n \in Nat : G(n)[n] \in D
    <3> TAKE n \in Nat
    <3>1. G(n) \in [0 .. n -> D] /\ n \in 0 .. n
      BY <1>1 DEF Rounds
    <3> QED
      BY <3>1
  <2> QED
    BY <2>1
<1>3. \A n \in Nat : W[n] = IF n = 0 THEN x ELSE f[W[n - 1]]
  <2> TAKE n \in Nat
  <2>1. CASE n = 0
    BY <1>1, <2>1 DEF Rounds
  <2>2. CASE n # 0
    <3>1. n - 1 \in Nat /\ (n - 1) + 1 = n /\ n \in 1 .. n
      BY <2>2
    <3>2. G(n)[n] = f[G(n)[n - 1]]
      BY <1>1, <3>1 DEF Rounds
    <3>3. G(n - 1)[n - 1] = G(n)[n - 1]
      <4>1. Rounds(D, f, x, n - 1, G(n - 1)) /\ Rounds(D, f, x, (n - 1) + 1, G(n))
        BY <1>1, <3>1
      <4> QED
        BY <3>1, <4>1, RoundsAgree
    <3> QED
      BY <2>2, <3>1, <3>2, <3>3
  <2> QED
    BY <2>1, <2>2
<1> QED
  BY <1>2, <1>3

-----------------------------------------------------------------------------
(* Storing.                                                                *)

(* A store in progress holds a free slot at distance d from its bucket, in *)
(* a table in which F is filed.                                            *)
Hopping(t, d, h, F) ==
  /\ Sound(t) /\ Filed(t) = F
  /\ d \in 0 .. N - 1 /\ SlotAt(h, d) \notin Occupied(t)

(* The loop ends when the free slot is in reach, or nothing can move.      *)
Settled(t, d, h) == d < K \/ HopScotch(t, SlotAt(h, d)) = 0

(* A round of the loop files and takes out nothing, and brings the free    *)
(* slot nearer unless the loop has ended.                                  *)
LEMMA HoppedKeeps ==
  ASSUME NEW t, NEW d, NEW h \in Slot, NEW F, Hopping(t, d, h, F)
  PROVE  /\ Hopping(Hopped(t, h, d).table, Hopped(t, h, d).d, h, F)
         /\ Settled(t, d, h) => Hopped(t, h, d) = [table |-> t, d |-> d]
         /\ ~ Settled(t, d, h) => Hopped(t, h, d).d < d
<1>1. CASE Settled(t, d, h)
  <2>1. Hopped(t, h, d) = [table |-> t, d |-> d]
    BY <1>1 DEF Hopped, Settled
  <2> QED
    BY <1>1, <2>1
<1>2. CASE ~ Settled(t, d, h)
  <2> DEFINE free == SlotAt(h, d)
             z == HopScotch(t, free)
             b == MOD(N + free - z)
             i == Least(t.H[b])
             e == MOD(N + b + i - h)
  <2>1. /\ d \in 0 .. N - 1 /\ d >= K /\ z # 0 /\ Sound(t) /\ TableInv(t)
        /\ free \notin Occupied(t) /\ Filed(t) = F
    BY <1>2, TableAssumption DEF Settled, Hopping, Sound
  <2>2. Hopped(t, h, d) = [table |-> Swap(t, b, i, z), d |-> e]
    BY <2>1, TableAssumption DEF Hopped
  <2>3. /\ b \in Slot /\ i \in t.H[b] /\ z \in 1 .. K - 1 /\ i < z
        /\ z \in 0 .. N - 1 /\ SlotAt(b, z) = free
        /\ e \in 0 .. N - 1 /\ e < d /\ SlotAt(h, e) = SlotAt(b, i)
    <3> HIDE DEF free, z, b, i, e
    <3> QED
      BY <2>1, HopFinds DEF free, z, b, i, e, Below, Nearer
  <2> HIDE DEF z, b, i, e
  <2>4. z < K
    BY <2>3, TableAssumption
  <2>5. Sound(Swap(t, b, i, z)) /\ Filed(Swap(t, b, i, z)) = F
    BY <2>1, <2>3, <2>4, SwapFiles
  <2>6. SlotAt(h, e) \notin Occupied(Swap(t, b, i, z))
    <3>1. Occupied(Swap(t, b, i, z)) = (Occupied(t) \ {SlotAt(b, i)}) \cup {SlotAt(b, z)}
      BY <2>1, <2>3, <2>4, SwapKeeps
    <3>2. SlotAt(b, i) \in Occupied(t)
      BY <2>1, <2>3 DEF TableInv, Agree
    <3> QED
      BY <2>1, <2>3, <3>1, <3>2
  <2> QED
    BY <1>2, <2>2, <2>3, <2>5, <2>6 DEF Hopping
<1> QED
  BY <1>1, <1>2

(* The rounds of HopLoop.                                                  *)
HopRounds(T, h) ==
  LET after[n \in Nat] ==
        IF n = 0 THEN [table |-> T, d |-> Probe(T, h)]
        ELSE Hopped(after[n - 1].table, h, after[n - 1].d)
  IN  after

HopsFrom(T, h, at) ==
  at = [ n \in Nat |-> IF n = 0 THEN [table |-> T, d |-> Probe(T, h)]
                       ELSE Hopped(at[n - 1].table, h, at[n - 1].d) ]

(* After each round a free slot is held, and the loop has ended or the     *)
(* slot is one nearer for each round.                                      *)
LEMMA HopRoundsKeep ==
  ASSUME NEW T, NEW h \in Slot, Sound(T), Probe(T, h) # NoDistance
  PROVE  \A n \in Nat :
           LET at == HopRounds(T, h)[n]
           IN  /\ Hopping(at.table, at.d, h, Filed(T))
               /\ Settled(at.table, at.d, h) \/ at.d + n < N
<1> DEFINE D == { a \in [table : Tables, d : 0 .. N - 1] : Hopping(a.table, a.d, h, Filed(T)) }
           x == [table |-> T, d |-> Probe(T, h)]
           f == [ a \in D |-> Hopped(a.table, h, a.d) ]
           g == HopRounds(T, h)
<1>1. x \in D
  BY ProbeFinds DEF Hopping, Sound, TableInv
<1>2. \A a \in D : /\ Hopped(a.table, h, a.d) \in D
                   /\ Hopped(a.table, h, a.d)
                        = [table |-> Hopped(a.table, h, a.d).table, d |-> Hopped(a.table, h, a.d).d]
  <2> TAKE a \in D
  <2> DEFINE r == Hopped(a.table, h, a.d)
  <2>1. Hopping(r.table, r.d, h, Filed(T))
    BY HoppedKeeps
  <2>2. r = [table |-> r.table, d |-> r.d]
    BY DEF Hopped
  <2>3. r.table \in Tables /\ r.d \in 0 .. N - 1
    BY <2>1 DEF Hopping, Sound, TableInv
  <2> QED
    BY <2>1, <2>2, <2>3
<1>3. f \in [D -> D]
  BY <1>2
<1>4. \E at : HopsFrom(T, h, at)
  <2>1. PICK at \in [Nat -> D] : \A n \in Nat : at[n] = IF n = 0 THEN x ELSE f[at[n - 1]]
    <3> HIDE DEF D, x, f
    <3> QED
      BY <1>1, <1>3, LoopRuns
  <2>2. \A n \in Nat : at[n] = IF n = 0 THEN x ELSE Hopped(at[n - 1].table, h, at[n - 1].d)
    <3> TAKE n \in Nat
    <3>1. n # 0 => n - 1 \in Nat /\ at[n - 1] \in D
      BY <2>1
    <3> HIDE DEF D
    <3> QED
      BY <2>1, <3>1
  <2>3. at = [ n \in Nat |-> at[n] ]
    BY <2>1
  <2> HIDE DEF D
  <2> QED
    BY <2>2, <2>3 DEF HopsFrom
<1>5. HopsFrom(T, h, g)
  BY <1>4 DEF HopRounds, HopsFrom
<1> HIDE DEF g
<1>6. g[0] = x /\ \A n \in Nat : g[n + 1] = Hopped(g[n].table, h, g[n].d)
  BY <1>5 DEF HopsFrom
<1> DEFINE P == { n \in Nat : /\ Hopping(g[n].table, g[n].d, h, Filed(T))
                              /\ Settled(g[n].table, g[n].d, h) \/ g[n].d + n < N }
<1>7. 0 \in P
  BY <1>1, <1>6, TableAssumption
<1>8. ASSUME NEW n \in P PROVE n + 1 \in P
  <2> DEFINE t == g[n].table
             d == g[n].d
             u == g[n + 1].table
             e == g[n + 1].d
  <2>1. g[n + 1] = Hopped(t, h, d)
    BY <1>6
  <2>2. n \in Nat /\ Hopping(t, d, h, Filed(T)) /\ (Settled(t, d, h) \/ d + n < N)
    BY <1>8
  <2> HIDE DEF t, d, P
  <2>3. Hopping(u, e, h, Filed(T))
    BY <2>1, <2>2, HoppedKeeps
  <2>4. Settled(u, e, h) \/ e + (n + 1) < N
    <3>1. CASE Settled(t, d, h)
      BY <2>1, <2>2, <3>1, HoppedKeeps
    <3>2. CASE ~ Settled(t, d, h)
      <4>1. e < d
        BY <2>1, <2>2, <3>2, HoppedKeeps
      <4>2. d \in 0 .. N - 1 /\ e \in 0 .. N - 1
        BY <2>2, <2>3 DEF Hopping
      <4> HIDE DEF e
      <4> QED
        BY <2>2, <3>2, <4>1, <4>2, TableAssumption
    <3> QED
      BY <3>1, <3>2
  <2> QED
    BY <2>2, <2>3, <2>4 DEF P
<1> HIDE DEF P
<1>9. P = Nat
  <2>1. P \in SUBSET Nat
    BY DEF P
  <2> QED
    BY <1>7, <1>8, <2>1, EveryRound
<1> QED
  BY <1>9 DEF P, g

(* Where the loop ends: N rounds are enough, and nothing was lost on the   *)
(* way, also when the store is given up.                                   *)
LEMMA HopLoopEnds ==
  ASSUME NEW T, NEW h \in Slot, Sound(T), Probe(T, h) # NoDistance
  PROVE  /\ Hopping(HopLoop(T, h).table, HopLoop(T, h).d, h, Filed(T))
         /\ Settled(HopLoop(T, h).table, HopLoop(T, h).d, h)
<1>1. HopLoop(T, h) = HopRounds(T, h)[N]
  BY DEF HopLoop, HopRounds
<1> DEFINE at == HopRounds(T, h)[N]
<1>2. N \in Nat
  BY TableAssumption
<1>3. /\ Hopping(at.table, at.d, h, Filed(T))
      /\ Settled(at.table, at.d, h) \/ at.d + N < N
  BY <1>2, HopRoundsKeep
<1> HIDE DEF at
<1>4. at.d \in 0 .. N - 1
  BY <1>3 DEF Hopping
<1>5. ~ (at.d + N < N)
  BY <1>2, <1>4
<1> QED
  BY <1>1, <1>3, <1>5 DEF at

(* A key is accepted and filed, or refused and the table as good as it was *)
(* before, wherever the hops have moved its entries.                       *)
LEMMA StoreFiles ==
  ASSUME NEW T, Sound(T), NEW k \in Word \X Word, NEW s \in Word \ {0},
         <<Home(k[2]), [val |-> s, key |-> k[1]]>> \notin Filed(T)
  PROVE  LET r == store_in_hash(T, k, s)
         IN  /\ Sound(r.table)
             /\ ~ r.ok => Filed(r.table) = Filed(T)
             /\ r.ok => Filed(r.table)
                          = Filed(T) \cup {<<Home(k[2]), [val |-> s, key |-> k[1]]>>}
<1> DEFINE h == Home(k[2])
           e == [val |-> s, key |-> k[1]]
           end == HopLoop(T, h)
           r == store_in_hash(T, k, s)
<1>1. h \in Slot /\ e \in Entry /\ e # FreeSlot
  BY HomeFacts DEF Entry, FreeSlot
<1>2. CASE ~ HasRoom(T, h)
  BY <1>2 DEF store_in_hash
<1>3. CASE HasRoom(T, h)
  <2>1. Hopping(end.table, end.d, h, Filed(T))
    BY <1>1, <1>3, HopLoopEnds DEF HasRoom
  <2>2. CASE end.d >= K
    <3>1. r = [ok |-> FALSE, table |-> end.table]
      BY <1>3, <2>2 DEF store_in_hash
    <3> QED
      BY <2>1, <3>1 DEF Hopping
  <2>3. CASE ~ (end.d >= K)
    <3>1. r = [ok |-> TRUE, table |-> Place(end.table, h, end.d, e)]
      BY <1>3, <2>3 DEF store_in_hash
    <3> HIDE DEF h, e, end
    <3>2. /\ Sound(end.table) /\ Filed(end.table) = Filed(T)
          /\ end.d \in 0 .. N - 1 /\ SlotAt(h, end.d) \notin Occupied(end.table)
      BY <2>1 DEF Hopping
    <3>3. end.d < K
      BY <2>3, <3>2, TableAssumption
    <3>4. <<h, e>> \notin Filed(end.table)
      BY <3>2 DEF h, e
    <3>5. /\ Sound(Place(end.table, h, end.d, e))
          /\ Filed(Place(end.table, h, end.d, e)) = Filed(T) \cup {<<h, e>>}
      BY <1>1, <3>2, <3>3, <3>4, PlaceFiles
    <3> QED
      BY <3>1, <3>5 DEF h, e
  <2> QED
    BY <2>2, <2>3
<1> QED
  BY <1>2, <1>3

-----------------------------------------------------------------------------
(* The LRU and its table.                                                  *)

(* What the callers are asked: to store a key only while no element has    *)
(* it, and to use keys that the table can tell apart.                      *)
Callers == FreshKeys /\ KeysApart

(* What the table keeps for element s with hash k.                         *)
File(s, k) == <<Home(k[2]), [val |-> s, key |-> k[1]]>>

(* Each element has a key of its own, every entry of the table is that of  *)
(* a stored element, and every stored element has one that is not in F.    *)
Good(S, F) ==
  /\ S \in Regions /\ LinksOK(S.links) /\ Sound(S.table)
  /\ \A s \in Stored(S) : S.hash[s] \in Keys
  /\ \A s, t \in Stored(S) : S.hash[s] = S.hash[t] => s = t
  /\ \A f \in Filed(S.table) : \E s \in Stored(S) : f = File(s, S.hash[s])
  /\ \A s \in Stored(S) \ F : File(s, S.hash[s]) \in Filed(S.table)

LEMMA KeyFacts ==
  ASSUME Callers, NEW k \in Keys
  PROVE  /\ k \in Word \X Word /\ k = <<k[1], k[2]>>
         /\ k[1] \in Word \ {0} /\ k[2] \in Word
         /\ k[2] + K <= MaxWord + 1 /\ Home(k[2]) \in Slot
<1>1. k \in Word \X Word
  BY SlabAssumption DEF Keys, SetKey, ManyKey
<1>2. k[1] \in Word /\ k[2] \in Word /\ k = <<k[1], k[2]>>
  BY <1>1
<1> QED
  BY <1>1, <1>2, HomeFacts DEF Callers, KeysApart

LEMMA FileFacts ==
  ASSUME Callers, NEW s \in Elements, NEW k \in Keys
  PROVE  /\ s \in Word \ {0}
         /\ File(s, k) \in Slot \X Entry
         /\ File(s, k)[1] = Home(k[2]) /\ File(s, k)[2].val = s /\ File(s, k)[2].key = k[1]
         /\ \A t \in Elements, l \in Keys : File(s, k) = File(t, l) => s = t /\ k = l
<1>1. s \in Word \ {0}
  BY SlabAssumption, RegionAssumption DEF Elements
<1>2. File(s, k) \in Slot \X Entry
  BY <1>1, KeyFacts DEF File, Entry
<1>3. \A t, l : /\ File(t, l)[1] = Home(l[2]) /\ File(t, l)[2].val = t
                /\ File(t, l)[2].key = l[1]
  BY DEF File
<1>4. \A t \in Elements, l \in Keys : File(s, k) = File(t, l) => s = t /\ k = l
  <2> TAKE t \in Elements, l \in Keys
  <2> HAVE File(s, k) = File(t, l)
  <2>1. s = t /\ k[1] = l[1] /\ Home(k[2]) = Home(l[2])
    BY <1>3
  <2> QED
    BY <2>1 DEF Callers, KeysApart
<1> QED
  BY <1>1, <1>2, <1>3, <1>4

LEMMA StoredFacts ==
  ASSUME NEW S, S \in Regions
  PROVE  /\ Stored(S) \in SUBSET Elements
         /\ S.links \in Links /\ S.hash \in [Elements -> Word \X Word] /\ S.table \in Tables
         /\ S = [links |-> S.links, hash |-> S.hash, table |-> S.table]
         /\ \A s \in Elements : s \in Stored(S) <=> S.links.prev[s] # NIL
BY DEF Stored, Allocated, Regions

(* A lookup under a key of a stored element or of none, as del_key and     *)
(* get_el_hash may make with any words: it leads to a stored element.      *)
LEMMA LookupStored ==
  ASSUME Callers, NEW S, NEW F, Good(S, F), NEW b \in Word, NEW k, Lookup(S.table, b, k) # 0
  PROVE  Lookup(S.table, b, k) \in Stored(S)
<1>1. PICK f \in Filed(S.table) : Lookup(S.table, b, k) = f[2].val
  BY LookupAny DEF Good, Sound
<1>2. PICK s \in Stored(S) : f = File(s, S.hash[s])
  BY DEF Good
<1>3. s = f[2].val
  BY <1>2 DEF File
<1> QED
  BY <1>1, <1>2, <1>3

(* Fewer of the stored elements are forgotten.                             *)
LEMMA GoodWeaker ==
  ASSUME NEW S, NEW F, Good(S, F), NEW G, F \cap Stored(S) \subseteq G
  PROVE  Good(S, G)
BY DEF Good

-----------------------------------------------------------------------------
(* The methods.                                                            *)

(* touch moves an element in the list and changes nothing else.            *)
LEMMA TouchGood ==
  ASSUME NEW S, NEW F, Good(S, F), NEW s \in Elements
  PROVE  Good(touch(S, s), F) /\ Stored(touch(S, s)) = Stored(S)
<1>1. CASE S.links.prev[s] = NIL
  BY <1>1 DEF touch
<1>2. CASE S.links.prev[s] # NIL
  <2>1. S \in Regions /\ LinksOK(S.links)
    BY DEF Good
  <2>2. s \in Allocated(S.links)
    BY <1>2 DEF Allocated
  <2> DEFINE L == TouchLinks(S.links, s)
             U == [links |-> L, hash |-> S.hash, table |-> S.table]
  <2>3. touch(S, s) = U
    BY <1>2, <2>1, StoredFacts DEF touch, Regions
  <2>4. LinksOK(L) /\ Allocated(L) = Allocated(S.links)
    BY <2>1, <2>2, TouchKeeps
  <2> HIDE DEF L
  <2>5. Stored(U) = Stored(S) /\ U \in Regions
    BY <2>1, <2>4 DEF Stored, Regions, LinksOK
  <2>6. U.links = L /\ U.hash = S.hash /\ U.table = S.table
    OBVIOUS
  <2> HIDE DEF U
  <2>7. Good(U, F)
    BY <2>4, <2>5, <2>6 DEF Good
  <2> QED
    BY <2>3, <2>5, <2>7
<1> QED
  BY <1>1, <1>2

(* add_el gives a new key the first free element and an entry, or refuses  *)
(* it and leaves the elements alone.                                       *)
LEMMA AddGood ==
  ASSUME Callers, NEW S, NEW F, Good(S, F), NEW k \in Keys, k \notin HashesOf(S)
  PROVE  /\ Good(add_el(S, k), F)
         /\ HashesOf(add_el(S, k)) \subseteq HashesOf(S) \cup {k}
<1> DEFINE s == S.links.next[CtrlFree]
           r == store_in_hash(S.table, k, s)
<1>1. S \in Regions /\ LinksOK(S.links) /\ Sound(S.table)
  BY DEF Good
<1>2. CASE s = NIL
  BY <1>2 DEF add_el
<1>3. CASE s # NIL
  <2>1. /\ s \in FreeOf(S.links) /\ LinksOK(AddLinks(S.links))
        /\ Allocated(AddLinks(S.links)) = Allocated(S.links) \cup {s}
    BY <1>1, <1>3, AddKeeps
  <2>2. s \in Elements /\ s \notin Stored(S)
    BY <2>1 DEF FreeOf, Stored, Allocated
  <2>3. File(s, k) \notin Filed(S.table)
    <3>1. \A t \in Stored(S) : t \in Elements /\ S.hash[t] \in Keys
      BY <1>1, StoredFacts DEF Good
    <3> QED
      BY <2>2, <3>1, FileFacts DEF Good
  <2>4. /\ Sound(r.table)
        /\ ~ r.ok => Filed(r.table) = Filed(S.table)
        /\ r.ok => Filed(r.table) = Filed(S.table) \cup {File(s, k)}
    <3>1. s \in Word \ {0} /\ k \in Word \X Word
      BY <2>2, KeyFacts, FileFacts
    <3> HIDE DEF s
    <3> QED
      BY <1>1, <2>3, <3>1, StoreFiles DEF File
  <2> HIDE DEF s, r
  <2>5. CASE ~ r.ok
    <3> DEFINE U == [links |-> S.links, hash |-> S.hash, table |-> r.table]
    <3>1. add_el(S, k) = U
      BY <1>1, <1>3, <2>5 DEF add_el, r, s, Regions
    <3>2. U \in Regions /\ Stored(U) = Stored(S)
      BY <1>1, <2>4 DEF Regions, Stored, Sound, TableInv
    <3>3. U.links = S.links /\ U.hash = S.hash /\ U.table = r.table
      OBVIOUS
    <3> HIDE DEF U
    <3>4. Good(U, F) /\ HashesOf(U) = HashesOf(S)
      BY <2>4, <2>5, <3>2, <3>3 DEF Good, HashesOf
    <3> QED
      BY <3>1, <3>4
  <2>6. CASE r.ok
    <3> DEFINE L == AddLinks(S.links)
               g == [S.hash EXCEPT ![s] = k]
               U == [links |-> L, hash |-> g, table |-> r.table]
    <3>1. add_el(S, k) = U
      BY <1>3, <2>6 DEF add_el, r, s
    <3>2. /\ g \in [Elements -> Word \X Word] /\ g[s] = k
          /\ \A t \in Stored(S) : t # s /\ t \in Elements /\ g[t] = S.hash[t]
      BY <1>1, <2>2, StoredFacts, KeyFacts
    <3> HIDE DEF L, g
    <3>3. U \in Regions
      BY <2>1, <2>4, <3>2 DEF Regions, L, LinksOK, Sound, TableInv
    <3>4. Stored(U) = Stored(S) \cup {s}
      BY <2>1 DEF Stored, L
    <3>5. U.links = L /\ U.hash = g /\ U.table = r.table
      OBVIOUS
    <3> HIDE DEF U
    <3>6. \A t \in Stored(U) : U.hash[t] \in Keys
      BY <3>2, <3>4, <3>5 DEF Good
    <3>7. \A t, q \in Stored(U) : U.hash[t] = U.hash[q] => t = q
      BY <3>2, <3>4, <3>5 DEF Good, HashesOf
    <3>8. \A f \in Filed(U.table) : \E t \in Stored(U) : f = File(t, U.hash[t])
      <4> TAKE f \in Filed(U.table)
      <4>1. CASE f = File(s, k)
        BY <3>2, <3>4, <3>5, <4>1
      <4>2. CASE f \in Filed(S.table)
        <5>1. PICK t \in Stored(S) : f = File(t, S.hash[t])
          BY <4>2 DEF Good
        <5>2. t \in Stored(U) /\ U.hash[t] = S.hash[t]
          BY <3>2, <3>4, <3>5
        <5> QED
          BY <5>1, <5>2
      <4> QED
        BY <2>4, <2>6, <3>5, <4>1, <4>2
    <3>9. \A t \in Stored(U) \ F : File(t, U.hash[t]) \in Filed(U.table)
      <4> TAKE t \in Stored(U) \ F
      <4>1. CASE t = s
        BY <2>4, <2>6, <3>2, <3>5, <4>1
      <4>2. CASE t \in Stored(S)
        BY <2>4, <2>6, <3>2, <3>5, <4>2 DEF Good
      <4> QED
        BY <3>4, <4>1, <4>2
    <3>10. Good(U, F)
      BY <2>1, <2>4, <3>3, <3>5, <3>6, <3>7, <3>8, <3>9 DEF Good, L
    <3>11. HashesOf(U) \subseteq HashesOf(S) \cup {k}
      BY <3>2, <3>4, <3>5 DEF HashesOf
    <3> QED
      BY <3>1, <3>10, <3>11
  <2> QED
    BY <2>5, <2>6
<1> QED
  BY <1>2, <1>3

(* What a deletion takes out of the table: the entry of the element with   *)
(* that key, if there is one.                                              *)
LEMMA DeleteTakes ==
  ASSUME Callers, NEW S, NEW F, Good(S, F), NEW k \in Keys
  PROVE  /\ Sound(Delete(S.table, k[2], k[1]))
         /\ \A f : f \in Filed(Delete(S.table, k[2], k[1])) <=>
                     f \in Filed(S.table) /\ \A s \in Stored(S) : S.hash[s] = k => f # File(s, k)
<1> DEFINE t == S.table
           u == Delete(t, k[2], k[1])
           h == Home(k[2])
           Rest(f) == f \in Filed(t) /\ \A s \in Stored(S) : S.hash[s] = k => f # File(s, k)
<1>1. /\ Sound(u)
      /\ \/ Filed(u) = Filed(t) /\ Misses(t, k[2], k[1])
         \/ \E e \in Entry :
              /\ e.key = k[1] /\ <<h, e>> \in Filed(t)
              /\ Filed(u) = Filed(t) \ {<<h, e>>}
  <2>1. k[2] \in Word /\ k[2] + K <= MaxWord + 1 /\ k[1] \in Word \ {0} /\ Sound(t)
    BY KeyFacts DEF Good
  <2> QED
    BY <2>1, DeleteFiles
<1> HIDE DEF u
<1>2. \A s \in Stored(S) :
        /\ s \in Elements /\ S.hash[s] \in Keys
        /\ File(s, S.hash[s]) = <<Home(S.hash[s][2]), [val |-> s, key |-> S.hash[s][1]]>>
        /\ [val |-> s, key |-> S.hash[s][1]] \in Entry
  BY StoredFacts, FileFacts, KeyFacts DEF File, Entry, Good
<1>3. CASE Filed(u) = Filed(t) /\ Misses(t, k[2], k[1])
  <2>1. \A s \in Stored(S) : S.hash[s] = k => File(s, k) \notin Filed(t)
    BY <1>2, <1>3 DEF Misses
  <2> QED
    BY <1>1, <1>3, <2>1 DEF u
<1>4. CASE \E e \in Entry :
             /\ e.key = k[1] /\ <<h, e>> \in Filed(t)
             /\ Filed(u) = Filed(t) \ {<<h, e>>}
  <2>1. PICK e \in Entry : /\ e.key = k[1] /\ <<h, e>> \in Filed(t)
                           /\ Filed(u) = Filed(t) \ {<<h, e>>}
    BY <1>4
  <2>2. PICK s \in Stored(S) : <<h, e>> = File(s, S.hash[s])
    BY <2>1 DEF Good
  <2>3. h = Home(S.hash[s][2]) /\ e.key = S.hash[s][1]
    <3>1. /\ File(s, S.hash[s])[1] = Home(S.hash[s][2])
          /\ File(s, S.hash[s])[2].key = S.hash[s][1]
      BY <1>2, FileFacts
    <3> QED
      BY <2>2, <3>1
  <2>4. S.hash[s] = k
    BY <1>2, <2>1, <2>3 DEF Callers, KeysApart
  <2>5. \A q \in Stored(S) : S.hash[q] = k => q = s
    BY <2>4 DEF Good
  <2>6. \A f : f \in Filed(u) <=> Rest(f)
    BY <2>1, <2>2, <2>4, <2>5
  <2> QED
    BY <1>1, <2>6 DEF u
<1> QED
  BY <1>1, <1>3, <1>4

(* remove_key takes out the entry of the element that has the key, which   *)
(* is forgotten from then on.                                              *)
LEMMA RemoveGood ==
  ASSUME Callers, NEW S, NEW F, Good(S, F), NEW k \in Keys
  PROVE  Good(remove_key(S, k), F \cup { s \in Stored(S) : S.hash[s] = k })
<1> DEFINE u == Delete(S.table, k[2], k[1])
           U == [links |-> S.links, hash |-> S.hash, table |-> u]
           G == F \cup { s \in Stored(S) : S.hash[s] = k }
<1>1. S \in Regions
  BY DEF Good
<1>2. remove_key(S, k) = U
  BY <1>1 DEF remove_key, Regions
<1>3. /\ Sound(u)
      /\ \A f : f \in Filed(u) <=>
                  f \in Filed(S.table) /\ \A s \in Stored(S) : S.hash[s] = k => f # File(s, k)
  BY DeleteTakes
<1> HIDE DEF u
<1>4. U \in Regions /\ Stored(U) = Stored(S)
  BY <1>1, <1>3 DEF Regions, Stored, Sound, TableInv
<1>5. U.links = S.links /\ U.hash = S.hash /\ U.table = u
  OBVIOUS
<1> HIDE DEF U
<1>6. \A s \in Stored(S) \ G : File(s, S.hash[s]) \in Filed(u)
  <2> TAKE s \in Stored(S) \ G
  <2>1. File(s, S.hash[s]) \in Filed(S.table)
    BY DEF Good
  <2>2. \A t \in Stored(S) : S.hash[t] = k => t # s
    OBVIOUS
  <2>3. \A t \in Stored(S) : t \in Elements /\ S.hash[t] \in Keys
    BY <1>1, StoredFacts DEF Good
  <2> HIDE DEF G
  <2>4. \A t \in Stored(S) : S.hash[t] = k => File(s, S.hash[s]) # File(t, k)
    BY <2>2, <2>3, FileFacts
  <2> QED
    BY <1>3, <2>1, <2>4
<1>7. Good(U, G)
  <2>1. LinksOK(U.links) /\ Sound(U.table)
    BY <1>3, <1>5 DEF Good
  <2>2. \A s \in Stored(U) : U.hash[s] \in Keys
    BY <1>4, <1>5 DEF Good
  <2>3. \A s, t \in Stored(U) : U.hash[s] = U.hash[t] => s = t
    BY <1>4, <1>5 DEF Good
  <2>4. \A f \in Filed(U.table) : \E s \in Stored(U) : f = File(s, U.hash[s])
    BY <1>3, <1>4, <1>5 DEF Good
  <2>5. \A s \in Stored(U) \ G : File(s, U.hash[s]) \in Filed(U.table)
    BY <1>4, <1>5, <1>6
  <2> QED
    BY <1>4, <2>1, <2>2, <2>3, <2>4, <2>5 DEF Good
<1> QED
  BY <1>2, <1>7

(* del_el takes an element out of the list and its entry out of the table. *)
LEMMA DelGood ==
  ASSUME Callers, NEW S, NEW F, Good(S, F), NEW s \in Stored(S)
  PROVE  /\ Good(del_el(S, s), F)
         /\ Stored(del_el(S, s)) = Stored(S) \ {s}
         /\ \A t \in Stored(S) \ {s} : del_el(S, s).hash[t] = S.hash[t]
<1> DEFINE k == S.hash[s]
           L == DelLinks(S.links, s)
           g == [S.hash EXCEPT ![s] = Max64]
           u == Delete(S.table, k[2], k[1])
           U == [links |-> L, hash |-> g, table |-> u]
<1>1. S \in Regions /\ LinksOK(S.links) /\ Stored(S) \in SUBSET Elements /\ k \in Keys
  BY StoredFacts DEF Good
<1>2. del_el(S, s) = U
  BY DEF del_el, remove_key
<1>3. LinksOK(L) /\ Allocated(L) = Allocated(S.links) \ {s}
  BY <1>1, DelKeeps DEF Stored
<1>4. /\ g \in [Elements -> Word \X Word]
      /\ \A t \in Stored(S) \ {s} : g[t] = S.hash[t]
  <2>1. Max64 \in Word \X Word
    BY TableAssumption DEF Max64, Word
  <2> QED
    BY <1>1, <2>1, StoredFacts
<1>5. /\ Sound(u)
      /\ \A f : f \in Filed(u) <=>
                  f \in Filed(S.table) /\ \A t \in Stored(S) : S.hash[t] = k => f # File(t, k)
  BY <1>1, DeleteTakes
<1> HIDE DEF L, g, u
<1>6. U \in Regions /\ Stored(U) = Stored(S) \ {s}
  BY <1>3, <1>4, <1>5 DEF Regions, LinksOK, Sound, TableInv, Stored
<1>7. U.links = L /\ U.hash = g /\ U.table = u
  OBVIOUS
<1> HIDE DEF U
<1>8. \A t \in Stored(U) : U.hash[t] \in Keys
  BY <1>4, <1>6, <1>7 DEF Good
<1>9. \A t, q \in Stored(U) : U.hash[t] = U.hash[q] => t = q
  BY <1>4, <1>6, <1>7 DEF Good
<1>10. \A f \in Filed(U.table) : \E t \in Stored(U) : f = File(t, U.hash[t])
  <2> TAKE f \in Filed(U.table)
  <2>1. PICK t \in Stored(S) : f = File(t, S.hash[t])
    BY <1>5, <1>7 DEF Good
  <2>2. t # s
    BY <1>5, <1>7, <2>1
  <2> QED
    BY <1>4, <1>6, <1>7, <2>1, <2>2
<1>11. \A t \in Stored(U) \ F : File(t, U.hash[t]) \in Filed(U.table)
  <2> TAKE t \in Stored(U) \ F
  <2>1. t \in Stored(S) \ F /\ t # s /\ U.hash[t] = S.hash[t]
    BY <1>4, <1>6, <1>7
  <2>2. File(t, S.hash[t]) \in Filed(S.table)
    BY <2>1 DEF Good
  <2>3. \A q \in Stored(S) : S.hash[q] = k => q = s
    BY DEF Good
  <2>4. File(t, S.hash[t]) # File(s, k)
    <3>1. t \in Elements /\ S.hash[t] \in Keys
      BY <1>1, <2>1 DEF Good
    <3> HIDE DEF k
    <3> QED
      BY <1>1, <2>1, <3>1, FileFacts
  <2> HIDE DEF k
  <2>5. File(t, S.hash[t]) \in Filed(u)
    BY <1>5, <2>2, <2>3, <2>4
  <2> QED
    BY <1>7, <2>1, <2>5
<1>12. Good(U, F)
  BY <1>3, <1>5, <1>6, <1>7, <1>8, <1>9, <1>10, <1>11 DEF Good
<1>13. \A t \in Stored(S) \ {s} : U.hash[t] = S.hash[t]
  BY <1>4, <1>7
<1> QED
  BY <1>2, <1>6, <1>12, <1>13

(* set and one item of set_many, with a key no element has.                *)
LEMMA SetGood ==
  ASSUME Callers, NEW S, NEW F, Good(S, F), NEW k \in Keys, k \notin HashesOf(S)
  PROVE  Good(set_el(S, k), F)
<1>1. CASE check_for_hash(S.table, k) # 0
  <2>1. check_for_hash(S.table, k) \in Stored(S)
    BY <1>1, KeyFacts, LookupStored DEF check_for_hash
  <2>2. check_for_hash(S.table, k) \in Elements
    BY <2>1, StoredFacts DEF Good
  <2> QED
    BY <1>1, <2>2, TouchGood DEF set_el
<1>2. CASE check_for_hash(S.table, k) = 0
  BY <1>2, AddGood DEF set_el
<1> QED
  BY <1>1, <1>2

-----------------------------------------------------------------------------
(* Evictions.                                                              *)

(* What is left of S after the eviction of some of its elements.           *)
Remains(U, S) ==
  /\ Stored(U) \subseteq Stored(S)
  /\ \A s \in Stored(U) : U.hash[s] = S.hash[s]

(* A round of evict_least_used.                                            *)
EvictOne(U) == IF Oldest(U) = CtrlHdr THEN U ELSE del_el(U, Oldest(U))

EvictRounds(S) ==
  LET after[i \in Nat] ==
        IF i = 0 THEN S
        ELSE IF Oldest(after[i - 1]) = CtrlHdr THEN after[i - 1]
             ELSE del_el(after[i - 1], Oldest(after[i - 1]))
  IN  after

EvictsFrom(S, at) ==
  at = [ i \in Nat |-> IF i = 0 THEN S
                       ELSE IF Oldest(at[i - 1]) = CtrlHdr THEN at[i - 1]
                            ELSE del_el(at[i - 1], Oldest(at[i - 1])) ]

LEMMA EvictOneGood ==
  ASSUME Callers, NEW U, NEW F, Good(U, F)
  PROVE  Good(EvictOne(U), F) /\ Remains(EvictOne(U), U)
<1>1. CASE Oldest(U) = CtrlHdr
  BY <1>1 DEF EvictOne, Remains
<1>2. CASE Oldest(U) # CtrlHdr
  <2>1. Oldest(U) \in Stored(U)
    BY <1>2 DEF Oldest, Stored, Good, LinksOK, ListOver
  <2>2. EvictOne(U) = del_el(U, Oldest(U))
    BY <1>2 DEF EvictOne
  <2>3. /\ Good(del_el(U, Oldest(U)), F)
        /\ Stored(del_el(U, Oldest(U))) = Stored(U) \ {Oldest(U)}
        /\ \A t \in Stored(U) \ {Oldest(U)} : del_el(U, Oldest(U)).hash[t] = U.hash[t]
    BY <2>1, DelGood
  <2> QED
    BY <2>2, <2>3 DEF Remains
<1> QED
  BY <1>1, <1>2

LEMMA EvictGood ==
  ASSUME Callers, NEW S, NEW F, Good(S, F), NEW n \in Nat
  PROVE  Good(evict(S, n), F) /\ Remains(evict(S, n), S)
<1> DEFINE D == { U \in Regions : Good(U, F) /\ Remains(U, S) }
           f == [ U \in D |-> EvictOne(U) ]
           g == EvictRounds(S)
<1>1. S \in D
  BY DEF Remains, Good
<1>2. \A U \in D : EvictOne(U) \in D
  <2> TAKE U \in D
  <2>1. Good(EvictOne(U), F) /\ Remains(EvictOne(U), U)
    BY EvictOneGood
  <2>2. Remains(EvictOne(U), S)
    BY <2>1 DEF Remains
  <2> QED
    BY <2>1, <2>2 DEF Good
<1>3. f \in [D -> D]
  BY <1>2
<1>4. \E at : EvictsFrom(S, at)
  <2>1. PICK at \in [Nat -> D] : \A i \in Nat : at[i] = IF i = 0 THEN S ELSE f[at[i - 1]]
    <3> HIDE DEF D, f
    <3> QED
      BY <1>1, <1>3, LoopRuns
  <2>2. \A i \in Nat : at[i] = IF i = 0 THEN S ELSE EvictOne(at[i - 1])
    <3> TAKE i \in Nat
    <3>1. i # 0 => i - 1 \in Nat /\ at[i - 1] \in D
      BY <2>1
    <3> HIDE DEF D
    <3> QED
      BY <2>1, <3>1
  <2>3. at = [ i \in Nat |-> at[i] ]
    BY <2>1
  <2> HIDE DEF D
  <2> QED
    BY <2>2, <2>3 DEF EvictsFrom, EvictOne
<1>5. EvictsFrom(S, g)
  BY <1>4 DEF EvictRounds, EvictsFrom
<1> HIDE DEF g
<1>6. g[0] = S /\ \A i \in Nat : g[i + 1] = EvictOne(g[i])
  BY <1>5 DEF EvictsFrom, EvictOne
<1> DEFINE P == { i \in Nat : g[i] \in D }
<1> HIDE DEF D
<1>7. P = Nat
  <2>1. 0 \in P
    BY <1>1, <1>6
  <2>2. \A i \in P : i + 1 \in P
    BY <1>2, <1>6
  <2>3. P \in SUBSET Nat
    OBVIOUS
  <2> HIDE DEF P
  <2> QED
    BY <2>1, <2>2, <2>3, EveryRound
<1>8. g[n] \in D
  BY <1>7
<1>9. evict(S, n) = g[n]
  BY DEF evict, EvictRounds, g
<1> QED
  BY <1>8, <1>9 DEF D

(* The first key of a map is one of its keys.                              *)
LEMMA FirstKeyFacts ==
  ASSUME Callers, NEW L \in SUBSET Keys, L # {}
  PROVE  FirstKey(L) \in L
<1> DEFINE A == { k[1] : k \in L }
           high == Least(A)
           B == { k[2] : k \in { l \in L : l[1] = high } }
<1>1. \A k \in L : k[1] \in Nat /\ k[2] \in Nat /\ k = <<k[1], k[2]>>
  BY KeyFacts, TableAssumption DEF Word
<1>2. A \in SUBSET Nat /\ A # {} /\ B \in SUBSET Nat
  BY <1>1
<1>3. high \in A
  <2> HIDE DEF A
  <2> QED
    BY <1>2, LeastFacts
<1>4. B # {}
  BY <1>3
<1>5. Least(B) \in B
  <2> HIDE DEF B
  <2> QED
    BY <1>2, <1>4, LeastFacts
<1>6. PICK k \in L : k[1] = high /\ k[2] = Least(B)
  BY <1>5
<1>7. FirstKey(L) = <<high, Least(B)>>
  BY DEF FirstKey
<1> QED
  BY <1>1, <1>6, <1>7

(* A round of run_lru_eviction_move_values.                                *)
PutBack(U, k) == IF check_for_hash64(U.table, k) # 0 THEN U ELSE add_el(U, k)

MoveOne(a) ==
  IF a.left = {} THEN a
  ELSE [ to |-> PutBack(a.to, FirstKey(a.left)), left |-> a.left \ {FirstKey(a.left)} ]

Evicted(S, n) == { S.hash[s] : s \in Stored(S) \ Stored(evict(S, n)) }

MoveRounds(S, n) ==
  LET left == { S.hash[s] : s \in Stored(S) \ Stored(evict(S, n)) }
      back(U, k) == IF check_for_hash64(U.table, k) # 0 THEN U ELSE add_el(U, k)
      after[i \in Nat] ==
        IF i = 0 THEN [to |-> evict(S, n), left |-> left]
        ELSE IF after[i - 1].left = {} THEN after[i - 1]
             ELSE LET k == FirstKey(after[i - 1].left)
                  IN  [ to |-> back(after[i - 1].to, k), left |-> after[i - 1].left \ {k} ]
  IN  after

MovesFrom(S, n, at) ==
  at = [ i \in Nat |->
           IF i = 0 THEN [to |-> evict(S, n), left |-> Evicted(S, n)]
           ELSE IF at[i - 1].left = {} THEN at[i - 1]
                ELSE LET k == FirstKey(at[i - 1].left)
                     IN  [ to |-> PutBack(at[i - 1].to, k), left |-> at[i - 1].left \ {k} ] ]

(* The keys still to be put back are of no element.                        *)
Moving(a, F) ==
  /\ Good(a.to, F)
  /\ a.left \in SUBSET Keys /\ a.left \cap HashesOf(a.to) = {}

LEMMA MoveOneGood ==
  ASSUME Callers, NEW a, NEW F, Moving(a, F)
  PROVE  Moving(MoveOne(a), F)
<1>1. CASE a.left = {}
  BY <1>1 DEF MoveOne
<1>2. CASE a.left # {}
  <2> DEFINE k == FirstKey(a.left)
             U == PutBack(a.to, k)
             b == [to |-> U, left |-> a.left \ {k}]
  <2>1. k \in a.left /\ k \in Keys /\ k \notin HashesOf(a.to) /\ Good(a.to, F)
    BY <1>2, FirstKeyFacts DEF Moving
  <2> HIDE DEF k
  <2>2. Good(U, F) /\ HashesOf(U) \subseteq HashesOf(a.to) \cup {k}
    BY <2>1, AddGood DEF PutBack
  <2>3. MoveOne(a) = b
    BY <1>2 DEF MoveOne, k
  <2> HIDE DEF U
  <2>4. b.to = U /\ b.left = a.left \ {k}
    OBVIOUS
  <2> HIDE DEF b
  <2>5. b.left \in SUBSET Keys /\ b.left \cap HashesOf(b.to) = {}
    BY <2>2, <2>4 DEF Moving
  <2>6. Moving(b, F)
    BY <2>2, <2>4, <2>5 DEF Moving
  <2> QED
    BY <2>3, <2>6
<1> QED
  BY <1>1, <1>2

LEMMA MoveGood ==
  ASSUME Callers, NEW S, NEW F, Good(S, F), NEW n \in Nat
  PROVE  Good(move_values(S, n), F \cap Stored(evict(S, n)))
<1> DEFINE G == F \cap Stored(evict(S, n))
           D == { a \in [to : Regions, left : SUBSET Keys] : Moving(a, G) }
           x == [to |-> evict(S, n), left |-> Evicted(S, n)]
           f == [ a \in D |-> MoveOne(a) ]
           g == MoveRounds(S, n)
<1>1. x \in D
  <2>1. Good(evict(S, n), F) /\ Remains(evict(S, n), S)
    BY EvictGood
  <2>2. Good(evict(S, n), G)
    BY <2>1, GoodWeaker
  <2>3. Evicted(S, n) \in SUBSET Keys
    BY DEF Evicted, Good
  <2>4. Evicted(S, n) \cap HashesOf(evict(S, n)) = {}
    <3> SUFFICES ASSUME NEW k \in Evicted(S, n), k \in HashesOf(evict(S, n)) PROVE FALSE
      OBVIOUS
    <3>1. PICK s \in Stored(S) \ Stored(evict(S, n)) : k = S.hash[s]
      BY DEF Evicted
    <3>2. PICK t \in Stored(evict(S, n)) : k = evict(S, n).hash[t]
      BY DEF HashesOf
    <3>3. t \in Stored(S) /\ k = S.hash[t]
      BY <2>1, <3>2 DEF Remains
    <3> QED
      BY <3>1, <3>3 DEF Good
  <2> HIDE DEF G
  <2>5. Moving(x, G) /\ x \in [to : Regions, left : SUBSET Keys]
    BY <2>2, <2>3, <2>4 DEF Moving, Good
  <2> QED
    BY <2>5
<1> HIDE DEF G
<1>2. \A a \in D : MoveOne(a) \in D
  <2> TAKE a \in D
  <2>1. Moving(MoveOne(a), G)
    BY MoveOneGood
  <2>2. MoveOne(a) \in [to : Regions, left : SUBSET Keys]
    <3>1. CASE a.left = {}
      BY <3>1 DEF MoveOne
    <3>2. CASE a.left # {}
      <4>1. MoveOne(a) = [to |-> MoveOne(a).to, left |-> MoveOne(a).left]
        BY <3>2 DEF MoveOne
      <4>2. MoveOne(a).to \in Regions /\ MoveOne(a).left \in SUBSET Keys
        BY <2>1 DEF Moving, Good
      <4> QED
        BY <4>1, <4>2
    <3> QED
      BY <3>1, <3>2
  <2> QED
    BY <2>1, <2>2
<1>3. f \in [D -> D]
  BY <1>2
<1>4. \E at : MovesFrom(S, n, at)
  <2>1. PICK at \in [Nat -> D] : \A i \in Nat : at[i] = IF i = 0 THEN x ELSE f[at[i - 1]]
    <3> HIDE DEF D, f, x
    <3> QED
      BY <1>1, <1>3, LoopRuns
  <2>2. \A i \in Nat : at[i] = IF i = 0 THEN x ELSE MoveOne(at[i - 1])
    <3> TAKE i \in Nat
    <3>1. i # 0 => i - 1 \in Nat /\ at[i - 1] \in D
      BY <2>1
    <3> HIDE DEF D, x
    <3> QED
      BY <2>1, <3>1
  <2>3. at = [ i \in Nat |-> at[i] ]
    BY <2>1
  <2> HIDE DEF D
  <2> QED
    BY <2>2, <2>3 DEF MovesFrom, MoveOne
<1>5. MovesFrom(S, n, g)
  BY <1>4 DEF MoveRounds, MovesFrom, PutBack, Evicted
<1> HIDE DEF g
<1>6. g[0] = x /\ \A i \in Nat : g[i + 1] = MoveOne(g[i])
  <2>1. \A i \in Nat : g[i] = IF i = 0 THEN x ELSE MoveOne(g[i - 1])
    BY <1>5 DEF MovesFrom, MoveOne
  <2>2. \A i \in Nat : i + 1 \in Nat /\ i + 1 # 0 /\ (i + 1) - 1 = i
    OBVIOUS
  <2> HIDE DEF x
  <2> QED
    BY <2>1, <2>2
<1> DEFINE P == { i \in Nat : g[i] \in D }
<1> HIDE DEF D, x
<1>7. P = Nat
  <2>1. 0 \in P
    BY <1>1, <1>6
  <2>2. \A i \in P : i + 1 \in P
    BY <1>2, <1>6
  <2>3. P \in SUBSET Nat
    OBVIOUS
  <2> HIDE DEF P
  <2> QED
    BY <2>1, <2>2, <2>3, EveryRound
<1>8. Cardinality(Evicted(S, n)) \in Nat
  <2> DEFINE A == Stored(S) \ Stored(evict(S, n))
             e == [ s \in A |-> S.hash[s] ]
  <2>1. IsFiniteSet(A)
    BY ElementsFinite, StoredFacts DEF Good
  <2>2. e \in Surjection(A, Evicted(S, n))
    BY DEF Evicted, Surjection
  <2> HIDE DEF A, e
  <2>3. IsFiniteSet(Evicted(S, n))
    BY <2>1, <2>2, FS_Surjection
  <2> QED
    BY <2>3, FS_CardinalityType
<1>9. g[Cardinality(Evicted(S, n))] \in D
  BY <1>7, <1>8
<1>10. move_values(S, n) = g[Cardinality(Evicted(S, n))].to
  BY DEF move_values, MoveRounds, Evicted, g
<1> QED
  BY <1>9, <1>10 DEF D, Moving, G

-----------------------------------------------------------------------------
(* The calls.                                                              *)

(* What makes the properties of Slab last.                                 *)
SlabInv == Good(R, forgotten) /\ forgotten \subseteq Elements

LEMMA SlabInit == Init => SlabInv
<1> SUFFICES ASSUME Init PROVE SlabInv
  OBVIOUS
<1>1. LinksOK(R.links) /\ Stored(R) = {}
  BY SetupKeeps DEF Init, Stored
<1>2. Sound(R.table) /\ Filed(R.table) = {}
  BY EmptyFiles DEF Init
<1>3. R \in Regions
  <2>1. Max64 \in Word \X Word
    BY TableAssumption DEF Max64, Word
  <2>2. [ s \in Elements |-> Max64 ] \in [Elements -> Word \X Word]
    BY <2>1
  <2>3. R = [ links |-> R.links, hash |-> [ s \in Elements |-> Max64 ], table |-> R.table ]
    BY DEF Init
  <2>4. R.links \in Links /\ R.table \in Tables
    BY <1>1, <1>2 DEF LinksOK, Sound, TableInv
  <2> QED
    BY <2>2, <2>3, <2>4 DEF Regions
<1> QED
  BY <1>1, <1>2, <1>3 DEF SlabInv, Good, Init

LEMMA BecomesKeeps ==
  ASSUME NEW S, Good(S, forgotten), Becomes(S)
  PROVE  SlabInv'
<1>1. Good(S, forgotten \cap Stored(S))
  BY GoodWeaker
<1>2. Stored(S) \subseteq Elements
  BY StoredFacts DEF Good
<1> QED
  BY <1>1, <1>2 DEF Becomes, SlabInv

LEMMA SlabStep == ASSUME Callers PROVE SlabInv /\ [Next]_vars => SlabInv'
<1> SUFFICES ASSUME SlabInv, [Next]_vars PROVE SlabInv'
  OBVIOUS
<1>1. Good(R, forgotten) /\ R \in Regions /\ Stored(R) \subseteq Elements
  BY StoredFacts DEF SlabInv, Good
<1>2. CASE UNCHANGED vars
  BY <1>2 DEF vars, SlabInv
<1>3. ASSUME NEW p \in SetPairs, SetEl(p) PROVE SlabInv'
  <2>1. SetKey(p) \in Keys /\ SetKey(p) \notin HashesOf(R)
    BY <1>3 DEF SetEl, Storing, Callers, Keys
  <2> QED
    BY <1>1, <1>3, <2>1, SetGood, BecomesKeeps DEF SetEl
<1>4. ASSUME NEW p \in ManyPairs, SetMany(p) PROVE SlabInv'
  <2>1. ManyKey(p) \in Keys /\ ManyKey(p) \notin HashesOf(R)
    BY <1>4 DEF SetMany, Storing, Callers, Keys
  <2> QED
    BY <1>1, <1>4, <2>1, SetGood, BecomesKeeps DEF SetMany
<1>5. ASSUME NEW p \in SetPairs, RemoveKey(p) PROVE SlabInv'
  <2>1. SetKey(p) \in Keys
    BY DEF Keys
  <2>2. Good(remove_key(R, SetKey(p)), forgotten \cup { s \in Stored(R) : R.hash[s] = SetKey(p) })
    BY <1>1, <2>1, RemoveGood
  <2> QED
    BY <1>1, <1>5, <2>2 DEF RemoveKey, SlabInv
<1>6. ASSUME NEW p \in SetPairs \cup ManyPairs, GetElHash(p) PROVE SlabInv'
  <2>1. check_for_hash(R.table, p) # 0 /\ Becomes(touch(R, check_for_hash(R.table, p)))
    BY <1>6 DEF GetElHash
  <2>2. p[1] \in Word
    BY SlabAssumption
  <2>3. check_for_hash(R.table, p) \in Elements
    BY <1>1, <2>1, <2>2, LookupStored DEF check_for_hash
  <2> QED
    BY <1>1, <2>1, <2>3, TouchGood, BecomesKeeps
<1>7. ASSUME NEW s, DelEl(s) PROVE SlabInv'
  BY <1>1, <1>7, DelGood, BecomesKeeps DEF DelEl
<1>8. ASSUME NEW p \in SetPairs \cup ManyPairs, DelKey(p) PROVE SlabInv'
  BY <1>7, <1>8 DEF DelKey
<1>9. ASSUME NEW s \in Elements, GetEl(s) PROVE SlabInv'
  BY <1>1, <1>9, TouchGood, BecomesKeeps DEF GetEl
<1>10. ASSUME NEW n \in 1 .. MaxEvict, Evict(n) PROVE SlabInv'
  <2>1. n \in Nat
    BY SlabAssumption
  <2> QED
    BY <1>1, <1>10, <2>1, EvictGood, BecomesKeeps DEF Evict
<1>11. ASSUME NEW n \in 1 .. MaxEvict, MoveValues(n) PROVE SlabInv'
  <2>1. n \in Nat
    BY SlabAssumption
  <2>2. Good(move_values(R, n), forgotten \cap Stored(evict(R, n)))
    BY <1>1, <2>1, MoveGood
  <2> QED
    BY <1>11, <2>2 DEF MoveValues, SlabInv
<1>12. CASE ReloadHashMap
  <2> DEFINE U == [links |-> R.links, hash |-> R.hash, table |-> EmptyTable]
  <2>1. R' = U /\ forgotten' = Stored(R)
    BY <1>1, <1>12 DEF ReloadHashMap, Regions
  <2>2. Sound(EmptyTable) /\ Filed(EmptyTable) = {} /\ EmptyTable \in Tables
    BY EmptyFiles DEF Sound, TableInv
  <2>3. U \in Regions /\ Stored(U) = Stored(R)
    BY <1>1, <2>2 DEF Regions, Stored
  <2>4. U.links = R.links /\ U.hash = R.hash /\ U.table = EmptyTable
    OBVIOUS
  <2> HIDE DEF U
  <2>5. Good(U, Stored(R))
    BY <1>1, <2>2, <2>3, <2>4 DEF Good
  <2> QED
    BY <1>1, <2>1, <2>5 DEF SlabInv
<1> QED
  BY <1>2, <1>3, <1>4, <1>5, <1>6, <1>7, <1>8, <1>9, <1>10, <1>11, <1>12 DEF Next

(* The invariant of the two segments.                                      *)
THEOREM SlabAlways == ASSUME Callers PROVE Spec => []SlabInv
BY SlabInit, SlabStep, PTL DEF Spec

(* The links, the hashes and the words of the table have their types, the  *)
(* counter of the table never leaves 0 .. N, whatever calls the processes  *)
(* make of the LRU, its evictions and its table.                           *)
THEOREM TypesCorrect == ASSUME Callers PROVE Spec => []TypeOK
<1>1. SlabInv => TypeOK
  BY DEF SlabInv, Good, TypeOK
<1> QED
  BY <1>1, SlabAlways, PTL

(* No lookup leads to a free element or to another key's value: whichever  *)
(* entry a bucket claims is that of a stored element with its hash, and no *)
(* element has two, wherever hops have moved them and whatever stores were *)
(* refused half way.                                                       *)
THEOREM EveryEntryLeadsHome == ASSUME Callers PROVE Spec => []EntriesStored
<1>1. SlabInv => EntriesStored
  <2> SUFFICES ASSUME SlabInv PROVE EntriesStored
    OBVIOUS
  <2> DEFINE T == R.table
             at(c) == T.V[SlotAt(c[1], c[2])]
  <2>1. Good(R, forgotten) /\ Sound(T) /\ TableInv(T)
    BY DEF SlabInv, Good, Sound
  <2>2. \A c \in Claimed(T) :
          /\ c[1] \in Slot /\ c[2] \in T.H[c[1]] /\ c = <<c[1], c[2]>>
          /\ at(c) \in Entry /\ c[2] \in Places(T, c[1], at(c)) /\ <<c[1], at(c)>> \in Filed(T)
    <3> TAKE c \in Claimed(T)
    <3>1. c[1] \in Slot /\ c[2] \in T.H[c[1]] /\ c = <<c[1], c[2]>>
      BY DEF Claimed
    <3>2. SlotAt(c[1], c[2]) \in Slot
      BY <2>1, <3>1, BitFacts
    <3>3. at(c) \in Entry
      BY <2>1, <3>2 DEF TableInv, Tables
    <3>4. c[2] \in Places(T, c[1], at(c))
      BY <3>1 DEF Places
    <3> QED
      BY <3>1, <3>3, <3>4, FiledIs
  <2>3. \A c \in Claimed(T) : \E s \in Stored(R) : <<c[1], at(c)>> = File(s, R.hash[s])
    BY <2>1, <2>2 DEF Good
  <2>4. \A c \in Claimed(T) :
          /\ at(c).val \in Stored(R)
          /\ <<c[1], at(c)>> = File(at(c).val, R.hash[at(c).val])
          /\ R.hash[at(c).val][1] = at(c).key
          /\ Home(R.hash[at(c).val][2]) = c[1]
    <3> TAKE c \in Claimed(T)
    <3>1. PICK s \in Stored(R) : <<c[1], at(c)>> = File(s, R.hash[s])
      BY <2>3
    <3>2. c[1] = Home(R.hash[s][2]) /\ at(c) = [val |-> s, key |-> R.hash[s][1]]
      BY <3>1 DEF File
    <3>3. at(c).val = s /\ at(c).key = R.hash[s][1]
      BY <3>2
    <3> QED
      BY <3>1, <3>2, <3>3
  <2>5. \A c, e \in Claimed(T) : at(c).val = at(e).val => c = e
    <3> SUFFICES ASSUME NEW c \in Claimed(T), NEW e \in Claimed(T), at(c).val = at(e).val
                 PROVE  c = e
      OBVIOUS
    <3>1. <<c[1], at(c)>> = <<e[1], at(e)>>
      BY <2>4
    <3>2. c[1] = e[1] /\ at(c) = at(e)
      BY <3>1
    <3>3. \A i, j \in Places(T, c[1], at(c)) : i = j
      BY <2>1, <2>2 DEF Sound, Once
    <3>4. c[2] \in Places(T, c[1], at(c)) /\ e[2] \in Places(T, c[1], at(c))
      BY <2>2, <3>2
    <3>5. c[2] = e[2] /\ c = <<c[1], c[2]>> /\ e = <<e[1], e[2]>>
      BY <2>2, <3>3, <3>4
    <3> QED
      BY <3>2, <3>5
  <2> QED
    BY <2>4, <2>5 DEF EntriesStored
<1> QED
  BY <1>1, SlabAlways, PTL

(* Every element in the list is found under its 64-bit hash (the lookup    *)
(* of move_values, check_for_hash64) until it is deleted or evicted, or    *)
(* its key removed or the table cleared: the LRU and its table cannot      *)
(* drift apart.  The lookup by two words, of set and get_el_hash, is       *)
(* another one and not meant.                                              *)
THEOREM EveryStoredFound == ASSUME Callers PROVE Spec => []StoredFound
<1>1. SlabInv => StoredFound
  <2> SUFFICES ASSUME SlabInv, NEW s \in Stored(R) \ forgotten
               PROVE  check_for_hash64(R.table, R.hash[s]) = s
    BY DEF StoredFound
  <2> DEFINE k == R.hash[s]
             T == R.table
  <2>1. /\ Good(R, forgotten) /\ TableInv(T) /\ File(s, k) \in Filed(T)
        /\ k \in Keys /\ s \in Elements
        /\ \A t \in Stored(R) : t \in Elements /\ R.hash[t] \in Keys
    BY StoredFacts DEF SlabInv, Good, Sound
  <2> HIDE DEF k
  <2>2. k[2] \in Word /\ k[2] + K <= MaxWord + 1
    BY <2>1, KeyFacts
  <2>3. CASE Lookup(T, k[2], k[1]) = 0 /\ Misses(T, k[2], k[1])
    <3>1. [val |-> s, key |-> k[1]] \in Entry /\ [val |-> s, key |-> k[1]].key = k[1]
      BY <2>1, KeyFacts, FileFacts DEF Entry
    <3> QED
      BY <2>1, <2>3, <3>1 DEF Misses, File
  <2>4. CASE \E e \in Entry :
               e.key = k[1] /\ <<Home(k[2]), e>> \in Filed(T) /\ Lookup(T, k[2], k[1]) = e.val
    <3>1. PICK e \in Entry :
            e.key = k[1] /\ <<Home(k[2]), e>> \in Filed(T) /\ Lookup(T, k[2], k[1]) = e.val
      BY <2>4
    <3>2. PICK t \in Stored(R) : <<Home(k[2]), e>> = File(t, R.hash[t])
      BY <2>1, <3>1 DEF Good
    <3>3. Home(k[2]) = Home(R.hash[t][2]) /\ e = [val |-> t, key |-> R.hash[t][1]]
      BY <3>2 DEF File
    <3>4. e.val = t /\ k[1] = R.hash[t][1]
      BY <3>1, <3>3
    <3>5. k = R.hash[t]
      BY <2>1, <3>3, <3>4 DEF Callers, KeysApart
    <3>6. t = s
      BY <2>1, <3>5 DEF Good, k
    <3> QED
      BY <3>1, <3>4, <3>6 DEF check_for_hash64, k
  <2> QED
    BY <2>1, <2>2, <2>3, <2>4, LookupFiles
<1> QED
  BY <1>1, SlabAlways, PTL
=============================================================================

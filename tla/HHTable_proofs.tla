---------------------------- MODULE HHTable_proofs ----------------------------
(***************************************************************************)
(* What the operators of HHTable do to a table of any size and width: the  *)
(* entries and the bits that claim them agree, and which entries a bucket  *)
(* has after a store, a hop or a deletion.                                 *)
(***************************************************************************)
EXTENDS HHTable, FiniteSetTheorems, TLAPS

-----------------------------------------------------------------------------
(* Numbers.                                                                *)

(* A set of natural numbers that is not empty has a least member.          *)
LEMMA LeastOne ==
  ASSUME NEW S \in SUBSET Nat, S # {}
  PROVE  \E m \in S : \A x \in S : m <= x
<1> DEFINE R == OpToRel(<, Nat)
<1>1. \A x, y \in Nat : x < y => <<x, y>> \in R
  BY DEF OpToRel
<1>2. PICK m \in S : \A y \in S : ~ (<<y, m>> \in R)
  <2>1. IsWellFoundedOn(R, Nat)
    BY NatLessThanWellFounded
  <2> HIDE DEF R
  <2> QED
    BY <2>1, WFMin
<1>3. ASSUME NEW x \in S PROVE m <= x
  <2>1. ~ (<<x, m>> \in R)
    BY <1>2
  <2>2. ~ (x < m)
    BY <1>1, <2>1
  <2> QED
    BY <2>2
<1> QED
  BY <1>3

(* What the scans that stop at the first hit return.                       *)
LEMMA LeastFacts ==
  ASSUME NEW S \in SUBSET Nat, S # {}
  PROVE  Least(S) \in S /\ \A x \in S : Least(S) <= x
BY LeastOne DEF Least

(* What the scan of _hop_scotch, from the farthest bucket on, returns.     *)
LEMMA GreatestFacts ==
  ASSUME NEW n \in Nat, NEW S \in SUBSET (0 .. n), S # {}
  PROVE  Greatest(S) \in S /\ \A x \in S : Greatest(S) >= x
<1> DEFINE D == { n - x : x \in S }
<1>1. D \in SUBSET Nat /\ D # {}
  <2>1. \A x \in S : n - x \in Nat
    OBVIOUS
  <2> QED
    BY <2>1
<1>2. PICK m \in D : \A x \in D : m <= x
  BY <1>1, LeastOne
<1>3. PICK g \in S : m = n - g
  BY <1>2
<1>4. \A x \in S : g >= x
  <2> TAKE x \in S
  <2>1. m <= n - x
    BY <1>2
  <2> QED
    BY <1>3, <2>1
<1> QED
  BY <1>3, <1>4 DEF Greatest

(* The reduction of hashes, which the code does modulo N.                  *)
LEMMA Wrap == \A a \in Nat : a % N \in Slot
BY TableAssumption DEF Slot

(* From one bucket every slot is met at one distance below N, for which    *)
(* subtracting once is enough.                                             *)
LEMMA SlotAtFacts ==
  ASSUME NEW h \in Slot, NEW d \in 0 .. N - 1
  PROVE  /\ SlotAt(h, d) = IF h + d < N THEN h + d ELSE h + d - N
         /\ SlotAt(h, d) \in Slot
         /\ \A e \in 0 .. N - 1 : SlotAt(h, d) = SlotAt(h, e) => d = e
<1>1. \A e \in 0 .. N - 1 : SlotAt(h, e) = IF h + e < N THEN h + e ELSE h + e - N
  BY TableAssumption DEF SlotAt, MOD, Slot
<1>2. N \in Nat /\ h \in 0 .. N - 1
  BY TableAssumption DEF Slot
<1> QED
  BY <1>1, <1>2 DEF Slot

(* Quotient and remainder.                                                *)
LEMMA Division ==
  ASSUME NEW n \in Nat \ {0}, NEW x \in Nat
  PROVE  x = n * (x \div n) + (x % n) /\ x % n \in 0 .. n - 1 /\ x \div n \in Nat
OBVIOUS

(* A multiple of n between -n and n is 0.                                  *)
LEMMA NoSmallMultiple ==
  ASSUME NEW n \in Nat \ {0}, NEW k \in Int, n * k < n, n * k > -n
  PROVE  k = 0
<1>1. CASE k >= 1
  <2>1. n * k >= n
    BY <1>1
  <2> QED
    BY <2>1
<1>2. CASE k <= -1
  <2>1. n * k <= -n
    BY <1>2
  <2> QED
    BY <2>1
<1> QED
  BY <1>1, <1>2

(* The remainder is the only number below n that is a multiple of n away.  *)
LEMMA RemainderUnique ==
  ASSUME NEW n \in Nat \ {0}, NEW x \in Nat, NEW q \in Int, NEW m \in 0 .. n - 1,
         x = n * q + m
  PROVE  x % n = m
<1> DEFINE k == q - (x \div n)
<1>1. x = n * (x \div n) + (x % n) /\ x % n \in 0 .. n - 1 /\ x \div n \in Nat
  BY Division
<1>2. n * k = (x % n) - m
  BY <1>1
<1>3. k \in Int
  BY <1>1
<1>4. n * k < n /\ n * k > -n
  <2> HIDE DEF k
  <2> QED
    BY <1>1, <1>2
<1>5. k = 0
  <2> HIDE DEF k
  <2> QED
    BY <1>3, <1>4, NoSmallMultiple
<1>6. n * k = 0
  BY <1>5
<1> QED
  BY <1>1, <1>2, <1>6

(* The slot that get_val_at_hh_hash reads, which adds the distance to the  *)
(* bucket before it reduces it, is the one the bit stands for.             *)
LEMMA SameSlot ==
  ASSUME NEW b \in Word, b + K <= MaxWord + 1, NEW d \in Distance, d < N
  PROVE  ((b + d) % (MaxWord + 1)) % N = SlotAt(Home(b), d)
<1> DEFINE h == Home(b)
           s == SlotAt(h, d)
           q == b \div N
<1>1. b \in Nat /\ N \in Nat \ {0} /\ d \in 0 .. N - 1 /\ b + d <= MaxWord /\ b + d \in Nat
  BY TableAssumption DEF Word, Distance
<1>2. (b + d) % (MaxWord + 1) = b + d
  BY <1>1, TableAssumption
<1>3. b = N * q + h /\ h \in Slot /\ q \in Nat
  BY <1>1, Division DEF Home, Slot
<1>4. s = (IF h + d < N THEN h + d ELSE h + d - N) /\ s \in 0 .. N - 1
  BY <1>1, <1>3, SlotAtFacts DEF Slot
<1> HIDE DEF h, s, q
<1>5. CASE h + d < N
  <2>1. b + d = N * q + s /\ q \in Int
    BY <1>1, <1>3, <1>4, <1>5 DEF Slot
  <2>2. (b + d) % N = s
    BY <1>1, <1>4, <2>1, RemainderUnique
  <2> QED
    BY <1>2, <2>2 DEF s, h
<1>6. CASE ~ (h + d < N)
  <2>1. N * (q + 1) = N * q + N
    BY <1>1, <1>3
  <2>2. b + d = N * (q + 1) + s /\ q + 1 \in Int
    BY <1>1, <1>3, <1>4, <1>6, <2>1 DEF Slot
  <2>3. (b + d) % N = s
    BY <1>1, <1>4, <2>2, RemainderUnique
  <2> QED
    BY <1>2, <2>3 DEF s, h
<1> QED
  BY <1>5, <1>6

(* The home buckets are slots.                                             *)
LEMMA HomeFacts == \A b \in Word : Home(b) \in Slot
BY Wrap, TableAssumption DEF Home, Word

-----------------------------------------------------------------------------
(* Tables.                                                                 *)

(* Bits, entries and the counter agree: a bit stands for an entry, every   *)
(* entry has a bit, no two bits stand for one entry, and the counter is    *)
(* the number of entries.  A bit beyond the size of a small table would    *)
(* stand for a slot that is nearer as well.                                *)
Agree(t) ==
  /\ \A h \in Slot : \A d \in t.H[h] : d < N /\ SlotAt(h, d) \in Occupied(t)
  /\ \A s \in Occupied(t) : \E h \in Slot : \E d \in t.H[h] : SlotAt(h, d) = s
  /\ \A g, h \in Slot : \A d \in t.H[g], e \in t.H[h] :
       SlotAt(g, d) = SlotAt(h, e) => g = h /\ d = e
  /\ t.count = Cardinality(Occupied(t))

TableInv(t) == t \in Tables /\ Agree(t)

(* Sets of slots are finite, and have no more than N members.              *)
LEMMA SlotSets ==
  \A S \in SUBSET Slot : IsFiniteSet(S) /\ Cardinality(S) \in 0 .. N
<1> SUFFICES ASSUME NEW S \in SUBSET Slot
             PROVE  IsFiniteSet(S) /\ Cardinality(S) \in 0 .. N
  OBVIOUS
<1>1. IsFiniteSet(Slot) /\ Cardinality(Slot) = N
  BY FS_Interval, TableAssumption DEF Slot
<1>2. IsFiniteSet(S) /\ Cardinality(S) <= N
  BY <1>1, FS_Subset
<1> QED
  BY <1>2, FS_CardinalityType, TableAssumption

(* clear                                                                   *)
LEMMA EmptyKeeps == TableInv(EmptyTable) /\ Occupied(EmptyTable) = {}
<1>1. Occupied(EmptyTable) = {}
  BY DEF Occupied, EmptyTable
<1>2. EmptyTable \in Tables
  BY TableAssumption DEF EmptyTable, Tables, Entry, FreeSlot, Word
<1> QED
  BY <1>1, <1>2, FS_EmptySet DEF TableInv, Agree, EmptyTable

(* A bit of a bucket is in reach, and its slot is one of the table.        *)
LEMMA BitFacts ==
  ASSUME NEW t, TableInv(t), NEW h \in Slot, NEW d \in t.H[h]
  PROVE  d \in Distance /\ d \in 0 .. N - 1 /\ SlotAt(h, d) \in Slot
<1>1. d \in Distance /\ d < N
  BY DEF TableInv, Agree, Tables
<1> QED
  BY <1>1, SlotAtFacts, TableAssumption DEF Distance

(* The slot of a new entry was free, and becomes that of one bit.          *)
LEMMA PlaceKeeps ==
  ASSUME NEW t, TableInv(t), NEW h \in Slot, NEW d \in 0 .. N - 1, d < K,
         SlotAt(h, d) \notin Occupied(t), NEW e \in Entry, e # FreeSlot
  PROVE  /\ TableInv(Place(t, h, d, e))
         /\ Occupied(Place(t, h, d, e)) = Occupied(t) \cup {SlotAt(h, d)}
<1> DEFINE u == Place(t, h, d, e)
           x == SlotAt(h, d)
<1>1. /\ t.H \in [Slot -> SUBSET Distance] /\ t.V \in [Slot -> Entry]
      /\ d \in Distance /\ x \in Slot
  BY SlotAtFacts, TableAssumption DEF TableInv, Tables, Distance
<1>2. /\ u.H = [ t.H EXCEPT ![h] = t.H[h] \cup {d} ]
      /\ u.V = [ t.V EXCEPT ![x] = e ]
      /\ u.count = t.count + 1
  BY DEF Place
<1>3. /\ u.H \in [Slot -> SUBSET Distance] /\ u.V \in [Slot -> Entry]
      /\ u.H[h] = t.H[h] \cup {d} /\ \A g \in Slot \ {h} : u.H[g] = t.H[g]
      /\ u.V[x] = e /\ \A s \in Slot \ {x} : u.V[s] = t.V[s]
  BY <1>1, <1>2
<1>4. Occupied(u) = Occupied(t) \cup {x}
  BY <1>1, <1>3 DEF Occupied
<1>5. u.count = Cardinality(Occupied(u)) /\ u.count \in 0 .. N
  <2>1. Occupied(t) \in SUBSET Slot /\ Occupied(u) \in SUBSET Slot
    BY DEF Occupied
  <2>2. Cardinality(Occupied(u)) = Cardinality(Occupied(t)) + 1
    BY <1>4, <2>1, SlotSets, FS_AddElement
  <2> QED
    BY <1>2, <2>1, <2>2, SlotSets DEF TableInv, Agree
<1>6. u \in Tables
  BY <1>3, <1>5 DEF Tables, Place
<1>7. x \notin Occupied(t) /\ \A g \in Slot : \A c \in t.H[g] : SlotAt(g, c) # x
  BY DEF TableInv, Agree
<1> HIDE DEF u, x
<1>8. \A g \in Slot : \A c \in u.H[g] : c < N /\ SlotAt(g, c) \in Occupied(u)
  BY <1>3, <1>4, TableAssumption DEF TableInv, Agree, x
<1>9. \A s \in Occupied(u) : \E g \in Slot : \E c \in u.H[g] : SlotAt(g, c) = s
  BY <1>3, <1>4 DEF TableInv, Agree, x
<1>10. \A g, f \in Slot : \A c \in u.H[g], b \in u.H[f] :
         SlotAt(g, c) = SlotAt(f, b) => g = f /\ c = b
  <2> TAKE g, f \in Slot
  <2> TAKE c \in u.H[g], b \in u.H[f]
  <2>1. (c \in t.H[g] \/ (g = h /\ c = d)) /\ (b \in t.H[f] \/ (f = h /\ b = d))
    BY <1>3
  <2> QED
    BY <1>7, <2>1 DEF TableInv, Agree, x
<1> QED
  BY <1>4, <1>5, <1>6, <1>8, <1>9, <1>10 DEF TableInv, Agree, u, x

(* A bit and the entry it stands for go together, unless the key of the    *)
(* entry is 0 and it is taken for a free slot.                             *)
LEMMA RemoveKeeps ==
  ASSUME NEW t, TableInv(t), NEW h \in Slot, NEW d \in t.H[h]
  PROVE  TableInv(RemoveAt(t, h, d))
<1> DEFINE u == RemoveAt(t, h, d)
           x == SlotAt(h, d)
<1>1. CASE t.V[x].key = 0
  BY <1>1 DEF RemoveAt
<1>2. CASE t.V[x].key # 0
  <2>1. /\ t.H \in [Slot -> SUBSET Distance] /\ t.V \in [Slot -> Entry]
        /\ x \in Slot /\ x \in Occupied(t)
    BY BitFacts DEF TableInv, Tables, Agree
  <2>2. /\ u.H = [ t.H EXCEPT ![h] = t.H[h] \ {d} ]
        /\ u.V = [ t.V EXCEPT ![x] = FreeSlot ]
        /\ u.count = t.count - 1
    BY <1>2 DEF RemoveAt
  <2>3. FreeSlot \in Entry
    BY TableAssumption DEF FreeSlot, Entry, Word
  <2>4. /\ u.H \in [Slot -> SUBSET Distance] /\ u.V \in [Slot -> Entry]
        /\ u.H[h] = t.H[h] \ {d} /\ \A g \in Slot \ {h} : u.H[g] = t.H[g]
        /\ u.V[x] = FreeSlot /\ \A s \in Slot \ {x} : u.V[s] = t.V[s]
    BY <2>1, <2>2, <2>3
  <2>5. Occupied(u) = Occupied(t) \ {x}
    BY <2>1, <2>4 DEF Occupied
  <2>6. u.count = Cardinality(Occupied(u)) /\ u.count \in 0 .. N
    <3>1. Occupied(t) \in SUBSET Slot /\ Occupied(u) \in SUBSET Slot
      BY DEF Occupied
    <3>2. Cardinality(Occupied(u)) = Cardinality(Occupied(t)) - 1
      BY <2>1, <2>5, <3>1, SlotSets, FS_RemoveElement
    <3> QED
      BY <2>2, <3>1, <3>2, SlotSets DEF TableInv, Agree
  <2>7. u \in Tables
    BY <1>2, <2>4, <2>6 DEF Tables, RemoveAt
  <2>8. \A g \in Slot : \A c \in u.H[g] : c \in t.H[g] /\ SlotAt(g, c) # x
    <3> SUFFICES ASSUME NEW g \in Slot, NEW c \in u.H[g]
                 PROVE  c \in t.H[g] /\ SlotAt(g, c) # x
      OBVIOUS
    <3> HIDE DEF u, x
    <3>1. c \in t.H[g] /\ ~ (g = h /\ c = d)
      BY <2>4
    <3> QED
      BY <3>1 DEF TableInv, Agree, x
  <2> HIDE DEF u, x
  <2>9. \A g \in Slot : \A c \in u.H[g] : c < N /\ SlotAt(g, c) \in Occupied(u)
    BY <2>5, <2>8 DEF TableInv, Agree
  <2>10. \A s \in Occupied(u) : \E g \in Slot : \E c \in u.H[g] : SlotAt(g, c) = s
    <3> TAKE s \in Occupied(u)
    <3>1. s \in Occupied(t) /\ s # x
      BY <2>5
    <3>2. PICK g \in Slot : \E c \in t.H[g] : SlotAt(g, c) = s
      BY <3>1 DEF TableInv, Agree
    <3>3. PICK c \in t.H[g] : SlotAt(g, c) = s
      BY <3>2
    <3>4. c \in u.H[g]
      BY <2>4, <3>1, <3>3 DEF x
    <3> QED
      BY <3>3, <3>4
  <2>11. \A g, f \in Slot : \A c \in u.H[g], b \in u.H[f] :
           SlotAt(g, c) = SlotAt(f, b) => g = f /\ c = b
    BY <2>8 DEF TableInv, Agree
  <2> QED
    BY <2>6, <2>7, <2>9, <2>10, <2>11 DEF TableInv, Agree, u
<1>3. t.V[x].key = 0 \/ t.V[x].key # 0
  OBVIOUS
<1> QED
  BY <1>1, <1>2, <1>3

(* Deleting removes an entry of the bucket it hashes to, or nothing.       *)
LEMMA DeleteKeeps ==
  ASSUME NEW t, TableInv(t), NEW b \in Word, NEW k
  PROVE  TableInv(Delete(t, b, k))
<1> DEFINE hits == { d \in t.H[Home(b)] : EntryAt(t, b, d).key = k }
<1>1. Home(b) \in Slot
  BY HomeFacts
<1>2. t.H[Home(b)] \in SUBSET Nat
  BY <1>1, TableAssumption DEF TableInv, Tables, Distance
<1>3. CASE hits = {}
  BY <1>3 DEF Delete, Hunt
<1>4. CASE hits # {}
  <2>1. Hunt(t, b, k) = Least(hits) /\ Least(hits) \in hits
    BY <1>2, <1>4, LeastFacts DEF Hunt
  <2>2. Hunt(t, b, k) # NoDistance /\ Hunt(t, b, k) \in t.H[Home(b)]
    BY <1>2, <2>1 DEF NoDistance
  <2> QED
    BY <1>1, <2>2, RemoveKeeps DEF Delete
<1> QED
  BY <1>3, <1>4

(* The entry of bucket b at distance i goes to the free slot at j, and so  *)
(* does its bit.                                                           *)
LEMMA SwapKeeps ==
  ASSUME NEW t, TableInv(t), NEW b \in Slot, NEW i \in t.H[b],
         NEW j \in 0 .. N - 1, j < K, SlotAt(b, j) \notin Occupied(t)
  PROVE  /\ TableInv(Swap(t, b, i, j))
         /\ Occupied(Swap(t, b, i, j)) = (Occupied(t) \ {SlotAt(b, i)}) \cup {SlotAt(b, j)}
<1> DEFINE u == Swap(t, b, i, j)
           x == SlotAt(b, i)
           y == SlotAt(b, j)
<1>1. /\ t.H \in [Slot -> SUBSET Distance] /\ t.V \in [Slot -> Entry]
      /\ x \in Slot /\ x \in Occupied(t) /\ j \in Distance /\ y \in Slot /\ x # y
  <2>1. x \in Slot /\ x \in Occupied(t)
    BY BitFacts DEF TableInv, Agree
  <2>2. y \in Slot /\ j \in Distance
    BY SlotAtFacts, TableAssumption DEF Distance
  <2> QED
    BY <2>1, <2>2 DEF TableInv, Tables
<1>2. /\ u.H = [ t.H EXCEPT ![b] = (t.H[b] \ {i}) \cup {j} ]
      /\ u.V = [ t.V EXCEPT ![y] = t.V[x], ![x] = FreeSlot ]
      /\ u.count = t.count
  BY DEF Swap
<1>3. FreeSlot \in Entry
  BY TableAssumption DEF FreeSlot, Entry, Word
<1>4. /\ u.H \in [Slot -> SUBSET Distance] /\ u.V \in [Slot -> Entry]
      /\ u.H[b] = (t.H[b] \ {i}) \cup {j} /\ \A g \in Slot \ {b} : u.H[g] = t.H[g]
      /\ u.V[x] = FreeSlot /\ u.V[y] = t.V[x]
      /\ \A s \in Slot \ {x, y} : u.V[s] = t.V[s]
  BY <1>1, <1>2, <1>3
<1>5. Occupied(u) = (Occupied(t) \ {x}) \cup {y}
  BY <1>1, <1>4 DEF Occupied
<1>6. u.count = Cardinality(Occupied(u)) /\ u.count \in 0 .. N
  <2>1. /\ Occupied(t) \in SUBSET Slot /\ Occupied(u) \in SUBSET Slot
        /\ Occupied(t) \ {x} \in SUBSET Slot
    BY DEF Occupied
  <2>2. Cardinality(Occupied(t) \ {x}) = Cardinality(Occupied(t)) - 1
    BY <1>1, <2>1, SlotSets, FS_RemoveElement
  <2>3. Cardinality(Occupied(u)) = Cardinality(Occupied(t) \ {x}) + 1
    BY <1>1, <1>5, <2>1, SlotSets, FS_AddElement
  <2> QED
    BY <1>2, <2>1, <2>2, <2>3, SlotSets DEF TableInv, Agree
<1>7. u \in Tables
  BY <1>4, <1>6 DEF Tables, Swap
<1> HIDE DEF u, x, y
<1>8. \A g \in Slot : \A c \in u.H[g] :
        \/ g = b /\ c = j
        \/ c \in t.H[g] /\ SlotAt(g, c) # x /\ SlotAt(g, c) # y
  <2> TAKE g \in Slot
  <2> TAKE c \in u.H[g]
  <2>1. (g = b /\ c = j) \/ (c \in t.H[g] /\ ~ (g = b /\ c = i))
    BY <1>4
  <2> QED
    BY <2>1 DEF TableInv, Agree, x, y
<1>9. \A g \in Slot : \A c \in u.H[g] : c < N /\ SlotAt(g, c) \in Occupied(u)
  <2> TAKE g \in Slot
  <2> TAKE c \in u.H[g]
  <2>1. CASE g = b /\ c = j
    BY <1>5, <2>1, TableAssumption DEF y
  <2>2. CASE c \in t.H[g] /\ SlotAt(g, c) # x
    BY <1>5, <2>2 DEF TableInv, Agree
  <2> QED
    BY <1>8, <2>1, <2>2
<1>10. \A s \in Occupied(u) : \E g \in Slot : \E c \in u.H[g] : SlotAt(g, c) = s
  <2> TAKE s \in Occupied(u)
  <2>1. CASE s = y
    BY <1>4, <2>1 DEF y
  <2>2. CASE s \in Occupied(t) /\ s # x
    <3>1. PICK g \in Slot : \E c \in t.H[g] : SlotAt(g, c) = s
      BY <2>2 DEF TableInv, Agree
    <3>2. PICK c \in t.H[g] : SlotAt(g, c) = s
      BY <3>1
    <3>3. c \in u.H[g]
      BY <1>4, <2>2, <3>2 DEF x
    <3> QED
      BY <3>2, <3>3
  <2> QED
    BY <1>5, <2>1, <2>2
<1>11. \A g, f \in Slot : \A c \in u.H[g], d \in u.H[f] :
         SlotAt(g, c) = SlotAt(f, d) => g = f /\ c = d
  <2> TAKE g, f \in Slot
  <2> TAKE c \in u.H[g], d \in u.H[f]
  <2>1. /\ (g = b /\ c = j) \/ (c \in t.H[g] /\ SlotAt(g, c) # y)
        /\ (f = b /\ d = j) \/ (d \in t.H[f] /\ SlotAt(f, d) # y)
    BY <1>8
  <2> QED
    BY <2>1 DEF TableInv, Agree, y
<1> QED
  BY <1>5, <1>6, <1>7, <1>9, <1>10, <1>11 DEF TableInv, Agree, u, x, y

(* The bucket one hop looks at, z below the free slot, and the distance    *)
(* from the home bucket h of the entry that hop moves.                     *)
Below(free, z) == MOD(N + free - z)

Nearer(h, b, i) == MOD(N + b + i - h)

(* What one hop finds, when it finds anything: a bucket below the free     *)
(* slot whose nearest entry lies before it.  The slot of that entry is     *)
(* nearer to the home bucket than the free slot.  What MOD is applied to   *)
(* is below 2N, since a hop starts at a distance of at least K.            *)
LEMMA HopFinds ==
  ASSUME NEW t, TableInv(t), NEW h \in Slot, NEW d \in 0 .. N - 1, d >= K,
         NEW free, NEW z, NEW b, NEW i, NEW e
  PROVE  /\ free = SlotAt(h, d) /\ z = HopScotch(t, free) /\ z # 0
         /\ b = Below(free, z) /\ i = Least(t.H[b]) /\ e = Nearer(h, b, i)
         => /\ b \in Slot /\ i \in t.H[b] /\ z \in 1 .. K - 1 /\ i < z
            /\ z \in 0 .. N - 1 /\ SlotAt(b, z) = free
            /\ e \in 0 .. N - 1 /\ e < d /\ SlotAt(h, e) = SlotAt(b, i)
<1>0. SUFFICES ASSUME free = SlotAt(h, d), z = HopScotch(t, free), z # 0,
                      b = Below(free, z), i = Least(t.H[b]), e = Nearer(h, b, i)
               PROVE  /\ b \in Slot /\ i \in t.H[b] /\ z \in 1 .. K - 1 /\ i < z
                      /\ z \in 0 .. N - 1 /\ SlotAt(b, z) = free
                      /\ e \in 0 .. N - 1 /\ e < d /\ SlotAt(h, e) = SlotAt(b, i)
  OBVIOUS
<1>1. /\ N \in Nat \ {0} /\ K \in Nat \ {0} /\ K < N /\ d \in Nat /\ d < N
      /\ free \in Slot /\ free = IF h + d < N THEN h + d ELSE h + d - N
  BY <1>0, SlotAtFacts, TableAssumption
<1>2. z \in Movable(t, free)
  <2>1. Movable(t, free) # {} /\ z = Greatest(Movable(t, free))
    BY <1>0 DEF HopScotch
  <2>2. Movable(t, free) \in SUBSET (0 .. K - 1) /\ K - 1 \in Nat
    BY <1>1 DEF Movable
  <2> QED
    BY <2>1, <2>2, GreatestFacts
<1>3. z \in 1 .. K - 1 /\ t.H[b] # {} /\ Least(t.H[b]) < z
  BY <1>0, <1>2 DEF Movable, Below
<1>4. b \in Slot /\ b = IF free >= z THEN free - z ELSE N + free - z
  BY <1>0, <1>1, <1>3 DEF Below, MOD, Slot
<1>5. i \in t.H[b] /\ i < z
  <2>1. t.H[b] \in SUBSET Nat
    BY <1>1, <1>4 DEF TableInv, Tables, Distance
  <2> QED
    BY <1>0, <1>3, <2>1, LeastFacts
<1>6. i \in 0 .. N - 1 /\ z \in 0 .. N - 1
  BY <1>1, <1>3, <1>4, <1>5, BitFacts
<1>7. SlotAt(b, z) = free
  <2>1. SlotAt(b, z) = IF b + z < N THEN b + z ELSE b + z - N
    BY <1>4, <1>6, SlotAtFacts
  <2> QED
    BY <1>1, <1>3, <1>4, <2>1 DEF Slot
<1>8. SlotAt(b, i) = IF b + i < N THEN b + i ELSE b + i - N
  BY <1>4, <1>6, SlotAtFacts
<1>9. e = d - (z - i)
  <2>1. /\ N \in Nat /\ h \in 0 .. N - 1 /\ b \in 0 .. N - 1 /\ d \in 0 .. N - 1
        /\ i \in 0 .. N - 1 /\ z \in 0 .. N - 1 /\ i < z /\ z <= d
    BY <1>1, <1>3, <1>4, <1>5, <1>6 DEF Slot
  <2>2. free \in Nat /\ (free = h + d \/ free + N = h + d)
    BY <1>1, <2>1 DEF Slot
  <2>3. b + z = free \/ b + z = free + N
    BY <1>4, <2>1, <2>2
  <2>4. b + z = h + d \/ b + z + N = h + d
    BY <2>1, <2>2, <2>3
  <2> DEFINE a == N + b + i - h
             x == d - (z - i)
  <2>5. x \in 0 .. N - 1 /\ (a = x \/ a = x + N)
    BY <2>1, <2>4
  <2>6. e = IF a < N THEN a ELSE a - N
    BY <1>0 DEF Nearer, MOD
  <2> HIDE DEF a, x
  <2>7. e = x
    BY <2>1, <2>5, <2>6
  <2> QED
    BY <2>7 DEF x
<1>10. /\ e \in 0 .. N - 1 /\ e < d
       /\ (IF h + e < N THEN h + e ELSE h + e - N) = (IF b + i < N THEN b + i ELSE b + i - N)
  <2>1. /\ N \in Nat /\ h \in Nat /\ h < N /\ b \in Nat /\ b < N /\ d \in Nat /\ d < N
        /\ z \in Nat /\ z <= d /\ i \in Nat /\ i < z
    BY <1>1, <1>3, <1>4, <1>5, <1>6 DEF Slot
  <2>2. e \in 0 .. N - 1 /\ e < d
    BY <1>9, <2>1
  <2>3. h + e = b + i \/ h + e = b + i + N \/ h + e + N = b + i
    BY <1>1, <1>4, <1>9, <2>1
  <2>4. h + e < h + d /\ b + i < b + z
    BY <2>1, <2>2
  <2> QED
    BY <1>1, <1>4, <2>1, <2>2, <2>3, <2>4
<1>11. SlotAt(h, e) = IF h + e < N THEN h + e ELSE h + e - N
  BY <1>10, SlotAtFacts
<1>12. SlotAt(h, e) = SlotAt(b, i)
  BY <1>8, <1>10, <1>11
<1> QED
  BY <1>3, <1>4, <1>5, <1>6, <1>7, <1>10, <1>12

(* _probe stops at a slot that is free, less than N away.                  *)
LEMMA ProbeFinds ==
  ASSUME NEW t, NEW h \in Slot, Probe(t, h) # NoDistance
  PROVE  Probe(t, h) \in 0 .. N - 1 /\ SlotAt(h, Probe(t, h)) \notin Occupied(t)
<1> DEFINE free == { d \in 0 .. N - 1 : SlotAt(h, d) \notin Occupied(t) }
<1>1. free # {} /\ Probe(t, h) = Least(free)
  BY DEF Probe
<1>2. free \in SUBSET Nat
  BY TableAssumption
<1>3. Least(free) \in free
  <2> HIDE DEF free
  <2> QED
    BY <1>1, <1>2, LeastFacts
<1> QED
  BY <1>1, <1>3

(* What a lookup reads is a word, whatever slot it reads.                  *)
LEMMA LookupType ==
  ASSUME NEW t \in Tables, NEW b \in Word, NEW k
  PROVE  Lookup(t, b, k) \in Word
<1> DEFINE d == Hunt(t, b, k)
           hits == { c \in t.H[Home(b)] : EntryAt(t, b, c).key = k }
<1>1. 0 \in Word
  BY TableAssumption DEF Word
<1>2. CASE d = NoDistance
  BY <1>1, <1>2 DEF Lookup
<1>3. CASE d # NoDistance
  <2>1. t.H[Home(b)] \in SUBSET Nat
    BY HomeFacts, TableAssumption DEF Tables, Distance
  <2>2. d \in Nat
    <3>1. hits # {} /\ d = Least(hits) /\ hits \in SUBSET Nat
      BY <1>3, <2>1 DEF Hunt
    <3> HIDE DEF hits, d
    <3> QED
      BY <3>1, LeastFacts
  <2> DEFINE a == b + d
             m == MaxWord + 1
             w == a % m
  <2>3. a \in Nat /\ m \in Nat \ {0}
    BY <2>2, TableAssumption DEF Word
  <2>4. w \in Nat
    <3> HIDE DEF a, m
    <3> QED
      BY <2>3
  <2>5. w % N \in Slot
    <3> HIDE DEF w
    <3> QED
      BY <2>4, Wrap
  <2>6. EntryAt(t, b, d) \in Entry
    BY <2>5 DEF EntryAt, Tables
  <2> QED
    BY <1>3, <2>6 DEF Lookup, Entry
<1> QED
  BY <1>2, <1>3

-----------------------------------------------------------------------------
(* The entries of a bucket.                                                *)

(* The distances at which bucket c has the entry e.                        *)
Places(t, c, e) == { d \in t.H[c] : t.V[SlotAt(c, d)] = e }

(* They are finite in number.                                              *)
LEMMA PlacesFinite ==
  ASSUME NEW t \in Tables, NEW c \in Slot, NEW e
  PROVE  /\ IsFiniteSet(Places(t, c, e)) /\ Cardinality(Places(t, c, e)) \in Nat
         /\ Cardinality(Places(t, c, e)) > 0 <=> Places(t, c, e) # {}
<1>1. IsFiniteSet(Distance)
  BY FS_Interval, TableAssumption DEF Distance
<1>2. Places(t, c, e) \in SUBSET Distance
  BY DEF Places, Tables
<1>3. IsFiniteSet(Places(t, c, e))
  BY <1>1, <1>2, FS_Subset
<1> QED
  BY <1>3, FS_CardinalityType, FS_EmptySet

(* A new entry is at one more distance from its own bucket.                *)
LEMMA PlacePlaces ==
  ASSUME NEW t, TableInv(t), NEW h \in Slot, NEW d \in 0 .. N - 1, d < K,
         SlotAt(h, d) \notin Occupied(t), NEW e, NEW c \in Slot, NEW f, f # FreeSlot
  PROVE  /\ Places(Place(t, h, d, e), c, f)
               = IF c = h /\ f = e THEN Places(t, c, f) \cup {d} ELSE Places(t, c, f)
         /\ d \notin Places(t, h, f)
<1> DEFINE u == Place(t, h, d, e)
           x == SlotAt(h, d)
<1>1. /\ t.H \in [Slot -> SUBSET Distance] /\ t.V \in [Slot -> Entry] /\ x \in Slot
  BY SlotAtFacts DEF TableInv, Tables
<1>2. /\ u.H[h] = t.H[h] \cup {d} /\ \A g \in Slot \ {h} : u.H[g] = t.H[g]
      /\ u.V[x] = e /\ \A s \in Slot \ {x} : u.V[s] = t.V[s]
  BY <1>1 DEF Place
<1>3. \A g \in Slot : \A a \in t.H[g] : SlotAt(g, a) # x /\ SlotAt(g, a) \in Slot
  BY BitFacts DEF TableInv, Agree
<1> HIDE DEF u
<1>4. \A a \in t.H[c] : u.V[SlotAt(c, a)] = t.V[SlotAt(c, a)]
  BY <1>2, <1>3
<1>5. d \notin t.H[h]
  BY <1>3
<1>6. CASE c = h
  <2>1. u.H[c] = t.H[c] \cup {d} /\ u.V[SlotAt(c, d)] = e
    BY <1>2, <1>6
  <2>2. Places(u, c, f) = IF f = e THEN Places(t, c, f) \cup {d} ELSE Places(t, c, f)
    BY <1>4, <2>1 DEF Places
  <2> QED
    BY <1>5, <1>6, <2>2 DEF Places, u
<1>7. CASE c # h
  <2>1. Places(u, c, f) = Places(t, c, f)
    BY <1>2, <1>4, <1>7 DEF Places
  <2> QED
    BY <1>5, <1>7, <2>1 DEF Places, u
<1> QED
  BY <1>6, <1>7

(* A hop moves one entry, and keeps it with its bucket.                    *)
LEMMA SwapPlaces ==
  ASSUME NEW t, TableInv(t), NEW b \in Slot, NEW i \in t.H[b],
         NEW j \in 0 .. N - 1, j < K, SlotAt(b, j) \notin Occupied(t),
         NEW c \in Slot, NEW f
  PROVE  /\ Places(Swap(t, b, i, j), c, f)
               = IF c = b /\ i \in Places(t, c, f) THEN (Places(t, c, f) \ {i}) \cup {j}
                                                  ELSE Places(t, c, f)
         /\ j \notin Places(t, b, f)
<1> DEFINE u == Swap(t, b, i, j)
           x == SlotAt(b, i)
           y == SlotAt(b, j)
<1>1. /\ t.H \in [Slot -> SUBSET Distance] /\ t.V \in [Slot -> Entry]
      /\ x \in Slot /\ x \in Occupied(t) /\ y \in Slot /\ x # y
  <2>1. x \in Slot /\ x \in Occupied(t)
    BY BitFacts DEF TableInv, Agree
  <2>2. y \in Slot
    BY SlotAtFacts
  <2> QED
    BY <2>1, <2>2 DEF TableInv, Tables
<1>2. /\ u.H[b] = (t.H[b] \ {i}) \cup {j} /\ \A g \in Slot \ {b} : u.H[g] = t.H[g]
      /\ u.V[y] = t.V[x] /\ \A s \in Slot \ {x, y} : u.V[s] = t.V[s]
  BY <1>1 DEF Swap
<1>3. \A g \in Slot : \A a \in t.H[g] :
        SlotAt(g, a) # y /\ SlotAt(g, a) \in Slot /\ (SlotAt(g, a) = x => g = b /\ a = i)
  BY BitFacts DEF TableInv, Agree
<1> HIDE DEF u
<1>4. j \notin t.H[b]
  BY <1>3
<1>5. CASE c = b
  <2>1. \A a \in t.H[c] \ {i} : u.V[SlotAt(c, a)] = t.V[SlotAt(c, a)]
    BY <1>2, <1>3, <1>5
  <2>2. u.H[c] = (t.H[c] \ {i}) \cup {j} /\ u.V[SlotAt(c, j)] = t.V[SlotAt(c, i)]
    BY <1>2, <1>5
  <2>3. Places(u, c, f) = IF i \in Places(t, c, f) THEN (Places(t, c, f) \ {i}) \cup {j}
                                                   ELSE Places(t, c, f)
    BY <1>5, <2>1, <2>2 DEF Places
  <2> QED
    BY <1>4, <1>5, <2>3 DEF Places, u
<1>6. CASE c # b
  <2>1. \A a \in t.H[c] : u.V[SlotAt(c, a)] = t.V[SlotAt(c, a)]
    BY <1>2, <1>3, <1>6
  <2>2. Places(u, c, f) = Places(t, c, f)
    BY <1>2, <1>6, <2>1 DEF Places
  <2> QED
    BY <1>4, <1>6, <2>2 DEF Places, u
<1> QED
  BY <1>5, <1>6

(* A deletion takes one entry of the bucket.                               *)
LEMMA RemovePlaces ==
  ASSUME NEW t, TableInv(t), NEW h \in Slot, NEW d \in t.H[h],
         t.V[SlotAt(h, d)].key # 0, NEW c \in Slot, NEW f
  PROVE  Places(RemoveAt(t, h, d), c, f)
           = IF c = h THEN Places(t, c, f) \ {d} ELSE Places(t, c, f)
<1> DEFINE u == RemoveAt(t, h, d)
           x == SlotAt(h, d)
<1>1. t.H \in [Slot -> SUBSET Distance] /\ t.V \in [Slot -> Entry] /\ x \in Slot
  BY BitFacts DEF TableInv, Tables
<1>2. /\ u.H[h] = t.H[h] \ {d} /\ \A g \in Slot \ {h} : u.H[g] = t.H[g]
      /\ \A s \in Slot \ {x} : u.V[s] = t.V[s]
  BY <1>1 DEF RemoveAt
<1>3. \A g \in Slot : \A a \in t.H[g] :
        SlotAt(g, a) \in Slot /\ (SlotAt(g, a) = x => g = h /\ a = d)
  BY BitFacts DEF TableInv, Agree
<1> HIDE DEF u
<1>4. CASE c = h
  <2>1. \A a \in t.H[c] \ {d} : u.V[SlotAt(c, a)] = t.V[SlotAt(c, a)]
    BY <1>2, <1>3, <1>4
  <2>2. u.H[c] = t.H[c] \ {d}
    BY <1>2, <1>4
  <2>3. Places(u, c, f) = Places(t, c, f) \ {d}
    BY <2>1, <2>2 DEF Places
  <2> QED
    BY <1>4, <2>3 DEF u
<1>5. CASE c # h
  <2>1. \A a \in t.H[c] : u.V[SlotAt(c, a)] = t.V[SlotAt(c, a)]
    BY <1>2, <1>3, <1>5
  <2>2. Places(u, c, f) = Places(t, c, f)
    BY <1>2, <1>5, <2>1 DEF Places
  <2> QED
    BY <1>5, <2>2 DEF u
<1> QED
  BY <1>4, <1>5

-----------------------------------------------------------------------------
(* What is filed in a table: its entries, each with the bucket that claims *)
(* it.  Once: no bucket claims an entry twice.                             *)
Filed(t) == { f \in Slot \X Entry : Places(t, f[1], f[2]) # {} }

Once(t) ==
  \A h \in Slot, e \in Entry : \A i, j \in Places(t, h, e) : i = j

Sound(t) == TableInv(t) /\ Once(t)

(* The free slots are not filed.                                           *)
LEMMA NoneFree ==
  ASSUME NEW t, TableInv(t), NEW h \in Slot
  PROVE  Places(t, h, FreeSlot) = {}
BY DEF Places, TableInv, Agree, Occupied

LEMMA FiledIs ==
  ASSUME NEW t, NEW h \in Slot, NEW e \in Entry
  PROVE  <<h, e>> \in Filed(t) <=> Places(t, h, e) # {}
BY DEF Filed

(* Two tables in which the same entries have places have the same filed.   *)
LEMMA FiledSame ==
  ASSUME NEW t, NEW u,
         \A h \in Slot, e \in Entry : Places(u, h, e) = {} <=> Places(t, h, e) = {}
  PROVE  Filed(u) = Filed(t)
<1>1. \A f \in Slot \X Entry : f[1] \in Slot /\ f[2] \in Entry
  OBVIOUS
<1> QED
  BY <1>1 DEF Filed

(* clear                                                                   *)
LEMMA EmptyFiles == Sound(EmptyTable) /\ Filed(EmptyTable) = {}
<1>1. \A h \in Slot : \A e : Places(EmptyTable, h, e) = {}
  BY DEF Places, EmptyTable
<1> QED
  BY <1>1, EmptyKeeps DEF Sound, Once, Filed

(* A new entry is filed, and no other.                                     *)
LEMMA PlaceFiles ==
  ASSUME NEW t, Sound(t), NEW h \in Slot, NEW d \in 0 .. N - 1, d < K,
         SlotAt(h, d) \notin Occupied(t), NEW e \in Entry, e # FreeSlot,
         <<h, e>> \notin Filed(t)
  PROVE  /\ Sound(Place(t, h, d, e))
         /\ Filed(Place(t, h, d, e)) = Filed(t) \cup {<<h, e>>}
<1> DEFINE u == Place(t, h, d, e)
<1>1. TableInv(t) /\ Once(t) /\ TableInv(u)
  BY PlaceKeeps DEF Sound
<1>2. Places(t, h, e) = {}
  BY FiledIs
<1>3. \A c \in Slot, f \in Entry :
        Places(u, c, f) = IF c = h /\ f = e THEN {d} ELSE Places(t, c, f)
  <2> TAKE c \in Slot, f \in Entry
  <2>1. CASE f = FreeSlot
    BY <1>1, <2>1, NoneFree
  <2>2. CASE f # FreeSlot
    <3>1. Places(u, c, f) = IF c = h /\ f = e THEN Places(t, c, f) \cup {d} ELSE Places(t, c, f)
      BY <1>1, <2>2, PlacePlaces
    <3> QED
      BY <1>2, <3>1
  <2> QED
    BY <2>1, <2>2
<1> HIDE DEF u
<1>4. Once(u)
  BY <1>1, <1>3 DEF Once
<1>5. Filed(u) = Filed(t) \cup {<<h, e>>}
  <2>1. \A f \in Slot \X Entry :
          f \in Filed(u) <=> f \in Filed(t) \/ f = <<h, e>>
    <3> TAKE f \in Slot \X Entry
    <3>1. f[1] \in Slot /\ f[2] \in Entry /\ f = <<f[1], f[2]>>
      OBVIOUS
    <3>2. Places(u, f[1], f[2]) = IF f[1] = h /\ f[2] = e THEN {d} ELSE Places(t, f[1], f[2])
      BY <1>3, <3>1
    <3> QED
      BY <3>1, <3>2 DEF Filed
  <2>2. Filed(u) \in SUBSET (Slot \X Entry) /\ Filed(t) \in SUBSET (Slot \X Entry)
    BY DEF Filed
  <2> QED
    BY <2>1, <2>2
<1> QED
  BY <1>1, <1>4, <1>5 DEF Sound, u

(* A hop moves an entry within its bucket.                                 *)
LEMMA SwapFiles ==
  ASSUME NEW t, Sound(t), NEW b \in Slot, NEW i \in t.H[b],
         NEW j \in 0 .. N - 1, j < K, SlotAt(b, j) \notin Occupied(t)
  PROVE  Sound(Swap(t, b, i, j)) /\ Filed(Swap(t, b, i, j)) = Filed(t)
<1> DEFINE u == Swap(t, b, i, j)
<1>1. TableInv(t) /\ Once(t) /\ TableInv(u)
  BY SwapKeeps DEF Sound
<1>2. \A c \in Slot, f \in Entry :
        Places(u, c, f) = IF c = b /\ i \in Places(t, c, f) THEN (Places(t, c, f) \ {i}) \cup {j}
                                                            ELSE Places(t, c, f)
  BY <1>1, SwapPlaces
<1> HIDE DEF u
<1>3. Once(u)
  <2> SUFFICES ASSUME NEW c \in Slot, NEW f \in Entry,
                      NEW x \in Places(u, c, f), NEW y \in Places(u, c, f)
               PROVE  x = y
    BY DEF Once
  <2>1. \A p, q \in Places(t, c, f) : p = q
    BY <1>1 DEF Once
  <2> QED
    BY <1>2, <2>1
<1>4. \A c \in Slot, f \in Entry : Places(u, c, f) = {} <=> Places(t, c, f) = {}
  <2> TAKE c \in Slot, f \in Entry
  <2> QED
    BY <1>2
<1>5. Filed(u) = Filed(t)
  BY <1>4, FiledSame
<1> QED
  BY <1>1, <1>3, <1>5 DEF Sound, u

(* A deletion takes out the entry it hits.                                 *)
LEMMA RemoveFiles ==
  ASSUME NEW t, Sound(t), NEW h \in Slot, NEW d \in t.H[h], NEW e,
         e = t.V[SlotAt(h, d)], e.key # 0
  PROVE  /\ Sound(RemoveAt(t, h, d))
         /\ <<h, e>> \in Filed(t)
         /\ Filed(RemoveAt(t, h, d)) = Filed(t) \ {<<h, e>>}
<1> DEFINE u == RemoveAt(t, h, d)
<1>1. TableInv(t) /\ Once(t) /\ TableInv(u)
  BY RemoveKeeps DEF Sound
<1>2. \A c \in Slot, f \in Entry :
        Places(u, c, f) = IF c = h THEN Places(t, c, f) \ {d} ELSE Places(t, c, f)
  BY <1>1, RemovePlaces
<1>3. e \in Entry /\ d \in Places(t, h, e)
        /\ \A f \in Entry \ {e} : d \notin Places(t, h, f)
  BY <1>1, BitFacts DEF Places, TableInv, Tables
<1> HIDE DEF u
<1>4. Once(u)
  BY <1>1, <1>2 DEF Once
<1>5. \A c \in Slot, f \in Entry :
        Places(u, c, f) = {} <=> Places(t, c, f) = {} \/ (c = h /\ f = e)
  <2> TAKE c \in Slot, f \in Entry
  <2>1. CASE c = h /\ f = e
    <3>1. \A p, q \in Places(t, c, f) : p = q
      BY <1>1 DEF Once
    <3> QED
      BY <1>2, <1>3, <2>1, <3>1
  <2>2. CASE c = h /\ f # e
    BY <1>2, <1>3, <2>2
  <2>3. CASE c # h
    BY <1>2, <2>3
  <2> QED
    BY <2>1, <2>2, <2>3
<1>6. Filed(u) = Filed(t) \ {<<h, e>>}
  <2>1. \A f \in Slot \X Entry :
          f \in Filed(u) <=> f \in Filed(t) /\ f # <<h, e>>
    <3> TAKE f \in Slot \X Entry
    <3>1. f[1] \in Slot /\ f[2] \in Entry /\ f = <<f[1], f[2]>>
      OBVIOUS
    <3>2. Places(u, f[1], f[2]) = {} <=> Places(t, f[1], f[2]) = {} \/ (f[1] = h /\ f[2] = e)
      BY <1>5, <3>1
    <3> QED
      BY <3>1, <3>2 DEF Filed
  <2>2. Filed(u) \in SUBSET (Slot \X Entry) /\ Filed(t) \in SUBSET (Slot \X Entry)
    BY DEF Filed
  <2> QED
    BY <2>1, <2>2
<1> QED
  BY <1>1, <1>3, <1>4, <1>6, FiledIs DEF Sound, u

(* No entry of bucket b with key k; and the one hunt_hash_set stops at.    *)
Misses(t, b, k) == \A e \in Entry : e.key = k => <<Home(b), e>> \notin Filed(t)

Hits(t, b, k, e) ==
  /\ e.key = k /\ <<Home(b), e>> \in Filed(t)
  /\ Hunt(t, b, k) # NoDistance /\ Hunt(t, b, k) \in t.H[Home(b)]
  /\ e = t.V[SlotAt(Home(b), Hunt(t, b, k))] /\ e = EntryAt(t, b, Hunt(t, b, k))

(* What hunt_hash_set stops at: an entry of the bucket that has the key,   *)
(* if there is one.                                                        *)
LEMMA HuntHits ==
  ASSUME NEW t, TableInv(t), NEW b \in Word, b + K <= MaxWord + 1, NEW k
  PROVE  \/ Hunt(t, b, k) = NoDistance /\ Misses(t, b, k)
         \/ \E e \in Entry : Hits(t, b, k, e)
<1> DEFINE h == Home(b)
           hits == { d \in t.H[h] : EntryAt(t, b, d).key = k }
           d == Hunt(t, b, k)
<1>1. h \in Slot /\ t \in Tables
  BY HomeFacts DEF TableInv
<1>2. \A c \in t.H[h] : EntryAt(t, b, c) = t.V[SlotAt(h, c)] /\ c \in Nat
  <2> TAKE c \in t.H[h]
  <2>1. c \in Distance /\ c < N
    BY <1>1, BitFacts, TableAssumption
  <2> QED
    BY <2>1, SameSlot, TableAssumption DEF EntryAt, Distance
<1>3. CASE hits = {}
  <2>1. d = NoDistance
    BY <1>3 DEF Hunt
  <2>2. ASSUME NEW e \in Entry, e.key = k PROVE <<h, e>> \notin Filed(t)
    <3>1. Places(t, h, e) = {}
      BY <1>2, <1>3, <2>2 DEF Places
    <3> QED
      BY <1>1, <3>1, FiledIs
  <2> QED
    BY <2>1, <2>2 DEF Misses
<1>4. CASE hits # {}
  <2>1. d \in hits
    <3>1. hits \in SUBSET Nat /\ d = Least(hits)
      BY <1>2, <1>4 DEF Hunt
    <3> HIDE DEF hits, d
    <3> QED
      BY <1>4, <3>1, LeastFacts
  <2> DEFINE e == t.V[SlotAt(h, d)]
  <2>2. d \in t.H[h] /\ EntryAt(t, b, d) = e /\ e.key = k /\ d # NoDistance
    BY <1>2, <2>1 DEF NoDistance
  <2>3. e \in Entry
    BY <1>1, <2>2, BitFacts DEF Tables
  <2>4. d \in Places(t, h, e)
    BY <2>2 DEF Places
  <2>5. <<h, e>> \in Filed(t)
    BY <1>1, <2>3, <2>4, FiledIs
  <2> QED
    BY <2>2, <2>3, <2>5 DEF Hits
<1> QED
  BY <1>3, <1>4

(* A deletion finds a filed entry of the bucket with the key, if any.      *)
LEMMA DeleteFiles ==
  ASSUME NEW t, Sound(t), NEW b \in Word, b + K <= MaxWord + 1, NEW k \in Word \ {0}
  PROVE  /\ Sound(Delete(t, b, k))
         /\ \/ Filed(Delete(t, b, k)) = Filed(t) /\ Misses(t, b, k)
            \/ \E e \in Entry :
                 /\ e.key = k /\ <<Home(b), e>> \in Filed(t)
                 /\ Filed(Delete(t, b, k)) = Filed(t) \ {<<Home(b), e>>}
<1>1. TableInv(t) /\ Home(b) \in Slot
  BY HomeFacts DEF Sound
<1>2. CASE Hunt(t, b, k) = NoDistance /\ Misses(t, b, k)
  BY <1>2 DEF Delete
<1>3. CASE \E e \in Entry : Hits(t, b, k, e)
  <2>1. PICK e \in Entry : Hits(t, b, k, e)
    BY <1>3
  <2>2. PICK d \in t.H[Home(b)] : d = Hunt(t, b, k)
    BY <2>1 DEF Hits
  <2>3. /\ Delete(t, b, k) = RemoveAt(t, Home(b), d)
        /\ e = t.V[SlotAt(Home(b), d)] /\ e.key # 0
    BY <2>1, <2>2 DEF Delete, Hits
  <2>4. /\ Sound(RemoveAt(t, Home(b), d))
        /\ Filed(RemoveAt(t, Home(b), d)) = Filed(t) \ {<<Home(b), e>>}
    <3>1. PICK h \in Slot : h = Home(b)
      BY <1>1
    <3>2. d \in t.H[h] /\ e = t.V[SlotAt(h, d)] /\ e.key # 0
      BY <2>3, <3>1
    <3>3. Sound(RemoveAt(t, h, d)) /\ Filed(RemoveAt(t, h, d)) = Filed(t) \ {<<h, e>>}
      BY <3>2, RemoveFiles, ZenonT(30)
    <3> QED
      BY <3>1, <3>3
  <2>5. e.key = k /\ <<Home(b), e>> \in Filed(t)
    BY <2>1 DEF Hits
  <2>6. /\ Sound(Delete(t, b, k))
        /\ Filed(Delete(t, b, k)) = Filed(t) \ {<<Home(b), e>>}
    BY <2>3, <2>4
  <2> QED
    BY <2>5, <2>6
<1> QED
  BY <1>1, <1>2, <1>3, HuntHits

(* A lookup finds a filed entry of the bucket with the key, if any.        *)
LEMMA LookupFiles ==
  ASSUME NEW t, TableInv(t), NEW b \in Word, b + K <= MaxWord + 1, NEW k
  PROVE  \/ Lookup(t, b, k) = 0 /\ Misses(t, b, k)
         \/ \E e \in Entry :
              e.key = k /\ <<Home(b), e>> \in Filed(t) /\ Lookup(t, b, k) = e.val
<1>1. CASE Hunt(t, b, k) = NoDistance /\ Misses(t, b, k)
  BY <1>1 DEF Lookup
<1>2. CASE \E e \in Entry : Hits(t, b, k, e)
  BY <1>2 DEF Lookup, Hits
<1> QED
  BY <1>1, <1>2, HuntHits

(* A lookup in the wrong bucket, or one whose sum wraps around, may read   *)
(* any slot, but what it returns then is the value of a filed entry.       *)
LEMMA LookupAny ==
  ASSUME NEW t, TableInv(t), NEW b \in Word, NEW k, Lookup(t, b, k) # 0
  PROVE  \E f \in Filed(t) : Lookup(t, b, k) = f[2].val
<1> DEFINE h == Home(b)
           hits == { c \in t.H[h] : EntryAt(t, b, c).key = k }
           d == Hunt(t, b, k)
           s == ((b + d) % (MaxWord + 1)) % N
<1>1. d # NoDistance /\ Lookup(t, b, k) = t.V[s].val
  BY DEF Lookup, EntryAt
<1>2. d \in Nat
  <2>1. hits # {} /\ d = Least(hits)
    BY <1>1 DEF Hunt
  <2>2. hits \in SUBSET Nat
    BY HomeFacts, TableAssumption DEF TableInv, Tables, Distance
  <2> HIDE DEF hits, d
  <2> QED
    BY <2>1, <2>2, LeastFacts
<1>3. s \in Slot
  <2> DEFINE a == b + d
             m == MaxWord + 1
             w == a % m
  <2>1. a \in Nat /\ m \in Nat \ {0}
    BY <1>2, TableAssumption DEF Word
  <2>2. w \in Nat
    <3> HIDE DEF a, m
    <3> QED
      BY <2>1
  <2>3. w % N \in Slot
    <3> HIDE DEF w
    <3> QED
      BY <2>2, Wrap
  <2> QED
    BY <2>3
<1> HIDE DEF s, d
<1>4. s \in Occupied(t) /\ t.V[s] \in Entry
  <2>1. t.V[s].val # 0
    BY <1>1
  <2> QED
    BY <1>3, <2>1 DEF Occupied, FreeSlot, TableInv, Tables
<1>5. PICK g \in Slot : \E c \in t.H[g] : SlotAt(g, c) = s
  BY <1>4 DEF TableInv, Agree
<1>6. Places(t, g, t.V[s]) # {}
  BY <1>5 DEF Places
<1>7. <<g, t.V[s]>> \in Filed(t)
  BY <1>4, <1>6, FiledIs
<1> QED
  BY <1>1, <1>7
=============================================================================

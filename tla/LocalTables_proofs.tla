-------------------------- MODULE LocalTables_proofs --------------------------
(***************************************************************************)
(* The safety of LocalTables for every region size and every set of        *)
(* processes, keys and share keys, when a process looks no key up that it  *)
(* has been told of and has not removed.                                   *)
(***************************************************************************)
EXTENDS LocalTables, LRULinks_proofs

(* What a process tells the others of a stored element is a hash.          *)
HashKept == \A s \in Allocated(links) : hash[s] \in Keys

(* A process that has no LRU_cache has no table that could grow stale      *)
(* unnoticed.                                                              *)
OutEmpty == \A p \in Procs \ joined : table[p] = NoTable

(* A walk is that of a process with an LRU_cache, and stands on an element *)
(* of the list or at its tail.                                             *)
WalkOnList ==
  walk # Idle => /\ walk.proc \in joined
                 /\ walk.at \in Allocated(links) \cup {CtrlTail}

StateType ==
  /\ hash \in [Elements -> Keys \cup {NoKey}]
  /\ share \in [Elements -> ShareKeys \cup {NoShare}]
  /\ joined \subseteq Procs
  /\ table \in [Procs -> [Keys -> Elements \cup {NIL}]]
  /\ pending \in [Procs -> SUBSET Keys]

StateOK == StateType /\ LinkInv /\ HashKept /\ TableTrusted /\ OutEmpty

IInv == StateOK /\ walk \in {Idle} \cup Walks /\ WalkOnList

LEMMA ElementFacts == NIL \notin Elements /\ Allocated(links) \subseteq Elements
BY SlotFacts DEF Allocated

LEMMA TableType == NoTable \in [Keys -> Elements \cup {NIL}]
BY DEF NoTable

-----------------------------------------------------------------------------
(* What the methods of LRU_cache do to a sound state.                      *)

(* The new element was free, so no trusted entry led to it.                *)
LEMMA AddOK ==
  ASSUME StateOK, NEW p \in joined, NEW k \in Keys, add_el(p, k),
         UNCHANGED <<share, joined, pending>>
  PROVE  StateOK'
<1> DEFINE s == links.next[CtrlFree]
<1> USE DEF StateOK
<1>1. CASE s = NIL
  <2>1. UNCHANGED <<links, hash, share, joined, table, pending>>
    BY <1>1, ElementFacts, SlotFacts DEF add_el
  <2> QED
    BY <2>1 DEF StateType, LinkInv, HashKept, TableTrusted, OutEmpty
<1>2. CASE s # NIL
  <2>1. /\ table' = [ table EXCEPT ![p][k] = s ]
        /\ links' = AddLinks(links)
        /\ hash' = [ hash EXCEPT ![s] = k ]
    BY <1>2 DEF add_el
  <2>2. /\ s \in FreeOf(links)
        /\ LinksOK(links')
        /\ Allocated(links') = Allocated(links) \cup {s}
    BY <1>2, <2>1, AddKeeps DEF LinkInv
  <2>3. s \in Elements /\ s \notin Allocated(links)
    BY <2>2 DEF FreeOf, Allocated
  <2>4. StateType'
    BY <2>1, <2>3 DEF StateType
  <2>5. HashKept'
    BY <2>1, <2>2, <2>3, ElementFacts DEF HashKept, StateType
  <2>6. TableTrusted'
    BY <2>1, <2>2, <2>3, ElementFacts DEF TableTrusted, StateType
  <2>7. OutEmpty'
    BY <2>1 DEF OutEmpty, StateType
  <2> QED
    BY <2>2, <2>4, <2>5, <2>6, <2>7 DEF LinkInv
<1> QED
  BY <1>1, <1>2

(* An element that is used stays where the entries expect it, whether the  *)
(* process that uses it knows its hash or not.                             *)
LEMMA TouchOK ==
  ASSUME StateOK, NEW s \in Elements, touch(s),
         UNCHANGED <<hash, share, joined, table, pending>>
  PROVE  StateOK'
<1> USE DEF StateOK
<1>1. LinksOK(links') /\ Allocated(links') = Allocated(links)
  <2>1. CASE links.prev[s] = NIL
    BY <2>1 DEF touch, LinkInv
  <2>2. CASE links.prev[s] # NIL
    <3>1. s \in Allocated(links) /\ links' = TouchLinks(links, s)
      BY <2>2 DEF touch, Allocated
    <3> QED
      BY <3>1, TouchKeeps DEF LinkInv
  <2> QED
    BY <2>1, <2>2
<1> QED
  BY <1>1 DEF StateType, LinkInv, HashKept, TableTrusted, OutEmpty

(* The hash of the deleted element leaves the table of the process that    *)
(* deletes, and every other process is told of it.                         *)
LEMMA DelOK ==
  ASSUME StateOK, NEW p \in joined, NEW s \in Allocated(links), del_el(p, s)
  PROVE  StateOK'
<1> DEFINE h == hash[s]
<1> USE DEF StateOK
<1>1. h \in Keys /\ s \in Elements /\ p \in Procs
  BY ElementFacts DEF HashKept, StateType
<1>2. /\ links' = DelLinks(links, s)
      /\ hash' = [ hash EXCEPT ![s] = NoKey ]
      /\ table' = [ table EXCEPT ![p] = [ k \in Keys |-> IF k = h THEN NIL ELSE table[p][k] ] ]
      /\ pending' = [ q \in Procs |->
                        IF q \in joined \ {p} THEN pending[q] \cup {h} ELSE pending[q] ]
      /\ UNCHANGED <<share, joined>>
  BY <1>1 DEF del_el, Tell, StateType
<1>3. LinksOK(links') /\ Allocated(links') = Allocated(links) \ {s}
  BY <1>2, DelKeeps DEF LinkInv
<1>4. StateType'
  <2>1. hash' \in [Elements -> Keys \cup {NoKey}]
    BY <1>2 DEF StateType
  <2>2. table' \in [Procs -> [Keys -> Elements \cup {NIL}]]
    BY <1>2 DEF StateType
  <2>3. pending' \in [Procs -> SUBSET Keys]
    BY <1>1, <1>2 DEF StateType
  <2> QED
    BY <1>2, <2>1, <2>2, <2>3 DEF StateType
<1>5. HashKept'
  BY <1>1, <1>2, <1>3, ElementFacts DEF HashKept, StateType
<1>6. TableTrusted'
  <2> SUFFICES ASSUME NEW q \in Procs, NEW k \in Keys,
                      table'[q][k] # NIL, k \notin pending'[q]
               PROVE  table'[q][k] \in Allocated(links') /\ hash'[table'[q][k]] = k
    BY DEF TableTrusted
  <2>1. table'[q][k] = table[q][k] /\ k \notin pending[q]
    BY <1>1, <1>2 DEF StateType
  <2>2. table[q][k] \in Allocated(links) /\ hash[table[q][k]] = k
    BY <2>1 DEF TableTrusted
  <2>3. table[q][k] # s
    <3>1. CASE q = p
      BY <1>1, <1>2, <2>2, <3>1 DEF StateType
    <3>2. CASE q \in joined \ {p}
      BY <1>2, <2>2, <3>2
    <3>3. CASE q \notin joined
      BY <2>1, <3>3 DEF OutEmpty, NoTable
    <3> QED
      BY <3>1, <3>2, <3>3
  <2> QED
    BY <1>2, <1>3, <2>1, <2>2, <2>3, ElementFacts DEF StateType
<1>7. OutEmpty'
  BY <1>1, <1>2 DEF OutEmpty, StateType
<1> QED
  BY <1>3, <1>4, <1>5, <1>6, <1>7 DEF LinkInv

(* An empty table can be trusted, told of nothing.                         *)
LEMMA EmptyOK ==
  ASSUME StateOK, NEW p \in Procs, Empty(p), UNCHANGED region,
         joined' \in {joined, joined \cup {p}, joined \ {p}}
  PROVE  StateOK'
<1> USE DEF StateOK
<1>1. /\ table' = [ table EXCEPT ![p] = NoTable ]
      /\ pending' = [ pending EXCEPT ![p] = {} ]
      /\ UNCHANGED <<links, hash, share>>
  BY DEF Empty, region
<1>2. StateType'
  BY <1>1, TableType DEF StateType
<1>3. TableTrusted'
  BY <1>1 DEF TableTrusted, StateType, NoTable
<1>4. OutEmpty'
  BY <1>1 DEF OutEmpty, StateType
<1> QED
  BY <1>1, <1>2, <1>3, <1>4 DEF LinkInv, HashKept

-----------------------------------------------------------------------------
(* The walks.                                                              *)

LEMMA WalksTyped == Idle \notin Walks /\ \A w \in Walks : w.proc \in Procs
<1>1. \A w \in Walks : w.op # "idle" /\ w.proc \in Procs
  BY DEF Walks
<1>2. Idle.op = "idle"
  BY DEF Idle
<1> QED
  BY <1>1, <1>2

(* A walk that moves on stays a walk of the same process.                  *)
LEMMA NextWalk ==
  ASSUME NEW w \in Walks, NEW b \in Slots
  PROVE  LET n == [w EXCEPT !.at = b, !.seen = @ + 1]
         IN  n \in Walks /\ n.proc = w.proc /\ n.at = b
<1>1. [w EXCEPT !.at = b] \in Walks
  BY DEF Walks
<1>2. ASSUME NEW v \in Walks PROVE [v EXCEPT !.seen = w.seen + 1] \in Walks
  BY <1>2 DEF Walks
<1>3. [w EXCEPT !.at = b, !.seen = w.seen + 1]
        = [[w EXCEPT !.at = b] EXCEPT !.seen = w.seen + 1]
  OBVIOUS
<1>4. [w EXCEPT !.at = b, !.seen = w.seen + 1] \in Walks
  BY <1>1, <1>2, <1>3
<1> QED
  BY <1>4 DEF Walks

LEMMA StartOK ==
  ASSUME StateOK, NEW p \in Procs, NEW op \in {"reload", "update"},
         NEW x \in ShareKeys \cup {NoShare}, p \in joined', UNCHANGED links,
         StartWalk(p, op, x)
  PROVE  walk' \in {Idle} \cup Walks /\ WalkOnList'
<1>1. links.next[CtrlHdr] \in Allocated(links) \cup {CtrlTail}
  BY DEF StateOK, LinkInv, LinksOK, ListOver
<1>2. walk' = [op |-> op, proc |-> p, asked |-> x, at |-> links.next[CtrlHdr], seen |-> 0]
  BY DEF StartWalk
<1> QED
  BY <1>1, <1>2, ElementFacts, SlotFacts DEF Walks, WalkOnList

LEMMA WalkStepOK ==
  ASSUME IInv, WalkStep
  PROVE  IInv'
<1> USE DEF IInv, StateOK
<1>1. /\ walk \in Walks /\ walk.proc \in joined
      /\ walk.at \in Allocated(links) \cup {CtrlTail}
      /\ UNCHANGED <<links, hash, share, joined, pending>>
  BY DEF WalkStep, WalkOnList, region
<1>2. CASE walk' = Idle /\ UNCHANGED table
  BY <1>1, <1>2 DEF StateType, LinkInv, HashKept, TableTrusted, OutEmpty, WalkOnList
<1>3. CASE /\ links.next[walk.at] # NIL /\ Map(walk.at)
           /\ walk' = [walk EXCEPT !.at = links.next[@], !.seen = @ + 1]
  <2> DEFINE s == walk.at
             p == walk.proc
  <2>1. ListOver(links, Allocated(links))
    BY DEF LinkInv, LinksOK
  <2>2. s \in Allocated(links) /\ links.next[s] \in Allocated(links) \cup {CtrlTail}
    BY <1>1, <1>3, <2>1 DEF ListOver
  <2>3. links.next[s] \in Slots
    BY <2>2, ElementFacts, SlotFacts
  <2>4. walk' \in Walks /\ walk'.proc = p /\ walk'.at = links.next[s]
    BY <1>1, <1>3, <2>3, NextWalk
  <2>5. WalkOnList'
    BY <1>1, <2>2, <2>4 DEF WalkOnList
  <2>6. table' = table \/ table' = [ table EXCEPT ![p][hash[s]] = s ]
    BY <1>3 DEF Map
  <2>7. p \in Procs /\ s \in Elements /\ hash[s] \in Keys
    BY <1>1, <2>2, WalksTyped, ElementFacts DEF HashKept
  <2>8. StateType'
    <3>1. table' \in [Procs -> [Keys -> Elements \cup {NIL}]]
      BY <2>6, <2>7 DEF StateType
    <3> QED
      BY <1>1, <3>1 DEF StateType
  <2>9. TableTrusted'
    BY <1>1, <2>2, <2>6, <2>7 DEF TableTrusted, StateType
  <2>10. OutEmpty'
    BY <1>1, <2>6, <2>7 DEF OutEmpty, StateType
  <2> QED
    BY <1>1, <2>4, <2>5, <2>8, <2>9, <2>10 DEF LinkInv, HashKept
<1> QED
  BY <1>2, <1>3 DEF WalkStep

-----------------------------------------------------------------------------
(* The invariant holds at the start and every step keeps it.               *)

LEMMA IInit == Init => IInv
<1> SUFFICES ASSUME Init PROVE IInv
  OBVIOUS
<1>1. LinkInv /\ Allocated(links) = {}
  BY SetupKeeps DEF Init, LinkInv
<1>2. StateType
  BY TableType, LocalAssumption DEF Init, StateType
<1>3. TableTrusted
  BY DEF Init, TableTrusted, NoTable
<1> QED
  BY <1>1, <1>2, <1>3 DEF Init, IInv, StateOK, HashKept, OutEmpty, WalkOnList

LEMMA IStep ==
  ASSUME Disciplined, IInv, [Next]_vars
  PROVE  IInv'
<1> USE DEF IInv
<1>1. StateOK /\ StateType
  BY DEF StateOK
<1>2. ASSUME walk' = Idle, StateOK' PROVE IInv'
  BY <1>2 DEF WalkOnList
<1>3. ASSUME NEW p \in Procs, NEW k \in Keys, SetEl(p, k) PROVE IInv'
  <2>1. CASE table[p][k] = NIL
    BY <1>1, <1>2, <1>3, <2>1, AddOK, ElementFacts DEF SetEl, MayCall, add_el
  <2>2. CASE table[p][k] # NIL
    <3>1. table[p][k] \in Elements
      BY <1>1, <2>2 DEF StateType
    <3> QED
      BY <1>1, <1>2, <1>3, <2>2, <3>1, TouchOK DEF SetEl, MayCall
  <2> QED
    BY <2>1, <2>2
<1>4. ASSUME NEW p \in Procs, NEW k \in Keys, GetElHash(p, k) PROVE IInv'
  <2>1. table[p][k] \in Elements
    BY <1>1, <1>4 DEF GetElHash, StateType
  <2> QED
    BY <1>1, <1>2, <1>4, <2>1, TouchOK DEF GetElHash, MayCall
<1>5. ASSUME NEW p \in Procs, NEW k \in Keys, DelKey(p, k) PROVE IInv'
  <2>1. table[p][k] \in Allocated(links)
    BY <1>1, <1>5 DEF DelKey, MayLookUp, StateOK, TableTrusted
  <2>2. p \in joined /\ del_el(p, table[p][k]) /\ walk' = Idle
    BY <1>5 DEF DelKey, MayCall, del_el
  <2> QED
    BY <1>1, <1>2, <2>1, <2>2, DelOK
<1>6. ASSUME NEW p \in Procs, NEW k \in Keys, RemoveKey(p, k) PROVE IInv'
  <2>1. /\ table' = [ table EXCEPT ![p][k] = NIL ]
        /\ pending' = [ pending EXCEPT ![p] = @ \ {k} ]
        /\ UNCHANGED <<links, hash, share, joined>>
        /\ p \in joined /\ walk' = Idle
    BY <1>6 DEF RemoveKey, MayCall, region
  <2>2. StateType'
    BY <1>1, <2>1 DEF StateType
  <2>3. TableTrusted'
    BY <1>1, <2>1 DEF StateOK, StateType, TableTrusted
  <2>4. OutEmpty'
    BY <1>1, <2>1 DEF StateOK, StateType, OutEmpty
  <2> QED
    BY <1>1, <1>2, <2>1, <2>2, <2>3, <2>4 DEF StateOK, LinkInv, HashKept
<1>7. ASSUME NEW p \in Procs, NEW s \in Elements, GetEl(p, s) PROVE IInv'
  BY <1>1, <1>2, <1>7, TouchOK DEF GetEl, MayCall
<1>8. ASSUME NEW p \in Procs, NEW s \in Elements, DelEl(p, s) PROVE IInv'
  BY <1>1, <1>2, <1>8, DelOK DEF DelEl, MayCall, del_el
<1>9. ASSUME NEW p \in Procs, NEW s \in Elements, NEW x \in ShareKeys, SetShareKey(p, s, x)
      PROVE IInv'
  <2>1. /\ share' = [ share EXCEPT ![s] = x ]
        /\ UNCHANGED <<links, hash, joined, table, pending>>
        /\ walk' = Idle
    BY <1>9 DEF SetShareKey, MayCall
  <2>2. StateType'
    BY <1>1, <2>1 DEF StateType
  <2> QED
    BY <1>1, <1>2, <2>1, <2>2 DEF StateOK, LinkInv, HashKept, TableTrusted, OutEmpty
<1>10. ASSUME NEW p \in Procs, ReloadHashMap(p) PROVE IInv'
  <2>1. p \in joined' /\ joined' = joined /\ UNCHANGED region /\ UNCHANGED links
    BY <1>10 DEF ReloadHashMap, MayCall, region
  <2>2. StateOK'
    BY <1>1, <1>10, <2>1, EmptyOK DEF ReloadHashMap
  <2>3. walk' \in {Idle} \cup Walks /\ WalkOnList'
    BY <1>1, <1>10, <2>1, StartOK DEF ReloadHashMap
  <2> QED
    BY <2>2, <2>3
<1>11. ASSUME NEW p \in Procs, NEW x \in ShareKeys, ReloadHashMapUpdate(p, x) PROVE IInv'
  <2>1. p \in joined' /\ UNCHANGED <<links, hash, share, joined, table, pending>>
    BY <1>11 DEF ReloadHashMapUpdate, MayCall, region
  <2>2. StateOK'
    BY <1>1, <2>1 DEF StateOK, StateType, LinkInv, HashKept, TableTrusted, OutEmpty
  <2>3. walk' \in {Idle} \cup Walks /\ WalkOnList'
    BY <1>1, <1>11, <2>1, StartOK DEF ReloadHashMapUpdate
  <2> QED
    BY <2>2, <2>3
<1>12. ASSUME NEW p \in Procs, Join(p) PROVE IInv'
  <2>1. p \in joined' /\ joined' = joined \cup {p} /\ UNCHANGED region /\ UNCHANGED links
    BY <1>12 DEF Join, region
  <2>2. StateOK'
    BY <1>1, <1>12, <2>1, EmptyOK DEF Join
  <2>3. walk' \in {Idle} \cup Walks /\ WalkOnList'
    BY <1>1, <1>12, <2>1, StartOK DEF Join
  <2> QED
    BY <2>2, <2>3
<1>13. ASSUME NEW p \in Procs, Leave(p) PROVE IInv'
  <2>1. joined' = joined \ {p} /\ UNCHANGED region /\ walk' = Idle
    BY <1>13 DEF Leave, MayCall
  <2> QED
    BY <1>1, <1>2, <1>13, <2>1, EmptyOK DEF Leave
<1>14. CASE WalkStep
  BY <1>14, WalkStepOK
<1>15. CASE UNCHANGED vars
  BY <1>1, <1>15
  DEF vars, region, StateOK, StateType, LinkInv, HashKept, TableTrusted, OutEmpty, WalkOnList
<1> QED
  BY <1>3, <1>4, <1>5, <1>6, <1>7, <1>8, <1>9, <1>10, <1>11, <1>12, <1>13, <1>14, <1>15
  DEF Next

(* Processes that keep their discipline: every call keeps IInv.           *)
THEOREM Invariance == ASSUME Disciplined PROVE Spec => []IInv
<1>1. IInv /\ [Next]_vars => IInv'
  BY IStep
<1> QED
  BY <1>1, IInit, PTL DEF Spec

-----------------------------------------------------------------------------
(* No call of any process takes a variable out of its type: what a process *)
(* tells the others is always a hash of theirs.                            *)
THEOREM TypeCorrect == ASSUME Disciplined PROVE Spec => []TypeOK
<1>1. IInv => TypeOK
  BY DEF IInv, StateOK, StateType, LinkInv, LinksOK, TypeOK
<1> QED
  BY <1>1, Invariance, PTL

(* However the calls of the processes follow one another, the two lists    *)
(* stay linked as add_el, touch and del_el expect them.                    *)
THEOREM LinksCorrect == ASSUME Disciplined PROVE Spec => []LinkInv
<1>1. IInv => LinkInv
  BY DEF IInv, StateOK
<1> QED
  BY <1>1, Invariance, PTL

(* A process that removes what it is told of before it looks it up is      *)
(* never led to the element of another key by its private table.           *)
THEOREM TrustCorrect == ASSUME Disciplined PROVE Spec => []TableTrusted
<1>1. IInv => TableTrusted
  BY DEF IInv, StateOK
<1> QED
  BY <1>1, Invariance, PTL

-----------------------------------------------------------------------------
(* What a reload finds.                                                    *)

(* V is what a walk has behind it.                                         *)
Behind(V) == FrontPart(links, V, walk.at) /\ Cardinality(V) = walk.seen

(* A reload has mapped what it has behind it.                              *)
ReloadInv ==
  walk # Idle => \E V \in SUBSET Allocated(links) :
    /\ Behind(V)
    /\ walk.op = "reload" => \A v \in V : table[walk.proc][hash[v]] # NIL

FullInv == Threaded(links) /\ ReloadInv

LEMMA LinkSteps ==
  ASSUME Disciplined, IInv, [Next]_vars
  PROVE  \/ links' = links
         \/ links.next[CtrlFree] # NIL /\ links' = AddLinks(links)
         \/ \E s \in Allocated(links) :
              links' = TouchLinks(links, s) \/ links' = DelLinks(links, s)
<1> DEFINE Moves == \/ links' = links
                    \/ links.next[CtrlFree] # NIL /\ links' = AddLinks(links)
                    \/ \E s \in Allocated(links) :
                         links' = TouchLinks(links, s) \/ links' = DelLinks(links, s)
<1> SUFFICES Moves
  OBVIOUS
<1>1. StateType /\ TableTrusted
  BY DEF IInv, StateOK
<1>2. ASSUME NEW s \in Elements, touch(s) PROVE Moves
  BY <1>2 DEF touch, Allocated
<1>3. ASSUME NEW p, NEW s \in Allocated(links), del_el(p, s) PROVE Moves
  BY <1>3 DEF del_el
<1>4. CASE links' = links
  BY <1>4
<1>5. ASSUME NEW p \in Procs, NEW k \in Keys, SetEl(p, k) PROVE Moves
  <2>1. CASE table[p][k] = NIL
    BY <1>5, <2>1 DEF SetEl, add_el
  <2>2. CASE table[p][k] # NIL
    <3>1. table[p][k] \in Elements /\ touch(table[p][k])
      BY <1>1, <1>5, <2>2 DEF SetEl, StateType
    <3> QED
      BY <1>2, <3>1
  <2> QED
    BY <2>1, <2>2
<1> HIDE DEF Moves
<1>6. ASSUME NEW p \in Procs, NEW k \in Keys, GetElHash(p, k) PROVE Moves
  <2>1. table[p][k] \in Elements
    BY <1>1, <1>6 DEF GetElHash, StateType
  <2> QED
    BY <1>2, <1>6, <2>1 DEF GetElHash
<1>7. ASSUME NEW p \in Procs, NEW k \in Keys, DelKey(p, k) PROVE Moves
  <2>1. table[p][k] \in Allocated(links)
    BY <1>1, <1>7 DEF DelKey, MayLookUp, TableTrusted
  <2> QED
    BY <1>3, <1>7, <2>1 DEF DelKey
<1>8. ASSUME NEW p \in Procs, NEW s \in Elements, GetEl(p, s) PROVE Moves
  BY <1>2, <1>8 DEF GetEl
<1>9. ASSUME NEW p \in Procs, NEW s \in Elements, DelEl(p, s) PROVE Moves
  BY <1>3, <1>9 DEF DelEl
<1>10. CASE \E p \in Procs :
              \/ \E k \in Keys : RemoveKey(p, k)
              \/ \E s \in Elements, x \in ShareKeys : SetShareKey(p, s, x)
              \/ ReloadHashMap(p) \/ \E x \in ShareKeys : ReloadHashMapUpdate(p, x)
              \/ Join(p) \/ Leave(p)
  BY <1>4, <1>10
  DEF RemoveKey, SetShareKey, ReloadHashMap, ReloadHashMapUpdate, Join, Leave, region
<1>11. CASE WalkStep \/ UNCHANGED vars
  BY <1>4, <1>11 DEF WalkStep, region, vars
<1> QED
  BY <1>5, <1>6, <1>7, <1>8, <1>9, <1>10, <1>11 DEF Next

(* A call that walks starts with nothing behind it.                        *)
LEMMA ReloadStarts ==
  ASSUME IInv, NEW p, NEW op, NEW x, StartWalk(p, op, x), UNCHANGED region
  PROVE  ReloadInv'
<1>1. /\ walk'.at = links.next[CtrlHdr] /\ walk'.seen = 0
      /\ LinksOK(links) /\ links' = links
  BY DEF StartWalk, region, IInv, StateOK, LinkInv
<1>2. FrontPart(links', {}, walk'.at) /\ Cardinality({}) = walk'.seen
  BY <1>1, FrontStarts
<1> QED
  BY <1>2 DEF ReloadInv, Behind

LEMMA ReloadMoves ==
  ASSUME IInv, ReloadInv, WalkStep, walk' # Idle
  PROVE  ReloadInv'
<1>1. /\ walk \in Walks /\ LinksOK(links) /\ links.next[walk.at] # NIL /\ Map(walk.at)
      /\ walk' = [walk EXCEPT !.at = links.next[@], !.seen = @ + 1]
      /\ walk.at \in Allocated(links) \cup {CtrlTail}
      /\ StateType /\ HashKept /\ walk.proc \in Procs /\ UNCHANGED region
  BY WalksTyped DEF WalkStep, IInv, StateOK, LinkInv, WalkOnList
<1>2. PICK V \in SUBSET Allocated(links) :
        /\ Behind(V)
        /\ walk.op = "reload" => \A v \in V : table[walk.proc][hash[v]] # NIL
  BY <1>1, WalksTyped DEF ReloadInv, WalkStep
<1>3. PICK a : a = walk.at
  OBVIOUS
<1>4. a \in Allocated(links)
  BY <1>1, <1>3 DEF LinksOK, ListOver
<1>5. /\ FrontPart(links, V \cup {a}, links.next[a])
      /\ Cardinality(V \cup {a}) = walk.seen + 1
  BY <1>1, <1>2, <1>3, <1>4, FrontGrows DEF Behind
<1>6. /\ walk'.op = walk.op /\ walk'.proc = walk.proc
      /\ walk'.at = links.next[a] /\ walk'.seen = walk.seen + 1
  BY <1>1, <1>3 DEF Walks
<1>7. ASSUME walk.op = "reload", NEW v \in V \cup {a}
      PROVE  table'[walk.proc][hash[v]] # NIL
  <2>1. table' = [ table EXCEPT ![walk.proc][hash[a]] = a ]
    BY <1>1, <1>3, <1>7 DEF Map, Filtered
  <2>2. hash[v] \in Keys /\ a # NIL
    BY <1>1, <1>2, <1>4, ElementFacts DEF HashKept
  <2> QED
    BY <1>1, <1>2, <1>7, <2>1, <2>2 DEF StateType
<1>8. V \cup {a} \in SUBSET Allocated(links') /\ links' = links /\ hash' = hash
  BY <1>1, <1>2, <1>4 DEF region
<1>9. Behind(V \cup {a})'
  BY <1>5, <1>6, <1>8 DEF Behind
<1> QED
  BY <1>6, <1>7, <1>8, <1>9 DEF ReloadInv

LEMMA FullStep ==
  ASSUME Disciplined, IInv, FullInv, [Next]_vars
  PROVE  FullInv'
<1> USE DEF FullInv
<1>1. Threaded(links)'
  BY LinkSteps, AddThreads, TouchThreads, DelThreads
<1>2. ASSUME walk' = Idle PROVE ReloadInv'
  BY <1>2 DEF ReloadInv
<1>3. ASSUME NEW p \in Procs, ReloadHashMap(p) \/ Join(p) PROVE ReloadInv'
  BY <1>3, ReloadStarts DEF ReloadHashMap, Join
<1>4. ASSUME NEW p \in Procs, NEW x \in ShareKeys, ReloadHashMapUpdate(p, x) PROVE ReloadInv'
  BY <1>4, ReloadStarts DEF ReloadHashMapUpdate
<1>5. ASSUME WalkStep PROVE ReloadInv'
  BY <1>2, <1>5, ReloadMoves
<1>6. ASSUME NEW p \in Procs,
             \/ \E k \in Keys : SetEl(p, k) \/ GetElHash(p, k) \/ DelKey(p, k) \/ RemoveKey(p, k)
             \/ \E s \in Elements :
                  \/ GetEl(p, s) \/ DelEl(p, s)
                  \/ \E x \in ShareKeys : SetShareKey(p, s, x)
             \/ Leave(p)
      PROVE  ReloadInv'
  BY <1>2, <1>6
  DEF SetEl, GetElHash, DelKey, RemoveKey, GetEl, DelEl, SetShareKey, Leave, MayCall, del_el
<1>7. ASSUME UNCHANGED vars PROVE ReloadInv'
  BY <1>7 DEF vars, region, ReloadInv, Behind
<1> QED
  BY <1>1, <1>3, <1>4, <1>5, <1>6, <1>7 DEF Next

LEMMA FullInit == Init => FullInv
BY SetupThreads DEF Init, FullInv, ReloadInv

(* A process that joins, or clears its table and reloads it, finds every   *)
(* hash that is stored, however long the list is, unless it fills the      *)
(* region: the walk meets every stored element before it gives up.         *)
THEOREM ReloadFindsAll == ASSUME Disciplined PROVE Spec => ReloadComplete
<1> DEFINE Found == Returns("reload") /\ Cardinality(Allocated(links)) < WholeCount
                      => \A s \in Allocated(links) : table'[walk.proc][hash[s]] # NIL
<1>1. IInv /\ FullInv /\ [Next]_vars => [Found]_vars
  <2> SUFFICES ASSUME IInv, FullInv, Next, Returns("reload"),
                      Cardinality(Allocated(links)) < WholeCount,
                      NEW s \in Allocated(links)
               PROVE  table'[walk.proc][hash[s]] # NIL
    OBVIOUS
  <2>1. WalkStep /\ walk # Idle /\ walk' = Idle /\ walk.op = "reload"
    <3>1. walk # Idle /\ walk' = Idle /\ walk.op = "reload"
      BY DEF Returns
    <3> QED
      BY <3>1
      DEF Next, SetEl, GetElHash, DelKey, RemoveKey, GetEl, DelEl, SetShareKey,
          ReloadHashMap, ReloadHashMapUpdate, Join, Leave, MayCall
  <2>2. /\ walk \in Walks /\ LinksOK(links)
        /\ walk.at \in Allocated(links) \cup {CtrlTail}
    BY <2>1 DEF IInv, StateOK, LinkInv, WalkOnList
  <2>3. table' = table /\ (links.next[walk.at] = NIL \/ GivesUp)
    <3>1. [walk EXCEPT !.at = links.next[@], !.seen = @ + 1].op = walk.op
      BY <2>2 DEF Walks
    <3>2. Idle.op # walk.op
      BY <2>1 DEF Idle
    <3> QED
      BY <2>1, <3>1, <3>2 DEF WalkStep
  <2>4. PICK V \in SUBSET Allocated(links) :
          Behind(V) /\ \A v \in V : table[walk.proc][hash[v]] # NIL
    BY <2>1 DEF FullInv, ReloadInv
  <2>5. walk.at \notin Allocated(links)
    <3> SUFFICES ASSUME walk.at \in Allocated(links) PROVE FALSE
      OBVIOUS
    <3>1. links.next[walk.at] # NIL
      BY <2>2, SlotFacts DEF LinksOK, ListOver, Allocated
    <3>2. walk.seen + 1 >= WholeCount /\ walk.seen \in Nat
      BY <2>2, <2>3, <3>1 DEF GivesUp, Walks
    <3>3. /\ Cardinality(V \cup {walk.at}) = walk.seen + 1
          /\ Cardinality(V \cup {walk.at}) <= Cardinality(Allocated(links))
      BY <2>2, <2>4, FrontGrows DEF Behind
    <3>4. Cardinality(Allocated(links)) \in Nat
      BY ElementFacts, ElementsFinite
    <3> QED
      BY <3>2, <3>3, <3>4, WholeCountInt
  <2>6. V = Allocated(links)
    BY <2>2, <2>4, <2>5, FrontEnds DEF Behind, FullInv
  <2> QED
    BY <2>3, <2>4, <2>6
<1>2. IInv /\ FullInv /\ [Next]_vars => FullInv'
  BY FullStep
<1> QED
  BY <1>1, <1>2, FullInit, Invariance, PTL DEF Spec, ReloadComplete
=============================================================================

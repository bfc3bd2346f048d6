-------------------------- MODULE Segments_proofs --------------------------
(***************************************************************************)
(* The safety of Segments for every number of processes, keys, segments,   *)
(* addresses and Buffers, and for callers that do any number of the things *)
(* the native module does not keep them from.                              *)
(***************************************************************************)
EXTENDS Segments, SequenceTheorems, TLAPS

Detachers == {"detach", "free", "all"}

Elems(s) == { s[i] : i \in DOMAIN s }
Recs(p)  == Elems(info[p])

(* What the call of p is detaching, and what is left of it to detach.      *)
Current(p) == <<call[p].id, call[p].addr>>
Left(p) == Elems(call[p].rest) \cup (IF call[p].at = "shmdt" THEN {Current(p)} ELSE {})

OneEach(s) == \A i, j \in DOMAIN s : s[i][1] = s[j][1] => i = j

(* The arrays name a segment once, and a call removes what it detaches.    *)
BookInv(p) ==
  /\ OneEach(info[p])
  /\ call[p].op \in Detachers /\ call[p].at # "shmdt" => att[p][call[p].addr] = Nothing
  /\ call[p].op = "detach" => Current(p) \in Recs(p)
  /\ call[p].op = "all" =>
       OneEach(call[p].rest) /\ \A r \in Elems(call[p].rest) : r[1] # call[p].id

(* A get that is no second one will have no record in its way.             *)
FreshInv(p) ==
  call[p].op = "get" /\ Spared(p, call[p].id, {"second_get"}) =>
    \A r \in Recs(p) : r[1] # call[p].id

(* Every attach is recorded, and detachAll has yet to come to it.          *)
RecordedInv(p) ==
  \A a \in Addrs : att[p][a] # Nothing /\ Spared(p, att[p][a], {"second_get", "unrecord"}) =>
    /\ <<att[p][a], a>> \in Recs(p)
    /\ call[p].op = "all" => <<att[p][a], a>> \in Left(p)

(* The records of a segment that is unmapped, before they are removed.     *)
Emptied(p, r) ==
  call[p].op \in {"detach", "free"} /\ call[p].at # "shmdt" /\ r[1] = call[p].id

AttachedInv(p) ==
  call[p].op # "all" =>
    \A r \in Recs(p) : Exists(r[1]) /\ Spared(p, r[1], {"unmap"}) =>
      Emptied(p, r) \/ att[p][r[2]] = r[1]

(* A segment that a handle mentions is not created again under another key.*)
KeyedInv(p) ==
  /\ \A k \in LRUKeys : lru[p][k] # Nothing => keyOf[lru[p][k][1]] \in {k, NoKey}
  /\ \A k \in MapKeys : hmap[p][k] # Nothing => keyOf[hmap[p][k][1]] \in {k, NoKey}

(* The handle h is mapped, and detach is not about to unmap it.            *)
Safe(p, h) ==
  h # Nothing /\ Spared(p, h[1], {"unmap", "in_use", "go_on"}) =>
    att[p][h[2]] = h[1] /\ (call[p].op = "detach" => h[1] # call[p].id)

HandlesInv(p) ==
  call[p].op # "all" =>
    /\ \A k \in LRUKeys : Safe(p, lru[p][k])
    /\ \A k \in MapKeys : Safe(p, hmap[p][k])

ProcInv(p) ==
  BookInv(p) /\ FreshInv(p) /\ RecordedInv(p) /\ AttachedInv(p) /\ KeyedInv(p)
  /\ HandlesInv(p)

SegInv ==
  /\ TypeOK
  /\ \A p \in Procs : ProcInv(p)
  /\ NoOrphan

-----------------------------------------------------------------------------
(* What happens to the records of a process, as sets.                      *)

(* The empty sequence has no elements.                                     *)
LEMMA EmptyFacts ==
  <<>> \in Seq(Region) /\ Elems(<<>>) = {} /\ OneEach(<<>>)
BY DEF Elems, OneEach

(* addShmSegmentInfo of a segment that is not in the array.                *)
LEMMA AppendFacts ==
  ASSUME NEW s \in Seq(Region), NEW r \in Region
  PROVE  /\ Append(s, r) \in Seq(Region)
         /\ Elems(Append(s, r)) = Elems(s) \cup {r}
         /\ OneEach(s) /\ (\A e \in Elems(s) : e[1] # r[1]) => OneEach(Append(s, r))
<1> DEFINE t == Append(s, r)
<1>1. /\ t \in Seq(Region) /\ Len(s) \in Nat /\ DOMAIN s = 1 .. Len(s)
      /\ DOMAIN t = 1 .. Len(s) + 1
      /\ t[Len(s) + 1] = r
      /\ \A i \in 1 .. Len(s) : t[i] = s[i]
  BY AppendProperties
<1> HIDE DEF t
<1>2. Elems(t) = Elems(s) \cup {r}
  BY <1>1 DEF Elems
<1>3. OneEach(s) /\ (\A e \in Elems(s) : e[1] # r[1]) => OneEach(t)
  BY <1>1 DEF Elems, OneEach
<1> QED
  BY <1>1, <1>2, <1>3 DEF t

(* removeShmSegmentInfo takes out the one record of its segment.           *)
LEMMA MovedUpFacts ==
  ASSUME NEW s \in Seq(Region), NEW n \in DOMAIN s, OneEach(s)
  PROVE  /\ MovedUp(s, n) \in Seq(Region)
         /\ Elems(MovedUp(s, n)) = { r \in Elems(s) : r[1] # s[n][1] }
         /\ OneEach(MovedUp(s, n))
<1> DEFINE t == MovedUp(s, n)
           From(i) == IF i < n THEN i ELSE i + 1
<1>1. /\ Len(s) \in Nat /\ DOMAIN s = 1 .. Len(s) /\ \A i \in 1 .. Len(s) : s[i] \in Region
      /\ n \in 1 .. Len(s) /\ Len(s) - 1 \in Nat
  BY LenProperties, ElementOfSeq
<1>2. /\ DOMAIN t = 1 .. Len(s) - 1
      /\ \A i \in 1 .. Len(s) - 1 : From(i) \in 1 .. Len(s) /\ From(i) # n /\ t[i] = s[From(i)]
  BY <1>1 DEF MovedUp
<1>3. t \in [1 .. Len(s) - 1 -> Region]
  BY <1>1 DEF MovedUp
<1>4. t \in Seq(Region)
  BY <1>1, <1>3, SeqDef
<1> HIDE DEF t
<1>5. OneEach(t)
  <2> SUFFICES ASSUME NEW i \in 1 .. Len(s) - 1, NEW j \in 1 .. Len(s) - 1, t[i][1] = t[j][1]
               PROVE  i = j
    BY <1>2 DEF OneEach
  <2> HIDE DEF From
  <2>1. /\ From(i) \in 1 .. Len(s) /\ t[i] = s[From(i)]
        /\ From(j) \in 1 .. Len(s) /\ t[j] = s[From(j)]
    BY <1>2
  <2>2. From(i) = From(j)
    BY <1>1, <2>1 DEF OneEach
  <2>3. n \in Int /\ i \in Int /\ j \in Int
    BY <1>1
  <2>4. CASE i < n
    BY <2>2, <2>3, <2>4 DEF From
  <2>5. CASE ~(i < n)
    BY <2>2, <2>3, <2>5 DEF From
  <2> QED
    BY <2>4, <2>5
<1>6. Elems(t) \subseteq { r \in Elems(s) : r[1] # s[n][1] }
  <2> SUFFICES ASSUME NEW i \in 1 .. Len(s) - 1
               PROVE  t[i] \in Elems(s) /\ t[i][1] # s[n][1]
    BY <1>2 DEF Elems
  <2>1. From(i) \in DOMAIN s /\ From(i) # n /\ t[i] = s[From(i)]
    BY <1>1, <1>2
  <2> HIDE DEF From
  <2> QED
    BY <2>1 DEF Elems, OneEach
<1>7. { r \in Elems(s) : r[1] # s[n][1] } \subseteq Elems(t)
  <2> SUFFICES ASSUME NEW i \in 1 .. Len(s), s[i][1] # s[n][1]
               PROVE  s[i] \in Elems(t)
    BY <1>1 DEF Elems
  <2>1. i # n
    OBVIOUS
  <2>2. PICK j \in 1 .. Len(s) - 1 : From(j) = i
    <3>1. CASE i < n
      BY <1>1, <3>1
    <3>2. CASE i > n
      <4>1. i - 1 \in 1 .. Len(s) - 1 /\ From(i - 1) = i
        BY <1>1, <3>2
      <4> QED
        BY <4>1
    <3> QED
      BY <1>1, <2>1, <3>1, <3>2
  <2>3. t[j] = s[i]
    BY <1>2, <2>2
  <2> QED
    BY <1>2, <2>3 DEF Elems
<1> QED
  BY <1>4, <1>5, <1>6, <1>7 DEF t

(* detachAll takes the records one after the other.                        *)
LEMMA HeadTailFacts ==
  ASSUME NEW s \in Seq(Region), s # <<>>
  PROVE  /\ Head(s) \in Region /\ Tail(s) \in Seq(Region)
         /\ Elems(s) = {Head(s)} \cup Elems(Tail(s))
         /\ OneEach(s) => OneEach(Tail(s)) /\ \A r \in Elems(Tail(s)) : r[1] # Head(s)[1]
<1> DEFINE t == Tail(s)
<1>1. /\ Len(s) \in Nat \ {0} /\ DOMAIN s = 1 .. Len(s)
      /\ Head(s) \in Region /\ t \in Seq(Region) /\ Head(s) = s[1]
      /\ DOMAIN t = 1 .. Len(s) - 1
      /\ \A i \in 1 .. Len(s) - 1 : t[i] = s[i + 1]
  BY HeadTailProperties, LenProperties, EmptySeq
<1> HIDE DEF t
<1>2. Elems(s) \subseteq {Head(s)} \cup Elems(t)
  <2> SUFFICES ASSUME NEW i \in 1 .. Len(s), i # 1
               PROVE  s[i] \in Elems(t)
    BY <1>1 DEF Elems
  <2>1. i - 1 \in DOMAIN t /\ t[i - 1] = s[i]
    BY <1>1
  <2> QED
    BY <2>1 DEF Elems
<1>3. {Head(s)} \cup Elems(t) \subseteq Elems(s)
  BY <1>1 DEF Elems
<1>4. ASSUME OneEach(s) PROVE OneEach(t) /\ \A r \in Elems(t) : r[1] # Head(s)[1]
  <2>1. OneEach(t)
    <3> SUFFICES ASSUME NEW i \in 1 .. Len(s) - 1, NEW j \in 1 .. Len(s) - 1, t[i][1] = t[j][1]
                 PROVE  i = j
      BY <1>1 DEF OneEach
    <3>1. i + 1 \in DOMAIN s /\ j + 1 \in DOMAIN s /\ s[i + 1][1] = s[j + 1][1]
      BY <1>1
    <3>2. i + 1 = j + 1
      BY <1>4, <3>1 DEF OneEach
    <3> QED
      BY <3>2
  <2>2. ASSUME NEW i \in 1 .. Len(s) - 1 PROVE t[i][1] # s[1][1]
    <3>1. i + 1 \in DOMAIN s /\ 1 \in DOMAIN s /\ i + 1 # 1 /\ t[i] = s[i + 1]
      BY <1>1
    <3> QED
      BY <1>4, <3>1 DEF OneEach
  <2> QED
    BY <1>1, <2>1, <2>2 DEF Elems
<1> QED
  BY <1>1, <1>2, <1>3, <1>4 DEF t

-----------------------------------------------------------------------------
(* Calls, segments and records of one state.                               *)

(* A call is idle, a get or a detach, and its fields are of their types.   *)
LEMMA CallFacts ==
  /\ Idle \in Calls /\ Idle.op = "idle"
  /\ \A c \in Calls : c.op \in {"idle", "get"} \cup Detachers
  /\ \A c \in Calls : c.op = "idle" => c = Idle
  /\ \A c \in Calls : c.op = "get" => c.id \in Ids
  /\ \A c \in Calls : c.op \in Detachers =>
       /\ c = [op |-> c.op, id |-> c.id, addr |-> c.addr, force |-> c.force,
               at |-> c.at, rest |-> c.rest]
       /\ c.id \in Ids /\ c.addr \in Addrs /\ c.force \in BOOLEAN
       /\ c.at \in {"shmdt", "stat", "rmid"} /\ c.rest \in Seq(Region)
BY DEF Calls, Idle, Detachers

(* A segment exists while it has its key or somebody is attached.          *)
LEMMA ExistsFacts ==
  /\ \A id : Exists(id) <=>
       keyOf[id] # NoKey \/ \E p \in Procs, a \in Addrs : att[p][a] = id
  /\ \A id : Exists(id)' <=>
       keyOf'[id] # NoKey \/ \E p \in Procs, a \in Addrs : att'[p][a] = id
  /\ \A id : Attaches(id) = {} <=> \A p \in Procs, a \in Addrs : att[p][a] # id
  /\ \A id : Attaches(id)' = {} <=> \A p \in Procs, a \in Addrs : att'[p][a] # id
<1>1. ASSUME NEW id PROVE Attaches(id) = {} <=> \A p \in Procs, a \in Addrs : att[p][a] # id
  <2>1. \A p \in Procs, a \in Addrs : att[p][a] = id => <<p, a>> \in Attaches(id)
    BY DEF Attaches
  <2>2. \A x \in Attaches(id) : x[1] \in Procs /\ x[2] \in Addrs /\ att[x[1]][x[2]] = id
    BY DEF Attaches
  <2> QED
    BY <2>1, <2>2
<1>2. ASSUME NEW id PROVE Attaches(id)' = {} <=> \A p \in Procs, a \in Addrs : att'[p][a] # id
  <2>1. \A p \in Procs, a \in Addrs : att'[p][a] = id => <<p, a>> \in Attaches(id)'
    BY DEF Attaches
  <2>2. \A x \in Attaches(id)' : x[1] \in Procs /\ x[2] \in Addrs /\ att'[x[1]][x[2]] = id
    BY DEF Attaches
  <2> QED
    BY <2>1, <2>2
<1> QED
  BY <1>1, <1>2 DEF Exists

(* hasShmSegmentInfo and getShmSegmentAddr lead to the record of a segment.*)
LEMMA RecordFacts ==
  ASSUME TypeOK, NEW p \in Procs, NEW id \in Ids
  PROVE  /\ hasShmSegmentInfo(p, id) <=> \E r \in Recs(p) : r[1] = id
         /\ hasShmSegmentInfo(p, id) =>
              /\ IndexOf(p, id) \in DOMAIN info[p] /\ info[p][IndexOf(p, id)][1] = id
              /\ <<id, getShmSegmentAddr(p, id)>> \in Recs(p)
              /\ getShmSegmentAddr(p, id) \in Addrs
         /\ Recs(p) \subseteq Region
<1>1. info[p] \in Seq(Region) /\ \A i \in DOMAIN info[p] : info[p][i] \in Region
  <2>1. info[p] \in Seq(Region)
    BY DEF TypeOK
  <2> QED
    BY <2>1, ElementOfSeq, LenProperties
<1>2. Recs(p) \subseteq Region
  BY <1>1 DEF Recs, Elems
<1>3. hasShmSegmentInfo(p, id) <=> \E r \in Recs(p) : r[1] = id
  BY DEF hasShmSegmentInfo, Recs, Elems
<1>4. ASSUME hasShmSegmentInfo(p, id)
      PROVE  /\ IndexOf(p, id) \in DOMAIN info[p] /\ info[p][IndexOf(p, id)][1] = id
             /\ <<id, getShmSegmentAddr(p, id)>> \in Recs(p)
             /\ getShmSegmentAddr(p, id) \in Addrs
  <2>1. IndexOf(p, id) \in DOMAIN info[p] /\ info[p][IndexOf(p, id)][1] = id
    BY <1>4 DEF hasShmSegmentInfo, IndexOf
  <2>2. info[p][IndexOf(p, id)] = <<id, getShmSegmentAddr(p, id)>>
        /\ getShmSegmentAddr(p, id) \in Addrs
    BY <1>1, <2>1 DEF getShmSegmentAddr, Region
  <2> QED
    BY <2>1, <2>2 DEF Recs, Elems
<1> QED
  BY <1>2, <1>3, <1>4

(* removeShmSegmentInfo removes the record of the segment and no other.    *)
LEMMA RemoveFacts ==
  ASSUME TypeOK, NEW p \in Procs, NEW id \in Ids, OneEach(info[p]),
         removeShmSegmentInfo(p, id)
  PROVE  /\ info' \in [Procs -> Seq(Region)]
         /\ \A q \in Procs \ {p} : info'[q] = info[q]
         /\ OneEach(info'[p])
         /\ Recs(p)' = { r \in Recs(p) : r[1] # id }
<1>1. info \in [Procs -> Seq(Region)] /\ info[p] \in Seq(Region)
  BY DEF TypeOK
<1>2. CASE hasShmSegmentInfo(p, id)
  <2>1. info' = [ info EXCEPT ![p] = MovedUp(info[p], IndexOf(p, id)) ]
    BY <1>2 DEF removeShmSegmentInfo
  <2>2. IndexOf(p, id) \in DOMAIN info[p] /\ info[p][IndexOf(p, id)][1] = id
    BY <1>2, RecordFacts
  <2> DEFINE t == MovedUp(info[p], IndexOf(p, id))
  <2>3. t \in Seq(Region) /\ OneEach(t) /\ Elems(t) = { r \in Elems(info[p]) : r[1] # id }
    BY <1>1, <2>2, MovedUpFacts
  <2> HIDE DEF t
  <2>4. info' = [ info EXCEPT ![p] = t ]
    BY <2>1 DEF t
  <2>5. info'[p] = t
    BY <1>1, <2>4
  <2> QED
    BY <1>1, <2>3, <2>4, <2>5 DEF Recs
<1>3. CASE ~hasShmSegmentInfo(p, id)
  <2>1. info' = info
    BY <1>1, <1>3 DEF removeShmSegmentInfo
  <2>2. \A r \in Recs(p) : r[1] # id
    BY <1>3, RecordFacts
  <2> QED
    BY <1>1, <2>1, <2>2 DEF Recs
<1> QED
  BY <1>2, <1>3

(* A segment that a process mentions is not taken for a new one.           *)
LEMMA MentionFacts ==
  ASSUME NEW q \in Procs
  PROVE  /\ \A r \in Recs(q) : r[1] \in Mentions(q)
         /\ \A k \in LRUKeys : lru[q][k] # Nothing => lru[q][k][1] \in HandleIds(q)
         /\ \A k \in MapKeys : hmap[q][k] # Nothing => hmap[q][k][1] \in HandleIds(q)
         /\ HandleIds(q) \subseteq Mentions(q)
         /\ call[q] # Idle => call[q].id \in Mentions(q)
BY DEF Mentions, HandleIds, Recs, Elems

(* The types of the handles, the records and the call of one process.      *)
LEMMA ProcTypes ==
  ASSUME TypeOK, NEW q \in Procs
  PROVE  /\ \A a \in Addrs : att[q][a] \in Ids \cup {Nothing}
         /\ info[q] \in Seq(Region) /\ Recs(q) \subseteq Region
         /\ \A k \in LRUKeys : lru[q][k] # Nothing => lru[q][k] \in Region
         /\ \A k \in MapKeys : hmap[q][k] # Nothing => hmap[q][k] \in Region
         /\ call[q] \in Calls
         /\ \A b \in Buffers : buffers[q][b] # Nothing => buffers[q][b] \in Region
         /\ \A r \in Region : r[1] \in Ids /\ r[2] \in Addrs /\ r = <<r[1], r[2]>> /\ r # Nothing
<1>1. info[q] \in Seq(Region)
  BY DEF TypeOK
<1>2. Recs(q) \subseteq Region
  BY <1>1, ElementOfSeq, LenProperties DEF Recs, Elems
<1> QED
  BY <1>1, <1>2 DEF TypeOK, Region, Nothing

(* What has befallen a segment in a process.                               *)
LEMMA BefallFacts ==
  ASSUME NEW h \in Harms, NEW p \in Procs, NEW ids, ids \subseteq Ids
  PROVE  /\ Befalls(h, p, ids) \subseteq Harms \X Procs \X Ids
         /\ \A id \in ids : <<h, p, id>> \in Befalls(h, p, ids)
BY DEF Befalls

-----------------------------------------------------------------------------
(* What a step leaves alone.                                               *)

(* The step changes what the system and p remember, and nobody else.       *)
OnlyOf(p) ==
  \A q \in Procs \ {p} :
    /\ att'[q] = att[q] /\ info'[q] = info[q]
    /\ lru'[q] = lru[q] /\ hmap'[q] = hmap[q] /\ call'[q] = call[q]

(* The segments q mentions lose their key or keep it, and do not come back.*)
SegmentsKept(q) ==
  \A id \in Mentions(q) : keyOf'[id] \in {keyOf[id], NoKey} /\ (Exists(id)' => Exists(id))

(* What has befallen a segment is forgotten only when nothing is left of it.*)
HarmsKept(q) ==
  \A h, id : (id \in Mentions(q) \/ Exists(id)) /\ <<h, q, id>> \in spoilt
               => <<h, q, id>> \in spoilt'

(* The call of q goes on with the same, or is none of those that detach.   *)
CallAlike(q) ==
  \/ call'[q] = call[q]
  \/ /\ {call[q].op, call'[q].op} \cap Detachers = {}
     /\ FreshInv(q)'
  \/ /\ call[q].at # "shmdt" /\ call'[q].at # "shmdt"
     /\ call'[q].op = call[q].op /\ call'[q].id = call[q].id
     /\ call'[q].addr = call[q].addr /\ call'[q].rest = call[q].rest

(* A process of which no more changes than that keeps its invariant.       *)
LEMMA Frame ==
  ASSUME TypeOK, NEW q \in Procs, ProcInv(q), HarmsKept(q),
         att'[q] = att[q], info'[q] = info[q],
         \A k \in LRUKeys : lru'[q][k] \in {lru[q][k], Nothing},
         \A k \in MapKeys : hmap'[q][k] \in {hmap[q][k], Nothing},
         CallAlike(q), SegmentsKept(q)
  PROVE  ProcInv(q)'
<1>1. Recs(q)' = Recs(q)
  BY DEF Recs, Elems
<1>2. call'[q].op = "detach" <=> call[q].op = "detach"
  BY DEF CallAlike, Detachers
<1>3. call'[q].op = "all" <=> call[q].op = "all"
  BY DEF CallAlike, Detachers
<1>4. call'[q].op \in Detachers <=> call[q].op \in Detachers
  BY DEF CallAlike
<1>5. call'[q].op \in Detachers =>
        /\ call'[q].op = call[q].op
        /\ call'[q].id = call[q].id /\ call'[q].addr = call[q].addr
        /\ call'[q].rest = call[q].rest
        /\ call'[q].at = "shmdt" <=> call[q].at = "shmdt"
  BY DEF CallAlike
<1>6. \A r : Emptied(q, r)' <=> Emptied(q, r)
  BY <1>4, <1>5 DEF Emptied, Detachers
<1>7. BookInv(q)'
  BY <1>1, <1>2, <1>3, <1>4, <1>5 DEF ProcInv, BookInv, Current, Detachers
<1>8. FreshInv(q)'
  <2>1. CASE call'[q] = call[q]
    <3> SUFFICES ASSUME call[q].op = "get", Spared(q, call[q].id, {"second_get"})'
                 PROVE  \A r \in Recs(q) : r[1] # call[q].id
      BY <1>1, <2>1 DEF FreshInv, Spared
    <3>1. call[q].id \in Mentions(q)
      BY MentionFacts, CallFacts
    <3>2. Spared(q, call[q].id, {"second_get"})
      BY <2>1, <3>1 DEF Spared, HarmsKept
    <3> QED
      BY <3>2 DEF ProcInv, FreshInv
  <2>2. CASE FreshInv(q)'
    BY <2>2
  <2>3. CASE call'[q].op = call[q].op /\ call[q].op # "get"
    BY <2>3 DEF FreshInv
  <2>4. CASE /\ call'[q].op = call[q].op /\ call[q].op = "get"
             /\ call'[q].id = call[q].id
    <3>1. call[q].id \in Mentions(q)
      BY <2>4, MentionFacts, CallFacts
    <3> QED
      BY <1>1, <2>4, <3>1 DEF ProcInv, FreshInv, Spared, HarmsKept
  <2> QED
    BY <2>1, <2>2, <2>3, <2>4 DEF CallAlike
<1>9. call[q].op = "all" => Left(q)' = Left(q)
  BY <1>3, <1>5 DEF Left, Current, Detachers
<1>10. RecordedInv(q)'
  <2> SUFFICES ASSUME NEW a \in Addrs, att[q][a] # Nothing,
                      Spared(q, att[q][a], {"second_get", "unrecord"})'
               PROVE  /\ <<att[q][a], a>> \in Recs(q)
                      /\ call[q].op = "all" => <<att[q][a], a>> \in Left(q)
    BY <1>1, <1>3, <1>9 DEF RecordedInv, Spared
  <2>1. Exists(att[q][a])
    BY ExistsFacts
  <2>2. Spared(q, att[q][a], {"second_get", "unrecord"})
    BY <2>1 DEF Spared, HarmsKept
  <2> QED
    BY <2>2 DEF ProcInv, RecordedInv
<1>11. AttachedInv(q)'
  <2>1. \A r \in Recs(q) : Exists(r[1])' => Exists(r[1])
    BY MentionFacts DEF SegmentsKept
  <2>2. \A r \in Recs(q) : Spared(q, r[1], {"unmap"})' => Spared(q, r[1], {"unmap"})
    BY MentionFacts DEF Spared, HarmsKept
  <2> QED
    BY <1>1, <1>3, <1>6, <2>1, <2>2 DEF ProcInv, AttachedInv, Spared
<1>12. KeyedInv(q)'
  BY MentionFacts DEF ProcInv, KeyedInv, SegmentsKept
<1>13. HandlesInv(q)'
  <2> SUFFICES ASSUME call[q].op # "all"
               PROVE  /\ \A k \in LRUKeys : Safe(q, lru[q][k])'
                      /\ \A k \in MapKeys : Safe(q, hmap[q][k])'
    BY <1>3 DEF HandlesInv
  <2>1. ASSUME NEW h, h[1] \in Mentions(q), Safe(q, h)
        PROVE  h # Nothing /\ (\A x \in {"unmap", "in_use", "go_on"} : <<x, q, h[1]>> \notin spoilt')
                 => att'[q][h[2]] = h[1] /\ (call'[q].op = "detach" => h[1] # call'[q].id)
    BY <1>2, <1>5, <2>1 DEF Safe, Spared, HarmsKept, Detachers
  <2>2. \A k \in LRUKeys : Safe(q, lru[q][k])'
    BY <2>1, MentionFacts DEF ProcInv, HandlesInv, Safe, Spared
  <2>3. \A k \in MapKeys : Safe(q, hmap[q][k])'
    BY <2>1, MentionFacts DEF ProcInv, HandlesInv, Safe, Spared
  <2> QED
    BY <2>2, <2>3
<1> QED
  BY <1>7, <1>8, <1>10, <1>11, <1>12, <1>13 DEF ProcInv

(* So do the processes other than the one that takes the step.             *)
LEMMA Others ==
  ASSUME TypeOK, \A q \in Procs : ProcInv(q), NEW p \in Procs, OnlyOf(p),
         \A q \in Procs \ {p} : SegmentsKept(q) /\ HarmsKept(q)
  PROVE  \A q \in Procs \ {p} : ProcInv(q)'
<1> TAKE q \in Procs \ {p}
<1>1. CallAlike(q)
  BY DEF OnlyOf, CallAlike
<1> QED
  BY <1>1, Frame DEF OnlyOf

(* Detaching and removing segments brings none back.                       *)
LEMMA Shrinks ==
  ASSUME TypeOK, \A q \in Procs, a \in Addrs : att'[q][a] \in {att[q][a], Nothing},
         \A id \in Ids : keyOf'[id] \in {keyOf[id], NoKey}
  PROVE  \A id \in Ids : Exists(id)' => Exists(id)
BY ExistsFacts, NothingAssumption

(* What is mentioned is a segment.                                         *)
LEMMA MentionTypes ==
  ASSUME TypeOK, NEW q \in Procs
  PROVE  Mentions(q) \subseteq Ids /\ HandleIds(q) \subseteq Ids
<1>1. \A i \in DOMAIN info[q] : info[q][i][1] \in Ids
  BY ProcTypes DEF Recs, Elems
<1>2. HandleIds(q) \subseteq Ids
  BY ProcTypes DEF HandleIds
<1>3. \A h \in ({ buffers[q][b] : b \in Buffers } \cup { hashImpl[q][k] : k \in LRUKeys }
               \cup { mutex[q][k] : k \in MutexKeys }) \ {Nothing} : h[1] \in Ids
  BY DEF TypeOK, Region
<1>4. call[q] # Idle => call[q].id \in Ids
  BY ProcTypes, CallFacts DEF Detachers
<1> QED
  BY <1>1, <1>2, <1>3, <1>4 DEF Mentions

(* p is attaching the segment, or has unmapped it and not yet gone on.     *)
About(p, id) ==
  call[p] # Idle /\ call[p].id = id /\ (call[p].op = "get" \/ call[p].at # "shmdt")

Losses == {"second_get", "unrecord", "unmap", "die"}

(* The step leaves a segment that nobody has attached to p or to another.  *)
NoNewOrphan(p) ==
  \A id \in Ids :
    keyOf'[id] # NoKey /\ Attaches(id)' = {} /\ Spared(p, id, Losses)' =>
      \/ About(p, id)'
      \/ keyOf[id] # NoKey /\ Attaches(id) = {} /\ ~About(p, id)

(* What is left to show of a step of p.                                    *)
LEMMA StepOK ==
  ASSUME SegInv, NEW p \in Procs, OnlyOf(p),
         \A q \in Procs \ {p} : SegmentsKept(q), \A q \in Procs : HarmsKept(q),
         TypeOK', ProcInv(p)', NoNewOrphan(p)
  PROVE  SegInv'
<1>1. \A q \in Procs : ProcInv(q)'
  <2>1. \A q \in Procs \ {p} : ProcInv(q)'
    BY Others DEF SegInv
  <2> QED
    BY <2>1
<1>2. NoOrphan'
  <2> SUFFICES ASSUME NEW id \in Ids, keyOf'[id] # NoKey, Attaches(id)' = {},
                      \A q \in Procs : Spared(q, id, Losses)'
               PROVE  \E q \in Procs : About(q, id)'
    BY DEF NoOrphan, Losses, About
  <2>1. CASE About(p, id)'
    BY <2>1
  <2>2. CASE keyOf[id] # NoKey /\ Attaches(id) = {} /\ ~About(p, id)
    <3>1. Exists(id)
      BY <2>2 DEF Exists
    <3>2. \A q \in Procs : Spared(q, id, Losses)
      BY <3>1 DEF Spared, HarmsKept
    <3>3. PICK q \in Procs : About(q, id)
      BY <2>2, <3>2 DEF SegInv, NoOrphan, Losses, About
    <3>4. q # p /\ call'[q] = call[q]
      BY <2>2, <3>3 DEF OnlyOf
    <3> QED
      BY <3>3, <3>4 DEF About
  <2> QED
    BY <2>1, <2>2 DEF NoNewOrphan
<1> QED
  BY <1>1, <1>2 DEF SegInv

(* As long as no segment is new, nothing that befell one is forgotten.     *)
LEMMA MoreHarm ==
  ASSUME spoilt \subseteq spoilt'
  PROVE  /\ \A q : HarmsKept(q)
         /\ \A q, id, hs : Spared(q, id, hs)' => Spared(q, id, hs)
BY DEF HarmsKept, Spared


-----------------------------------------------------------------------------
(* get and create.                                                         *)

(* A get that finds or creates a segment leaves everything else as it is.  *)
LEMMA GetKeeps ==
  ASSUME SegInv, NEW p \in Procs, NEW k \in Keys, Get(p, k)
  PROVE  SegInv'
<1>1. TypeOK /\ ProcInv(p)
  BY DEF SegInv
<1>2. PICK id \in Ids :
        /\ \/ /\ Found(k, id) /\ ~hasShmSegmentInfo(p, id)
              /\ UNCHANGED <<keyOf, spoilt>>
           \/ /\ Found(k, id) /\ hasShmSegmentInfo(p, id)
              /\ spoilt' = spoilt \cup Befalls("second_get", p, {id})
              /\ UNCHANGED keyOf
           \/ /\ NewId(id)
              /\ keyOf' = [ keyOf EXCEPT ![id] = k ]
              /\ spoilt' = { s \in spoilt : s[3] # id }
        /\ call' = [ call EXCEPT ![p] = [op |-> "get", id |-> id] ]
  BY DEF Get
<1>3. call[p] = Idle /\ UNCHANGED <<att, info, lru, hmap, mutex, hashImpl, buffers>>
  BY DEF Get, handles
<1>4. /\ call'[p] = [op |-> "get", id |-> id] /\ call' \in [Procs -> Calls]
      /\ \A q \in Procs \ {p} : call'[q] = call[q]
  BY <1>1, <1>2 DEF TypeOK, Calls
<1>5. OnlyOf(p)
  BY <1>3, <1>4 DEF OnlyOf
<1>6. spoilt' \subseteq Harms \X Procs \X Ids
  <2>1. Befalls("second_get", p, {id}) \subseteq Harms \X Procs \X Ids
    BY BefallFacts DEF Harms
  <2> QED
    BY <1>1, <1>2, <2>1 DEF TypeOK
<1>7. \A q \in Procs : HarmsKept(q)
  BY <1>2 DEF HarmsKept, NewId
<1>8. \A q \in Procs : \A i \in Mentions(q) : keyOf'[i] = keyOf[i]
  BY <1>1, <1>2, MentionTypes DEF NewId, TypeOK
<1>9. \A q \in Procs : SegmentsKept(q)
  BY <1>3, <1>8, ExistsFacts DEF SegmentsKept
<1>10. FreshInv(p)'
  <2> SUFFICES ASSUME <<"second_get", p, id>> \notin spoilt', NEW r \in Recs(p)
               PROVE  r[1] # id
    BY <1>3, <1>4 DEF FreshInv, Spared, Recs, Elems
  <2>1. CASE Found(k, id) /\ ~hasShmSegmentInfo(p, id)
    BY <1>1, <2>1, RecordFacts
  <2>2. spoilt' # spoilt \cup Befalls("second_get", p, {id})
    BY BefallFacts DEF Harms
  <2>3. CASE NewId(id)
    BY <2>3, MentionFacts DEF NewId
  <2> QED
    BY <1>2, <2>1, <2>2, <2>3
<1>11. ProcInv(p)'
  <2>1. CallAlike(p)
    BY <1>3, <1>4, <1>10, CallFacts DEF CallAlike, Detachers
  <2> QED
    BY <1>1, <1>3, <1>7, <1>9, <2>1, Frame
<1>12. TypeOK'
  BY <1>1, <1>2, <1>3, <1>4, <1>6 DEF TypeOK
<1>13. NoNewOrphan(p)
  <2>1. About(p, id)' /\ \A i : ~About(p, i)
    BY <1>3, <1>4 DEF About, Idle
  <2>2. \A i \in Ids : i # id => keyOf'[i] = keyOf[i]
    BY <1>1, <1>2 DEF TypeOK
  <2>3. \A i \in Ids : Attaches(i)' = Attaches(i)
    BY <1>3 DEF Attaches
  <2> QED
    BY <2>1, <2>2, <2>3 DEF NoNewOrphan
<1> QED
  BY <1>5, <1>7, <1>9, <1>11, <1>12, <1>13, StepOK

(* What is attached is recorded, unless the process had it already.        *)
LEMMA ShmatKeeps ==
  ASSUME SegInv, NEW p \in Procs, Shmat(p)
  PROVE  SegInv'
<1>1. TypeOK /\ ProcInv(p)
  BY DEF SegInv
<1>2. PICK id \in Ids : id = call[p].id
  BY <1>1, CallFacts DEF Shmat, TypeOK
<1>3. /\ call[p].op = "get" /\ id = call[p].id /\ call[p] # Idle
      /\ call' = [ call EXCEPT ![p] = Idle ] /\ call'[p] = Idle /\ call'[p].op = "idle"
      /\ \A q \in Procs \ {p} : call'[q] = call[q]
      /\ UNCHANGED <<keyOf, lru, hmap, mutex, hashImpl, spoilt>>
  BY <1>1, <1>2, CallFacts DEF Shmat, handles, TypeOK
<1>4. /\ \A q : HarmsKept(q)
      /\ \A i, hs : Spared(p, i, hs)' <=> Spared(p, i, hs)
  BY <1>3 DEF HarmsKept, Spared
<1>5. CASE ~Exists(id) /\ UNCHANGED <<att, info, buffers>>
  <2>1. OnlyOf(p)
    BY <1>3, <1>5 DEF OnlyOf
  <2>2. \A q \in Procs : SegmentsKept(q)
    BY <1>3, <1>5, ExistsFacts DEF SegmentsKept
  <2>3. ProcInv(p)'
    <3>1. FreshInv(p)'
      BY <1>3 DEF FreshInv
    <3>2. CallAlike(p)
      BY <1>3, <3>1 DEF CallAlike, Detachers
    <3> QED
      BY <1>1, <1>3, <1>4, <1>5, <2>2, <3>2, Frame
  <2>4. TypeOK'
    BY <1>1, <1>3, <1>5, CallFacts DEF TypeOK
  <2>5. NoNewOrphan(p)
    <3>1. \A i : About(p, i) => ~Exists(i)
      BY <1>3, <1>5 DEF About
    <3> QED
      BY <1>3, <1>5, <3>1 DEF NoNewOrphan, Exists, Attaches
  <2> QED
    BY <1>4, <2>1, <2>2, <2>3, <2>4, <2>5, StepOK
<1>6. ASSUME NEW a \in Addrs, Exists(id), att[p][a] = Nothing,
             att' = [ att EXCEPT ![p][a] = id ],
             \/ hasShmSegmentInfo(p, id) /\ UNCHANGED info
             \/ ~hasShmSegmentInfo(p, id) /\ addShmSegmentInfo(p, id, a),
             \/ UNCHANGED buffers
             \/ \E b \in Buffers : buffers' = [ buffers EXCEPT ![p][b] = <<id, a>> ]
      PROVE  SegInv'
  <2> DEFINE r0 == <<id, a>>
  <2>1. r0 \in Region /\ id # Nothing
    BY <1>3, NothingAssumption DEF Region
  <2>2. /\ att' \in [Procs -> [Addrs -> Ids \cup {Nothing}]]
        /\ att'[p][a] = id /\ \A b \in Addrs \ {a} : att'[p][b] = att[p][b]
        /\ \A q \in Procs \ {p} : att'[q] = att[q]
    BY <1>1, <1>3, <1>6 DEF TypeOK
  <2>3. buffers' \in [Procs -> [Buffers -> Region \cup {Nothing}]]
    <3>1. buffers \in [Procs -> [Buffers -> Region \cup {Nothing}]]
      BY <1>1 DEF TypeOK
    <3>2. ASSUME NEW b \in Buffers, buffers' = [ buffers EXCEPT ![p][b] = <<id, a>> ]
          PROVE  buffers' \in [Procs -> [Buffers -> Region \cup {Nothing}]]
      BY <2>1, <3>1, <3>2
    <3> QED
      BY <1>6, <3>1, <3>2
  <2>4. /\ info' \in [Procs -> Seq(Region)] /\ \A q \in Procs \ {p} : info'[q] = info[q]
        /\ OneEach(info'[p])
        /\ Recs(p) \subseteq Recs(p)' /\ Recs(p)' \subseteq Recs(p) \cup {r0}
        /\ (\A r \in Recs(p) : r[1] # id) => r0 \in Recs(p)'
    <3>1. info[p] \in Seq(Region) /\ OneEach(info[p]) /\ info \in [Procs -> Seq(Region)]
      BY <1>1 DEF TypeOK, ProcInv, BookInv
    <3>2. CASE hasShmSegmentInfo(p, id) /\ UNCHANGED info
      <4>1. \E r \in Recs(p) : r[1] = id
        BY <1>1, <3>2, RecordFacts
      <4>2. info' = info /\ Recs(p)' = Recs(p)
        BY <3>2 DEF Recs
      <4> QED
        BY <3>1, <4>1, <4>2
    <3>3. CASE ~hasShmSegmentInfo(p, id) /\ addShmSegmentInfo(p, id, a)
      <4>1. info' = [ info EXCEPT ![p] = Append(info[p], r0) ]
        BY <3>3 DEF addShmSegmentInfo
      <4>2. \A r \in Recs(p) : r[1] # id
        BY <1>1, <1>3, <3>3, RecordFacts
      <4>3. /\ Append(info[p], r0) \in Seq(Region) /\ OneEach(Append(info[p], r0))
            /\ Elems(Append(info[p], r0)) = Elems(info[p]) \cup {r0}
        BY <2>1, <3>1, <4>2, AppendFacts DEF Recs
      <4>4. info'[p] = Append(info[p], r0)
        BY <3>1, <4>1
      <4> QED
        BY <3>1, <4>1, <4>3, <4>4 DEF Recs
    <3> QED
      BY <1>6, <3>2, <3>3
  <2>5. OnlyOf(p)
    BY <1>3, <2>2, <2>4 DEF OnlyOf
  <2>6. \A i \in Ids : Exists(i)' => Exists(i)
    BY <1>3, <1>6, <2>2, ExistsFacts
  <2>7. \A q \in Procs : SegmentsKept(q)
    BY <1>1, <1>3, <2>6, MentionTypes DEF SegmentsKept
  <2>8. TypeOK'
    BY <1>1, <1>3, <2>2, <2>3, <2>4, CallFacts DEF TypeOK
  <2>9. ProcInv(p)'
    <3>1. \A r : r \in Recs(p)' /\ r \notin Recs(p) => r = r0
      BY <2>4
    <3>2. \A r \in Recs(p) : att[p][r[2]] = r[1] => att'[p][r[2]] = r[1]
      BY <1>1, <1>6, <2>2, ProcTypes, NothingAssumption
    <3>3. att'[p][r0[2]] = r0[1]
      BY <2>2
    <3>4. \A r : ~Emptied(p, r)
      BY <1>3 DEF Emptied
    <3> HIDE DEF r0
    <3>5. BookInv(p)' /\ FreshInv(p)' /\ KeyedInv(p)'
      BY <1>1, <1>3, <2>4 DEF BookInv, FreshInv, KeyedInv, ProcInv, Detachers
    <3>6. RecordedInv(p)'
      <4> SUFFICES ASSUME NEW b \in Addrs, att'[p][b] # Nothing,
                          Spared(p, att'[p][b], {"second_get", "unrecord"})
                   PROVE  <<att'[p][b], b>> \in Recs(p)'
        BY <1>3, <1>4 DEF RecordedInv
      <4>1. CASE b = a
        <5>1. Spared(p, id, {"second_get"})
          BY <2>2, <4>1 DEF Spared
        <5>2. r0 \in Recs(p)'
          BY <1>1, <1>3, <2>4, <5>1 DEF ProcInv, FreshInv
        <5> QED
          BY <2>2, <4>1, <5>2 DEF r0
      <4>2. CASE b # a
        BY <1>1, <2>2, <2>4, <4>2 DEF ProcInv, RecordedInv
      <4> QED
        BY <4>1, <4>2
    <3>7. AttachedInv(p)'
      <4>1. \A r \in Recs(p) : r[1] \in Ids
        BY <1>1, ProcTypes
      <4> QED
        BY <1>1, <1>3, <1>4, <2>6, <3>1, <3>2, <3>3, <3>4, <4>1 DEF ProcInv, AttachedInv
    <3>8. HandlesInv(p)'
      <4>1. \A h \in Region : att[p][h[2]] = h[1] => att'[p][h[2]] = h[1]
        BY <1>1, <1>6, <2>2, ProcTypes, NothingAssumption
      <4>2. \A k \in LRUKeys : Safe(p, lru[p][k]) => Safe(p, lru[p][k])'
        BY <1>1, <1>3, <1>4, <4>1, ProcTypes DEF Safe
      <4>3. \A k \in MapKeys : Safe(p, hmap[p][k]) => Safe(p, hmap[p][k])'
        BY <1>1, <1>3, <1>4, <4>1, ProcTypes DEF Safe
      <4> QED
        BY <1>1, <1>3, <4>2, <4>3 DEF ProcInv, HandlesInv
    <3> QED
      BY <3>5, <3>6, <3>7, <3>8 DEF ProcInv
  <2>10. NoNewOrphan(p)
    <3>1. Attaches(id)' # {}
      BY <2>2, ExistsFacts
    <3>2. \A i \in Ids : Attaches(i)' = {} => Attaches(i) = {}
      BY <1>6, <2>2, ExistsFacts, NothingAssumption
    <3>3. \A i \in Ids : About(p, i) => i = id
      BY <1>3 DEF About
    <3> QED
      BY <1>3, <3>1, <3>2, <3>3 DEF NoNewOrphan
  <2> QED
    BY <1>4, <2>5, <2>7, <2>8, <2>9, <2>10, StepOK
<1> QED
  BY <1>2, <1>5, <1>6 DEF Shmat

-----------------------------------------------------------------------------
(* The calls up to detachShmSegment.                                       *)

(* Nothing but the calls, the buffers and some handles changes.            *)
LEMMA StillThere ==
  ASSUME UNCHANGED <<keyOf, att>>
  PROVE  /\ \A id : Exists(id)' <=> Exists(id)
         /\ \A id : Attaches(id)' = Attaches(id)
         /\ \A q \in Procs : SegmentsKept(q)
<1>1. \A id : Attaches(id)' = Attaches(id)
  BY DEF Attaches
<1>2. \A id : Exists(id)' <=> Exists(id)
  BY ExistsFacts
<1> QED
  BY <1>1, <1>2 DEF SegmentsKept

(* A call that only begins.                                                *)
LEMMA BeginFacts ==
  ASSUME TypeOK, NEW p \in Procs, call[p] = Idle, NEW r \in Region, NEW op \in Detachers,
         NEW force \in BOOLEAN, NEW rest \in Seq(Region),
         call' = [ call EXCEPT ![p] = Detaching(op, r, force, rest) ],
         UNCHANGED <<keyOf, att>>
  PROVE  /\ call' \in [Procs -> Calls]
         /\ \A q \in Procs \ {p} : call'[q] = call[q]
         /\ call'[p].op = op /\ call'[p].id = r[1] /\ call'[p].addr = r[2]
         /\ call'[p].at = "shmdt" /\ call'[p].rest = rest
         /\ Current(p)' = r
         /\ \A e : ~Emptied(p, e) /\ ~Emptied(p, e)'
         /\ NoNewOrphan(p)
<1> DEFINE d == Detaching(op, r, force, rest)
<1>1. r[1] \in Ids /\ r[2] \in Addrs /\ r = <<r[1], r[2]>>
  BY DEF Region
<1>2. d \in Calls /\ d # Idle /\ d.op = op /\ d.id = r[1] /\ d.addr = r[2]
      /\ d.at = "shmdt" /\ d.rest = rest
  BY <1>1 DEF Detaching, Calls, Idle, Detachers
<1>3. call' = [ call EXCEPT ![p] = d ]
  OBVIOUS
<1> HIDE DEF d
<1>4. call'[p] = d /\ call' \in [Procs -> Calls] /\ \A q \in Procs \ {p} : call'[q] = call[q]
  BY <1>2, <1>3 DEF TypeOK
<1>5. Current(p)' = r
  BY <1>1, <1>2, <1>4 DEF Current
<1>6. \A e : ~Emptied(p, e) /\ ~Emptied(p, e)'
  BY <1>2, <1>4, CallFacts DEF Emptied
<1>7. NoNewOrphan(p)
  BY StillThere DEF NoNewOrphan, About
<1> QED
  BY <1>2, <1>4, <1>5, <1>6, <1>7

(* detach forgets the handles of its key.                                  *)
LEMMA ForgetFacts ==
  ASSUME TypeOK, NEW p \in Procs, NEW k \in Keys, ForgetHandles(p, k)
  PROVE  /\ lru' \in [Procs -> [LRUKeys -> Region \cup {Nothing}]]
         /\ hashImpl' \in [Procs -> [LRUKeys -> Region \cup {Nothing}]]
         /\ hmap' \in [Procs -> [MapKeys -> Region \cup {Nothing}]]
         /\ mutex' = mutex
         /\ \A q \in Procs \ {p} : lru'[q] = lru[q] /\ hmap'[q] = hmap[q]
         /\ \A j \in LRUKeys : lru'[p][j] = IF j = k THEN Nothing ELSE lru[p][j]
         /\ \A j \in MapKeys : hmap'[p][j] = IF j = k THEN Nothing ELSE hmap[p][j]
<1>1. lru' \in [Procs -> [LRUKeys -> Region \cup {Nothing}]]
      /\ (\A q \in Procs \ {p} : lru'[q] = lru[q])
      /\ \A j \in LRUKeys : lru'[p][j] = IF j = k THEN Nothing ELSE lru[p][j]
  BY DEF TypeOK, ForgetHandles
<1>2. hashImpl' \in [Procs -> [LRUKeys -> Region \cup {Nothing}]]
  BY DEF TypeOK, ForgetHandles
<1>3. hmap' \in [Procs -> [MapKeys -> Region \cup {Nothing}]]
      /\ (\A q \in Procs \ {p} : hmap'[q] = hmap[q])
      /\ \A j \in MapKeys : hmap'[p][j] = IF j = k THEN Nothing ELSE hmap[p][j]
  BY DEF TypeOK, ForgetHandles
<1> QED
  BY <1>1, <1>2, <1>3 DEF ForgetHandles

(* detach begins with a record of its process, and no handle is left on it.*)
LEMMA DetachKeeps ==
  ASSUME SegInv, NEW p \in Procs, NEW k \in Keys, NEW force \in BOOLEAN, Detach(p, k, force)
  PROVE  SegInv'
<1>1. TypeOK /\ ProcInv(p)
  BY DEF SegInv
<1>2. /\ call[p] = Idle /\ call[p].op = "idle"
      /\ ForgetHandles(p, k) /\ UNCHANGED <<keyOf, att, info, buffers, spoilt>>
  BY CallFacts DEF Detach
<1>3. /\ lru' \in [Procs -> [LRUKeys -> Region \cup {Nothing}]]
      /\ hashImpl' \in [Procs -> [LRUKeys -> Region \cup {Nothing}]]
      /\ hmap' \in [Procs -> [MapKeys -> Region \cup {Nothing}]]
      /\ mutex' = mutex
      /\ \A q \in Procs \ {p} : lru'[q] = lru[q] /\ hmap'[q] = hmap[q]
      /\ \A j \in LRUKeys : lru'[p][j] = IF j = k THEN Nothing ELSE lru[p][j]
      /\ \A j \in MapKeys : hmap'[p][j] = IF j = k THEN Nothing ELSE hmap[p][j]
  BY <1>1, <1>2, ForgetFacts
<1>4. /\ \A id : Exists(id)' <=> Exists(id)
      /\ \A id : Attaches(id)' = Attaches(id)
      /\ \A q \in Procs : SegmentsKept(q)
      /\ \A q : HarmsKept(q)
      /\ \A i, hs : Spared(p, i, hs)' <=> Spared(p, i, hs)
  BY <1>2, StillThere DEF HarmsKept, Spared
<1>5. CASE UNCHANGED call
  <2>1. OnlyOf(p)
    BY <1>2, <1>3, <1>5 DEF OnlyOf
  <2>2. ProcInv(p)'
    <3>1. CallAlike(p)
      BY <1>5 DEF CallAlike
    <3> QED
      BY <1>1, <1>2, <1>3, <1>4, <3>1, Frame
  <2>3. TypeOK'
    BY <1>1, <1>2, <1>3, <1>5 DEF TypeOK
  <2>4. NoNewOrphan(p)
    BY <1>2, <1>4, <1>5 DEF NoNewOrphan, About
  <2> QED
    BY <1>4, <2>1, <2>2, <2>3, <2>4, StepOK
<1>6. ASSUME NEW id \in Ids, Found(k, id), hasShmSegmentInfo(p, id),
             call' = [ call EXCEPT ![p] =
                         Detaching("detach", <<id, getShmSegmentAddr(p, id)>>, force, <<>>) ]
      PROVE  SegInv'
  <2> DEFINE r == <<id, getShmSegmentAddr(p, id)>>
  <2>1. r \in Region /\ r \in Recs(p) /\ r[1] = id /\ keyOf[id] = k /\ k # NoKey
    BY <1>1, <1>6, RecordFacts, NothingAssumption DEF Region, Found
  <2> HIDE DEF r
  <2>2. call' = [ call EXCEPT ![p] = Detaching("detach", r, force, <<>>) ]
    BY <1>6 DEF r
  <2>3. /\ call' \in [Procs -> Calls]
        /\ \A q \in Procs \ {p} : call'[q] = call[q]
        /\ call'[p].op = "detach" /\ call'[p].id = id /\ call'[p].at = "shmdt"
        /\ Current(p)' = r
        /\ \A e : ~Emptied(p, e) /\ ~Emptied(p, e)'
        /\ NoNewOrphan(p)
    BY <1>1, <1>2, <2>1, <2>2, BeginFacts, EmptyFacts, ZenonT(40) DEF Detachers
  <2>4. OnlyOf(p)
    BY <1>2, <1>3, <2>3 DEF OnlyOf
  <2>5. TypeOK'
    BY <1>1, <1>2, <1>3, <2>3 DEF TypeOK
  <2>6. ProcInv(p)'
    <3>1. Recs(p)' = Recs(p)
      BY <1>2 DEF Recs
    <3>2. BookInv(p)' /\ FreshInv(p)'
      <4>1. BookInv(p)'
        BY <1>1, <1>2, <2>1, <2>3, <3>1 DEF ProcInv, BookInv
      <4>2. FreshInv(p)'
        BY <2>3 DEF FreshInv
      <4> QED
        BY <4>1, <4>2
    <3>3. RecordedInv(p)'
      BY <1>1, <1>2, <1>4, <2>3, <3>1 DEF ProcInv, RecordedInv
    <3>4. AttachedInv(p)'
      BY <1>1, <1>2, <1>4, <2>3, <3>1 DEF ProcInv, AttachedInv
    <3>5. KeyedInv(p)'
      BY <1>1, <1>2, <1>3 DEF ProcInv, KeyedInv
    <3>6. HandlesInv(p)'
      <4>1. \A j \in LRUKeys : lru'[p][j] # Nothing =>
              lru'[p][j][1] # id /\ Safe(p, lru'[p][j])
        BY <1>1, <1>2, <1>3, <2>1 DEF ProcInv, KeyedInv, HandlesInv
      <4>2. \A j \in MapKeys : hmap'[p][j] # Nothing =>
              hmap'[p][j][1] # id /\ Safe(p, hmap'[p][j])
        BY <1>1, <1>2, <1>3, <2>1 DEF ProcInv, KeyedInv, HandlesInv
      <4>3. \A h : /\ h[1] # id /\ h # Nothing /\ Safe(p, h)
                   /\ Spared(p, h[1], {"unmap", "in_use", "go_on"})'
                   => att'[p][h[2]] = h[1] /\ h[1] # call'[p].id
        BY <1>2, <1>4, <2>3 DEF Safe
      <4>4. \A j \in LRUKeys : Safe(p, lru[p][j])'
        BY <4>1, <4>3 DEF Safe, Spared
      <4>5. \A j \in MapKeys : Safe(p, hmap[p][j])'
        BY <4>2, <4>3 DEF Safe, Spared
      <4> QED
        BY <4>4, <4>5 DEF HandlesInv
    <3> QED
      BY <3>2, <3>3, <3>4, <3>5, <3>6 DEF ProcInv
  <2> QED
    BY <1>4, <2>3, <2>4, <2>5, <2>6, StepOK
<1> QED
  BY <1>5, <1>6 DEF Detach

(* detachAll begins with the first of all records.                         *)
LEMMA DetachAllKeeps ==
  ASSUME SegInv, NEW p \in Procs, DetachAll(p)
  PROVE  SegInv'
<1>1. TypeOK /\ ProcInv(p)
  BY DEF SegInv
<1>2. /\ call[p] = Idle /\ call[p].op = "idle"
      /\ UNCHANGED <<keyOf, att, info, lru, hmap, mutex, hashImpl, buffers, spoilt>>
  BY CallFacts DEF DetachAll, handles
<1>3. /\ \A id : Exists(id)' <=> Exists(id)
      /\ \A q \in Procs : SegmentsKept(q)
      /\ \A q : HarmsKept(q)
      /\ \A i, hs : Spared(p, i, hs)' <=> Spared(p, i, hs)
  BY <1>2, StillThere DEF HarmsKept, Spared
<1>4. PICK r \in Region, rest \in Seq(Region) :
        /\ r = Head(info[p]) /\ rest = Tail(info[p])
        /\ Recs(p) = {r} \cup Elems(rest)
        /\ OneEach(rest) /\ \A e \in Elems(rest) : e[1] # r[1]
  <2>1. info[p] \in Seq(Region) /\ info[p] # <<>> /\ OneEach(info[p])
    BY <1>1 DEF TypeOK, ProcInv, BookInv, DetachAll
  <2>2. /\ Head(info[p]) \in Region /\ Tail(info[p]) \in Seq(Region)
        /\ Elems(info[p]) = {Head(info[p])} \cup Elems(Tail(info[p]))
        /\ OneEach(Tail(info[p]))
        /\ \A e \in Elems(Tail(info[p])) : e[1] # Head(info[p])[1]
    BY <2>1, HeadTailFacts
  <2> QED
    BY <2>2 DEF Recs
<1>5. call' = [ call EXCEPT ![p] = Detaching("all", r, FALSE, rest) ]
  BY <1>4 DEF DetachAll
<1>6. /\ call' \in [Procs -> Calls]
      /\ \A q \in Procs \ {p} : call'[q] = call[q]
      /\ call'[p].op = "all" /\ call'[p].id = r[1] /\ call'[p].at = "shmdt"
      /\ call'[p].rest = rest /\ Current(p)' = r
      /\ NoNewOrphan(p)
  BY <1>1, <1>2, <1>5, BeginFacts, ZenonT(40) DEF Detachers
<1>7. OnlyOf(p)
  BY <1>2, <1>6 DEF OnlyOf
<1>8. TypeOK'
  BY <1>1, <1>2, <1>6 DEF TypeOK
<1>9. ProcInv(p)'
  <2>1. Recs(p)' = Recs(p)
    BY <1>2 DEF Recs
  <2>2. Left(p)' = Recs(p)
    BY <1>4, <1>6 DEF Left
  <2>3. BookInv(p)' /\ FreshInv(p)' /\ KeyedInv(p)'
    <3>1. BookInv(p)'
      BY <1>1, <1>2, <1>4, <1>6 DEF ProcInv, BookInv
    <3>2. FreshInv(p)'
      BY <1>6 DEF FreshInv
    <3>3. KeyedInv(p)'
      BY <1>1, <1>2 DEF ProcInv, KeyedInv
    <3> QED
      BY <3>1, <3>2, <3>3
  <2>4. RecordedInv(p)'
    BY <1>1, <1>2, <1>3, <2>1, <2>2 DEF ProcInv, RecordedInv
  <2>5. AttachedInv(p)' /\ HandlesInv(p)'
    BY <1>6 DEF AttachedInv, HandlesInv
  <2> QED
    BY <2>3, <2>4, <2>5 DEF ProcInv
<1> QED
  BY <1>3, <1>6, <1>7, <1>8, <1>9, StepOK

(* The callback of a Buffer begins with the region of the Buffer, whether  *)
(* it is still mapped there or not.                                        *)
LEMMA FreeCallbackKeeps ==
  ASSUME SegInv, NEW p \in Procs, FreeCallback(p)
  PROVE  SegInv'
<1>1. TypeOK /\ ProcInv(p)
  BY DEF SegInv
<1>2. /\ call[p] = Idle /\ call[p].op = "idle"
      /\ UNCHANGED <<keyOf, att, info, lru, hmap, mutex, hashImpl, spoilt>>
  BY CallFacts DEF FreeCallback, handles
<1>3. /\ \A id : Exists(id)' <=> Exists(id)
      /\ \A q \in Procs : SegmentsKept(q)
      /\ \A q : HarmsKept(q)
      /\ \A i, hs : Spared(p, i, hs)' <=> Spared(p, i, hs)
  BY <1>2, StillThere DEF HarmsKept, Spared
<1>4. PICK b \in Buffers :
        /\ buffers[p][b] # Nothing
        /\ buffers' = [ buffers EXCEPT ![p][b] = Nothing ]
        /\ call' = [ call EXCEPT ![p] = Detaching("free", buffers[p][b], FALSE, <<>>) ]
  BY DEF FreeCallback
<1>5. PICK r \in Region : r = buffers[p][b]
  BY <1>1, <1>4, ProcTypes
<1>6. /\ call' \in [Procs -> Calls]
      /\ \A q \in Procs \ {p} : call'[q] = call[q]
      /\ call'[p].op = "free" /\ call'[p].id = r[1] /\ call'[p].at = "shmdt"
      /\ \A e : ~Emptied(p, e) /\ ~Emptied(p, e)'
      /\ NoNewOrphan(p)
  BY <1>1, <1>2, <1>4, <1>5, BeginFacts, EmptyFacts DEF Detachers
<1>7. buffers' \in [Procs -> [Buffers -> Region \cup {Nothing}]]
  BY <1>1, <1>4 DEF TypeOK
<1>8. OnlyOf(p)
  BY <1>2, <1>6 DEF OnlyOf
<1>9. TypeOK'
  BY <1>1, <1>2, <1>6, <1>7 DEF TypeOK
<1>10. ProcInv(p)'
  <2>1. Recs(p)' = Recs(p)
    BY <1>2 DEF Recs
  <2>2. BookInv(p)' /\ FreshInv(p)' /\ KeyedInv(p)'
    BY <1>1, <1>2, <1>6 DEF ProcInv, BookInv, FreshInv, KeyedInv
  <2>3. RecordedInv(p)' /\ AttachedInv(p)'
    BY <1>1, <1>2, <1>3, <1>6, <2>1 DEF ProcInv, RecordedInv, AttachedInv
  <2>4. HandlesInv(p)'
    BY <1>1, <1>2, <1>3, <1>6 DEF ProcInv, HandlesInv, Safe
  <2> QED
    BY <2>2, <2>3, <2>4 DEF ProcInv
<1> QED
  BY <1>3, <1>6, <1>8, <1>9, <1>10, StepOK

-----------------------------------------------------------------------------
(* detachShmSegment and what follows it.                                   *)

(* What p removes, if anything, is the segment of its call.                *)
MayRemove(p) ==
  keyOf' = keyOf \/ keyOf' = [ keyOf EXCEPT ![call[p].id] = NoKey ]

(* What follows for the system when p removes no more than that.           *)
LEMMA RemovalFacts ==
  ASSUME TypeOK, NEW p \in Procs, MayRemove(p),
         \A q \in Procs, a \in Addrs : att'[q][a] \in {att[q][a], Nothing}
  PROVE  /\ keyOf' \in [Ids -> Keys \cup {NoKey}]
         /\ \A id \in Ids : keyOf'[id] \in {keyOf[id], NoKey}
         /\ \A id \in Ids : Exists(id)' => Exists(id)
         /\ \A q \in Procs : SegmentsKept(q)
<1>1. /\ keyOf' \in [Ids -> Keys \cup {NoKey}]
      /\ \A id \in Ids : keyOf'[id] \in {keyOf[id], NoKey}
  BY DEF MayRemove, TypeOK
<1>2. \A id \in Ids : Exists(id)' => Exists(id)
  BY <1>1, Shrinks
<1>3. \A q \in Procs : SegmentsKept(q)
  BY <1>1, <1>2, MentionTypes DEF SegmentsKept
<1> QED
  BY <1>1, <1>2, <1>3

(* A process that is over remembers nothing, and nothing of it is left.    *)
LEMMA OverKeeps ==
  ASSUME SegInv, NEW p \in Procs, Over(p), MayRemove(p),
         spoilt \subseteq spoilt', spoilt' \subseteq Harms \X Procs \X Ids,
         NoNewOrphan(p)
  PROVE  SegInv'
<1>1. TypeOK
  BY DEF SegInv
<1>2. /\ att' \in [Procs -> [Addrs -> Ids \cup {Nothing}]]
      /\ \A a \in Addrs : att'[p][a] = Nothing
      /\ \A q \in Procs \ {p} : att'[q] = att[q]
  BY <1>1 DEF Over, TypeOK
<1>3. /\ info' \in [Procs -> Seq(Region)] /\ info'[p] = <<>>
      /\ \A q \in Procs \ {p} : info'[q] = info[q]
  BY <1>1, EmptyFacts DEF Over, TypeOK
<1>4. /\ lru' \in [Procs -> [LRUKeys -> Region \cup {Nothing}]]
      /\ \A k \in LRUKeys : lru'[p][k] = Nothing
      /\ \A q \in Procs \ {p} : lru'[q] = lru[q]
      /\ hashImpl' \in [Procs -> [LRUKeys -> Region \cup {Nothing}]]
  BY <1>1 DEF Over, TypeOK
<1>5. /\ hmap' \in [Procs -> [MapKeys -> Region \cup {Nothing}]]
      /\ \A k \in MapKeys : hmap'[p][k] = Nothing
      /\ \A q \in Procs \ {p} : hmap'[q] = hmap[q]
      /\ mutex' \in [Procs -> [MutexKeys -> Region \cup {Nothing}]]
  BY <1>1 DEF Over, TypeOK
<1>6. buffers' \in [Procs -> [Buffers -> Region \cup {Nothing}]]
  BY <1>1 DEF Over, TypeOK
<1>7. /\ call' \in [Procs -> Calls] /\ call'[p] = Idle /\ call'[p].op = "idle"
      /\ \A q \in Procs \ {p} : call'[q] = call[q]
  BY <1>1, CallFacts DEF Over, TypeOK
<1>8. OnlyOf(p)
  BY <1>2, <1>3, <1>4, <1>5, <1>7 DEF OnlyOf
<1>9. \A q \in Procs, a \in Addrs : att'[q][a] \in {att[q][a], Nothing}
  BY <1>2
<1>10. keyOf' \in [Ids -> Keys \cup {NoKey}] /\ \A q \in Procs : SegmentsKept(q)
  BY <1>1, <1>9, RemovalFacts
<1>11. TypeOK'
  BY <1>2, <1>3, <1>4, <1>5, <1>6, <1>7, <1>10 DEF TypeOK
<1>12. ProcInv(p)'
  <2>1. Recs(p)' = {} /\ OneEach(info'[p])
    BY <1>3, EmptyFacts DEF Recs
  <2>2. BookInv(p)' /\ FreshInv(p)'
    BY <1>7, <2>1 DEF BookInv, FreshInv, Detachers
  <2>3. RecordedInv(p)' /\ AttachedInv(p)'
    BY <1>2, <1>7, <2>1 DEF RecordedInv, AttachedInv
  <2>4. KeyedInv(p)' /\ HandlesInv(p)'
    BY <1>4, <1>5 DEF KeyedInv, HandlesInv, Safe
  <2> QED
    BY <2>2, <2>3, <2>4 DEF ProcInv
<1> QED
  BY <1>8, <1>10, <1>11, <1>12, MoreHarm, StepOK

(* detachAll comes to everything that is attached and recorded.            *)
LEMMA NothingLeft ==
  ASSUME NEW p \in Procs, ProcInv(p), call[p].op = "all", call[p].rest = <<>>,
         att[p][call[p].addr] = Nothing
  PROVE  \A a \in Addrs : att[p][a] # Nothing =>
           ~Spared(p, att[p][a], {"second_get", "unrecord"})
<1>1. Left(p) \subseteq {Current(p)}
  BY EmptyFacts DEF Left
<1> QED
  BY <1>1 DEF ProcInv, RecordedInv, Current

(* A call that goes no further leaves no segment behind.                   *)
LEMMA NoneLeftBehind ==
  ASSUME SegInv, NEW p \in Procs, call[p].op \in Detachers, MayRemove(p),
         spoilt \subseteq spoilt',
         \A q \in Procs \ {p} : att'[q] = att[q],
         \A a \in Addrs : \/ att'[p][a] = att[p][a]
                          \/ /\ att'[p][a] = Nothing
                             /\ ~Spared(p, att[p][a], {"second_get", "unrecord"}),
         \/ keyOf'[call[p].id] = NoKey
         \/ Attaches(call[p].id) # {}
         \/ call[p].at = "shmdt"
  PROVE  NoNewOrphan(p)
<1> SUFFICES ASSUME NEW id \in Ids, keyOf'[id] # NoKey, Attaches(id)' = {},
                    Spared(p, id, Losses)'
             PROVE  keyOf[id] # NoKey /\ Attaches(id) = {} /\ ~About(p, id)
  BY DEF NoNewOrphan
<1>1. TypeOK
  BY DEF SegInv
<1>2. Spared(p, id, {"second_get", "unrecord"})
  BY MoreHarm DEF Spared, Losses
<1>3. Attaches(id) = {}
  BY <1>2, ExistsFacts
<1>4. keyOf[id] # NoKey
  BY <1>1 DEF MayRemove, TypeOK
<1>5. ~About(p, id)
  BY <1>3 DEF About, Detachers
<1> QED
  BY <1>3, <1>4, <1>5

(* A call that is over, with the record of its segment or all of them gone.*)
LEMMA EndKeeps ==
  ASSUME SegInv, NEW p \in Procs, call[p].op \in Detachers, MayRemove(p),
         UNCHANGED <<att, lru, hmap, mutex, hashImpl, buffers>>,
         spoilt \subseteq spoilt', spoilt' \subseteq Harms \X Procs \X Ids,
         call' = [ call EXCEPT ![p] = Idle ],
         info' \in [Procs -> Seq(Region)], \A q \in Procs \ {p} : info'[q] = info[q],
         OneEach(info'[p]),
         RecordedInv(p)', AttachedInv(p)', HandlesInv(p)',
         \/ keyOf'[call[p].id] = NoKey
         \/ Attaches(call[p].id) # {}
         \/ call[p].at = "shmdt"
  PROVE  SegInv'
<1>1. TypeOK /\ ProcInv(p)
  BY DEF SegInv
<1>2. /\ call'[p] = Idle /\ call'[p].op = "idle" /\ call' \in [Procs -> Calls]
      /\ \A q \in Procs \ {p} : call'[q] = call[q]
  BY <1>1, CallFacts DEF TypeOK
<1>3. \A q \in Procs, a \in Addrs : att'[q][a] \in {att[q][a], Nothing}
  OBVIOUS
<1>4. /\ keyOf' \in [Ids -> Keys \cup {NoKey}]
      /\ \A id \in Ids : keyOf'[id] \in {keyOf[id], NoKey}
      /\ \A q \in Procs : SegmentsKept(q)
  BY <1>1, <1>3, RemovalFacts
<1>5. OnlyOf(p)
  BY <1>2 DEF OnlyOf
<1>6. TypeOK'
  BY <1>1, <1>2, <1>4 DEF TypeOK
<1>7. BookInv(p)' /\ FreshInv(p)'
  BY <1>2 DEF BookInv, FreshInv, Detachers
<1>8. KeyedInv(p)'
  BY <1>1, <1>4, ProcTypes DEF ProcInv, KeyedInv
<1>9. NoNewOrphan(p)
  BY NoneLeftBehind
<1> QED
  BY <1>4, <1>5, <1>6, <1>7, <1>8, <1>9, MoreHarm, StepOK DEF ProcInv

(* detachAll goes on to its next record.                                   *)
LEMMA NextKeeps ==
  ASSUME SegInv, NEW p \in Procs, call[p].op = "all", call[p].rest # <<>>, MayRemove(p),
         att[p][call[p].addr] = Nothing,
         call' = [ call EXCEPT ![p] =
                     Detaching("all", Head(call[p].rest), FALSE, Tail(call[p].rest)) ],
         UNCHANGED <<att, info, lru, hmap, mutex, hashImpl, buffers, spoilt>>,
         \/ keyOf'[call[p].id] = NoKey
         \/ Attaches(call[p].id) # {}
         \/ call[p].at = "shmdt"
  PROVE  SegInv'
<1>1. TypeOK /\ ProcInv(p)
  BY DEF SegInv
<1>2. PICK c \in Calls : c = call[p] /\ c.rest \in Seq(Region)
  BY <1>1, CallFacts DEF TypeOK, Detachers
<1> DEFINE h == Head(c.rest)
           t == Tail(c.rest)
           d == Detaching("all", h, FALSE, t)
<1>3. /\ h \in Region /\ t \in Seq(Region) /\ Elems(c.rest) = {h} \cup Elems(t)
      /\ OneEach(t) /\ \A r \in Elems(t) : r[1] # h[1]
  <2>1. OneEach(c.rest)
    BY <1>1, <1>2 DEF ProcInv, BookInv
  <2> QED
    BY <1>2, <2>1, HeadTailFacts
<1>4. h[1] \in Ids /\ h[2] \in Addrs /\ h = <<h[1], h[2]>>
  BY <1>3 DEF Region
<1> HIDE DEF h, t
<1>5. /\ d \in Calls /\ d.op = "all" /\ d.id = h[1] /\ d.addr = h[2]
      /\ d.at = "shmdt" /\ d.rest = t
  BY <1>3, <1>4 DEF Detaching, Calls
<1>6. call' = [ call EXCEPT ![p] = d ]
  BY <1>2 DEF h, t
<1> HIDE DEF d
<1>7. /\ call'[p] = d /\ call' \in [Procs -> Calls]
      /\ \A q \in Procs \ {p} : call'[q] = call[q]
  BY <1>1, <1>5, <1>6 DEF TypeOK
<1>8. \A q \in Procs, a \in Addrs : att'[q][a] \in {att[q][a], Nothing}
  OBVIOUS
<1>9. /\ keyOf' \in [Ids -> Keys \cup {NoKey}]
      /\ \A id \in Ids : keyOf'[id] \in {keyOf[id], NoKey}
      /\ \A q \in Procs : SegmentsKept(q)
  BY <1>1, <1>8, RemovalFacts
<1>10. OnlyOf(p)
  BY <1>7 DEF OnlyOf
<1>11. TypeOK'
  BY <1>1, <1>7, <1>9 DEF TypeOK
<1>12. NoNewOrphan(p)
  BY NoneLeftBehind DEF Detachers
<1>13. ProcInv(p)'
  <2>1. Left(p)' = Elems(c.rest)
    BY <1>3, <1>4, <1>5, <1>7 DEF Left, Current
  <2>2. Recs(p)' = Recs(p)
    BY DEF Recs
  <2>3. BookInv(p)' /\ FreshInv(p)'
    BY <1>1, <1>3, <1>5, <1>7 DEF ProcInv, BookInv, FreshInv
  <2>4. KeyedInv(p)'
    BY <1>1, <1>9, ProcTypes DEF ProcInv, KeyedInv
  <2>5. AttachedInv(p)' /\ HandlesInv(p)'
    BY <1>5, <1>7 DEF AttachedInv, HandlesInv
  <2>6. RecordedInv(p)'
    <3> SUFFICES ASSUME NEW a \in Addrs, att[p][a] # Nothing,
                        Spared(p, att[p][a], {"second_get", "unrecord"})
                 PROVE  <<att[p][a], a>> \in Recs(p) /\ <<att[p][a], a>> \in Elems(c.rest)
      BY <2>1, <2>2 DEF RecordedInv, Spared
    <3>1. <<att[p][a], a>> \in Recs(p) /\ <<att[p][a], a>> \in Left(p)
      BY <1>1 DEF ProcInv, RecordedInv
    <3>2. <<att[p][a], a>> # Current(p)
      BY DEF Current
    <3> QED
      BY <1>2, <3>1, <3>2 DEF Left
  <2> QED
    BY <2>3, <2>4, <2>5, <2>6 DEF ProcInv
<1> QED
  BY <1>9, <1>10, <1>11, <1>12, <1>13, MoreHarm, StepOK

(* The return of detachShmSegment, after any of its system calls.          *)
LEMMA ReturnKeeps ==
  ASSUME SegInv, NEW p \in Procs, NEW failed \in BOOLEAN, Return(p, failed),
         call[p].op \in Detachers, MayRemove(p),
         att[p][call[p].addr] = Nothing,
         failed => call[p].at = "shmdt" \/ ~Exists(call[p].id),
         ~failed => call[p].at # "shmdt",
         \/ keyOf'[call[p].id] = NoKey
         \/ Attaches(call[p].id) # {}
         \/ call[p].at = "shmdt"
  PROVE  SegInv'
<1>1. TypeOK /\ ProcInv(p) /\ OneEach(info[p])
  BY DEF SegInv, ProcInv, BookInv
<1>2. PICK c \in Calls : c = call[p] /\ c.id \in Ids /\ c.addr \in Addrs
  BY <1>1, CallFacts DEF TypeOK
<1>3. ASSUME call' = [ call EXCEPT ![p] = Idle ] PROVE call'[p].op = "idle"
  BY <1>1, <1>3, CallFacts DEF TypeOK
<1>4. ASSUME att' = att PROVE \A id \in Ids : Exists(id)' => Exists(id)
  <2>1. \A q \in Procs, a \in Addrs : att'[q][a] \in {att[q][a], Nothing}
    BY <1>4
  <2> QED
    BY <1>1, <2>1, RemovalFacts
(* detach failed: the record stays.                                        *)
<1>5. ASSUME c.op = "detach", failed, UNCHANGED info, call' = [ call EXCEPT ![p] = Idle ],
             UNCHANGED <<att, lru, hmap, mutex, hashImpl, buffers, spoilt>>
      PROVE  SegInv'
  <2>1. Recs(p)' = Recs(p) /\ call'[p].op = "idle"
    BY <1>3, <1>5 DEF Recs
  <2>2. \A i, hs : Spared(p, i, hs)' <=> Spared(p, i, hs)
    BY <1>5 DEF Spared
  <2>3. RecordedInv(p)'
    BY <1>1, <1>5, <2>1, <2>2 DEF ProcInv, RecordedInv
  <2>4. AttachedInv(p)'
    <3> SUFFICES ASSUME NEW r \in Recs(p), Exists(r[1])', Spared(p, r[1], {"unmap"})
                 PROVE  att[p][r[2]] = r[1]
      BY <1>5, <2>1, <2>2 DEF AttachedInv
    <3>1. Exists(r[1])
      BY <1>1, <1>4, <1>5, ProcTypes
    <3>2. ~Emptied(p, r)
      BY <1>2, <1>5, <3>1 DEF Emptied
    <3> QED
      BY <1>1, <1>2, <1>5, <3>1, <3>2 DEF ProcInv, AttachedInv
  <2>5. HandlesInv(p)'
    BY <1>1, <1>2, <1>5, <2>1, <2>2 DEF ProcInv, HandlesInv, Safe
  <2>6. info' \in [Procs -> Seq(Region)] /\ spoilt' \subseteq Harms \X Procs \X Ids
    BY <1>1, <1>5 DEF TypeOK
  <2> QED
    BY <1>1, <1>5, <2>3, <2>4, <2>5, <2>6, EndKeeps
(* The record is removed, by detach that went well or by a Buffer.         *)
<1>6. ASSUME (c.op = "detach" /\ ~failed) \/ c.op = "free",
             removeShmSegmentInfo(p, c.id), call' = [ call EXCEPT ![p] = Idle ],
             UNCHANGED <<att, lru, hmap, mutex, hashImpl, buffers>>,
             spoilt \subseteq spoilt', spoilt' \subseteq Harms \X Procs \X Ids,
             \/ c.op = "detach"
             \/ \A a \in Addrs : att[p][a] = c.id => <<"unrecord", p, c.id>> \in spoilt'
      PROVE  SegInv'
  <2>1. /\ info' \in [Procs -> Seq(Region)] /\ \A q \in Procs \ {p} : info'[q] = info[q]
        /\ OneEach(info'[p]) /\ Recs(p)' = { r \in Recs(p) : r[1] # c.id }
    BY <1>1, <1>2, <1>6, RemoveFacts
  <2>2. \A i, hs : Spared(p, i, hs)' => Spared(p, i, hs)
    BY <1>6, MoreHarm
  <2>3. RecordedInv(p)'
    <3> SUFFICES ASSUME NEW a \in Addrs, att[p][a] # Nothing,
                        Spared(p, att[p][a], {"second_get", "unrecord"})'
                 PROVE  <<att[p][a], a>> \in Recs(p)'
      BY <1>3, <1>6 DEF RecordedInv
    <3>1. <<att[p][a], a>> \in Recs(p)
      BY <1>1, <1>6, <2>2 DEF ProcInv, RecordedInv, Spared
    <3>2. CASE c.op = "detach"
      <4>1. <<c.id, c.addr>> \in Recs(p) /\ a # c.addr
        BY <1>1, <1>2, <3>2 DEF ProcInv, BookInv, Current
      <4>2. att[p][a] # c.id
        BY <1>1, <3>1, <4>1 DEF OneEach, Recs, Elems
      <4> QED
        BY <2>1, <3>1, <4>2
    <3>3. CASE c.op # "detach"
      BY <1>6, <2>1, <3>1, <3>3 DEF Spared
    <3> QED
      BY <3>2, <3>3
  <2>4. AttachedInv(p)'
    <3> SUFFICES ASSUME NEW r \in Recs(p)', Exists(r[1])', Spared(p, r[1], {"unmap"})'
                 PROVE  att[p][r[2]] = r[1]
      BY <1>6 DEF AttachedInv
    <3>1. r \in Recs(p) /\ Exists(r[1])
      BY <1>1, <1>4, <1>6, <2>1, ProcTypes
    <3>2. ~Emptied(p, r) /\ call[p].op # "all"
      BY <1>2, <1>6, <2>1 DEF Emptied
    <3> QED
      BY <1>1, <2>2, <3>1, <3>2 DEF ProcInv, AttachedInv
  <2>5. HandlesInv(p)'
    <3>1. \A h : Safe(p, h) => (Spared(p, h[1], {"unmap", "in_use", "go_on"})' /\ h # Nothing
                                  => att'[p][h[2]] = h[1])
      BY <1>6, <2>2 DEF Safe
    <3>2. call[p].op # "all" /\ call'[p].op = "idle" /\ UNCHANGED <<lru, hmap>>
      BY <1>2, <1>3, <1>6
    <3>3. \A k \in LRUKeys : Safe(p, lru[p][k])'
      BY <1>1, <3>1, <3>2 DEF ProcInv, HandlesInv, Safe, Spared
    <3>4. \A k \in MapKeys : Safe(p, hmap[p][k])'
      BY <1>1, <3>1, <3>2 DEF ProcInv, HandlesInv, Safe, Spared
    <3> QED
      BY <3>3, <3>4 DEF HandlesInv
  <2> QED
    BY <1>6, <2>1, <2>3, <2>4, <2>5, EndKeeps
(* detachAll came to its end, and the process goes on.                     *)
<1>7. ASSUME c.op = "all", c.rest = <<>>,
             spoilt' = spoilt \cup Befalls("go_on", p, HandleIds(p)),
             info' = [ info EXCEPT ![p] = <<>> ], call' = [ call EXCEPT ![p] = Idle ],
             UNCHANGED <<att, lru, hmap, mutex, hashImpl, buffers>>
      PROVE  SegInv'
  <2>1. /\ spoilt \subseteq spoilt' /\ spoilt' \subseteq Harms \X Procs \X Ids
        /\ \A id \in HandleIds(p) : <<"go_on", p, id>> \in spoilt'
    <3>1. /\ Befalls("go_on", p, HandleIds(p)) \subseteq Harms \X Procs \X Ids
          /\ \A id \in HandleIds(p) : <<"go_on", p, id>> \in Befalls("go_on", p, HandleIds(p))
      BY <1>1, MentionTypes, BefallFacts DEF Harms
    <3> QED
      BY <1>1, <1>7, <3>1 DEF TypeOK
  <2>2. /\ info' \in [Procs -> Seq(Region)] /\ \A q \in Procs \ {p} : info'[q] = info[q]
        /\ OneEach(info'[p]) /\ Recs(p)' = {} /\ call'[p].op = "idle"
    BY <1>1, <1>3, <1>7, EmptyFacts DEF Recs, TypeOK
  <2>3. RecordedInv(p)'
    BY <1>1, <1>2, <1>7, <2>1, MoreHarm, NothingLeft DEF RecordedInv
  <2>4. AttachedInv(p)'
    BY <2>2 DEF AttachedInv
  <2>5. HandlesInv(p)'
    BY <1>7, <2>1, MentionFacts DEF HandlesInv, Safe, Spared
  <2> QED
    BY <1>7, <2>1, <2>2, <2>3, <2>4, <2>5, EndKeeps
(* detachAll came to its end, and so does the process.                     *)
<1>8. ASSUME c.op = "all", c.rest = <<>>, Over(p), UNCHANGED spoilt
      PROVE  SegInv'
  <2>1. spoilt \subseteq spoilt' /\ spoilt' \subseteq Harms \X Procs \X Ids
    BY <1>1, <1>8 DEF TypeOK
  <2>2. /\ \A q \in Procs \ {p} : att'[q] = att[q]
        /\ \A a \in Addrs : att'[p][a] = Nothing
    BY <1>1, <1>8 DEF Over, TypeOK
  <2>3. \A a \in Addrs : att[p][a] # Nothing =>
          ~Spared(p, att[p][a], {"second_get", "unrecord"})
    BY <1>1, <1>2, <1>8, NothingLeft
  <2>4. NoNewOrphan(p)
    BY <2>1, <2>2, <2>3, NoneLeftBehind
  <2> QED
    BY <1>8, <2>1, <2>4, OverKeeps
<1>9. \/ /\ c.op = "detach" /\ (IF failed THEN UNCHANGED info ELSE removeShmSegmentInfo(p, c.id))
         /\ call' = [ call EXCEPT ![p] = Idle ]
         /\ UNCHANGED <<att, lru, hmap, mutex, hashImpl, buffers, spoilt>>
      \/ /\ c.op = "free" /\ removeShmSegmentInfo(p, c.id)
         /\ spoilt' = IF \E a \in Addrs : att[p][a] = c.id
                      THEN spoilt \cup Befalls("unrecord", p, {c.id}) ELSE spoilt
         /\ call' = [ call EXCEPT ![p] = Idle ]
         /\ UNCHANGED <<att, lru, hmap, mutex, hashImpl, buffers>>
      \/ /\ c.op = "all" /\ c.rest # <<>>
         /\ call' = [ call EXCEPT ![p] = Detaching("all", Head(c.rest), FALSE, Tail(c.rest)) ]
         /\ UNCHANGED <<att, info, lru, hmap, mutex, hashImpl, buffers, spoilt>>
      \/ /\ c.op = "all" /\ c.rest = <<>>
         /\ spoilt' = spoilt \cup Befalls("go_on", p, HandleIds(p))
         /\ info' = [ info EXCEPT ![p] = <<>> ]
         /\ call' = [ call EXCEPT ![p] = Idle ]
         /\ UNCHANGED <<att, lru, hmap, mutex, hashImpl, buffers>>
      \/ c.op = "all" /\ c.rest = <<>> /\ Over(p) /\ UNCHANGED spoilt
  BY <1>2 DEF Return, handles
<1>10. spoilt \subseteq Harms \X Procs \X Ids
  BY <1>1 DEF TypeOK
<1>11. Befalls("unrecord", p, {c.id}) \subseteq Harms \X Procs \X Ids
       /\ <<"unrecord", p, c.id>> \in Befalls("unrecord", p, {c.id})
  BY <1>2, BefallFacts DEF Harms
<1>12. CASE c.op = "detach"
  BY <1>5, <1>6, <1>9, <1>10, <1>12
<1>13. CASE c.op = "free"
  BY <1>6, <1>9, <1>10, <1>11, <1>13
<1>14. CASE c.op = "all"
  BY <1>2, <1>7, <1>8, <1>9, <1>14, NextKeeps
<1> QED
  BY <1>9, <1>12, <1>13, <1>14

(* A call that goes on to its next system call.                            *)
LEMMA GoFacts ==
  ASSUME TypeOK, NEW p \in Procs, call[p].op \in Detachers,
         NEW next \in {"stat", "rmid"}, GoTo(p, next)
  PROVE  /\ call' \in [Procs -> Calls]
         /\ \A q \in Procs \ {p} : call'[q] = call[q]
         /\ call'[p] # Idle
         /\ call'[p].op = call[p].op /\ call'[p].id = call[p].id
         /\ call'[p].addr = call[p].addr /\ call'[p].rest = call[p].rest
         /\ call'[p].at = next
         /\ UNCHANGED <<info, lru, hmap, mutex, hashImpl, buffers>>
<1>1. PICK c \in Calls : c = call[p]
  BY DEF TypeOK
<1>2. /\ c = [op |-> c.op, id |-> c.id, addr |-> c.addr, force |-> c.force,
              at |-> c.at, rest |-> c.rest]
      /\ c.id \in Ids /\ c.addr \in Addrs /\ c.force \in BOOLEAN /\ c.rest \in Seq(Region)
  BY <1>1, CallFacts
<1> DEFINE d == [c EXCEPT !.at = next]
<1>3. d = [op |-> c.op, id |-> c.id, addr |-> c.addr, force |-> c.force,
           at |-> next, rest |-> c.rest]
  BY <1>2
<1>4. call' = [ call EXCEPT ![p] = d ]
  BY <1>1 DEF GoTo
<1> HIDE DEF d
<1>5. d \in Calls /\ d # Idle
  BY <1>1, <1>2, <1>3 DEF Calls, Idle, Detachers
<1>6. call'[p] = d /\ call' \in [Procs -> Calls] /\ \A q \in Procs \ {p} : call'[q] = call[q]
  BY <1>4, <1>5 DEF TypeOK
<1>7. UNCHANGED <<info, lru, hmap, mutex, hashImpl, buffers>>
  BY DEF GoTo, handles
<1> QED
  BY <1>1, <1>3, <1>5, <1>6, <1>7

(* After shmdt the region of the call is no longer attached.               *)
LEMMA ShmdtKeeps ==
  ASSUME SegInv, NEW p \in Procs, Shmdt(p)
  PROVE  SegInv'
<1>1. TypeOK /\ ProcInv(p)
  BY DEF SegInv
<1>2. PICK c \in Calls : c = call[p] /\ c.op \in Detachers /\ c.at = "shmdt"
  BY <1>1 DEF TypeOK, Shmdt, InCall, Detachers
<1>3. c.id \in Ids /\ c.addr \in Addrs /\ c.rest \in Seq(Region) /\ UNCHANGED keyOf
  BY <1>2, CallFacts DEF Shmdt
<1>4. CASE att[p][c.addr] = Nothing /\ Return(p, TRUE)
  BY <1>2, <1>3, <1>4, ReturnKeeps DEF MayRemove
<1>5. CASE /\ att[p][c.addr] # Nothing
           /\ att' = [ att EXCEPT ![p][c.addr] = Nothing ]
           /\ spoilt' = spoilt \cup Unmapped(p)
           /\ GoTo(p, "stat")
  <2> DEFINE hit == att[p][c.addr]
  <2>1. hit \in Ids
    BY <1>1, <1>3, <1>5 DEF TypeOK
  <2>2. /\ spoilt \subseteq spoilt' /\ spoilt' \subseteq Harms \X Procs \X Ids
        /\ hit # c.id => <<"unmap", p, hit>> \in spoilt'
        /\ c.op = "free" /\ Uses(p, <<hit, c.addr>>) => <<"in_use", p, hit>> \in spoilt'
    <3>1. \A h \in {"unmap", "in_use"} :
            /\ Befalls(h, p, {hit}) \subseteq Harms \X Procs \X Ids
            /\ <<h, p, hit>> \in Befalls(h, p, {hit})
      BY <2>1, BefallFacts DEF Harms
    <3>2. Unmapped(p) = (IF hit # c.id THEN Befalls("unmap", p, {hit}) ELSE {})
            \cup (IF c.op = "free" /\ Uses(p, <<hit, c.addr>>)
                  THEN Befalls("in_use", p, {hit}) ELSE {})
      BY <1>2 DEF Unmapped
    <3>3. spoilt \subseteq Harms \X Procs \X Ids
      BY <1>1 DEF TypeOK
    <3> HIDE DEF hit
    <3> QED
      BY <1>5, <3>1, <3>2, <3>3
  <2>3. \A i, hs : Spared(p, i, hs)' => Spared(p, i, hs)
    BY <2>2, MoreHarm
  <2>4. /\ call' \in [Procs -> Calls]
        /\ \A q \in Procs \ {p} : call'[q] = call[q]
        /\ call'[p] # Idle /\ call'[p].op = c.op /\ call'[p].id = c.id
        /\ call'[p].addr = c.addr /\ call'[p].rest = c.rest /\ call'[p].at = "stat"
        /\ UNCHANGED <<info, lru, hmap, mutex, hashImpl, buffers>>
    BY <1>1, <1>2, <1>5, GoFacts
  <2>5. /\ att' \in [Procs -> [Addrs -> Ids \cup {Nothing}]]
        /\ att'[p][c.addr] = Nothing
        /\ \A a \in Addrs : a # c.addr => att'[p][a] = att[p][a]
        /\ \A q \in Procs \ {p} : att'[q] = att[q]
    BY <1>1, <1>3, <1>5 DEF TypeOK
  <2> HIDE DEF hit
  <2>6. OnlyOf(p)
    BY <2>4, <2>5 DEF OnlyOf
  <2>7. TypeOK'
    BY <1>1, <1>3, <2>2, <2>4, <2>5 DEF TypeOK
  <2>8. \A id \in Ids : Exists(id)' => Exists(id)
    <3>1. \A q \in Procs, a \in Addrs : att'[q][a] \in {att[q][a], Nothing}
      BY <2>5
    <3> QED
      BY <1>1, <1>3, <3>1, Shrinks
  <2>9. \A q \in Procs : SegmentsKept(q)
    BY <1>1, <1>3, <2>8, MentionTypes DEF SegmentsKept
  <2>10. NoNewOrphan(p)
    <3> SUFFICES ASSUME NEW id \in Ids, id # c.id, Attaches(id)' = {}, Spared(p, id, Losses)'
                 PROVE  Attaches(id) = {} /\ ~About(p, id)
      BY <1>3, <2>4 DEF NoNewOrphan, About
    <3>1. hit # id
      BY <2>2 DEF Spared, Losses
    <3>2. \A q \in Procs, a \in Addrs : att[q][a] # id
      BY <2>5, <3>1, ExistsFacts DEF hit
    <3> QED
      BY <1>2, <3>2, ExistsFacts DEF About
  <2>11. ProcInv(p)'
    <3>1. Recs(p)' = Recs(p) /\ Left(p)' = Elems(c.rest)
      BY <2>4 DEF Recs, Left
    <3>2. \A r : Emptied(p, r)' <=> c.op \in {"detach", "free"} /\ r[1] = c.id
      BY <2>4 DEF Emptied
    <3>3. \A r : ~Emptied(p, r)
      BY <1>2 DEF Emptied
    <3>4. BookInv(p)' /\ FreshInv(p)' /\ KeyedInv(p)'
      BY <1>1, <1>2, <1>3, <2>4, <2>5, <3>1
      DEF ProcInv, BookInv, FreshInv, KeyedInv, Current, Detachers
    <3>5. RecordedInv(p)'
      <4> SUFFICES ASSUME NEW a \in Addrs, att'[p][a] # Nothing,
                          \A h \in {"second_get", "unrecord"} : <<h, p, att'[p][a]>> \notin spoilt'
                   PROVE  /\ <<att'[p][a], a>> \in Recs(p)
                          /\ c.op = "all" => <<att'[p][a], a>> \in Elems(c.rest)
        BY <2>4, <3>1 DEF RecordedInv, Spared
      <4>1. a # c.addr /\ att'[p][a] = att[p][a]
        BY <2>5
      <4>2. Spared(p, att[p][a], {"second_get", "unrecord"})
        BY <2>2, <4>1 DEF Spared
      <4>3. <<att[p][a], a>> \in Recs(p)
            /\ (c.op = "all" => <<att[p][a], a>> \in Left(p))
        BY <1>1, <1>2, <4>1, <4>2 DEF ProcInv, RecordedInv
      <4>4. <<att[p][a], a>> # Current(p)
        BY <1>2, <4>1 DEF Current
      <4> QED
        BY <1>2, <4>1, <4>3, <4>4 DEF Left
    <3>6. AttachedInv(p)'
      <4> SUFFICES ASSUME c.op # "all", NEW r \in Recs(p), Exists(r[1])',
                          Spared(p, r[1], {"unmap"})', r[1] # c.id
                   PROVE  att'[p][r[2]] = r[1]
        BY <1>2, <2>4, <3>1, <3>2 DEF AttachedInv, Detachers
      <4>1. r[1] \in Ids /\ r[2] \in Addrs
        BY <1>1, ProcTypes
      <4>2. att[p][r[2]] = r[1]
        BY <1>1, <1>2, <2>3, <2>8, <3>3, <4>1 DEF ProcInv, AttachedInv
      <4>3. hit # r[1]
        BY <2>2 DEF Spared
      <4> QED
        BY <2>5, <4>1, <4>2, <4>3 DEF hit
    <3>7. HandlesInv(p)'
      <4> SUFFICES ASSUME c.op # "all"
                   PROVE  /\ \A k \in LRUKeys : Safe(p, lru[p][k])'
                          /\ \A k \in MapKeys : Safe(p, hmap[p][k])'
        BY <2>4 DEF HandlesInv
      <4>1. ASSUME NEW h \in Region, Safe(p, h), Uses(p, h),
                   Spared(p, h[1], {"unmap", "in_use", "go_on"})'
            PROVE  att'[p][h[2]] = h[1] /\ (c.op = "detach" => h[1] # c.id)
        <5>1. h[1] \in Ids /\ h[2] \in Addrs /\ h = <<h[1], h[2]>> /\ h # Nothing
          BY <1>1, ProcTypes
        <5>2. att[p][h[2]] = h[1] /\ (c.op = "detach" => h[1] # c.id)
          BY <1>2, <2>3, <4>1, <5>1 DEF Safe
        <5>3. h[2] # c.addr
          <6> SUFFICES ASSUME h[2] = c.addr PROVE FALSE
            OBVIOUS
          <6>1. hit = h[1] /\ Uses(p, <<hit, c.addr>>)
            BY <4>1, <5>1, <5>2 DEF hit
          <6>2. hit = c.id /\ c.op # "free"
            BY <2>2, <4>1, <6>1 DEF Spared
          <6> QED
            BY <1>2, <5>2, <6>1, <6>2 DEF Detachers
        <5> QED
          BY <2>5, <5>1, <5>2, <5>3
      <4>2. \A k \in LRUKeys : Safe(p, lru[p][k])'
        <5> TAKE k \in LRUKeys
        <5>1. Safe(p, lru[p][k]) /\ (lru[p][k] # Nothing => lru[p][k] \in Region)
              /\ Uses(p, lru[p][k])
          BY <1>1, <1>2, ProcTypes DEF ProcInv, HandlesInv, Uses
        <5> QED
          BY <2>4, <4>1, <5>1 DEF Safe, Spared
      <4>3. \A k \in MapKeys : Safe(p, hmap[p][k])'
        <5> TAKE k \in MapKeys
        <5>1. Safe(p, hmap[p][k]) /\ (hmap[p][k] # Nothing => hmap[p][k] \in Region)
              /\ Uses(p, hmap[p][k])
          BY <1>1, <1>2, ProcTypes DEF ProcInv, HandlesInv, Uses
        <5> QED
          BY <2>4, <4>1, <5>1 DEF Safe, Spared
      <4> QED
        BY <4>2, <4>3
    <3> QED
      BY <3>4, <3>5, <3>6, <3>7 DEF ProcInv
  <2> QED
    BY <2>2, <2>6, <2>7, <2>9, <2>10, <2>11, MoreHarm, StepOK
<1> QED
  BY <1>2, <1>4, <1>5 DEF Shmdt

(* The count of the attaches sends the call on or ends it.                 *)
LEMMA StatKeeps ==
  ASSUME SegInv, NEW p \in Procs, Stat(p)
  PROVE  SegInv'
<1>1. TypeOK /\ ProcInv(p)
  BY DEF SegInv
<1>2. PICK c \in Calls : c = call[p] /\ c.op \in Detachers /\ c.at = "stat"
  BY <1>1 DEF TypeOK, Stat, InCall, Detachers
<1>3. UNCHANGED keyOf /\ att[p][c.addr] = Nothing
  BY <1>1, <1>2 DEF Stat, ProcInv, BookInv
<1>4. CASE ~Exists(c.id) /\ Return(p, TRUE)
  BY <1>2, <1>3, <1>4, ReturnKeeps DEF MayRemove, Exists
<1>5. CASE Attaches(c.id) # {} /\ Return(p, FALSE)
  BY <1>2, <1>3, <1>5, ReturnKeeps DEF MayRemove
<1>6. CASE GoTo(p, "rmid") /\ UNCHANGED <<att, spoilt>>
  <2>1. /\ call' \in [Procs -> Calls]
        /\ \A q \in Procs \ {p} : call'[q] = call[q]
        /\ call'[p] # Idle /\ call'[p].op = c.op /\ call'[p].id = c.id
        /\ call'[p].addr = c.addr /\ call'[p].rest = c.rest /\ call'[p].at = "rmid"
        /\ UNCHANGED <<info, lru, hmap, mutex, hashImpl, buffers>>
    BY <1>1, <1>2, <1>6, GoFacts
  <2>2. OnlyOf(p)
    BY <1>6, <2>1 DEF OnlyOf
  <2>3. TypeOK'
    BY <1>1, <1>3, <1>6, <2>1 DEF TypeOK
  <2>4. /\ \A id : Attaches(id)' = Attaches(id)
        /\ \A q \in Procs : SegmentsKept(q)
        /\ \A q : HarmsKept(q)
    BY <1>3, <1>6, StillThere, MoreHarm
  <2>5. ProcInv(p)'
    <3>1. CallAlike(p)
      BY <1>2, <2>1 DEF CallAlike
    <3> QED
      BY <1>1, <1>6, <2>1, <2>4, <3>1, Frame
  <2>6. NoNewOrphan(p)
    BY <1>2, <1>3, <2>1, <2>4 DEF NoNewOrphan, About
  <2> QED
    BY <2>2, <2>3, <2>4, <2>5, <2>6, StepOK
<1> QED
  BY <1>2, <1>4, <1>5, <1>6 DEF Stat

(* A segment that is removed loses its key.                                *)
LEMMA RmidKeeps ==
  ASSUME SegInv, NEW p \in Procs, Rmid(p)
  PROVE  SegInv'
<1>1. TypeOK /\ ProcInv(p)
  BY DEF SegInv
<1>2. PICK c \in Calls : c = call[p] /\ c.op \in Detachers /\ c.at = "rmid"
  BY <1>1 DEF TypeOK, Rmid, InCall, Detachers
<1>3. /\ att[p][c.addr] = Nothing
      /\ keyOf' = [ keyOf EXCEPT ![c.id] = NoKey ] /\ Return(p, ~Exists(c.id))
  BY <1>1, <1>2 DEF Rmid, ProcInv, BookInv
<1>4. keyOf'[c.id] = NoKey
  <2>1. c.id \in Ids /\ keyOf \in [Ids -> Keys \cup {NoKey}]
    BY <1>1, <1>2, CallFacts DEF TypeOK
  <2> QED
    BY <1>3, <2>1
<1>5. CASE Exists(c.id)
  <2>1. Return(p, FALSE)
    BY <1>3, <1>5
  <2> QED
    BY <1>2, <1>3, <1>4, <2>1, ReturnKeeps DEF MayRemove
<1>6. CASE ~Exists(c.id)
  <2>1. Return(p, TRUE)
    BY <1>3, <1>6
  <2> QED
    BY <1>2, <1>3, <1>4, <1>6, <2>1, ReturnKeeps DEF MayRemove
<1> QED
  BY <1>5, <1>6

-----------------------------------------------------------------------------
(* initLRU, initHopScotch and init_mutex.                                  *)

(* The handle h of the key k leads to the segment of that key, mapped.     *)
Built(p, k, h) ==
  keyOf[h[1]] = k /\ (Spared(p, h[1], {"unmap"}) => att[p][h[2]] = h[1])

(* A handle is built on a segment that is attached where it is recorded.   *)
LEMMA HandleFacts ==
  ASSUME SegInv, NEW p \in Procs, call[p] = Idle, NEW k, NEW id \in Ids,
         Found(k, id), k \in Keys, hasShmSegmentInfo(p, id)
  PROVE  /\ <<id, getShmSegmentAddr(p, id)>> \in Region
         /\ Built(p, k, <<id, getShmSegmentAddr(p, id)>>)
<1>1. TypeOK /\ ProcInv(p)
  BY DEF SegInv
<1>2. PICK a \in Addrs : a = getShmSegmentAddr(p, id) /\ <<id, a>> \in Recs(p)
  BY <1>1, RecordFacts
<1>3. keyOf[id] = k /\ Exists(id)
  BY NothingAssumption DEF Found, Exists
<1>4. call[p].op = "idle" /\ ~Emptied(p, <<id, a>>)
  BY CallFacts DEF Emptied
<1>5. Spared(p, id, {"unmap"}) => att[p][a] = id
  BY <1>1, <1>2, <1>3, <1>4 DEF ProcInv, AttachedInv
<1> QED
  BY <1>2, <1>3, <1>5 DEF Region, Built

(* A call that changes the handles of one process and keeps them mapped.   *)
LEMMA InitKeeps ==
  ASSUME SegInv, NEW p \in Procs, call[p] = Idle,
         UNCHANGED <<keyOf, att, info, buffers, call, spoilt>>,
         lru' \in [Procs -> [LRUKeys -> Region \cup {Nothing}]],
         hashImpl' \in [Procs -> [LRUKeys -> Region \cup {Nothing}]],
         hmap' \in [Procs -> [MapKeys -> Region \cup {Nothing}]],
         mutex' \in [Procs -> [MutexKeys -> Region \cup {Nothing}]],
         \A q \in Procs \ {p} : lru'[q] = lru[q] /\ hmap'[q] = hmap[q],
         \A k \in LRUKeys : lru'[p][k] \in {lru[p][k], Nothing} \/ Built(p, k, lru'[p][k]),
         \A k \in MapKeys : hmap'[p][k] \in {hmap[p][k], Nothing} \/ Built(p, k, hmap'[p][k])
  PROVE  SegInv'
<1>1. TypeOK /\ ProcInv(p) /\ call[p].op = "idle"
  BY CallFacts DEF SegInv
<1>2. OnlyOf(p) /\ TypeOK'
  BY <1>1 DEF OnlyOf, TypeOK
<1>3. /\ \A id : Exists(id)' <=> Exists(id)
      /\ \A id : Attaches(id)' = Attaches(id)
      /\ \A q \in Procs : SegmentsKept(q)
      /\ \A q : HarmsKept(q)
  BY StillThere, MoreHarm
<1>4. ProcInv(p)'
  <2>1. Recs(p)' = Recs(p)
    BY DEF Recs
  <2>2. BookInv(p)' /\ FreshInv(p)'
    BY <1>1, <2>1 DEF ProcInv, BookInv, FreshInv, Detachers
  <2>3. RecordedInv(p)'
    BY <1>1, <2>1 DEF ProcInv, RecordedInv, Spared
  <2>4. AttachedInv(p)'
    BY <1>1, <1>3, <2>1 DEF ProcInv, AttachedInv, Spared, Emptied
  <2>5. KeyedInv(p)'
    BY <1>1 DEF ProcInv, KeyedInv, Built
  <2>6. HandlesInv(p)'
    <3>1. \A k \in LRUKeys : Safe(p, lru[p][k])'
      <4> TAKE k \in LRUKeys
      <4>1. Safe(p, lru[p][k])
        BY <1>1 DEF ProcInv, HandlesInv
      <4> QED
        BY <1>1, <4>1 DEF Safe, Built, Spared
    <3>2. \A k \in MapKeys : Safe(p, hmap[p][k])'
      <4> TAKE k \in MapKeys
      <4>1. Safe(p, hmap[p][k])
        BY <1>1 DEF ProcInv, HandlesInv
      <4> QED
        BY <1>1, <4>1 DEF Safe, Built, Spared
    <3> QED
      BY <3>1, <3>2 DEF HandlesInv
  <2> QED
    BY <2>2, <2>3, <2>4, <2>5, <2>6 DEF ProcInv
<1>5. NoNewOrphan(p)
  BY <1>3 DEF NoNewOrphan, About
<1> QED
  BY <1>2, <1>3, <1>4, <1>5, StepOK

(* initLRU builds the handle of its key, or drops it.                      *)
LEMMA InitLRUKeeps ==
  ASSUME SegInv, NEW p \in Procs, NEW k \in LRUKeys, InitLRU(p, k)
  PROVE  SegInv'
<1>1. TypeOK /\ k \in Keys
  BY SegmentUse DEF SegInv
<1>2. /\ call[p] = Idle /\ hashImpl' = [ hashImpl EXCEPT ![p][k] = Nothing ]
      /\ UNCHANGED <<keyOf, att, info, hmap, mutex, buffers, call, spoilt>>
  BY DEF InitLRU
<1>3. PICK h \in Region \cup {Nothing} :
        /\ lru' = [ lru EXCEPT ![p][k] = h ]
        /\ h = Nothing \/ Built(p, k, h)
  <2>1. PICK id \in Ids :
          /\ Found(k, id)
          /\ \/ /\ hasShmSegmentInfo(p, id)
                /\ lru' = [ lru EXCEPT ![p][k] = <<id, getShmSegmentAddr(p, id)>> ]
             \/ lru' = [ lru EXCEPT ![p][k] = Nothing ]
    BY DEF InitLRU
  <2>2. CASE lru' = [ lru EXCEPT ![p][k] = Nothing ]
    BY <2>2
  <2>3. CASE /\ hasShmSegmentInfo(p, id)
             /\ lru' = [ lru EXCEPT ![p][k] = <<id, getShmSegmentAddr(p, id)>> ]
    <3>1. <<id, getShmSegmentAddr(p, id)>> \in Region
          /\ Built(p, k, <<id, getShmSegmentAddr(p, id)>>)
      BY <1>1, <1>2, <2>1, <2>3, HandleFacts
    <3> QED
      BY <2>3, <3>1
  <2> QED
    BY <2>1, <2>2, <2>3
<1>4. /\ lru' \in [Procs -> [LRUKeys -> Region \cup {Nothing}]]
      /\ hashImpl' \in [Procs -> [LRUKeys -> Region \cup {Nothing}]]
      /\ \A q \in Procs \ {p} : lru'[q] = lru[q]
      /\ \A j \in LRUKeys : lru'[p][j] = IF j = k THEN h ELSE lru[p][j]
  BY <1>1, <1>2, <1>3 DEF TypeOK
<1>5. \A j \in LRUKeys : lru'[p][j] \in {lru[p][j], Nothing} \/ Built(p, j, lru'[p][j])
  BY <1>3, <1>4
<1>6. \A j \in MapKeys : hmap'[p][j] \in {hmap[p][j], Nothing} \/ Built(p, j, hmap'[p][j])
  BY <1>2
<1>7. /\ hmap' \in [Procs -> [MapKeys -> Region \cup {Nothing}]]
      /\ mutex' \in [Procs -> [MutexKeys -> Region \cup {Nothing}]]
      /\ \A q \in Procs \ {p} : hmap'[q] = hmap[q]
  BY <1>1, <1>2 DEF TypeOK
<1> QED
  BY <1>2, <1>4, <1>5, <1>6, <1>7, InitKeeps

(* initHopScotch builds the handle of its key, or drops it.                *)
LEMMA InitHopScotchKeeps ==
  ASSUME SegInv, NEW p \in Procs, NEW k \in MapKeys, NEW lruKey \in LRUKeys,
         InitHopScotch(p, k, lruKey)
  PROVE  SegInv'
<1>1. TypeOK /\ k \in Keys
  BY SegmentUse DEF SegInv
<1>2. /\ call[p] = Idle
      /\ UNCHANGED <<keyOf, att, info, lru, mutex, buffers, call, spoilt>>
  BY DEF InitHopScotch
<1>3. PICK h \in Region \cup {Nothing} :
        /\ hmap' = [ hmap EXCEPT ![p][k] = h ]
        /\ hashImpl' = hashImpl \/ hashImpl' = [ hashImpl EXCEPT ![p][lruKey] = h ]
        /\ h = Nothing \/ Built(p, k, h)
  <2>1. PICK id \in Ids :
          /\ Found(k, id)
          /\ \/ /\ hasShmSegmentInfo(p, id)
                /\ hmap' = [ hmap EXCEPT ![p][k] = <<id, getShmSegmentAddr(p, id)>> ]
                /\ hashImpl' = IF lru[p][lruKey] = Nothing THEN hashImpl
                               ELSE [ hashImpl EXCEPT ![p][lruKey] =
                                        <<id, getShmSegmentAddr(p, id)>> ]
             \/ hmap' = [ hmap EXCEPT ![p][k] = Nothing ] /\ UNCHANGED hashImpl
    BY DEF InitHopScotch
  <2>2. CASE hmap' = [ hmap EXCEPT ![p][k] = Nothing ] /\ UNCHANGED hashImpl
    BY <2>2
  <2>3. CASE /\ hasShmSegmentInfo(p, id)
             /\ hmap' = [ hmap EXCEPT ![p][k] = <<id, getShmSegmentAddr(p, id)>> ]
             /\ hashImpl' = IF lru[p][lruKey] = Nothing THEN hashImpl
                            ELSE [ hashImpl EXCEPT ![p][lruKey] =
                                     <<id, getShmSegmentAddr(p, id)>> ]
    <3>1. <<id, getShmSegmentAddr(p, id)>> \in Region
          /\ Built(p, k, <<id, getShmSegmentAddr(p, id)>>)
      BY <1>1, <1>2, <2>1, <2>3, HandleFacts
    <3> QED
      BY <2>3, <3>1
  <2> QED
    BY <2>1, <2>2, <2>3
<1>4. /\ hmap' \in [Procs -> [MapKeys -> Region \cup {Nothing}]]
      /\ \A q \in Procs \ {p} : hmap'[q] = hmap[q]
      /\ \A j \in MapKeys : hmap'[p][j] = IF j = k THEN h ELSE hmap[p][j]
  BY <1>1, <1>3 DEF TypeOK
<1>5. hashImpl' \in [Procs -> [LRUKeys -> Region \cup {Nothing}]]
  <2>1. hashImpl \in [Procs -> [LRUKeys -> Region \cup {Nothing}]]
    BY <1>1 DEF TypeOK
  <2>2. [ hashImpl EXCEPT ![p][lruKey] = h ] \in [Procs -> [LRUKeys -> Region \cup {Nothing}]]
    BY <2>1
  <2>3. CASE hashImpl' = hashImpl
    BY <2>1, <2>3
  <2>4. CASE hashImpl' = [ hashImpl EXCEPT ![p][lruKey] = h ]
    BY <2>2, <2>4
  <2> QED
    BY <1>3, <2>3, <2>4
<1>6. \A j \in LRUKeys : lru'[p][j] \in {lru[p][j], Nothing} \/ Built(p, j, lru'[p][j])
  BY <1>2
<1>7. \A j \in MapKeys : hmap'[p][j] \in {hmap[p][j], Nothing} \/ Built(p, j, hmap'[p][j])
  BY <1>3, <1>4
<1>8. /\ lru' \in [Procs -> [LRUKeys -> Region \cup {Nothing}]]
      /\ mutex' \in [Procs -> [MutexKeys -> Region \cup {Nothing}]]
      /\ \A q \in Procs \ {p} : lru'[q] = lru[q]
  BY <1>1, <1>2 DEF TypeOK
<1> QED
  BY <1>2, <1>4, <1>5, <1>6, <1>7, <1>8, InitKeeps

(* init_mutex touches nothing the invariant is about.                      *)
LEMMA InitMutexKeeps ==
  ASSUME SegInv, NEW p \in Procs, NEW k \in MutexKeys, InitMutex(p, k)
  PROVE  SegInv'
<1>1. TypeOK /\ k \in Keys
  BY SegmentUse DEF SegInv
<1>2. /\ call[p] = Idle
      /\ UNCHANGED <<keyOf, att, info, lru, hmap, hashImpl, buffers, call, spoilt>>
  BY DEF InitMutex
<1>3. PICK h \in Region \cup {Nothing} : mutex' = [ mutex EXCEPT ![p][k] = h ]
  <2>1. PICK id \in Ids :
          /\ Found(k, id)
          /\ \/ /\ hasShmSegmentInfo(p, id)
                /\ mutex' = [ mutex EXCEPT ![p][k] = <<id, getShmSegmentAddr(p, id)>> ]
             \/ mutex' = [ mutex EXCEPT ![p][k] = Nothing ]
    BY DEF InitMutex
  <2>2. hasShmSegmentInfo(p, id) => <<id, getShmSegmentAddr(p, id)>> \in Region
    BY <1>1, <1>2, <2>1, HandleFacts
  <2> QED
    BY <2>1, <2>2
<1>4. mutex' \in [Procs -> [MutexKeys -> Region \cup {Nothing}]]
  BY <1>1, <1>3 DEF TypeOK
<1> QED
  BY <1>1, <1>2, <1>4, InitKeeps DEF TypeOK

(* A process that is killed may leave what it had attached behind, or what *)
(* it was about to remove; nothing else.                                   *)
LEMMA DieKeeps ==
  ASSUME SegInv, NEW p \in Procs, Die(p)
  PROVE  SegInv'
<1>1. TypeOK /\ Over(p) /\ MayRemove(p) /\ UNCHANGED keyOf
  BY DEF SegInv, Die, MayRemove
<1> DEFINE lost == { id \in Ids : (\E a \in Addrs : att[p][a] = id)
                                 \/ (call[p] # Idle /\ call[p].id = id) }
<1>2. spoilt' = spoilt \cup Befalls("die", p, lost)
  BY DEF Die
<1>3. /\ spoilt \subseteq spoilt' /\ spoilt' \subseteq Harms \X Procs \X Ids
      /\ \A id \in lost : <<"die", p, id>> \in spoilt'
  <2>1. /\ Befalls("die", p, lost) \subseteq Harms \X Procs \X Ids
        /\ \A id \in lost : <<"die", p, id>> \in Befalls("die", p, lost)
    BY BefallFacts DEF Harms
  <2> HIDE DEF lost
  <2> QED
    BY <1>1, <1>2, <2>1 DEF TypeOK
<1>4. NoNewOrphan(p)
  <2> SUFFICES ASSUME NEW id \in Ids, Attaches(id)' = {}, id \notin lost
               PROVE  Attaches(id) = {} /\ ~About(p, id)
    BY <1>1, <1>3 DEF NoNewOrphan, Spared, Losses
  <2>1. \A q \in Procs \ {p} : att'[q] = att[q]
    BY <1>1 DEF Over, TypeOK
  <2>2. \A q \in Procs, a \in Addrs : att[q][a] # id
    BY <2>1, ExistsFacts
  <2> QED
    BY <2>2, ExistsFacts DEF About
<1> QED
  BY <1>1, <1>3, <1>4, OverKeeps

-----------------------------------------------------------------------------
(* The invariant holds at the start and every step keeps it.               *)

(* Nothing exists, nothing is attached, nothing is remembered.             *)
LEMMA SegInit == Init => SegInv
<1> SUFFICES ASSUME Init PROVE SegInv
  OBVIOUS
<1>1. TypeOK
  BY EmptyFacts, CallFacts DEF Init, TypeOK
<1>2. ASSUME NEW p \in Procs PROVE ProcInv(p)
  <2>1. call[p].op = "idle" /\ Recs(p) = {} /\ OneEach(info[p])
    BY CallFacts, EmptyFacts DEF Init, Recs
  <2>2. \A a \in Addrs : att[p][a] = Nothing
    BY DEF Init
  <2>3. BookInv(p) /\ FreshInv(p) /\ RecordedInv(p) /\ AttachedInv(p)
    BY <2>1, <2>2 DEF BookInv, FreshInv, RecordedInv, AttachedInv, Detachers
  <2>4. KeyedInv(p) /\ HandlesInv(p)
    BY DEF Init, KeyedInv, HandlesInv, Safe
  <2> QED
    BY <2>3, <2>4 DEF ProcInv
<1>3. NoOrphan
  BY DEF Init, NoOrphan
<1> QED
  BY <1>1, <1>2, <1>3 DEF SegInv

(* Every step of every process keeps the invariant.                        *)
LEMMA SegStep == SegInv /\ [Next]_vars => SegInv'
<1> SUFFICES ASSUME SegInv, [Next]_vars PROVE SegInv'
  OBVIOUS
<1>1. ASSUME NEW p \in Procs, NEW k \in Keys, Get(p, k) PROVE SegInv'
  BY <1>1, GetKeeps
<1>2. ASSUME NEW p \in Procs, NEW k \in Keys, NEW force \in BOOLEAN, Detach(p, k, force)
      PROVE  SegInv'
  BY <1>2, DetachKeeps
<1>3. ASSUME NEW p \in Procs, DetachAll(p) \/ FreeCallback(p) PROVE SegInv'
  BY <1>3, DetachAllKeeps, FreeCallbackKeeps
<1>4. ASSUME NEW p \in Procs, SystemCall(p) PROVE SegInv'
  BY <1>4, ShmatKeeps, ShmdtKeeps, StatKeeps, RmidKeeps DEF SystemCall
<1>5. ASSUME NEW p \in Procs, NEW k \in LRUKeys, InitLRU(p, k) PROVE SegInv'
  BY <1>5, InitLRUKeeps
<1>6. ASSUME NEW p \in Procs, NEW k \in MapKeys, NEW lruKey \in LRUKeys,
             InitHopScotch(p, k, lruKey)
      PROVE  SegInv'
  BY <1>6, InitHopScotchKeeps
<1>7. ASSUME NEW p \in Procs, NEW k \in MutexKeys, InitMutex(p, k) PROVE SegInv'
  BY <1>7, InitMutexKeeps
<1>8. ASSUME NEW p \in Procs, Die(p) PROVE SegInv'
  BY <1>8, DieKeeps
<1>9. CASE UNCHANGED vars
  <2>1. UNCHANGED <<keyOf, att, info, lru, hmap, mutex, hashImpl, buffers, call, spoilt>>
    BY <1>9 DEF vars, handles
  <2>2. /\ \A id : Attaches(id)' = Attaches(id)
        /\ \A q \in Procs : SegmentsKept(q)
        /\ \A q : HarmsKept(q)
    BY <2>1, StillThere, MoreHarm
  <2>3. \A q \in Procs : ProcInv(q)'
    <3> TAKE q \in Procs
    <3>1. TypeOK /\ ProcInv(q) /\ CallAlike(q)
      BY <2>1 DEF SegInv, CallAlike
    <3> QED
      BY <2>1, <2>2, <3>1, Frame
  <2>4. TypeOK' /\ NoOrphan'
    BY <2>1, <2>2 DEF SegInv, TypeOK, NoOrphan, Spared
  <2> QED
    BY <2>3, <2>4 DEF SegInv
<1> QED
  BY <1>1, <1>2, <1>3, <1>4, <1>5, <1>6, <1>7, <1>8, <1>9 DEF Next

(* Whatever the callers do, each property for the segments to which none of*)
(* the harms it names has come.                                            *)
THEOREM SegmentsAlways == Spec => []SegInv
<1> QED
  BY SegInit, SegStep, PTL DEF Spec

-----------------------------------------------------------------------------
(* The arrays hold segments and addresses, the handles regions, and a call *)
(* what its system calls need, whatever the callers do.                    *)
THEOREM TypesCorrect == Spec => []TypeOK
<1>1. SegInv => TypeOK
  BY DEF SegInv
<1> QED
  BY <1>1, SegmentsAlways, PTL

(* detach, detachAll and the exit of a process find all that it has        *)
(* attached, also in the middle of a call, after a system call of a detach *)
(* failed, and when Buffers are collected; but for a segment that the      *)
(* process got a second time while it had it, or of which a Buffer from an *)
(* earlier attach was collected.                                           *)
THEOREM EveryAttachRecorded == Spec => []AttachesRecorded
<1>1. SegInv => AttachesRecorded
  <2> SUFFICES ASSUME SegInv, NEW p \in Procs, NEW a \in Addrs, att[p][a] # Nothing,
                      Spared(p, att[p][a], {"second_get", "unrecord"})
               PROVE  \E i \in DOMAIN info[p] : info[p][i] = <<att[p][a], a>>
    BY DEF AttachesRecorded
  <2>1. <<att[p][a], a>> \in Recs(p)
    BY DEF SegInv, ProcInv, RecordedInv
  <2> QED
    BY <2>1 DEF Recs, Elems
<1> QED
  BY <1>1, SegmentsAlways, PTL

(* Between two calls getShmSegmentAddr returns the address at which the    *)
(* segment is mapped, also after Buffers were collected, second gets,      *)
(* forced detaches and deaths; but for a segment that was unmapped because *)
(* an old Buffer or an old record of another one named its address.        *)
THEOREM EveryRecordAttached == Spec => []RecordsAttached
<1>1. SegInv => RecordsAttached
  <2> SUFFICES ASSUME SegInv, NEW p \in Procs, call[p] = Idle,
                      NEW i \in DOMAIN info[p], Exists(info[p][i][1]),
                      Spared(p, info[p][i][1], {"unmap"})
               PROVE  att[p][info[p][i][2]] = info[p][i][1]
    BY DEF RecordsAttached
  <2>1. info[p][i] \in Recs(p) /\ ProcInv(p) /\ call[p].op = "idle"
    BY CallFacts DEF SegInv, Recs, Elems
  <2> QED
    BY <2>1 DEF ProcInv, AttachedInv, Emptied
<1> QED
  BY <1>1, SegmentsAlways, PTL

(* Between two calls a handle that initLRU or initHopScotch built leads to *)
(* its segment, mapped, until the process detaches the key of the handle,  *)
(* whatever other processes detach or destroy; but for a segment over which*)
(* the process let a Buffer be collected, or called detachAll and went on, *)
(* while the handle was in use, or that was unmapped because an old Buffer *)
(* or an old record of another one named its address.                      *)
THEOREM HandlesStayMapped == Spec => []HandlesMapped
<1>1. SegInv => HandlesMapped
  <2> SUFFICES ASSUME SegInv, NEW p \in Procs, call[p] = Idle
               PROVE  /\ \A k \in LRUKeys : Mapped(p, lru[p][k])
                      /\ \A k \in MapKeys : Mapped(p, hmap[p][k])
    BY DEF HandlesMapped
  <2>1. ProcInv(p) /\ call[p].op = "idle"
    BY CallFacts DEF SegInv
  <2> QED
    BY <2>1 DEF ProcInv, HandlesInv, Safe, Mapped
<1> QED
  BY <1>1, SegmentsAlways, PTL

(* Processes that detach, one after the other or at once, leave no segment *)
(* with a key and without an attach behind: one of them sees no attaches   *)
(* left and removes it.  Not claimed of a segment that a process got a     *)
(* second time while it had it, whose attach the collection of an older    *)
(* Buffer left unrecorded, that was unmapped under the name of another     *)
(* one, or that a process was killed with.                                 *)
THEOREM LastOneRemoves == Spec => []NoOrphan
<1>1. SegInv => NoOrphan
  BY DEF SegInv
<1> QED
  BY <1>1, SegmentsAlways, PTL
=============================================================================

----------------------------- MODULE LocalTables -----------------------------
(***************************************************************************)
(* Several processes with an LRU_cache each on one segment, every one with *)
(* its own _local_hash_table (src/node_shm_LRU.h without initHopScotch).   *)
(* They hold the segment's mutex around a call, so that calls do not       *)
(* overlap (LockedRegion); what they know of the region does not agree.    *)
(*                                                                         *)
(* A process that deletes or evicts an element knows its hash and tells    *)
(* the others, who call remove_key; until it has done so, or reloads its   *)
(* table, a process looks no such key up (Disciplined).  A walk of the     *)
(* list takes one step per element.                                        *)
(*                                                                         *)
(* A key stands for a 64-bit hash: the orders in which calls put it        *)
(* together are LRUCache's concern, like values, times and counters.       *)
(***************************************************************************)
EXTENDS LRULinks

CONSTANTS
  Procs,
  Master,       \* the process that initialises the region
  Keys,
  ShareKeys,    \* what set_share_key is given
  SegmentKey,   \* the key of the segment
  Disciplined

ASSUME LocalAssumption ==
  /\ Master \in Procs
  /\ Disciplined \in BOOLEAN

NoKey == "no key"          \* UINT64_MAX, the _hash of a deleted element
NoShare == "no share key"  \* the _share_key of an element never given one

VARIABLES
  links, hash, share,   \* the region: the links, _hash and _share_key of its elements
  joined,               \* the processes that have constructed an LRU_cache
  table,                \* _local_hash_table of each process
  pending,              \* the hashes a process has been told of and not removed
  walk                  \* the walk of the allocated list in progress

region == <<links, hash, share>>
vars == <<region, joined, table, pending, walk>>

Idle == [op |-> "idle"]
NoTable == [ k \in Keys |-> NIL ]

Walks == [op : {"reload", "update"}, proc : Procs, asked : ShareKeys \cup {NoShare},
          at : Slots, seen : Nat]

TypeOK ==
  /\ links \in Links
  /\ hash \in [Elements -> Keys \cup {NoKey}]
  /\ share \in [Elements -> ShareKeys \cup {NoShare}]
  /\ joined \subseteq Procs
  /\ table \in [Procs -> [Keys -> Elements \cup {NIL}]]
  /\ pending \in [Procs -> SUBSET Keys]
  /\ walk \in {Idle} \cup Walks

Init ==
  /\ links = SetupLinks
  /\ hash = [ s \in Elements |-> NoKey ]
  /\ share = [ s \in Elements |-> NoShare ]
  /\ joined = {Master}
  /\ table = [ p \in Procs |-> NoTable ]
  /\ pending = [ p \in Procs |-> {} ]
  /\ walk = Idle

-----------------------------------------------------------------------------
(* Calls that finish in one step.                                          *)

MayCall(p) == p \in joined /\ walk = Idle

(* The keys whose entry in its table a process relies on.                  *)
MayLookUp(p, k) == Disciplined => k \notin pending[p]

(* Fault: an element that another process has deleted is put to use.       *)
TouchUnchecked(s) == links' = TouchLinks(links, s)

touch(s) == links' = IF links.prev[s] = NIL THEN links ELSE TouchLinks(links, s)

(* A new element keeps the share key of the one that was there before.     *)
add_el(p, k) ==
  LET s == links.next[CtrlFree]
  IN  \/ s = NIL /\ UNCHANGED <<links, hash, table>>
      \/ /\ s # NIL
         /\ table' = [ table EXCEPT ![p][k] = s ]
         /\ links' = AddLinks(links)
         /\ hash' = [ hash EXCEPT ![s] = k ]

SetEl(p, k) ==
  /\ MayCall(p) /\ MayLookUp(p, k)
  /\ \/ table[p][k] = NIL /\ add_el(p, k)
     \/ table[p][k] # NIL /\ touch(table[p][k]) /\ UNCHANGED <<hash, table>>
  /\ UNCHANGED <<share, joined, pending, walk>>

GetElHash(p, k) ==
  /\ MayCall(p) /\ MayLookUp(p, k)
  /\ table[p][k] # NIL
  /\ touch(table[p][k])
  /\ UNCHANGED <<hash, share, joined, table, pending, walk>>

GetEl(p, s) ==
  /\ MayCall(p)
  /\ touch(s)
  /\ UNCHANGED <<hash, share, joined, table, pending, walk>>

Tell(p, k) ==
  pending' = [ q \in Procs |-> IF q \in joined \ {p} THEN pending[q] \cup {k} ELSE pending[q] ]

(* Fault: the hash is read after it has been overwritten.                  *)
DelReadsCleared(p, s) ==
  /\ links' = DelLinks(links, s)
  /\ hash' = [ hash EXCEPT ![s] = NoKey ]
  /\ Tell(p, NoKey)
  /\ UNCHANGED <<share, joined, table, walk>>

(* Only the process that deletes takes the key from its table.             *)
del_el(p, s) ==
  /\ links' = DelLinks(links, s)
  /\ hash' = [ hash EXCEPT ![s] = NoKey ]
  /\ table' = [ table EXCEPT ![p] = [ k \in Keys |-> IF k = hash[s] THEN NIL ELSE @[k] ] ]
  /\ Tell(p, hash[s])
  /\ UNCHANGED <<share, joined, walk>>

(* del_el with the offset of a stored element, and each deletion of an     *)
(* eviction; a second del_el is LRUCache's concern.                        *)
DelEl(p, s) ==
  /\ MayCall(p)
  /\ s \in Allocated(links)
  /\ del_el(p, s)

DelKey(p, k) ==
  /\ MayCall(p) /\ MayLookUp(p, k)
  /\ table[p][k] # NIL
  /\ del_el(p, table[p][k])

RemoveKey(p, k) ==
  /\ MayCall(p)
  /\ table' = [ table EXCEPT ![p][k] = NIL ]
  /\ pending' = [ pending EXCEPT ![p] = @ \ {k} ]
  /\ UNCHANGED <<region, joined, walk>>

SetShareKey(p, s, x) ==
  /\ MayCall(p)
  /\ share' = [ share EXCEPT ![s] = x ]
  /\ UNCHANGED <<links, hash, joined, table, pending, walk>>

-----------------------------------------------------------------------------
(* The walks of the list: the constructor of a process that is not the     *)
(* initializer, reload_hash_map and reload_hash_map_update.                *)

StartWalk(p, op, x) ==
  walk' = [op |-> op, proc |-> p, asked |-> x, at |-> links.next[CtrlHdr], seen |-> 0]

Empty(p) ==
  /\ table' = [ table EXCEPT ![p] = NoTable ]
  /\ pending' = [ pending EXCEPT ![p] = {} ]

Join(p) ==
  /\ walk = Idle /\ p \notin joined
  /\ joined' = joined \cup {p}
  /\ Empty(p) /\ StartWalk(p, "reload", NoShare)
  /\ UNCHANGED region

ReloadHashMap(p) ==
  /\ MayCall(p)
  /\ Empty(p) /\ StartWalk(p, "reload", NoShare)
  /\ UNCHANGED <<region, joined>>

(* Nothing is cleared; the key of the segment is taken for the share key   *)
(* the caller gives.                                                       *)
ReloadHashMapUpdate(p, x) ==
  /\ MayCall(p)
  /\ StartWalk(p, "update", x)
  /\ UNCHANGED <<region, joined, table, pending>>

Filtered(s) == walk.op = "update" /\ share[s] # SegmentKey

Map(s) == table' = IF Filtered(s) THEN table ELSE [ table EXCEPT ![walk.proc][hash[s]] = s ]

(* Fault: the walk gives up one element earlier.                           *)
GivesUpEarly == walk.seen + 2 >= WholeCount

(* The walk stops at the tail, and before it maps the last element of a    *)
(* full region.                                                            *)
GivesUp == walk.seen + 1 >= WholeCount

WalkStep ==
  /\ walk # Idle
  /\ \/ /\ links.next[walk.at] = NIL \/ GivesUp
        /\ walk' = Idle
        /\ UNCHANGED table
     \/ /\ links.next[walk.at] # NIL /\ ~GivesUp
        /\ Map(walk.at)
        /\ walk' = [walk EXCEPT !.at = links.next[@], !.seen = @ + 1]
  /\ UNCHANGED <<region, joined, pending>>

(* A process ends between two calls, and may come back as another.         *)
Leave(p) ==
  /\ MayCall(p)
  /\ joined' = joined \ {p}
  /\ Empty(p)
  /\ UNCHANGED <<region, walk>>

Next ==
  \/ \E p \in Procs :
       \/ \E k \in Keys : SetEl(p, k) \/ GetElHash(p, k) \/ DelKey(p, k) \/ RemoveKey(p, k)
       \/ \E s \in Elements :
            \/ GetEl(p, s) \/ DelEl(p, s)
            \/ \E x \in ShareKeys : SetShareKey(p, s, x)
       \/ ReloadHashMap(p) \/ \E x \in ShareKeys : ReloadHashMapUpdate(p, x)
       \/ Join(p) \/ Leave(p)
  \/ WalkStep

(* A walk that has started runs to its end.                                *)
Spec == Init /\ [][Next]_vars /\ WF_vars(WalkStep)

-----------------------------------------------------------------------------
(* Properties.                                                             *)

(* The links stay right although a process may delete and use elements it  *)
(* did not add, and be told late of what the others deleted.               *)
LinkInv == LinksOK(links)

(* An entry of a process leads to a stored element with that hash, but for *)
(* the hashes it has been told of: it never reads, overwrites or deletes   *)
(* what another process keeps where its own element was.                   *)
TableTrusted ==
  \A p \in Procs, k \in Keys :
    table[p][k] # NIL /\ k \notin pending[p]
      => table[p][k] \in Allocated(links) /\ hash[table[p][k]] = k

Returns(op) == walk # Idle /\ walk.op = op /\ walk' = Idle

(* A process that joins or reloads its table finds every stored hash, if   *)
(* the region is not full.                                                 *)
ReloadComplete ==
  [][ Returns("reload") /\ Cardinality(Allocated(links)) < WholeCount
      => \A s \in Allocated(links) : table'[walk.proc][hash[s]] # NIL ]_vars

(* Not so: readme.md:209 lets reload_hash_map_update do the same for the   *)
(* elements with the share key it is passed.                               *)
SharedFound ==
  [][ Returns("update") /\ Cardinality(Allocated(links)) < WholeCount
      => \A s \in Allocated(links) :
           share[s] = walk.asked => table'[walk.proc][hash[s]] # NIL ]_vars
=============================================================================

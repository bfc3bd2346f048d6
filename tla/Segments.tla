------------------------------ MODULE Segments ------------------------------
(***************************************************************************)
(* The System V shared memory segments of several processes that load the  *)
(* addon, and what each process remembers of them (src/node_shm.cc): the   *)
(* arrays of attached segments and the maps from a key to the LRU_cache,   *)
(* the HH_map and the MutexHolder built on its segment.                    *)
(*                                                                         *)
(* A call that ends in detachShmSegment makes three system calls; those of *)
(* different processes interleave.  get makes two.                         *)
(*                                                                         *)
(* Nothing in the native module keeps its callers from the following, and  *)
(* each of them does harm to the segment it befalls.  spoilt tells what    *)
(* has befallen which segment in which process; a property names what it   *)
(* does not bear, and is silent about that segment only.                   *)
(*   "second_get"  the process got the segment while it had it attached    *)
(*   "go_on"       detachAll unmapped it, its handle stayed, and the       *)
(*                 process went on, as index.js does after some signals    *)
(*   "die"         the process was killed while it had it attached         *)
(*   "in_use"      a Buffer over it was collected while a handle used it   *)
(*   "unmap"       an address that was once another segment's, of an old   *)
(*                 Buffer or an old record, was detached while this one    *)
(*                 was mapped there                                        *)
(*   "unrecord"    an old Buffer over it was collected, which removed the  *)
(*                 record of its new attach                                *)
(* The first three are acts of the caller, the others follow when Buffers  *)
(* are collected and detaches fail.                                        *)
(***************************************************************************)
EXTENDS Integers, FiniteSets, Sequences

CONSTANTS
  Procs, Keys,
  Ids,         \* what shmget returns: an id comes back when nothing mentions it
  Addrs,       \* the addresses at which a process can map a segment
  LRUKeys, MapKeys, MutexKeys,    \* the keys of segments used as one of these
  Buffers      \* bound: the Buffers that a process can have at a time

Harms == {"second_get", "go_on", "die", "in_use", "unmap", "unrecord"}

ASSUME SegmentUse == LRUKeys \cup MapKeys \cup MutexKeys \subseteq Keys

(* What shmat and the handles return when there is nothing is no segment,  *)
(* and what stands for the key of a removed segment is no key.             *)
NoKey == "no key"
Nothing == <<>>            \* nothing attached, or no handle

ASSUME NothingAssumption == NoKey \notin Keys /\ Nothing \notin Ids

VARIABLES
  (* the system *)
  keyOf,     \* the key under which a segment is found, NoKey when removed
  att,       \* the segment a process has attached at an address
  (* each process *)
  info,      \* shmSegmentsIds and shmSegmentsAddrs
  lru, hmap, mutex,    \* g_LRU_caches_, g_HMAP_caches_, g_MUTEX_per_segment
  hashImpl,  \* _hmap_i of each LRU_cache
  buffers,   \* what each Buffer lies over, Nothing when it is collected
  call,      \* the call between two system calls
  spoilt     \* history: what has befallen which segment in which process

handles == <<lru, hmap, mutex, hashImpl>>
vars == <<keyOf, att, info, handles, buffers, call, spoilt>>

Idle == [op |-> "idle"]

(* A handle keeps the address of its region; the segment it was built on   *)
(* is told here to see whether it is still the one that is mapped.         *)
Region == Ids \X Addrs

Calls ==
  {Idle}
  \cup [op : {"get"}, id : Ids]
  \cup [op : {"detach", "free", "all"}, id : Ids, addr : Addrs, force : BOOLEAN,
        at : {"shmdt", "stat", "rmid"}, rest : Seq(Region)]

TypeOK ==
  /\ keyOf \in [Ids -> Keys \cup {NoKey}]
  /\ att \in [Procs -> [Addrs -> Ids \cup {Nothing}]]
  /\ info \in [Procs -> Seq(Region)]
  /\ lru \in [Procs -> [LRUKeys -> Region \cup {Nothing}]]
  /\ hashImpl \in [Procs -> [LRUKeys -> Region \cup {Nothing}]]
  /\ hmap \in [Procs -> [MapKeys -> Region \cup {Nothing}]]
  /\ mutex \in [Procs -> [MutexKeys -> Region \cup {Nothing}]]
  /\ buffers \in [Procs -> [Buffers -> Region \cup {Nothing}]]
  /\ call \in [Procs -> Calls]
  /\ spoilt \subseteq Harms \X Procs \X Ids

Init ==
  /\ keyOf = [ id \in Ids |-> NoKey ]
  /\ att = [ p \in Procs |-> [ a \in Addrs |-> Nothing ] ]
  /\ info = [ p \in Procs |-> <<>> ]
  /\ lru = [ p \in Procs |-> [ k \in LRUKeys |-> Nothing ] ]
  /\ hashImpl = [ p \in Procs |-> [ k \in LRUKeys |-> Nothing ] ]
  /\ hmap = [ p \in Procs |-> [ k \in MapKeys |-> Nothing ] ]
  /\ mutex = [ p \in Procs |-> [ k \in MutexKeys |-> Nothing ] ]
  /\ buffers = [ p \in Procs |-> [ b \in Buffers |-> Nothing ] ]
  /\ call = [ p \in Procs |-> Idle ]
  /\ spoilt = {}

Befalls(harm, p, ids) == {harm} \X {p} \X ids

-----------------------------------------------------------------------------
(* The system.  A segment that is removed while attached lives on without  *)
(* its key until its last attach goes.                                     *)

Attaches(id) == { x \in Procs \X Addrs : att[x[1]][x[2]] = id }
Exists(id)   == keyOf[id] # NoKey \/ Attaches(id) # {}

(* shmget of an existing segment                                           *)
Found(k, id) == keyOf[id] = k

(* The segments of the handles by which a process reaches LRUs and tables. *)
HandleIds(p) ==
  { h[1] : h \in ({ lru[p][k] : k \in LRUKeys } \cup { hmap[p][k] : k \in MapKeys }) \ {Nothing} }

Mentions(p) ==
  { info[p][i][1] : i \in DOMAIN info[p] } \cup HandleIds(p)
  \cup { h[1] : h \in ({ buffers[p][b] : b \in Buffers } \cup { hashImpl[p][k] : k \in LRUKeys }
                   \cup { mutex[p][k] : k \in MutexKeys }) \ {Nothing} }
  \cup IF call[p] = Idle THEN {} ELSE {call[p].id}

NewId(id) == ~Exists(id) /\ \A p \in Procs : id \notin Mentions(p)

-----------------------------------------------------------------------------
(* The info arrays.                                                        *)

hasShmSegmentInfo(p, id) == \E i \in DOMAIN info[p] : info[p][i][1] = id

(* std::find: an id is in the array once.                                  *)
IndexOf(p, id) == CHOOSE i \in DOMAIN info[p] : info[p][i][1] = id

getShmSegmentAddr(p, id) == info[p][IndexOf(p, id)][2]

(* Fault: the two arrays are exchanged.                                    *)
AddExchanged(p, id, a) == info' = [ info EXCEPT ![p] = Append(@, <<a, id>>) ]

addShmSegmentInfo(p, id, a) == info' = [ info EXCEPT ![p] = Append(@, <<id, a>>) ]

(* Fault: the first record is removed whatever its segment.                *)
RemoveFirst(p, id) ==
  info' = [ info EXCEPT ![p] = IF @ = <<>> THEN @ ELSE Tail(@) ]

(* Fault: the last record is dropped and the others are not moved up.      *)
RemoveLast(p, id) ==
  info' = [ info EXCEPT ![p] = IF @ = <<>> THEN @ ELSE SubSeq(@, 1, Len(@) - 1) ]

(* The records behind the one that is removed move up.                     *)
MovedUp(s, at) == [ i \in 1 .. Len(s) - 1 |-> s[IF i < at THEN i ELSE i + 1] ]

removeShmSegmentInfo(p, id) ==
  info' = [ info EXCEPT ![p] =
              IF hasShmSegmentInfo(p, id) THEN MovedUp(@, IndexOf(p, id)) ELSE @ ]

-----------------------------------------------------------------------------
(* get and create: shmget, then shmat.  shmget that fails returns null.    *)

(* A new segment has no history.                                           *)
Get(p, k) ==
  /\ call[p] = Idle
  /\ \E a \in Addrs : att[p][a] = Nothing
  /\ \E id \in Ids :
       /\ \/ /\ Found(k, id) /\ ~hasShmSegmentInfo(p, id)
             /\ UNCHANGED <<keyOf, spoilt>>
          \/ /\ Found(k, id) /\ hasShmSegmentInfo(p, id)
             /\ spoilt' = spoilt \cup Befalls("second_get", p, {id})
             /\ UNCHANGED keyOf
          \/ /\ \A other \in Ids : ~Found(k, other)
             /\ NewId(id)
             /\ keyOf' = [ keyOf EXCEPT ![id] = k ]
             /\ spoilt' = { s \in spoilt : s[3] # id }
       /\ call' = [ call EXCEPT ![p] = [op |-> "get", id |-> id] ]
  /\ UNCHANGED <<att, info, handles, buffers>>

(* The rest of get: a segment that has gone meanwhile is an error.  Every  *)
(* Buffer has its callback, over an attach that is recorded or not; typed  *)
(* arrays have none.                                                       *)
Shmat(p) ==
  /\ call[p].op = "get"
  /\ LET id == call[p].id
     IN  \/ /\ Exists(id)
            /\ \E a \in Addrs :
                 /\ att[p][a] = Nothing
                 /\ att' = [ att EXCEPT ![p][a] = id ]
                 /\ \/ hasShmSegmentInfo(p, id) /\ UNCHANGED info
                    \/ ~hasShmSegmentInfo(p, id) /\ addShmSegmentInfo(p, id, a)
                 /\ \/ UNCHANGED buffers
                    \/ \E b \in Buffers :
                         /\ buffers[p][b] = Nothing
                         /\ buffers' = [ buffers EXCEPT ![p][b] = <<id, a>> ]
         \/ ~Exists(id) /\ UNCHANGED <<att, info, buffers>>
  /\ call' = [ call EXCEPT ![p] = Idle ]
  /\ UNCHANGED <<keyOf, handles, spoilt>>

-----------------------------------------------------------------------------
(* detach, detachAll and the callback of a Buffer, up to detachShmSegment. *)

Detaching(op, r, force, rest) ==
  [op |-> op, id |-> r[1], addr |-> r[2], force |-> force, at |-> "shmdt", rest |-> rest]

(* Fault: only the table of the key is forgotten.                          *)
ForgetTableOnly(p, k) ==
  /\ hmap' = IF k \in MapKeys THEN [ hmap EXCEPT ![p][k] = Nothing ] ELSE hmap
  /\ UNCHANGED <<lru, hashImpl, mutex>>

(* The LRU and the table of the key are forgotten first; the mutex is not, *)
(* and neither is the table in the LRU_cache that uses it.                 *)
ForgetHandles(p, k) ==
  /\ lru' = IF k \in LRUKeys THEN [ lru EXCEPT ![p][k] = Nothing ] ELSE lru
  /\ hashImpl' = IF k \in LRUKeys THEN [ hashImpl EXCEPT ![p][k] = Nothing ] ELSE hashImpl
  /\ hmap' = IF k \in MapKeys THEN [ hmap EXCEPT ![p][k] = Nothing ] ELSE hmap
  /\ UNCHANGED mutex

Detach(p, k, force) ==
  /\ call[p] = Idle
  /\ ForgetHandles(p, k)
  /\ \/ /\ \A id \in Ids : Found(k, id) => ~hasShmSegmentInfo(p, id)
        /\ UNCHANGED call
     \/ \E id \in Ids :
          /\ Found(k, id) /\ hasShmSegmentInfo(p, id)
          /\ call' = [ call EXCEPT ![p] =
                         Detaching("detach", <<id, getShmSegmentAddr(p, id)>>, force, <<>>) ]
  /\ UNCHANGED <<keyOf, att, info, buffers, spoilt>>

DetachAll(p) ==
  /\ call[p] = Idle
  /\ info[p] # <<>>
  /\ call' = [ call EXCEPT ![p] = Detaching("all", Head(info[p]), FALSE, Tail(info[p])) ]
  /\ UNCHANGED <<keyOf, att, info, handles, buffers, spoilt>>

FreeCallback(p) ==
  /\ call[p] = Idle
  /\ \E b \in Buffers :
       /\ buffers[p][b] # Nothing
       /\ buffers' = [ buffers EXCEPT ![p][b] = Nothing ]
       /\ call' = [ call EXCEPT ![p] = Detaching("free", buffers[p][b], FALSE, <<>>) ]
  /\ UNCHANGED <<keyOf, att, info, handles, spoilt>>

-----------------------------------------------------------------------------
(* detachShmSegment.                                                       *)

(* A process that is over leaves nothing attached and nothing remembered.  *)
Over(p) ==
  /\ att' = [ att EXCEPT ![p] = [ a \in Addrs |-> Nothing ] ]
  /\ info' = [ info EXCEPT ![p] = <<>> ]
  /\ lru' = [ lru EXCEPT ![p] = [ k \in LRUKeys |-> Nothing ] ]
  /\ hashImpl' = [ hashImpl EXCEPT ![p] = [ k \in LRUKeys |-> Nothing ] ]
  /\ hmap' = [ hmap EXCEPT ![p] = [ k \in MapKeys |-> Nothing ] ]
  /\ mutex' = [ mutex EXCEPT ![p] = [ k \in MutexKeys |-> Nothing ] ]
  /\ buffers' = [ buffers EXCEPT ![p] = [ b \in Buffers |-> Nothing ] ]
  /\ call' = [ call EXCEPT ![p] = Idle ]

(* Return to detach, FreeCallback or the loop of detachShmSegments.        *)
Return(p, failed) ==
  LET c == call[p]
  IN  \/ /\ c.op = "detach"
         /\ IF failed THEN UNCHANGED info ELSE removeShmSegmentInfo(p, c.id)
         /\ call' = [ call EXCEPT ![p] = Idle ]
         /\ UNCHANGED <<att, handles, buffers, spoilt>>
      \/ /\ c.op = "free"
         /\ removeShmSegmentInfo(p, c.id)
         /\ spoilt' = IF \E a \in Addrs : att[p][a] = c.id
                      THEN spoilt \cup Befalls("unrecord", p, {c.id}) ELSE spoilt
         /\ call' = [ call EXCEPT ![p] = Idle ]
         /\ UNCHANGED <<att, handles, buffers>>
      \/ /\ c.op = "all" /\ c.rest # <<>>
         /\ call' = [ call EXCEPT ![p] = Detaching("all", Head(c.rest), FALSE, Tail(c.rest)) ]
         /\ UNCHANGED <<att, info, handles, buffers, spoilt>>
      \/ /\ c.op = "all" /\ c.rest = <<>>
         /\ spoilt' = spoilt \cup Befalls("go_on", p, HandleIds(p))
         /\ info' = [ info EXCEPT ![p] = <<>> ]
         /\ call' = [ call EXCEPT ![p] = Idle ]
         /\ UNCHANGED <<att, handles, buffers>>
      \/ /\ c.op = "all" /\ c.rest = <<>>
         /\ Over(p)
         /\ UNCHANGED spoilt

GoTo(p, at) ==
  /\ call' = [ call EXCEPT ![p].at = at ]
  /\ UNCHANGED <<info, handles, buffers>>

InCall(p, at) == call[p].op \in {"detach", "free", "all"} /\ call[p].at = at

Uses(p, r) == (\E k \in LRUKeys : lru[p][k] = r) \/ (\E k \in MapKeys : hmap[p][k] = r)

(* What the unmapping of what the address of the call leads to spoils.     *)
Unmapped(p) ==
  LET hit == att[p][call[p].addr]
  IN  (IF hit # call[p].id THEN Befalls("unmap", p, {hit}) ELSE {})
      \cup (IF call[p].op = "free" /\ Uses(p, <<hit, call[p].addr>>)
            THEN Befalls("in_use", p, {hit}) ELSE {})

Shmdt(p) ==
  /\ InCall(p, "shmdt")
  /\ \/ /\ att[p][call[p].addr] # Nothing
        /\ att' = [ att EXCEPT ![p][call[p].addr] = Nothing ]
        /\ spoilt' = spoilt \cup Unmapped(p)
        /\ GoTo(p, "stat")
     \/ /\ att[p][call[p].addr] = Nothing
        /\ Return(p, TRUE)
  /\ UNCHANGED keyOf

Stat(p) ==
  /\ InCall(p, "stat")
  /\ LET id == call[p].id
     IN  \/ ~Exists(id) /\ Return(p, TRUE)
         \/ /\ Exists(id) /\ (call[p].force \/ Attaches(id) = {})
            /\ GoTo(p, "rmid") /\ UNCHANGED <<att, spoilt>>
         \/ Exists(id) /\ ~call[p].force /\ Attaches(id) # {} /\ Return(p, FALSE)
  /\ UNCHANGED keyOf

Rmid(p) ==
  /\ InCall(p, "rmid")
  /\ keyOf' = [ keyOf EXCEPT ![call[p].id] = NoKey ]
  /\ Return(p, ~Exists(call[p].id))

-----------------------------------------------------------------------------
(* initLRU, initHopScotch and init_mutex: a handle is built once per key;  *)
(* a handle to a segment that is not attached any more is dropped here.    *)

InitLRU(p, k) ==
  /\ call[p] = Idle
  /\ \E id \in Ids :
       /\ Found(k, id)
       /\ \/ /\ hasShmSegmentInfo(p, id) /\ lru[p][k] = Nothing
             /\ lru' = [ lru EXCEPT ![p][k] = <<id, getShmSegmentAddr(p, id)>> ]
          \/ /\ ~hasShmSegmentInfo(p, id)
             /\ lru' = [ lru EXCEPT ![p][k] = Nothing ]
       /\ hashImpl' = [ hashImpl EXCEPT ![p][k] = Nothing ]
  /\ UNCHANGED <<keyOf, att, info, hmap, mutex, buffers, call, spoilt>>

(* The table is given to an LRU only when it is built.                     *)
InitHopScotch(p, k, lruKey) ==
  /\ call[p] = Idle
  /\ \E id \in Ids :
       /\ Found(k, id)
       /\ \/ /\ hasShmSegmentInfo(p, id) /\ hmap[p][k] = Nothing
             /\ LET region == <<id, getShmSegmentAddr(p, id)>>
                IN  /\ hmap' = [ hmap EXCEPT ![p][k] = region ]
                    /\ hashImpl' = IF lru[p][lruKey] = Nothing THEN hashImpl
                                   ELSE [ hashImpl EXCEPT ![p][lruKey] = region ]
          \/ /\ ~hasShmSegmentInfo(p, id)
             /\ hmap' = [ hmap EXCEPT ![p][k] = Nothing ]
             /\ UNCHANGED hashImpl
  /\ UNCHANGED <<keyOf, att, info, lru, mutex, buffers, call, spoilt>>

InitMutex(p, k) ==
  /\ call[p] = Idle
  /\ \E id \in Ids :
       /\ Found(k, id)
       /\ \/ /\ hasShmSegmentInfo(p, id) /\ mutex[p][k] = Nothing
             /\ mutex' = [ mutex EXCEPT ![p][k] = <<id, getShmSegmentAddr(p, id)>> ]
          \/ /\ ~hasShmSegmentInfo(p, id)
             /\ mutex' = [ mutex EXCEPT ![p][k] = Nothing ]
  /\ UNCHANGED <<keyOf, att, info, lru, hmap, hashImpl, buffers, call, spoilt>>

-----------------------------------------------------------------------------
(* The system detaches what a killed process had attached, no more.        *)
Die(p) ==
  /\ spoilt' = spoilt \cup Befalls("die", p,
                  { id \in Ids : (\E a \in Addrs : att[p][a] = id)
                                \/ (call[p] # Idle /\ call[p].id = id) })
  /\ Over(p)
  /\ UNCHANGED keyOf

(* Fault: the attaches are counted while its own is still one of them.     *)
CountFirst(p) ==
  \/ Shmat(p)
  \/ /\ InCall(p, "shmdt")
     /\ LET last == Cardinality(Attaches(call[p].id)) = 1
        IN  GoTo(p, IF call[p].force \/ last THEN "rmid" ELSE "stat")
     /\ UNCHANGED <<keyOf, att, spoilt>>
  \/ /\ InCall(p, "stat") \/ InCall(p, "rmid")
     /\ keyOf' = IF call[p].at = "stat" THEN keyOf ELSE [ keyOf EXCEPT ![call[p].id] = NoKey ]
     /\ att' = [ att EXCEPT ![p][call[p].addr] = Nothing ]
     /\ removeShmSegmentInfo(p, call[p].id)
     /\ call' = [ call EXCEPT ![p] = Idle ]
     /\ UNCHANGED <<handles, buffers, spoilt>>

SystemCall(p) == Shmat(p) \/ Shmdt(p) \/ Stat(p) \/ Rmid(p)

Next ==
  \E p \in Procs :
    \/ \E k \in Keys : Get(p, k) \/ \E force \in BOOLEAN : Detach(p, k, force)
    \/ DetachAll(p) \/ FreeCallback(p) \/ SystemCall(p)
    \/ \E k \in LRUKeys : InitLRU(p, k)
    \/ \E k \in MapKeys, lruKey \in LRUKeys : InitHopScotch(p, k, lruKey)
    \/ \E k \in MutexKeys : InitMutex(p, k)
    \/ Die(p)

Spec == Init /\ [][Next]_vars

-----------------------------------------------------------------------------
(* Properties.                                                             *)

(* Nothing of harms has befallen the segment in the process.               *)
Spared(p, id, harms) == \A h \in harms : <<h, p, id>> \notin spoilt

(* A segment to which nobody is attached does not stay behind: a process   *)
(* is in the middle of attaching it, or has unmapped it and has yet to ask *)
(* who is left.  detachShmSegment asks after its own attach is gone, so of *)
(* processes that detach at once, one at least sees none left.  Not if the *)
(* segment had an attach that was unrecorded, or was taken away under the  *)
(* name of another segment, or its process was killed.                     *)
NoOrphan ==
  \A id \in Ids :
    /\ keyOf[id] # NoKey /\ Attaches(id) = {}
    /\ \A p \in Procs : Spared(p, id, {"second_get", "unrecord", "unmap", "die"})
    => \E p \in Procs :
         /\ call[p] # Idle /\ call[p].id = id
         /\ (call[p].op = "get" \/ call[p].at # "shmdt")

(* What a process has attached it has recorded, so that detach, detachAll  *)
(* and the exit of the process find it; also in the middle of a call, after*)
(* one of the system calls of a detach failed, and when Buffers over it or *)
(* over others are collected.  Not a segment got twice, or of which an old *)
(* Buffer was collected.                                                   *)
AttachesRecorded ==
  \A p \in Procs, a \in Addrs :
    att[p][a] # Nothing /\ Spared(p, att[p][a], {"second_get", "unrecord"})
      => \E i \in DOMAIN info[p] : info[p][i] = <<att[p][a], a>>

(* What a process has recorded it has attached, at that address: but for   *)
(* segments that have gone, since a detach that fails keeps its record,    *)
(* and for one that was unmapped under the name of another.  A Buffer that *)
(* is collected takes its own segment's record away.                       *)
RecordsAttached ==
  \A p \in Procs : call[p] = Idle =>
    \A i \in DOMAIN info[p] :
      Exists(info[p][i][1]) /\ Spared(p, info[p][i][1], {"unmap"})
        => att[p][info[p][i][2]] = info[p][i][1]

Mapped(p, h) ==
  h # Nothing /\ Spared(p, h[1], {"unmap", "in_use", "go_on"}) => att[p][h[2]] = h[1]

(* The LRU and the table a process reaches by key lie in the segment they  *)
(* were built on, mapped where it was, whatever this or other processes    *)
(* detach, destroy or create again, unless a Buffer over it is collected   *)
(* or detachAll is called while they are in use, or it is unmapped under   *)
(* the name of another segment.                                            *)
HandlesMapped ==
  \A p \in Procs : call[p] = Idle =>
    /\ \A k \in LRUKeys : Mapped(p, lru[p][k])
    /\ \A k \in MapKeys : Mapped(p, hmap[p][k])

=============================================================================

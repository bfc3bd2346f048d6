-------------------------------- MODULE Slab --------------------------------
(***************************************************************************)
(* An LRU_cache whose keys are kept in a hopscotch table: initHopScotch    *)
(* has called set_hash_impl, and every method of LRU_cache that looks up,  *)
(* stores or removes a key goes through HMap_interface to an HH_map in a   *)
(* second segment.  It composes LRULinks and HHTable.                      *)
(*                                                                         *)
(* Nothing of a process is left in these calls but whether it initialised  *)
(* the table, so that one state machine stands for all the processes that  *)
(* take turns at the segments.  Counters, times, values and reasons are    *)
(* those of LRUCache and are left out.                                     *)
(*                                                                         *)
(* A 64-bit hash is <<full_hash, hash_bucket>>, high word first; a caller  *)
(* names it by a pair <<hash, index>>.                                     *)
(***************************************************************************)
EXTENDS LRULinks, HHTable

CONSTANTS
  SetPairs,    \* the <<hash, index>> pairs given to set
  ManyPairs,   \* the ones given to set_many
  MaxEvict,    \* bound on the number of elements an eviction deletes
  FreshKeys    \* a caller stores a key only while no element has it

ASSUME SlabAssumption ==
  /\ Elements \subseteq Word
  /\ SetPairs \subseteq Word \X Word /\ ManyPairs \subseteq Word \X Word
  /\ MaxEvict \in Nat /\ FreshKeys \in BOOLEAN

VARIABLES
  R,          \* the two segments
  forgotten   \* history: elements whose key was removed or cleared alone

vars == <<R, forgotten>>

Max64 == <<MaxWord, MaxWord>>

Regions == [ links : Links, hash : [Elements -> Word \X Word], table : Tables ]

TypeOK == R \in Regions /\ forgotten \subseteq Elements

Init ==
  /\ R = [ links |-> SetupLinks, hash |-> [ s \in Elements |-> Max64 ], table |-> EmptyTable ]
  /\ forgotten = {}

-----------------------------------------------------------------------------
(* The keys.  set takes the index for the full hash, set_many, get_el_hash *)
(* and del_key take it for the bucket.                                     *)

SetKey(p) == <<p[2], p[1]>>
ManyKey(p) == p

(* The hashes the calls make.                                              *)
Keys == { SetKey(p) : p \in SetPairs } \cup { ManyKey(p) : p \in ManyPairs }

(* What a table asks of its keys and does not check: that no key word is   *)
(* 0, which makes an entry that del passes over; that no bucket and        *)
(* distance add up to more than a word; and that keys with one home and    *)
(* one key word are the same, since it compares no more of a hash.         *)
KeysApart ==
  /\ \A k \in Keys : k[1] # 0 /\ k[2] + K <= MaxWord + 1
  /\ \A k, l \in Keys : Home(k[2]) = Home(l[2]) /\ k[1] = l[1] => k = l

(* check_for_hash(full,bucket): HH_map::get(key,bucket) hands its words to *)
(* get_hh_set the other way round than store and del file them.            *)
check_for_hash(T, k) == Lookup(T, k[1], k[2])

(* check_for_hash(hash64)                                                  *)
check_for_hash64(T, k) == Lookup(T, k[2], k[1])

-----------------------------------------------------------------------------
(* HH_map::store with the whole loop of put_hh_hash.  A store that is      *)
(* refused leaves the entries where its hops have moved them.              *)

Hopped(T, h, d) ==
  LET free == SlotAt(h, d)
      z == HopScotch(T, free)
      b == MOD(N + free - z)
      i == Least(T.H[b])
  IN  IF d < K \/ z = 0 THEN [table |-> T, d |-> d]
      ELSE [table |-> Swap(T, b, i, z), d |-> MOD(N + b + i - h)]

(* Where the loop has come to after n rounds; N rounds are enough, since   *)
(* each brings the free slot closer.                                       *)
HopLoop(T, h) ==
  LET after[n \in Nat] ==
        IF n = 0 THEN [table |-> T, d |-> Probe(T, h)]
        ELSE Hopped(after[n - 1].table, h, after[n - 1].d)
  IN  after[N]

HasRoom(T, h) == T.count # N /\ Probe(T, h) # NoDistance

store_in_hash(T, k, s) ==
  LET h == Home(k[2])
      end == HopLoop(T, h)
  IN  IF ~HasRoom(T, h) THEN [ok |-> FALSE, table |-> T]
      ELSE IF end.d >= K THEN [ok |-> FALSE, table |-> end.table]
      ELSE [ok |-> TRUE, table |-> Place(end.table, h, end.d, [val |-> s, key |-> k[1]])]

-----------------------------------------------------------------------------
(* The methods of LRU_cache, from segments to segments.                    *)

Oldest(S) == S.links.prev[CtrlTail]

(* Fault: the element is taken although the table has refused its key.     *)
AddUnchecked(S, k) ==
  LET s == S.links.next[CtrlFree]
      stored == store_in_hash(S.table, k, s)
  IN  IF s = NIL THEN S
      ELSE [ links |-> AddLinks(S.links),
             hash  |-> [ S.hash EXCEPT ![s] = k ],
             table |-> stored.table ]

(* The element is taken only after the table has accepted its key.         *)
add_el(S, k) ==
  LET s == S.links.next[CtrlFree]
      stored == store_in_hash(S.table, k, s)
  IN  IF s = NIL THEN S
      ELSE IF ~stored.ok THEN [S EXCEPT !.table = stored.table]
      ELSE [ links |-> AddLinks(S.links),
             hash  |-> [ S.hash EXCEPT ![s] = k ],
             table |-> stored.table ]

touch(S, s) == IF S.links.prev[s] = NIL THEN S ELSE [S EXCEPT !.links = TouchLinks(@, s)]

(* Fault: the words are handed to del in the order of check_for_hash.      *)
RemoveReversed(S, k) == [S EXCEPT !.table = Delete(@, k[1], k[2])]

remove_key(S, k) == [S EXCEPT !.table = Delete(@, k[2], k[1])]

del_el(S, s) ==
  remove_key([ links |-> DelLinks(S.links, s),
               hash  |-> [ S.hash EXCEPT ![s] = Max64 ],
               table |-> S.table ], S.hash[s])

(* set and one item of set_many                                            *)
set_el(S, k) ==
  LET s == check_for_hash(S.table, k)
  IN  IF s # 0 THEN touch(S, s) ELSE add_el(S, k)

(* evict_least_used: the n oldest; which n, the times decide (LRUCache).   *)
evict(S, n) ==
  LET after[i \in Nat] ==
        IF i = 0 THEN S
        ELSE IF Oldest(after[i - 1]) = CtrlHdr THEN after[i - 1]
             ELSE del_el(after[i - 1], Oldest(after[i - 1]))
  IN  after[n]

Stored(S) == Allocated(S.links)
HashesOf(S) == { S.hash[s] : s \in Stored(S) }

(* The first key of a map that is ordered by its hashes.                   *)
FirstKey(L) ==
  LET high == Least({ k[1] : k \in L })
  IN  <<high, Least({ k[2] : k \in { l \in L : l[1] = high } })>>

(* run_lru_eviction_move_values: evict to a map, and add what is in it, in *)
(* the order of its hashes.  Both of its keys are the first argument, so   *)
(* the values go back to the LRU they came from.                           *)
move_values(S, n) ==
  LET left == { S.hash[s] : s \in Stored(S) \ Stored(evict(S, n)) }
      back(U, k) == IF check_for_hash64(U.table, k) # 0 THEN U ELSE add_el(U, k)
      after[i \in Nat] ==
        IF i = 0 THEN [to |-> evict(S, n), left |-> left]
        ELSE IF after[i - 1].left = {} THEN after[i - 1]
             ELSE LET k == FirstKey(after[i - 1].left)
                  IN  [ to |-> back(after[i - 1].to, k), left |-> after[i - 1].left \ {k} ]
  IN  after[Cardinality(left)].to

-----------------------------------------------------------------------------
(* The calls of the addon.                                                 *)

Becomes(S) == R' = S /\ forgotten' = forgotten \cap Stored(S)

Storing(k) == FreshKeys => k \notin HashesOf(R)

SetEl(p) == Storing(SetKey(p)) /\ Becomes(set_el(R, SetKey(p)))

SetMany(p) == Storing(ManyKey(p)) /\ Becomes(set_el(R, ManyKey(p)))

GetEl(s) == Becomes(touch(R, s))

GetElHash(p) ==
  /\ check_for_hash(R.table, p) # 0
  /\ Becomes(touch(R, check_for_hash(R.table, p)))

(* A second del_el of an element is LRUCache's concern.                    *)
DelEl(s) == s \in Stored(R) /\ Becomes(del_el(R, s))

DelKey(p) ==
  /\ check_for_hash(R.table, p) # 0
  /\ DelEl(check_for_hash(R.table, p))

Evict(n) == Becomes(evict(R, n))

MoveValues(n) ==
  /\ R' = move_values(R, n)
  /\ forgotten' = forgotten \cap Stored(evict(R, n))

RemoveKey(p) ==
  /\ R' = remove_key(R, SetKey(p))
  /\ forgotten' = forgotten \cup { s \in Stored(R) : R.hash[s] = SetKey(p) }

(* reload_hash_map: the table is cleared by the process that initialised   *)
(* it and by no other; the walk adds nothing to a hopscotch table.         *)
ReloadHashMap ==
  /\ R' = [R EXCEPT !.table = EmptyTable]
  /\ forgotten' = Stored(R)

Next ==
  \/ \E p \in SetPairs : SetEl(p) \/ RemoveKey(p)
  \/ \E p \in ManyPairs : SetMany(p)
  \/ \E p \in SetPairs \cup ManyPairs : GetElHash(p) \/ DelKey(p)
  \/ \E s \in Elements : GetEl(s) \/ DelEl(s)
  \/ \E n \in 1 .. MaxEvict : Evict(n) \/ MoveValues(n)
  \/ ReloadHashMap

Spec == Init /\ [][Next]_vars

-----------------------------------------------------------------------------
(* Properties.                                                             *)

Claimed(T) == { c \in Slot \X Distance : c[2] \in T.H[c[1]] }

(* Every entry a bucket claims leads to a stored element with the hash it  *)
(* is filed under, wherever hops have moved it: no lookup leads to a free  *)
(* element or to another key's value, and none has two entries.            *)
EntriesStored ==
  LET at(c) == R.table.V[SlotAt(c[1], c[2])]
  IN  /\ \A c \in Claimed(R.table) :
           /\ at(c).val \in Stored(R)
           /\ R.hash[at(c).val][1] = at(c).key
           /\ Home(R.hash[at(c).val][2]) = c[1]
      /\ \A c, e \in Claimed(R.table) : at(c).val = at(e).val => c = e

(* Every stored element is found under its 64-bit hash, as move_values     *)
(* looks it up and del_el takes it out, unless its key was taken out of    *)
(* the table alone: also after stores that a frozen table refused half     *)
(* way, and after evictions that moved their values.  Nothing is said of   *)
(* what set and get_el_hash find, whose lookup by two words hands them on  *)
(* in the other order and misses these elements (OneElementPerKey).        *)
StoredFound ==
  \A s \in Stored(R) \ forgotten : check_for_hash64(R.table, R.hash[s]) = s

(* Not so without FreshKeys: node_shm.cc:696 updates the element of a key  *)
(* there is "already data" for.  check_for_hash looks in the bucket of the *)
(* other word, so that a second set of a key adds a second element.        *)
OneElementPerKey ==
  \A s, t \in Stored(R) : R.hash[s] = R.hash[t] => s = t
=============================================================================

# TLA+ models of shm-typed-lru

shm-typed-lru is a node.js addon. It attaches System V shared memory segments,
keeps an LRU list of fixed-size records in a segment, optionally a hopscotch
hash table in a second segment, and a process-shared mutex in a third. This
directory holds TLA+ modules for its core, the TLC configurations that check
them, and TLAPS proofs about them. Paths below are relative to the repository.

## 1. The system

| Component | State it keeps | Operations |
|---|---|---|
| **LRU region** (`src/node_shm_LRU.h`) | in the segment: `_prev`, `_next`, `_hash`, `_when`, `_share_key` and the record of each element; three control elements | `setup_region`, the link changes of `add_el`, `touch`, `del_el` |
| **`LRU_cache`** (same file, and `set_el` ... `run_lru_eviction` in `src/node_shm.cc`) | per process: `_local_hash_table`, `_count`, `_count_free`, `_max_count`, `_reason`, `_share_key`, `_hmap_i` | `set`, `set_many`, `get_el`, `get_el_hash`, `del_el`, `del_key`, `remove_key`, evictions, `reload_hash_map`, `reload_hash_map_update`, `set_share_key`, counters |
| **`HH_map`** (`src/node_shm_HH.h`) | in the segment: `_count`, `_max_n`, `_neighbor`, the value slots `_region_V`, the neighbourhood bits `_region_H` | `store`, `get` (two forms), `del`, `clear`, `get_bucket` |
| **`MutexHolder`** (`src/node_shm.h`) | in the segment: a `pthread_mutex_t`; per process: `_status`, `_last_reason` | `init_mutex`, `lock`, `try_lock`, `unlock`, `get_last_reason` |
| **Segment registry** (`src/node_shm.cc`) | per process: arrays of attached segments, the handle maps `g_LRU_caches_per_segment`, `g_HMAP_caches_per_segment`, `g_MUTEX_per_segment`, sizes; in the kernel: the segments and their attach counts | `get`, `detach`, `detachAll`, garbage collection of a buffer, exit |
| **`index.js`** | nothing | defaults and range checks in front of the native calls |

How they interact. `initLRU` builds an `LRU_cache` over an attached segment.
`initHopScotch` builds an `HH_map` over another and gives it to an `LRU_cache`,
which then stores its keys there instead of in `_local_hash_table`. Several
processes attach the same segments; only what lies in a segment is shared, so
each process has its own handles, private table and counters. Nothing in the
addon takes the mutex: `doc/mutex_ops.md` leaves it to the callers to lock
before they use a region. Every native call is synchronous, so inside one
process calls do not overlap; the loops of `set_many`, of the evictions and of
the list walks are the only calls with an inside.

What is hard, and what makes each part correct:

* **The lists.** Up to eight link words are rewritten by one operation, several
  of them the same word when the element is first, last or alone. Correct: no
  element is lost, handed out twice or in both lists, the two directions agree,
  and the list is in the order of use, on which the eviction relies.
* **The keys.** Two words, a bucket and a full hash, that callers and methods
  order differently. Correct: a key leads to its own stored element or nowhere.
* **The hopscotch table.** A store moves entries of other buckets before it
  knows whether it will succeed. Correct: every entry is claimed by one bucket at
  its distance, and lookups are those of a bag of entries.
* **Several processes.** A process may die between two assignments and leave the
  mutex locked. Correct: nobody ever goes on with a half-linked list. Private
  tables go stale when another process deletes. Correct: an entry a process relies
  on never leads to a free element or to another key's.
* **An LRU over a table.** The list, the hashes and the table are in two segments and
  change one after the other; a store may be refused after it has moved entries.
  Correct: entries and stored elements lead to each other.
* **Segments.** A call is several system calls, which interleave with those of other
  processes; a process keeps addresses in three maps, two arrays and the Buffers it
  has handed out. Correct: what is attached is recorded, what is recorded is
  attached, handles lead to mapped memory, and a segment nobody uses is destroyed.

## 2. Modules

| Module | What it is |
|---|---|
| `LRULinks` | the link words as two functions, and as pure operators every rewriting of them; what it means that a region is whole |
| `LRUCache` | the state machine of one process and one LRU segment with a private table |
| `LRUSpec` | the promise: a bounded store of values under keys, in the order of use |
| `LRURefinement` | `LRUCache` with what its calls return, and the mapping to `LRUSpec` |
| `LRUClaims` | what comments and the readme say of the cache and the code does not do |
| `HHTable` | the hopscotch table as a record, one pure operator per private method of `HH_map` |
| `HHMap` | the state machine: store, hop by hop, get, delete, clear |
| `HHSpec`, `HHRefinement` | the promise, a bag of entries, and the mapping to it |
| `Slab` | an LRU whose keys are in a hopscotch table; composes `LRULinks` and `HHTable` |
| `LockedRegion` | several processes that rewrite the links of `LRULinks` one assignment at a time under the mutex, and die |
| `LocalTables` | several processes with a private table each over the lists of `LRULinks`, whose calls do not overlap |
| `Segments` | the System V segments, and what each process remembers of them, system call by system call |
| `MC...` | small values and symmetries for the runs |
| `LRULinks_proofs`, `HHTable_proofs` | lemmas about the operators on the links and on the table |
| `LRUCache_proofs`, `HHMap_proofs` | theorems about the cache and the table, and that they implement their promises |
| `Slab_proofs`, `LocalTables_proofs`, `LockedRegion_proofs`, `Segments_proofs` | theorems about the modules they are named after |

How state and actions correspond to the code:

* A **slot** of `LRULinks` is an offset divided by `_step`; `UINT32_MAX` is `NIL`.
  `next` and `prev` are `_next` and `_prev`. `AddLinks`, `TouchLinks`, `DelLinks`
  are what `add_el`, `touch` and `del_el` do to the links as a whole. A write
  through the address `start + UINT32_MAX`, which a second deletion does, falls
  outside the region, as `EXCEPT` outside a function's domain has no effect.
* In `LRUCache`, `table` is `_local_hash_table`; a 64-bit hash is a pair of words,
  high word first; `SetKey` and `GetKey` are the two orders in which the native
  methods put hash and index together. A call without a loop is one action
  (`SetEl`, `GetEl`, ...), and includes `check_for_hash`, the list, the table, the
  counters and `_reason`. A call with a loop is a start (`SetMany`,
  `RunLruEviction`, `ReloadHashMap`) and a step per iteration; `call` holds its
  locals, and no other call starts meanwhile, but the clock may advance.
  `run_lru_eviction` and `run_lru_eviction_get_values` change the same state and
  are one action. The record is a value; cutting it to `_record_size` is left out.
* In `HHMap`, `T` is the segment. An entry is the pair of words of a slot. `put` is
  a `put_hh_hash` in progress; `Hop` is one round of its loop and `Put` the
  assignments after it. Both forms of `HH_map::get` are `Get`: `get(key,bucket)` is
  the one that hands its arguments on as bucket and key. `EntryAt` adds before it
  reduces, as the code does, with 32-bit wrap-around.
* In `LockedRegion`, `job` is an operation in progress with the offsets it read
  into locals, and `Assignments` the writes in the order of the source. `mutex` is
  the POSIX mutex (`external`: default type, not robust), `CallFails` a pthread call
  that returns an error.
* `Slab` is one state machine for all the processes that take turns: `R` is both
  segments, and nothing else takes part in its calls. Every method is an operator
  from segments to segments; `HopLoop` is the whole loop of `put_hh_hash`, which `HHMap` checks
  hop by hop. `check_for_hash` and `check_for_hash64` are the two lookups, whose words
  reach `get_hh_set` in opposite orders. `move_values` evicts and adds what it evicted
  again: both its keys are read from one argument. `forgotten` is a history variable.
* In `LocalTables`, `walk` is a walk of the list in progress, one element per step, by a
  process that joins, reloads or updates its table. A process that deletes knows the hash and
  puts it into `pending` of the others (`Tell`, external: the evictions return the hashes they
  removed, and `remove_key` drops a hash from the table alone, which is of use to a process
  that is told of one). `Leave` is a process that ends between two calls.
* In `Segments`, `att` and `keyOf` are the system's: which segment is mapped at which address
  of a process, and under which key it is found. `call` is a call between two of its
  system calls. A handle is the pair of segment and address it was built on; the code keeps the
  address only, the segment is there to compare. A Buffer over a mapping is in `buffers` from the
  `get` that returned it until it is collected (`FreeCallback`); there may be several over one
  mapping. `spoilt` is a history of what has befallen which segment in which process, of the things
  the native module does not keep from happening. Each property names those it does not
  bear, and is silent about a segment to which one of them has happened, and about that one only:

  | | |
  |---|---|
  | `second_get` | the process got the segment while it had it attached |
  | `go_on` | `detachAll` unmapped it, a handle to it stayed, and the process went on |
  | `die` | the process was killed while it had it attached, so that no exit handler ran |
  | `in_use` | a Buffer over it was collected while a handle used it |
  | `unmap` | it was unmapped through an address that was once another segment's, which an old Buffer or a stale record kept |
  | `unrecord` | an old Buffer over it was collected, which removed the record of its new attach |

  Overlapping detaches, forced ones, `detachAll` before the end, failing system calls and the
  collection of Buffers are borne by all of them otherwise.

Definitions whose comment begins with *Fault:* belong to no behaviour. Each is a
plausible bug, put in place of the definition that follows it to see that a
property notices; `PROJECT.json` pairs them under `mutants`.

## 3. Runs

| Run | Question | Bounds |
|---|---|---|
| `LRU_any` | every call, `remove_key` and reloads of a full list included, offsets of stored elements only: types, links, lists, table, order of use, free count, what an eviction leaves, loops end | three elements, two keys, one value, two instants, batches of two, `uint8_t` and `uint16_t` as 3 and 4 |
| `LRU_client` | the cache implements `LRUSpec` when the caller drops no table entries (no `remove_key`, no reload of a full list) | two elements, three keys (one is `UINT64_MAX`), two interchangeable values, one instant, batches of up to three |
| `HH_map` | claims, count, free slot, progress and end of a store; the table implements `HHSpec` | 5 slots, neighbourhoods of 3, four buckets of which two share a home, two keys |
| `Slab` | entries lead to stored elements of their hash, stored elements are found under their 64-bit hash | four elements, 5 slots, neighbourhoods of 2, four pairs, evictions of up to two |
| `Local_tables` | what a process may trust of its table, what a reload finds | two processes, two keys, three elements, one share key |
| `Segments` | records, attaches, handles and segments agree, and what spoils that | two processes, one of them with Buffers and handles; two keys, segments, addresses and Buffers; one entry in `spoilt`, or else two Buffers, or one mutex handle or table of an LRU |
| `Locked_region` | nobody goes on with a half-linked list; the assignments add up; a process that is let in lets others in | three processes, three elements, any number of deaths and restarts |
| `Claim_...` | five statements of comments and documentation that the code violates (section 5) | the smallest instance that shows it |

Why the bounds are enough. The list operations look at an element, its two
neighbours, the header, the tail and the head of the free list; with three
elements the element may be first, in the middle, last or alone, and either list
may be empty. Two elements cannot show a deletion in the middle, four add
nothing new. `CountWrap = 4` lets counters wrap with three elements. Two
instants give an eviction both old and young elements; the `LRU_client` run has
one, because `StoreSpec` does not speak of time. It has fewer elements than keys, so that values are
refused, in the middle of a batch as well; `LRU_any` and the theorem (section 6) cover longer lists. In the code a neighbourhood is
always 32 wide (`FLS` is the constant 32) and a store hops only in a table of more
than 32 slots: the runs keep more slots than a neighbourhood, so that stores hop,
wrap around the end and freeze. `Slab` has four elements for five slots, since a table is
made at least as large as the list; three of its pairs share a home, more than a
neighbourhood takes, and one lies two slots further, so that stores hop, are refused and are
refused after a hop. `MOD` subtracts once, as the macro does: a slot or a distance that left the
table would be an error of the run. `MaxWord` is far enough above every bucket that the sum in
`EntryAt` does not wrap (section 5 tells what happens otherwise).
Two processes show everything `LocalTables` is about: one that deletes and one whose table is
old; a third would be a second of the latter. `Segments` has two
segments and addresses, so that an address and a key are used again by another segment
while something still refers to the first; ids are used again only
when nothing mentions them, as the system counts them up. One of its processes has no Buffers and no
handles: what it does to the other is attach, detach and destroy. Two Buffers of one process may lie
over one mapping, over two, or over one that has gone and one that took its address.

Preconditions that are constants:

* `CarefulDelete`: `del_el` is called with offsets of stored elements only
  (`Claim_SecondDeleteRefused` shows why). `Slab` and `LocalTables` have it as a guard.
* `KeepTable`: no entry of the table is dropped.
* `Disciplined`: a process looks up no key it has been told is deleted before it has called
  `remove_key`, or reloaded its table. The model tells it with the deletion: the assumption is
  that news of a deletion arrive before the mutex lets the process in. Nothing in
  the code would help a process that is told later.
* `FreshKeys`: a caller stores a key only while no element has it
  (`Claim_OneElementPerKey` shows why).
* `Within`, in `MCSegments`, bounds the run of `Segments`; the theorems do without it. What its
  properties do not bear they name themselves (section 2).
* `LRUCache`, `LocalTables` and `Slab` are called with offsets of elements, or such as `check_offset`
  rejects. It would also let 0, `_step`, `2*_step` and the region's size through.
* Key words other than 0 and pairs whose home and key word are no other pair's, in
  the `HH_map` and `Slab` runs. `Slab` calls it `KeysApart`, and TLC evaluates it on the keys
  of the run (`InstanceApart`).
* `MayDie` and `Leader` in `LockedRegion`: one process initialises the mutex.

`CHECK_DEADLOCK FALSE` in the runs of `Segments`: when every process has both addresses in
use, nothing need be left to do within the bounds. All other runs check deadlock.

## 4. What the properties say

`LRUCache`
* `LinkInv`: neighbours agree; allocated elements point at allocated ones, free ones
  at free ones; no two free links meet. This is what the next operation needs.
* `ListSound`: the same seen by walking: both directions give the same sequence, it
  holds each allocated element once, the free list each other one.
* `TableSound`, `TableComplete`: keys lead to stored elements with that key, and
  every stored element is found, except while a reload is under way.
* `RecencyOrder`, `EvictsAllOld`: the list is ordered by `_when`, and so an eviction
  that stops early has left nothing old.
* `FreeCountExact`: `_count_free` is the length of the free list.
* `CallsReturn`: every loop ends.
* `StoreSpec`: the whole is a bounded store with LRU order, up to what callers see, and a batch
  goes on to its last item whichever of them are refused.

`HHMap`
* `ClaimedOnce`, `CountExact`, `FreeSlotInHand`: also between two hops, and after a
  store that hopped and gave up.
* `HopsCloser`, `StoreReturns`: each hop brings the free slot closer, so the loop ends.
* `MapSpec`: a bag of entries under home bucket and key, whatever hops have moved.

`Slab`
* `EntriesStored`: an entry a bucket claims leads to a stored element with the hash it is
  filed under, and no element has two.
* `StoredFound`: a stored element is found under its 64-bit hash, the lookup of `move_values`,
  unless its key was taken out alone; also after a refused store has moved its entry, and after
  `move_values`. What `set` and `get_el_hash` look up by two words is another matter (section 5, 3).

`LocalTables`
* `TableTrusted`: an entry whose key the process has not been told of leads to a stored
  element with that key. It relates private tables to a list others change.
* `LinkInv`: the lists, although processes use and delete what others have added.
* `ReloadComplete`: a process that joins or reloads finds what is stored, when the list is
  not full.

`Segments`
* `NoOrphan`: a segment nobody has attached does not stay behind: of processes that detach it at
  once one at least asks for the attaches after all have gone. Not of a segment with
  `second_get`, `unrecord`, `unmap` or `die`, which leave orphans.
* `AttachesRecorded`: what is attached is recorded, in the middle of a call and after a detach of
  which one system call failed. Not with `second_get` or `unrecord`.
* `RecordsAttached`: what is recorded is attached, between calls, or has gone. Not with `unmap`.
* `HandlesMapped`: an LRU or a table reached by key is where its segment is mapped. Not
  with `unmap`, `in_use` or `go_on`, which leave stale handles.

`LockedRegion`
* `OneInside`, `WholeListsInside`: also after deaths. A process that dies inside leaves
  the mutex locked for ever, and that is what keeps the half-linked list unseen.
* `OperationsAddUp`: ties the order of assignments in the source to the operators of
  `LRULinks` that `LRUCache` is built from.
* `Released`: a process that is let in lets others in, or dies.

Fairness. `LRUCache` and `HHMap` assume that a native call that has started goes
on (weak fairness of the loop steps): the addon is synchronous and cannot be
stopped in the middle. `LockedRegion` adds that the system gives a free mutex to a
process that keeps waiting, and that callers unlock, which is the discipline
of `doc/mutex_ops.md`. No strong fairness is assumed, so nothing is said about one
particular waiter: POSIX does not promise that it is served. `LocalTables` assumes weak
fairness of the steps of a walk, for the same reason as `LRUCache`; `Slab` and
`Segments` state safety only.

## 5. Disagreements found

Each has a run that TLC ends with a counterexample; `PROJECT.json` quotes the
statement.

1. `Claim_SecondDeleteRefused`: `del_el` does not recognise a deleted element (`UINT32_MAX`
   against a 64-bit `UINT64_MAX`) and frees it twice.
2. `Claim_FoundAfterSet`: `set` and `get_el_hash`/`del_key` put hash and index together in
   opposite orders.
3. `Claim_OneElementPerKey`: over a hopscotch table a second `set` of a key adds a second
   element, because `HH_map::get(key,bucket)` hands its words on in the other order.
4. `Claim_SharedFound`: `reload_hash_map_update` takes the segment key for the share key.
5. `Claim_DestroyedUnused`: a segment is destroyed although another process attached it
   after the attaches were counted.

Seen on the way, without a run of their own:

* `reload_hash_map` gives up before it maps the last element of a full list
  (`ReloadComplete` is about lists that are not full).
* An eviction deletes one element before it looks at its age.
* `check_offset` accepts the offsets of the control elements and the end of the region: `get_el` of
  the tail's links the tail anew as if it were an element.
* A region that is no multiple of the step holds one element more than
  `max_count`, ending outside the region.
* An entry with key word 0 cannot be deleted from a hopscotch table; 0 is the
  default index of `index.js`. The largest hashes wrap around in
  `get_val_at_hh_hash` and miss their entry. `HH_map` compares one word of
  two, so hashes with one home bucket and one key word are the same entry.
* No deletion lowers `_count`, and a reload sets it to a difference, so
  `current_count` drifts. A process that joins counts one free element too few
  (`_walk_free_list` stops at the last one), learns nothing of what others add, and
  with a full region the walk reads outside it.
* `shmSegmentsBytes` is lowered only by the process that destroys a segment: a detach that
  leaves it to others, and a get after that, count it twice in `getTotalSize`.
* A second `get` of a segment attaches it again without recording it. A Buffer
  detaches its segment when it is collected, though an LRU on it is in use; it keeps its address
  after a `detach`, and unmaps what is there by then, and takes the record of its segment away,
  whichever attach it is of.
  `detachAll` keeps all handles. `detach` keeps the mutex handle, and the LRU
  that was given a table keeps its address. Of two overlapping detaches one fails and keeps its record.
* `run_lru_eviction_move_values` takes one key for both LRUs, is not exported by
  `index.js`, and loses values that a frozen table refuses;
  `run_lru_targeted_eviction_get_values` is never registered.

## 6. Proofs

All theorems hold for every value of the constants within the named assumptions:
`RegionAssumption` is the constructor's own check of the region size, `TableAssumption` says
that a table and its neighbourhoods are not empty and that two offsets into the table add up to
a word, `CacheAssumption`, `MapAssumption`, `SlabAssumption`, `RegionUsers` and `LocalAssumption`
give types (`MapAssumption` and `SlabAssumption` also that an offset of the list fits in a word of
the table), `NothingAssumption` that the marks for no key and no segment are not among the keys
and segments. Further conditions stand in the theorem: `CarefulDelete`, `KeepTable`, `Disciplined`
(section 3), and two that are each called `Callers`, below.

| Module | Theorems |
|---|---|
| `LRUCache_proofs` | `TypeCorrect`, `LinksCorrect`, `TableCorrect`, `RecencyCorrect`, `FreeCountCorrect`, `NothingLost`, `EvictionComplete`, `EveryElementFound`, `CacheIsAStore` |
| `LocalTables_proofs` | `TypeCorrect`, `LinksCorrect`, `TrustCorrect`, `ReloadFindsAll` |
| `LockedRegion_proofs` | `MutualExclusion`, `TypesCorrect`, `NeverHalfDone`, `Atomicity` |
| `HHMap_proofs` | `TypesCorrect`, `EveryEntryClaimedOnce`, `CounterExact`, `HeldSlotStaysFree`, `HopsApproach`, `TableIsABag` |
| `Slab_proofs` | `TypesCorrect`, `EveryEntryLeadsHome`, `EveryStoredFound` |
| `Segments_proofs` | `TypesCorrect`, `EveryAttachRecorded`, `EveryRecordAttached`, `HandlesStayMapped`, `LastOneRemoves` |

**The lists** (`LRULinks_proofs`). `SlotFacts` is the arithmetic of slots. `UnlinkList` and
`PushList` say that unlinking an element of a list over the set A gives a list over A without
it, and inserting one a list over A with it; `SetupKeeps`, `AddKeeps`, `TouchKeeps`, `DelKeeps`
conclude that each operation keeps `LinksOK`, and what it does to the sets of allocated and
free elements. `LinksOK` is local, agreement of neighbours, and allows circles beside the list.
`Threaded` excludes them: there is a rank that falls along every link (`Falls`), and no free
element is left out of its chain (`FreeReached`). It is kept because an element enters a
list only at its head, where a rank above all others does (`AddThreads`, `TouchThreads`,
`DelThreads`). From it follows what a walk returns (`ForwardLists`, `BackwardLists`, `FreeLists`:
a sequence of the set, each element once, in the order of the links, and the only one there
is, `ListUnique`), and what an operation does to that sequence (`AddForward`,
`TouchForward`, `DelForward`: put in front, taken out). The walks are recursive functions; where
induction over their argument is needed, the proof takes the least argument that fails
(`LeastExists`). `FrontStarts`, `FrontGrows` and `FrontEnds` follow a walk that takes a step
at a time: what it has behind it is a front part of the list, and at the tail the whole.

**One process** (`LRUCache_proofs`, `ASSUME CarefulDelete`). `Spec` keeps `IInv`, which gives
`TypeOK`, `LinkInv`, `TableSound` and `RecencyOrder`. None of the four is inductive alone:
deleting keeps the links whole only if the offset in the table is that of a stored element
(`TableSound`), a table stays sound only if no two list operations hand out the same element
(`LinkInv`), the order of use needs the list to insert in front of elements with `_when`
not beyond the clock, and the walk of `reload_hash_map` maps elements that are allocated only
because the list has not changed since it began (`WalkOnList`). One lemma per method
(`AddOK`, `TouchOK`, `GetOK`, `UpdateOK`, `DelOK`, `StoreOK`) carries the state part; `IStep` has
one case per action. On top of it:
* `FreeCountExact` is inductive with `IInv`: each operation moves one element between sets
  whose sizes the counter follows, and the counter does not wrap below 2^16 elements.
* `ListInv` is `Threaded(links)`; `LinkSteps` says that no step does anything to the links but
  the four operations. `NothingLost` reads `ListSound` off it.
* `EvictionComplete`: an eviction that stops of itself has met an element as young as
  the cutoff at the tail, or no element; by `OldestIsOldest` (order of use and ranks) all others
  are as young.
* `EveryElementFound` (with `KeepTable`) needs `CompleteInv`: outside a reload every stored element is
  mapped; in a reload the hashes of stored elements differ, the list is short enough for
  the walk not to give up, and what the walk has behind it is mapped.

**The store** (`LRUCache_proofs`, with both assumptions). `CacheIsAStore` is the refinement
`AnswerSpec => StoreSpec`. `RefInv` joins the invariants above. `OrderFacts` says that the order
of the keys is a sequence without repetition, `PositionFacts` where a key is in it,
`ValuesChange` what one changed key does to the values. Each operation is then one lemma:
`StorePuts`, `GetGets`, `DelErases`, `EvictErases`, and `SilentSteps` for those that change nothing in
the store; `StepMaps` has one case per action.

**Several processes, tables** (`LocalTables_proofs`, `ASSUME Disciplined`). `Spec` keeps `TypeOK`,
`LinkInv` and `TableTrusted`. `TableTrusted` is not inductive: that a deleted element's hash
reaches every other process as one of their keys needs `HashKept`, stored elements keep a
key; that a process which joins is not misled needs `OutEmpty`, the table of one that is not
there is empty; and a walk maps stored elements because the list is the one it began on
(`WalkOnList`). `ReloadFindsAll` adds `FullInv`: the list is threaded, and a reload has mapped what it
has behind it; giving up before the tail would make the list as long as the region.

**Several processes, half-done operations** (`LockedRegion_proofs`). `MutualExclusion` needs that the mutex is held
as long as anybody is inside (`Exclusion`). `RegionInv` adds that the process which is working began on
whole lists with the neighbours it found there, and that the links are those it found
with the first `step` of its assignments made (`Written`). When it dies, nobody can enter
any more; when it is through, `Written` is the operator of `LRULinks`, assignment by assignment. Hence
`NeverHalfDone` and `Atomicity`, which is what lets the other modules take an operation for one
step.

**The hopscotch table** (`HHTable_proofs`, `HHMap_proofs`). `Agree`: every bit of a neighbourhood leads to an occupied slot, every
occupied slot is led to, by one bit of one bucket only, and `count` is the number of
occupied slots. `MapInv` adds the type and `FreeSlotInHand`. A hop moves the entry and its bit
together, so it keeps `Agree`, and frees a slot that is nearer (`HopsApproach`); a store that gives up
leaves the table after its hops as sound as the one it found.
`TableIsABag` assumes `Callers`: no key word is 0, and no bucket is so large that a
distance added to it wraps around 32 bits. Both are conditions the code does not check
(section 5); the runs have the same preconditions, and a lookup or deletion that misses its
entry is what they exclude. It maps the table to the
bag of its entries: `RefInv` adds that occupied slots hold entries of their home
bucket's callers, hops map to stutters, and a lookup hits the entry that `get` finds at its
distance because `(bucket + distance) % N` is the slot at that distance from home.

**An LRU over a table** (`Slab_proofs`, `ASSUME Callers`: `FreshKeys` and `KeysApart`, section 3).
`Filed(T)` is the set of pairs of home bucket and entry that a table's bits lead to, and `Once`
that each is there at one distance only; `HHTable_proofs` says what every operation of the table
does to it (`PlaceFiles`, `SwapFiles`, `RemoveFiles`, `DeleteFiles`, `LookupFiles`). The invariant is
`Good(R, forgotten)`: whole lists, a sound table, each stored element with a key of its own,
everything filed is that of a stored element (`File`), and what a stored element should have
filed is there unless the element is forgotten. `EntriesStored` and `StoredFound` follow and are
not inductive. They say nothing of bits and slots that no bucket claims, over which the
next store would hop; nothing of the links, which decide whether the element a store takes
is one that entries still lead to; and a deletion finds its entry by one word of
two, so that it takes the right one only because no two elements share a key.
One lemma per method (`TouchGood`, `AddGood`, `RemoveGood`, `DelGood`, `SetGood`, `EvictGood`,
`MoveGood`) keeps `Good`. `AddGood` covers the refused store too: hops change neither
`Filed` nor `Once` (`HoppedKeeps`), so that a table that is frozen half way is as good as before.
The loops (the hops, an eviction, the values put back) are functions of the
number of the round. That such a function exists and follows its own equation is proved
once for any loop (`LoopRuns`), and `EveryRound` takes the least round that fails in the place
of an induction. `HopLoopEnds` shows that the `N` rounds `HopLoop` counts are enough:
each brings the free slot closer, so that the loop of the code has ended by then.
`MoveGood` needs that a key still to be put back is of no element (`Moving`).

**Segments** (`Segments_proofs`). `SegInv` is `TypeOK`, `ProcInv` for every process and `NoOrphan`. `ProcInv(p)`
states what the arrays, the handles and the call in progress of one process have to do with its
attaches: its parts (`BookInv`, `FreshInv`, `RecordedInv`, `AttachedInv`, `KeyedInv`, `HandlesInv`) each speak of every
segment that is spared what that part does not bear, one segment at a time. The properties between
calls are not inductive: what `call` still has to detach and has already unmapped is why they
hold again at its end. `HarmsKept` says that what has befallen a segment is forgotten only when a
new segment gets its id, which nothing mentions then (`NewId`). A step is of one process (`OnlyOf`): `Frame` carries `ProcInv` of the others through it. `NoOrphan` is inductive with `ProcInv`, without any assumption on how detaches
overlap: a step that takes the last attach of a segment away is that of a process which has its
`stat` before it, and one that gives up at `stat` has seen another attach (`NoNewOrphan`).

Only model-checked:
* `CallsReturn`, `StoreReturns` and `Released` need fairness, which is out of this prover's reach.
  `HopsApproach` is the variant behind `StoreReturns`.
* The claims of section 5, which are violated.

## 7. Not modelled, and why

* Formatting and output: `joiner`, the map makers, `debug_dump_list`.
* `shmSegmentsBytes` and `g_ids_to_seg_sizes`, which `getTotalSize` and `getSegSize` return, and
  the sizes given to the constructors: `Segments` has segments of one size.
* `_count` and `_count_free` of several processes: only `current_count` and `free_count`
  read them (`LRUCache` has those of one process).
* Lengths of strings against `_record_size`; `update_el` copies a whole record from a
  string that may be shorter.
* `get_bucket` and `evict_least_used_near_hash`: no registered method reaches them.
* `put_hh_set`, `put_hh_map`: called by nothing.
* A clock that goes back: `epoch_ms()` is taken as never decreasing.
* `unlock` by a process that has not locked: the code has no check, and POSIX leaves
  open what happens. Several mutexes locked in different orders: the application's.
* The arguments' defaults and range checks of `index.js`; the orders and the default index it
  passes on are part of the calls.
* Build files, utilities and the example scripts in `test/`.

## 8. Plan

Done, in this order: the region (`LRULinks`), the cache (`LRUCache`), its promise
(`LRUSpec`), its proofs; the hopscotch table and its promise; the locked region; the slab;
the private tables and their proofs; the segment registry;
then the proofs: the links, the cache, its table and its refinement; the locked region; the
hopscotch table and its refinement; the segments; the slab.

Next:

1. `LRUCache` with `remove_key`: which elements stay found.
2. A promise for `Slab`, a store of values under keys in which a table may refuse a key
   although there is room, and the proof that `Slab` implements it.
3. `Segments`: the mutex handle and the table an LRU was given, after a detach.

---------------------------- MODULE LockedRegion ----------------------------
(***************************************************************************)
(* Several processes that rewrite the links of one region, assignment by   *)
(* assignment, each between lock and unlock of the mutex that a shared     *)
(* segment holds: MutexHolder (src/node_shm.h) and its calls in            *)
(* src/node_shm.cc, over the POSIX mutex it initialises, process-shared,   *)
(* of the default type and not robust.                                     *)
(*                                                                         *)
(* What is asked of the callers (doc/mutex_ops.md): one process is the     *)
(* initializer, the others attach after it; a process unlocks only what it *)
(* has locked; only stored elements are touched and deleted.  A process    *)
(* may die anywhere, and one that starts again is not the initializer.     *)
(***************************************************************************)
EXTENDS LRULinks, Sequences

CONSTANTS
  Procs,
  Leader,    \* the process that passes true to init_mutex
  MayDie

ASSUME RegionUsers == Leader \in Procs /\ MayDie \in BOOLEAN

VARIABLES
  links,       \* the links of the region
  mutex,       \* the pthread_mutex_t: "raw" until it is initialised
  attached,    \* the processes with a MutexHolder for the segment
  status,      \* _status of each MutexHolder
  at,          \* where a process is
  job          \* the operation a process is in the middle of

vars == <<links, mutex, attached, status, at, job>>

Inside == {"in", "working", "done"}

NoJob == [op |-> "none"]

Jobs == [ op : {"add", "touch", "del"}, s : Elements, step : 1 .. 7,
          prev : Slots \cup {NIL}, next : Slots \cup {NIL}, before : Links ]

TypeOK ==
  /\ links \in Links
  /\ mutex \in {"raw", "free", "held"}
  /\ attached \in SUBSET Procs
  /\ status \in [Procs -> BOOLEAN]
  /\ at \in [Procs -> {"out", "waiting", "dead"} \cup Inside]
  /\ job \in [Procs -> Jobs \cup {NoJob}]
  /\ \A p \in Procs : /\ at[p] \in Inside \cup {"waiting"} => p \in attached
                      /\ at[p] = "working" <=> job[p] # NoJob

Init ==
  /\ links = SetupLinks
  /\ mutex = "raw"
  /\ attached = {}
  /\ status = [ p \in Procs |-> TRUE ]
  /\ at = [ p \in Procs |-> "out" ]
  /\ job = [ p \in Procs |-> NoJob ]

-----------------------------------------------------------------------------
(* The mutex.                                                              *)

(* Fault: a mutex that is there already is initialised again.              *)
InitMutexAgain(p) ==
  /\ at[p] = "out" /\ p \notin attached
  /\ p = Leader \/ mutex # "raw"
  /\ mutex' = "free"
  /\ attached' = attached \cup {p}
  /\ UNCHANGED <<links, status, at, job>>

InitMutex(p) ==
  /\ at[p] = "out" /\ p \notin attached
  /\ p = Leader \/ mutex # "raw"
  /\ mutex' = IF mutex = "raw" THEN "free" ELSE mutex
  /\ attached' = attached \cup {p}
  /\ UNCHANGED <<links, status, at, job>>

(* Fault: the handle is used without looking whether there is one.         *)
LockUnchecked(p) ==
  /\ at[p] = "out"
  /\ at' = [ at EXCEPT ![p] = "waiting" ]
  /\ status' = [ status EXCEPT ![p] = TRUE ]
  /\ UNCHANGED <<links, mutex, attached, job>>

(* lock blocks the whole process until it has the mutex.                   *)
Lock(p) ==
  /\ at[p] = "out" /\ p \in attached
  /\ at' = [ at EXCEPT ![p] = "waiting" ]
  /\ status' = [ status EXCEPT ![p] = TRUE ]
  /\ UNCHANGED <<links, mutex, attached, job>>

Acquire(p) ==
  /\ at[p] = "waiting" /\ mutex = "free"
  /\ mutex' = "held"
  /\ at' = [ at EXCEPT ![p] = "in" ]
  /\ UNCHANGED <<links, attached, status, job>>

(* Fault: EBUSY is taken for success.                                      *)
TryLockBusy(p) ==
  /\ at[p] = "out" /\ p \in attached
  /\ status' = [ status EXCEPT ![p] = TRUE ]
  /\ mutex' = "held"
  /\ at' = [ at EXCEPT ![p] = "in" ]
  /\ UNCHANGED <<links, attached, job>>

TryLock(p) ==
  /\ at[p] = "out" /\ p \in attached
  /\ status' = [ status EXCEPT ![p] = TRUE ]
  /\ \/ /\ mutex = "free"
        /\ mutex' = "held"
        /\ at' = [ at EXCEPT ![p] = "in" ]
     \/ /\ mutex = "held"
        /\ UNCHANGED <<mutex, at>>
  /\ UNCHANGED <<links, attached, job>>

(* Fault: pthread_mutex_unlock is not reached.                             *)
UnlockForgotten(p) ==
  /\ at[p] \in {"in", "done"}
  /\ at' = [ at EXCEPT ![p] = "out" ]
  /\ status' = [ status EXCEPT ![p] = TRUE ]
  /\ UNCHANGED <<links, mutex, attached, job>>

Unlock(p) ==
  /\ at[p] \in {"in", "done"}
  /\ mutex' = "free"
  /\ at' = [ at EXCEPT ![p] = "out" ]
  /\ status' = [ status EXCEPT ![p] = TRUE ]
  /\ UNCHANGED <<links, attached, job>>

(* A pthread call that returns an error other than EBUSY: nothing is       *)
(* locked or unlocked, and _status is false until the reason is asked for. *)
CallFails(p) ==
  /\ p \in attached /\ at[p] \in {"out", "waiting", "in", "done"}
  /\ status' = [ status EXCEPT ![p] = FALSE ]
  /\ at' = [ at EXCEPT ![p] = IF @ = "waiting" THEN "out" ELSE @ ]
  /\ UNCHANGED <<links, mutex, attached, job>>

GetLastMutexReason(p) ==
  /\ p \in attached /\ at[p] \in {"out", "in", "done"}
  /\ status' = [ status EXCEPT ![p] = TRUE ]
  /\ UNCHANGED <<links, mutex, attached, at, job>>

-----------------------------------------------------------------------------
(* One operation on the links; the offsets of the neighbours are read at   *)
(* its start.                                                              *)

Start(p, op, s) ==
  /\ at[p] = "in"
  /\ at' = [ at EXCEPT ![p] = "working" ]
  /\ job' = [ job EXCEPT ![p] = [ op |-> op, s |-> s, step |-> 1, prev |-> links.prev[s],
                                  next |-> links.next[s], before |-> links ] ]
  /\ UNCHANGED <<links, mutex, attached, status>>

AddEl(p) == links.next[CtrlFree] # NIL /\ Start(p, "add", links.next[CtrlFree])
Touch(p) == \E s \in Allocated(links) : Start(p, "touch", s)
DelEl(p) == \E s \in Allocated(links) : Start(p, "del", s)

(* first->_prev = s, with the header not moved yet.                        *)
Behind(s) == << <<"next", s, links.next[CtrlHdr]>>, <<"prev", links.next[CtrlHdr], s>> >>

(* Fault: only the element before is linked past.                          *)
RelinkOneSide(j) == << <<"next", j.prev, j.next>> >>

Relink(j) == << <<"next", j.prev, j.next>>, <<"prev", j.next, j.prev>> >>

(* The assignments of an operation in the order of the code, with the      *)
(* values they would write now.                                            *)
Assignments(j) ==
  CASE j.op = "add"   -> << <<"next", CtrlFree, j.next>> >> \o Behind(j.s)
                         \o << <<"prev", j.s, CtrlHdr>>, <<"next", CtrlHdr, j.s>> >>
    [] j.op = "touch" -> Relink(j) \o Behind(j.s)
                         \o << <<"next", CtrlHdr, j.s>>, <<"prev", j.s, CtrlHdr>> >>
    [] j.op = "del"   -> Relink(j)
                         \o << <<"prev", j.s, NIL>>, <<"next", j.s, links.next[CtrlFree]>>,
                               <<"next", CtrlFree, j.s>> >>

Assign(p) ==
  /\ at[p] = "working"
  /\ LET j == job[p]
         a == Assignments(j)[j.step]
         last == j.step = Len(Assignments(j))
     IN  /\ links' = [ links EXCEPT ![a[1]][a[2]] = a[3] ]
         /\ job' = [ job EXCEPT ![p] = IF last THEN NoJob ELSE [ j EXCEPT !.step = @ + 1 ] ]
         /\ at' = [ at EXCEPT ![p] = IF last THEN "done" ELSE @ ]
  /\ UNCHANGED <<mutex, attached, status>>

-----------------------------------------------------------------------------
(* Nothing of the mutex or of the region changes when a process dies.      *)

Die(p) ==
  /\ MayDie /\ at[p] # "dead"
  /\ at' = [ at EXCEPT ![p] = "dead" ]
  /\ job' = [ job EXCEPT ![p] = NoJob ]
  /\ attached' = attached \ {p}
  /\ status' = [ status EXCEPT ![p] = TRUE ]
  /\ UNCHANGED <<links, mutex>>

Restart(p) ==
  /\ at[p] = "dead"
  /\ at' = [ at EXCEPT ![p] = "out" ]
  /\ UNCHANGED <<links, mutex, attached, status, job>>

Next ==
  \E p \in Procs :
    \/ InitMutex(p) \/ Lock(p) \/ Acquire(p) \/ TryLock(p) \/ Unlock(p)
    \/ CallFails(p) \/ GetLastMutexReason(p)
    \/ AddEl(p) \/ Touch(p) \/ DelEl(p) \/ Assign(p)
    \/ Die(p) \/ Restart(p)

(* A process that lives goes on with a native call, the system gives a     *)
(* free mutex to a process that keeps waiting for it, and the callers      *)
(* unlock what they have locked.                                           *)
Spec ==
  /\ Init /\ [][Next]_vars
  /\ \A p \in Procs : WF_vars(Acquire(p)) /\ WF_vars(Assign(p)) /\ WF_vars(Unlock(p))

-----------------------------------------------------------------------------
(* Properties.                                                             *)

(* Two processes are never between lock and unlock, whichever of lock and  *)
(* try_lock let them in and whatever has died before.                      *)
OneInside ==
  \A p, q \in Procs : at[p] \in Inside /\ at[q] \in Inside => p = q

(* A process that has the mutex and is not itself in the middle of an      *)
(* operation sees whole lists: it never goes on with what another process  *)
(* left half done, the dead ones included.                                 *)
WholeListsInside ==
  \A p \in Procs : at[p] \in {"in", "done"} => LinksOK(links)

(* The assignments of add_el, touch and del_el, in the order of the code,  *)
(* add up to the whole operations of LRULinks.                             *)
Whole(j) ==
  CASE j.op = "add"   -> AddLinks(j.before)
    [] j.op = "touch" -> TouchLinks(j.before, j.s)
    [] j.op = "del"   -> DelLinks(j.before, j.s)

OperationsAddUp ==
  [][ \A p \in Procs : at[p] = "working" /\ at'[p] = "done" => links' = Whole(job[p]) ]_vars

(* A process that is let in lets others in, unless it dies inside.         *)
Released ==
  \A p \in Procs : at[p] \in Inside ~> (mutex = "free" \/ at[p] = "dead")
=============================================================================

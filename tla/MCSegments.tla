------------------------------ MODULE MCSegments ------------------------------
(***************************************************************************)
(* Segments on a small instance.  Segments, addresses and Buffers are      *)
(* interchangeable, and so are processes of one sort: no property of its   *)
(* run is about liveness.                                                  *)
(***************************************************************************)
EXTENDS Segments, TLC

CONSTANT
  Users   \* bound: the processes that ask for Buffers and build handles

(* The handles that no property speaks of.                                 *)
Unspoken(p) ==
  { k \in LRUKeys : hashImpl[p][k] # Nothing } \cup { k \in MutexKeys : mutex[p][k] # Nothing }

(* Bound: at a time there is one harm in all, or each process has one      *)
(* unspoken handle or two Buffers; only users have Buffers and handles.    *)
Within ==
  \A p \in Procs :
    LET some == { b \in Buffers : buffers[p][b] # Nothing }
    IN  /\ 2 * Cardinality(spoilt) + 2 * Cardinality(Unspoken(p)) + Cardinality(some) <= 2
        /\ p \in Users \/ (some = {} /\ HandleIds(p) = {} /\ Unspoken(p) = {})

BoundedSpec == Init /\ [][Next /\ Within']_vars

Interchangeable ==
  UNION { Permutations(S) : S \in {Users, Procs \ Users, Ids, Addrs, Buffers} }
=============================================================================

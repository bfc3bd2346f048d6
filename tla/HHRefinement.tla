---------------------------- MODULE HHRefinement ----------------------------
(***************************************************************************)
(* HHMap implements HHSpec as long as no key is 0 and no bucket is within  *)
(* K of the largest word.                                                  *)
(***************************************************************************)
EXTENDS HHMap

Entries(c, k, v) ==
  Cardinality({ d \in T.H[c] : T.V[SlotAt(c, d)] = [val |-> v, key |-> k] })

Promise == INSTANCE HHSpec WITH
  Bucket <- Buckets, ElKey <- ElKeys, Offset <- Offsets,
  Class <- Home,
  bag <- [ e \in { Home(b) : b \in Buckets } \X ElKeys \X Offsets |->
             Entries(e[1], e[2], e[3]) ]

(* The hops that make room for an entry move others without losing, adding *)
(* or refiling any, the refused store that has already hopped included; an *)
(* entry that was stored is found and deleted from wherever it lies.       *)
MapSpec == Promise!Spec
=============================================================================

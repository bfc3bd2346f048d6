------------------------------- MODULE HHSpec -------------------------------
(***************************************************************************)
(* What the hopscotch table promises: a bag of entries, each filed under   *)
(* the class of its bucket and a key.  Looking up a class and a key gives  *)
(* the value of some entry filed there, and 0 only when there is none;     *)
(* deleting takes one such entry away.  A store may be refused at any      *)
(* time, and then changes nothing.                                         *)
(***************************************************************************)
EXTENDS Integers

CONSTANTS
  Bucket, ElKey, Offset,
  Class(_)    \* the buckets with one class share their entries

VARIABLES
  bag,        \* how many entries there are of each class, key and value
  answer

vars == <<bag, answer>>

Classes == { Class(b) : b \in Bucket }

Init ==
  /\ bag = [ e \in Classes \X ElKey \X Offset |-> 0 ]
  /\ answer = <<"none">>

Filed(b, k) == { v \in Offset : bag[<<Class(b), k, v>>] > 0 }

Store(b, k, v) ==
  /\ bag' = [ bag EXCEPT ![<<Class(b), k, v>>] = @ + 1 ]
  /\ answer' = <<"stored", b, k, v>>

Refuse(b, k, v) ==
  /\ answer' = <<"refused", b, k, v>>
  /\ UNCHANGED bag

Get(b, k) ==
  /\ \/ \E v \in Filed(b, k) : answer' = <<"got", b, k, v>>
     \/ Filed(b, k) = {} /\ answer' = <<"got", b, k, 0>>
  /\ UNCHANGED bag

Del(b, k) ==
  /\ \/ \E v \in Filed(b, k) : bag' = [ bag EXCEPT ![<<Class(b), k, v>>] = @ - 1 ]
     \/ Filed(b, k) = {} /\ UNCHANGED bag
  /\ answer' = <<"deleted", b, k>>

Clear ==
  /\ bag' = [ e \in DOMAIN bag |-> 0 ]
  /\ answer' = <<"cleared">>

Wait == answer' = <<"none">> /\ UNCHANGED bag

Next ==
  \/ \E b \in Bucket, k \in ElKey :
       Get(b, k) \/ Del(b, k) \/ \E v \in Offset : Store(b, k, v) \/ Refuse(b, k, v)
  \/ Clear \/ Wait

Spec == Init /\ [][Next]_vars
=============================================================================

------------------------ MODULE LockedRegion_proofs ------------------------
(***************************************************************************)
(* LockedRegion for any number of processes and a region of any size: the  *)
(* mutual exclusion, and that the lists are whole whenever a process that  *)
(* has the mutex is not itself in the middle of an operation.              *)
(***************************************************************************)
EXTENDS LockedRegion, LRULinks_proofs

(* OneInside says nothing of the mutex; what makes it last is that the     *)
(* mutex is held as long as anybody is inside.                             *)
Exclusion ==
  /\ at \in [Procs -> {"out", "waiting", "dead"} \cup Inside]
  /\ OneInside
  /\ \A p \in Procs : at[p] \in Inside => mutex = "held"

LEMMA ExclusionInit == Init => Exclusion
BY DEF Init, Exclusion, OneInside, Inside

(* Each action moves one process; only Acquire and TryLock let it in, and  *)
(* only while the mutex is free.                                           *)
LEMMA ExclusionStep == Exclusion /\ [Next]_vars => Exclusion'
<1> SUFFICES ASSUME Exclusion, [Next]_vars PROVE Exclusion'
  OBVIOUS
<1> USE DEF Exclusion, OneInside, Inside
<1>1. CASE UNCHANGED vars
  BY <1>1 DEF vars
<1>2. ASSUME NEW p \in Procs, InitMutex(p) PROVE Exclusion'
  BY <1>2 DEF InitMutex
<1>3. ASSUME NEW p \in Procs, Lock(p) PROVE Exclusion'
  BY <1>3 DEF Lock
<1>4. ASSUME NEW p \in Procs, Acquire(p) PROVE Exclusion'
  BY <1>4 DEF Acquire
<1>5. ASSUME NEW p \in Procs, TryLock(p) PROVE Exclusion'
  BY <1>5 DEF TryLock
<1>6. ASSUME NEW p \in Procs, Unlock(p) PROVE Exclusion'
  BY <1>6 DEF Unlock
<1>7. ASSUME NEW p \in Procs, CallFails(p) PROVE Exclusion'
  BY <1>7 DEF CallFails
<1>8. ASSUME NEW p \in Procs, GetLastMutexReason(p) PROVE Exclusion'
  BY <1>8 DEF GetLastMutexReason
<1>9. ASSUME NEW p \in Procs, AddEl(p) \/ Touch(p) \/ DelEl(p) PROVE Exclusion'
  <2>1. PICK op, s : Start(p, op, s)
    BY <1>9 DEF AddEl, Touch, DelEl
  <2> QED
    BY <2>1 DEF Start
<1>10. ASSUME NEW p \in Procs, Assign(p) PROVE Exclusion'
  <2>1. /\ at[p] = "working"
        /\ at' = [ at EXCEPT ![p] = "done" ] \/ at' = [ at EXCEPT ![p] = at[p] ]
        /\ UNCHANGED <<mutex, attached>>
    BY <1>10 DEF Assign
  <2> QED
    BY <2>1
<1>11. ASSUME NEW p \in Procs, Die(p) PROVE Exclusion'
  BY <1>11 DEF Die
<1>12. ASSUME NEW p \in Procs, Restart(p) PROVE Exclusion'
  BY <1>12 DEF Restart
<1> QED
  BY <1>1, <1>2, <1>3, <1>4, <1>5, <1>6, <1>7, <1>8, <1>9, <1>10, <1>11, <1>12 DEF Next

(* However many processes call lock and try_lock, die and start again, no  *)
(* two of them are ever between lock and unlock.                           *)
THEOREM MutualExclusion == Spec => []OneInside
<1>1. Init => Exclusion
  BY ExclusionInit
<1>2. Exclusion /\ [Next]_vars => Exclusion'
  BY ExclusionStep
<1>3. Exclusion => OneInside
  BY DEF Exclusion
<1> QED
  BY <1>1, <1>2, <1>3, PTL DEF Spec

-----------------------------------------------------------------------------
(* The links in the middle of an operation.                                *)

After(f, made, x, v) == IF made THEN [ f EXCEPT ![x] = v ] ELSE f

(* The element that is first once s is linked past.                        *)
FirstBut(L, s) == IF L.prev[s] = CtrlHdr THEN L.next[s] ELSE L.next[CtrlHdr]

(* The links that j found, after the first n - 1 of its assignments.       *)
Written(j, n) ==
  LET b == j.before
      first == FirstBut(b, j.s)
  IN  CASE j.op = "add" ->
             [ next |-> After(After(After(b.next, n > 1, CtrlFree, j.next),
                                    n > 2, j.s, b.next[CtrlHdr]),
                              n > 5, CtrlHdr, j.s),
               prev |-> After(After(b.prev, n > 3, b.next[CtrlHdr], j.s),
                              n > 4, j.s, CtrlHdr) ]
        [] j.op = "touch" ->
             [ next |-> After(After(After(b.next, n > 1, j.prev, j.next),
                                    n > 3, j.s, first),
                              n > 5, CtrlHdr, j.s),
               prev |-> After(After(After(b.prev, n > 2, j.next, j.prev),
                                    n > 4, first, j.s),
                              n > 6, j.s, CtrlHdr) ]
        [] j.op = "del" ->
             [ next |-> After(After(After(b.next, n > 1, j.prev, j.next),
                                    n > 4, j.s, b.next[CtrlFree]),
                              n > 5, CtrlFree, j.s),
               prev |-> After(After(b.prev, n > 2, j.next, j.prev),
                              n > 3, j.s, NIL) ]

Length(j) == IF j.op = "touch" THEN 6 ELSE 5

(* j was started on whole lists, on an element it may be started on, and   *)
(* the neighbours it read are those it found.                              *)
Begun(j) ==
  /\ j \in Jobs /\ j.step <= Length(j)
  /\ LinksOK(j.before)
  /\ j.prev = j.before.prev[j.s] /\ j.next = j.before.next[j.s]
  /\ IF j.op = "add" THEN j.s = j.before.next[CtrlFree] ELSE j.s \in Allocated(j.before)

(* What makes WholeListsInside last: the lists are whole as long as nobody *)
(* can be inside, and the process that is working knows where it is.  What *)
(* a process that died inside has left is not whole; the mutex it took     *)
(* with it keeps everybody out.                                            *)
RegionInv ==
  /\ TypeOK /\ Exclusion /\ WholeListsInside
  /\ mutex # "held" => LinksOK(links)
  /\ \A p \in Procs :
       at[p] = "working" => Begun(job[p]) /\ links = Written(job[p], job[p].step)

(* A job is never mistaken for none.                                       *)
LEMMA JobFacts == \A j \in Jobs : j # NoJob /\ j.op \in {"add", "touch", "del"}
BY DEF Jobs, NoJob

Write(L, a) == [ L EXCEPT ![a[1]][a[2]] = a[3] ]

(* An assignment to _next leaves _prev alone.                              *)
LEMMA WriteNext ==
  ASSUME NEW f, NEW g, NEW x, NEW v, NEW L, L = [ next |-> f, prev |-> g ],
         NEW a, a = <<"next", x, v>>
  PROVE  Write(L, a) = [ next |-> [ f EXCEPT ![x] = v ], prev |-> g ]
<1>1. a[1] = "next" /\ a[2] = x /\ a[3] = v
  OBVIOUS
<1>2. L["next"] = f /\ DOMAIN L = {"next", "prev"}
  OBVIOUS
<1>3. Write(L, a) = [ L EXCEPT !["next"] = [ f EXCEPT ![x] = v ] ]
  BY <1>1, <1>2 DEF Write
<1> QED
  BY <1>2, <1>3

(* An assignment to _prev leaves _next alone.                              *)
LEMMA WritePrev ==
  ASSUME NEW f, NEW g, NEW x, NEW v, NEW L, L = [ next |-> f, prev |-> g ],
         NEW a, a = <<"prev", x, v>>
  PROVE  Write(L, a) = [ next |-> f, prev |-> [ g EXCEPT ![x] = v ] ]
<1>1. a[1] = "prev" /\ a[2] = x /\ a[3] = v
  OBVIOUS
<1>2. L["prev"] = g /\ DOMAIN L = {"next", "prev"}
  OBVIOUS
<1>3. Write(L, a) = [ L EXCEPT !["prev"] = [ g EXCEPT ![x] = v ] ]
  BY <1>1, <1>2 DEF Write
<1> QED
  BY <1>2, <1>3

(* add_el, assignment by assignment.                                       *)
LEMMA AddStep ==
  ASSUME NEW j, Begun(j), j.op = "add", links = Written(j, j.step)
  PROVE  /\ Len(Assignments(j)) = Length(j)
         /\ Write(links, Assignments(j)[j.step]) = Written(j, j.step + 1)
         /\ Written(j, Length(j) + 1) = Whole(j)
<1> DEFINE b == j.before
           s == j.s
           f == b.next[CtrlHdr]
           N1 == [ b.next EXCEPT ![CtrlFree] = j.next ]
           N2 == [ N1 EXCEPT ![s] = f ]
           N3 == [ N2 EXCEPT ![CtrlHdr] = s ]
           P1 == [ b.prev EXCEPT ![f] = s ]
           P2 == [ P1 EXCEPT ![s] = CtrlHdr ]
<1>1. /\ b \in Links /\ s \in Elements /\ s = b.next[CtrlFree] /\ j.next = b.next[s]
      /\ j.step \in 1 .. 5 /\ Length(j) = 5
  BY DEF Begun, LinksOK, Jobs, Length
<1>2. f = N1[CtrlHdr] /\ f = N2[CtrlHdr]
  BY <1>1, SlotFacts DEF Links
<1>3. /\ Len(Assignments(j)) = 5
      /\ Assignments(j)[1] = <<"next", CtrlFree, j.next>>
      /\ Assignments(j)[2] = <<"next", s, links.next[CtrlHdr]>>
      /\ Assignments(j)[3] = <<"prev", links.next[CtrlHdr], s>>
      /\ Assignments(j)[4] = <<"prev", s, CtrlHdr>>
      /\ Assignments(j)[5] = <<"next", CtrlHdr, s>>
  BY DEF Assignments, Behind
<1>4. /\ Written(j, 1) = [ next |-> b.next, prev |-> b.prev ]
      /\ Written(j, 2) = [ next |-> N1, prev |-> b.prev ]
      /\ Written(j, 3) = [ next |-> N2, prev |-> b.prev ]
      /\ Written(j, 4) = [ next |-> N2, prev |-> P1 ]
      /\ Written(j, 5) = [ next |-> N2, prev |-> P2 ]
      /\ Written(j, 6) = [ next |-> N3, prev |-> P2 ]
  BY DEF Written, After
<1>5. Whole(j) = [ next |-> N3, prev |-> P2 ]
  BY <1>1, <1>2 DEF Whole, AddLinks, PushFront, TakeFree
<1>6. Write(links, Assignments(j)[j.step]) = Written(j, j.step + 1)
  <2> HIDE DEF b, s, f, N1, N2, N3, P1, P2
  <2>1. CASE j.step = 1
    <3>1. /\ links = [ next |-> b.next, prev |-> b.prev ]
          /\ Written(j, j.step + 1) = [ next |-> N1, prev |-> b.prev ]
      BY <1>4, <2>1
    <3>2. Assignments(j)[j.step] = <<"next", CtrlFree, j.next>>
      BY <1>3, <2>1
    <3> QED
      BY <3>1, <3>2, WriteNext DEF N1
  <2>2. CASE j.step = 2
    <3>1. /\ links = [ next |-> N1, prev |-> b.prev ]
          /\ Written(j, j.step + 1) = [ next |-> N2, prev |-> b.prev ]
      BY <1>4, <2>2
    <3>2. links.next = N1
      BY <3>1
    <3>3. links.next[CtrlHdr] = f
      BY <1>2, <3>2
    <3>4. Assignments(j)[j.step] = <<"next", s, f>>
      BY <1>3, <2>2, <3>3
    <3> QED
      BY <3>1, <3>4, WriteNext DEF N2
  <2>3. CASE j.step = 3
    <3>1. /\ links = [ next |-> N2, prev |-> b.prev ]
          /\ Written(j, j.step + 1) = [ next |-> N2, prev |-> P1 ]
      BY <1>4, <2>3
    <3>2. links.next = N2
      BY <3>1
    <3>3. links.next[CtrlHdr] = f
      BY <1>2, <3>2
    <3>4. Assignments(j)[j.step] = <<"prev", f, s>>
      BY <1>3, <2>3, <3>3
    <3> QED
      BY <3>1, <3>4, WritePrev DEF P1
  <2>4. CASE j.step = 4
    <3>1. /\ links = [ next |-> N2, prev |-> P1 ]
          /\ Written(j, j.step + 1) = [ next |-> N2, prev |-> P2 ]
      BY <1>4, <2>4
    <3>2. Assignments(j)[j.step] = <<"prev", s, CtrlHdr>>
      BY <1>3, <2>4
    <3> QED
      BY <3>1, <3>2, WritePrev DEF P2
  <2>5. CASE j.step = 5
    <3>1. /\ links = [ next |-> N2, prev |-> P2 ]
          /\ Written(j, j.step + 1) = [ next |-> N3, prev |-> P2 ]
      BY <1>4, <2>5
    <3>2. Assignments(j)[j.step] = <<"next", CtrlHdr, s>>
      BY <1>3, <2>5
    <3> QED
      BY <3>1, <3>2, WriteNext DEF N3
  <2> QED
    BY <1>1, <2>1, <2>2, <2>3, <2>4, <2>5
<1> HIDE DEF b, s, f, N1, N2, N3, P1, P2
<1>7. Len(Assignments(j)) = Length(j)
  BY <1>1, <1>3
<1>8. Written(j, Length(j) + 1) = Whole(j)
  <2>1. Length(j) + 1 = 6
    BY <1>1
  <2> QED
    BY <1>4, <1>5, <2>1
<1> QED
  BY <1>6, <1>7, <1>8

(* touch, assignment by assignment.  The element that is first is read     *)
(* from the header after s has been linked past.                           *)
LEMMA TouchStep ==
  ASSUME NEW j, Begun(j), j.op = "touch", links = Written(j, j.step)
  PROVE  /\ Len(Assignments(j)) = Length(j)
         /\ Write(links, Assignments(j)[j.step]) = Written(j, j.step + 1)
         /\ Written(j, Length(j) + 1) = Whole(j)
<1> DEFINE b == j.before
           s == j.s
           f == FirstBut(b, s)
           N1 == [ b.next EXCEPT ![j.prev] = j.next ]
           N2 == [ N1 EXCEPT ![s] = f ]
           N3 == [ N2 EXCEPT ![CtrlHdr] = s ]
           P1 == [ b.prev EXCEPT ![j.next] = j.prev ]
           P2 == [ P1 EXCEPT ![f] = s ]
           P3 == [ P2 EXCEPT ![s] = CtrlHdr ]
<1>1. /\ b \in Links /\ s \in Elements /\ j.prev = b.prev[s] /\ j.next = b.next[s]
      /\ j.step \in 1 .. 6 /\ Length(j) = 6
  BY DEF Begun, LinksOK, Jobs, Length
<1>2. f = N1[CtrlHdr] /\ f = N2[CtrlHdr]
  BY <1>1, SlotFacts DEF Links, FirstBut
<1>3. /\ Len(Assignments(j)) = 6
      /\ Assignments(j)[1] = <<"next", j.prev, j.next>>
      /\ Assignments(j)[2] = <<"prev", j.next, j.prev>>
      /\ Assignments(j)[3] = <<"next", s, links.next[CtrlHdr]>>
      /\ Assignments(j)[4] = <<"prev", links.next[CtrlHdr], s>>
      /\ Assignments(j)[5] = <<"next", CtrlHdr, s>>
      /\ Assignments(j)[6] = <<"prev", s, CtrlHdr>>
  BY DEF Assignments, Behind, Relink
<1>4. /\ Written(j, 1) = [ next |-> b.next, prev |-> b.prev ]
      /\ Written(j, 2) = [ next |-> N1, prev |-> b.prev ]
      /\ Written(j, 3) = [ next |-> N1, prev |-> P1 ]
      /\ Written(j, 4) = [ next |-> N2, prev |-> P1 ]
      /\ Written(j, 5) = [ next |-> N2, prev |-> P2 ]
      /\ Written(j, 6) = [ next |-> N3, prev |-> P2 ]
      /\ Written(j, 7) = [ next |-> N3, prev |-> P3 ]
  BY DEF Written, After
<1>5. Whole(j) = [ next |-> N3, prev |-> P3 ]
  BY <1>1, <1>2 DEF Whole, TouchLinks, PushFront, Unlink
<1>6. Write(links, Assignments(j)[j.step]) = Written(j, j.step + 1)
  <2> HIDE DEF b, s, f, N1, N2, N3, P1, P2, P3
  <2>1. CASE j.step = 1
    <3>1. /\ links = [ next |-> b.next, prev |-> b.prev ]
          /\ Written(j, j.step + 1) = [ next |-> N1, prev |-> b.prev ]
      BY <1>4, <2>1
    <3>2. Assignments(j)[j.step] = <<"next", j.prev, j.next>>
      BY <1>3, <2>1
    <3> QED
      BY <3>1, <3>2, WriteNext DEF N1
  <2>2. CASE j.step = 2
    <3>1. /\ links = [ next |-> N1, prev |-> b.prev ]
          /\ Written(j, j.step + 1) = [ next |-> N1, prev |-> P1 ]
      BY <1>4, <2>2
    <3>2. Assignments(j)[j.step] = <<"prev", j.next, j.prev>>
      BY <1>3, <2>2
    <3> QED
      BY <3>1, <3>2, WritePrev DEF P1
  <2>3. CASE j.step = 3
    <3>1. /\ links = [ next |-> N1, prev |-> P1 ]
          /\ Written(j, j.step + 1) = [ next |-> N2, prev |-> P1 ]
      BY <1>4, <2>3
    <3>2. links.next = N1
      BY <3>1
    <3>3. links.next[CtrlHdr] = f
      BY <1>2, <3>2
    <3>4. Assignments(j)[j.step] = <<"next", s, f>>
      BY <1>3, <2>3, <3>3
    <3> QED
      BY <3>1, <3>4, WriteNext DEF N2
  <2>4. CASE j.step = 4
    <3>1. /\ links = [ next |-> N2, prev |-> P1 ]
          /\ Written(j, j.step + 1) = [ next |-> N2, prev |-> P2 ]
      BY <1>4, <2>4
    <3>2. links.next = N2
      BY <3>1
    <3>3. links.next[CtrlHdr] = f
      BY <1>2, <3>2
    <3>4. Assignments(j)[j.step] = <<"prev", f, s>>
      BY <1>3, <2>4, <3>3
    <3> QED
      BY <3>1, <3>4, WritePrev DEF P2
  <2>5. CASE j.step = 5
    <3>1. /\ links = [ next |-> N2, prev |-> P2 ]
          /\ Written(j, j.step + 1) = [ next |-> N3, prev |-> P2 ]
      BY <1>4, <2>5
    <3>2. Assignments(j)[j.step] = <<"next", CtrlHdr, s>>
      BY <1>3, <2>5
    <3> QED
      BY <3>1, <3>2, WriteNext DEF N3
  <2>6. CASE j.step = 6
    <3>1. /\ links = [ next |-> N3, prev |-> P2 ]
          /\ Written(j, j.step + 1) = [ next |-> N3, prev |-> P3 ]
      BY <1>4, <2>6
    <3>2. Assignments(j)[j.step] = <<"prev", s, CtrlHdr>>
      BY <1>3, <2>6
    <3> QED
      BY <3>1, <3>2, WritePrev DEF P3
  <2> QED
    BY <1>1, <2>1, <2>2, <2>3, <2>4, <2>5, <2>6
<1> HIDE DEF b, s, f, N1, N2, N3, P1, P2, P3
<1>7. Len(Assignments(j)) = Length(j)
  BY <1>1, <1>3
<1>8. Written(j, Length(j) + 1) = Whole(j)
  <2>1. Length(j) + 1 = 7
    BY <1>1
  <2> QED
    BY <1>4, <1>5, <2>1
<1> QED
  BY <1>6, <1>7, <1>8

(* del_el, assignment by assignment.  Linking past s leaves the head of    *)
(* the free list alone.                                                    *)
LEMMA DelStep ==
  ASSUME NEW j, Begun(j), j.op = "del", links = Written(j, j.step)
  PROVE  /\ Len(Assignments(j)) = Length(j)
         /\ Write(links, Assignments(j)[j.step]) = Written(j, j.step + 1)
         /\ Written(j, Length(j) + 1) = Whole(j)
<1> DEFINE b == j.before
           s == j.s
           f == b.next[CtrlFree]
           N1 == [ b.next EXCEPT ![j.prev] = j.next ]
           N2 == [ N1 EXCEPT ![s] = f ]
           N3 == [ N2 EXCEPT ![CtrlFree] = s ]
           P1 == [ b.prev EXCEPT ![j.next] = j.prev ]
           P2 == [ P1 EXCEPT ![s] = NIL ]
<1>1. /\ b \in Links /\ s \in Elements /\ j.prev = b.prev[s] /\ j.next = b.next[s]
      /\ j.step \in 1 .. 5 /\ Length(j) = 5
  BY DEF Begun, LinksOK, Jobs, Length
<1>2. j.prev # CtrlFree
  BY <1>1, SlotFacts DEF Begun, LinksOK, ListOver, Allocated
<1>3. f = N1[CtrlFree]
  BY <1>1, <1>2, SlotFacts DEF Links
<1>4. /\ Len(Assignments(j)) = 5
      /\ Assignments(j)[1] = <<"next", j.prev, j.next>>
      /\ Assignments(j)[2] = <<"prev", j.next, j.prev>>
      /\ Assignments(j)[3] = <<"prev", s, NIL>>
      /\ Assignments(j)[4] = <<"next", s, links.next[CtrlFree]>>
      /\ Assignments(j)[5] = <<"next", CtrlFree, s>>
  BY DEF Assignments, Relink
<1>5. /\ Written(j, 1) = [ next |-> b.next, prev |-> b.prev ]
      /\ Written(j, 2) = [ next |-> N1, prev |-> b.prev ]
      /\ Written(j, 3) = [ next |-> N1, prev |-> P1 ]
      /\ Written(j, 4) = [ next |-> N1, prev |-> P2 ]
      /\ Written(j, 5) = [ next |-> N2, prev |-> P2 ]
      /\ Written(j, 6) = [ next |-> N3, prev |-> P2 ]
  BY DEF Written, After
<1>6. Whole(j) = [ next |-> N3, prev |-> P2 ]
  BY <1>1, <1>3 DEF Whole, DelLinks, PutFree, Unlink
<1>7. Write(links, Assignments(j)[j.step]) = Written(j, j.step + 1)
  <2> HIDE DEF b, s, f, N1, N2, N3, P1, P2
  <2>1. CASE j.step = 1
    <3>1. /\ links = [ next |-> b.next, prev |-> b.prev ]
          /\ Written(j, j.step + 1) = [ next |-> N1, prev |-> b.prev ]
      BY <1>5, <2>1
    <3>2. Assignments(j)[j.step] = <<"next", j.prev, j.next>>
      BY <1>4, <2>1
    <3> QED
      BY <3>1, <3>2, WriteNext DEF N1
  <2>2. CASE j.step = 2
    <3>1. /\ links = [ next |-> N1, prev |-> b.prev ]
          /\ Written(j, j.step + 1) = [ next |-> N1, prev |-> P1 ]
      BY <1>5, <2>2
    <3>2. Assignments(j)[j.step] = <<"prev", j.next, j.prev>>
      BY <1>4, <2>2
    <3> QED
      BY <3>1, <3>2, WritePrev DEF P1
  <2>3. CASE j.step = 3
    <3>1. /\ links = [ next |-> N1, prev |-> P1 ]
          /\ Written(j, j.step + 1) = [ next |-> N1, prev |-> P2 ]
      BY <1>5, <2>3
    <3>2. Assignments(j)[j.step] = <<"prev", s, NIL>>
      BY <1>4, <2>3
    <3> QED
      BY <3>1, <3>2, WritePrev DEF P2
  <2>4. CASE j.step = 4
    <3>1. /\ links = [ next |-> N1, prev |-> P2 ]
          /\ Written(j, j.step + 1) = [ next |-> N2, prev |-> P2 ]
      BY <1>5, <2>4
    <3>2. links.next = N1
      BY <3>1
    <3>3. links.next[CtrlFree] = f
      BY <1>3, <3>2
    <3>4. Assignments(j)[j.step] = <<"next", s, f>>
      BY <1>4, <2>4, <3>3
    <3> QED
      BY <3>1, <3>4, WriteNext DEF N2
  <2>5. CASE j.step = 5
    <3>1. /\ links = [ next |-> N2, prev |-> P2 ]
          /\ Written(j, j.step + 1) = [ next |-> N3, prev |-> P2 ]
      BY <1>5, <2>5
    <3>2. Assignments(j)[j.step] = <<"next", CtrlFree, s>>
      BY <1>4, <2>5
    <3> QED
      BY <3>1, <3>2, WriteNext DEF N3
  <2> QED
    BY <1>1, <2>1, <2>2, <2>3, <2>4, <2>5
<1> HIDE DEF b, s, f, N1, N2, N3, P1, P2
<1>8. Len(Assignments(j)) = Length(j)
  BY <1>1, <1>4
<1>9. Written(j, Length(j) + 1) = Whole(j)
  <2>1. Length(j) + 1 = 6
    BY <1>1
  <2> QED
    BY <1>5, <1>6, <2>1
<1> QED
  BY <1>7, <1>8, <1>9

(* The whole operations keep the lists whole.                              *)
LEMMA WholeKeeps ==
  ASSUME NEW j, Begun(j)
  PROVE  LinksOK(Whole(j))
<1>1. LinksOK(j.before) /\ j.op \in {"add", "touch", "del"}
  BY JobFacts DEF Begun
<1>2. CASE j.op = "add"
  <2>1. j.before.next[CtrlFree] # NIL
    BY <1>2, SlotFacts DEF Begun, Jobs
  <2> QED
    BY <1>1, <1>2, <2>1, AddKeeps DEF Whole
<1>3. CASE j.op = "touch"
  BY <1>1, <1>3, TouchKeeps DEF Whole, Begun
<1>4. CASE j.op = "del"
  BY <1>1, <1>4, DelKeeps DEF Whole, Begun
<1> QED
  BY <1>1, <1>2, <1>3, <1>4

(* No assignment puts anything but slots into the links.                   *)
LEMMA WrittenLinks ==
  ASSUME NEW j, Begun(j), NEW n
  PROVE  Written(j, n) \in Links
<1> DEFINE b == j.before
           D == Slots \cup {NIL}
<1>1. /\ b.next \in [Slots -> D] /\ b.prev \in [Slots -> D]
      /\ j.s \in Slots /\ j.next \in D /\ j.prev \in D
      /\ CtrlHdr \in Slots /\ CtrlFree \in Slots /\ NIL \in D
  BY SlotFacts DEF Begun, Jobs, LinksOK, Links
<1>2. FirstBut(b, j.s) \in D /\ b.next[CtrlHdr] \in D /\ b.next[CtrlFree] \in D
  BY <1>1 DEF FirstBut
<1>3. ASSUME NEW f \in [Slots -> D], NEW made, NEW x, NEW v \in D
      PROVE  After(f, made, x, v) \in [Slots -> D]
  BY <1>3 DEF After
<1>4. ASSUME NEW f \in [Slots -> D], NEW g \in [Slots -> D]
      PROVE  [ next |-> f, prev |-> g ] \in Links
  BY DEF Links
<1>5. j.op \in {"add", "touch", "del"} /\ j.s \in D /\ CtrlHdr \in D
  BY <1>1, JobFacts DEF Begun
<1> HIDE DEF b, D
<1>6. CASE j.op = "add"
  BY <1>1, <1>2, <1>3, <1>4, <1>5, <1>6 DEF Written, b
<1>7. CASE j.op = "touch"
  BY <1>1, <1>2, <1>3, <1>4, <1>5, <1>7 DEF Written, b
<1>8. CASE j.op = "del"
  BY <1>1, <1>2, <1>3, <1>4, <1>5, <1>8 DEF Written, b
<1> QED
  BY <1>5, <1>6, <1>7, <1>8

(* One assignment of the process that is working, whatever its operation.  *)
LEMMA AssignStep ==
  ASSUME NEW p \in Procs, RegionInv, Assign(p)
  PROVE  /\ at[p] = "working" /\ Begun(job[p]) /\ links' \in Links
         /\ links' = Written(job[p], job[p].step + 1)
         /\ \/ /\ job[p].step < Length(job[p])
               /\ job' = [ job EXCEPT ![p] = [ job[p] EXCEPT !.step = @ + 1 ] ]
               /\ at' = at
            \/ /\ job[p].step = Length(job[p])
               /\ job' = [ job EXCEPT ![p] = NoJob ]
               /\ at' = [ at EXCEPT ![p] = "done" ]
               /\ links' = Whole(job[p]) /\ LinksOK(links')
<1> DEFINE j == job[p]
           a == Assignments(j)[j.step]
<1>1. at[p] = "working" /\ Begun(j) /\ links = Written(j, j.step)
  BY DEF RegionInv, Assign
<1>2. /\ Len(Assignments(j)) = Length(j)
      /\ Write(links, a) = Written(j, j.step + 1)
      /\ Written(j, Length(j) + 1) = Whole(j)
  BY <1>1, JobFacts, AddStep, TouchStep, DelStep DEF Begun
<1>3. links' = Write(links, a)
  BY DEF Assign, Write
<1>4. LinksOK(Whole(j))
  BY <1>1, WholeKeeps
<1>5. j.step <= Length(j) /\ j.step \in Int /\ Length(j) \in Int
  BY <1>1 DEF Begun, Jobs, Length
<1>6. links' \in Links
  <2>1. links' = Written(j, j.step + 1)
    BY <1>2, <1>3
  <2> QED
    BY <1>1, <2>1, WrittenLinks
<1>7. at' = [ at EXCEPT ![p] = IF j.step = Length(j) THEN "done" ELSE at[p] ]
  BY <1>2 DEF Assign
<1>8. job' = [ job EXCEPT ![p] = IF j.step = Length(j) THEN NoJob
                                 ELSE [ j EXCEPT !.step = @ + 1 ] ]
  BY <1>2 DEF Assign
<1>9. at = [ at EXCEPT ![p] = at[p] ]
  BY DEF RegionInv, TypeOK
<1>10. CASE j.step < Length(j)
  <2>1. j.step # Length(j)
    BY <1>5, <1>10
  <2> HIDE DEF a
  <2> QED
    BY <1>1, <1>2, <1>3, <1>6, <1>7, <1>8, <1>9, <1>10, <2>1
<1>11. CASE j.step = Length(j)
  <2>1. links' = Whole(j)
    BY <1>2, <1>3, <1>11
  <2> HIDE DEF a
  <2> QED
    BY <1>1, <1>2, <1>3, <1>4, <1>6, <1>7, <1>8, <1>11, <2>1
<1> QED
  BY <1>5, <1>10, <1>11

-----------------------------------------------------------------------------
(* The constructor leaves whole lists, and nobody is inside.               *)
LEMMA RegionInit == Init => RegionInv
<1> SUFFICES ASSUME Init PROVE RegionInv
  OBVIOUS
<1>1. LinksOK(links)
  BY SetupKeeps DEF Init
<1>2. TypeOK
  BY <1>1 DEF Init, TypeOK, LinksOK, Inside
<1> QED
  BY <1>1, <1>2, ExclusionInit DEF Init, RegionInv, WholeListsInside

(* A step that leaves the links alone and takes nobody into an operation.  *)
LEMMA Outside ==
  ASSUME RegionInv, Exclusion', TypeOK', links' = links,
         \A p \in Procs : at'[p] = "working" => at[p] = "working" /\ job'[p] = job[p],
         \A p \in Procs : at'[p] \in {"in", "done"} =>
                           at[p] \in {"in", "done"} \/ mutex # "held",
         mutex' # "held" => mutex # "held" \/ \E p \in Procs : at[p] \in {"in", "done"}
  PROVE  RegionInv'
<1>1. WholeListsInside'
  BY DEF RegionInv, WholeListsInside
<1>2. (mutex # "held" => LinksOK(links))'
  BY DEF RegionInv, WholeListsInside
<1>3. (\A p \in Procs :
         at[p] = "working" => Begun(job[p]) /\ links = Written(job[p], job[p].step))'
  <2> SUFFICES ASSUME NEW p \in Procs, at'[p] = "working"
               PROVE  Begun(job'[p]) /\ links' = Written(job'[p], job'[p].step)
    OBVIOUS
  <2> QED
    BY DEF RegionInv
<1> QED
  BY <1>1, <1>2, <1>3 DEF RegionInv

(* The operation starts on whole lists, with nothing written.              *)
LEMMA StartStep ==
  ASSUME NEW p \in Procs, RegionInv, Exclusion', AddEl(p) \/ Touch(p) \/ DelEl(p)
  PROVE  RegionInv'
<1>1. PICK op, s :
        /\ Start(p, op, s) /\ op \in {"add", "touch", "del"}
        /\ IF op = "add" THEN links.next[CtrlFree] # NIL /\ s = links.next[CtrlFree]
                         ELSE s \in Allocated(links)
  BY DEF AddEl, Touch, DelEl
<1> DEFINE j == [ op |-> op, s |-> s, step |-> 1, prev |-> links.prev[s],
                  next |-> links.next[s], before |-> links ]
<1>2. /\ at[p] = "in" /\ at' = [ at EXCEPT ![p] = "working" ]
      /\ job' = [ job EXCEPT ![p] = j ]
      /\ UNCHANGED <<links, mutex, attached, status>>
  BY <1>1 DEF Start
<1>3. LinksOK(links) /\ links \in Links /\ mutex = "held" /\ p \in attached
  BY <1>2 DEF RegionInv, WholeListsInside, LinksOK, Exclusion, TypeOK, Inside
<1>4. s \in Elements
  BY <1>1, <1>3, AddKeeps DEF Allocated, FreeOf
<1>5. j \in Jobs
  BY <1>1, <1>3, <1>4, SlotFacts DEF Jobs, Links
<1>6. Begun(j) /\ Written(j, 1) = links
  <2>1. Begun(j)
    BY <1>1, <1>3, <1>5 DEF Begun, Length
  <2>2. links = [ next |-> links.next, prev |-> links.prev ]
    BY <1>3 DEF Links
  <2>3. Written(j, 1) = [ next |-> links.next, prev |-> links.prev ]
    BY <1>1 DEF Written, After
  <2> QED
    BY <2>1, <2>2, <2>3
<1>7. j.step = 1
  OBVIOUS
<1> HIDE DEF j
<1>8. /\ job'[p] = j /\ \A q \in Procs \ {p} : job'[q] = job[q] /\ at'[q] = at[q]
      /\ at'[p] = "working"
  BY <1>2 DEF RegionInv, TypeOK
<1>9. TypeOK'
  <2>1. job' \in [Procs -> Jobs \cup {NoJob}] /\ at' \in [Procs -> {"out", "waiting", "dead"} \cup Inside]
    BY <1>2, <1>5 DEF RegionInv, TypeOK, Inside
  <2>2. j # NoJob
    BY <1>5, JobFacts
  <2> QED
    BY <1>2, <1>3, <1>8, <2>1, <2>2 DEF RegionInv, TypeOK, Inside
<1>10. \A q \in Procs \ {p} : at'[q] \notin Inside
  BY <1>8 DEF Exclusion, OneInside, Inside
<1> QED
  BY <1>2, <1>3, <1>6, <1>7, <1>8, <1>9, <1>10 DEF RegionInv, WholeListsInside, Inside

(* An assignment takes the links to the next stage of the operation, and   *)
(* the last one makes them whole.                                          *)
LEMMA AssignKeeps ==
  ASSUME NEW p \in Procs, RegionInv, Exclusion', Assign(p)
  PROVE  RegionInv'
<1> DEFINE j == job[p]
           k == [ j EXCEPT !.step = @ + 1 ]
<1>1. /\ at[p] = "working" /\ Begun(j) /\ links' \in Links
      /\ links' = Written(j, j.step + 1)
      /\ \/ /\ j.step < Length(j)
            /\ job' = [ job EXCEPT ![p] = k ] /\ at' = at
         \/ /\ job' = [ job EXCEPT ![p] = NoJob ]
            /\ at' = [ at EXCEPT ![p] = "done" ]
            /\ LinksOK(links')
      /\ UNCHANGED <<mutex, attached, status>>
  BY AssignStep DEF Assign
<1>2. /\ mutex = "held" /\ p \in attached
      /\ \A q \in Procs \ {p} : at[q] \notin Inside
  BY <1>1 DEF RegionInv, Exclusion, OneInside, TypeOK, Inside
<1>3. CASE j.step < Length(j) /\ job' = [ job EXCEPT ![p] = k ] /\ at' = at
  <2>1. Begun(k) /\ k.step = j.step + 1 /\ \A n : Written(k, n) = Written(j, n)
    <3>1. Begun(k) /\ k.step = j.step + 1
      BY <1>1, <1>3 DEF Begun, Jobs, Length
    <3>2. /\ k.op = j.op /\ k.s = j.s /\ k.prev = j.prev /\ k.next = j.next
          /\ k.before = j.before
      BY <1>1 DEF Begun, Jobs
    <3> HIDE DEF j, k
    <3> QED
      BY <3>1, <3>2 DEF Written
  <2>2. k \in Jobs /\ k # NoJob
    BY <2>1, JobFacts DEF Begun
  <2> HIDE DEF k
  <2>3. job'[p] = k /\ \A q \in Procs \ {p} : job'[q] = job[q]
    BY <1>3 DEF RegionInv, TypeOK
  <2>4. TypeOK'
    <3>1. job' \in [Procs -> Jobs \cup {NoJob}]
      BY <1>3, <2>2 DEF RegionInv, TypeOK
    <3> QED
      BY <1>1, <1>3, <2>2, <2>3, <3>1 DEF RegionInv, TypeOK
  <2> QED
    BY <1>1, <1>2, <1>3, <2>1, <2>3, <2>4 DEF RegionInv, WholeListsInside, Inside
<1>4. CASE /\ job' = [ job EXCEPT ![p] = NoJob ]
           /\ at' = [ at EXCEPT ![p] = "done" ] /\ LinksOK(links')
  <2>1. /\ job'[p] = NoJob /\ at'[p] = "done"
        /\ \A q \in Procs \ {p} : job'[q] = job[q] /\ at'[q] = at[q]
    BY <1>4 DEF RegionInv, TypeOK
  <2>2. TypeOK'
    <3>1. /\ job' \in [Procs -> Jobs \cup {NoJob}]
          /\ at' \in [Procs -> {"out", "waiting", "dead"} \cup Inside]
      BY <1>4 DEF RegionInv, TypeOK, Inside
    <3> QED
      BY <1>1, <1>2, <2>1, <3>1 DEF RegionInv, TypeOK, Inside
  <2> QED
    BY <1>1, <1>2, <1>4, <2>1, <2>2 DEF RegionInv, WholeListsInside, Inside
<1> QED
  BY <1>1, <1>3, <1>4

(* Only a process that is inside and working changes the links; what the  *)
(* others do keeps them out of its way.                                    *)
LEMMA RegionStep == RegionInv /\ [Next]_vars => RegionInv'
<1> SUFFICES ASSUME RegionInv, [Next]_vars PROVE RegionInv'
  OBVIOUS
<1>1. Exclusion'
  BY ExclusionStep DEF RegionInv
<1>2. TypeOK /\ \A p \in Procs : job[p] # NoJob => at[p] = "working"
  BY DEF RegionInv, TypeOK
<1> USE DEF TypeOK, Inside
<1>3. CASE UNCHANGED vars
  <2>1. TypeOK'
    BY <1>2, <1>3 DEF vars
  <2> QED
    BY <1>1, <1>3, <2>1, Outside DEF vars
<1>4. ASSUME NEW p \in Procs, InitMutex(p) PROVE RegionInv'
  <2>1. TypeOK'
    BY <1>2, <1>4 DEF InitMutex
  <2> QED
    BY <1>1, <1>2, <1>4, <2>1, Outside DEF InitMutex
<1>5. ASSUME NEW p \in Procs, Lock(p) PROVE RegionInv'
  <2>1. TypeOK'
    BY <1>2, <1>5 DEF Lock
  <2> QED
    BY <1>1, <1>2, <1>5, <2>1, Outside DEF Lock
<1>6. ASSUME NEW p \in Procs, Acquire(p) PROVE RegionInv'
  <2>1. TypeOK'
    BY <1>2, <1>6 DEF Acquire
  <2> QED
    BY <1>1, <1>2, <1>6, <2>1, Outside DEF Acquire
<1>7. ASSUME NEW p \in Procs, TryLock(p) PROVE RegionInv'
  <2>1. TypeOK'
    BY <1>2, <1>7 DEF TryLock
  <2> QED
    BY <1>1, <1>2, <1>7, <2>1, Outside DEF TryLock
<1>8. ASSUME NEW p \in Procs, Unlock(p) PROVE RegionInv'
  <2>1. TypeOK'
    BY <1>2, <1>8 DEF Unlock
  <2> QED
    BY <1>1, <1>2, <1>8, <2>1, Outside DEF Unlock
<1>9. ASSUME NEW p \in Procs, CallFails(p) PROVE RegionInv'
  <2>1. TypeOK'
    BY <1>2, <1>9 DEF CallFails
  <2> QED
    BY <1>1, <1>2, <1>9, <2>1, Outside DEF CallFails
<1>10. ASSUME NEW p \in Procs, GetLastMutexReason(p) PROVE RegionInv'
  <2>1. TypeOK'
    BY <1>2, <1>10 DEF GetLastMutexReason
  <2> QED
    BY <1>1, <1>2, <1>10, <2>1, Outside DEF GetLastMutexReason
<1>11. ASSUME NEW p \in Procs, Die(p) PROVE RegionInv'
  <2>1. TypeOK'
    BY <1>2, <1>11 DEF Die
  <2> QED
    BY <1>1, <1>2, <1>11, <2>1, Outside DEF Die
<1>12. ASSUME NEW p \in Procs, Restart(p) PROVE RegionInv'
  <2>1. TypeOK'
    BY <1>2, <1>12 DEF Restart
  <2> QED
    BY <1>1, <1>2, <1>12, <2>1, Outside DEF Restart
<1>13. ASSUME NEW p \in Procs, AddEl(p) \/ Touch(p) \/ DelEl(p) PROVE RegionInv'
  BY <1>1, <1>13, StartStep
<1>14. ASSUME NEW p \in Procs, Assign(p) PROVE RegionInv'
  BY <1>1, <1>14, AssignKeeps
<1> QED
  BY <1>3, <1>4, <1>5, <1>6, <1>7, <1>8, <1>9, <1>10, <1>11, <1>12, <1>13, <1>14 DEF Next

(* The invariant of the locked region.                                     *)
THEOREM RegionAlways == Spec => []RegionInv
BY RegionInit, RegionStep, PTL DEF Spec

(* The types of the mutex, the handles and the jobs, and that a process is *)
(* inside or waiting only with a handle.                                   *)
THEOREM TypesCorrect == Spec => []TypeOK
<1>1. RegionInv => TypeOK
  BY DEF RegionInv
<1> QED
  BY <1>1, RegionAlways, PTL

(* In a region of any size, whichever processes die wherever they are, a   *)
(* process that has been let in never sees lists that another one has left *)
(* half done.                                                              *)
THEOREM NeverHalfDone == Spec => []WholeListsInside
<1>1. RegionInv => WholeListsInside
  BY DEF RegionInv
<1> QED
  BY <1>1, RegionAlways, PTL

(* Under the mutex the assignments of add_el, touch and del_el amount to   *)
(* AddLinks, TouchLinks and DelLinks, whatever other processes attempt in  *)
(* between: LRUCache may take each of them for one step.                   *)
THEOREM Atomicity == Spec => OperationsAddUp
<1>1. RegionInv /\ [Next]_vars =>
        [ \A p \in Procs : at[p] = "working" /\ at'[p] = "done" => links' = Whole(job[p]) ]_vars
  <2> SUFFICES ASSUME RegionInv, Next, NEW p \in Procs, at[p] = "working", at'[p] = "done"
               PROVE  links' = Whole(job[p])
    OBVIOUS
  <2> USE DEF RegionInv, TypeOK, Inside
  <2>1. PICK q \in Procs :
          \/ InitMutex(q) \/ Lock(q) \/ Acquire(q) \/ TryLock(q) \/ Unlock(q)
          \/ CallFails(q) \/ GetLastMutexReason(q)
          \/ AddEl(q) \/ Touch(q) \/ DelEl(q) \/ Assign(q) \/ Die(q) \/ Restart(q)
    BY DEF Next
  <2>2. CASE Assign(q)
    <3>1. p = q
      BY <2>2, AssignStep
    <3> QED
      BY <2>2, <3>1, AssignStep
  <2>3. CASE AddEl(q) \/ Touch(q) \/ DelEl(q)
    BY <2>3 DEF AddEl, Touch, DelEl, Start
  <2>4. CASE \/ InitMutex(q) \/ Lock(q) \/ Acquire(q) \/ TryLock(q) \/ Unlock(q)
             \/ CallFails(q) \/ GetLastMutexReason(q) \/ Die(q) \/ Restart(q)
    BY <2>4 DEF InitMutex, Lock, Acquire, TryLock, Unlock, CallFails, GetLastMutexReason,
                Die, Restart
  <2> QED
    BY <2>1, <2>2, <2>3, <2>4
<1> QED
  BY <1>1, RegionAlways, PTL DEF Spec, OperationsAddUp
=============================================================================

----------------------- MODULE GlobalScheduler_proofs -----------------------
(* Proofs about GlobalScheduler, for every number of operations and slots.  *)
EXTENDS GlobalScheduler, FiniteSetTheorems, SequenceTheorems, TLAPS

-----------------------------------------------------------------------------
(* Slots and the count.                                                     *)

Holdings == [Ops -> [Kinds -> 0..Limit]]

\* The slots are finitely many.
LEMMA SlotsFinite ==
  ASSUME NEW h \in Holdings
  PROVE  IsFiniteSet(SlotsOf(h)) /\ Cardinality(SlotsOf(h)) \in Nat
<1>1. IsFiniteSet(Kinds)
  <2>1. Kinds = {"root"} \cup {"extra"} \cup {"lease"}
    BY DEF Kinds
  <2> QED BY <2>1, FS_Singleton, FS_Union
<1>2. IsFiniteSet(Ops \X Kinds)
  BY <1>1, FS_Product, OpsAssumption
<1>3. IsFiniteSet(1..Limit)
  BY FS_Interval, LimitAssumption
<1>4. IsFiniteSet((Ops \X Kinds) \X (1..Limit))
  BY <1>2, <1>3, FS_Product
<1>5. SlotsOf(h) \subseteq (Ops \X Kinds) \X (1..Limit)
  BY DEF SlotsOf
<1> QED BY <1>4, <1>5, FS_Subset, FS_CardinalityType

\* One reservation more of n slots is n slots more.
LEMMA SlotsAdded ==
  ASSUME NEW h \in Holdings, NEW g \in Holdings,
         NEW o \in Ops, NEW k \in Kinds, NEW n \in 0..Limit,
         h[o][k] = 0, g = [h EXCEPT ![o][k] = n]
  PROVE  Cardinality(SlotsOf(g)) = Cardinality(SlotsOf(h)) + n
<1> DEFINE New == {<<o, k>>} \X (1..n)
<1>1. IsFiniteSet(New) /\ Cardinality(New) = n
  <2>1. IsFiniteSet({<<o, k>>}) /\ Cardinality({<<o, k>>}) = 1
    BY FS_Singleton
  <2>2. n \in Int /\ 1 \in Int /\ (IF 1 > n THEN 0 ELSE n - 1 + 1) = n
    BY LimitAssumption
  <2>3. IsFiniteSet(1..n) /\ Cardinality(1..n) = n
    BY <2>2, FS_Interval
  <2>4. IsFiniteSet(New) /\ Cardinality(New) = 1 * n
    BY <2>1, <2>3, FS_Product
  <2> QED BY <2>2, <2>4
<1>2. SlotsOf(h) \cap New = {}
  BY LimitAssumption DEF SlotsOf, Holdings
<1>3. SlotsOf(g) = SlotsOf(h) \cup New
  BY LimitAssumption DEF SlotsOf, Holdings
<1>4. IsFiniteSet(SlotsOf(h)) /\ Cardinality(SlotsOf(h)) \in Nat
  BY SlotsFinite
<1>5. Cardinality(SlotsOf(h) \cap New) = 0
  BY <1>2, FS_EmptySet
<1> HIDE DEF New
<1>6. Cardinality(SlotsOf(g)) = Cardinality(SlotsOf(h)) + Cardinality(New)
                                - Cardinality(SlotsOf(h) \cap New)
  BY <1>1, <1>3, <1>4, FS_Union
<1> QED BY <1>1, <1>4, <1>5, <1>6, LimitAssumption

\* A waiter taken out of the queue leaves a queue of operations.
LEMMA RemoveAtType ==
  ASSUME NEW S, NEW s \in Seq(S), NEW i \in DOMAIN s
  PROVE  RemoveAt(s, i) \in Seq(S)
<1>1. i \in 1..Len(s) /\ Len(s) \in Nat
  OBVIOUS
<1>2. SubSeq(s, 1, i-1) \in Seq(S)
  BY <1>1
<1>3. SubSeq(s, i+1, Len(s)) \in Seq(S)
  BY <1>1
<1> QED BY <1>2, <1>3 DEF RemoveAt

-----------------------------------------------------------------------------
(* The inductive invariant.                                                 *)

Accounted == used = Cardinality(Slots)
IInv == TypeOK /\ ControlInv /\ Accounted

\* The count and the holdings, typed and in step.
CountOK == /\ used \in 0..Limit
           /\ peak \in used..Limit
           /\ owned \in Holdings
           /\ Accounted

\* Taking n idle slots keeps the count in step with the slots.
LEMMA ReserveCounts ==
  ASSUME CountOK, NEW o \in Ops, NEW k \in Kinds, NEW n \in 0..Limit,
         owned[o][k] = 0, used + n <= Limit, Reserve(o, k, n)
  PROVE  CountOK'
<1>1. owned' \in Holdings
  <2>1. n \in 0..Limit /\ owned \in [Ops -> [Kinds -> 0..Limit]]
    BY DEF CountOK, Holdings
  <2>2. owned' = [owned EXCEPT ![o] = [owned[o] EXCEPT ![k] = n]]
    BY <2>1 DEF Reserve
  <2>3. [owned[o] EXCEPT ![k] = n] \in [Kinds -> 0..Limit]
    BY <2>1
  <2> DEFINE h == [owned[o] EXCEPT ![k] = n]
  <2>4. owned' = [owned EXCEPT ![o] = h]
    BY <2>2
  <2>5. h \in [Kinds -> 0..Limit]
    BY <2>3
  <2> HIDE DEF h
  <2> QED BY <2>1, <2>4, <2>5 DEF Holdings
<1>2. Cardinality(SlotsOf(owned')) = Cardinality(SlotsOf(owned)) + n
  <2>1. owned \in Holdings
    BY DEF CountOK
  <2>2. owned' = [owned EXCEPT ![o][k] = n]
    BY DEF Reserve
  <2> QED BY <1>1, <2>1, <2>2, SlotsAdded
<1>3. Slots' = SlotsOf(owned')
  BY DEF Slots, SlotsOf
<1>4. used' \in 0..Limit /\ peak' \in used'..Limit
  BY LimitAssumption DEF CountOK, Reserve, Maximum
<1>5. Accounted'
  BY <1>2, <1>3 DEF CountOK, Accounted, Slots, Reserve
<1> QED BY <1>1, <1>4, <1>5 DEF CountOK

\* Dropping a reservation never takes the count below zero.
LEMMA DropCounts ==
  ASSUME CountOK, NEW o \in Ops, NEW k \in Kinds, Drop(o, k)
  PROVE  CountOK'
<1>1. owned' \in Holdings /\ owned[o][k] \in 0..Limit
  BY LimitAssumption DEF CountOK, Holdings, Drop
<1>2. owned'[o][k] = 0 /\ owned = [owned' EXCEPT ![o][k] = owned[o][k]]
  BY DEF CountOK, Holdings, Drop
<1>3. Cardinality(SlotsOf(owned)) = Cardinality(SlotsOf(owned')) + owned[o][k]
  BY <1>1, <1>2, SlotsAdded DEF CountOK
<1>4. Slots' = SlotsOf(owned') /\ Cardinality(SlotsOf(owned')) \in Nat
  BY <1>1, SlotsFinite DEF Slots, SlotsOf
<1>5. used' = Cardinality(SlotsOf(owned'))
  BY <1>1, <1>3, <1>4, LimitAssumption DEF CountOK, Accounted, Slots, Drop
<1>6. used' \in Nat /\ used' = used - owned[o][k] /\ peak' = peak
  BY <1>4, <1>5 DEF Drop
<1>7. used' \in 0..Limit /\ peak' \in used'..Limit
  BY <1>1, <1>6, LimitAssumption DEF CountOK
<1> QED BY <1>1, <1>4, <1>5, <1>7 DEF CountOK, Accounted

\* A step that touches no reservation keeps the count.
LEMMA SameCounts ==
  ASSUME CountOK, UNCHANGED <<used, peak, owned>>
  PROVE  CountOK'
BY DEF CountOK, Accounted, Slots, SlotsOf

-----------------------------------------------------------------------------
(* Each action keeps the types and what its points imply.                   *)

\* An operation that a step leaves alone stays consistent.
LEMMA OthersConsistent ==
  ASSUME NEW p \in Ops, Consistent(p),
         pc'[p] = pc[p], why'[p] = why[p], owned'[p] = owned[p],
         active'[p] = active[p], child'[p] = child[p], wave'[p] = wave[p],
         idle'[p] = idle[p],
         p \in readers' \cup writers' => p \in readers \cup writers
  PROVE  Consistent(p)'
BY DEF Consistent, HoldsRoot, InLane, Handed

\* The push of a ticket puts an operation that wants a reservation at the end of the queue.
LEMMA EnqueueStep ==
  ASSUME IInv, CountOK', NEW o \in Ops, Enqueue(o)
  PROVE  TypeOK' /\ ControlInv'
<1>1. TypeOK'
  <2>1. pc' \in [Ops -> Points]
    BY DEF Enqueue, Goto, Points, IInv, TypeOK
  <2>2. queue' \in Seq(Ops) /\ aged' \in BOOLEAN
    BY DEF Enqueue, IInv, TypeOK
  <2>3. UNCHANGED <<why, cancelled, active, child, wave, idle, readers, writers, budget>>
    BY DEF Enqueue, admission, guards
  <2> QED BY <2>1, <2>2, <2>3 DEF IInv, TypeOK, CountOK, Holdings
<1>2. Consistent(o)'
  <2>1. Consistent(o)
    BY DEF IInv, ControlInv
  <2> QED BY <2>1, LimitAssumption DEF Enqueue, Goto, admission, guards, IInv, TypeOK, Consistent, HoldsRoot, InLane, Handed, Kinds
<1>3. ASSUME NEW p \in Ops, p # o
      PROVE  Consistent(p)'
  <2>1. Consistent(p)
    BY DEF IInv, ControlInv
  <2> QED BY <1>3, <2>1, OthersConsistent DEF Enqueue, Goto, admission, guards, IInv, TypeOK
<1> QED BY <1>1, <1>2, <1>3 DEF ControlInv

\* An operation that gives up before it has a ticket reserves nothing.
LEMMA AbortBeforeQueueStep ==
  ASSUME IInv, CountOK', NEW o \in Ops, AbortBeforeQueue(o)
  PROVE  TypeOK' /\ ControlInv'
<1>1. TypeOK'
  <2>1. pc' \in [Ops -> Points]
    BY DEF AbortBeforeQueue, Goto, AbortTo, Points, IInv, TypeOK
  <2>2. UNCHANGED <<why, cancelled, queue, aged, active, child, wave, idle, readers, writers, budget>>
    BY DEF AbortBeforeQueue, admission, guards
  <2> QED BY <2>1, <2>2 DEF IInv, TypeOK, CountOK, Holdings
<1>2. Consistent(o)'
  <2>1. Consistent(o)
    BY DEF IInv, ControlInv
  <2> QED BY <2>1, LimitAssumption DEF AbortBeforeQueue, Goto, admission, guards, Aborted, AbortTo, IInv, TypeOK, Consistent, HoldsRoot, InLane, Handed, Kinds
<1>3. ASSUME NEW p \in Ops, p # o
      PROVE  Consistent(p)'
  <2>1. Consistent(p)
    BY DEF IInv, ControlInv
  <2> QED BY <1>3, <2>1, OthersConsistent DEF AbortBeforeQueue, Goto, admission, guards, Aborted, AbortTo, IInv, TypeOK
<1> QED BY <1>1, <1>2, <1>3 DEF ControlInv

\* The check at the top of the loop lets an operation look at the count.
LEMMA StillWantedStep ==
  ASSUME IInv, CountOK', NEW o \in Ops, StillWanted(o)
  PROVE  TypeOK' /\ ControlInv'
<1>1. TypeOK'
  <2>1. pc' \in [Ops -> Points]
    BY DEF StillWanted, Goto, Points, IInv, TypeOK
  <2>2. UNCHANGED <<why, cancelled, queue, aged, active, child, wave, idle, readers, writers, budget>>
    BY DEF StillWanted, admission, guards
  <2> QED BY <2>1, <2>2 DEF IInv, TypeOK, CountOK, Holdings
<1>2. Consistent(o)'
  <2>1. Consistent(o)
    BY DEF IInv, ControlInv
  <2> QED BY <2>1, LimitAssumption DEF StillWanted, Goto, admission, guards, IInv, TypeOK, Consistent, HoldsRoot, InLane, Handed, Kinds
<1>3. ASSUME NEW p \in Ops, p # o
      PROVE  Consistent(p)'
  <2>1. Consistent(p)
    BY DEF IInv, ControlInv
  <2> QED BY <1>3, <2>1, OthersConsistent DEF StillWanted, Goto, admission, guards, IInv, TypeOK
<1> QED BY <1>1, <1>2, <1>3 DEF ControlInv

\* A waiter that gives up takes its own ticket along and no reservation.
LEMMA AbortWaitingStep ==
  ASSUME IInv, CountOK', NEW o \in Ops, AbortWaiting(o)
  PROVE  TypeOK' /\ ControlInv'
<1>1. TypeOK'
  <2>1. pc' \in [Ops -> Points]
    BY DEF AbortWaiting, Goto, AbortTo, Points, IInv, TypeOK
  <2>2. queue' \in Seq(Ops) /\ aged' \in BOOLEAN
    BY RemoveAtType DEF AbortWaiting, Leave, IInv, TypeOK
  <2>3. UNCHANGED <<why, cancelled, active, child, wave, idle, readers, writers, budget>>
    BY DEF AbortWaiting, admission, guards
  <2> QED BY <2>1, <2>2, <2>3 DEF IInv, TypeOK, CountOK, Holdings
<1>2. Consistent(o)'
  <2>1. Consistent(o)
    BY DEF IInv, ControlInv
  <2> QED BY <2>1, LimitAssumption DEF AbortWaiting, Goto, admission, guards, Aborted, AbortTo, Leave, IInv, TypeOK, Consistent, HoldsRoot, InLane, Handed, Kinds
<1>3. ASSUME NEW p \in Ops, p # o
      PROVE  Consistent(p)'
  <2>1. Consistent(p)
    BY DEF IInv, ControlInv
  <2> QED BY <1>3, <2>1, OthersConsistent DEF AbortWaiting, Goto, admission, guards, Aborted, AbortTo, Leave, IInv, TypeOK
<1> QED BY <1>1, <1>2, <1>3 DEF ControlInv

\* An admission gives the one root slot and goes on where the call was made for.
LEMMA AdmitStep ==
  ASSUME IInv, CountOK', NEW o \in Ops, Admit(o)
  PROVE  TypeOK' /\ ControlInv'
<1>1. TypeOK'
  <2>1. pc' \in [Ops -> Points]
    BY DEF Admit, Goto, AdmitTo, Points, IInv, TypeOK
  <2>2. queue' \in Seq(Ops) /\ aged' \in BOOLEAN
    BY RemoveAtType DEF Admit, Leave, IInv, TypeOK
  <2>3. UNCHANGED <<why, cancelled, active, child, wave, idle, readers, writers, budget>>
    BY DEF Admit, admission, guards
  <2> QED BY <2>1, <2>2, <2>3 DEF IInv, TypeOK, CountOK, Holdings
<1>2. Consistent(o)'
  <2>1. Consistent(o)
    BY DEF IInv, ControlInv
  <2>2. owned'[o]["root"] = (IF HoldsRoot(o)' THEN 1 ELSE 0)
    BY <2>1 DEF Admit, Goto, admission, guards, AdmitTo, Reserve, Leave, IInv, TypeOK, Consistent, HoldsRoot, Kinds
  <2>3. /\ owned'[o]["extra"] > 0 => pc'[o] = "wave"
        /\ owned'[o]["lease"] > 0 => (InLane(o)' \/ Handed(o)') /\ pc'[o] # "lending"
    BY <2>1, LimitAssumption DEF Admit, Goto, admission, guards, AdmitTo, Reserve, Leave, IInv, TypeOK, Consistent, InLane, Handed, Kinds
  <2>4. active'[o] = (IF InLane(o)' THEN 1 ELSE 0) + (IF child'[o] = "running" THEN 1 ELSE 0)
    <3>1. active[o] \in 0..1 /\ active \in [Ops -> 0..1]
      BY DEF IInv, TypeOK
    <3> QED BY <2>1, <3>1 DEF Admit, Goto, admission, guards, AdmitTo, Reserve, Leave, IInv, TypeOK, Consistent, InLane
  <2>5. /\ child'[o] # "none" =>
             /\ "stream" \in Does[o]
             /\ Handed(o)' \/ pc'[o] \in {"running", "wave", "lending"}
        /\ o \in readers' \cup writers' =>
             /\ Does[o] \cap {"read", "write"} # {}
             /\ Handed(o)' \/ pc'[o] \in {"running", "wave", "lending"}
        /\ pc'[o] = "lending" => idle'[o] \in 1..Limit
    BY <2>1 DEF Admit, Goto, admission, guards, AdmitTo, Reserve, Leave, IInv, TypeOK, Consistent, Handed, HoldsRoot
  <2>6. /\ wave'[o].active + wave'[o].left > 0 => pc'[o] = "wave"
        /\ wave'[o].active <= owned'[o]["extra"] + 1
    BY <2>1, LimitAssumption DEF Admit, Goto, admission, guards, AdmitTo, Reserve, Leave, IInv, TypeOK, Consistent, Kinds, CountOK, Holdings
  <2> QED BY <2>2, <2>3, <2>4, <2>5, <2>6 DEF Consistent
<1>3. ASSUME NEW p \in Ops, p # o
      PROVE  Consistent(p)'
  <2>1. Consistent(p)
    BY DEF IInv, ControlInv
  <2> QED BY <1>3, <2>1, OthersConsistent DEF Admit, Goto, admission, guards, AdmitTo, Reserve, Leave, IInv, TypeOK
<1> QED BY <1>1, <1>2, <1>3 DEF ControlInv

\* A waiter that was not next keeps its ticket and its place.
LEMMA PollAgainStep ==
  ASSUME IInv, CountOK', NEW o \in Ops, PollAgain(o)
  PROVE  TypeOK' /\ ControlInv'
<1>1. TypeOK'
  <2>1. pc' \in [Ops -> Points]
    BY DEF PollAgain, Goto, Points, IInv, TypeOK
  <2>2. UNCHANGED <<why, cancelled, queue, aged, active, child, wave, idle, readers, writers, budget>>
    BY DEF PollAgain, admission, guards
  <2> QED BY <2>1, <2>2 DEF IInv, TypeOK, CountOK, Holdings
<1>2. Consistent(o)'
  <2>1. Consistent(o)
    BY DEF IInv, ControlInv
  <2> QED BY <2>1, LimitAssumption DEF PollAgain, Goto, admission, guards, IInv, TypeOK, Consistent, HoldsRoot, InLane, Handed, Kinds
<1>3. ASSUME NEW p \in Ops, p # o
      PROVE  Consistent(p)'
  <2>1. Consistent(p)
    BY DEF IInv, ControlInv
  <2> QED BY <1>3, <2>1, OthersConsistent DEF PollAgain, Goto, admission, guards, IInv, TypeOK
<1> QED BY <1>1, <1>2, <1>3 DEF ControlInv

\* A new operation begins with no slot, no lane, no child and no guard.
LEMMA SubmitStep ==
  ASSUME IInv, CountOK', NEW o \in Ops, Submit(o)
  PROVE  TypeOK' /\ ControlInv'
<1>1. TypeOK'
  <2>1. pc' \in [Ops -> Points]
    BY DEF Submit, Goto, Points, IInv, TypeOK
  <2>2. why' \in [Ops -> Calls]
    BY DEF Submit, Calls, IInv, TypeOK
  <2>3. cancelled' \in [Ops -> BOOLEAN]
    BY DEF Submit, IInv, TypeOK
  <2>4. budget' \in [Ops -> Nat]
    BY BoundAssumption DEF Submit, IInv, TypeOK
  <2>5. UNCHANGED <<queue, aged, active, child, wave, idle, readers, writers>>
    BY DEF Submit, admission, guards
  <2> QED BY <2>1, <2>2, <2>3, <2>4, <2>5 DEF IInv, TypeOK, CountOK, Holdings
<1>2. Consistent(o)'
  <2>1. Consistent(o)
    BY DEF IInv, ControlInv
  <2> QED BY <2>1, LimitAssumption DEF Submit, Goto, admission, guards, IInv, TypeOK, Consistent, HoldsRoot, InLane, Handed, Kinds
<1>3. ASSUME NEW p \in Ops, p # o
      PROVE  Consistent(p)'
  <2>1. Consistent(p)
    BY DEF IInv, ControlInv
  <2> QED BY <1>3, <2>1, OthersConsistent DEF Submit, Goto, admission, guards, IInv, TypeOK
<1> QED BY <1>1, <1>2, <1>3 DEF ControlInv

\* The cancellation flag alone changes nothing of what an operation has.
LEMMA CancelStep ==
  ASSUME IInv, CountOK', NEW o \in Ops, Cancel(o)
  PROVE  TypeOK' /\ ControlInv'
<1>1. TypeOK'
  <2>1. cancelled' \in [Ops -> BOOLEAN]
    BY DEF Cancel, IInv, TypeOK
  <2>2. UNCHANGED <<pc, why, queue, aged, active, child, wave, idle, readers, writers, budget>>
    BY DEF Cancel, admission, guards
  <2> QED BY <2>1, <2>2 DEF IInv, TypeOK, CountOK, Holdings
<1>2. Consistent(o)'
  <2>1. Consistent(o)
    BY DEF IInv, ControlInv
  <2> QED BY <2>1, LimitAssumption DEF Cancel, Goto, admission, guards, IInv, TypeOK, Consistent, HoldsRoot, InLane, Handed, Kinds
<1>3. ASSUME NEW p \in Ops, p # o
      PROVE  Consistent(p)'
  <2>1. Consistent(p)
    BY DEF IInv, ControlInv
  <2> QED BY <1>3, <2>1, OthersConsistent DEF Cancel, Goto, admission, guards, IInv, TypeOK
<1> QED BY <1>1, <1>2, <1>3 DEF ControlInv

\* Only an admitted operation takes the root lane of its group, and finds it free.
LEMMA EnterLaneStep ==
  ASSUME IInv, CountOK', NEW o \in Ops, EnterLane(o)
  PROVE  TypeOK' /\ ControlInv'
<1>1. TypeOK'
  <2>1. pc' \in [Ops -> Points]
    BY DEF EnterLane, Goto, Points, IInv, TypeOK
  <2>2. active' \in [Ops -> 0..1]
    <3>1. active[o] \in 0..1 /\ active \in [Ops -> 0..1]
      BY DEF IInv, TypeOK
    <3>2. active'[o] \in 0..1 /\ active' = [active EXCEPT ![o] = active'[o]]
      BY <3>1 DEF EnterLane, TakeLane, LaneFree, Goto, IInv, ControlInv, Consistent, InLane
    <3> QED BY <3>1, <3>2
  <2>3. UNCHANGED <<why, cancelled, queue, aged, child, wave, idle, readers, writers, budget>>
    BY DEF EnterLane, admission, guards
  <2> QED BY <2>1, <2>2, <2>3 DEF IInv, TypeOK, CountOK, Holdings
<1>2. Consistent(o)'
  <2>1. Consistent(o)
    BY DEF IInv, ControlInv
  <2> QED BY <2>1, LimitAssumption DEF EnterLane, Goto, admission, guards, LaneFree, TakeLane, IInv, TypeOK, Consistent, HoldsRoot, InLane, Handed, Kinds
<1>3. ASSUME NEW p \in Ops, p # o
      PROVE  Consistent(p)'
  <2>1. Consistent(p)
    BY DEF IInv, ControlInv
  <2> QED BY <1>3, <2>1, OthersConsistent DEF EnterLane, Goto, admission, guards, LaneFree, TakeLane, IInv, TypeOK
<1> QED BY <1>1, <1>2, <1>3 DEF ControlInv

\* An operation refused at its lane drops the slot it was admitted with.
LEMMA LaneRefusedStep ==
  ASSUME IInv, CountOK', NEW o \in Ops, LaneRefused(o)
  PROVE  TypeOK' /\ ControlInv'
<1>1. TypeOK'
  <2>1. pc' \in [Ops -> Points]
    BY DEF LaneRefused, Goto, Points, IInv, TypeOK
  <2>2. UNCHANGED <<why, cancelled, queue, aged, active, child, wave, idle, readers, writers, budget>>
    BY DEF LaneRefused, admission, guards
  <2> QED BY <2>1, <2>2 DEF IInv, TypeOK, CountOK, Holdings
<1>2. Consistent(o)'
  <2>1. Consistent(o)
    BY DEF IInv, ControlInv
  <2>2. owned'[o]["root"] = (IF HoldsRoot(o)' THEN 1 ELSE 0)
    BY <2>1 DEF LaneRefused, Goto, admission, guards, Drop, IInv, TypeOK, Consistent, HoldsRoot, Kinds
  <2>3. /\ owned'[o]["extra"] > 0 => pc'[o] = "wave"
        /\ owned'[o]["lease"] > 0 => (InLane(o)' \/ Handed(o)') /\ pc'[o] # "lending"
    BY <2>1, LimitAssumption DEF LaneRefused, Goto, admission, guards, Drop, IInv, TypeOK, Consistent, InLane, Handed, Kinds
  <2>4. active'[o] = (IF InLane(o)' THEN 1 ELSE 0) + (IF child'[o] = "running" THEN 1 ELSE 0)
    <3>1. active[o] \in 0..1 /\ active \in [Ops -> 0..1]
      BY DEF IInv, TypeOK
    <3> QED BY <2>1, <3>1 DEF LaneRefused, Goto, admission, guards, Drop, IInv, TypeOK, Consistent, InLane
  <2>5. /\ child'[o] # "none" =>
             /\ "stream" \in Does[o]
             /\ Handed(o)' \/ pc'[o] \in {"running", "wave", "lending"}
        /\ o \in readers' \cup writers' =>
             /\ Does[o] \cap {"read", "write"} # {}
             /\ Handed(o)' \/ pc'[o] \in {"running", "wave", "lending"}
        /\ pc'[o] = "lending" => idle'[o] \in 1..Limit
    BY <2>1 DEF LaneRefused, Goto, admission, guards, Drop, IInv, TypeOK, Consistent, Handed, HoldsRoot
  <2>6. /\ wave'[o].active + wave'[o].left > 0 => pc'[o] = "wave"
        /\ wave'[o].active <= owned'[o]["extra"] + 1
    BY <2>1, LimitAssumption DEF LaneRefused, Goto, admission, guards, Drop, IInv, TypeOK, Consistent, Kinds
  <2> QED BY <2>2, <2>3, <2>4, <2>5, <2>6 DEF Consistent
<1>3. ASSUME NEW p \in Ops, p # o
      PROVE  Consistent(p)'
  <2>1. Consistent(p)
    BY DEF IInv, ControlInv
  <2> QED BY <1>3, <2>1, OthersConsistent DEF LaneRefused, Goto, admission, guards, Drop, IInv, TypeOK
<1> QED BY <1>1, <1>2, <1>3 DEF ControlInv

\* An operation that ends has left its lane and kept no slot, lease or guard.
LEMMA FinishStep ==
  ASSUME IInv, CountOK', NEW o \in Ops, Finish(o)
  PROVE  TypeOK' /\ ControlInv'
<1>1. TypeOK'
  <2>1. pc' \in [Ops -> Points]
    BY DEF Finish, Goto, Points, IInv, TypeOK
  <2>2. active' \in [Ops -> 0..1]
    <3>1. active[o] \in 0..1 /\ active \in [Ops -> 0..1]
      BY DEF IInv, TypeOK
    <3>2. active'[o] \in 0..1 /\ active' = [active EXCEPT ![o] = active'[o]]
      BY <3>1 DEF Finish, LeaveLane, Goto, IInv, ControlInv, Consistent, InLane
    <3> QED BY <3>1, <3>2
  <2>3. readers' \subseteq Ops /\ writers' \subseteq Ops
    BY DEF Finish, IInv, TypeOK
  <2>4. UNCHANGED <<why, cancelled, queue, aged, child, wave, idle, budget>>
    BY DEF Finish, admission, guards
  <2> QED BY <2>1, <2>2, <2>3, <2>4 DEF IInv, TypeOK, CountOK, Holdings
<1>2. Consistent(o)'
  <2>1. Consistent(o)
    BY DEF IInv, ControlInv
  <2>2. owned'[o]["root"] = (IF HoldsRoot(o)' THEN 1 ELSE 0)
    BY <2>1 DEF Finish, Goto, admission, guards, Drop, LeaveLane, IInv, TypeOK, Consistent, HoldsRoot, Kinds
  <2>3. /\ owned'[o]["extra"] > 0 => pc'[o] = "wave"
        /\ owned'[o]["lease"] > 0 => (InLane(o)' \/ Handed(o)') /\ pc'[o] # "lending"
    BY <2>1, LimitAssumption DEF Finish, Goto, admission, guards, Drop, LeaveLane, IInv, TypeOK, Consistent, InLane, Handed, Kinds
  <2>4. active'[o] = (IF InLane(o)' THEN 1 ELSE 0) + (IF child'[o] = "running" THEN 1 ELSE 0)
    <3>1. active[o] \in 0..1 /\ active \in [Ops -> 0..1]
      BY DEF IInv, TypeOK
    <3> QED BY <2>1, <3>1 DEF Finish, Goto, admission, guards, Drop, LeaveLane, IInv, TypeOK, Consistent, InLane
  <2>5. /\ child'[o] # "none" =>
             /\ "stream" \in Does[o]
             /\ Handed(o)' \/ pc'[o] \in {"running", "wave", "lending"}
        /\ o \in readers' \cup writers' =>
             /\ Does[o] \cap {"read", "write"} # {}
             /\ Handed(o)' \/ pc'[o] \in {"running", "wave", "lending"}
        /\ pc'[o] = "lending" => idle'[o] \in 1..Limit
    BY <2>1 DEF Finish, Goto, admission, guards, Drop, LeaveLane, IInv, TypeOK, Consistent, Handed, HoldsRoot
  <2>6. /\ wave'[o].active + wave'[o].left > 0 => pc'[o] = "wave"
        /\ wave'[o].active <= owned'[o]["extra"] + 1
    BY <2>1, LimitAssumption DEF Finish, Goto, admission, guards, Drop, LeaveLane, IInv, TypeOK, Consistent, Kinds, CountOK, Holdings
  <2> QED BY <2>2, <2>3, <2>4, <2>5, <2>6 DEF Consistent
<1>3. ASSUME NEW p \in Ops, p # o
      PROVE  Consistent(p)'
  <2>1. Consistent(p)
    BY DEF IInv, ControlInv
  <2> QED BY <1>3, <2>1, OthersConsistent DEF Finish, Goto, admission, guards, Drop, LeaveLane, IInv, TypeOK
<1> QED BY <1>1, <1>2, <1>3 DEF ControlInv

\* A read guard is taken by a running body.
LEMMA TakeReadStep ==
  ASSUME IInv, CountOK', NEW o \in Ops, TakeRead(o)
  PROVE  TypeOK' /\ ControlInv'
<1>1. TypeOK'
  <2>1. readers' \subseteq Ops /\ writers' \subseteq Ops
    BY DEF TakeRead, IInv, TypeOK
  <2>2. UNCHANGED <<pc, why, cancelled, queue, aged, active, child, wave, idle, budget>>
    BY DEF TakeRead, admission, guards
  <2> QED BY <2>1, <2>2 DEF IInv, TypeOK, CountOK, Holdings
<1>2. Consistent(o)'
  <2>1. Consistent(o)
    BY DEF IInv, ControlInv
  <2> QED BY <2>1, LimitAssumption DEF TakeRead, Goto, admission, guards, IInv, TypeOK, Consistent, HoldsRoot, InLane, Handed, Kinds
<1>3. ASSUME NEW p \in Ops, p # o
      PROVE  Consistent(p)'
  <2>1. Consistent(p)
    BY DEF IInv, ControlInv
  <2> QED BY <1>3, <2>1, OthersConsistent DEF TakeRead, Goto, admission, guards, IInv, TypeOK
<1> QED BY <1>1, <1>2, <1>3 DEF ControlInv

\* The write guard is taken by a running body, alone.
LEMMA TakeWriteStep ==
  ASSUME IInv, CountOK', NEW o \in Ops, TakeWrite(o)
  PROVE  TypeOK' /\ ControlInv'
<1>1. TypeOK'
  <2>1. readers' \subseteq Ops /\ writers' \subseteq Ops
    BY DEF TakeWrite, IInv, TypeOK
  <2>2. UNCHANGED <<pc, why, cancelled, queue, aged, active, child, wave, idle, budget>>
    BY DEF TakeWrite, admission, guards
  <2> QED BY <2>1, <2>2 DEF IInv, TypeOK, CountOK, Holdings
<1>2. Consistent(o)'
  <2>1. Consistent(o)
    BY DEF IInv, ControlInv
  <2> QED BY <2>1, LimitAssumption DEF TakeWrite, Goto, admission, guards, IInv, TypeOK, Consistent, HoldsRoot, InLane, Handed, Kinds
<1>3. ASSUME NEW p \in Ops, p # o
      PROVE  Consistent(p)'
  <2>1. Consistent(p)
    BY DEF IInv, ControlInv
  <2> QED BY <1>3, <2>1, OthersConsistent DEF TakeWrite, Goto, admission, guards, IInv, TypeOK
<1> QED BY <1>1, <1>2, <1>3 DEF ControlInv

\* A body has one streaming child at a time, which waits for the lane.
LEMMA SpawnStep ==
  ASSUME IInv, CountOK', NEW o \in Ops, Spawn(o)
  PROVE  TypeOK' /\ ControlInv'
<1>1. TypeOK'
  <2>1. child' \in [Ops -> {"none", "entering", "running", "done"}]
    BY DEF Spawn, IInv, TypeOK
  <2>2. budget' \in [Ops -> Nat]
    BY DEF Spawn, Spend, IInv, TypeOK
  <2>3. UNCHANGED <<pc, why, cancelled, queue, aged, active, wave, idle, readers, writers>>
    BY DEF Spawn, admission, guards
  <2> QED BY <2>1, <2>2, <2>3 DEF IInv, TypeOK, CountOK, Holdings
<1>2. Consistent(o)'
  <2>1. Consistent(o)
    BY DEF IInv, ControlInv
  <2> QED BY <2>1, LimitAssumption DEF Spawn, Goto, admission, guards, Spend, IInv, TypeOK, Consistent, HoldsRoot, InLane, Handed, Kinds
<1>3. ASSUME NEW p \in Ops, p # o
      PROVE  Consistent(p)'
  <2>1. Consistent(p)
    BY DEF IInv, ControlInv
  <2> QED BY <1>3, <2>1, OthersConsistent DEF Spawn, Goto, admission, guards, Spend, IInv, TypeOK
<1> QED BY <1>1, <1>2, <1>3 DEF ControlInv

\* A child enters the lane its parent has handed over.
LEMMA ChildEnterStep ==
  ASSUME IInv, CountOK', NEW o \in Ops, ChildEnter(o)
  PROVE  TypeOK' /\ ControlInv'
<1>1. TypeOK'
  <2>1. child' \in [Ops -> {"none", "entering", "running", "done"}]
    BY DEF ChildEnter, IInv, TypeOK
  <2>2. active' \in [Ops -> 0..1]
    <3>1. active[o] \in 0..1 /\ active \in [Ops -> 0..1]
      BY DEF IInv, TypeOK
    <3>2. active'[o] \in 0..1 /\ active' = [active EXCEPT ![o] = active'[o]]
      BY <3>1 DEF ChildEnter, TakeLane, LaneFree, Goto, IInv, ControlInv, Consistent, InLane
    <3> QED BY <3>1, <3>2
  <2>3. UNCHANGED <<pc, why, cancelled, queue, aged, wave, idle, readers, writers, budget>>
    BY DEF ChildEnter, admission, guards
  <2> QED BY <2>1, <2>2, <2>3 DEF IInv, TypeOK, CountOK, Holdings
<1>2. Consistent(o)'
  <2>1. Consistent(o)
    BY DEF IInv, ControlInv
  <2> QED BY <2>1, LimitAssumption DEF ChildEnter, Goto, admission, guards, LaneFree, TakeLane, IInv, TypeOK, Consistent, HoldsRoot, InLane, Handed, Kinds
<1>3. ASSUME NEW p \in Ops, p # o
      PROVE  Consistent(p)'
  <2>1. Consistent(p)
    BY DEF IInv, ControlInv
  <2> QED BY <1>3, <2>1, OthersConsistent DEF ChildEnter, Goto, admission, guards, LaneFree, TakeLane, IInv, TypeOK
<1> QED BY <1>1, <1>2, <1>3 DEF ControlInv

\* A child refused at the lane is done and never had it.
LEMMA ChildRefusedStep ==
  ASSUME IInv, CountOK', NEW o \in Ops, ChildRefused(o)
  PROVE  TypeOK' /\ ControlInv'
<1>1. TypeOK'
  <2>1. child' \in [Ops -> {"none", "entering", "running", "done"}]
    BY DEF ChildRefused, IInv, TypeOK
  <2>2. UNCHANGED <<pc, why, cancelled, queue, aged, active, wave, idle, readers, writers, budget>>
    BY DEF ChildRefused, admission, guards
  <2> QED BY <2>1, <2>2 DEF IInv, TypeOK, CountOK, Holdings
<1>2. Consistent(o)'
  <2>1. Consistent(o)
    BY DEF IInv, ControlInv
  <2> QED BY <2>1, LimitAssumption DEF ChildRefused, Goto, admission, guards, IInv, TypeOK, Consistent, HoldsRoot, InLane, Handed, Kinds
<1>3. ASSUME NEW p \in Ops, p # o
      PROVE  Consistent(p)'
  <2>1. Consistent(p)
    BY DEF IInv, ControlInv
  <2> QED BY <1>3, <2>1, OthersConsistent DEF ChildRefused, Goto, admission, guards, IInv, TypeOK
<1> QED BY <1>1, <1>2, <1>3 DEF ControlInv

\* A child that ends gives the lane back.
LEMMA ChildDoneStep ==
  ASSUME IInv, CountOK', NEW o \in Ops, ChildDone(o)
  PROVE  TypeOK' /\ ControlInv'
<1>1. TypeOK'
  <2>1. child' \in [Ops -> {"none", "entering", "running", "done"}]
    BY DEF ChildDone, IInv, TypeOK
  <2>2. active' \in [Ops -> 0..1]
    <3>1. active[o] \in 0..1 /\ active \in [Ops -> 0..1]
      BY DEF IInv, TypeOK
    <3>2. active'[o] \in 0..1 /\ active' = [active EXCEPT ![o] = active'[o]]
      BY <3>1 DEF ChildDone, LeaveLane, Goto, IInv, ControlInv, Consistent, InLane
    <3> QED BY <3>1, <3>2
  <2>3. UNCHANGED <<pc, why, cancelled, queue, aged, wave, idle, readers, writers, budget>>
    BY DEF ChildDone, admission, guards
  <2> QED BY <2>1, <2>2, <2>3 DEF IInv, TypeOK, CountOK, Holdings
<1>2. Consistent(o)'
  <2>1. Consistent(o)
    BY DEF IInv, ControlInv
  <2>2. owned'[o]["root"] = (IF HoldsRoot(o)' THEN 1 ELSE 0)
    BY <2>1 DEF ChildDone, Goto, admission, guards, LeaveLane, IInv, TypeOK, Consistent, HoldsRoot, Kinds
  <2>3. /\ owned'[o]["extra"] > 0 => pc'[o] = "wave"
        /\ owned'[o]["lease"] > 0 => (InLane(o)' \/ Handed(o)') /\ pc'[o] # "lending"
    BY <2>1, LimitAssumption DEF ChildDone, Goto, admission, guards, LeaveLane, IInv, TypeOK, Consistent, InLane, Handed, Kinds
  <2>4. active'[o] = (IF InLane(o)' THEN 1 ELSE 0) + (IF child'[o] = "running" THEN 1 ELSE 0)
    <3>1. active[o] \in 0..1 /\ active \in [Ops -> 0..1]
      BY DEF IInv, TypeOK
    <3> QED BY <2>1, <3>1 DEF ChildDone, Goto, admission, guards, LeaveLane, IInv, TypeOK, Consistent, InLane
  <2>5. /\ child'[o] # "none" =>
             /\ "stream" \in Does[o]
             /\ Handed(o)' \/ pc'[o] \in {"running", "wave", "lending"}
        /\ o \in readers' \cup writers' =>
             /\ Does[o] \cap {"read", "write"} # {}
             /\ Handed(o)' \/ pc'[o] \in {"running", "wave", "lending"}
        /\ pc'[o] = "lending" => idle'[o] \in 1..Limit
    BY <2>1 DEF ChildDone, Goto, admission, guards, LeaveLane, IInv, TypeOK, Consistent, Handed, HoldsRoot
  <2>6. /\ wave'[o].active + wave'[o].left > 0 => pc'[o] = "wave"
        /\ wave'[o].active <= owned'[o]["extra"] + 1
    BY <2>1, LimitAssumption DEF ChildDone, Goto, admission, guards, LeaveLane, IInv, TypeOK, Consistent, Kinds
  <2> QED BY <2>2, <2>3, <2>4, <2>5, <2>6 DEF Consistent
<1>3. ASSUME NEW p \in Ops, p # o
      PROVE  Consistent(p)'
  <2>1. Consistent(p)
    BY DEF IInv, ControlInv
  <2> QED BY <1>3, <2>1, OthersConsistent DEF ChildDone, Goto, admission, guards, LeaveLane, IInv, TypeOK
<1> QED BY <1>1, <1>2, <1>3 DEF ControlInv

\* A body that waits for its child hands the lane over and keeps its slot.
LEMMA HandOffStep ==
  ASSUME IInv, CountOK', NEW o \in Ops, HandOff(o)
  PROVE  TypeOK' /\ ControlInv'
<1>1. TypeOK'
  <2>1. pc' \in [Ops -> Points]
    BY DEF HandOff, Goto, Points, IInv, TypeOK
  <2>2. active' \in [Ops -> 0..1]
    <3>1. active[o] \in 0..1 /\ active \in [Ops -> 0..1]
      BY DEF IInv, TypeOK
    <3>2. active'[o] \in 0..1 /\ active' = [active EXCEPT ![o] = active'[o]]
      BY <3>1 DEF HandOff, LeaveLane, Goto, IInv, ControlInv, Consistent, InLane
    <3> QED BY <3>1, <3>2
  <2>3. UNCHANGED <<why, cancelled, queue, aged, child, wave, idle, readers, writers, budget>>
    BY DEF HandOff, admission, guards
  <2> QED BY <2>1, <2>2, <2>3 DEF IInv, TypeOK, CountOK, Holdings
<1>2. Consistent(o)'
  <2>1. Consistent(o)
    BY DEF IInv, ControlInv
  <2> QED BY <2>1, LimitAssumption DEF HandOff, Goto, admission, guards, LeaveLane, IInv, TypeOK, Consistent, HoldsRoot, InLane, Handed, Kinds
<1>3. ASSUME NEW p \in Ops, p # o
      PROVE  Consistent(p)'
  <2>1. Consistent(p)
    BY DEF IInv, ControlInv
  <2> QED BY <1>3, <2>1, OthersConsistent DEF HandOff, Goto, admission, guards, LeaveLane, IInv, TypeOK
<1> QED BY <1>1, <1>2, <1>3 DEF ControlInv

\* A body waits for the lane again only once its child is done.
LEMMA JoinedStep ==
  ASSUME IInv, CountOK', NEW o \in Ops, Joined(o)
  PROVE  TypeOK' /\ ControlInv'
<1>1. TypeOK'
  <2>1. pc' \in [Ops -> Points]
    BY DEF Joined, Goto, Points, IInv, TypeOK
  <2>2. child' \in [Ops -> {"none", "entering", "running", "done"}]
    BY DEF Joined, IInv, TypeOK
  <2>3. UNCHANGED <<why, cancelled, queue, aged, active, wave, idle, readers, writers, budget>>
    BY DEF Joined, admission, guards
  <2> QED BY <2>1, <2>2, <2>3 DEF IInv, TypeOK, CountOK, Holdings
<1>2. Consistent(o)'
  <2>1. Consistent(o)
    BY DEF IInv, ControlInv
  <2> QED BY <2>1, LimitAssumption DEF Joined, Goto, admission, guards, IInv, TypeOK, Consistent, HoldsRoot, InLane, Handed, Kinds
<1>3. ASSUME NEW p \in Ops, p # o
      PROVE  Consistent(p)'
  <2>1. Consistent(p)
    BY DEF IInv, ControlInv
  <2> QED BY <1>3, <2>1, OthersConsistent DEF Joined, Goto, admission, guards, IInv, TypeOK
<1> QED BY <1>1, <1>2, <1>3 DEF ControlInv

\* A body that resumes has its lane again.
LEMMA ResumeStep ==
  ASSUME IInv, CountOK', NEW o \in Ops, Resume(o)
  PROVE  TypeOK' /\ ControlInv'
<1>1. TypeOK'
  <2>1. pc' \in [Ops -> Points]
    BY DEF Resume, Goto, Points, IInv, TypeOK
  <2>2. active' \in [Ops -> 0..1]
    <3>1. active[o] \in 0..1 /\ active \in [Ops -> 0..1]
      BY DEF IInv, TypeOK
    <3>2. active'[o] \in 0..1 /\ active' = [active EXCEPT ![o] = active'[o]]
      BY <3>1 DEF Resume, TakeLane, LaneFree, Goto, IInv, ControlInv, Consistent, InLane
    <3> QED BY <3>1, <3>2
  <2>3. UNCHANGED <<why, cancelled, queue, aged, child, wave, idle, readers, writers, budget>>
    BY DEF Resume, admission, guards
  <2> QED BY <2>1, <2>2, <2>3 DEF IInv, TypeOK, CountOK, Holdings
<1>2. Consistent(o)'
  <2>1. Consistent(o)
    BY DEF IInv, ControlInv
  <2>2. owned'[o]["root"] = (IF HoldsRoot(o)' THEN 1 ELSE 0)
    BY <2>1 DEF Resume, Goto, admission, guards, LaneFree, TakeLane, IInv, TypeOK, Consistent, HoldsRoot, Kinds
  <2>3. /\ owned'[o]["extra"] > 0 => pc'[o] = "wave"
        /\ owned'[o]["lease"] > 0 => (InLane(o)' \/ Handed(o)') /\ pc'[o] # "lending"
    BY <2>1, LimitAssumption DEF Resume, Goto, admission, guards, LaneFree, TakeLane, IInv, TypeOK, Consistent, InLane, Handed, Kinds
  <2>4. active'[o] = (IF InLane(o)' THEN 1 ELSE 0) + (IF child'[o] = "running" THEN 1 ELSE 0)
    <3>1. active[o] \in 0..1 /\ active \in [Ops -> 0..1]
      BY DEF IInv, TypeOK
    <3> QED BY <2>1, <3>1 DEF Resume, Goto, admission, guards, LaneFree, TakeLane, IInv, TypeOK, Consistent, InLane
  <2>5. /\ child'[o] # "none" =>
             /\ "stream" \in Does[o]
             /\ Handed(o)' \/ pc'[o] \in {"running", "wave", "lending"}
        /\ o \in readers' \cup writers' =>
             /\ Does[o] \cap {"read", "write"} # {}
             /\ Handed(o)' \/ pc'[o] \in {"running", "wave", "lending"}
        /\ pc'[o] = "lending" => idle'[o] \in 1..Limit
    BY <2>1 DEF Resume, Goto, admission, guards, LaneFree, TakeLane, IInv, TypeOK, Consistent, Handed, HoldsRoot
  <2>6. /\ wave'[o].active + wave'[o].left > 0 => pc'[o] = "wave"
        /\ wave'[o].active <= owned'[o]["extra"] + 1
    BY <2>1, LimitAssumption DEF Resume, Goto, admission, guards, LaneFree, TakeLane, IInv, TypeOK, Consistent, Kinds, CountOK, Holdings
  <2> QED BY <2>2, <2>3, <2>4, <2>5, <2>6 DEF Consistent
<1>3. ASSUME NEW p \in Ops, p # o
      PROVE  Consistent(p)'
  <2>1. Consistent(p)
    BY DEF IInv, ControlInv
  <2> QED BY <1>3, <2>1, OthersConsistent DEF Resume, Goto, admission, guards, LaneFree, TakeLane, IInv, TypeOK
<1> QED BY <1>1, <1>2, <1>3 DEF ControlInv

\* A body that waits for unreserved I/O gives its slot back and keeps no guard.
LEMMA IoReleaseStep ==
  ASSUME IInv, CountOK', NEW o \in Ops, IoRelease(o)
  PROVE  TypeOK' /\ ControlInv'
<1>1. TypeOK'
  <2>1. pc' \in [Ops -> Points]
    BY DEF IoRelease, Goto, Points, IInv, TypeOK
  <2>2. budget' \in [Ops -> Nat]
    BY DEF IoRelease, Spend, IInv, TypeOK
  <2>3. UNCHANGED <<why, cancelled, queue, aged, active, child, wave, idle, readers, writers>>
    BY DEF IoRelease, admission, guards
  <2> QED BY <2>1, <2>2, <2>3 DEF IInv, TypeOK, CountOK, Holdings
<1>2. Consistent(o)'
  <2>1. Consistent(o)
    BY DEF IInv, ControlInv
  <2>2. /\ pc[o] = "running" /\ child[o] = "none"
        /\ o \notin readers \cup writers
    BY <2>1, CallersAssumption DEF IoRelease, Goto, Spend, Consistent
  <2> QED BY <2>1, <2>2, LimitAssumption DEF IoRelease, Goto, admission, guards, Spend, Drop, IInv, TypeOK, Consistent, HoldsRoot, InLane, Handed, Kinds
<1>3. ASSUME NEW p \in Ops, p # o
      PROVE  Consistent(p)'
  <2>1. Consistent(p)
    BY DEF IInv, ControlInv
  <2> QED BY <1>3, <2>1, OthersConsistent DEF IoRelease, Goto, admission, guards, Spend, Drop, IInv, TypeOK
<1> QED BY <1>1, <1>2, <1>3 DEF ControlInv

\* After the I/O it asks for a slot again; it had none.
LEMMA IoReturnStep ==
  ASSUME IInv, CountOK', NEW o \in Ops, IoReturn(o)
  PROVE  TypeOK' /\ ControlInv'
<1>1. TypeOK'
  <2>1. pc' \in [Ops -> Points]
    BY DEF IoReturn, Goto, Points, IInv, TypeOK
  <2>2. why' \in [Ops -> Calls]
    BY DEF IoReturn, Calls, IInv, TypeOK
  <2>3. UNCHANGED <<cancelled, queue, aged, active, child, wave, idle, readers, writers, budget>>
    BY DEF IoReturn, admission, guards
  <2> QED BY <2>1, <2>2, <2>3 DEF IInv, TypeOK, CountOK, Holdings
<1>2. Consistent(o)'
  <2>1. Consistent(o)
    BY DEF IInv, ControlInv
  <2> QED BY <2>1, LimitAssumption DEF IoReturn, Goto, admission, guards, IInv, TypeOK, Consistent, HoldsRoot, InLane, Handed, Kinds
<1>3. ASSUME NEW p \in Ops, p # o
      PROVE  Consistent(p)'
  <2>1. Consistent(p)
    BY DEF IInv, ControlInv
  <2> QED BY <1>3, <2>1, OthersConsistent DEF IoReturn, Goto, admission, guards, IInv, TypeOK
<1> QED BY <1>1, <1>2, <1>3 DEF ControlInv

\* A body whose group somebody else holds hands over only the lane for its I/O.
LEMMA IoSharedStep ==
  ASSUME IInv, CountOK', NEW o \in Ops, IoShared(o)
  PROVE  TypeOK' /\ ControlInv'
<1>1. TypeOK'
  <2>1. pc' \in [Ops -> Points]
    BY DEF IoShared, Goto, Points, IInv, TypeOK
  <2>2. budget' \in [Ops -> Nat]
    BY DEF IoShared, Spend, IInv, TypeOK
  <2>3. active' \in [Ops -> 0..1]
    <3>1. active[o] \in 0..1 /\ active \in [Ops -> 0..1]
      BY DEF IInv, TypeOK
    <3>2. active'[o] \in 0..1 /\ active' = [active EXCEPT ![o] = active'[o]]
      BY <3>1 DEF IoShared, LeaveLane, Goto, IInv, ControlInv, Consistent, InLane
    <3> QED BY <3>1, <3>2
  <2>4. UNCHANGED <<why, cancelled, queue, aged, child, wave, idle, readers, writers>>
    BY DEF IoShared, admission, guards
  <2> QED BY <2>1, <2>2, <2>3, <2>4 DEF IInv, TypeOK, CountOK, Holdings
<1>2. Consistent(o)'
  <2>1. Consistent(o)
    BY DEF IInv, ControlInv
  <2> QED BY <2>1, LimitAssumption DEF IoShared, Goto, admission, guards, Spend, LeaveLane, IInv, TypeOK, Consistent, HoldsRoot, InLane, Handed, Kinds
<1>3. ASSUME NEW p \in Ops, p # o
      PROVE  Consistent(p)'
  <2>1. Consistent(p)
    BY DEF IInv, ControlInv
  <2> QED BY <1>3, <2>1, OthersConsistent DEF IoShared, Goto, admission, guards, Spend, LeaveLane, IInv, TypeOK
<1> QED BY <1>1, <1>2, <1>3 DEF ControlInv

\* It then waits for the lane, with the slot it kept.
LEMMA IoSharedReturnStep ==
  ASSUME IInv, CountOK', NEW o \in Ops, IoSharedReturn(o)
  PROVE  TypeOK' /\ ControlInv'
<1>1. TypeOK'
  <2>1. pc' \in [Ops -> Points]
    BY DEF IoSharedReturn, Goto, Points, IInv, TypeOK
  <2>2. UNCHANGED <<why, cancelled, queue, aged, active, child, wave, idle, readers, writers, budget>>
    BY DEF IoSharedReturn, admission, guards
  <2> QED BY <2>1, <2>2 DEF IInv, TypeOK, CountOK, Holdings
<1>2. Consistent(o)'
  <2>1. Consistent(o)
    BY DEF IInv, ControlInv
  <2> QED BY <2>1, LimitAssumption DEF IoSharedReturn, Goto, admission, guards, IInv, TypeOK, Consistent, HoldsRoot, InLane, Handed, Kinds
<1>3. ASSUME NEW p \in Ops, p # o
      PROVE  Consistent(p)'
  <2>1. Consistent(p)
    BY DEF IInv, ControlInv
  <2> QED BY <1>3, <2>1, OthersConsistent DEF IoSharedReturn, Goto, admission, guards, IInv, TypeOK
<1> QED BY <1>1, <1>2, <1>3 DEF ControlInv

\* A background body that finds somebody waiting decides to give way.
LEMMA YieldStep ==
  ASSUME IInv, CountOK', NEW o \in Ops, Yield(o)
  PROVE  TypeOK' /\ ControlInv'
<1>1. TypeOK'
  <2>1. pc' \in [Ops -> Points]
    BY DEF Yield, Goto, Points, IInv, TypeOK
  <2>2. budget' \in [Ops -> Nat]
    BY SMTT(30) DEF Yield, IInv, TypeOK
  <2>3. UNCHANGED <<why, cancelled, queue, aged, active, child, wave, idle, readers, writers>>
    BY DEF Yield, admission, guards
  <2> QED BY <2>1, <2>2, <2>3 DEF IInv, TypeOK, CountOK, Holdings
<1>2. Consistent(o)'
  <2>1. Consistent(o)
    BY DEF IInv, ControlInv
  <2>2. /\ pc[o] = "running" /\ child[o] = "none"
        /\ o \notin readers \cup writers
    <3>1. Does[o] \subseteq {"wave", "lend"}
      BY CallersAssumption DEF Yield
    <3> QED BY <2>1, <3>1 DEF Yield, Goto, Consistent
  <2> QED BY <2>1, <2>2, LimitAssumption DEF Yield, Goto, admission, guards, IInv, TypeOK, Consistent, HoldsRoot, InLane, Handed, Kinds
<1>3. ASSUME NEW p \in Ops, p # o
      PROVE  Consistent(p)'
  <2>1. Consistent(p)
    BY DEF IInv, ControlInv
  <2> QED BY <1>3, <2>1, OthersConsistent DEF Yield, Goto, admission, guards, IInv, TypeOK
<1> QED BY <1>1, <1>2, <1>3 DEF ControlInv

\* Giving way drops the slot, and the body asks for another.
LEMMA YieldReleaseStep ==
  ASSUME IInv, CountOK', NEW o \in Ops, YieldRelease(o)
  PROVE  TypeOK' /\ ControlInv'
<1>1. TypeOK'
  <2>1. pc' \in [Ops -> Points]
    BY DEF YieldRelease, Goto, Points, IInv, TypeOK
  <2>2. why' \in [Ops -> Calls]
    BY DEF YieldRelease, Calls, IInv, TypeOK
  <2>3. UNCHANGED <<cancelled, queue, aged, active, child, wave, idle, readers, writers, budget>>
    BY DEF YieldRelease, admission, guards
  <2> QED BY <2>1, <2>2, <2>3 DEF IInv, TypeOK, CountOK, Holdings
<1>2. Consistent(o)'
  <2>1. Consistent(o)
    BY DEF IInv, ControlInv
  <2>2. owned'[o]["root"] = (IF HoldsRoot(o)' THEN 1 ELSE 0)
    BY <2>1 DEF YieldRelease, Goto, admission, guards, Drop, IInv, TypeOK, Consistent, HoldsRoot, Kinds
  <2>3. /\ owned'[o]["extra"] > 0 => pc'[o] = "wave"
        /\ owned'[o]["lease"] > 0 => (InLane(o)' \/ Handed(o)') /\ pc'[o] # "lending"
    BY <2>1, LimitAssumption DEF YieldRelease, Goto, admission, guards, Drop, IInv, TypeOK, Consistent, InLane, Handed, Kinds
  <2>4. active'[o] = (IF InLane(o)' THEN 1 ELSE 0) + (IF child'[o] = "running" THEN 1 ELSE 0)
    <3>1. active[o] \in 0..1 /\ active \in [Ops -> 0..1]
      BY DEF IInv, TypeOK
    <3> QED BY <2>1, <3>1 DEF YieldRelease, Goto, admission, guards, Drop, IInv, TypeOK, Consistent, InLane
  <2>5. /\ child'[o] # "none" =>
             /\ "stream" \in Does[o]
             /\ Handed(o)' \/ pc'[o] \in {"running", "wave", "lending"}
        /\ o \in readers' \cup writers' =>
             /\ Does[o] \cap {"read", "write"} # {}
             /\ Handed(o)' \/ pc'[o] \in {"running", "wave", "lending"}
        /\ pc'[o] = "lending" => idle'[o] \in 1..Limit
    BY <2>1 DEF YieldRelease, Goto, admission, guards, Drop, IInv, TypeOK, Consistent, Handed, HoldsRoot
  <2>6. /\ wave'[o].active + wave'[o].left > 0 => pc'[o] = "wave"
        /\ wave'[o].active <= owned'[o]["extra"] + 1
    BY <2>1, LimitAssumption DEF YieldRelease, Goto, admission, guards, Drop, IInv, TypeOK, Consistent, Kinds
  <2> QED BY <2>2, <2>3, <2>4, <2>5, <2>6 DEF Consistent
<1>3. ASSUME NEW p \in Ops, p # o
      PROVE  Consistent(p)'
  <2>1. Consistent(p)
    BY DEF IInv, ControlInv
  <2> QED BY <1>3, <2>1, OthersConsistent DEF YieldRelease, Goto, admission, guards, Drop, IInv, TypeOK
<1> QED BY <1>1, <1>2, <1>3 DEF ControlInv

\* A wave begins with no worker at work and at least one item left.
LEMMA StartWaveStep ==
  ASSUME IInv, CountOK', NEW o \in Ops, StartWave(o)
  PROVE  TypeOK' /\ ControlInv'
<1>1. TypeOK'
  <2>1. pc' \in [Ops -> Points]
    BY DEF StartWave, Goto, Points, IInv, TypeOK
  <2>2. wave' \in [Ops -> [active : Nat, left : Nat]]
    BY DEF StartWave, IInv, TypeOK
  <2>3. budget' \in [Ops -> Nat]
    BY DEF StartWave, Spend, IInv, TypeOK
  <2>4. UNCHANGED <<why, cancelled, queue, aged, active, child, idle, readers, writers>>
    BY DEF StartWave, admission, guards
  <2> QED BY <2>1, <2>2, <2>3, <2>4 DEF IInv, TypeOK, CountOK, Holdings
<1>2. Consistent(o)'
  <2>1. Consistent(o)
    BY DEF IInv, ControlInv
  <2>2. owned'[o]["root"] = (IF HoldsRoot(o)' THEN 1 ELSE 0)
    BY <2>1 DEF StartWave, Goto, admission, guards, Spend, Reserve, IInv, TypeOK, Consistent, HoldsRoot, Kinds
  <2>3. /\ owned'[o]["extra"] > 0 => pc'[o] = "wave"
        /\ owned'[o]["lease"] > 0 => (InLane(o)' \/ Handed(o)') /\ pc'[o] # "lending"
    BY <2>1, LimitAssumption DEF StartWave, Goto, admission, guards, Spend, Reserve, IInv, TypeOK, Consistent, InLane, Handed, Kinds
  <2>4. active'[o] = (IF InLane(o)' THEN 1 ELSE 0) + (IF child'[o] = "running" THEN 1 ELSE 0)
    <3>1. active[o] \in 0..1 /\ active \in [Ops -> 0..1]
      BY DEF IInv, TypeOK
    <3> QED BY <2>1, <3>1 DEF StartWave, Goto, admission, guards, Spend, Reserve, IInv, TypeOK, Consistent, InLane
  <2>5. /\ child'[o] # "none" =>
             /\ "stream" \in Does[o]
             /\ Handed(o)' \/ pc'[o] \in {"running", "wave", "lending"}
        /\ o \in readers' \cup writers' =>
             /\ Does[o] \cap {"read", "write"} # {}
             /\ Handed(o)' \/ pc'[o] \in {"running", "wave", "lending"}
        /\ pc'[o] = "lending" => idle'[o] \in 1..Limit
    BY <2>1 DEF StartWave, Goto, admission, guards, Spend, Reserve, IInv, TypeOK, Consistent, Handed, HoldsRoot
  <2>6. /\ wave'[o].active + wave'[o].left > 0 => pc'[o] = "wave"
        /\ wave'[o].active <= owned'[o]["extra"] + 1
    BY <2>1, LimitAssumption DEF StartWave, Goto, admission, guards, Spend, Reserve, IInv, TypeOK, Consistent, Kinds, CountOK, Holdings
  <2> QED BY <2>2, <2>3, <2>4, <2>5, <2>6 DEF Consistent
<1>3. ASSUME NEW p \in Ops, p # o
      PROVE  Consistent(p)'
  <2>1. Consistent(p)
    BY DEF IInv, ControlInv
  <2> QED BY <1>3, <2>1, OthersConsistent DEF StartWave, Goto, admission, guards, Spend, Reserve, IInv, TypeOK
<1> QED BY <1>1, <1>2, <1>3 DEF ControlInv

\* A worker takes one item that is left.
LEMMA WaveEnterStep ==
  ASSUME IInv, CountOK', NEW o \in Ops, WaveEnter(o)
  PROVE  TypeOK' /\ ControlInv'
<1>1. TypeOK'
  <2>1. wave' \in [Ops -> [active : Nat, left : Nat]]
    BY DEF WaveEnter, IInv, TypeOK
  <2>2. UNCHANGED <<pc, why, cancelled, queue, aged, active, child, idle, readers, writers, budget>>
    BY DEF WaveEnter, admission, guards
  <2> QED BY <2>1, <2>2 DEF IInv, TypeOK, CountOK, Holdings
<1>2. Consistent(o)'
  <2>1. Consistent(o)
    BY DEF IInv, ControlInv
  <2> QED BY <2>1, LimitAssumption DEF WaveEnter, Goto, admission, guards, IInv, TypeOK, Consistent, HoldsRoot, InLane, Handed, Kinds
<1>3. ASSUME NEW p \in Ops, p # o
      PROVE  Consistent(p)'
  <2>1. Consistent(p)
    BY DEF IInv, ControlInv
  <2> QED BY <1>3, <2>1, OthersConsistent DEF WaveEnter, Goto, admission, guards, IInv, TypeOK
<1> QED BY <1>1, <1>2, <1>3 DEF ControlInv

\* A worker that is done is one less at work.
LEMMA WaveLeaveStep ==
  ASSUME IInv, CountOK', NEW o \in Ops, WaveLeave(o)
  PROVE  TypeOK' /\ ControlInv'
<1>1. TypeOK'
  <2>1. wave' \in [Ops -> [active : Nat, left : Nat]]
    BY DEF WaveLeave, IInv, TypeOK
  <2>2. UNCHANGED <<pc, why, cancelled, queue, aged, active, child, idle, readers, writers, budget>>
    BY DEF WaveLeave, admission, guards
  <2> QED BY <2>1, <2>2 DEF IInv, TypeOK, CountOK, Holdings
<1>2. Consistent(o)'
  <2>1. Consistent(o)
    BY DEF IInv, ControlInv
  <2> QED BY <2>1, LimitAssumption DEF WaveLeave, Goto, admission, guards, IInv, TypeOK, Consistent, HoldsRoot, InLane, Handed, Kinds
<1>3. ASSUME NEW p \in Ops, p # o
      PROVE  Consistent(p)'
  <2>1. Consistent(p)
    BY DEF IInv, ControlInv
  <2> QED BY <1>3, <2>1, OthersConsistent DEF WaveLeave, Goto, admission, guards, IInv, TypeOK
<1> QED BY <1>1, <1>2, <1>3 DEF ControlInv

\* A wave ends with no item left and no worker at work, and returns what it borrowed.
LEMMA EndWaveStep ==
  ASSUME IInv, CountOK', NEW o \in Ops, EndWave(o)
  PROVE  TypeOK' /\ ControlInv'
<1>1. TypeOK'
  <2>1. pc' \in [Ops -> Points]
    BY DEF EndWave, Goto, Points, IInv, TypeOK
  <2>2. UNCHANGED <<why, cancelled, queue, aged, active, child, wave, idle, readers, writers, budget>>
    BY DEF EndWave, admission, guards
  <2> QED BY <2>1, <2>2 DEF IInv, TypeOK, CountOK, Holdings
<1>2. Consistent(o)'
  <2>1. Consistent(o)
    BY DEF IInv, ControlInv
  <2> QED BY <2>1, LimitAssumption DEF EndWave, Goto, admission, guards, Drop, NoWave, IInv, TypeOK, Consistent, HoldsRoot, InLane, Handed, Kinds
<1>3. ASSUME NEW p \in Ops, p # o
      PROVE  Consistent(p)'
  <2>1. Consistent(p)
    BY DEF IInv, ControlInv
  <2> QED BY <1>3, <2>1, OthersConsistent DEF EndWave, Goto, admission, guards, Drop, NoWave, IInv, TypeOK
<1> QED BY <1>1, <1>2, <1>3 DEF ControlInv

\* The idle count that a loan is decided from is read by a running body without a lease.
LEMMA LendReadStep ==
  ASSUME IInv, CountOK', NEW o \in Ops, LendRead(o)
  PROVE  TypeOK' /\ ControlInv'
<1>1. TypeOK'
  <2>1. pc' \in [Ops -> Points]
    BY DEF LendRead, Goto, Points, IInv, TypeOK
  <2>2. idle' \in [Ops -> Nat]
    BY LimitAssumption DEF LendRead, IInv, TypeOK
  <2>3. budget' \in [Ops -> Nat]
    BY DEF LendRead, Spend, IInv, TypeOK
  <2>4. UNCHANGED <<why, cancelled, queue, aged, active, child, wave, readers, writers>>
    BY DEF LendRead, admission, guards
  <2> QED BY <2>1, <2>2, <2>3, <2>4 DEF IInv, TypeOK, CountOK, Holdings
<1>2. Consistent(o)'
  <2>1. Consistent(o)
    BY DEF IInv, ControlInv
  <2> QED BY <2>1, LimitAssumption DEF LendRead, Goto, admission, guards, Spend, IInv, TypeOK, Consistent, HoldsRoot, InLane, Handed, Kinds
<1>3. ASSUME NEW p \in Ops, p # o
      PROVE  Consistent(p)'
  <2>1. Consistent(p)
    BY DEF IInv, ControlInv
  <2> QED BY <1>3, <2>1, OthersConsistent DEF LendRead, Goto, admission, guards, Spend, IInv, TypeOK
<1> QED BY <1>1, <1>2, <1>3 DEF ControlInv

\* The loan is made from the count that was read, whatever it is by then.
LEMMA LendBorrowStep ==
  ASSUME IInv, CountOK', NEW o \in Ops, LendBorrow(o)
  PROVE  TypeOK' /\ ControlInv'
<1>1. TypeOK'
  <2>1. pc' \in [Ops -> Points]
    BY DEF LendBorrow, Goto, Points, IInv, TypeOK
  <2>2. idle' \in [Ops -> Nat]
    BY LimitAssumption DEF LendBorrow, IInv, TypeOK
  <2>3. UNCHANGED <<why, cancelled, queue, aged, active, child, wave, readers, writers, budget>>
    BY DEF LendBorrow, admission, guards
  <2> QED BY <2>1, <2>2, <2>3 DEF IInv, TypeOK, CountOK, Holdings
<1>2. Consistent(o)'
  <2>1. Consistent(o)
    BY DEF IInv, ControlInv
  <2> QED BY <2>1, LimitAssumption DEF LendBorrow, Goto, admission, guards, Reserve, IInv, TypeOK, Consistent, HoldsRoot, InLane, Handed, Kinds
<1>3. ASSUME NEW p \in Ops, p # o
      PROVE  Consistent(p)'
  <2>1. Consistent(p)
    BY DEF IInv, ControlInv
  <2> QED BY <1>3, <2>1, OthersConsistent DEF LendBorrow, Goto, admission, guards, Reserve, IInv, TypeOK
<1> QED BY <1>1, <1>2, <1>3 DEF ControlInv

\* A lease is dropped by the body that has it.
LEMMA DropLeaseStep ==
  ASSUME IInv, CountOK', NEW o \in Ops, DropLease(o)
  PROVE  TypeOK' /\ ControlInv'
<1>1. TypeOK'
  <2>1. UNCHANGED <<pc, why, cancelled, queue, aged, active, child, wave, idle, readers, writers, budget>>
    BY DEF DropLease, admission, guards
  <2> QED BY <2>1 DEF IInv, TypeOK, CountOK, Holdings
<1>2. Consistent(o)'
  <2>1. Consistent(o)
    BY DEF IInv, ControlInv
  <2> QED BY <2>1, LimitAssumption DEF DropLease, Goto, admission, guards, Drop, IInv, TypeOK, Consistent, HoldsRoot, InLane, Handed, Kinds
<1>3. ASSUME NEW p \in Ops, p # o
      PROVE  Consistent(p)'
  <2>1. Consistent(p)
    BY DEF IInv, ControlInv
  <2> QED BY <1>3, <2>1, OthersConsistent DEF DropLease, Goto, admission, guards, Drop, IInv, TypeOK
<1> QED BY <1>1, <1>2, <1>3 DEF ControlInv

-----------------------------------------------------------------------------
(* The count through every step: what takes slots finds them idle.          *)

\* What may be borrowed is what is idle, so that the count stays within the limit.
LEMMA IdleBound ==
  ASSUME CountOK, NEW n \in Nat
  PROVE  Idle(n) \in 0..Limit /\ used + Idle(n) <= Limit
BY LimitAssumption DEF CountOK, Idle, Minimum

\* An admission finds a slot idle, and the operation without one.
LEMMA AdmitCounts ==
  ASSUME IInv, CountOK, NEW o \in Ops, Admit(o)
  PROVE  CountOK'
<1>1. owned[o]["root"] = 0
  BY DEF IInv, ControlInv, Consistent, HoldsRoot, Admit, Goto
<1>2. used + 1 <= Limit /\ 1 \in 0..Limit
  BY LimitAssumption DEF Admit, CanAdmit, CountOK
<1> QED BY <1>1, <1>2, ReserveCounts DEF Admit, Kinds

\* A wave borrows only idle slots, and had borrowed none before.
LEMMA StartWaveCounts ==
  ASSUME IInv, CountOK, NEW o \in Ops, StartWave(o)
  PROVE  CountOK'
<1>1. PICK items \in 1..MaxItems :
        Reserve(o, "extra", Idle(Minimum(items, WaveWidth) - 1))
  BY DEF StartWave
<1>2. Minimum(items, WaveWidth) - 1 \in Nat
  BY BoundAssumption DEF Minimum
<1>3. owned[o]["extra"] = 0
  <2>1. ~(owned[o]["extra"] > 0)
    BY DEF IInv, ControlInv, Consistent, StartWave, Goto
  <2>2. owned[o]["extra"] \in 0..Limit
    BY DEF IInv, TypeOK, Kinds
  <2> QED BY <2>1, <2>2, LimitAssumption
<1> QED BY <1>1, <1>2, <1>3, IdleBound, ReserveCounts DEF Kinds

\* A loan, decided from an old count, still borrows only slots that are idle when it is made.
LEMMA LendBorrowCounts ==
  ASSUME IInv, CountOK, NEW o \in Ops, LendBorrow(o)
  PROVE  CountOK'
<1>1. idle[o] - 1 \in Nat
  BY LimitAssumption DEF IInv, ControlInv, Consistent, LendBorrow, Goto
<1>2. owned[o]["lease"] = 0
  <2>1. ~(owned[o]["lease"] > 0)
    BY DEF IInv, ControlInv, Consistent, LendBorrow, Goto
  <2>2. owned[o]["lease"] \in 0..Limit
    BY DEF IInv, TypeOK, Kinds
  <2> QED BY <2>1, <2>2, LimitAssumption
<1> QED BY <1>1, <1>2, IdleBound, ReserveCounts DEF LendBorrow, Kinds

\* The invariant is inductive.
LEMMA Inductive ==
  ASSUME IInv, [Next]_vars
  PROVE  IInv'
<1>1. CountOK
  BY DEF IInv, TypeOK, CountOK, Holdings
<1>2. ASSUME CountOK' /\ TypeOK' /\ ControlInv'
      PROVE  IInv'
  BY <1>2 DEF IInv, CountOK
<1>3. CASE UNCHANGED vars
  <2>1. CountOK'
    BY <1>1, <1>3, SameCounts DEF vars
  <2>2. TypeOK' /\ ControlInv'
    BY <1>3 DEF vars, IInv, TypeOK, ControlInv, Consistent, HoldsRoot, InLane, Handed
  <2> QED BY <1>2, <2>1, <2>2
<1>4. CASE AgeFront
  <2>1. CountOK'
    BY <1>1, <1>4, SameCounts DEF AgeFront
  <2>2. TypeOK' /\ ControlInv'
    BY <1>4 DEF AgeFront, guards, IInv, TypeOK, ControlInv, Consistent, HoldsRoot, InLane, Handed
  <2> QED BY <1>2, <2>1, <2>2
<1>5. ASSUME NEW o \in Ops, Submit(o) \/ Cancel(o) \/ Acquiring(o) \/ Body(o) \/ Child(o) \/ Worker(o)
      PROVE  IInv'
  <2>1. CASE Enqueue(o)
    <3>1. CountOK'
      BY <1>1, <2>1, SameCounts DEF Enqueue, admission
    <3> QED BY <1>2, <2>1, <3>1, EnqueueStep
  <2>2. CASE AbortBeforeQueue(o)
    <3>1. CountOK'
      BY <1>1, <2>2, SameCounts DEF AbortBeforeQueue, admission
    <3> QED BY <1>2, <2>2, <3>1, AbortBeforeQueueStep
  <2>3. CASE StillWanted(o)
    <3>1. CountOK'
      BY <1>1, <2>3, SameCounts DEF StillWanted, admission
    <3> QED BY <1>2, <2>3, <3>1, StillWantedStep
  <2>4. CASE AbortWaiting(o)
    <3>1. CountOK'
      BY <1>1, <2>4, SameCounts DEF AbortWaiting, admission
    <3> QED BY <1>2, <2>4, <3>1, AbortWaitingStep
  <2>5. CASE Admit(o)
    <3>1. CountOK'
      BY <1>1, <2>5, AdmitCounts
    <3> QED BY <1>2, <2>5, <3>1, AdmitStep
  <2>6. CASE PollAgain(o)
    <3>1. CountOK'
      BY <1>1, <2>6, SameCounts DEF PollAgain, admission
    <3> QED BY <1>2, <2>6, <3>1, PollAgainStep
  <2>7. CASE Submit(o)
    <3>1. CountOK'
      BY <1>1, <2>7, SameCounts DEF Submit, admission
    <3> QED BY <1>2, <2>7, <3>1, SubmitStep
  <2>8. CASE Cancel(o)
    <3>1. CountOK'
      BY <1>1, <2>8, SameCounts DEF Cancel, admission
    <3> QED BY <1>2, <2>8, <3>1, CancelStep
  <2>9. CASE EnterLane(o)
    <3>1. CountOK'
      BY <1>1, <2>9, SameCounts DEF EnterLane, admission
    <3> QED BY <1>2, <2>9, <3>1, EnterLaneStep
  <2>10. CASE LaneRefused(o)
    <3>1. CountOK'
      BY <1>1, <2>10, DropCounts DEF LaneRefused, Kinds
    <3> QED BY <1>2, <2>10, <3>1, LaneRefusedStep
  <2>11. CASE Finish(o)
    <3>1. CountOK'
      BY <1>1, <2>11, DropCounts DEF Finish, Kinds
    <3> QED BY <1>2, <2>11, <3>1, FinishStep
  <2>12. CASE TakeRead(o)
    <3>1. CountOK'
      BY <1>1, <2>12, SameCounts DEF TakeRead, admission
    <3> QED BY <1>2, <2>12, <3>1, TakeReadStep
  <2>13. CASE TakeWrite(o)
    <3>1. CountOK'
      BY <1>1, <2>13, SameCounts DEF TakeWrite, admission
    <3> QED BY <1>2, <2>13, <3>1, TakeWriteStep
  <2>14. CASE Spawn(o)
    <3>1. CountOK'
      BY <1>1, <2>14, SameCounts DEF Spawn, admission
    <3> QED BY <1>2, <2>14, <3>1, SpawnStep
  <2>15. CASE ChildEnter(o)
    <3>1. CountOK'
      BY <1>1, <2>15, SameCounts DEF ChildEnter, admission
    <3> QED BY <1>2, <2>15, <3>1, ChildEnterStep
  <2>16. CASE ChildRefused(o)
    <3>1. CountOK'
      BY <1>1, <2>16, SameCounts DEF ChildRefused, admission
    <3> QED BY <1>2, <2>16, <3>1, ChildRefusedStep
  <2>17. CASE ChildDone(o)
    <3>1. CountOK'
      BY <1>1, <2>17, SameCounts DEF ChildDone, admission
    <3> QED BY <1>2, <2>17, <3>1, ChildDoneStep
  <2>18. CASE HandOff(o)
    <3>1. CountOK'
      BY <1>1, <2>18, SameCounts DEF HandOff, admission
    <3> QED BY <1>2, <2>18, <3>1, HandOffStep
  <2>19. CASE Joined(o)
    <3>1. CountOK'
      BY <1>1, <2>19, SameCounts DEF Joined, admission
    <3> QED BY <1>2, <2>19, <3>1, JoinedStep
  <2>20. CASE Resume(o)
    <3>1. CountOK'
      BY <1>1, <2>20, SameCounts DEF Resume, admission
    <3> QED BY <1>2, <2>20, <3>1, ResumeStep
  <2>21. CASE IoRelease(o)
    <3>1. CountOK'
      BY <1>1, <2>21, DropCounts DEF IoRelease, Kinds
    <3> QED BY <1>2, <2>21, <3>1, IoReleaseStep
  <2>22. CASE IoReturn(o)
    <3>1. CountOK'
      BY <1>1, <2>22, SameCounts DEF IoReturn, admission
    <3> QED BY <1>2, <2>22, <3>1, IoReturnStep
  <2>23. CASE IoShared(o)
    <3>1. CountOK'
      BY <1>1, <2>23, SameCounts DEF IoShared, admission
    <3> QED BY <1>2, <2>23, <3>1, IoSharedStep
  <2>24. CASE IoSharedReturn(o)
    <3>1. CountOK'
      BY <1>1, <2>24, SameCounts DEF IoSharedReturn, admission
    <3> QED BY <1>2, <2>24, <3>1, IoSharedReturnStep
  <2>25. CASE Yield(o)
    <3>1. CountOK'
      BY <1>1, <2>25, SameCounts DEF Yield, admission
    <3> QED BY <1>2, <2>25, <3>1, YieldStep
  <2>26. CASE YieldRelease(o)
    <3>1. CountOK'
      BY <1>1, <2>26, DropCounts DEF YieldRelease, Kinds
    <3> QED BY <1>2, <2>26, <3>1, YieldReleaseStep
  <2>27. CASE StartWave(o)
    <3>1. CountOK'
      BY <1>1, <2>27, StartWaveCounts
    <3> QED BY <1>2, <2>27, <3>1, StartWaveStep
  <2>28. CASE WaveEnter(o)
    <3>1. CountOK'
      BY <1>1, <2>28, SameCounts DEF WaveEnter, admission
    <3> QED BY <1>2, <2>28, <3>1, WaveEnterStep
  <2>29. CASE WaveLeave(o)
    <3>1. CountOK'
      BY <1>1, <2>29, SameCounts DEF WaveLeave, admission
    <3> QED BY <1>2, <2>29, <3>1, WaveLeaveStep
  <2>30. CASE EndWave(o)
    <3>1. CountOK'
      BY <1>1, <2>30, DropCounts DEF EndWave, Kinds
    <3> QED BY <1>2, <2>30, <3>1, EndWaveStep
  <2>31. CASE LendRead(o)
    <3>1. CountOK'
      BY <1>1, <2>31, SameCounts DEF LendRead, admission
    <3> QED BY <1>2, <2>31, <3>1, LendReadStep
  <2>32. CASE LendBorrow(o)
    <3>1. CountOK'
      BY <1>1, <2>32, LendBorrowCounts
    <3> QED BY <1>2, <2>32, <3>1, LendBorrowStep
  <2>33. CASE DropLease(o)
    <3>1. CountOK'
      BY <1>1, <2>33, DropCounts DEF DropLease, Kinds
    <3> QED BY <1>2, <2>33, <3>1, DropLeaseStep
  <2> QED BY <1>5, <2>1, <2>2, <2>3, <2>4, <2>5, <2>6, <2>7, <2>8, <2>9, <2>10, <2>11, <2>12, <2>13, <2>14, <2>15, <2>16, <2>17, <2>18, <2>19, <2>20, <2>21, <2>22, <2>23, <2>24, <2>25, <2>26, <2>27, <2>28, <2>29, <2>30, <2>31, <2>32, <2>33
          DEF Acquiring, Body, Child, Worker
<1> QED BY <1>3, <1>4, <1>5 DEF Next

\* At the beginning nobody runs, waits or holds anything.
LEMMA InitEstablishes == Init => IInv
<1> SUFFICES ASSUME Init PROVE IInv
  OBVIOUS
<1>1. TypeOK
  <2>1. /\ used \in 0..Limit /\ peak \in used..Limit
        /\ owned \in [Ops -> [Kinds -> 0..Limit]]
    BY LimitAssumption DEF Init, Nothing
  <2>2. aged \in BOOLEAN /\ cancelled \in [Ops -> BOOLEAN]
    BY DEF Init
  <2>4. pc \in [Ops -> Points] /\ why \in [Ops -> Calls]
    BY DEF Init, Points, Calls
  <2>5. queue \in Seq(Ops)
    BY DEF Init
  <2>3. /\ active \in [Ops -> 0..1]
        /\ child \in [Ops -> {"none", "entering", "running", "done"}]
        /\ wave \in [Ops -> [active : Nat, left : Nat]]
        /\ idle \in [Ops -> Nat]
        /\ budget \in [Ops -> Nat]
    BY DEF Init, NoWave
  <2> QED BY <2>1, <2>2, <2>3, <2>4, <2>5 DEF TypeOK, Init
<1>2. ControlInv
  BY LimitAssumption DEF Init, ControlInv, Consistent, HoldsRoot, InLane, Handed, Nothing, NoWave, Kinds
<1>3. Slots = {}
  BY LimitAssumption DEF Init, Slots, SlotsOf, Nothing, Kinds
<1>4. Accounted
  BY <1>3, FS_EmptySet DEF Accounted, Init
<1> QED BY <1>1, <1>2, <1>4 DEF IInv

\* The strengthened invariant holds of every behaviour.
THEOREM Invariance == Spec => []IInv
<1>1. Init => IInv
  BY InitEstablishes
<1>2. IInv /\ [Next]_vars => IInv'
  BY Inductive
<1> QED BY <1>1, <1>2, PTL DEF Spec

-----------------------------------------------------------------------------
(* The properties, for every set of operations and every limit.             *)

\* Every variable keeps its type; in particular the count stays in 0..Limit.
THEOREM TypeCorrect == Spec => []TypeOK
<1>1. IInv => TypeOK
  BY DEF IInv
<1> QED BY <1>1, Invariance, PTL

\* What each point of an operation says of its slots, lane, child and locks.
THEOREM ControlCorrect == Spec => []ControlInv
<1>1. IInv => ControlInv
  BY DEF IInv
<1> QED BY <1>1, Invariance, PTL

\* The mutex's count is the number of slots held, within the limit, and zero
\* when every operation is idle.
THEOREM SlotsAlwaysAccounted == Spec => []SlotsAccounted
<1>1. IInv => SlotsAccounted
  <2> SUFFICES ASSUME IInv PROVE SlotsAccounted
    OBVIOUS
  <2>1. used = Cardinality(Slots) /\ used <= Limit
    BY LimitAssumption DEF IInv, TypeOK, Accounted
  <2>2. ASSUME \A o \in Ops : pc[o] = "idle"
        PROVE  used = 0
    <3>1. ASSUME NEW o \in Ops, NEW k \in Kinds
          PROVE  ~(owned[o][k] > 0)
      <4>1. Consistent(o) /\ pc[o] = "idle"
        BY <2>2 DEF IInv, ControlInv
      <4> QED BY <4>1 DEF Kinds, Consistent, HoldsRoot, InLane, Handed
    <3>2. Slots = {}
      <4>1. \A o \in Ops, k \in Kinds : owned[o][k] = 0
        <5> SUFFICES ASSUME NEW o \in Ops, NEW k \in Kinds PROVE owned[o][k] = 0
          OBVIOUS
        <5>1. owned[o][k] \in 0..Limit
          BY DEF IInv, TypeOK
        <5> QED BY <3>1, <5>1, LimitAssumption
      <4> QED BY <4>1, LimitAssumption DEF Slots, SlotsOf
    <3> QED BY <2>1, <3>2, FS_EmptySet
  <2> QED BY <2>1, <2>2 DEF SlotsAccounted
<1> QED BY <1>1, Invariance, PTL

\* No operation computes on more threads than it has slots.
THEOREM CpuAlwaysWithinReservation == Spec => []CpuWithinReservation
<1>1. IInv => CpuWithinReservation
  <2> SUFFICES ASSUME IInv, NEW o \in Ops
               PROVE  Computing(o) <= owned[o]["root"] + owned[o]["extra"]
    BY DEF CpuWithinReservation
  <2>1. Consistent(o)
    BY DEF IInv, ControlInv
  <2>2. /\ active[o] \in 0..1 /\ owned[o]["extra"] \in Nat
        /\ wave[o].active \in Nat /\ wave[o].left \in Nat
    BY LimitAssumption DEF IInv, TypeOK, Kinds
  <2> QED BY <2>1, <2>2 DEF Computing, Consistent, HoldsRoot, InLane, Handed
<1> QED BY <1>1, Invariance, PTL

-----------------------------------------------------------------------------
(* The order of the queue.                                                  *)

\* The queue is the threads that wait, each once.
InQueue(o) == \E i \in DOMAIN queue : queue[i] = o
QueueExact == /\ \A o \in Ops : InQueue(o) <=> Waiting(o)
              /\ \A i, j \in DOMAIN queue : queue[i] = queue[j] => i = j

\* Whoever gives its slot back between batches is a background builder.
YieldsAgain(o) == \/ pc[o] = "yielding"
                  \/ pc[o] \in {"acquire", "waiting", "polling"} /\ why[o] = "yield"
BuildersYield == \A o \in Ops : YieldsAgain(o) => Priority[o] = Background

QInv == QueueExact /\ BuildersYield

\* What is left of a sequence without one of its elements, in the same order.
LEMMA Without ==
  ASSUME NEW S, NEW s \in Seq(S), NEW i \in 1..Len(s)
  PROVE  /\ RemoveAt(s, i) \in Seq(S) /\ Len(RemoveAt(s, i)) = Len(s) - 1
         /\ \A n \in 1..(Len(s) - 1) : RemoveAt(s, i)[n] = s[IF n < i THEN n ELSE n + 1]
<1> DEFINE front == SubSeq(s, 1, i - 1)
           back == SubSeq(s, i + 1, Len(s))
<1>1. /\ front \in Seq(S) /\ Len(front) = i - 1 /\ \A n \in 1..(i - 1) : front[n] = s[n]
  BY SubSeqProperties
<1>2. /\ back \in Seq(S) /\ Len(back) = Len(s) - i /\ \A n \in 1..(Len(s) - i) : back[n] = s[i + n]
  BY SubSeqProperties
<1>3. RemoveAt(s, i) = front \o back
  BY DEF RemoveAt
<1>4. Len(s) \in Nat
  OBVIOUS
<1> HIDE DEF front, back
<1>5. front \o back \in Seq(S) /\ Len(front \o back) = Len(front) + Len(back)
  BY <1>1, <1>2, ConcatProperties
<1>6. ASSUME NEW n \in 1..(Len(s) - 1)
      PROVE  (front \o back)[n] = s[IF n < i THEN n ELSE n + 1]
  <2>1. (front \o back)[n] = IF n <= Len(front) THEN front[n] ELSE back[n - Len(front)]
    BY <1>1, <1>2, <1>4, <1>6, ConcatProperties
  <2> QED BY <1>1, <1>2, <1>4, <2>1
<1> QED BY <1>1, <1>2, <1>3, <1>4, <1>5, <1>6

\* A step that leaves the queue alone, and nobody's waiting.
LEMMA Undisturbed ==
  ASSUME QueueExact, queue' = queue, \A p \in Ops : Waiting(p)' <=> Waiting(p)
  PROVE  QueueExact'
  BY DEF QueueExact, InQueue

\* A thread that joins the end of the queue.
LEMMA Joins ==
  ASSUME QueueExact, queue \in Seq(Ops), NEW o \in Ops, ~Waiting(o), Waiting(o)',
         queue' = Append(queue, o), \A p \in Ops \ {o} : Waiting(p)' <=> Waiting(p)
  PROVE  QueueExact'
<1>1. /\ Len(queue') = Len(queue) + 1 /\ Len(queue) \in Nat /\ DOMAIN queue = 1..Len(queue)
      /\ DOMAIN queue' = 1..(Len(queue) + 1)
      /\ \A i \in 1..Len(queue) : queue'[i] = queue[i]
      /\ queue'[Len(queue) + 1] = o
  OBVIOUS
<1>2. \A i \in 1..Len(queue) : queue[i] # o
  BY <1>1 DEF QueueExact, InQueue
<1>3. ASSUME NEW i \in DOMAIN queue', NEW j \in DOMAIN queue', queue'[i] = queue'[j] PROVE i = j
  BY <1>1, <1>2, <1>3 DEF QueueExact
<1>4. ASSUME NEW p \in Ops PROVE InQueue(p)' <=> Waiting(p)'
  <2>1. CASE p = o
    BY <1>1, <2>1 DEF InQueue
  <2>2. CASE p # o
    <3>1. InQueue(p)' <=> InQueue(p)
      <4>1. ASSUME NEW i \in DOMAIN queue', queue'[i] = p PROVE i \in DOMAIN queue /\ queue[i] = p
        BY <1>1, <2>2, <4>1
      <4>2. ASSUME NEW i \in DOMAIN queue, queue[i] = p PROVE i \in DOMAIN queue' /\ queue'[i] = p
        BY <1>1, <4>2
      <4> QED BY <4>1, <4>2 DEF InQueue
    <3> QED BY <2>2, <3>1 DEF QueueExact
  <2> QED BY <2>1, <2>2
<1> QED BY <1>3, <1>4 DEF QueueExact

\* A thread that leaves it, from wherever it is.
LEMMA Leaves ==
  ASSUME QueueExact, queue \in Seq(Ops), NEW o \in Ops, ~Waiting(o)',
         \E i \in DOMAIN queue : queue[i] = o /\ Leave(i),
         \A p \in Ops \ {o} : Waiting(p)' <=> Waiting(p)
  PROVE  QueueExact'
<1>1. PICK i \in DOMAIN queue : queue[i] = o /\ queue' = RemoveAt(queue, i)
  BY DEF Leave
<1>2. /\ i \in 1..Len(queue) /\ Len(queue) \in Nat /\ DOMAIN queue = 1..Len(queue) /\ i \in Nat
  OBVIOUS
<1>3. /\ queue' \in Seq(Ops) /\ Len(queue') = Len(queue) - 1
      /\ \A n \in 1..(Len(queue) - 1) : queue'[n] = queue[IF n < i THEN n ELSE n + 1]
  BY <1>1, <1>2, Without
<1>4. DOMAIN queue' = 1..(Len(queue) - 1)
  BY <1>3
<1> DEFINE Old(n) == IF n < i THEN n ELSE n + 1
<1>5. \A n \in DOMAIN queue' : Old(n) \in DOMAIN queue /\ Old(n) # i /\ queue'[n] = queue[Old(n)]
  BY <1>2, <1>3, <1>4
<1>6. \A m, n \in DOMAIN queue' : Old(m) = Old(n) => m = n
  BY <1>2, <1>4
<1>7. \A n \in DOMAIN queue : n # i => \E m \in DOMAIN queue' : Old(m) = n
  <2> TAKE n \in DOMAIN queue
  <2> HAVE n # i
  <2>1. CASE n < i
    BY <1>2, <1>4, <2>1
  <2>2. CASE ~(n < i)
    <3>1. n - 1 \in DOMAIN queue' /\ Old(n - 1) = n
      BY <1>2, <1>4, <2>2
    <3> QED BY <3>1
  <2> QED BY <2>1, <2>2
<1> HIDE DEF Old
<1>8. ASSUME NEW m \in DOMAIN queue', NEW n \in DOMAIN queue', queue'[m] = queue'[n] PROVE m = n
  BY <1>5, <1>6, <1>8 DEF QueueExact
<1>9. ASSUME NEW p \in Ops PROVE InQueue(p)' <=> Waiting(p)'
  <2>1. CASE p = o
    <3>1. \A n \in DOMAIN queue' : queue'[n] # o
      BY <1>1, <1>5 DEF QueueExact
    <3> QED BY <2>1, <3>1 DEF InQueue
  <2>2. CASE p # o
    <3>1. InQueue(p)' <=> InQueue(p)
      BY <1>1, <1>5, <1>7, <2>2 DEF InQueue
    <3> QED BY <2>2, <3>1 DEF QueueExact
  <2> QED BY <2>1, <2>2
<1> QED BY <1>8, <1>9 DEF QueueExact

\* Of the steps of a thread, one joins the queue and two leave it.
LEMMA QueueInductive == ASSUME TypeOK, QInv, [Next]_vars PROVE QInv'
<1>0. /\ queue \in Seq(Ops) /\ pc \in [Ops -> Points] /\ why \in [Ops -> Calls]
      /\ QueueExact /\ BuildersYield
  BY DEF TypeOK, QInv
<1> USE <1>0
<1>1. ASSUME queue' = queue, \A p \in Ops : Waiting(p)' <=> Waiting(p),
             \A p \in Ops : YieldsAgain(p)' => YieldsAgain(p)
      PROVE  QInv'
  BY <1>1, Undisturbed DEF QInv, BuildersYield
<1>2. CASE AgeFront
  BY <1>1, <1>2 DEF AgeFront, Waiting, YieldsAgain
<1>3. CASE UNCHANGED vars
  BY <1>1, <1>3 DEF vars, admission, Waiting, YieldsAgain
<1>4. ASSUME NEW o \in Ops, Enqueue(o) PROVE QInv'
  <2>1. QueueExact'
    BY <1>4, Joins DEF Enqueue, Goto, Waiting
  <2>2. BuildersYield'
    BY <1>4 DEF Enqueue, Goto, BuildersYield, YieldsAgain
  <2> QED BY <2>1, <2>2 DEF QInv
<1>5. ASSUME NEW o \in Ops, AbortWaiting(o) PROVE QInv'
  <2>1. QueueExact'
    BY <1>5, Leaves DEF AbortWaiting, AbortTo, Goto, Waiting
  <2>2. BuildersYield'
    BY <1>5 DEF AbortWaiting, AbortTo, Goto, BuildersYield, YieldsAgain
  <2> QED BY <2>1, <2>2 DEF QInv
<1>6. ASSUME NEW o \in Ops, Admit(o) PROVE QInv'
  <2>1. QueueExact'
    BY <1>6, Leaves DEF Admit, AdmitTo, Goto, Waiting
  <2>2. BuildersYield'
    BY <1>6 DEF Admit, AdmitTo, Goto, BuildersYield, YieldsAgain
  <2> QED BY <2>1, <2>2 DEF QInv
<1>7. ASSUME NEW o \in Ops, AbortBeforeQueue(o) \/ StillWanted(o) \/ PollAgain(o) \/ EnterLane(o) \/ LaneRefused(o)
      PROVE  QInv'
  BY <1>1, <1>7 DEF AbortBeforeQueue, AbortTo, StillWanted, PollAgain, EnterLane, LaneRefused, Goto,
     admission, Waiting, YieldsAgain
<1>8. ASSUME NEW o \in Ops, Submit(o) \/ Cancel(o) PROVE QInv'
  BY <1>1, <1>8 DEF Submit, Cancel, Goto, admission, Waiting, YieldsAgain
<1>9. ASSUME NEW o \in Ops, Finish(o) \/ TakeRead(o) \/ TakeWrite(o) \/ Spawn(o) \/ HandOff(o) \/ Joined(o) \/ Resume(o)
      PROVE  QInv'
  BY <1>1, <1>9 DEF Finish, TakeRead, TakeWrite, Spawn, HandOff, Joined, Resume, Goto, admission, Waiting, YieldsAgain
<1>10. ASSUME NEW o \in Ops, IoRelease(o) \/ IoReturn(o) \/ IoShared(o) \/ IoSharedReturn(o) PROVE QInv'
  BY <1>1, <1>10 DEF IoRelease, IoReturn, IoShared, IoSharedReturn, Goto, admission, Waiting, YieldsAgain
<1>11. ASSUME NEW o \in Ops, Yield(o) PROVE QInv'
  <2>1. QueueExact'
    BY <1>11, Undisturbed DEF Yield, Goto, admission, Waiting
  <2>2. BuildersYield'
    BY <1>11 DEF Yield, Goto, BuildersYield, YieldsAgain
  <2> QED BY <2>1, <2>2 DEF QInv
<1>12. ASSUME NEW o \in Ops, YieldRelease(o) PROVE QInv'
  BY <1>1, <1>12 DEF YieldRelease, Goto, Waiting, YieldsAgain
<1>13. ASSUME NEW o \in Ops, StartWave(o) \/ EndWave(o) \/ LendRead(o) \/ LendBorrow(o) \/ DropLease(o) PROVE QInv'
  BY <1>1, <1>13 DEF StartWave, EndWave, LendRead, LendBorrow, DropLease, Goto, admission, Waiting, YieldsAgain
<1>14. ASSUME NEW o \in Ops, Child(o) \/ Worker(o) PROVE QInv'
  BY <1>1, <1>14 DEF Child, ChildEnter, ChildRefused, ChildDone, Worker, WaveEnter, WaveLeave,
     admission, Waiting, YieldsAgain
<1> QED BY <1>2, <1>3, <1>4, <1>5, <1>6, <1>7, <1>8, <1>9, <1>10, <1>11, <1>12, <1>13, <1>14
        DEF Next, Acquiring, Body

\* Queue and waiting threads agree in every state.
THEOREM QueueAlwaysExact == Spec => []QInv
<1>1. Init => QInv
  BY DEF Init, QInv, QueueExact, InQueue, Waiting, BuildersYield, YieldsAgain
<1>2. TypeOK /\ QInv /\ [Next]_vars => QInv'
  BY QueueInductive
<1> QED BY <1>1, <1>2, TypeCorrect, PTL DEF Spec

\* Whoever is admitted was the next of the queue.
LEMMA AdmittedIsNext ==
  ASSUME TypeOK, QInv, [Next]_vars, NEW o \in Ops, Admitted(o)
  PROVE  Place(o) \in 1..Len(queue) /\ queue[Place(o)] = o /\ IsNext(Place(o))
<1>0. pc \in [Ops -> Points] /\ queue \in Seq(Ops) /\ pc[o] = "polling" /\ pc'[o] \in {"admitted", "running"}
  BY DEF TypeOK, Admitted
<1> USE <1>0
<1>1. CanAdmit(o)
  <2>1. CASE AgeFront
    BY <2>1 DEF AgeFront
  <2>2. CASE UNCHANGED vars
    BY <2>2 DEF vars
  <2>3. ASSUME NEW p \in Ops, Submit(p) \/ Cancel(p) PROVE FALSE
    BY <2>3 DEF Submit, Cancel, Goto
  <2>4. ASSUME NEW p \in Ops, Acquiring(p) PROVE CanAdmit(o)
    <3>1. CASE Admit(p)
      BY <3>1 DEF Admit, Goto
    <3>2. CASE ~Admit(p)
      BY <2>4, <3>2 DEF Acquiring, Enqueue, AbortBeforeQueue, StillWanted, AbortWaiting, PollAgain,
         EnterLane, LaneRefused, AbortTo, Goto
    <3> QED BY <3>1, <3>2
  <2>5. ASSUME NEW p \in Ops, Child(p) \/ Worker(p) PROVE FALSE
    BY <2>5 DEF Child, ChildEnter, ChildRefused, ChildDone, Worker, WaveEnter, WaveLeave
  <2>6. ASSUME NEW p \in Ops, Body(p) PROVE FALSE
    <3>1. CASE Finish(p) \/ TakeRead(p) \/ TakeWrite(p) \/ Spawn(p) \/ HandOff(p) \/ Joined(p) \/ Resume(p)
      BY <3>1 DEF Finish, TakeRead, TakeWrite, Spawn, HandOff, Joined, Resume, Goto
    <3>2. CASE IoRelease(p) \/ IoReturn(p) \/ IoShared(p) \/ IoSharedReturn(p) \/ Yield(p) \/ YieldRelease(p)
      BY <3>2 DEF IoRelease, IoReturn, IoShared, IoSharedReturn, Yield, YieldRelease, Goto
    <3>3. CASE StartWave(p) \/ EndWave(p) \/ LendRead(p) \/ LendBorrow(p) \/ DropLease(p)
      BY <3>3 DEF StartWave, EndWave, LendRead, LendBorrow, DropLease, Goto
    <3> QED BY <2>6, <3>1, <3>2, <3>3 DEF Body
  <2> QED BY <2>1, <2>2, <2>3, <2>4, <2>5, <2>6 DEF Next
<1>2. PICK i \in DOMAIN queue : queue[i] = o /\ IsNext(i)
  BY <1>1 DEF CanAdmit
<1>3. Place(o) = i
  BY <1>2 DEF Place, QInv, QueueExact
<1> QED BY <1>2, <1>3

\* Nobody overtakes an older waiter of the same or a higher priority, except
\* that an aged front overtakes everybody (acquire, global_scheduler.rs).
THEOREM NobodyOvertakes == Spec => NoOvertaking
<1>1. ASSUME TypeOK, QInv, [Next]_vars
      PROVE  [\A o \in Ops : Admitted(o) =>
                \/ Place(o) = 1
                \/ /\ ~aged
                   /\ \A j \in 1..(Place(o) - 1) : Priority[queue[j]] < Priority[o]]_vars
  <2>1. SUFFICES ASSUME NEW o \in Ops, Admitted(o), Place(o) # 1
                 PROVE  ~aged /\ \A j \in 1..(Place(o) - 1) : Priority[queue[j]] < Priority[o]
    OBVIOUS
  <2>2. Place(o) \in 1..Len(queue) /\ queue[Place(o)] = o /\ IsNext(Place(o))
    BY <1>1, <2>1, AdmittedIsNext
  <2>3. PICK i : i = Place(o)
    OBVIOUS
  <2>4. /\ ~aged /\ i \in 1..Len(queue) /\ queue[i] = o
        /\ \A j \in DOMAIN queue : \/ Priority[queue[j]] < Priority[o]
                                   \/ Priority[queue[j]] = Priority[o] /\ i <= j
    BY <2>1, <2>2, <2>3 DEF IsNext
  <2>5. DOMAIN queue = 1..Len(queue) /\ Len(queue) \in Nat
    BY <1>1 DEF TypeOK
  <2>6. ASSUME NEW j \in 1..(i - 1) PROVE Priority[queue[j]] < Priority[o]
    BY <2>4, <2>5, <2>6
  <2> QED BY <2>3, <2>4, <2>6
<1> QED BY <1>1, TypeCorrect, QueueAlwaysExact, PTL DEF Spec, NoOvertaking

\* A background builder that yields is admitted again only from the front of
\* the queue (yield_background, global_scheduler.rs).
THEOREM YieldAlwaysGivesWay == Spec => YieldGivesWay
<1>1. ASSUME TypeOK, QInv, [Next]_vars
      PROVE  [\A o \in Ops : Admitted(o) /\ why[o] = "yield" => Place(o) = 1]_vars
  <2>1. SUFFICES ASSUME NEW o \in Ops, Admitted(o), why[o] = "yield" PROVE Place(o) = 1
    OBVIOUS
  <2>2. Place(o) \in 1..Len(queue) /\ queue[Place(o)] = o /\ IsNext(Place(o))
    BY <1>1, <2>1, AdmittedIsNext
  <2>3. Priority[o] = 0
    BY <1>1, <2>1 DEF QInv, BuildersYield, YieldsAgain, Admitted, Background
  <2>4. PICK i : i = Place(o)
    OBVIOUS
  <2>5. queue \in Seq(Ops) /\ Len(queue) \in Nat /\ DOMAIN queue = 1..Len(queue)
    BY <1>1 DEF TypeOK
  <2>6. ASSUME i # 1 PROVE FALSE
    <3>1. 1 \in DOMAIN queue /\ queue[1] \in Ops /\ ~(i <= 1)
      BY <2>2, <2>4, <2>5, <2>6
    <3>2. Priority[queue[1]] \in 0..2
      BY <3>1, RolesAssumption DEF Background, Interactive
    <3> QED BY <2>2, <2>3, <2>4, <2>6, <3>1, <3>2 DEF IsNext
  <2> QED BY <2>4, <2>6
<1> QED BY <1>1, TypeCorrect, QueueAlwaysExact, PTL DEF Spec, YieldGivesWay

=============================================================================

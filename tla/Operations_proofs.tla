-------------------------- MODULE Operations_proofs --------------------------
(* Proofs about Operations, for every set of requests and every bound.      *)
EXTENDS Operations, FiniteSetTheorems, SequenceTheorems, TLAPS

-----------------------------------------------------------------------------
(* The inductive invariant.                                                 *)

\* Only the page's requests wait for a token.  A request answers to its token
\* from its registration to its commit or its answer; the registry's live tokens
\* are those of the page's requests that do.
TokenHeld(o) ==
    /\ pc[o] = "sent" => o \in Named
    /\ pc[o] \in {"unsent", "sent", "committed", "done"} => ~bound[o]
    /\ pc[o] \in {"queued", "admitted", "waiting", "body"} => bound[o]
    /\ o \in live <=> o \in Named /\ bound[o]

\* What was published was committed, by a request that publishes, after its
\* capture if it has one; what ends without a commit published nothing.
Committed(o) == o \in Publishes /\ (o \in Captures => o \in captured)
PublishedOnce(o) ==
    /\ pc[o] = "committed" => Committed(o)
    /\ pc[o] = "finishing" /\ bound[o] /\ o \in Publishes => o \in Captures \ captured
    /\ pc[o] = "finishing" /\ ~bound[o] => o \in published
    /\ o \in published => pc[o] \in {"finishing", "done"} /\ ~bound[o] /\ Committed(o)
    /\ pc[o] = "done" <=> result[o] # "none"
    /\ result[o] \in {"cancelled", "refused", "failed"} => o \notin published
    /\ result[o] = "ok" => (o \in published <=> o \in Publishes)

\* Where a cancellation that has not been answered is found.
Meant(o) ==
    /\ flag[o] \/ o \in ToSet(pending) => o \in asked
    /\ bound[o] /\ start[o] # generation => o \in swept
    /\ result[o] = "cancelled" => o \in asked \cup swept
    /\ o \in early => \/ pc[o] = "sent" /\ o \in ToSet(pending)
                      \/ pc[o] = "done" /\ result[o] # "ok"

\* No token is ahead of the generation, and whoever is inside while the barrier
\* stands has an outdated one: it sees itself cancelled even after the barrier fell.
Outdated(o) ==
    /\ start[o] <= generation
    /\ paused /\ bound[o] /\ pc[o] \in Inside => start[o] # generation

\* The barrier stands as long as an update does.
Barrier == paused <=> updater # "off"

Consistent(o) == TokenHeld(o) /\ PublishedOnce(o) /\ Meant(o) /\ Outdated(o)
IInv == /\ TypeOK
        /\ RunningCounted
        /\ \A o \in Ops : Consistent(o)
        /\ Barrier
        /\ UpdateQuiet

-----------------------------------------------------------------------------
(* Counting the requests inside run_with_token.                             *)

\* The requests inside run_with_token are finitely many, at most all of them.
LEMMA InsideFinite ==
  /\ IsFiniteSet({p \in Ops : pc[p] \in Inside})
  /\ Cardinality({p \in Ops : pc[p] \in Inside}) \in Nat
  /\ Cardinality({p \in Ops : pc[p] \in Inside}) <= Cardinality(Ops)
  /\ Cardinality(Ops) \in Nat
<1>1. {p \in Ops : pc[p] \in Inside} \in SUBSET Ops
  OBVIOUS
<1> QED BY <1>1, OpsAssumption, FS_Subset, FS_CardinalityType

\* Only o moves, in or out of run_with_token, and the count follows it.
CountedMove(o) ==
    /\ \A p \in Ops \ {o} : pc'[p] = pc[p]
    /\ running' = CASE pc[o] \notin Inside /\ pc'[o] \in Inside -> running + 1
                    [] pc[o] \in Inside /\ pc'[o] \notin Inside -> running - 1
                    [] OTHER -> running

\* A request that moves is counted if it was not and leaves the count if it was.
LEMMA Counted ==
  ASSUME TypeOK, RunningCounted, NEW o \in Ops, CountedMove(o)
  PROVE  RunningCounted' /\ running' \in 0..Cardinality(Ops)
<1> DEFINE In  == {p \in Ops : pc[p] \in Inside}
           In2 == {p \in Ops : pc'[p] \in Inside}
<1>1. IsFiniteSet(In) /\ Cardinality(In) \in Nat /\ running = Cardinality(In)
  BY InsideFinite DEF RunningCounted
<1>2. In2 = IF pc'[o] \in Inside THEN In \cup {o} ELSE In \ {o}
  BY DEF CountedMove
<1>3. o \in In <=> pc[o] \in Inside
  OBVIOUS
<1>4. In2 \in SUBSET Ops
  OBVIOUS
<1>5. running \in Int
  BY DEF TypeOK
<1> HIDE DEF In, In2
<1>6. Cardinality(In \cup {o}) = (IF o \in In THEN Cardinality(In) ELSE Cardinality(In) + 1)
  BY <1>1, FS_AddElement
<1>7. Cardinality(In \ {o}) = (IF o \in In THEN Cardinality(In) - 1 ELSE Cardinality(In))
  BY <1>1, FS_RemoveElement
<1>8. running' = Cardinality(In2)
  BY <1>1, <1>2, <1>3, <1>6, <1>7 DEF CountedMove
<1>9. Cardinality(In2) \in Nat /\ Cardinality(In2) <= Cardinality(Ops)
  BY <1>4, OpsAssumption, FS_Subset, FS_CardinalityType
<1>10. Cardinality(Ops) \in Nat
  BY OpsAssumption, FS_CardinalityType
<1> QED BY <1>8, <1>9, <1>10 DEF RunningCounted, In2

\* What moves no request leaves the count as it is.
LEMMA SameCount ==
  ASSUME TypeOK, RunningCounted, UNCHANGED <<pc, running>>
  PROVE  RunningCounted' /\ running' \in 0..Cardinality(Ops)
BY InsideFinite DEF RunningCounted, TypeOK

-----------------------------------------------------------------------------
(* The registry of early cancellations.                                     *)

\* Taking an entry out leaves the others, in order.
LEMMA Removed ==
  ASSUME NEW S, NEW s \in Seq(S), NEW n \in DOMAIN s
  PROVE  /\ RemoveAt(s, n) \in Seq(S)
         /\ Len(RemoveAt(s, n)) = Len(s) - 1
         /\ ToSet(RemoveAt(s, n)) \subseteq ToSet(s)
         /\ \A e \in ToSet(s) : e # s[n] => e \in ToSet(RemoveAt(s, n))
<1> DEFINE a == SubSeq(s, 1, n-1)
           b == SubSeq(s, n+1, Len(s))
<1>1. n \in 1..Len(s) /\ Len(s) \in Nat
  OBVIOUS
<1>2. a \in Seq(S) /\ Len(a) = n - 1 /\ \A i \in 1..(n-1) : a[i] = s[i]
  BY <1>1
<1>3. b \in Seq(S) /\ Len(b) = Len(s) - n /\ \A i \in 1..(Len(s) - n) : b[i] = s[n + i]
  BY <1>1
<1> HIDE DEF a, b
<1> DEFINE r == a \o b
<1>4. r \in Seq(S) /\ Len(r) = Len(s) - 1
  BY <1>1, <1>2, <1>3, ConcatProperties
<1>5. \A i \in 1..(Len(s) - 1) : r[i] = IF i < n THEN s[i] ELSE s[i + 1]
  <2> TAKE i \in 1..(Len(s) - 1)
  <2>1. r[i] = IF i <= Len(a) THEN a[i] ELSE b[i - Len(a)]
    BY <1>1, <1>2, <1>3, ConcatProperties
  <2> QED BY <1>1, <1>2, <1>3, <2>1
<1>6. RemoveAt(s, n) = r
  BY DEF RemoveAt, a, b
<1> HIDE DEF r
<1>7. \A e \in ToSet(s) : e # s[n] => e \in ToSet(r)
  <2> SUFFICES ASSUME NEW i \in 1..Len(s), i # n
               PROVE  \E j \in DOMAIN r : r[j] = s[i]
    BY DEF ToSet
  <2>1. CASE i < n
    BY <1>1, <1>4, <1>5, <2>1
  <2>2. CASE i > n
    <3>1. i - 1 \in 1..(Len(s) - 1) /\ ~(i - 1 < n) /\ (i - 1) + 1 = i
      BY <1>1, <2>2
    <3>2. r[i - 1] = s[i] /\ i - 1 \in DOMAIN r
      BY <1>4, <1>5, <3>1
    <3> QED BY <3>2
  <2> QED BY <1>1, <2>1, <2>2
<1>8. ToSet(r) \subseteq ToSet(s)
  BY <1>1, <1>4, <1>5 DEF ToSet
<1> QED BY <1>4, <1>6, <1>7, <1>8

\* The oldest entry goes and the others stay.
LEMMA OldestGone ==
  ASSUME NEW S, NEW s \in Seq(S), s # <<>>
  PROVE  /\ Tail(s) \in Seq(S) /\ Len(Tail(s)) = Len(s) - 1
         /\ ToSet(Tail(s)) \subseteq ToSet(s)
         /\ \A e \in ToSet(s) : e # Head(s) => e \in ToSet(Tail(s))
<1>1. /\ Tail(s) \in Seq(S) /\ Len(Tail(s)) = Len(s) - 1 /\ Len(s) \in Nat \ {0}
      /\ \A i \in 1..(Len(s) - 1) : Tail(s)[i] = s[i + 1]
  BY HeadTailProperties, EmptySeq
<1>2. ToSet(Tail(s)) \subseteq ToSet(s)
  BY <1>1 DEF ToSet
<1>3. \A e \in ToSet(s) : e # Head(s) => e \in ToSet(Tail(s))
  <2> SUFFICES ASSUME NEW i \in 1..Len(s), s[i] # s[1]
               PROVE  \E j \in DOMAIN Tail(s) : Tail(s)[j] = s[i]
    BY <1>1 DEF ToSet
  <2>1. i - 1 \in 1..(Len(s) - 1) /\ Tail(s)[i - 1] = s[i] /\ i - 1 \in DOMAIN Tail(s)
    BY <1>1
  <2> QED BY <2>1
<1> QED BY <1>1, <1>2, <1>3

\* insert keeps the bound, adds the request and drops at most the oldest.
LEMMA Remembered ==
  ASSUME TypeOK, NEW o \in Named
  PROVE  /\ Remember(o) \in Seq(Named) /\ Len(Remember(o)) <= MaxPending
         /\ o \in ToSet(Remember(o))
         /\ ToSet(Remember(o)) \subseteq ToSet(pending) \cup {o}
<1> DEFINE rest == IF Len(pending) >= MaxPending THEN Tail(pending) ELSE pending
<1>1. pending \in Seq(Named) /\ Len(pending) \in Nat /\ Len(pending) <= MaxPending
      /\ MaxPending \in Nat \ {0}
  BY BoundAssumption DEF TypeOK
<1>2. rest \in Seq(Named) /\ Len(rest) < MaxPending /\ ToSet(rest) \subseteq ToSet(pending)
  <2>1. CASE Len(pending) >= MaxPending
    <3>1. pending # <<>>
      BY <1>1, <2>1
    <3> QED BY <1>1, <2>1, <3>1, OldestGone
  <2>2. CASE ~(Len(pending) >= MaxPending)
    BY <1>1, <2>2
  <2> QED BY <2>1, <2>2
<1> HIDE DEF rest
<1>3. /\ Append(rest, o) \in Seq(Named) /\ Len(Append(rest, o)) = Len(rest) + 1
      /\ \A i \in 1..Len(rest) : Append(rest, o)[i] = rest[i]
      /\ Append(rest, o)[Len(rest) + 1] = o
      /\ Len(rest) \in Nat
  BY <1>2
<1>4. o \in ToSet(Append(rest, o)) /\ ToSet(Append(rest, o)) \subseteq ToSet(rest) \cup {o}
  BY <1>2, <1>3 DEF ToSet
<1>5. Remember(o) = IF o \in ToSet(pending) THEN pending ELSE Append(rest, o)
  BY DEF Remember, rest
<1> QED BY <1>1, <1>2, <1>3, <1>4, <1>5

-----------------------------------------------------------------------------
(* The steps of a request.                                                  *)

\* A request that is sent: MCP's has a token at once, the page's has none.
LEMMA SendKeeps ==
  ASSUME IInv, NEW o \in Ops, Send(o)
  PROVE  IInv'
<1> USE DEF IInv, Send, Goto, barrier, tokens, history
<1>1. RunningCounted' /\ running' \in 0..Cardinality(Ops)
  <2>1. CountedMove(o)
    BY DEF CountedMove, TypeOK, Inside, Points
  <2> QED BY <2>1, Counted
<1>2. pc' \in [Ops -> Points] /\ start' \in [Ops -> 0..MaxGenerations] /\ bound' \in [Ops -> BOOLEAN]
  <2>1. CASE o \in Named
    BY <2>1 DEF TypeOK, Points
  <2>2. CASE o \notin Named
    BY <2>2, ZenonT(60) DEF TypeOK, Points
  <2> QED BY <2>1, <2>2
<1>3. TypeOK'
  BY <1>2, <1>1, OpsAssumption DEF TypeOK, Points
<1>4. ASSUME NEW p \in Ops PROVE Consistent(p)'
  <2>1. TokenHeld(p)'
    BY <1>2, OpsAssumption DEF TypeOK, Consistent, TokenHeld, PublishedOnce, Committed, Meant
  <2>2. PublishedOnce(p)'
    BY <1>2, OpsAssumption DEF TypeOK, Consistent, TokenHeld, PublishedOnce, Committed, Meant
  <2>3. Meant(p)'
    BY <1>2, OpsAssumption DEF TypeOK, Consistent, TokenHeld, PublishedOnce, Committed, Meant
  <2>4. Outdated(p)'
    <3>1. CASE o \in Named
      BY <3>1 DEF TypeOK, Consistent, Outdated, Inside
    <3>2. CASE o \notin Named
      BY <3>2 DEF TypeOK, Consistent, Outdated, Inside
    <3> QED BY <3>1, <3>2
  <2> QED BY <2>1, <2>2, <2>3, <2>4 DEF Consistent
<1>5. Barrier'
  BY DEF Barrier
<1>6. UpdateQuiet'
  BY DEF UpdateQuiet, Barrier, TypeOK, Inside, Consistent, TokenHeld
<1> QED BY <1>3, <1>1, <1>4, <1>5, <1>6

\* token(): the request answers to its token, and no earlier entry names it.
LEMMA RegisterKeeps ==
  ASSUME IInv, NEW o \in Ops, Register(o)
  PROVE  IInv'
<1> USE DEF IInv, Register, Goto, barrier, tokens, history
<1>1. RunningCounted' /\ running' \in 0..Cardinality(Ops)
  <2>1. CountedMove(o)
    BY DEF CountedMove, TypeOK, Inside, Points
  <2> QED BY <2>1, Counted
<1>2. TypeOK'
  BY <1>1, OpsAssumption DEF TypeOK, Points, Consistent, TokenHeld
<1>3. ASSUME NEW p \in Ops PROVE Consistent(p)'
  <2>1. TokenHeld(p)'
    BY OpsAssumption DEF TypeOK, Consistent, TokenHeld, PublishedOnce, Committed, Meant
  <2>2. PublishedOnce(p)'
    BY OpsAssumption DEF TypeOK, Consistent, TokenHeld, PublishedOnce, Committed, Meant
  <2>3. Meant(p)'
    BY OpsAssumption DEF TypeOK, Consistent, TokenHeld, PublishedOnce, Committed, Meant
  <2>4. Outdated(p)'
    BY OpsAssumption DEF TypeOK, Consistent, TokenHeld, Outdated, Inside
  <2> QED BY <2>1, <2>2, <2>3, <2>4 DEF Consistent
<1>4. Barrier'
  BY DEF Barrier
<1>5. UpdateQuiet'
  BY DEF UpdateQuiet, Barrier, TypeOK, Inside, Consistent, TokenHeld
<1> QED BY <1>2, <1>1, <1>3, <1>4, <1>5

\* take(): the entry is gone and its request answers "cancelled".
LEMMA RegisterCancelledKeeps ==
  ASSUME IInv, NEW o \in Ops, RegisterCancelled(o)
  PROVE  IInv'
<1> USE DEF IInv, RegisterCancelled, Goto, barrier, tokens, history, Answer
<1>1. /\ pending' \in Seq(Named) /\ Len(pending') <= MaxPending
      /\ ToSet(pending') \subseteq ToSet(pending)
      /\ \A e \in ToSet(pending) : e # o => e \in ToSet(pending')
      /\ o \in ToSet(pending)
  <2>1. PICK n \in DOMAIN pending : pending[n] = o /\ pending' = RemoveAt(pending, n)
    OBVIOUS
  <2>2. pending \in Seq(Named) /\ Len(pending) <= MaxPending /\ Len(pending) \in Nat /\ MaxPending \in Nat
    BY BoundAssumption DEF TypeOK
  <2>3. pending[n] \in ToSet(pending)
    BY DEF ToSet
  <2> QED BY <2>1, <2>2, <2>3, Removed
<1>2. RunningCounted' /\ running' \in 0..Cardinality(Ops)
  <2>1. CountedMove(o)
    BY DEF CountedMove, TypeOK, Inside, Points
  <2> QED BY <2>1, Counted
<1>3. TypeOK'
  BY <1>1, <1>2, OpsAssumption DEF TypeOK, Points
<1>4. ASSUME NEW p \in Ops PROVE Consistent(p)'
  <2>1. TokenHeld(p)'
    BY <1>1, OpsAssumption DEF TypeOK, Consistent, TokenHeld, PublishedOnce, Committed, Meant
  <2>2. PublishedOnce(p)'
    BY <1>1, OpsAssumption DEF TypeOK, Consistent, TokenHeld, PublishedOnce, Committed, Meant
  <2>3. Meant(p)'
    BY <1>1, OpsAssumption DEF TypeOK, Consistent, TokenHeld, PublishedOnce, Committed, Meant
  <2>4. Outdated(p)'
    BY <1>1, OpsAssumption DEF TypeOK, Consistent, TokenHeld, Outdated, Inside
  <2> QED BY <2>1, <2>2, <2>3, <2>4 DEF Consistent
<1>5. Barrier'
  BY DEF Barrier
<1>6. UpdateQuiet'
  BY DEF UpdateQuiet, Barrier, TypeOK, Inside, Consistent, TokenHeld
<1> QED BY <1>3, <1>2, <1>4, <1>5, <1>6

\* A request that meets the barrier registers nothing.
LEMMA RegisterRefusedKeeps ==
  ASSUME IInv, NEW o \in Ops, RegisterRefused(o)
  PROVE  IInv'
<1> USE DEF IInv, RegisterRefused, Goto, barrier, tokens, history, Answer
<1>1. RunningCounted' /\ running' \in 0..Cardinality(Ops)
  <2>1. CountedMove(o)
    BY DEF CountedMove, TypeOK, Inside, Points
  <2> QED BY <2>1, Counted
<1>2. TypeOK'
  BY <1>1, OpsAssumption DEF TypeOK, Points
<1>3. ASSUME NEW p \in Ops PROVE Consistent(p)'
  <2>1. TokenHeld(p)'
    BY OpsAssumption DEF TypeOK, Consistent, TokenHeld, PublishedOnce, Committed, Meant
  <2>2. PublishedOnce(p)'
    BY OpsAssumption DEF TypeOK, Consistent, TokenHeld, PublishedOnce, Committed, Meant
  <2>3. Meant(p)'
    BY OpsAssumption DEF TypeOK, Consistent, TokenHeld, PublishedOnce, Committed, Meant
  <2>4. Outdated(p)'
    BY OpsAssumption DEF TypeOK, Consistent, TokenHeld, Outdated, Inside
  <2> QED BY <2>1, <2>2, <2>3, <2>4 DEF Consistent
<1>4. Barrier'
  BY DEF Barrier
<1>5. UpdateQuiet'
  BY DEF UpdateQuiet, Barrier, TypeOK, Inside, Consistent, TokenHeld
<1> QED BY <1>2, <1>1, <1>3, <1>4, <1>5

\* admit_running counts the request; the barrier is down, so no update runs.
LEMMA AdmitRunningKeeps ==
  ASSUME IInv, NEW o \in Ops, AdmitRunning(o)
  PROVE  IInv'
<1> USE DEF IInv, AdmitRunning, Goto, barrier, tokens, history
<1>1. RunningCounted' /\ running' \in 0..Cardinality(Ops)
  <2>1. CountedMove(o)
    BY DEF CountedMove, TypeOK, Inside, Points
  <2> QED BY <2>1, Counted
<1>2. TypeOK'
  BY <1>1, OpsAssumption DEF TypeOK, Points
<1>3. ASSUME NEW p \in Ops PROVE Consistent(p)'
  <2>1. TokenHeld(p)'
    BY OpsAssumption DEF TypeOK, Consistent, TokenHeld, PublishedOnce, Committed, Meant
  <2>2. PublishedOnce(p)'
    BY OpsAssumption DEF TypeOK, Consistent, TokenHeld, PublishedOnce, Committed, Meant
  <2>3. Meant(p)'
    BY OpsAssumption DEF TypeOK, Consistent, TokenHeld, PublishedOnce, Committed, Meant
  <2>4. Outdated(p)'
    BY OpsAssumption DEF TypeOK, Consistent, TokenHeld, Outdated, Inside
  <2> QED BY <2>1, <2>2, <2>3, <2>4 DEF Consistent
<1>4. Barrier'
  BY DEF Barrier
<1>5. UpdateQuiet'
  BY DEF UpdateQuiet, Barrier, TypeOK, Inside, Consistent, TokenHeld
<1> QED BY <1>2, <1>1, <1>3, <1>4, <1>5

\* A run refused by the barrier gives its token back.
LEMMA AdmitRefusedKeeps ==
  ASSUME IInv, NEW o \in Ops, AdmitRefused(o)
  PROVE  IInv'
<1> USE DEF IInv, AdmitRefused, Goto, barrier, tokens, history, Answer
<1>1. RunningCounted' /\ running' \in 0..Cardinality(Ops)
  <2>1. CountedMove(o)
    BY DEF CountedMove, TypeOK, Inside, Points
  <2> QED BY <2>1, Counted
<1>2. TypeOK'
  BY <1>1, OpsAssumption DEF TypeOK, Points
<1>3. ASSUME NEW p \in Ops PROVE Consistent(p)'
  <2>1. TokenHeld(p)'
    BY OpsAssumption DEF TypeOK, Consistent, TokenHeld, PublishedOnce, Committed, Meant
  <2>2. PublishedOnce(p)'
    BY OpsAssumption DEF TypeOK, Consistent, TokenHeld, PublishedOnce, Committed, Meant
  <2>3. Meant(p)'
    BY OpsAssumption DEF TypeOK, Consistent, TokenHeld, PublishedOnce, Committed, Meant
  <2>4. Outdated(p)'
    BY OpsAssumption DEF TypeOK, Consistent, TokenHeld, Outdated, Inside
  <2> QED BY <2>1, <2>2, <2>3, <2>4 DEF Consistent
<1>4. Barrier'
  BY DEF Barrier
<1>5. UpdateQuiet'
  BY DEF UpdateQuiet, Barrier, TypeOK, Inside, Consistent, TokenHeld
<1> QED BY <1>2, <1>1, <1>3, <1>4, <1>5

\* The checks before the body count and change nothing.
LEMMA PassesKeeps ==
  ASSUME IInv, NEW o \in Ops, Passes(o)
  PROVE  IInv'
<1> USE DEF IInv, Passes, Goto, barrier, tokens, history
<1>1. RunningCounted' /\ running' \in 0..Cardinality(Ops)
  <2>1. CountedMove(o)
    BY DEF CountedMove, TypeOK, Inside, Points
  <2> QED BY <2>1, Counted
<1>2. TypeOK'
  BY <1>1, OpsAssumption DEF TypeOK, Points
<1>3. ASSUME NEW p \in Ops PROVE Consistent(p)'
  <2>1. TokenHeld(p)'
    BY OpsAssumption DEF TypeOK, Consistent, TokenHeld, PublishedOnce, Committed, Meant
  <2>2. PublishedOnce(p)'
    BY OpsAssumption DEF TypeOK, Consistent, TokenHeld, PublishedOnce, Committed, Meant
  <2>3. Meant(p)'
    BY OpsAssumption DEF TypeOK, Consistent, TokenHeld, PublishedOnce, Committed, Meant
  <2>4. Outdated(p)'
    BY OpsAssumption DEF TypeOK, Consistent, TokenHeld, Outdated, Inside
  <2> QED BY <2>1, <2>2, <2>3, <2>4 DEF Consistent
<1>4. Barrier'
  BY DEF Barrier
<1>5. UpdateQuiet'
  BY DEF UpdateQuiet, Barrier, TypeOK, Inside, Consistent, TokenHeld
<1> QED BY <1>2, <1>1, <1>3, <1>4, <1>5

\* A cancelled request leaves the count before it published anything.
LEMMA StopsKeeps ==
  ASSUME IInv, NEW o \in Ops, Stops(o)
  PROVE  IInv'
<1> USE DEF IInv, Stops, Goto, barrier, tokens, history, Answer, Cancelled
<1>1. RunningCounted' /\ running' \in 0..Cardinality(Ops)
  <2>1. CountedMove(o)
    BY DEF CountedMove, TypeOK, Inside, Points
  <2> QED BY <2>1, Counted
<1>2. TypeOK'
  BY <1>1, OpsAssumption DEF TypeOK, Points
<1>3. ASSUME NEW p \in Ops PROVE Consistent(p)'
  <2>1. TokenHeld(p)'
    BY OpsAssumption DEF TypeOK, Consistent, TokenHeld, PublishedOnce, Committed, Meant
  <2>2. PublishedOnce(p)'
    BY OpsAssumption DEF TypeOK, Consistent, TokenHeld, PublishedOnce, Committed, Meant
  <2>3. Meant(p)'
    BY OpsAssumption DEF TypeOK, Consistent, TokenHeld, PublishedOnce, Committed, Meant
  <2>4. Outdated(p)'
    BY OpsAssumption DEF TypeOK, Consistent, TokenHeld, Outdated, Inside
  <2> QED BY <2>1, <2>2, <2>3, <2>4 DEF Consistent
<1>4. Barrier'
  BY DEF Barrier
<1>5. UpdateQuiet'
  BY DEF UpdateQuiet, Barrier, TypeOK, Inside, Consistent, TokenHeld
<1> QED BY <1>2, <1>1, <1>3, <1>4, <1>5

\* A body that fails or panics leaves the count like any other.
LEMMA FailsKeeps ==
  ASSUME IInv, NEW o \in Ops, Fails(o)
  PROVE  IInv'
<1> USE DEF IInv, Fails, Goto, barrier, tokens, history, Answer
<1>1. RunningCounted' /\ running' \in 0..Cardinality(Ops)
  <2>1. CountedMove(o)
    BY DEF CountedMove, TypeOK, Inside, Points
  <2> QED BY <2>1, Counted
<1>2. TypeOK'
  BY <1>1, OpsAssumption DEF TypeOK, Points
<1>3. ASSUME NEW p \in Ops PROVE Consistent(p)'
  <2>1. TokenHeld(p)'
    BY OpsAssumption DEF TypeOK, Consistent, TokenHeld, PublishedOnce, Committed, Meant
  <2>2. PublishedOnce(p)'
    BY OpsAssumption DEF TypeOK, Consistent, TokenHeld, PublishedOnce, Committed, Meant
  <2>3. Meant(p)'
    BY OpsAssumption DEF TypeOK, Consistent, TokenHeld, PublishedOnce, Committed, Meant
  <2>4. Outdated(p)'
    BY OpsAssumption DEF TypeOK, Consistent, TokenHeld, Outdated, Inside
  <2> QED BY <2>1, <2>2, <2>3, <2>4 DEF Consistent
<1>4. Barrier'
  BY DEF Barrier
<1>5. UpdateQuiet'
  BY DEF UpdateQuiet, Barrier, TypeOK, Inside, Consistent, TokenHeld
<1> QED BY <1>2, <1>1, <1>3, <1>4, <1>5

\* A body ends uncommitted only when it has nothing to publish.
LEMMA BodyEndsKeeps ==
  ASSUME IInv, NEW o \in Ops, BodyEnds(o)
  PROVE  IInv'
<1> USE DEF IInv, BodyEnds, Goto, barrier, tokens, history
<1>1. RunningCounted' /\ running' \in 0..Cardinality(Ops)
  <2>1. CountedMove(o)
    BY DEF CountedMove, TypeOK, Inside, Points
  <2> QED BY <2>1, Counted
<1>2. TypeOK'
  BY <1>1, OpsAssumption DEF TypeOK, Points
<1>3. ASSUME NEW p \in Ops PROVE Consistent(p)'
  <2>1. TokenHeld(p)'
    BY OpsAssumption DEF TypeOK, Consistent, TokenHeld, PublishedOnce, Committed, Meant
  <2>2. PublishedOnce(p)'
    BY OpsAssumption DEF TypeOK, Consistent, TokenHeld, PublishedOnce, Committed, Meant
  <2>3. Meant(p)'
    BY OpsAssumption DEF TypeOK, Consistent, TokenHeld, PublishedOnce, Committed, Meant
  <2>4. Outdated(p)'
    BY OpsAssumption DEF TypeOK, Consistent, TokenHeld, Outdated, Inside
  <2> QED BY <2>1, <2>2, <2>3, <2>4 DEF Consistent
<1>4. Barrier'
  BY DEF Barrier
<1>5. UpdateQuiet'
  BY DEF UpdateQuiet, Barrier, TypeOK, Inside, Consistent, TokenHeld
<1> QED BY <1>2, <1>1, <1>3, <1>4, <1>5

\* commit() forgets the token: only what may publish goes on.
LEMMA CommitKeeps ==
  ASSUME IInv, NEW o \in Ops, Commit(o)
  PROVE  IInv'
<1> USE DEF IInv, Commit, Goto, barrier, tokens, history
<1>1. RunningCounted' /\ running' \in 0..Cardinality(Ops)
  <2>1. CountedMove(o)
    BY DEF CountedMove, TypeOK, Inside, Points
  <2> QED BY <2>1, Counted
<1>2. TypeOK'
  BY <1>1, OpsAssumption DEF TypeOK, Points
<1>3. ASSUME NEW p \in Ops PROVE Consistent(p)'
  <2>1. TokenHeld(p)'
    BY OpsAssumption DEF TypeOK, Consistent, TokenHeld, PublishedOnce, Committed, Meant
  <2>2. PublishedOnce(p)'
    BY OpsAssumption DEF TypeOK, Consistent, TokenHeld, PublishedOnce, Committed, Meant
  <2>3. Meant(p)'
    BY OpsAssumption DEF TypeOK, Consistent, TokenHeld, PublishedOnce, Committed, Meant
  <2>4. Outdated(p)'
    BY OpsAssumption DEF TypeOK, Consistent, TokenHeld, Outdated, Inside
  <2> QED BY <2>1, <2>2, <2>3, <2>4 DEF Consistent
<1>4. Barrier'
  BY DEF Barrier
<1>5. UpdateQuiet'
  BY DEF UpdateQuiet, Barrier, TypeOK, Inside, Consistent, TokenHeld
<1> QED BY <1>2, <1>1, <1>3, <1>4, <1>5

\* Only a committed request publishes.
LEMMA PublishKeeps ==
  ASSUME IInv, NEW o \in Ops, Publish(o)
  PROVE  IInv'
<1> USE DEF IInv, Publish, Goto, barrier, tokens, history
<1>1. RunningCounted' /\ running' \in 0..Cardinality(Ops)
  <2>1. CountedMove(o)
    BY DEF CountedMove, TypeOK, Inside, Points
  <2> QED BY <2>1, Counted
<1>2. TypeOK'
  BY <1>1, OpsAssumption DEF TypeOK, Points
<1>3. ASSUME NEW p \in Ops PROVE Consistent(p)'
  <2>1. TokenHeld(p)'
    BY OpsAssumption DEF TypeOK, Consistent, TokenHeld, PublishedOnce, Committed, Meant
  <2>2. PublishedOnce(p)'
    BY OpsAssumption DEF TypeOK, Consistent, TokenHeld, PublishedOnce, Committed, Meant
  <2>3. Meant(p)'
    BY OpsAssumption DEF TypeOK, Consistent, TokenHeld, PublishedOnce, Committed, Meant
  <2>4. Outdated(p)'
    BY OpsAssumption DEF TypeOK, Consistent, TokenHeld, Outdated, Inside
  <2> QED BY <2>1, <2>2, <2>3, <2>4 DEF Consistent
<1>4. Barrier'
  BY DEF Barrier
<1>5. UpdateQuiet'
  BY DEF UpdateQuiet, Barrier, TypeOK, Inside, Consistent, TokenHeld
<1> QED BY <1>2, <1>1, <1>3, <1>4, <1>5

\* "ok" is answered by a read, or by what was published.
LEMMA FinishKeeps ==
  ASSUME IInv, NEW o \in Ops, Finish(o)
  PROVE  IInv'
<1> USE DEF IInv, Finish, Goto, barrier, tokens, history, Answer, Cancelled
<1>1. RunningCounted' /\ running' \in 0..Cardinality(Ops)
  <2>1. CountedMove(o)
    BY DEF CountedMove, TypeOK, Inside, Points
  <2> QED BY <2>1, Counted
<1>2. TypeOK'
  BY <1>1, OpsAssumption DEF TypeOK, Points
<1>3. ASSUME NEW p \in Ops PROVE Consistent(p)'
  <2>1. TokenHeld(p)'
    BY OpsAssumption DEF TypeOK, Consistent, TokenHeld, PublishedOnce, Committed, Meant
  <2>2. PublishedOnce(p)'
    BY OpsAssumption DEF TypeOK, Consistent, TokenHeld, PublishedOnce, Committed, Meant
  <2>3. Meant(p)'
    BY OpsAssumption DEF TypeOK, Consistent, TokenHeld, PublishedOnce, Committed, Meant
  <2>4. Outdated(p)'
    BY OpsAssumption DEF TypeOK, Consistent, TokenHeld, Outdated, Inside
  <2> QED BY <2>1, <2>2, <2>3, <2>4 DEF Consistent
<1>4. Barrier'
  BY DEF Barrier
<1>5. UpdateQuiet'
  BY DEF UpdateQuiet, Barrier, TypeOK, Inside, Consistent, TokenHeld
<1> QED BY <1>2, <1>1, <1>3, <1>4, <1>5

\* Between its two runs a request is not counted and keeps its token.
LEMMA FinishCaptureKeeps ==
  ASSUME IInv, NEW o \in Ops, FinishCapture(o)
  PROVE  IInv'
<1> USE DEF IInv, FinishCapture, Goto, barrier, tokens, history, Cancelled
<1>1. RunningCounted' /\ running' \in 0..Cardinality(Ops)
  <2>1. CountedMove(o)
    BY DEF CountedMove, TypeOK, Inside, Points
  <2> QED BY <2>1, Counted
<1>2. TypeOK'
  BY <1>1, OpsAssumption DEF TypeOK, Points
<1>3. ASSUME NEW p \in Ops PROVE Consistent(p)'
  <2>1. TokenHeld(p)'
    BY OpsAssumption DEF TypeOK, Consistent, TokenHeld, PublishedOnce, Committed, Meant
  <2>2. PublishedOnce(p)'
    BY OpsAssumption DEF TypeOK, Consistent, TokenHeld, PublishedOnce, Committed, Meant
  <2>3. Meant(p)'
    BY OpsAssumption DEF TypeOK, Consistent, TokenHeld, PublishedOnce, Committed, Meant
  <2>4. Outdated(p)'
    BY OpsAssumption DEF TypeOK, Consistent, TokenHeld, Outdated, Inside
  <2> QED BY <2>1, <2>2, <2>3, <2>4 DEF Consistent
<1>4. Barrier'
  BY DEF Barrier
<1>5. UpdateQuiet'
  BY DEF UpdateQuiet, Barrier, TypeOK, Inside, Consistent, TokenHeld
<1> QED BY <1>2, <1>1, <1>3, <1>4, <1>5

\* The check after the body stops only what kept its token: nothing was published.
LEMMA FinishCancelledKeeps ==
  ASSUME IInv, NEW o \in Ops, FinishCancelled(o)
  PROVE  IInv'
<1> USE DEF IInv, FinishCancelled, Goto, barrier, tokens, history, Answer, Cancelled
<1>1. RunningCounted' /\ running' \in 0..Cardinality(Ops)
  <2>1. CountedMove(o)
    BY DEF CountedMove, TypeOK, Inside, Points
  <2> QED BY <2>1, Counted
<1>2. TypeOK'
  BY <1>1, OpsAssumption DEF TypeOK, Points
<1>3. ASSUME NEW p \in Ops PROVE Consistent(p)'
  <2>1. TokenHeld(p)'
    BY OpsAssumption DEF TypeOK, Consistent, TokenHeld, PublishedOnce, Committed, Meant
  <2>2. PublishedOnce(p)'
    BY OpsAssumption DEF TypeOK, Consistent, TokenHeld, PublishedOnce, Committed, Meant
  <2>3. Meant(p)'
    BY OpsAssumption DEF TypeOK, Consistent, TokenHeld, PublishedOnce, Committed, Meant
  <2>4. Outdated(p)'
    BY OpsAssumption DEF TypeOK, Consistent, TokenHeld, Outdated, Inside
  <2> QED BY <2>1, <2>2, <2>3, <2>4 DEF Consistent
<1>4. Barrier'
  BY DEF Barrier
<1>5. UpdateQuiet'
  BY DEF UpdateQuiet, Barrier, TypeOK, Inside, Consistent, TokenHeld
<1> QED BY <1>2, <1>1, <1>3, <1>4, <1>5

-----------------------------------------------------------------------------
(* Cancellations, and the update's barrier.                                  *)

\* cancel_id marks the live token, or leaves an entry for the one to come.
LEMMA CancelIdKeeps ==
  ASSUME IInv, NEW o \in Ops, CancelId(o)
  PROVE  IInv'
<1> USE DEF IInv, CancelId, barrier, tokens, history
<1>1. RunningCounted' /\ running' \in 0..Cardinality(Ops)
  BY SameCount
<1>2. /\ Remember(o) \in Seq(Named) /\ Len(Remember(o)) <= MaxPending
      /\ o \in ToSet(Remember(o))
      /\ ToSet(Remember(o)) \subseteq ToSet(pending) \cup {o}
  BY Remembered
<1>3. TypeOK'
  <2>1. flag' \in [Ops -> BOOLEAN] /\ pending' \in Seq(Named) /\ Len(pending') <= MaxPending
    BY <1>2 DEF TypeOK
  <2>2. early' \subseteq Named /\ asked' \subseteq Named /\ live' \subseteq Named
    BY DEF TypeOK
  <2> QED
    BY <1>1, <2>1, <2>2 DEF TypeOK
<1>4. ASSUME NEW p \in Ops PROVE Consistent(p)'
  <2>1. TokenHeld(p)'
    BY <1>2, OpsAssumption DEF TypeOK, Consistent, TokenHeld, PublishedOnce, Committed, Meant
  <2>2. PublishedOnce(p)'
    BY <1>2, OpsAssumption DEF TypeOK, Consistent, TokenHeld, PublishedOnce, Committed, Meant
  <2>3. Meant(p)'
    BY <1>2, OpsAssumption DEF TypeOK, Consistent, TokenHeld, PublishedOnce, Committed, Meant
  <2>4. Outdated(p)'
    BY <1>2, OpsAssumption DEF TypeOK, Consistent, TokenHeld, Outdated, Inside
  <2> QED BY <2>1, <2>2, <2>3, <2>4 DEF Consistent
<1>5. Barrier'
  BY DEF Barrier, TypeOK
<1>6. UpdateQuiet'
  BY DEF UpdateQuiet, Barrier, TypeOK, Inside, Consistent, TokenHeld
<1> QED BY <1>3, <1>1, <1>4, <1>5, <1>6

\* An entry that expires gives its promise up with it.
LEMMA ExpireKeeps ==
  ASSUME IInv, Expire
  PROVE  IInv'
<1> USE DEF IInv, Expire, barrier, tokens, history
<1>1. RunningCounted' /\ running' \in 0..Cardinality(Ops)
  BY SameCount
<1>2. /\ pending' \in Seq(Named) /\ Len(pending') <= MaxPending
      /\ ToSet(pending') \subseteq ToSet(pending)
      /\ \A e \in ToSet(pending) : e # Head(pending) => e \in ToSet(pending')
  <2>1. pending \in Seq(Named) /\ Len(pending) <= MaxPending /\ MaxPending \in Nat
    BY BoundAssumption DEF TypeOK
  <2> QED BY <2>1, OldestGone
<1>3. TypeOK'
  BY <1>2, <1>1, OpsAssumption, BoundAssumption DEF TypeOK
<1>4. ASSUME NEW p \in Ops PROVE Consistent(p)'
  <2>1. TokenHeld(p)'
    BY <1>2, OpsAssumption DEF TypeOK, Consistent, TokenHeld, PublishedOnce, Committed, Meant
  <2>2. PublishedOnce(p)'
    BY <1>2, OpsAssumption DEF TypeOK, Consistent, TokenHeld, PublishedOnce, Committed, Meant
  <2>3. Meant(p)'
    BY <1>2, OpsAssumption DEF TypeOK, Consistent, TokenHeld, PublishedOnce, Committed, Meant
  <2>4. Outdated(p)'
    BY <1>2, OpsAssumption DEF TypeOK, Consistent, TokenHeld, Outdated, Inside
  <2> QED BY <2>1, <2>2, <2>3, <2>4 DEF Consistent
<1>5. Barrier'
  BY DEF Barrier, TypeOK
<1>6. UpdateQuiet'
  BY DEF UpdateQuiet, Barrier, TypeOK, Inside, Consistent, TokenHeld
<1> QED BY <1>3, <1>1, <1>4, <1>5, <1>6

\* cancel() outdates the tokens that answer now, and no later one.
LEMMA CancelAllKeeps ==
  ASSUME IInv, CancelAll
  PROVE  IInv'
<1> USE DEF IInv, CancelAll, barrier, tokens, history, AdvanceGeneration
<1>1. RunningCounted' /\ running' \in 0..Cardinality(Ops)
  BY SameCount
<1>2. TypeOK'
  BY <1>1, OpsAssumption, BoundAssumption DEF TypeOK
<1>3. ASSUME NEW p \in Ops PROVE Consistent(p)'
  <2>1. TokenHeld(p)'
    BY OpsAssumption DEF TypeOK, Consistent, TokenHeld, PublishedOnce, Committed, Meant
  <2>2. PublishedOnce(p)'
    BY OpsAssumption DEF TypeOK, Consistent, TokenHeld, PublishedOnce, Committed, Meant
  <2>3. Meant(p)'
    BY OpsAssumption DEF TypeOK, Consistent, TokenHeld, PublishedOnce, Committed, Meant
  <2>4. Outdated(p)'
    BY OpsAssumption DEF TypeOK, Consistent, TokenHeld, Outdated, Inside
  <2> QED BY <2>1, <2>2, <2>3, <2>4 DEF Consistent
<1>4. Barrier'
  BY DEF Barrier, TypeOK
<1>5. UpdateQuiet'
  BY DEF UpdateQuiet, Barrier, TypeOK, Inside, Consistent, TokenHeld
<1> QED BY <1>2, <1>1, <1>3, <1>4, <1>5

\* The barrier is put with the generation.
LEMMA PauseKeeps ==
  ASSUME IInv, Pause
  PROVE  IInv'
<1> USE DEF IInv, Pause, barrier, tokens, history, AdvanceGeneration
<1>1. RunningCounted' /\ running' \in 0..Cardinality(Ops)
  BY SameCount
<1>2. TypeOK'
  BY <1>1, OpsAssumption, BoundAssumption DEF TypeOK
<1>3. ASSUME NEW p \in Ops PROVE Consistent(p)'
  <2>1. TokenHeld(p)'
    BY OpsAssumption DEF TypeOK, Consistent, TokenHeld, PublishedOnce, Committed, Meant
  <2>2. PublishedOnce(p)'
    BY OpsAssumption DEF TypeOK, Consistent, TokenHeld, PublishedOnce, Committed, Meant
  <2>3. Meant(p)'
    BY OpsAssumption DEF TypeOK, Consistent, TokenHeld, PublishedOnce, Committed, Meant
  <2>4. Outdated(p)'
    BY OpsAssumption DEF TypeOK, Consistent, TokenHeld, Outdated, Inside
  <2> QED BY <2>1, <2>2, <2>3, <2>4 DEF Consistent
<1>4. Barrier'
  BY DEF Barrier, TypeOK
<1>5. UpdateQuiet'
  BY DEF UpdateQuiet, Barrier, TypeOK, Inside, Consistent, TokenHeld
<1> QED BY <1>2, <1>1, <1>3, <1>4, <1>5

\* No live token and a count of zero: no request of the page and none inside.
LEMMA QuietKeeps ==
  ASSUME IInv, Quiet
  PROVE  IInv'
<1> USE DEF IInv, Quiet, barrier, tokens, history
<1>1. RunningCounted' /\ running' \in 0..Cardinality(Ops)
  BY SameCount
<1>2. TypeOK'
  BY <1>1, OpsAssumption, BoundAssumption DEF TypeOK
<1>3. ASSUME NEW p \in Ops PROVE Consistent(p)'
  <2>1. TokenHeld(p)'
    BY OpsAssumption DEF TypeOK, Consistent, TokenHeld, PublishedOnce, Committed, Meant
  <2>2. PublishedOnce(p)'
    BY OpsAssumption DEF TypeOK, Consistent, TokenHeld, PublishedOnce, Committed, Meant
  <2>3. Meant(p)'
    BY OpsAssumption DEF TypeOK, Consistent, TokenHeld, PublishedOnce, Committed, Meant
  <2>4. Outdated(p)'
    BY OpsAssumption DEF TypeOK, Consistent, TokenHeld, Outdated, Inside
  <2> QED BY <2>1, <2>2, <2>3, <2>4 DEF Consistent
<1>4. Barrier'
  BY DEF Barrier, TypeOK
<1>5. UpdateQuiet'
  <2>1. {p \in Ops : pc[p] \in Inside} = {}
    BY InsideFinite, FS_EmptySet DEF RunningCounted
  <2> QED BY <2>1 DEF UpdateQuiet, Consistent, TokenHeld
<1> QED BY <1>2, <1>1, <1>3, <1>4, <1>5

\* The barrier falls with the update that put it.
LEMMA ResumeKeeps ==
  ASSUME IInv, Resume
  PROVE  IInv'
<1> USE DEF IInv, Resume, barrier, tokens, history
<1>1. RunningCounted' /\ running' \in 0..Cardinality(Ops)
  BY SameCount
<1>2. TypeOK'
  BY <1>1, OpsAssumption, BoundAssumption DEF TypeOK
<1>3. ASSUME NEW p \in Ops PROVE Consistent(p)'
  <2>1. TokenHeld(p)'
    BY OpsAssumption DEF TypeOK, Consistent, TokenHeld, PublishedOnce, Committed, Meant
  <2>2. PublishedOnce(p)'
    BY OpsAssumption DEF TypeOK, Consistent, TokenHeld, PublishedOnce, Committed, Meant
  <2>3. Meant(p)'
    BY OpsAssumption DEF TypeOK, Consistent, TokenHeld, PublishedOnce, Committed, Meant
  <2>4. Outdated(p)'
    BY OpsAssumption DEF TypeOK, Consistent, TokenHeld, Outdated, Inside
  <2> QED BY <2>1, <2>2, <2>3, <2>4 DEF Consistent
<1>4. Barrier'
  BY DEF Barrier, TypeOK
<1>5. UpdateQuiet'
  BY DEF UpdateQuiet, Barrier, TypeOK, Inside, Consistent, TokenHeld
<1> QED BY <1>2, <1>1, <1>3, <1>4, <1>5

\* The barrier outlives the installer that took over.
LEMMA RetainKeeps ==
  ASSUME IInv, Retain
  PROVE  IInv'
<1> USE DEF IInv, Retain, barrier, tokens, history
<1>1. RunningCounted' /\ running' \in 0..Cardinality(Ops)
  BY SameCount
<1>2. TypeOK'
  BY <1>1, OpsAssumption, BoundAssumption DEF TypeOK
<1>3. ASSUME NEW p \in Ops PROVE Consistent(p)'
  <2>1. TokenHeld(p)'
    BY OpsAssumption DEF TypeOK, Consistent, TokenHeld, PublishedOnce, Committed, Meant
  <2>2. PublishedOnce(p)'
    BY OpsAssumption DEF TypeOK, Consistent, TokenHeld, PublishedOnce, Committed, Meant
  <2>3. Meant(p)'
    BY OpsAssumption DEF TypeOK, Consistent, TokenHeld, PublishedOnce, Committed, Meant
  <2>4. Outdated(p)'
    BY OpsAssumption DEF TypeOK, Consistent, TokenHeld, Outdated, Inside
  <2> QED BY <2>1, <2>2, <2>3, <2>4 DEF Consistent
<1>4. Barrier'
  BY DEF Barrier, TypeOK
<1>5. UpdateQuiet'
  BY DEF UpdateQuiet, Barrier, TypeOK, Inside, Consistent, TokenHeld
<1> QED BY <1>2, <1>1, <1>3, <1>4, <1>5

-----------------------------------------------------------------------------
(* The theorems.                                                             *)

\* A fresh process: nothing was sent, nothing runs, no update.
LEMMA InitEstablishes == Init => IInv
<1> SUFFICES ASSUME Init PROVE IInv
  OBVIOUS
<1> USE DEF Init
<1>1. {p \in Ops : pc[p] \in Inside} = {} /\ ToSet(pending) = {}
  BY DEF Inside, ToSet
<1>2. RunningCounted
  BY <1>1, FS_EmptySet DEF RunningCounted
<1>3. TypeOK
  <2>1. running \in 0..Cardinality(Ops)
    BY OpsAssumption, FS_CardinalityType
  <2>2. generation \in 0..MaxGenerations /\ start \in [Ops -> 0..MaxGenerations]
    BY BoundAssumption
  <2>3. pending \in Seq(Named) /\ Len(pending) <= MaxPending
    BY BoundAssumption
  <2> QED BY <2>1, <2>2, <2>3 DEF TypeOK, Points
<1>4. \A o \in Ops : Consistent(o)
  BY <1>1 DEF Consistent, TokenHeld, PublishedOnce, Meant, Outdated, Inside
<1> QED BY <1>2, <1>3, <1>4 DEF IInv, Barrier, UpdateQuiet

\* Every step of a request, a cancellation or the update keeps the invariant.
LEMMA StepKeeps == IInv /\ [Next]_vars => IInv'
<1> SUFFICES ASSUME IInv, [Next]_vars PROVE IInv'
  OBVIOUS
<1>1. ASSUME NEW o \in Ops, Request(o) PROVE IInv'
  BY <1>1, SendKeeps, RegisterKeeps, RegisterCancelledKeeps, RegisterRefusedKeeps,
     AdmitRunningKeeps, AdmitRefusedKeeps, PassesKeeps, StopsKeeps, FailsKeeps,
     BodyEndsKeeps, CommitKeeps, PublishKeeps, FinishKeeps, FinishCaptureKeeps,
     FinishCancelledKeeps DEF Request
<1>2. ASSUME NEW o \in Ops, CancelId(o) PROVE IInv'
  BY <1>2, CancelIdKeeps
<1>3. CASE Expire
  BY <1>3, ExpireKeeps
<1>4. CASE CancelAll
  BY <1>4, CancelAllKeeps
<1>5. CASE Update
  BY <1>5, PauseKeeps, QuietKeeps, ResumeKeeps, RetainKeeps DEF Update
<1>6. CASE UNCHANGED vars
  <2>1. TypeOK' /\ RunningCounted' /\ Barrier' /\ UpdateQuiet'
    BY <1>6 DEF IInv, vars, TypeOK, RunningCounted, Barrier, UpdateQuiet
  <2>2. ASSUME NEW p \in Ops PROVE Consistent(p)'
    BY <1>6 DEF IInv, vars, Consistent, TokenHeld, PublishedOnce, Committed, Meant, Outdated
  <2> QED BY <2>1, <2>2 DEF IInv
<1> QED BY <1>1, <1>2, <1>3, <1>4, <1>5, <1>6 DEF Next

\* The inductive invariant holds in every state of every behaviour.
THEOREM InvariantHolds == Spec => []IInv
<1>1. Init => IInv
  BY InitEstablishes
<1>2. IInv /\ [Next]_vars => IInv'
  BY StepKeeps
<1> QED BY <1>1, <1>2, PTL DEF Spec

\* RUNNING counts the requests inside run_with_token whichever way they leave
\* (success, refusal, failure, panic), for any number of requests.
THEOREM RunningAlwaysCounted == Spec => []RunningCounted
<1>1. IInv => RunningCounted
  BY DEF IInv
<1> QED BY <1>1, InvariantHolds, PTL

\* The types, and the bound on the registry of early cancellations, hold for
\* any number of requests, cancellations and updates.
THEOREM TypeCorrect == Spec => []TypeOK
<1>1. IInv => TypeOK
  BY DEF IInv
<1> QED BY <1>1, InvariantHolds, PTL

\* While the installer runs no request is inside run_with_token and none of the
\* page's waits there between its two runs.
THEOREM UpdateAlwaysQuiet == Spec => []UpdateQuiet
<1>1. IInv => UpdateQuiet
  BY DEF IInv
<1> QED BY <1>1, InvariantHolds, PTL

\* An answer is true of what happened: a request cancelled, refused or failed
\* published nothing, one that answered ok published what it publishes.
THEOREM AnswersAlwaysTrue == Spec => []AnswerTrue
<1>1. IInv => AnswerTrue
  BY DEF IInv, Consistent, PublishedOnce, AnswerTrue
<1> QED BY <1>1, InvariantHolds, PTL

\* A cancellation that comes before its request's token stops it, unless its
\* entry was dropped by age or number; and no request is stopped by one meant
\* for another.
THEOREM CancellationsAlwaysExact == Spec => []CancelExact
<1>1. ASSUME IInv PROVE EarlyCancelHeld
  <2> SUFFICES ASSUME NEW o \in early PROVE pc[o] \in {"sent", "done"} /\ result[o] # "ok"
    BY DEF EarlyCancelHeld
  <2>1. o \in Ops
    BY <1>1, OpsAssumption DEF IInv, TypeOK
  <2> QED BY <1>1, <2>1 DEF IInv, Consistent, PublishedOnce, Meant
<1>2. IInv => Isolated
  BY DEF IInv, Consistent, Meant, Isolated
<1> QED BY <1>1, <1>2, InvariantHolds, PTL DEF CancelExact

=============================================================================

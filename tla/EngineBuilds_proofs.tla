------------------------- MODULE EngineBuilds_proofs -------------------------
(* Proofs about EngineBuilds: it implements Operations, and what its builders *)
(* and the updater promise holds for every number of requests, sources and    *)
(* segments.                                                                 *)
EXTENDS EngineBuilds, Operations_proofs

-----------------------------------------------------------------------------
(* The inductive invariant, over that of the requests.                      *)

\* Who holds Registry, and who builds on its own, is in its body.
Engaged ==
    /\ holder # None => pc[holder.op] = "body"
    /\ \A o \in Ops : work[o] # None => pc[o] = "body"

\* A build of a request that says it was stopped was cancelled for good.
StoppedReal ==
    /\ \A o \in Ops : work[o] # None /\ work[o].step = "stopped" => Cancelled(o)
    /\ at = "built" => /\ outcome # "building"
                       /\ outcome = "stopped" => Superseded

\* Revisions only grow: the one that waits is the last, the worker's is no newer.
Revisions ==
    /\ queued # None => queued.revision = revision /\ revision > 0
    /\ job # None => job.revision \in 1..revision
    /\ active # None => busy
    /\ at \in {"claim", "building", "built"} => More

\* The claims are those of the builders, one for each.
Claimed ==
    /\ building = {SegmentOf(c) : c \in Claimants}
    /\ \A c, d \in Claimants : SegmentOf(c) = SegmentOf(d) => c = d

\* What prepare_for_update has seen stays so while it looks further.
Cleared == look \in {"building", "running", "work"} \/ updater \in {"installing", "retained"}
Seen ==
    /\ look # "off" <=> updater = "waiting"
    /\ Cleared => queued = None /\ (job # None => Superseded)
    /\ look \in {"running", "work"} \/ updater \in {"installing", "retained"} =>
         at \notin {"building", "built"}
    /\ look = "work" \/ updater \in {"installing", "retained"} => ~busy

EInv == /\ IInv
        /\ EngineTypeOK
        /\ Engaged
        /\ StoppedReal
        /\ Revisions
        /\ Claimed
        /\ Seen
        /\ ActiveAlive

-----------------------------------------------------------------------------
(* The engine is a system of requests.                                      *)

\* Every step of the builders, the worker and the updater is a step of
\* Operations or leaves the requests alone.
LEMMA SystemSteps == [SystemNext]_system => [Next]_vars
<1> SUFFICES ASSUME [SystemNext]_system PROVE [Next]_vars
  OBVIOUS
<1>1. CASE Working
  BY <1>1 DEF Working, Next, Update
<1>2. CASE Building
  <2>1. ASSUME NEW o \in Ops, NEW s \in Sources, SourcePublished(o, s) PROVE Next
    BY <2>1 DEF SourcePublished, Next, Request
  <2>2. ASSUME NEW o \in Ops, NEW k \in Keys, Look(o, k) \/ Rebuild(o, k) PROVE UNCHANGED vars
    BY <2>2 DEF Look, Rebuild
  <2>3. ASSUME NEW o \in Ops, Prepare(o) PROVE UNCHANGED vars
    BY <2>3 DEF Prepare, PrepareBegins, PrepareWants, PrepareLooks, PrepareClaims, PrepareBuilds,
       PrepareReleases, PrepareGoesOn, PrepareLeaves
  <2>4. ASSUME Enqueue \/ Take \/ Admitted \/ Consider \/ Claim PROVE UNCHANGED vars
    BY <2>4 DEF Enqueue, Take, Admitted, Consider, Claim
  <2>5. ASSUME Builds \/ Releases \/ Leave PROVE UNCHANGED vars
    BY <2>5 DEF Builds, Releases, Leave
  <2> QED BY <1>2, <2>1, <2>2, <2>3, <2>4, <2>5 DEF Building
<1>3. CASE Preparing
  BY <1>3 DEF Preparing, ClearQueue, SeesNoClaim, SeesWorker, SeesRequests, Next, Update
<1>4. CASE Begin
  BY <1>4 DEF Begin, Next, Update
<1>5. CASE GiveUp
  BY <1>5 DEF GiveUp, Next, Update
<1>6. CASE UNCHANGED system
  BY <1>6 DEF system
<1> QED BY <1>1, <1>2, <1>3, <1>4, <1>5, <1>6 DEF SystemNext

-----------------------------------------------------------------------------
(* Facts about the builders.                                                *)

\* The segment the worker is at is one of the index.
LEMMA SegmentTyped ==
  ASSUME EngineTypeOK, busy, More
  PROVE  Segment \in Segments
<1>1. job.key \in Keys /\ nth \in Nat \ {0}
  BY DEF EngineTypeOK, Requests
<1>2. Parts[job.key] \in Seq(Segments)
  BY <1>1, KeysAssumption DEF Segments
<1>3. nth \in DOMAIN Parts[job.key]
  BY <1>1, <1>2 DEF More
<1>4. Parts[job.key][nth] \in ToSet(Parts[job.key])
  BY <1>3 DEF ToSet
<1> QED BY <1>1, <1>4 DEF Segment, Segments

\* The worker at work has a request, no newer than the queue.
LEMMA JobDated ==
  ASSUME EngineTypeOK, Revisions, busy
  PROVE  /\ job \in Requests /\ job # None
         /\ job.revision \in Nat /\ revision \in Nat
         /\ job.revision > 0 /\ job.revision <= revision
BY NoneAssumption DEF EngineTypeOK, Revisions, Requests

\* A request the worker finds superseded stays so: revisions only grow.
LEMMA OutdatedStays ==
  ASSUME EngineTypeOK, Revisions, busy, Superseded, job' = job,
         revision' \in {revision, revision + 1}
  PROVE  Superseded'
BY JobDated DEF Superseded

\* Who was seen cancelled in its body stays so: flags and generation only grow.
LEMMA CancelledStays ==
  ASSUME IInv, IInv', [Next]_vars, NEW o \in Ops,
         pc[o] = "body", pc'[o] = "body", Cancelled(o)
  PROVE  Cancelled(o)'
<1> USE DEF Cancelled
<1>1. bound'[o]
  BY DEF IInv, Consistent, TokenHeld
<1>2. start[o] <= generation /\ start[o] \in Nat /\ generation \in Nat /\ flag[o] \in BOOLEAN
  BY DEF IInv, Consistent, Outdated, TypeOK
<1>3. start'[o] = start[o] /\ (flag[o] => flag'[o]) /\ generation' \in {generation, generation + 1}
  <2> USE DEF barrier, tokens, history, Answer, Goto
  <2>1. ASSUME NEW p \in Ops, Request(p)
        PROVE  start'[o] = start[o] /\ flag' = flag /\ generation' = generation
    <3>1. ASSUME Send(p) \/ Register(p)
          PROVE  start'[o] = start[o] /\ flag' = flag /\ generation' = generation
      BY <3>1 DEF Send, Register, IInv, TypeOK
    <3>2. ASSUME ~(Send(p) \/ Register(p))
          PROVE  start' = start /\ flag' = flag /\ generation' = generation
      BY <2>1, <3>2 DEF Request, RegisterCancelled, RegisterRefused, AdmitRunning,
         AdmitRefused, Passes, Stops, Fails, BodyEnds, Commit, Publish, Finish,
         FinishCapture, FinishCancelled
    <3> QED BY <3>1, <3>2
  <2>2. ASSUME NEW p \in Ops, CancelId(p) PROVE <1>3!1 /\ <1>3!2 /\ generation' = generation
    BY <2>2 DEF CancelId, IInv, TypeOK
  <2>3. CASE Expire
    BY <2>3 DEF Expire
  <2>4. CASE CancelAll
    BY <2>4 DEF CancelAll, AdvanceGeneration
  <2>5. CASE Update
    BY <2>5 DEF Update, Pause, Quiet, Resume, Retain, AdvanceGeneration
  <2>6. CASE UNCHANGED vars
    BY <2>6 DEF vars
  <2> QED BY <2>1, <2>2, <2>3, <2>4, <2>5, <2>6 DEF Next
<1> QED BY <1>1, <1>2, <1>3

\* The requests move while no builder does: whoever is inside the engine stays
\* where it is, and the updater at most becomes "retained".
LEMMA WorkingStays ==
  ASSUME TypeOK, Working
  PROVE  /\ \A o \in Ops : ~Outside(o) => pc'[o] = pc[o]
         /\ updater' = updater \/ (updater = "installing" /\ updater' = "retained")
<1> USE DEF barrier, tokens, history, Answer, Goto
<1>1. ASSUME NEW o \in Ops, Request(o)
      PROVE  (\A p \in Ops \ {o} : pc'[p] = pc[p]) /\ updater' = updater
  <2>1. ASSUME \/ Send(o) \/ Register(o) \/ RegisterCancelled(o) \/ RegisterRefused(o)
               \/ AdmitRunning(o) \/ AdmitRefused(o) \/ Passes(o) \/ Stops(o)
        PROVE  (\A p \in Ops \ {o} : pc'[p] = pc[p]) /\ updater' = updater
    BY <2>1 DEF TypeOK, Send, Register, RegisterCancelled, RegisterRefused, AdmitRunning,
       AdmitRefused, Passes, Stops
  <2>2. ASSUME \/ Fails(o) \/ BodyEnds(o) \/ Commit(o) \/ Publish(o) \/ Finish(o)
               \/ FinishCapture(o) \/ FinishCancelled(o)
        PROVE  (\A p \in Ops \ {o} : pc'[p] = pc[p]) /\ updater' = updater
    BY <2>2 DEF TypeOK, Fails, BodyEnds, Commit, Publish, Finish, FinishCapture, FinishCancelled
  <2> QED BY <1>1, <2>1, <2>2 DEF Request
<1>2. ASSUME NEW o \in Ops, CancelId(o) PROVE pc' = pc /\ updater' = updater
  BY <1>2 DEF CancelId
<1>3. ASSUME Expire \/ CancelAll PROVE pc' = pc /\ updater' = updater
  BY <1>3 DEF Expire, CancelAll, AdvanceGeneration
<1>4. ASSUME Retain PROVE pc' = pc /\ updater = "installing" /\ updater' = "retained"
  BY <1>4 DEF Retain
<1> QED BY <1>1, <1>2, <1>3, <1>4 DEF Working

\* The claims stay those of the builders when none comes, goes or moves.
LEMMA SameClaims ==
  ASSUME Claimed, building' = building, Claimants' = Claimants,
         \A c \in Claimants : SegmentOf(c)' = SegmentOf(c)
  PROVE  Claimed'
BY DEF Claimed

-----------------------------------------------------------------------------
(* The steps.                                                               *)

\* The requests move; no builder does.
LEMMA WorkingKeeps ==
  ASSUME EInv, IInv', Working
  PROVE  EInv'
<1> USE DEF EInv, Working, registry, queue, worker, engine, vars
<1>1. EngineTypeOK'
  BY RolesAssumption, NoneAssumption DEF EngineTypeOK, IInv, Outcomes, Requests, Holders
<1>2. Engaged'
  BY WorkingStays, RolesAssumption DEF Engaged, Outside, EngineTypeOK, Holders
<1>3. StoppedReal'
  <2>1. ASSUME NEW o \in Ops, work[o] # None, Cancelled(o) PROVE Cancelled(o)'
    <3>1. pc[o] = "body" /\ pc'[o] = "body"
      BY <2>1, WorkingStays DEF Engaged, Outside, IInv
    <3>2. [Next]_vars
      BY SystemSteps DEF SystemNext
    <3> QED BY <2>1, <3>1, <3>2, CancelledStays
  <2> QED BY <2>1 DEF StoppedReal, Superseded
<1>4. Revisions'
  BY NoneAssumption DEF Revisions, EngineTypeOK, More, Requests
<1>5. Claimed'
  <2>1. Claimants' = Claimants /\ \A c \in Claimants : SegmentOf(c)' = SegmentOf(c)
    BY NoneAssumption DEF Claimants, SegmentOf, Segment, PrepareAt, Own
  <2> QED BY <2>1, SameClaims
<1>6. Seen'
  <2>1. updater' = updater \/ (updater = "installing" /\ updater' = "retained")
    BY WorkingStays DEF IInv
  <2> QED BY <2>1 DEF Seen, Cleared, Superseded
<1>7. ActiveAlive'
  BY NoneAssumption DEF ActiveAlive, Revisions, EngineTypeOK, Requests
<1> QED BY <1>1, <1>2, <1>3, <1>4, <1>5, <1>6, <1>7

\* A request in its body finds a segment missing.
LEMMA LookKeeps ==
  ASSUME EInv, IInv', NEW o \in Ops, NEW k \in Keys, Look(o, k)
  PROVE  EInv'
<1> USE DEF EInv, Look, registry, queue, worker, engine, vars
<1>1. EngineTypeOK'
  <2>1. ToSet(Parts[k]) \subseteq Segments
    BY DEF Segments
  <2>2. holder' \in Holders
    BY DEF Holders
  <2>3. wanted' \subseteq Segments /\ failed' \subseteq Segments
    BY <2>1 DEF EngineTypeOK
  <2> QED BY <2>2, <2>3 DEF EngineTypeOK, IInv
<1>2. Engaged'
  BY NoneAssumption, RolesAssumption DEF Engaged, Outside, EngineTypeOK, Holders
<1>3. StoppedReal'
  BY DEF StoppedReal, Cancelled, Superseded, EngineTypeOK, Outcomes
<1>4. Revisions'
  BY NoneAssumption DEF Revisions, EngineTypeOK, More, Requests
<1>5. Claimed'
  <2>1. Claimants' = Claimants /\ \A c \in Claimants : SegmentOf(c)' = SegmentOf(c)
    BY NoneAssumption DEF Claimants, SegmentOf, Segment, PrepareAt, Own
  <2> QED BY <2>1, SameClaims
<1>6. Seen'
  BY NoneAssumption DEF Seen, Cleared, Superseded, Revisions, EngineTypeOK, Requests, IInv, Barrier
<1>7. ActiveAlive'
  BY NoneAssumption DEF ActiveAlive, Revisions, EngineTypeOK, Requests
<1> QED BY <1>1, <1>2, <1>3, <1>4, <1>5, <1>6, <1>7

\* A request asks for what failed again.
LEMMA RebuildKeeps ==
  ASSUME EInv, IInv', NEW o \in Ops, NEW k \in Keys, Rebuild(o, k)
  PROVE  EInv'
<1> USE DEF EInv, Rebuild, registry, queue, worker, engine, vars
<1>1. EngineTypeOK'
  <2>1. ToSet(Parts[k]) \subseteq Segments
    BY DEF Segments
  <2>2. holder' \in Holders
    BY DEF Holders
  <2>3. wanted' \subseteq Segments /\ failed' \subseteq Segments
    BY <2>1 DEF EngineTypeOK
  <2> QED BY <2>2, <2>3 DEF EngineTypeOK, IInv
<1>2. Engaged'
  BY NoneAssumption, RolesAssumption DEF Engaged, Outside, EngineTypeOK, Holders
<1>3. StoppedReal'
  BY DEF StoppedReal, Cancelled, Superseded, EngineTypeOK, Outcomes
<1>4. Revisions'
  BY NoneAssumption DEF Revisions, EngineTypeOK, More, Requests
<1>5. Claimed'
  <2>1. Claimants' = Claimants /\ \A c \in Claimants : SegmentOf(c)' = SegmentOf(c)
    BY NoneAssumption DEF Claimants, SegmentOf, Segment, PrepareAt, Own
  <2> QED BY <2>1, SameClaims
<1>6. Seen'
  BY NoneAssumption DEF Seen, Cleared, Superseded, Revisions, EngineTypeOK, Requests, IInv, Barrier
<1>7. ActiveAlive'
  BY NoneAssumption DEF ActiveAlive, Revisions, EngineTypeOK, Requests
<1> QED BY <1>1, <1>2, <1>3, <1>4, <1>5, <1>6, <1>7

\* The newest revision waits, unless the barrier stands.
LEMMA EnqueueKeeps ==
  ASSUME EInv, IInv', Enqueue
  PROVE  EInv'
<1> USE DEF EInv, Enqueue, registry, queue, worker, engine, vars
<1>1. EngineTypeOK'
  <2>1. holder.key \in Keys /\ revision \in Nat
    BY DEF EngineTypeOK, Holders, Free
  <2>2. /\ queued' = None \/ queued' \in Requests
        /\ revision' \in {revision, revision + 1}
    BY <2>1 DEF EngineTypeOK, Requests
  <2> QED BY <2>1, <2>2 DEF EngineTypeOK, IInv
<1>2. Engaged'
  BY NoneAssumption, RolesAssumption DEF Engaged, Outside, EngineTypeOK, Holders
<1>3. StoppedReal'
  <2>1. Superseded => Superseded' \/ at # "built"
    BY OutdatedStays DEF EngineTypeOK
  <2> QED BY <2>1 DEF StoppedReal, Cancelled
<1>4. Revisions'
  BY NoneAssumption DEF Revisions, EngineTypeOK, More, Requests
<1>5. Claimed'
  <2>1. Claimants' = Claimants /\ \A c \in Claimants : SegmentOf(c)' = SegmentOf(c)
    BY NoneAssumption DEF Claimants, SegmentOf, Segment, PrepareAt, Own
  <2> QED BY <2>1, SameClaims
<1>6. Seen'
  BY NoneAssumption DEF Seen, Cleared, Superseded, Revisions, EngineTypeOK, Requests, IInv, Barrier
<1>7. ActiveAlive'
  <2>1. CASE UNCHANGED <<queued, revision>>
    BY <2>1 DEF ActiveAlive
  <2>2. CASE queued' = [key |-> holder.key, revision |-> revision + 1]
    <3>1. queued' # None
      <4>1. queued' \in Requests
        BY <2>2 DEF EngineTypeOK, Holders, Requests, Free
      <4> QED BY <4>1, NoneAssumption
    <3> QED BY <3>1 DEF ActiveAlive
  <2> QED BY <2>1, <2>2
<1> QED BY <1>1, <1>2, <1>3, <1>4, <1>5, <1>6, <1>7

\* A request moves inside prepare_variant: nobody else does, and the index, the
\* registry and its place are all that may change.
OwnStep(o) ==
    /\ UNCHANGED <<vars, holder, queue, worker, look, drained>>
    /\ pc[o] = "body" /\ o \in Prepares
    /\ work' \in [Ops -> {None} \cup OwnBuilds]
    /\ \A p \in Ops \ {o} : work'[p] = work[p]
Claiming == {"building", "ok", "failed", "stopped"}

\* What is left of a list of segments that is longer than one.
LEMMA TailTyped ==
  ASSUME NEW S, NEW s \in Seq(S), s # <<>>, Len(s) # 1
  PROVE  Tail(s) \in Seq(S) /\ Tail(s) # <<>>
<1>1. Tail(s) \in Seq(S) /\ Len(Tail(s)) = Len(s) - 1
  BY HeadTailProperties
<1>2. Len(s) \in Nat /\ Len(s) # 0
  BY LenProperties, EmptySeq
<1>3. Len(Tail(s)) # 0
  BY <1>1, <1>2
<1> QED BY <1>1, <1>3

\* Where a request goes on to: another step of its segment, the next variant, or
\* its body.
LEMMA Moves ==
  ASSUME EngineTypeOK, NEW o \in Ops, work[o] # None
  PROVE  /\ o \in Prepares /\ Own(o) \in Segments
         /\ GoOn(o) \/ GiveBack(o) \/ (\E step \in Steps : GoTo(o, step)) =>
              /\ work' \in [Ops -> {None} \cup OwnBuilds]
              /\ \A p \in Ops \ {o} : work'[p] = work[p]
         /\ GiveBack(o) => work'[o] = None
         /\ GoOn(o) => (work'[o] # None => work'[o].step = "wanting")
         /\ \A step \in Steps : GoTo(o, step) =>
              work'[o] # None /\ work'[o].step = step /\ Own(o)' = Own(o)
<1>1. /\ work \in [Ops -> {None} \cup OwnBuilds] /\ work[o] \in OwnBuilds /\ o \in Prepares
      /\ work[o].segments \in Seq(Segments) /\ work[o].segments # <<>>
  BY DEF EngineTypeOK, OwnBuilds
<1>2. ASSUME NEW step \in Steps, GoTo(o, step)
      PROVE  /\ work' \in [Ops -> {None} \cup OwnBuilds]
             /\ \A p \in Ops \ {o} : work'[p] = work[p]
             /\ work'[o] # None /\ work'[o].step = step /\ Own(o)' = Own(o)
  <2> DEFINE there == [work[o] EXCEPT !.step = step]
  <2>1. work' = [work EXCEPT ![o] = there]
    BY <1>2 DEF GoTo
  <2>2. there \in OwnBuilds /\ there.step = step /\ there.segments = work[o].segments
    BY <1>1 DEF OwnBuilds
  <2>3. there # None
    BY <2>2, NoneAssumption
  <2> HIDE DEF there
  <2>4. work'[o] = there
    BY <1>1, <2>1
  <2> QED BY <1>1, <2>1, <2>2, <2>3, <2>4 DEF Own
<1>3. ASSUME GoOn(o)
      PROVE  /\ work' \in [Ops -> {None} \cup OwnBuilds]
             /\ \A p \in Ops \ {o} : work'[p] = work[p]
             /\ work'[o] # None => work'[o].step = "wanting"
  <2> DEFINE there == Rest(work[o].segments)
  <2>1. there \in {None} \cup OwnBuilds /\ (there # None => there.step = "wanting")
    <3>1. CASE Len(work[o].segments) = 1
      BY <3>1 DEF Rest
    <3>2. CASE Len(work[o].segments) # 1
      <4>1. Tail(work[o].segments) \in Seq(Segments) /\ Tail(work[o].segments) # <<>>
        BY <1>1, <3>2, TailTyped
      <4> QED BY <3>2, <4>1 DEF Rest, OwnBuilds, Steps
    <3> QED BY <3>1, <3>2
  <2>2. work' = [work EXCEPT ![o] = there]
    BY <1>3 DEF GoOn
  <2> HIDE DEF there
  <2> QED BY <1>1, <2>1, <2>2
<1>4. ASSUME GiveBack(o)
      PROVE  /\ work' \in [Ops -> {None} \cup OwnBuilds]
             /\ \A p \in Ops \ {o} : work'[p] = work[p]
             /\ work'[o] = None
  BY <1>1, <1>4 DEF GiveBack
<1>5. Own(o) \in Segments
  BY <1>1 DEF Own
<1> QED BY <1>1, <1>2, <1>3, <1>4, <1>5

\* A step of a request inside prepare_variant keeps the invariant if it keeps the
\* registry's types and claims and is not stopped without a reason.
LEMMA OwnStepKeeps ==
  ASSUME EInv, IInv', NEW o \in Ops, OwnStep(o),
         {store', wanted', failed', building'} \subseteq SUBSET Segments,
         work'[o] # None /\ work'[o].step = "stopped" => Cancelled(o),
         Claimed'
  PROVE  EInv'
<1> USE DEF EInv, OwnStep, queue, worker, vars
<1>1. EngineTypeOK'
  BY DEF EngineTypeOK, IInv
<1>2. Engaged'
  BY DEF Engaged
<1>3. StoppedReal'
  BY DEF StoppedReal, Cancelled, Superseded
<1>4. Revisions'
  BY DEF Revisions, More
<1>5. Seen'
  BY DEF Seen, Cleared, Superseded
<1>6. ActiveAlive'
  BY DEF ActiveAlive
<1> QED BY <1>1, <1>2, <1>3, <1>4, <1>5, <1>6

\* The builders' claims when one request moves: as they were, one more, one less.
LEMMA OwnClaims ==
  ASSUME EngineTypeOK, Claimed, NEW o \in Ops, OwnStep(o)
  PROVE  /\ (/\ PrepareAt(o, Claiming)' = PrepareAt(o, Claiming) /\ building' = building
             /\ PrepareAt(o, Claiming) => Own(o)' = Own(o))
            => Claimed'
         /\ (/\ ~PrepareAt(o, Claiming) /\ PrepareAt(o, Claiming)'
             /\ Own(o)' \notin building /\ building' = building \cup {Own(o)'})
            => Claimed'
         /\ (/\ PrepareAt(o, Claiming) /\ ~PrepareAt(o, Claiming)'
             /\ building' = building \ {Own(o)})
            => Claimed'
<1> USE DEF OwnStep, worker
<1>1. \A p \in Ops : p # None
  BY NoneAssumption
<1>2. \A c \in Claimants \ {o} : SegmentOf(c)' = SegmentOf(c)
  BY <1>1 DEF Claimants, SegmentOf, Segment, Own
<1>3. SegmentOf(o) = Own(o) /\ SegmentOf(o)' = Own(o)'
  BY <1>1 DEF SegmentOf
<1>4. \A p \in Ops \ {o} : PrepareAt(p, Claiming)' = PrepareAt(p, Claiming)
  BY DEF PrepareAt
<1>5. /\ PrepareAt(o, Claiming) = (o \in Claimants)
      /\ PrepareAt(o, Claiming)' = (o \in Claimants')
  BY <1>1 DEF Claimants, Claiming, PrepareAt
<1>6. Claimants' \ {o} = Claimants \ {o}
  BY <1>1, <1>4 DEF Claimants, Claiming
<1> HIDE DEF OwnStep
<1>7. ASSUME PrepareAt(o, Claiming)' = PrepareAt(o, Claiming), building' = building,
             PrepareAt(o, Claiming) => Own(o)' = Own(o)
      PROVE  Claimed'
  <2>1. Claimants' = Claimants
    BY <1>5, <1>6, <1>7
  <2> QED BY <1>2, <1>3, <1>5, <1>7, <2>1, SameClaims
<1>8. ASSUME ~PrepareAt(o, Claiming), PrepareAt(o, Claiming)',
             Own(o)' \notin building, building' = building \cup {Own(o)'}
      PROVE  Claimed'
  <2>1. Claimants' = Claimants \cup {o} /\ o \notin Claimants
    BY <1>5, <1>6, <1>8
  <2> QED BY <1>2, <1>3, <1>8, <2>1 DEF Claimed
<1>9. ASSUME PrepareAt(o, Claiming), ~PrepareAt(o, Claiming)', building' = building \ {Own(o)}
      PROVE  Claimed'
  <2>1. Claimants' = Claimants \ {o} /\ o \in Claimants
    BY <1>5, <1>6, <1>9
  <2> QED BY <1>2, <1>3, <1>9, <2>1 DEF Claimed
<1> QED BY <1>7, <1>8, <1>9

\* A request begins to prepare a key.
LEMMA PrepareBeginsKeeps ==
  ASSUME EInv, IInv', NEW o \in Ops, NEW k \in Keys, PrepareBegins(o, k)
  PROVE  EInv'
<1> USE DEF EInv, PrepareBegins
<1>1. [segments |-> Parts[k], step |-> "wanting"] \in OwnBuilds
  BY KeysAssumption DEF OwnBuilds, Steps, Segments
<1> DEFINE there == [segments |-> Parts[k], step |-> "wanting"]
<1>2. there.step = "wanting"
  OBVIOUS
<1>3. work[o] = None /\ work' = [work EXCEPT ![o] = there] /\ there \in OwnBuilds
  BY <1>1 DEF Outside
<1> HIDE DEF there
<1>4. OwnStep(o) /\ work'[o] = there
  BY <1>3 DEF OwnStep, EngineTypeOK
<1>5. Claimed'
  BY <1>2, <1>3, <1>4, OwnClaims DEF PrepareAt, Claiming, registry
<1> QED BY <1>2, <1>4, <1>5, OwnStepKeeps DEF EngineTypeOK, registry

\* A segment becomes wanted.
LEMMA PrepareWantsKeeps ==
  ASSUME EInv, IInv', NEW o \in Ops, PrepareWants(o)
  PROVE  EInv'
<1> USE DEF EInv, PrepareWants, PrepareAt
<1>1. OwnStep(o) /\ work'[o] # None /\ work'[o].step = "looking"
  BY Moves DEF OwnStep, Engaged, Steps
<1>2. Claimed'
  BY <1>1, OwnClaims DEF Claiming
<1> QED BY <1>1, <1>2, Moves, OwnStepKeeps DEF EngineTypeOK

\* A segment that is there is passed over; a cancelled request returns.
LEMMA PrepareLooksKeeps ==
  ASSUME EInv, IInv', NEW o \in Ops, PrepareLooks(o)
  PROVE  EInv'
<1> USE DEF EInv, PrepareLooks, PrepareAt
<1>1. OwnStep(o) /\ (work'[o] # None => work'[o].step \in {"wanting", "claiming"})
  BY Moves DEF OwnStep, Engaged, Steps
<1>2. Claimed'
  BY <1>1, OwnClaims DEF Claiming, registry
<1> QED BY <1>1, <1>2, OwnStepKeeps DEF EngineTypeOK, registry

\* A request claims what nobody builds, even while an update prepares.
LEMMA PrepareClaimsKeeps ==
  ASSUME EInv, IInv', NEW o \in Ops, PrepareClaims(o)
  PROVE  EInv'
<1> USE DEF EInv, PrepareClaims, PrepareAt
<1>1. OwnStep(o) /\ (work'[o] # None => work'[o].step \in {"wanting", "building"})
  BY Moves DEF OwnStep, Engaged, Steps
<1>2. Claimed'
  <2>1. CASE Own(o) \in building
    <3>1. work'[o] # None => work'[o].step = "wanting"
      BY <2>1, Moves
    <3> QED BY <1>1, <2>1, <3>1, OwnClaims DEF Claiming
  <2>2. CASE Own(o) \notin building
    <3>1. work'[o] # None /\ work'[o].step = "building" /\ Own(o)' = Own(o)
      BY <2>2, Moves DEF Steps
    <3> QED BY <1>1, <2>2, <3>1, OwnClaims DEF Claiming
  <2> QED BY <2>1, <2>2
<1> QED BY <1>1, <1>2, Moves, OwnStepKeeps DEF EngineTypeOK

\* A request's build ends; its claim stays.
LEMMA PrepareBuildsKeeps ==
  ASSUME EInv, IInv', NEW o \in Ops, NEW r \in {"ok", "failed", "stopped"}, PrepareBuilds(o, r)
  PROVE  EInv'
<1> USE DEF EInv, PrepareBuilds, PrepareAt
<1>1. OwnStep(o) /\ work'[o] # None /\ work'[o].step = r /\ Own(o)' = Own(o)
  BY Moves DEF OwnStep, Engaged, Steps
<1>2. Claimed'
  BY <1>1, OwnClaims DEF Claiming, registry
<1>3. r = "stopped" => Cancelled(o)
  BY DEF IInv, Consistent, TokenHeld, Outdated, Engaged, Cancelled, Inside
<1> QED BY <1>1, <1>2, <1>3, Moves, OwnStepKeeps DEF EngineTypeOK, registry

\* A request's claim goes with its build.
LEMMA PrepareReleasesKeeps ==
  ASSUME EInv, IInv', NEW o \in Ops, PrepareReleases(o)
  PROVE  EInv'
<1> USE DEF EInv, PrepareReleases, PrepareAt
<1>1. OwnStep(o) /\ work'[o] # None /\ work'[o].step = "released"
  BY Moves DEF OwnStep, Engaged, Steps
<1>2. Claimed'
  BY <1>1, OwnClaims DEF Claiming
<1> QED BY <1>1, <1>2, Moves, OwnStepKeeps DEF EngineTypeOK

\* A request goes on to the next variant, or returns to its body.
LEMMA PrepareGoesKeeps ==
  ASSUME EInv, IInv', NEW o \in Ops, PrepareGoesOn(o) \/ PrepareLeaves(o)
  PROVE  EInv'
<1> USE DEF EInv, PrepareGoesOn, PrepareLeaves, PrepareAt
<1>1. OwnStep(o) /\ (work'[o] # None => work'[o].step = "wanting")
  BY Moves DEF OwnStep, Engaged
<1>2. Claimed'
  BY <1>1, OwnClaims DEF Claiming, registry
<1> QED BY <1>1, <1>2, OwnStepKeeps DEF EngineTypeOK, registry

\* A publication drops what the queue and the worker have of another source.
LEMMA SourcePublishedKeeps ==
  ASSUME EInv, IInv', NEW o \in Ops, NEW s \in Sources, SourcePublished(o, s)
  PROVE  EInv'
<1> USE DEF EInv, SourcePublished, registry, queue, worker, engine, vars, Publish, Goto, barrier, tokens, history, RetainSource, PendingKept, ActiveKept, PendingRemoved
<1>1. EngineTypeOK'
  BY RolesAssumption, NoneAssumption DEF EngineTypeOK, IInv, Outcomes, Requests, Holders
<1>2. Engaged'
  BY NoneAssumption, RolesAssumption DEF Engaged, Outside, EngineTypeOK, Holders
<1>3. StoppedReal'
  <2>1. \A p \in Ops : Cancelled(p)' = Cancelled(p)
    BY DEF Cancelled
  <2>2. at = "built" /\ Superseded => Superseded'
    BY OutdatedStays DEF EngineTypeOK
  <2> QED BY <2>1, <2>2 DEF StoppedReal
<1>4. Revisions'
  BY NoneAssumption DEF Revisions, EngineTypeOK, More, Requests
<1>5. Claimed'
  <2>1. Claimants' = Claimants /\ \A c \in Claimants : SegmentOf(c)' = SegmentOf(c)
    BY NoneAssumption DEF Claimants, SegmentOf, Segment, PrepareAt, Own
  <2> QED BY <2>1, SameClaims
<1>6. Seen'
  BY NoneAssumption DEF Seen, Cleared, Superseded, Revisions, EngineTypeOK, Requests, IInv, Barrier
<1>7. ActiveAlive'
  BY NoneAssumption DEF ActiveAlive, Revisions, EngineTypeOK, Requests
<1> QED BY <1>1, <1>2, <1>3, <1>4, <1>5, <1>6, <1>7

\* The worker takes the request that waits.
LEMMA TakeKeeps ==
  ASSUME EInv, IInv', Take
  PROVE  EInv'
<1> USE DEF EInv, Take, registry, queue, worker, engine, vars
<1>1. EngineTypeOK'
  <2>1. queued \in Requests /\ queued.key \in Keys
    BY DEF EngineTypeOK, Requests
  <2>2. busy' = (at' # "idle") /\ job' \in Requests /\ busy'
    BY <2>1
  <2>3. /\ queued' = None /\ active' \in Keys /\ nth' \in Nat \ {0}
        /\ at' = "admission"
    BY <2>1
  <2>4. /\ {store', wanted', failed', building'} \subseteq SUBSET Segments
        /\ holder' = None \/ holder' \in Holders
        /\ work' \in [Ops -> {None} \cup OwnBuilds]
        /\ \A o \in Ops \ Prepares : work'[o] = None
        /\ revision' \in Nat /\ drained' \in 0..revision'
        /\ outcome' \in Outcomes
        /\ look' \in {"off", "queue", "building", "running", "work"}
    BY DEF EngineTypeOK
  <2> QED BY <2>2, <2>3, <2>4 DEF EngineTypeOK, IInv
<1>2. Engaged'
  BY NoneAssumption, RolesAssumption DEF Engaged, Outside, EngineTypeOK, Holders
<1>3. StoppedReal'
  BY DEF StoppedReal, Cancelled, Superseded, EngineTypeOK, Outcomes
<1>4. Revisions'
  BY NoneAssumption DEF Revisions, EngineTypeOK, More, Requests
<1>5. Claimed'
  <2>1. Claimants' = Claimants /\ \A c \in Claimants : SegmentOf(c)' = SegmentOf(c)
    BY NoneAssumption DEF Claimants, SegmentOf, Segment, PrepareAt, Own
  <2> QED BY <2>1, SameClaims
<1>6. Seen'
  BY NoneAssumption DEF Seen, Cleared, Superseded, Revisions, EngineTypeOK, Requests, IInv, Barrier
<1>7. ActiveAlive'
  BY NoneAssumption DEF ActiveAlive, Revisions, EngineTypeOK, Requests
<1> QED BY <1>1, <1>2, <1>3, <1>4, <1>5, <1>6, <1>7

\* The worker is admitted.
LEMMA AdmittedKeeps ==
  ASSUME EInv, IInv', Admitted
  PROVE  EInv'
<1> USE DEF EInv, Admitted, registry, queue, worker, engine, vars
<1>1. EngineTypeOK'
  BY RolesAssumption, NoneAssumption DEF EngineTypeOK, IInv, Outcomes, Requests, Holders
<1>2. Engaged'
  BY NoneAssumption, RolesAssumption DEF Engaged, Outside, EngineTypeOK, Holders
<1>3. StoppedReal'
  BY DEF StoppedReal, Cancelled, Superseded, EngineTypeOK, Outcomes
<1>4. Revisions'
  BY NoneAssumption DEF Revisions, EngineTypeOK, More, Requests
<1>5. Claimed'
  <2>1. Claimants' = Claimants /\ \A c \in Claimants : SegmentOf(c)' = SegmentOf(c)
    BY NoneAssumption DEF Claimants, SegmentOf, Segment, PrepareAt, Own
  <2> QED BY <2>1, SameClaims
<1>6. Seen'
  BY NoneAssumption DEF Seen, Cleared, Superseded, Revisions, EngineTypeOK, Requests, IInv, Barrier
<1>7. ActiveAlive'
  BY NoneAssumption DEF ActiveAlive, Revisions, EngineTypeOK, Requests
<1> QED BY <1>1, <1>2, <1>3, <1>4, <1>5, <1>6, <1>7

\* The worker passes a segment over, or goes to claim it.
LEMMA ConsiderKeeps ==
  ASSUME EInv, IInv', Consider
  PROVE  EInv'
<1> USE DEF EInv, Consider, registry, queue, worker, engine, vars
<1>1. EngineTypeOK'
  BY RolesAssumption, NoneAssumption DEF EngineTypeOK, IInv, Outcomes, Requests, Holders
<1>2. Engaged'
  BY NoneAssumption, RolesAssumption DEF Engaged, Outside, EngineTypeOK, Holders
<1>3. StoppedReal'
  BY DEF StoppedReal, Cancelled, Superseded, EngineTypeOK, Outcomes
<1>4. Revisions'
  BY NoneAssumption DEF Revisions, EngineTypeOK, More, Requests
<1>5. Claimed'
  <2>1. Claimants' = Claimants /\ \A c \in Claimants : SegmentOf(c)' = SegmentOf(c)
    BY NoneAssumption DEF Claimants, SegmentOf, Segment, PrepareAt, Own
  <2> QED BY <2>1, SameClaims
<1>6. Seen'
  BY NoneAssumption DEF Seen, Cleared, Superseded, Revisions, EngineTypeOK, Requests, IInv, Barrier
<1>7. ActiveAlive'
  BY NoneAssumption DEF ActiveAlive, Revisions, EngineTypeOK, Requests
<1> QED BY <1>1, <1>2, <1>3, <1>4, <1>5, <1>6, <1>7

\* The worker claims what nobody builds, if it is still current.
LEMMA ClaimKeeps ==
  ASSUME EInv, IInv', Claim
  PROVE  EInv'
<1> USE DEF EInv, Claim, registry, queue, worker, engine, vars
<1>1. EngineTypeOK'
  <2>1. Segment \in Segments /\ busy
    BY SegmentTyped DEF Revisions, EngineTypeOK
  <2> QED BY <2>1 DEF EngineTypeOK, IInv
<1>2. Engaged'
  BY NoneAssumption, RolesAssumption DEF Engaged, Outside, EngineTypeOK, Holders
<1>3. StoppedReal'
  BY DEF StoppedReal, Cancelled, Superseded, EngineTypeOK, Outcomes
<1>4. Revisions'
  BY NoneAssumption DEF Revisions, EngineTypeOK, More, Requests
<1>5. Claimed'
  <2>1. Segment' = Segment \/ at' # "building"
    BY DEF Segment
  <2>2. CASE at' = "segment"
    <3>1. Claimants' = Claimants /\ building' = building /\ None \notin Claimants
      BY <2>2, NoneAssumption DEF Claimants, PrepareAt
    <3>2. \A c \in Claimants : SegmentOf(c)' = SegmentOf(c)
      BY <3>1 DEF SegmentOf, Own
    <3> QED BY <3>1, <3>2, SameClaims
  <2>3. CASE at' = "building"
    <3>1. /\ Claimants' = Claimants \cup {None} /\ None \notin Claimants
          /\ Segment \notin building /\ building' = building \cup {Segment}
      BY <2>3, NoneAssumption DEF Claimants, PrepareAt
    <3>2. SegmentOf(None)' = Segment /\ \A c \in Claimants : SegmentOf(c)' = SegmentOf(c)
      BY <2>1, <2>3, <3>1 DEF SegmentOf, Own
    <3> QED BY <3>1, <3>2 DEF Claimed
  <2> QED BY <2>2, <2>3
<1>6. Seen'
  BY NoneAssumption DEF Seen, Cleared, Superseded, Revisions, EngineTypeOK, Requests, IInv, Barrier
<1>7. ActiveAlive'
  BY NoneAssumption DEF ActiveAlive, Revisions, EngineTypeOK, Requests
<1> QED BY <1>1, <1>2, <1>3, <1>4, <1>5, <1>6, <1>7

\* The worker's build ends; its claim stays.
LEMMA BuildsKeeps ==
  ASSUME EInv, IInv', Builds
  PROVE  EInv'
<1> USE DEF EInv, Builds, registry, queue, worker, engine, vars
<1>1. EngineTypeOK'
  <2>1. Segment \in Segments /\ busy
    BY SegmentTyped DEF Revisions, EngineTypeOK
  <2> QED BY <2>1 DEF EngineTypeOK, IInv, Outcomes
<1>2. Engaged'
  BY NoneAssumption, RolesAssumption DEF Engaged, Outside, EngineTypeOK, Holders
<1>3. StoppedReal'
  BY DEF StoppedReal, Cancelled, Superseded, EngineTypeOK, Outcomes
<1>4. Revisions'
  BY NoneAssumption DEF Revisions, EngineTypeOK, More, Requests
<1>5. Claimed'
  <2>1. Claimants' = Claimants /\ \A c \in Claimants : SegmentOf(c)' = SegmentOf(c)
    BY NoneAssumption DEF Claimants, SegmentOf, Segment, PrepareAt, Own
  <2> QED BY <2>1, SameClaims
<1>6. Seen'
  BY NoneAssumption DEF Seen, Cleared, Superseded, Revisions, EngineTypeOK, Requests, IInv, Barrier
<1>7. ActiveAlive'
  BY NoneAssumption DEF ActiveAlive, Revisions, EngineTypeOK, Requests
<1> QED BY <1>1, <1>2, <1>3, <1>4, <1>5, <1>6, <1>7

\* The worker's claim goes with its build.
LEMMA ReleasesKeeps ==
  ASSUME EInv, IInv', Releases
  PROVE  EInv'
<1> USE DEF EInv, Releases, registry, queue, worker, engine, vars
<1>1. EngineTypeOK'
  <2>1. Segment \in Segments /\ busy
    BY SegmentTyped DEF Revisions, EngineTypeOK
  <2> QED BY <2>1 DEF EngineTypeOK, IInv
<1>2. Engaged'
  BY NoneAssumption, RolesAssumption DEF Engaged, Outside, EngineTypeOK, Holders
<1>3. StoppedReal'
  BY DEF StoppedReal, Cancelled, Superseded, EngineTypeOK, Outcomes
<1>4. Revisions'
  BY NoneAssumption DEF Revisions, EngineTypeOK, More, Requests
<1>5. Claimed'
  <2>1. None \in Claimants /\ Claimants' = Claimants \ {None}
    BY NoneAssumption DEF Claimants, PrepareAt
  <2>2. building' = building \ {SegmentOf(None)}
    BY DEF SegmentOf, Own
  <2>3. \A c \in Claimants \ {None} : SegmentOf(c)' = SegmentOf(c)
    BY DEF SegmentOf, Own
  <2> QED BY <2>1, <2>2, <2>3 DEF Claimed
<1>6. Seen'
  BY NoneAssumption DEF Seen, Cleared, Superseded, Revisions, EngineTypeOK, Requests, IInv, Barrier
<1>7. ActiveAlive'
  BY NoneAssumption DEF ActiveAlive, Revisions, EngineTypeOK, Requests
<1> QED BY <1>1, <1>2, <1>3, <1>4, <1>5, <1>6, <1>7

\* The worker is idle again.
LEMMA LeaveKeeps ==
  ASSUME EInv, IInv', Leave
  PROVE  EInv'
<1> USE DEF EInv, Leave, registry, queue, worker, engine, vars
<1>1. EngineTypeOK'
  <2>1. busy' = (at' # "idle") /\ job' = None /\ ~busy'
    OBVIOUS
  <2> QED BY <2>1 DEF EngineTypeOK, IInv, Outcomes
<1>2. Engaged'
  BY NoneAssumption, RolesAssumption DEF Engaged, Outside, EngineTypeOK, Holders
<1>3. StoppedReal'
  BY DEF StoppedReal, Cancelled, Superseded, EngineTypeOK, Outcomes
<1>4. Revisions'
  BY NoneAssumption DEF Revisions, EngineTypeOK, More, Requests
<1>5. Claimed'
  <2>1. Claimants' = Claimants /\ \A c \in Claimants : SegmentOf(c)' = SegmentOf(c)
    BY NoneAssumption DEF Claimants, SegmentOf, Segment, PrepareAt, Own
  <2> QED BY <2>1, SameClaims
<1>6. Seen'
  BY NoneAssumption DEF Seen, Cleared, Superseded, Revisions, EngineTypeOK, Requests, IInv, Barrier
<1>7. ActiveAlive'
  BY NoneAssumption DEF ActiveAlive, Revisions, EngineTypeOK, Requests
<1> QED BY <1>1, <1>2, <1>3, <1>4, <1>5, <1>6, <1>7

\* The updater outdates whatever the worker is at.
LEMMA ClearQueueKeeps ==
  ASSUME EInv, IInv', ClearQueue
  PROVE  EInv'
<1> USE DEF EInv, ClearQueue, registry, queue, worker, engine, vars
<1>1. EngineTypeOK'
  BY RolesAssumption, NoneAssumption DEF EngineTypeOK, IInv, Outcomes, Requests, Holders
<1>2. Engaged'
  BY NoneAssumption, RolesAssumption DEF Engaged, Outside, EngineTypeOK, Holders
<1>3. StoppedReal'
  <2>1. \A p \in Ops : Cancelled(p)' = Cancelled(p)
    BY DEF Cancelled
  <2>2. at = "built" /\ Superseded => Superseded'
    BY OutdatedStays DEF EngineTypeOK
  <2> QED BY <2>1, <2>2 DEF StoppedReal
<1>4. Revisions'
  BY NoneAssumption DEF Revisions, EngineTypeOK, More, Requests
<1>5. Claimed'
  <2>1. Claimants' = Claimants /\ \A c \in Claimants : SegmentOf(c)' = SegmentOf(c)
    BY NoneAssumption DEF Claimants, SegmentOf, Segment, PrepareAt, Own
  <2> QED BY <2>1, SameClaims
<1>6. Seen'
  BY NoneAssumption DEF Seen, Cleared, Superseded, Revisions, EngineTypeOK, Requests, IInv, Barrier
<1>7. ActiveAlive'
  BY NoneAssumption DEF ActiveAlive, Revisions, EngineTypeOK, Requests
<1> QED BY <1>1, <1>2, <1>3, <1>4, <1>5, <1>6, <1>7

\* The updater finds no claim, and none will come.
LEMMA SeesNoClaimKeeps ==
  ASSUME EInv, IInv', SeesNoClaim
  PROVE  EInv'
<1> USE DEF EInv, SeesNoClaim, registry, queue, worker, engine, vars
<1>1. EngineTypeOK'
  BY RolesAssumption, NoneAssumption DEF EngineTypeOK, IInv, Outcomes, Requests, Holders
<1>2. Engaged'
  BY NoneAssumption, RolesAssumption DEF Engaged, Outside, EngineTypeOK, Holders
<1>3. StoppedReal'
  BY DEF StoppedReal, Cancelled, Superseded, EngineTypeOK, Outcomes
<1>4. Revisions'
  BY NoneAssumption DEF Revisions, EngineTypeOK, More, Requests
<1>5. Claimed'
  <2>1. Claimants' = Claimants /\ \A c \in Claimants : SegmentOf(c)' = SegmentOf(c)
    BY NoneAssumption DEF Claimants, SegmentOf, Segment, PrepareAt, Own
  <2> QED BY <2>1, SameClaims
<1>6. Seen'
  <2>1. at \notin {"building", "built"}
    BY DEF Claimed, Claimants
  <2> QED BY <2>1, NoneAssumption DEF Seen, Cleared, Superseded, Revisions, EngineTypeOK, Requests, IInv, Barrier
<1>7. ActiveAlive'
  BY NoneAssumption DEF ActiveAlive, Revisions, EngineTypeOK, Requests
<1> QED BY <1>1, <1>2, <1>3, <1>4, <1>5, <1>6, <1>7

\* The updater finds the worker idle, or starts again.
LEMMA SeesWorkerKeeps ==
  ASSUME EInv, IInv', SeesWorker
  PROVE  EInv'
<1> USE DEF EInv, SeesWorker, registry, queue, worker, engine, vars
<1>1. EngineTypeOK'
  BY RolesAssumption, NoneAssumption DEF EngineTypeOK, IInv, Outcomes, Requests, Holders
<1>2. Engaged'
  BY NoneAssumption, RolesAssumption DEF Engaged, Outside, EngineTypeOK, Holders
<1>3. StoppedReal'
  BY DEF StoppedReal, Cancelled, Superseded, EngineTypeOK, Outcomes
<1>4. Revisions'
  BY NoneAssumption DEF Revisions, EngineTypeOK, More, Requests
<1>5. Claimed'
  <2>1. Claimants' = Claimants /\ \A c \in Claimants : SegmentOf(c)' = SegmentOf(c)
    BY NoneAssumption DEF Claimants, SegmentOf, Segment, PrepareAt, Own
  <2> QED BY <2>1, SameClaims
<1>6. Seen'
  BY NoneAssumption DEF Seen, Cleared, Superseded, Revisions, EngineTypeOK, Requests, IInv, Barrier
<1>7. ActiveAlive'
  BY NoneAssumption DEF ActiveAlive, Revisions, EngineTypeOK, Requests
<1> QED BY <1>1, <1>2, <1>3, <1>4, <1>5, <1>6, <1>7

\* The updater finds the requests quiet, or starts again.
LEMMA SeesRequestsKeeps ==
  ASSUME EInv, IInv', SeesRequests
  PROVE  EInv'
<1> USE DEF EInv, SeesRequests, registry, queue, worker, engine, vars, Quiet, tokens, history
<1>1. EngineTypeOK'
  BY RolesAssumption, NoneAssumption DEF EngineTypeOK, IInv, Outcomes, Requests, Holders
<1>2. Engaged'
  BY NoneAssumption, RolesAssumption DEF Engaged, Outside, EngineTypeOK, Holders
<1>3. StoppedReal'
  BY DEF StoppedReal, Cancelled, Superseded, EngineTypeOK, Outcomes
<1>4. Revisions'
  BY NoneAssumption DEF Revisions, EngineTypeOK, More, Requests
<1>5. Claimed'
  <2>1. Claimants' = Claimants /\ \A c \in Claimants : SegmentOf(c)' = SegmentOf(c)
    BY NoneAssumption DEF Claimants, SegmentOf, Segment, PrepareAt, Own
  <2> QED BY <2>1, SameClaims
<1>6. Seen'
  BY NoneAssumption DEF Seen, Cleared, Superseded, Revisions, EngineTypeOK, Requests, IInv, Barrier
<1>7. ActiveAlive'
  BY NoneAssumption DEF ActiveAlive, Revisions, EngineTypeOK, Requests
<1> QED BY <1>1, <1>2, <1>3, <1>4, <1>5, <1>6, <1>7

\* The updater puts the barrier.
LEMMA BeginKeeps ==
  ASSUME EInv, IInv', Begin
  PROVE  EInv'
<1> USE DEF EInv, Begin, registry, queue, worker, engine, vars, Pause, AdvanceGeneration, tokens
<1>1. EngineTypeOK'
  BY RolesAssumption, NoneAssumption DEF EngineTypeOK, IInv, Outcomes, Requests, Holders
<1>2. Engaged'
  BY NoneAssumption, RolesAssumption DEF Engaged, Outside, EngineTypeOK, Holders
<1>3. StoppedReal'
  <2>1. ASSUME NEW o \in Ops, work[o] # None, Cancelled(o) PROVE Cancelled(o)'
    <3>1. pc[o] = "body" /\ pc'[o] = "body"
      BY <2>1 DEF Engaged
    <3>2. [Next]_vars
      BY SystemSteps DEF SystemNext
    <3> QED BY <2>1, <3>1, <3>2, CancelledStays
  <2> QED BY <2>1 DEF StoppedReal, Superseded
<1>4. Revisions'
  BY NoneAssumption DEF Revisions, EngineTypeOK, More, Requests
<1>5. Claimed'
  <2>1. Claimants' = Claimants /\ \A c \in Claimants : SegmentOf(c)' = SegmentOf(c)
    BY NoneAssumption DEF Claimants, SegmentOf, Segment, PrepareAt, Own
  <2> QED BY <2>1, SameClaims
<1>6. Seen'
  BY NoneAssumption DEF Seen, Cleared, Superseded, Revisions, EngineTypeOK, Requests, IInv, Barrier
<1>7. ActiveAlive'
  BY NoneAssumption DEF ActiveAlive, Revisions, EngineTypeOK, Requests
<1> QED BY <1>1, <1>2, <1>3, <1>4, <1>5, <1>6, <1>7

\* The updater takes the barrier away.
LEMMA GiveUpKeeps ==
  ASSUME EInv, IInv', GiveUp
  PROVE  EInv'
<1> USE DEF EInv, GiveUp, registry, queue, worker, engine, vars, Resume, tokens, history
<1>1. EngineTypeOK'
  BY RolesAssumption, NoneAssumption DEF EngineTypeOK, IInv, Outcomes, Requests, Holders
<1>2. Engaged'
  BY NoneAssumption, RolesAssumption DEF Engaged, Outside, EngineTypeOK, Holders
<1>3. StoppedReal'
  BY DEF StoppedReal, Cancelled, Superseded, EngineTypeOK, Outcomes
<1>4. Revisions'
  BY NoneAssumption DEF Revisions, EngineTypeOK, More, Requests
<1>5. Claimed'
  <2>1. Claimants' = Claimants /\ \A c \in Claimants : SegmentOf(c)' = SegmentOf(c)
    BY NoneAssumption DEF Claimants, SegmentOf, Segment, PrepareAt, Own
  <2> QED BY <2>1, SameClaims
<1>6. Seen'
  BY NoneAssumption DEF Seen, Cleared, Superseded, Revisions, EngineTypeOK, Requests, IInv, Barrier
<1>7. ActiveAlive'
  BY NoneAssumption DEF ActiveAlive, Revisions, EngineTypeOK, Requests
<1> QED BY <1>1, <1>2, <1>3, <1>4, <1>5, <1>6, <1>7

-----------------------------------------------------------------------------
(* The theorems.                                                             *)

\* No segment, no builder, no update.
LEMMA SystemInitEstablishes == SystemInit => EInv
<1> SUFFICES ASSUME SystemInit PROVE EInv
  OBVIOUS
<1> USE DEF SystemInit
<1>1. IInv
  BY InitEstablishes
<1>2. EngineTypeOK
  <2>1. work \in [Ops -> {None} \cup OwnBuilds] /\ \A o \in Ops : work[o] = None
    OBVIOUS
  <2>2. busy = (at # "idle") /\ ~busy /\ job = None
    OBVIOUS
  <2> QED BY <1>1, <2>1, <2>2 DEF EngineTypeOK, IInv, Outcomes
<1>3. Claimants = {}
  BY DEF Claimants, PrepareAt
<1>4. Claimed
  BY <1>3 DEF Claimed
<1>5. Seen
  BY DEF Seen, Cleared, Init
<1> QED BY <1>1, <1>2, <1>4, <1>5 DEF EInv, Engaged, StoppedReal, Revisions, ActiveAlive

\* Every step of the requests, the builders, the worker and the updater keeps it.
LEMMA SystemStepKeeps == EInv /\ [SystemNext]_system => EInv'
<1> SUFFICES ASSUME EInv, [SystemNext]_system PROVE EInv'
  OBVIOUS
<1>1. IInv'
  BY SystemSteps, StepKeeps DEF EInv
<1>2. CASE Working
  BY <1>1, <1>2, WorkingKeeps
<1>3. CASE Building
  BY <1>1, <1>3, LookKeeps, RebuildKeeps, EnqueueKeeps, PrepareBeginsKeeps, PrepareWantsKeeps,
     PrepareLooksKeeps, PrepareClaimsKeeps, PrepareBuildsKeeps, PrepareReleasesKeeps,
     PrepareGoesKeeps, SourcePublishedKeeps, TakeKeeps, AdmittedKeeps, ConsiderKeeps,
     ClaimKeeps, BuildsKeeps, ReleasesKeeps, LeaveKeeps DEF Building, Prepare
<1>4. CASE Preparing
  BY <1>1, <1>4, ClearQueueKeeps, SeesNoClaimKeeps, SeesWorkerKeeps, SeesRequestsKeeps
     DEF Preparing
<1>5. CASE Begin
  BY <1>1, <1>5, BeginKeeps
<1>6. CASE GiveUp
  BY <1>1, <1>6, GiveUpKeeps
<1>7. CASE UNCHANGED system
  <2> USE <1>7 DEF system, engine, registry, queue, worker
  <2>1. EngineTypeOK' /\ Engaged' /\ Revisions' /\ Seen' /\ ActiveAlive'
    BY <1>1 DEF EInv, IInv, vars, EngineTypeOK, Engaged, Revisions, Seen, Cleared, Superseded,
       More, ActiveAlive
  <2>2. StoppedReal'
    BY DEF EInv, vars, StoppedReal, Cancelled, Superseded
  <2>3. Claimed'
    BY DEF EInv, Claimed, Claimants, SegmentOf, Segment, PrepareAt, Own
  <2> QED BY <1>1, <2>1, <2>2, <2>3 DEF EInv
<1> QED BY <1>2, <1>3, <1>4, <1>5, <1>6, <1>7 DEF SystemNext

\* The inductive invariant holds in every state of every behaviour.
THEOREM EngineInvariantHolds == SystemSpec => []EInv
<1>1. SystemInit => EInv
  BY SystemInitEstablishes
<1>2. EInv /\ [SystemNext]_system => EInv'
  BY SystemStepKeeps
<1> QED BY <1>1, <1>2, PTL DEF SystemSpec

\* The engine with its requests implements Operations: a builder, the worker or
\* the updater never does to a request what Operations does not.
THEOREM EngineImplementsOperations == SystemSpec => Spec
<1>1. SystemInit => Init
  BY DEF SystemInit
<1>2. [SystemNext]_system => [Next]_vars
  BY SystemSteps
<1> QED BY <1>1, <1>2, PTL DEF SystemSpec, Spec

\* So the answers, cancellations, count and quiet of the requests are those of
\* Operations while segments are built and an update prepares.
THEOREM EngineKeepsRequestsCorrect ==
  SystemSpec => [](RunningCounted /\ UpdateQuiet /\ AnswerTrue /\ CancelExact)
BY EngineImplementsOperations, RunningAlwaysCounted, UpdateAlwaysQuiet, AnswersAlwaysTrue,
   CancellationsAlwaysExact, PTL

\* The types of the engine; the worker says it runs exactly while it does.
THEOREM EngineTypeCorrect == SystemSpec => []EngineTypeOK
<1>1. EInv => EngineTypeOK
  BY DEF EInv
<1> QED BY <1>1, EngineInvariantHolds, PTL

\* The installer starts only when no segment is being built and none will be:
\* the updater's three looks, one after another, are as good as one, although a
\* request that began before the pause may claim after the claims were read.
THEOREM InstallAlwaysQuiet == SystemSpec => []InstallQuiet
<1>1. ASSUME EInv PROVE InstallQuiet
  <2> SUFFICES ASSUME updater \in {"installing", "retained"}
               PROVE  building = {} /\ ~busy /\ queued = None /\ holder = None
    BY DEF InstallQuiet
  <2>1. ~busy /\ queued = None /\ at \notin {"building", "built"}
    BY <1>1 DEF EInv, Seen, Cleared
  <2>2. ASSUME holder # None PROVE FALSE
    <3>1. holder.op \in Ops /\ pc[holder.op] = "body"
      BY <1>1, <2>2, RolesAssumption DEF EInv, EngineTypeOK, Holders, Engaged
    <3> QED BY <1>1, <3>1 DEF EInv, IInv, UpdateQuiet, Inside
  <2>3. building = {}
    <3>1. \A o \in Ops : work[o] = None
      BY <1>1 DEF EInv, IInv, UpdateQuiet, Inside, Engaged
    <3>2. Claimants = {}
      BY <2>1, <3>1 DEF Claimants, PrepareAt
    <3> QED BY <1>1, <3>2 DEF EInv, Claimed
  <2> QED BY <2>1, <2>2, <2>3
<1> QED BY <1>1, EngineInvariantHolds, PTL

\* No two builders build one segment, and no claim is left behind.
THEOREM ClaimsAlwaysExact == SystemSpec => []ClaimsExact
<1>1. ASSUME EInv PROVE ClaimsExact
  <2>1. building = {SegmentOf(c) : c \in Claimants}
        /\ \A c, d \in Claimants : SegmentOf(c) = SegmentOf(d) => c = d
    BY <1>1 DEF EInv, Claimed
  <2>2. IsFiniteSet(Claimants)
    <3>1. IsFiniteSet(Ops \cup {None})
      BY OpsAssumption, FS_AddElement
    <3>2. Claimants \subseteq Ops \cup {None}
      BY DEF Claimants
    <3> QED BY <3>1, <3>2, FS_Subset
  <2> DEFINE f == [c \in Claimants |-> SegmentOf(c)]
  <2>3. f \in Bijection(Claimants, building)
    <3>1. f \in [Claimants -> building]
      BY <2>1
    <3>2. \A c, d \in Claimants : f[c] = f[d] => c = d
      BY <2>1
    <3>3. \A s \in building : \E c \in Claimants : f[c] = s
      BY <2>1
    <3> HIDE DEF f
    <3> QED BY <3>1, <3>2, <3>3 DEF Bijection, Injection, Surjection, IsInjective
  <2>4. Cardinality(building) = Cardinality(Claimants)
    BY <2>2, <2>3, FS_Bijection DEF ExistsBijection
  <2> QED BY <2>1, <2>4 DEF ClaimsExact
<1> QED BY <1>1, EngineInvariantHolds, PTL

\* What the queue shows as active is still to be built, so that a fresh request
\* is never taken for one the worker was told to drop.
THEOREM ActiveAlwaysAlive == SystemSpec => []ActiveAlive
<1>1. EInv => ActiveAlive
  BY DEF EInv
<1> QED BY <1>1, EngineInvariantHolds, PTL

\* A segment is recorded as failed only when its build failed.
THEOREM FailuresAlwaysReal == SystemSpec => FailureReal
<1>1. ASSUME EInv, [SystemNext]_system PROVE [FailureStep]_system
  <2> USE <1>1 DEF EInv
  <2>1. CASE Releases
    <3>1. outcome # "stopped" \/ Superseded
      BY <2>1 DEF Releases, StoppedReal
    <3>2. \A s \in failed' \ failed : s = Segment /\ outcome \notin {"ok", "stopped", "building"}
      BY <2>1, <3>1 DEF Releases, StoppedReal
    <3> QED BY <2>1, <3>2 DEF Releases, FailureStep, EngineTypeOK, Outcomes
  <2>2. ASSUME NEW o \in Ops, PrepareReleases(o) PROVE FailureStep
    <3>1. ASSUME NEW s \in failed' \ failed
          PROVE  s = Own(o) /\ PrepareAt(o, {"failed"})
      BY <2>2 DEF PrepareReleases, PrepareAt, StoppedReal
    <3> QED BY <3>1 DEF FailureStep
  <2>3. ASSUME failed' \subseteq failed PROVE FailureStep
    BY <2>3 DEF FailureStep
  <2>4. CASE Working \/ Preparing \/ Begin \/ GiveUp
    BY <2>3, <2>4 DEF Working, engine, registry, Preparing, ClearQueue, SeesNoClaim, SeesWorker,
       SeesRequests, Begin, GiveUp
  <2>5. CASE Building
    <3>1. ASSUME NEW o \in Ops, NEW k \in Keys, Look(o, k) \/ Rebuild(o, k)
          PROVE  failed' \subseteq failed
      BY <3>1 DEF Look, Rebuild
    <3>2. ASSUME NEW o \in Ops, Prepare(o), ~PrepareReleases(o)
          PROVE  failed' \subseteq failed
      BY <3>2 DEF Prepare, PrepareBegins, PrepareWants, PrepareLooks, PrepareClaims,
         PrepareBuilds, PrepareGoesOn, PrepareLeaves, registry
    <3>3. ASSUME NEW o \in Ops, NEW s \in Sources, SourcePublished(o, s)
          PROVE  failed' \subseteq failed
      BY <3>3 DEF SourcePublished
    <3>4. ASSUME Enqueue \/ Take \/ Admitted \/ Consider \/ Claim \/ Builds \/ Leave
          PROVE  failed' \subseteq failed
      BY <3>4 DEF Enqueue, Take, Admitted, Consider, Claim, Builds, Leave, registry
    <3> QED BY <2>1, <2>2, <2>3, <2>5, <3>1, <3>2, <3>3, <3>4 DEF Building, Prepare
  <2> QED BY <1>1, <2>4, <2>5 DEF SystemNext
<1> QED BY <1>1, EngineInvariantHolds, PTL DEF SystemSpec, FailureReal

=============================================================================

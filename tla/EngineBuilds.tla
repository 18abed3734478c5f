------------------------------ MODULE EngineBuilds ------------------------------
(***************************************************************************)
(* The builders of the columnar engine (src-tauri/src/engine/mod.rs) and   *)
(* the updater, composed with the requests of Operations.  A request whose *)
(* body needs a segment of the index builds it itself (prepare_variant) or *)
(* leaves it to the one background worker (schedule, run_background); the  *)
(* registry's claims keep two builders off one segment.  prepare_for_update*)
(* pauses admissions, empties the queue, then reads the claims, the worker *)
(* and the requests one after another until all are quiet.                 *)
(***************************************************************************)
EXTENDS Operations

CONSTANTS
    Keys,         \* what a background request asks for: a source under a configuration
    Parts,        \* the segments each needs, the base first: one for each variant
    SourceOf,     \* the source each is about
    Schedules,    \* requests whose body asks the background worker
    Prepares,     \* requests whose body builds on its own
    None,
    MaxRevision   \* bound: when nothing more is scheduled

ASSUME KeysAssumption ==
    Parts \in [Keys -> Seq(UNION {ToSet(Parts[k]) : k \in Keys}) \ {<<>>}]
ASSUME RolesAssumption == Schedules \cup Prepares \subseteq Ops

VARIABLES
    store,     \* segments on disk, complete
    wanted, failed, building,  \* of Registry
    holder,    \* the request inside schedule, which holds Registry, and its key
    work,      \* by request: the segments it still prepares, and where it is
    queued, active, revision, busy,  \* BackgroundQueue: pending, active, revision, running
    job,       \* the worker's request
    at, nth, outcome,  \* where the worker is, at which segment, how the build went
    look,      \* where prepare_for_update is
    drained    \* history: the revision prepare_for_update last set

registry == <<wanted, failed, building>>
queue    == <<queued, active, revision, busy>>
worker   == <<job, at, nth, outcome>>
engine   == <<store, registry, holder, work, queue, worker, look, drained>>
system   == <<vars, engine>>

Segments == UNION {ToSet(Parts[k]) : k \in Keys}
Requests == [key : Keys, revision : Nat]
Outcomes == {"building", "ok", "failed", "stopped", "unwanted"}
Holders == [op : Schedules, key : Keys]
Steps == {"wanting", "looking", "claiming", "building", "ok", "failed", "stopped", "released"}
OwnBuilds == [segments : Seq(Segments) \ {<<>>}, step : Steps]

\* Option::None is no value of the types it is an option of.
ASSUME NoneAssumption == None \notin Ops \cup Holders \cup Requests \cup OwnBuilds

SystemInit ==
    /\ Init
    /\ store = {} /\ wanted = {} /\ failed = {} /\ building = {}
    /\ holder = None
    /\ work = [o \in Ops |-> None]
    /\ queued = None /\ active = None /\ revision = 0 /\ busy = FALSE
    /\ job = None /\ at = "idle" /\ nth = 1 /\ outcome = "ok"
    /\ look = "off"
    /\ drained = 0

\* Only schedule keeps Registry's mutex from one step to the next.
Free == holder = None

\* A request's thread is not inside the engine.
Outside(o) == work[o] = None /\ (holder # None => holder.op # o)

-----------------------------------------------------------------------------
(* Requests.                                                               *)

\* session_checked finds a segment missing and calls schedule, whose first
\* check passes.
Look(o, k) ==
    /\ pc[o] = "body" /\ o \in Schedules /\ Outside(o) /\ Free
    /\ ~paused
    /\ revision < MaxRevision
    /\ Last(Parts[k]) \notin store \cup failed
    /\ wanted' = (IF Len(Parts[k]) = 1 THEN wanted ELSE {}) \cup ToSet(Parts[k])
    /\ holder' = [op |-> o, key |-> k]
    /\ UNCHANGED <<vars, store, failed, building, work, queue, worker, look, drained>>

\* request_rebuild: the definitions changed; what failed is tried again.
Rebuild(o, k) ==
    /\ pc[o] = "body" /\ o \in Schedules /\ Outside(o) /\ Free
    /\ ~paused
    /\ revision < MaxRevision
    /\ wanted' = ToSet(Parts[k])
    /\ failed' = failed \ {Last(Parts[k])}
    /\ holder' = [op |-> o, key |-> k]
    /\ UNCHANGED <<vars, store, building, work, queue, worker, look, drained>>

\* supersedes: another source or configuration, unless it only asks for the base
\* of the same source and the current one has derived fields.
Supersedes(new, current) ==
    /\ new # current
    /\ ~(/\ SourceOf[new] = SourceOf[current]
         /\ Len(Parts[new]) = 1 /\ Len(Parts[current]) > 1)
Latest == IF queued # None THEN queued.key ELSE active
Known(k) == Latest # None /\ ~Supersedes(k, Latest)

EnqueueFault ==  \* the barrier is not looked at again under the queue's lock
    /\ ~Free
    /\ holder' = None
    /\ IF Known(holder.key) THEN UNCHANGED <<queued, revision>>
       ELSE /\ revision' = revision + 1
            /\ queued' = [key |-> holder.key, revision |-> revision + 1]
    /\ UNCHANGED <<vars, store, registry, work, active, busy, worker, look, drained>>

\* The rest of schedule, under the queue's lock.
Enqueue ==
    /\ ~Free
    /\ holder' = None
    /\ IF paused \/ Known(holder.key) THEN UNCHANGED <<queued, revision>>
       ELSE /\ revision' = revision + 1
            /\ queued' = [key |-> holder.key, revision |-> revision + 1]
    /\ UNCHANGED <<vars, store, registry, work, active, busy, worker, look, drained>>

\* Where a request that prepares is, at which segment, and the ways on.
PrepareAt(o, steps) == work[o] # None /\ work[o].step \in steps
Own(o) == Head(work[o].segments)
GoTo(o, step) == work' = [work EXCEPT ![o].step = step]
Rest(segments) == IF Len(segments) = 1 THEN None
                  ELSE [segments |-> Tail(segments), step |-> "wanting"]
GoOn(o) == work' = [work EXCEPT ![o] = Rest(work[o].segments)]
GiveBack(o) == work' = [work EXCEPT ![o] = None]

\* prepare_detailed: the barrier is looked at once, before the first variant.
PrepareBegins(o, k) ==
    /\ pc[o] = "body" /\ o \in Prepares /\ Outside(o)
    /\ ~paused
    /\ work' = [work EXCEPT ![o] = [segments |-> Parts[k], step |-> "wanting"]]
    /\ UNCHANGED <<vars, store, registry, holder, queue, worker, look, drained>>

\* prepare_variant, of the base and then of the derived fields.
PrepareWants(o) ==
    /\ PrepareAt(o, {"wanting"}) /\ Free
    /\ wanted' = wanted \cup {Own(o)}
    /\ GoTo(o, "looking")
    /\ UNCHANGED <<vars, store, failed, building, holder, queue, worker, look, drained>>

\* The segment is there, the request is cancelled, or it goes to claim it.
PrepareLooks(o) ==
    /\ PrepareAt(o, {"looking"})
    /\ \/ Own(o) \in store /\ GoOn(o)
       \/ Own(o) \notin store /\ Cancelled(o) /\ GiveBack(o)
       \/ Own(o) \notin store /\ ~Cancelled(o) /\ GoTo(o, "claiming")
    /\ UNCHANGED <<vars, store, registry, holder, queue, worker, look, drained>>

PrepareClaimsFault(o) ==  \* the other builder's claim is not looked at
    /\ PrepareAt(o, {"claiming"}) /\ Free
    /\ failed' = failed \ {Own(o)}
    /\ building' = building \cup {Own(o)}
    /\ GoTo(o, "building")
    /\ UNCHANGED <<vars, store, wanted, holder, queue, worker, look, drained>>

\* A segment that is being built is left out; a failed one is tried again.
PrepareClaims(o) ==
    /\ PrepareAt(o, {"claiming"}) /\ Free
    /\ IF Own(o) \in building
       THEN GoOn(o) /\ UNCHANGED <<failed, building>>
       ELSE /\ failed' = failed \ {Own(o)}
            /\ building' = building \cup {Own(o)}
            /\ GoTo(o, "building")
    /\ UNCHANGED <<vars, store, wanted, holder, queue, worker, look, drained>>

\* run_job: built, failed, or stopped at one of its looks at the cancellation.
PrepareBuilds(o, r) ==
    /\ PrepareAt(o, {"building"})
    /\ r = "stopped" => Cancelled(o) \/ paused
    /\ GoTo(o, r)
    /\ store' = IF r = "ok" THEN store \cup {Own(o)} ELSE store
    /\ UNCHANGED <<vars, registry, holder, queue, worker, look, drained>>

PrepareReleasesFault(o) ==  \* a build that was stopped is recorded as failed
    /\ PrepareAt(o, {"ok", "failed", "stopped"}) /\ Free
    /\ building' = building \ {Own(o)}
    /\ failed' = IF work[o].step # "ok" THEN failed \cup {Own(o)} ELSE failed
    /\ GoTo(o, "released")
    /\ UNCHANGED <<vars, store, wanted, holder, queue, worker, look, drained>>

PrepareReleases(o) ==
    /\ PrepareAt(o, {"ok", "failed", "stopped"}) /\ Free
    /\ building' = building \ {Own(o)}
    /\ failed' = IF work[o].step # "ok" /\ ~(Cancelled(o) \/ paused)
                 THEN failed \cup {Own(o)} ELSE failed
    /\ GoTo(o, "released")
    /\ UNCHANGED <<vars, store, wanted, holder, queue, worker, look, drained>>

\* Built or failed, the next variant is prepared, unless the request is
\* cancelled by now.
PrepareGoesOn(o) ==
    /\ PrepareAt(o, {"released"})
    /\ IF Cancelled(o) \/ paused THEN GiveBack(o) ELSE GoOn(o)
    /\ UNCHANGED <<vars, store, registry, holder, queue, worker, look, drained>>

\* validate_source, before a variant and after a build: a source changed.
PrepareLeaves(o) ==
    /\ PrepareAt(o, {"wanting", "released"})
    /\ GiveBack(o)
    /\ UNCHANGED <<vars, store, registry, holder, queue, worker, look, drained>>

Prepare(o) ==
    \/ \E k \in Keys : PrepareBegins(o, k)
    \/ PrepareWants(o) \/ PrepareLooks(o) \/ PrepareClaims(o)
    \/ \E r \in {"ok", "failed", "stopped"} : PrepareBuilds(o, r)
    \/ PrepareReleases(o) \/ PrepareGoesOn(o) \/ PrepareLeaves(o)

\* What a publication leaves: a source, or None when it clears the source or
\* publishes one the engine has nothing of.
Sources == {SourceOf[k] : k \in Keys} \cup {None}
SegmentsOf(s) == UNION {ToSet(Parts[k]) : k \in {k \in Keys : SourceOf[k] = s}}

PendingKept(s) == queued # None /\ SourceOf[queued.key] = s
ActiveKept(s) == active # None /\ SourceOf[active] = s
PendingRemoved(s) == queued # None /\ ~PendingKept(s)

RetainFault(s) ==  \* active work whose successor is dropped still looks current
    /\ queued' = IF PendingKept(s) THEN queued ELSE None
    /\ active' = IF ActiveKept(s) THEN active ELSE None
    /\ revision' = IF revision > 0 /\ ~PendingKept(s) /\ (~ActiveKept(s) \/ PendingRemoved(s))
                   THEN revision + 1 ELSE revision

\* BackgroundQueue::retain_source: work for the source that is published goes
\* on, unless a request that is dropped had superseded it.  There is no queue
\* before the first request is scheduled.
RetainSource(s) ==
    /\ queued' = IF PendingKept(s) THEN queued ELSE None
    /\ active' = IF ActiveKept(s) /\ ~PendingRemoved(s) THEN active ELSE None
    /\ revision' = IF revision > 0 /\ ~PendingKept(s) /\ (~ActiveKept(s) \/ PendingRemoved(s))
                   THEN revision + 1 ELSE revision

\* engine::source_published, under the write guard of the publication: what is
\* wanted or failed of other sources is forgotten, their claims stay.
SourcePublished(o, s) ==
    /\ Free
    /\ Publish(o)
    /\ wanted' = wanted \cap SegmentsOf(s)
    /\ failed' = failed \cap SegmentsOf(s)
    /\ RetainSource(s)
    /\ UNCHANGED <<store, building, holder, work, busy, worker, look, drained>>

-----------------------------------------------------------------------------
(* The worker.                                                             *)

Segment == Parts[job.key][nth]
Superseded == revision # job.revision
More == nth <= Len(Parts[job.key])

Take ==
    /\ at = "idle" /\ queued # None
    /\ job' = queued
    /\ active' = queued.key
    /\ queued' = None
    /\ busy' = TRUE
    /\ at' = "admission"
    /\ nth' = 1
    /\ UNCHANGED <<vars, store, registry, holder, work, revision, outcome, look, drained>>

\* global_scheduler::run, with the cancellation of run_background.
Admitted ==
    /\ at = "admission" /\ ~Superseded /\ ~paused
    /\ at' = "segment"
    /\ UNCHANGED <<vars, store, registry, holder, work, queue, job, nth, outcome, look, drained>>

\* A segment is wanted and not there, or it is passed over.
Consider ==
    /\ at = "segment" /\ More /\ Free
    /\ ~Superseded /\ Segment \in wanted
    /\ IF Segment \in store THEN nth' = nth + 1 /\ at' = at
                            ELSE nth' = nth /\ at' = "claim"
    /\ UNCHANGED <<vars, store, registry, holder, work, queue, job, outcome, look, drained>>

Claim ==
    /\ at = "claim" /\ Free
    /\ IF Superseded \/ Segment \notin wanted \/ Segment \in failed \cup building
       THEN at' = "segment" /\ nth' = nth + 1 /\ UNCHANGED building
       ELSE at' = "building" /\ nth' = nth /\ building' = building \cup {Segment}
    /\ UNCHANGED <<vars, store, wanted, failed, holder, work, queue, job, outcome, look, drained>>

\* run_job, which looks at the cancellation only now and then.
Builds ==
    /\ at = "building"
    /\ \/ outcome' = "ok" /\ store' = store \cup {Segment}
       \/ outcome' = "failed" /\ UNCHANGED store
       \/ Superseded /\ outcome' = "stopped" /\ UNCHANGED store
       \/ Free /\ Segment \notin wanted /\ outcome' = "unwanted" /\ UNCHANGED store
    /\ at' = "built"
    /\ UNCHANGED <<vars, registry, holder, work, queue, job, nth, look, drained>>

\* was_cancelled, and the registry's update.
Releases ==
    /\ at = "built" /\ Free
    /\ LET stop == Superseded \/ Segment \notin wanted IN
       /\ failed' = IF outcome # "ok" /\ ~stop THEN failed \cup {Segment} ELSE failed
       /\ at' = IF outcome # "ok" \/ stop THEN "leaving" ELSE "segment"
    /\ building' = building \ {Segment}
    /\ nth' = nth + 1
    /\ UNCHANGED <<vars, store, wanted, holder, work, queue, job, outcome, look, drained>>

\* Running is dropped.  Between its two stores the worker only looks busy.
Leave ==
    /\ \/ at = "leaving"
       \/ at = "admission" /\ (Superseded \/ paused)
       \/ at = "segment" /\ ~More
       \/ at = "segment" /\ More /\ (Superseded \/ (Free /\ Segment \notin wanted))
    /\ active' = None
    /\ busy' = FALSE
    /\ at' = "idle" /\ job' = None /\ nth' = 1 /\ outcome' = "ok"
    /\ UNCHANGED <<vars, store, registry, holder, work, queued, revision, look, drained>>

-----------------------------------------------------------------------------
(* The updater: prepare_for_update.                                        *)

Begin ==
    /\ Pause
    /\ look' = "queue"
    /\ UNCHANGED <<store, registry, holder, work, queue, worker, drained>>

ClearQueue ==
    /\ look = "queue"
    /\ queued' = None
    /\ revision' = IF revision = 0 THEN 0 ELSE revision + 1
    /\ drained' = revision'
    /\ look' = "building"
    /\ UNCHANGED <<vars, store, registry, holder, work, active, busy, worker>>

\* One round: the claims, then the worker, then the requests.
SeesNoClaim ==
    /\ look = "building" /\ Free /\ building = {}
    /\ look' = "running"
    /\ UNCHANGED <<vars, store, registry, holder, work, queue, worker, drained>>

SeesWorker ==
    /\ look = "running"
    /\ look' = IF busy THEN "building" ELSE "work"
    /\ UNCHANGED <<vars, store, registry, holder, work, queue, worker, drained>>

SeesRequests ==
    /\ look = "work"
    /\ \/ Quiet /\ look' = "off"
       \/ ~(live = {} /\ running = 0) /\ look' = "building" /\ UNCHANGED vars
    /\ UNCHANGED <<store, registry, holder, work, queue, worker, drained>>

\* The deadline, at the end of a round; or the installer fails.
GiveUp ==
    /\ look \in {"building", "off"}
    /\ Resume
    /\ look' = "off"
    /\ UNCHANGED <<store, registry, holder, work, queue, worker, drained>>

-----------------------------------------------------------------------------
Building ==
    \/ \E o \in Ops, k \in Keys : Look(o, k) \/ Rebuild(o, k)
    \/ \E o \in Ops : Prepare(o)
    \/ \E o \in Ops, s \in Sources : SourcePublished(o, s)
    \/ Enqueue \/ Take \/ Admitted \/ Consider \/ Claim \/ Builds \/ Releases \/ Leave

\* The requests, and those who cancel them.
Working ==
    /\ \/ \E o \in Ops : (Outside(o) /\ Request(o)) \/ CancelId(o)
       \/ Expire \/ CancelAll \/ Retain
    /\ UNCHANGED engine

Preparing == ClearQueue \/ SeesNoClaim \/ SeesWorker \/ SeesRequests

SystemNext == Working \/ Building \/ Preparing \/ Begin \/ GiveUp

SystemSpec == SystemInit /\ [][SystemNext]_system

-----------------------------------------------------------------------------
(* What must hold.                                                         *)

\* The type invariant; the worker says it is running exactly while it is.
EngineTypeOK ==
    /\ TypeOK
    /\ {store, wanted, failed, building} \subseteq SUBSET Segments
    /\ holder = None \/ holder \in Holders
    /\ work \in [Ops -> {None} \cup OwnBuilds]
    /\ \A o \in Ops \ Prepares : work[o] = None
    /\ queued = None \/ queued \in Requests
    /\ active \in Keys \cup {None}
    /\ revision \in Nat
    /\ busy = (at # "idle")
    /\ IF busy THEN job \in Requests ELSE job = None
    /\ at \in {"idle", "admission", "segment", "claim", "building", "built", "leaving"}
    /\ nth \in Nat \ {0}
    /\ outcome \in Outcomes
    /\ look \in {"off", "queue", "building", "running", "work"}
    /\ drained \in 0..revision

\* The installer starts only when no segment is being built and none will be,
\* although claims, worker and requests were read one after another.
InstallQuiet ==
    updater \in {"installing", "retained"} =>
        building = {} /\ ~busy /\ queued = None /\ holder = None

\* The registry's claims are those of the builders at work, one for each: no
\* two build one segment, and none is left behind.
Claimants == {o \in Ops : PrepareAt(o, {"building", "ok", "failed", "stopped"})}
               \cup (IF at \in {"building", "built"} THEN {None} ELSE {})
SegmentOf(c) == IF c = None THEN Segment ELSE Own(c)
ClaimsExact ==
    /\ building = {SegmentOf(c) : c \in Claimants}
    /\ Cardinality(building) = Cardinality(Claimants)

\* A fresh request is never taken for one the worker has been told to drop
\* (engine/mod.rs:2734): what active names is still to be built, unless a
\* newer request waits or the updater stopped it.
ActiveAlive ==
    active # None /\ queued = None =>
        job.revision = revision \/ job.revision < drained

\* A segment is recorded as failed, which keeps the source on the slow engine,
\* only when its build failed; being superseded or cancelled is no failure.  One
\* that stopped because nobody wanted it, and is wanted again before it looks a
\* second time, is recorded too: so does the code (l. 1714, 1720).
FailureStep ==
    \A s \in failed' \ failed :
        \/ at = "built" /\ outcome \in {"failed", "unwanted"} /\ Segment = s
        \/ \E o \in Ops : PrepareAt(o, {"failed"}) /\ Own(o) = s
FailureReal == [][FailureStep]_system

=============================================================================

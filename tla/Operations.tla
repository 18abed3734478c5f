------------------------------- MODULE Operations -------------------------------
(***************************************************************************)
(* Cooperative cancellation, and the barrier an update puts before new     *)
(* work (src-tauri/src/operations.rs, engine::prepare_for_update).         *)
(*                                                                         *)
(* The page sends a named request; its future registers a token, then a    *)
(* blocking thread runs it under run_with_token.  cancel_task may be       *)
(* handled before the request registers.  An MCP request has no name and   *)
(* only the generation.  A query is two runs under one token: capture,     *)
(* then execution.  A request that publishes calls commit() first and can  *)
(* no longer be cancelled.                                                 *)
(***************************************************************************)
EXTENDS Integers, Sequences, SequencesExt, FiniteSets

CONSTANTS
    Ops,             \* requests; every one has its own identifier
    Named,           \* those of the page; the others are MCP's
    Captures,        \* those that capture first, then execute
    Publishes,       \* those whose body changes application state
    MaxPending,      \* MAX_PENDING_CANCELS
    MaxGenerations   \* bound: cancel-alls and update attempts

ASSUME OpsAssumption == /\ IsFiniteSet(Ops)
                        /\ Named \subseteq Ops
                        /\ Captures \subseteq Named
                        /\ Publishes \subseteq Ops
ASSUME BoundAssumption == /\ MaxPending \in Nat \ {0}
                          /\ MaxGenerations \in Nat

VARIABLES
    generation,  \* GENERATION
    paused,      \* UPDATE_PAUSED
    running,     \* RUNNING
    pending,     \* PendingCancellations, the oldest first
    live,        \* the requests whose token some thread or future still holds
    flag,        \* Local.cancelled, by request
    start,       \* the generation a request's token captured
    bound,       \* does the thread still answer to its token (no commit yet)?
    pc, captured, result, published,
    updater,     \* where the installer of an update is
    asked, early, swept \* history: requests cancelled by name; those cancelled before
                 \* they had a token; those a cancel-all found with one

vars == <<generation, paused, running, pending, live, flag, start, bound, pc,
          captured, result, published, updater, asked, early, swept>>

Points == {"unsent", "sent", "queued", "admitted", "waiting", "body",
           "committed", "finishing", "done"}
\* Where a request is inside run_with_token, holding its RunningOperation.
Inside == {"admitted", "waiting", "body", "committed", "finishing"}

\* The type invariant; the registry of early cancellations stays bounded.
TypeOK ==
    /\ generation \in 0..MaxGenerations
    /\ paused \in BOOLEAN
    /\ running \in 0..Cardinality(Ops)
    /\ pending \in Seq(Named)
    /\ Len(pending) <= MaxPending
    /\ {live, asked, early} \subseteq SUBSET Named
    /\ flag \in [Ops -> BOOLEAN]
    /\ start \in [Ops -> 0..MaxGenerations]
    /\ bound \in [Ops -> BOOLEAN]
    /\ pc \in [Ops -> Points]
    /\ {captured, published, swept} \subseteq SUBSET Ops
    /\ result \in [Ops -> {"none", "ok", "cancelled", "refused", "failed"}]
    /\ updater \in {"off", "waiting", "installing", "retained"}

Init ==
    /\ generation = 0
    /\ paused = FALSE
    /\ running = 0
    /\ pending = <<>>
    /\ live = {}
    /\ flag = [o \in Ops |-> FALSE]
    /\ start = [o \in Ops |-> 0]
    /\ bound = [o \in Ops |-> FALSE]
    /\ pc = [o \in Ops |-> "unsent"]
    /\ captured = {}
    /\ result = [o \in Ops |-> "none"]
    /\ published = {}
    /\ updater = "off"
    /\ asked = {}
    /\ early = {}
    /\ swept = {}

-----------------------------------------------------------------------------
tokens  == <<pending, live, flag, start>>
history == <<asked, early, swept>>
barrier == <<generation, paused, updater>>

Goto(o, from, to) == pc[o] = from /\ pc' = [pc EXCEPT ![o] = to]

\* The request answers and its token is dropped.
Answer(o, r) == /\ pc' = [pc EXCEPT ![o] = "done"]
                /\ result' = [result EXCEPT ![o] = r]
                /\ bound' = [bound EXCEPT ![o] = FALSE]
                /\ live' = live \ {o}

\* Cancellation::cancelled, as the request's thread asks it.
Cancelled(o) == bound[o] /\ (flag[o] \/ start[o] # generation)

\* The page sends a command; MCP captures the generation and spawns.
Send(o) ==
    /\ IF o \in Named
       THEN Goto(o, "unsent", "sent") /\ UNCHANGED <<start, bound>>
       ELSE /\ Goto(o, "unsent", "queued")
            /\ start' = [start EXCEPT ![o] = generation]
            /\ bound' = [bound EXCEPT ![o] = TRUE]
    /\ UNCHANGED <<barrier, running, pending, live, flag, captured, result, published, history>>

\* token(): under the registry's mutex.
RegisterFault(o) ==  \* an early cancellation is not looked up
    /\ Goto(o, "sent", "queued")
    /\ ~paused
    /\ live' = live \cup {o}
    /\ start' = [start EXCEPT ![o] = generation]
    /\ bound' = [bound EXCEPT ![o] = TRUE]
    /\ UNCHANGED <<barrier, running, pending, flag, captured, result, published, history>>

Register(o) ==
    /\ Goto(o, "sent", "queued")
    /\ ~paused
    /\ o \notin ToSet(pending)
    /\ live' = live \cup {o}
    /\ start' = [start EXCEPT ![o] = generation]
    /\ bound' = [bound EXCEPT ![o] = TRUE]
    /\ UNCHANGED <<barrier, running, pending, flag, captured, result, published, history>>

\* PendingCancellations::take.
RegisterCancelled(o) ==
    /\ pc[o] = "sent"
    /\ ~paused
    /\ \E n \in DOMAIN pending : pending[n] = o /\ pending' = RemoveAt(pending, n)
    /\ Answer(o, "cancelled")
    /\ UNCHANGED <<barrier, running, flag, start, captured, published, history>>

RegisterRefused(o) ==
    /\ pc[o] = "sent"
    /\ paused
    /\ Answer(o, "refused")
    /\ UNCHANGED <<barrier, running, pending, flag, start, captured, published, history>>

\* admit_running, once per run of the request.
AdmitFault(o) ==  \* the barrier is not looked at again
    /\ Goto(o, "queued", "admitted")
    /\ running' = running + 1
    /\ UNCHANGED <<barrier, tokens, bound, captured, result, published, history>>

AdmitRunning(o) ==
    /\ Goto(o, "queued", "admitted")
    /\ ~paused
    /\ running' = running + 1
    /\ UNCHANGED <<barrier, tokens, bound, captured, result, published, history>>

AdmitRefused(o) ==
    /\ pc[o] = "queued"
    /\ paused
    /\ Answer(o, "refused")
    /\ UNCHANGED <<barrier, running, pending, flag, start, captured, published, history>>

\* The check before the scheduler, the scheduler's own, and the body's.
Passes(o) ==
    /\ \/ Goto(o, "admitted", "waiting") /\ ~Cancelled(o)
       \/ Goto(o, "waiting", "body")
    /\ UNCHANGED <<barrier, running, tokens, bound, captured, result, published, history>>

Stops(o) ==
    /\ pc[o] \in {"admitted", "waiting", "body"}
    /\ Cancelled(o)
    /\ running' = running - 1
    /\ Answer(o, "cancelled")
    /\ UNCHANGED <<barrier, pending, flag, start, captured, published, history>>

FailsFault(o) ==  \* the count stays when the body panics
    /\ pc[o] \in {"body", "committed"}
    /\ Answer(o, "failed")
    /\ UNCHANGED <<barrier, running, pending, flag, start, captured, published, history>>

\* The body fails, or panics, before or after its commit: the guards are dropped
\* all the same.  Its publication is one step here, the last, and not yet taken.
Fails(o) ==
    /\ pc[o] \in {"body", "committed"}
    /\ running' = running - 1
    /\ Answer(o, "failed")
    /\ UNCHANGED <<barrier, pending, flag, start, captured, published, history>>

\* The body ends without a change of state: a capture, or a read.
BodyEnds(o) ==
    /\ Goto(o, "body", "finishing")
    /\ o \in Publishes => o \in Captures \ captured
    /\ UNCHANGED <<barrier, running, tokens, bound, captured, result, published, history>>

\* commit(): the thread forgets its token, whose registration ends with it.
CommitFault(o) ==  \* the generation is forgotten, the token is not
    /\ Goto(o, "body", "committed")
    /\ o \in Publishes
    /\ o \in Captures => o \in captured
    /\ UNCHANGED <<barrier, running, tokens, bound, captured, result, published, history>>

Commit(o) ==
    /\ Goto(o, "body", "committed")
    /\ o \in Publishes
    /\ o \in Captures => o \in captured
    /\ bound' = [bound EXCEPT ![o] = FALSE]
    /\ live' = live \ {o}
    /\ UNCHANGED <<barrier, running, pending, flag, start, captured, result, published, history>>

Publish(o) ==
    /\ Goto(o, "committed", "finishing")
    /\ published' = published \cup {o}
    /\ UNCHANGED <<barrier, running, tokens, bound, captured, result, history>>

\* The check after the body.
Finish(o) ==
    /\ pc[o] = "finishing"
    /\ ~Cancelled(o)
    /\ o \in Captures => o \in captured
    /\ running' = running - 1
    /\ Answer(o, "ok")
    /\ UNCHANGED <<barrier, pending, flag, start, captured, published, history>>

\* The capture ends: its token waits in the admission for the second run.
FinishCapture(o) ==
    /\ Goto(o, "finishing", "queued")
    /\ ~Cancelled(o)
    /\ o \in Captures \ captured
    /\ captured' = captured \cup {o}
    /\ running' = running - 1
    /\ UNCHANGED <<barrier, tokens, bound, result, published, history>>

FinishCancelled(o) ==
    /\ pc[o] = "finishing"
    /\ Cancelled(o)
    /\ running' = running - 1
    /\ Answer(o, "cancelled")
    /\ UNCHANGED <<barrier, pending, flag, start, captured, published, history>>

-----------------------------------------------------------------------------
\* PendingCancellations::insert: when the entries are too many the oldest goes.
Remember(o) ==
    IF o \in ToSet(pending) THEN pending
    ELSE Append(IF Len(pending) >= MaxPending THEN Tail(pending) ELSE pending, o)

\* cancel_id: the flag of a live token, or an entry for one to come.
CancelId(o) ==
    /\ o \in Named \ asked
    /\ pc[o] # "unsent"
    /\ IF o \in live
       THEN /\ flag' = [flag EXCEPT ![o] = TRUE]
            /\ UNCHANGED <<pending, early>>
       ELSE /\ pending' = Remember(o)
            /\ early' = (early \cap ToSet(Remember(o)))
                          \cup (IF pc[o] = "sent" THEN {o} ELSE {})
            /\ UNCHANGED flag
    /\ asked' = asked \cup {o}
    /\ UNCHANGED <<barrier, running, live, start, bound, pc, captured, result, published, swept>>

\* PendingCancellations::prune, five minutes later.
Expire ==
    /\ pending # <<>>
    /\ pending' = Tail(pending)
    /\ early' = early \ {Head(pending)}
    /\ UNCHANGED <<barrier, running, live, flag, start, bound, pc, captured, result, published, asked, swept>>

\* cancel(): every request that has its token and has not committed.
AdvanceGeneration ==
    /\ generation < MaxGenerations
    /\ generation' = generation + 1
    /\ swept' = swept \cup {o \in Ops : bound[o]}
    /\ UNCHANGED <<running, tokens, bound, pc, captured, result, published, asked, early>>

CancelAll == AdvanceGeneration /\ UNCHANGED <<paused, updater>>

\* pause_for_update.
Pause ==
    /\ updater = "off"
    /\ paused' = TRUE
    /\ updater' = "waiting"
    /\ AdvanceGeneration

\* update_work_active is false: the installer may start.
Quiet ==
    /\ updater = "waiting"
    /\ live = {}
    /\ running = 0
    /\ updater' = "installing"
    /\ UNCHANGED <<generation, paused, running, tokens, bound, pc, captured, result, published, history>>

\* Twenty seconds pass, or the installer fails: the guard is dropped.
Resume ==
    /\ updater \in {"waiting", "installing"}
    /\ paused' = FALSE
    /\ updater' = "off"
    /\ UNCHANGED <<generation, running, tokens, bound, pc, captured, result, published, history>>

\* The installer took over: the guard is kept until the process ends.
Retain ==
    /\ updater = "installing"
    /\ updater' = "retained"
    /\ UNCHANGED <<generation, paused, running, tokens, bound, pc, captured, result, published, history>>

Request(o) ==
    \/ Send(o) \/ Register(o) \/ RegisterCancelled(o) \/ RegisterRefused(o)
    \/ AdmitRunning(o) \/ AdmitRefused(o) \/ Passes(o) \/ Stops(o) \/ Fails(o)
    \/ BodyEnds(o) \/ Commit(o) \/ Publish(o) \/ Finish(o)
    \/ FinishCapture(o) \/ FinishCancelled(o)

Update == Pause \/ Quiet \/ Resume \/ Retain

Next ==
    \/ \E o \in Ops : Request(o) \/ CancelId(o)
    \/ Expire
    \/ CancelAll
    \/ Update

Spec == Init /\ [][Next]_vars

-----------------------------------------------------------------------------
(* What must hold.                                                         *)

\* While the installer runs nothing else does: nobody is inside run_with_token,
\* not even a request that committed and so left the registry, and no request
\* of the page waits there between its two runs.
UpdateQuiet ==
    updater \in {"installing", "retained"} =>
        \A o \in Ops : pc[o] \notin Inside /\ (pc[o] = "queued" => o \notin Named)

\* RUNNING counts the requests inside run_with_token, whatever way they leave.
RunningCounted == running = Cardinality({o \in Ops : pc[o] \in Inside})

\* What an answer says is what happened: cancelled, refused or failed left the
\* application as it was; ok published what the request publishes.
AnswerTrue ==
    \A o \in Ops :
        /\ result[o] \in {"cancelled", "refused", "failed"} => o \notin published
        /\ result[o] = "ok" => (o \in published <=> o \in Publishes)

\* A cancellation that arrives before the request registers stops it, unless
\* its entry was dropped by age or number: the body never starts.
EarlyCancelHeld ==
    \A o \in early : pc[o] \in {"sent", "done"} /\ result[o] # "ok"

\* Nobody is stopped by a cancellation meant for another: a request answers
\* "cancelled" only when it was named, or when a cancel-all (or an update) found
\* it with its token; one that registers afterwards is left alone.
Isolated == \A o \in Ops : result[o] = "cancelled" => o \in asked \cup swept

\* A cancellation reaches whom it is meant for, early or not, and nobody else.
CancelExact == EarlyCancelHeld /\ Isolated

=============================================================================

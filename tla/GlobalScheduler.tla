--------------------------- MODULE GlobalScheduler ---------------------------
(***************************************************************************)
(* Process-wide admission of CPU work (src-tauri/src/global_scheduler.rs). *)
(*                                                                         *)
(* An operation takes one reservation (a "root" slot) before its closure   *)
(* runs.  While it runs it may hand its execution lane to a streaming      *)
(* child, give the reservation back around network I/O, yield it between   *)
(* background batches, fan out over borrowed slots (a Rayon wave) or lend  *)
(* idle slots to the native engine.  Other operations wait in a queue that *)
(* orders by priority, then arrival, until the oldest waiter has waited    *)
(* 250 ms.                                                                 *)
(***************************************************************************)
EXTENDS Integers, Sequences, SequencesExt, FiniteSets

CONSTANTS
    Ops,        \* threads that run one admitted operation after another
    Limit,      \* Scheduler.limit
    Priority,   \* the priority each operation asks admission with
    Does,       \* what the closure of an operation may do, a subset of Abilities
    WaveWidth,  \* wave_width()
    MaxItems,   \* bound: items of one wave
    Excursions  \* bound: how often one closure leaves plain computation

Background  == 0
Normal      == 1
Interactive == 2

Abilities == {"read", "write", "stream", "io", "wave", "lend"}

ASSUME OpsAssumption   == IsFiniteSet(Ops)
ASSUME LimitAssumption == Limit \in Nat \ {0}
ASSUME RolesAssumption == /\ Priority \in [Ops -> Background..Interactive]
                          /\ Does \in [Ops -> SUBSET Abilities]
\* The callers' contract, which the scheduler does not check: only the builder
\* of the columnar store runs in the background (engine/mod.rs:1631), it reads a
\* snapshot of its own, fans out over waves and borrows, and that is who yields
\* (engine/build.rs:613 and 796, engine/mod.rs:1756); whoever waits for a device
\* owns no source guard (remote.rs:745, remote_files.rs:97, remote_wazuh.rs:285).
ASSUME CallersAssumption ==
    \A o \in Ops :
      /\ Priority[o] = Background => Does[o] \subseteq {"wave", "lend"}
      /\ "io" \in Does[o] => Does[o] \cap {"read", "write"} = {}
ASSUME BoundAssumption == /\ WaveWidth \in Nat \ {0}
                          /\ MaxItems \in Nat
                          /\ Excursions \in Nat

VARIABLES
    used, peak, queue,  \* State: slots taken, their maximum, waiters by ticket
    aged,               \* has the waiter at the front waited 250 ms?
    owned,              \* the Reservations alive, by owner and kind
    pc, why,            \* where the operation's thread is; which call acquires
    cancelled,          \* what the operation's cancelled() answers
    active,             \* Lanes.active of the group's root lane (width 1)
    child,              \* the streaming child that inherited the execution
    wave,               \* the wave's lanes: closures running and items left
    idle,               \* the idle count lend_idle read
    readers, writers,   \* the source guard an operation holds (an RwLock)
    budget              \* excursions the closure has left

admission == <<used, peak, queue, aged>>
guards    == <<readers, writers>>
vars == <<used, peak, queue, aged, owned, pc, why, cancelled, active, child,
          wave, idle, readers, writers, budget>>

Kinds == {"root", "extra", "lease"}
NoWave == [active |-> 0, left |-> 0]
Nothing == [k \in Kinds |-> 0]

Minimum(a, b) == IF a <= b THEN a ELSE b
Maximum(a, b) == IF a >= b THEN a ELSE b

Points == {"idle", "acquire", "waiting", "polling", "admitted", "running",
           "joining", "blocked", "resuming", "yielding", "io", "wave", "lending",
           "failing"}
Calls  == {"start", "yield", "io"}

\* The type invariant; the count stays between zero and the limit.
TypeOK ==
    /\ used \in 0..Limit
    /\ peak \in used..Limit
    /\ queue \in Seq(Ops)
    /\ aged \in BOOLEAN
    /\ owned \in [Ops -> [Kinds -> 0..Limit]]
    /\ pc \in [Ops -> Points]
    /\ why \in [Ops -> Calls]
    /\ cancelled \in [Ops -> BOOLEAN]
    /\ active \in [Ops -> 0..1]
    /\ child \in [Ops -> {"none", "entering", "running", "done"}]
    /\ wave \in [Ops -> [active : Nat, left : Nat]]
    /\ idle \in [Ops -> Nat]
    /\ readers \subseteq Ops
    /\ writers \subseteq Ops
    /\ budget \in [Ops -> Nat]

Init ==
    /\ used = 0
    /\ peak = 0
    /\ queue = <<>>
    /\ aged = FALSE
    /\ owned = [o \in Ops |-> Nothing]
    /\ pc = [o \in Ops |-> "idle"]
    /\ why = [o \in Ops |-> "start"]
    /\ cancelled = [o \in Ops |-> FALSE]
    /\ active = [o \in Ops |-> 0]
    /\ child = [o \in Ops |-> "none"]
    /\ wave = [o \in Ops |-> NoWave]
    /\ idle = [o \in Ops |-> 0]
    /\ readers = {}
    /\ writers = {}
    /\ budget = [o \in Ops |-> 0]

-----------------------------------------------------------------------------
(* Admission: the queue and the count of slots, under the state mutex.      *)

Goto(o, from, to) == /\ pc[o] = from
                     /\ pc' = [pc EXCEPT ![o] = to]

\* A Reservation of n slots of kind k comes into being, or is dropped.
Reserve(o, k, n) == /\ used' = used + n
                    /\ peak' = Maximum(peak, used + n)
                    /\ owned' = [owned EXCEPT ![o][k] = n]
\* Fault: one slot returned whatever the reservation holds.
DropOne(o, k) == /\ used' = used - 1
                 /\ owned' = [owned EXCEPT ![o][k] = 0]
                 /\ UNCHANGED peak
Drop(o, k) == /\ used' = used - owned[o][k]
              /\ owned' = [owned EXCEPT ![o][k] = 0]
              /\ UNCHANGED peak

\* The waiter at position i leaves; another one at the front starts ageing.
Leave(i) == /\ queue' = RemoveAt(queue, i)
            /\ aged' = (aged /\ i # 1)

\* Fault: no ageing.
IsNextWithoutAging(i) ==
    \A j \in DOMAIN queue :
      \/ Priority[queue[j]] < Priority[queue[i]]
      \/ Priority[queue[j]] = Priority[queue[i]] /\ i <= j
\* Fault: max_by_key on (priority, id), the newest ticket of the class wins.
IsNextNewestFirst(i) ==
    IF aged THEN i = 1
    ELSE \A j \in DOMAIN queue :
           \/ Priority[queue[j]] < Priority[queue[i]]
           \/ Priority[queue[j]] = Priority[queue[i]] /\ j <= i

\* An aged front wins; otherwise the highest priority, oldest ticket first.
IsNext(i) ==
    IF aged THEN i = 1
    ELSE \A j \in DOMAIN queue :
           \/ Priority[queue[j]] < Priority[queue[i]]
           \/ Priority[queue[j]] = Priority[queue[i]] /\ i <= j

\* What cancelled() says to this acquire: restoring after I/O ignores it.
Aborted(o) == cancelled[o] /\ why[o] # "io"

\* Where an acquire that is told to stop leaves the thread: a start returns
\* an error, a yield unwinds the body with the lane but no reservation.
AbortTo(o) == IF why[o] = "start" THEN "idle" ELSE "failing"

\* What the admitted call goes on with: only a start enters the root lane.
AdmitTo(o) == IF why[o] = "start" THEN "admitted" ELSE "running"

\* The first check of acquire and the push of a ticket.
Enqueue(o) ==
    /\ ~Aborted(o)
    /\ Goto(o, "acquire", "waiting")
    /\ queue' = Append(queue, o)
    /\ UNCHANGED <<used, peak, aged, owned, why, cancelled, active, child,
                   wave, idle, guards, budget>>

AbortBeforeQueue(o) ==
    /\ Aborted(o)
    /\ Goto(o, "acquire", AbortTo(o))
    /\ UNCHANGED <<admission, owned, why, cancelled, active, child, wave, idle,
                   guards, budget>>

\* The check at the top of acquire's loop, outside the mutex.
StillWanted(o) ==
    /\ ~Aborted(o)
    /\ Goto(o, "waiting", "polling")
    /\ UNCHANGED <<admission, owned, why, cancelled, active, child, wave, idle,
                   guards, budget>>

\* Fault: a start does not look at cancelled() again once it is queued.
AbortWaitingYieldOnly(o) ==
    /\ Aborted(o) /\ why[o] = "yield"
    /\ Goto(o, "waiting", AbortTo(o))
    /\ \E i \in DOMAIN queue : queue[i] = o /\ Leave(i)
    /\ UNCHANGED <<used, peak, owned, why, cancelled, active, child, wave, idle,
                   guards, budget>>

\* Queued's Drop removes the ticket of a waiter that gives up.
AbortWaiting(o) ==
    /\ Aborted(o)
    /\ Goto(o, "waiting", AbortTo(o))
    /\ \E i \in DOMAIN queue : queue[i] = o /\ Leave(i)
    /\ UNCHANGED <<used, peak, owned, why, cancelled, active, child, wave, idle,
                   guards, budget>>

CanAdmit(o) == /\ used < Limit
               /\ \E i \in DOMAIN queue : queue[i] = o /\ IsNext(i)

Admit(o) ==
    /\ CanAdmit(o)
    /\ Goto(o, "polling", AdmitTo(o))
    /\ Reserve(o, "root", 1)
    /\ \E i \in DOMAIN queue : queue[i] = o /\ Leave(i)
    /\ UNCHANGED <<why, cancelled, active, child, wave, idle, guards, budget>>

\* wait_for 20 ms, or until a change is announced, then around the loop.
PollAgain(o) ==
    /\ ~CanAdmit(o)
    /\ Goto(o, "polling", "waiting")
    /\ UNCHANGED <<admission, owned, why, cancelled, active, child, wave, idle,
                   guards, budget>>

\* The clock: the front of the queue has now waited 250 ms.
AgeFront ==
    /\ queue # <<>> /\ ~aged
    /\ aged' = TRUE
    /\ UNCHANGED <<used, peak, queue, owned, pc, why, cancelled, active, child,
                   wave, idle, guards, budget>>

\* borrow_idle: as many idle slots as wanted, none past a waiter.
Idle(wanted) == IF queue = <<>> THEN Minimum(wanted, Limit - used) ELSE 0

-----------------------------------------------------------------------------
(* One operation: run, and the root lane of its group.                      *)

Submit(o) ==
    /\ Goto(o, "idle", "acquire")
    /\ why' = [why EXCEPT ![o] = "start"]
    /\ cancelled' = [cancelled EXCEPT ![o] = FALSE]
    /\ budget' = [budget EXCEPT ![o] = Excursions]
    /\ UNCHANGED <<admission, owned, active, child, wave, idle, guards>>

Cancel(o) ==
    /\ pc[o] # "idle" /\ ~cancelled[o]
    /\ cancelled' = [cancelled EXCEPT ![o] = TRUE]
    /\ UNCHANGED <<admission, owned, pc, why, active, child, wave, idle,
                   guards, budget>>

\* Fault: a root lane two threads wide.
LaneFreeTwice(o) == active[o] < 2
LaneFree(o) == active[o] < 1
TakeLane(o) == active' = [active EXCEPT ![o] = @ + 1]
LeaveLane(o) == active' = [active EXCEPT ![o] = @ - 1]

EnterLane(o) ==
    /\ ~cancelled[o] /\ LaneFree(o)
    /\ Goto(o, "admitted", "running")
    /\ TakeLane(o)
    /\ UNCHANGED <<admission, owned, why, cancelled, child, wave, idle, guards,
                   budget>>

\* Fault: the reservation leaks when the lane refuses the operation.
LaneRefusedLeaking(o) ==
    /\ cancelled[o]
    /\ Goto(o, "admitted", "idle")
    /\ UNCHANGED <<admission, owned, why, cancelled, active, child, wave, idle,
                   guards, budget>>

\* Lanes.enter refuses a cancelled operation; its Group drops the reservation.
LaneRefused(o) ==
    /\ cancelled[o]
    /\ Goto(o, "admitted", "idle")
    /\ Drop(o, "root")
    /\ UNCHANGED <<queue, aged, why, cancelled, active, child, wave, idle,
                   guards, budget>>

\* The closure returns or unwinds: Entered leaves the lane, the Group drops
\* whatever reservation it holds and the body's guards are released.  A writer
\* does not return before it has written, unless it is cancelled.
Finish(o) ==
    /\ pc[o] \in {"running", "failing"}
    /\ child[o] = "none"
    /\ owned[o]["lease"] = 0
    /\ "write" \in Does[o] => o \in writers \/ cancelled[o]
    /\ pc' = [pc EXCEPT ![o] = "idle"]
    /\ Drop(o, "root")
    /\ LeaveLane(o)
    /\ readers' = readers \ {o}
    /\ writers' = writers \ {o}
    /\ UNCHANGED <<queue, aged, why, cancelled, child, wave, idle, budget>>

\* The closure starts one of its bounded number of excursions.
Spend(o, ability) == /\ ability \in Does[o]
                     /\ budget[o] > 0
                     /\ budget' = [budget EXCEPT ![o] = @ - 1]

\* Application locks: a read guard over the source, or the write guard.
TakeRead(o) ==
    /\ pc[o] = "running" /\ "read" \in Does[o] /\ o \notin readers
    /\ writers = {}
    /\ readers' = readers \cup {o}
    /\ UNCHANGED <<admission, owned, pc, why, cancelled, active, child, wave,
                   idle, writers, budget>>

TakeWrite(o) ==
    /\ pc[o] = "running" /\ "write" \in Does[o] /\ o \notin writers
    /\ ~cancelled[o]
    /\ readers = {} /\ writers = {}
    /\ writers' = {o}
    /\ UNCHANGED <<admission, owned, pc, why, cancelled, active, child, wave,
                   idle, readers, budget>>

-----------------------------------------------------------------------------
(* Streaming children: blocking hands the lane over, never the reservation. *)

Spawn(o) ==
    /\ pc[o] = "running" /\ child[o] = "none"
    /\ Spend(o, "stream")
    /\ child' = [child EXCEPT ![o] = "entering"]
    /\ UNCHANGED <<admission, owned, pc, why, cancelled, active, wave, idle,
                   guards>>

ChildEnter(o) ==
    /\ child[o] = "entering" /\ ~cancelled[o] /\ LaneFree(o)
    /\ child' = [child EXCEPT ![o] = "running"]
    /\ TakeLane(o)
    /\ UNCHANGED <<admission, owned, pc, why, cancelled, wave, idle, guards,
                   budget>>

ChildRefused(o) ==
    /\ child[o] = "entering" /\ cancelled[o]
    /\ child' = [child EXCEPT ![o] = "done"]
    /\ UNCHANGED <<admission, owned, pc, why, cancelled, active, wave, idle,
                   guards, budget>>

ChildDone(o) ==
    /\ child[o] = "running"
    /\ child' = [child EXCEPT ![o] = "done"]
    /\ LeaveLane(o)
    /\ UNCHANGED <<admission, owned, pc, why, cancelled, wave, idle, guards,
                   budget>>

\* Fault: the thread blocks without giving up the lane.
HandOffKeepingLane(o) ==
    /\ child[o] # "none"
    /\ Goto(o, "running", "joining")
    /\ UNCHANGED <<admission, owned, why, cancelled, active, child, wave, idle, guards,
                   budget>>

HandOff(o) ==
    /\ child[o] # "none"
    /\ Goto(o, "running", "joining")
    /\ LeaveLane(o)
    /\ UNCHANGED <<admission, owned, why, cancelled, child, wave, idle, guards,
                   budget>>

Joined(o) ==
    /\ child[o] = "done"
    /\ Goto(o, "joining", "resuming")
    /\ child' = [child EXCEPT ![o] = "none"]
    /\ UNCHANGED <<admission, owned, why, cancelled, active, wave, idle, guards,
                   budget>>

\* Resume's Drop: back in the lane, whatever cancelled() says.
Resume(o) ==
    /\ LaneFree(o)
    /\ Goto(o, "resuming", "running")
    /\ TakeLane(o)
    /\ UNCHANGED <<admission, owned, why, cancelled, child, wave, idle, guards,
                   budget>>

-----------------------------------------------------------------------------
(* Giving the reservation back: network I/O and background batches.         *)

\* unreserved_io with an exclusively owned root: take and drop.
IoRelease(o) ==
    /\ child[o] = "none"
    /\ Goto(o, "running", "io")
    /\ Spend(o, "io")
    /\ Drop(o, "root")
    /\ UNCHANGED <<queue, aged, why, cancelled, active, child, wave, idle,
                   guards>>

IoReturn(o) ==
    /\ Goto(o, "io", "acquire")
    /\ why' = [why EXCEPT ![o] = "io"]
    /\ UNCHANGED <<admission, owned, cancelled, active, child, wave, idle,
                   guards, budget>>

\* Somebody else holds the group: only the lane is handed over.
IoShared(o) ==
    /\ child[o] # "none"
    /\ Goto(o, "running", "blocked")
    /\ Spend(o, "io")
    /\ LeaveLane(o)
    /\ UNCHANGED <<admission, owned, why, cancelled, child, wave, idle, guards>>

IoSharedReturn(o) ==
    /\ Goto(o, "blocked", "resuming")
    /\ UNCHANGED <<admission, owned, why, cancelled, active, child, wave, idle,
                   guards, budget>>

\* Fault: any priority yields.
YieldAnyPriority(o) ==
    /\ ~cancelled[o]
    /\ budget[o] > 0
    /\ queue # <<>>
    /\ Goto(o, "running", "yielding")
    /\ budget' = [budget EXCEPT ![o] = @ - 1]
    /\ UNCHANGED <<admission, owned, why, cancelled, active, child, wave, idle,
                   guards>>

\* yield_background: only background work, only when somebody waits.
Yield(o) ==
    /\ Priority[o] = Background /\ ~cancelled[o]
    /\ budget[o] > 0
    /\ queue # <<>>
    /\ Goto(o, "running", "yielding")
    /\ budget' = [budget EXCEPT ![o] = @ - 1]
    /\ UNCHANGED <<admission, owned, why, cancelled, active, child, wave, idle,
                   guards>>

\* A cancelled batch boundary: the body returns with its reservation.
YieldRelease(o) ==
    /\ Goto(o, "yielding", "acquire")
    /\ Drop(o, "root")
    /\ why' = [why EXCEPT ![o] = "yield"]
    /\ UNCHANGED <<queue, aged, cancelled, active, child, wave, idle, guards,
                   budget>>

-----------------------------------------------------------------------------
(* Borrowing idle slots: parallel waves and the native engine.              *)

\* map at the root lane; with nothing to borrow the wave is serial.
StartWave(o) ==
    /\ Spend(o, "wave")
    /\ Goto(o, "running", "wave")
    /\ \E items \in 1..MaxItems :
         /\ Idle(Minimum(items, WaveWidth) - 1) > 0
         /\ Reserve(o, "extra", Idle(Minimum(items, WaveWidth) - 1))
         /\ wave' = [wave EXCEPT ![o] = [active |-> 0, left |-> items]]
    /\ UNCHANGED <<queue, aged, why, cancelled, active, child, idle, guards>>

WaveEnter(o) ==
    /\ wave[o].left > 0
    /\ wave[o].active < owned[o]["extra"] + 1
    /\ wave' = [wave EXCEPT ![o] = [active |-> @.active + 1, left |-> @.left - 1]]
    /\ UNCHANGED <<admission, owned, pc, why, cancelled, active, child, idle,
                   guards, budget>>

WaveLeave(o) ==
    /\ wave[o].active > 0
    /\ wave' = [wave EXCEPT ![o] = [active |-> @.active - 1, left |-> @.left]]
    /\ UNCHANGED <<admission, owned, pc, why, cancelled, active, child, idle,
                   guards, budget>>

EndWave(o) ==
    /\ wave[o] = NoWave
    /\ Goto(o, "wave", "running")
    /\ Drop(o, "extra")
    /\ UNCHANGED <<queue, aged, why, cancelled, active, child, wave, idle,
                   guards, budget>>

\* lend_idle reads the idle count, then borrows in a second critical section.
\* Bound: one lease at a time (its one call site keeps one per plan).
LendRead(o) ==
    /\ owned[o]["lease"] = 0
    /\ Spend(o, "lend")
    /\ queue = <<>> /\ Limit - used > 1
    /\ Goto(o, "running", "lending")
    /\ idle' = [idle EXCEPT ![o] = Limit - used]
    /\ UNCHANGED <<admission, owned, why, cancelled, active, child, wave, guards>>

LendBorrow(o) ==
    /\ Goto(o, "lending", "running")
    /\ Reserve(o, "lease", Idle(idle[o] - 1))
    /\ idle' = [idle EXCEPT ![o] = 0]
    /\ UNCHANGED <<queue, aged, why, cancelled, active, child, wave, guards,
                   budget>>

DropLease(o) ==
    /\ pc[o] \in {"running", "failing"} /\ owned[o]["lease"] > 0
    /\ Drop(o, "lease")
    /\ UNCHANGED <<queue, aged, pc, why, cancelled, active, child, wave, idle,
                   guards, budget>>

-----------------------------------------------------------------------------
(* What the thread of an operation does of its own accord.                  *)
Acquiring(o) ==
    \/ Enqueue(o) \/ AbortBeforeQueue(o) \/ StillWanted(o) \/ AbortWaiting(o)
    \/ Admit(o) \/ PollAgain(o) \/ EnterLane(o) \/ LaneRefused(o)

Body(o) ==
    \/ Finish(o) \/ TakeRead(o) \/ TakeWrite(o)
    \/ Spawn(o) \/ HandOff(o) \/ Joined(o) \/ Resume(o)
    \/ IoRelease(o) \/ IoReturn(o) \/ IoShared(o) \/ IoSharedReturn(o)
    \/ Yield(o) \/ YieldRelease(o)
    \/ StartWave(o) \/ EndWave(o)
    \/ LendRead(o) \/ LendBorrow(o) \/ DropLease(o)

Child(o) == ChildEnter(o) \/ ChildRefused(o) \/ ChildDone(o)
Worker(o) == WaveEnter(o) \/ WaveLeave(o)

Next ==
    \/ AgeFront
    \/ \E o \in Ops :
         \/ Submit(o) \/ Cancel(o)
         \/ Acquiring(o) \/ Body(o) \/ Child(o) \/ Worker(o)

Spec == Init /\ [][Next]_vars

\* Threads that can run do run, and time passes.  Nothing obliges anybody to
\* submit or to cancel an operation.
Fairness ==
    /\ WF_vars(AgeFront)
    /\ \A o \in Ops :
         /\ WF_vars(Acquiring(o)) /\ WF_vars(Body(o))
         /\ WF_vars(Child(o)) /\ WF_vars(Worker(o))
FairSpec == Spec /\ Fairness

\* The same waiters when the closures that hold the slots need never end.
WaitersOnly == Spec /\ \A o \in Ops : WF_vars(Acquiring(o))

-----------------------------------------------------------------------------
(* Properties.                                                              *)

\* The slots somebody holds, one element for each.
SlotsOf(holdings) == {s \in (Ops \X Kinds) \X (1..Limit) :
                        s[2] <= holdings[s[1][1]][s[1][2]]}
Slots == SlotsOf(owned)

\* The count the mutex protects is the number of slots held by reservations
\* alive, on every path in and out (cancellation, refused lanes, I/O, waves,
\* leases), so it never passes the limit, never underflows when a reservation
\* is dropped, and is zero again when everybody is done.
SlotsAccounted == /\ used = Cardinality(Slots)
                  /\ used <= Limit
                  /\ (\A o \in Ops : pc[o] = "idle") => used = 0

\* Closures of one operation that compute at this moment: its own (not one
\* that unwinds), its child's and its wave's.
Computing(o) == (IF pc[o] \in {"running", "yielding", "lending"} THEN 1 ELSE 0)
                + (IF child[o] = "running" THEN 1 ELSE 0)
                + wave[o].active

\* No operation computes on more threads than it has slots for, whichever of
\* its lanes the closures run in (test: "actual CPU closures exceeded global
\* slots").
CpuWithinReservation ==
    \A o \in Ops : Computing(o) <= owned[o]["root"] + owned[o]["extra"]

\* Where an operation holds its root slot, and where it holds the root lane.
HoldsRoot(o) == pc[o] \in {"admitted", "running", "joining", "blocked",
                           "resuming", "yielding", "wave", "lending"}
InLane(o) == \/ pc[o] \in {"running", "yielding", "io", "wave", "lending", "failing"}
             \/ pc[o] \in {"acquire", "waiting", "polling"} /\ why[o] # "start"
Handed(o) == pc[o] \in {"joining", "blocked", "resuming"}

\* What every point of an operation implies about its reservations, its lane,
\* its child, its wave and its locks: with TypeOK and SlotsAccounted, an
\* inductive invariant.
Consistent(o) ==
    /\ owned[o]["root"] = (IF HoldsRoot(o) THEN 1 ELSE 0)
    /\ owned[o]["extra"] > 0 => pc[o] = "wave"
    /\ owned[o]["lease"] > 0 => (InLane(o) \/ Handed(o)) /\ pc[o] # "lending"
    /\ active[o] = (IF InLane(o) THEN 1 ELSE 0)
                   + (IF child[o] = "running" THEN 1 ELSE 0)
    /\ child[o] # "none" => /\ "stream" \in Does[o]
                            /\ Handed(o) \/ pc[o] \in {"running", "wave", "lending"}
    /\ wave[o].active + wave[o].left > 0 => pc[o] = "wave"
    /\ wave[o].active <= owned[o]["extra"] + 1
    /\ o \in readers \cup writers =>
         /\ Does[o] \cap {"read", "write"} # {}
         /\ Handed(o) \/ pc[o] \in {"running", "wave", "lending"}
    /\ pc[o] = "lending" => idle[o] \in 1..Limit

ControlInv == \A o \in Ops : Consistent(o)

Admitted(o) == pc[o] = "polling" /\ pc'[o] \in {"admitted", "running"}
Place(o) == CHOOSE i \in DOMAIN queue : queue[i] = o

\* Nobody overtakes an older waiter of the same or a higher priority, except
\* that an aged front overtakes everybody.
NoOvertaking ==
    [][\A o \in Ops : Admitted(o) =>
         \/ Place(o) = 1
         \/ /\ ~aged
            /\ \A j \in 1..(Place(o) - 1) : Priority[queue[j]] < Priority[o]]_vars

\* A background builder that yields lets everybody who waited before it pass:
\* it is admitted again only from the front of the queue.
YieldGivesWay ==
    [][\A o \in Ops : Admitted(o) /\ why[o] = "yield" => Place(o) = 1]_vars

\* "always leaves one slot idle for interactive requests"
\* (global_scheduler.rs:211).
LendLeavesOneIdle ==
    [][\A o \in Ops : owned'[o]["lease"] > owned[o]["lease"] => used' < Limit]_vars

Waiting(o) == pc[o] \in {"waiting", "polling"}

\* Every waiter is admitted or gives up, even a background one under an endless
\* stream of page requests.
NoStarvation == \A o \in Ops : Waiting(o) ~> ~Waiting(o)

\* Every operation submitted ends: a one-slot budget, a streaming child, a
\* writer that waits for the parent's read guard, I/O and waves never block one
\* another for good.
EveryOperationEnds == \A o \in Ops : pc[o] # "idle" ~> pc[o] = "idle"

\* A waiter that is cancelled leaves the queue even if no slot is ever freed.
CancelledWaiterLeaves ==
    \A o \in Ops : Waiting(o) /\ Aborted(o) ~> ~Waiting(o)
=============================================================================

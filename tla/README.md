# Verification of Log Insight

TLA+ models of the Rust backend of Log Insight (`src/src-tauri/src`, called
"the code" below), the TLC configurations that check them on small instances,
and TLAPS proofs about them. Everything is translated from the source; line
numbers of every definition are in `PROJECT.json` under "map".

| module | models | checked by | proved in |
|---|---|---|---|
| `GlobalScheduler` | `global_scheduler.rs` | `MCScheduler*.cfg` | `GlobalScheduler_proofs` |
| `LowspaceSplit` | `log_split/lowspace.rs`, `log_split/mod.rs` | `MCSplit*.cfg` | `LowspaceSplit_proofs` |
| `Operations` | `operations.rs` and its callers | `MCOperations.cfg` | `Operations_proofs` |
| `EngineBuilds` | the builders of `engine/mod.rs`, over `Operations` | `MCOperations.cfg` | `EngineBuilds_proofs` |
| `Updates` | `updates.rs`, over `EngineBuilds` | `MCOperations.cfg` | `Updates_proofs` |
| `SourceRegister` | nothing: what a published source promises | `ImplementsRegister` | `SourcePublication_proofs` |
| `SourcePublication` | `source_publication.rs`, the admission half of `analysis_runtime.rs`, `set_ts_config` and `source_write_checked` of `lib.rs` | `MCSource.cfg` | `SourcePublication_proofs` |
| `CompiledCache` | `compile` of `analysis_runtime.rs`, over `SourcePublication` | `MCSource.cfg` | `CaseCache_proofs` |
| `CaseCache` | `case_cache.rs`, `case_work_budget.rs`, the policies of `case_resources.rs`, `capture_case`, over `CompiledCache` | `MCSource.cfg` | `CaseCache_proofs` |
| `DurableProgress` | nothing: what a checkpoint promises | `KeepsProgress` | `MetadataCheckpoint_proofs` |
| `MetadataCheckpoint` | `metadata_checkpoint.rs`, with the scan of `sources.rs` and the opening of `index_cache.rs` | `MCMetadata.cfg` | `MetadataCheckpoint_proofs` |

A module over another EXTENDS it: its actions run beside those of the other, and
change its state where the code does.

To run them: `tlc -config MCSchedulerMixed.cfg MCGlobalScheduler`, and so on
(the run's module and cfg are in `PROJECT.json`), and
`tlapm GlobalScheduler_proofs.tla`, or another of the eight `*_proofs` modules.

## 1. Inventory

Log Insight is a desktop program (Tauri): a JavaScript page sends commands to a
Rust process, which also serves MCP clients. Nothing is a network service and
nothing is replicated; what is hard is many threads in one process, sharing a
CPU budget, cancellation, a source that can be replaced under a running query,
and files that must survive being interrupted.

### Parts, their state and operations

- **CPU scheduler** (`global_scheduler.rs`). State: one mutex with the number of
  slots taken and the queue; per operation an `Execution` (its reservation and its
  lanes). Operations: `run`, `blocking`, `unreserved_io`, `yield_background`, `map`
  (a wave), `lend_idle`. Hard: hand-overs of a slot between a thread, its child,
  the network and a wave; starvation; deadlock against application locks.
  Correct when slots are accounted for on every path, nobody computes without
  one, and everybody is admitted.
- **Operations** (`operations.rs`). State: a generation, the registry of live
  tokens and early cancellations, the count of running operations, the update
  barrier. Operations: `token`, `run_with_token`, `check`, `commit`, `cancel_id`,
  `cancel`, `pause_for_update`, `update_work_active`. Hard: a cancellation that
  arrives before, between or after the runs of its request; a publication racing
  it; the barrier seeing a request at every moment of its life. Correct when an
  answer tells what happened and the installer starts only in silence.
- **Separation on a full disk** (`log_split/lowspace.rs`, `mod.rs`). State: the
  original, the parts, two outputs, a journal on disk and in memory, BUSY.
  Operations: `split_run`, `split_recover`, `split_pending`. Hard: it destroys the
  original as it goes, and may be killed or fail between any two calls. Correct
  when no byte is ever lost and an interrupted run can be concluded or undone.
- **Separation: framing, rules, outputs** (`log_split/stream.rs`, ...): one
  sequential pass, hidden outputs renamed at the end.
- **Source publication** (`source_publication.rs`). State: the source, its names, a
  receipt with a generation, under three locks. Operations: `publish`, `clear`,
  `commit_touch_locked`, `snapshot`. Correct when a snapshot is of one
  publication and a stale request never publishes.
- **Query admission** (`analysis_runtime.rs`, `analysis_context.rs`,
  `analysis_visibility.rs`). State: admitted identities, the COMPILED cache with the
  lock of whoever is building. A query pins what it read, waits for the scheduler and
  validates it again. Correct when an answer is about what was pinned, and an
  interpretation is whole, current and built once.
- **Metadata checkpoints and index cache** (`metadata_checkpoint.rs`,
  `metadata_store.rs`, `atomic_metadata.rs`, `index_cache.rs`,
  `cache_validation.rs`, `computed_cache.rs`). Append-only rows and a manifest that
  commits them; leases, verification receipts, pruning. Hard: kills, losses of power,
  torn tails, pruning beside a mapping. Correct when what a restart finds is a prefix
  of what was scanned, and is never less than what was confirmed.
- **Case evidence** (`case_evidence*.rs`, 30 files). State: SQLite rows, immutable
  envelopes, receipts of requests. Operations: commit, adopt, bootstrap, capture,
  export. Hard: a retry of a request whose answer was lost; files before rows;
  the migration of older profiles.
- **Case work budget and cache** (`case_work_budget.rs`, `case_cache.rs`,
  `case_resources.rs`). State: counters of the owner, the application and the pool,
  each an atomic of its own; the publications kept and who holds them. Operations:
  reserve, release, `case_sync`, capture, eviction under pressure. Hard: a
  reservation refused half way, a credit that outlives the publication's place in
  the cache, an edit of the policy. Correct when every counter is what
  the living leases say, and one Case does not push out another's.
- **Case store, archive, recovery, profiles, images** (`case_store.rs`,
  `case_archive*.rs`, `case_recovery*.rs`, ...). Transactions and immutable files;
  restoring a profile takes effect in the next process.
- **Exclusion archive, reference files** (`exclusion_*.rs`, `reference_*.rs`).
  Immutable payloads, leases against clean-up.
- **Columnar engine** (`engine/`). State: a registry of segments claimed, wanted and
  failed, a background queue, DuckDB and Tantivy stores. Operations: `schedule`, the
  background worker, `prepare_variant`, `source_published`, query, stream
  (`transfer_events`), `prepare_for_update`. Hard: a builder inside a request and
  the worker on one segment, requests that supersede each other, and the updater
  reading three pieces of state one after another. Correct when a segment has one
  builder, no claim is left behind and a failure recorded is a failure.
- **Updates** (`updates.rs`). State: the phase of the dialogue, the ticket of a
  download, the window that waits to close. Operations: check, download, cancel,
  install, install on closing. Hard: a download that ends after it was cancelled, a
  window that waits for an attempt that failed.
- **Readers, parsers, search, query language, detections, analyses, extraction,
  enrichment** (`sources/`, `query*.rs`, `security_*.rs`, `analysis.rs`, ...): by far
  most of the code; functions of their input.
- **Resources, remote sources, MCP server, local learning, console, exports, the
  page** (`resource*.rs`, `remote*.rs`, `mcp.rs`, ..., `frontend/`).

### How they interact

The page or MCP sends a request. Its future takes a token (`operations::token`);
a blocking thread calls `run_with_token`, which passes the update barrier, installs
the token for the thread and asks `global_scheduler::run` for a slot, with
`operations::cancelled` as the question it may ask meanwhile. The body reads the
source under a read guard, or replaces it under the write guard after `commit()`.
An engine query streams: a child thread inherits the parent's execution and the
two hand the one lane to each other. A load or a build runs waves. The updater
raises the barrier, cancels the generation and waits until the registry is empty,
nothing runs and the engine is not building. A query about a Case reads its settings
from the Case's database, its evidence from the cache of publications, and its rules from
the cache of compiled interpretations, under the identity it pinned.

`PROJECT.json` lists every component, with the reason for those not modelled, and
every hazard at its line with the properties that watch it.

## 2. The modules

### GlobalScheduler

An element of `Ops` is a thread that runs one admitted operation after another;
`Priority` and `Does` say with which priority it asks and what its closure may do
(`read` or `write` the source, `stream`, `io`, `wave`, `lend`). `owned[o]` holds the
reservations alive that `o` owns, by kind: its root slot, the extra slots of a
wave, and a lease for the engine's threads. `used` is the counter the code keeps; that the two
agree is a property, not a definition. `pc` names the points where another thread
can run: before and after the cancellation check, waiting, polling, admitted but not in the
lane, running, handed over, in network I/O, released for a yield, in a wave,
between the two critical sections of `lend_idle`. `why` says which call is
acquiring: `run`, the return from I/O, or a yield, whose error paths differ.

`Enqueue`, `StillWanted`, `Admit`, `PollAgain`, `AbortWaiting` are the loop of `acquire`;
`AgeFront` is 250 ms passing for the front of the queue. `Admit` is whole:
the test, the count, the maximum and leaving the queue are in one critical section.
The wait of 20 ms is `PollAgain`. `EnterLane`, `LaneRefused`, `Finish` and the child's
actions are the lane of width one of the root; `StartWave`, `WaveEnter`, `WaveLeave`,
`EndWave` are a wave started at the root lane. `TakeRead`, `TakeWrite` are the source guard
(external: an RwLock), which exists in the model for deadlocks.

The scheduler relies on its callers for two things that it states in comments and
does not check: `unreserved_io` is called with no application guard held (l. 125), and
`yield_background` only by builders between batches (l. 191). The actions have
the guards the code has and no more. What the callers do is `CallersAssumption`, about `Does` and
`Priority`: the builder of the columnar store is the only background work, reads a snapshot of its own
and takes no source guard, and the three remote readers, which wait for devices, own none either. Every result
about the scheduler is under this assumption; that nobody waits with a lock
held would be the assumption again, so it is not stated as a property.

Left out: a wave inside a wave's lane, waves or yields inside a streaming child,
and lending while handed over; `interactive_waiting` and `resource_snapshot`, which
only read.

### LowspaceSplit

A byte is its position in the original; a file is a sequence of positions. `side`
is the filter's decision, any of them, and the two outputs are told apart by a
boolean. `disk` is the journal as saved and `journal` the copy in memory; `Save`
replaces the first by the second. Each call that reaches the disk is a step: a part
written, the journal saved, the original cut, the parts read and copied back, the
rename, an append of a piece, a removal. `Crash` may happen at every step and
leaves the files; `Fault` is the failure of a call, which takes the code's error
path (`CarveStops`, `UndoFails`, `AssembleFails`, the opening of the original in
`RecoverClaim`: an error while carving undoes, and
an undo may fail itself). A removal may fail too, and there the code goes on as if it had not
(l. 132, 414, 468): `RemoveParts` and `RemovePart` leave a part, `DropWork` any files of the folder, `DropJournal`
the journal, and the run reports what it would have reported. So what `OutcomeExact` says of a separation
reported as done or undone is about the log and its outputs, not that nothing
else is left; `LeftoverHarmless` is about what may be left. The cursor the code walks through its saved map is abstracted to
`Offsets`, the bytes of a side between two positions. `RecoverLoad` and `RecoverClaim` are
two steps because the code loads the journal before it claims the original, and so
are the snapshot of BUSY and the reading of journals in the list.

The kill is of the process, not of the machine: a completed write stays.
One separation of one file; no other program touches the files; a byte order mark
of `Bom` bytes is copied to both outputs.

### Operations

An element of `Ops` is one request with its own identifier (`uuid` in the page).
`Named` are the page's, the others are MCP's, which have only a generation.
A member of `Captures` runs twice under one token, first to capture and then to
execute (`capture_prepared`); one of `Publishes` calls `commit()` before it changes
the application. `live` is the registry as `Weak` pointers see it (a token that
nobody holds is not there), `flag` and `start` are the token's flag and
generation, `bound` says whether the thread still answers to its token.
`Register`, `RegisterCancelled` and `RegisterRefused` are the outcomes of `token()`,
which is one critical section; `AdmitRunning` and `AdmitRefused` those of
`admit_running`, under the same mutex. `Passes`, `Stops`, `Finish`, `FinishCancelled` are
the checks before the scheduler, in it, in the body and after it. `Fails` is an error or
a panic of the body, before its commit or after it. `CancelId`, `Expire`
and `CancelAll` are the page's; `Pause`, `Quiet`, `Resume`, `Retain` the updater's.
`asked`, `early` and `swept` are history variables: whom a cancellation was meant for.

Time is left out: an early cancellation may expire at any moment
(the code: five minutes), and the updater may give up at any moment
(the code: twenty seconds). A wait for a slot is a point where the request may
stay or be cancelled; how it ends is GlobalScheduler's. Left out: a run
inside a run, child stop flags, the progress reporter and `Interaction`. The engine's
part of what the updater waits for is in EngineBuilds: there the step by which
the updater starts installing, `Quiet` in Operations alone, is the last of three looks.

### EngineBuilds

The state of Operations plus the engine's registry (`wanted`, `failed`, `building`), the
background queue (`queued`, `active`, `revision`, `busy`), the worker (`job`, `at`, `nth`,
`outcome`), the builders inside requests (`work`) and where `prepare_for_update` is
(`look`). A member of `Keys` is a source (`SourceOf`) under one configuration, and `Parts` its
segments, the base first, one for each variant. `Look`, `Rebuild` and `Enqueue` are `schedule`, which holds
the registry from the check of the barrier to the queue's lock (`holder`), so that two
steps of it can be separated by the updater's. `PrepareBegins` to `PrepareLeaves` are a build
inside a request, a step for each moment the code is outside the registry: the barrier is looked at once,
before the first variant, and each segment is then wanted, looked for on disk, looked at against the cancellation,
claimed, built and released, so that a claim may come long after the barrier was down; `Take`, `Consider`, `Claim`, `Builds`, `Releases`, `Leave` the worker;
`RetainSource` and `SourcePublished` what a publication does to the queue and to what is wanted or failed: work for
the source that is published goes on, unless a request that is dropped had superseded it, the rest is forgotten, and claims stay. `ClearQueue`,
`SeesNoClaim`, `SeesWorker` and `SeesRequests` are the updater's looks, in the code's
order, and `GiveUp` its deadline, taken at the start of a round.

Left out: merged sources, variants of more than one segment, sessions, the store's files and optional time indexes,
progress. `Look`
leaves out the failure recorded for a whole configuration; the worker's two stores
when it ends are one step.

### Updates

`phase`, the tickets of downloads, and the window that waits. `DownloadEnds` compares
its ticket, as the code does after every await; `CancelDownload` takes the
ticket away. `CloseWindow` keeps the window open, `Ask` is the page's request, `Timeout` the
thirty seconds. `Install` raises the barrier of EngineBuilds, `Handover` starts the
installer, `GivesUp` and `InstallFailed` undo a refused attempt in two steps, for the
barrier falls before the dialogue is restored. Left out: the preferences file, what the
next start reports, the copy of the data and the package's signature.

### SourcePublication, which implements SourceRegister

`source`, `names` and `publication` are the three locks' contents; `store` is the Case
database, with a revision and the time settings each file was given. A request is one
`kind`: `load`, `merge`, `clear`, `stamp` (`set_ts_config`), `query` or `look` (a snapshot).
`at` is where it stands: pinned, its two validations before and after the capture, waiting for the
guard, holding it, each of its checks under it, and the commit of the Case that a
`stamp` makes before it publishes. `pin` is the receipt it began with and `admitted`
what it captured. The Case is edited, deleted and imported again, activated and left, between any two
steps. A part records the settings it was read with.

`SourceRegister` is a versioned register: a request begins at a version, a write is a
compare-and-swap on it, a read answers that version whole, a refusal changes
nothing. `ImplementsRegister` maps the versions to the history `published`; the register's
counter is therefore not the code's generation, and that the two agree is part of what
is shown.

`SourceFaithful` has an exception, which it names (`ReadAgain`): an edit of a file's time settings
reads only the first part with the file's path again (`lib.rs:850`), so for the other parts of a file
that was merged into the source twice nothing is said. The comment at `mcp.rs:1606`
promises the settings to the whole source, and for those parts it is not so (section 5).

Left out: sources in memory; the engine's reaction (`source_published` is in
EngineBuilds); the operation id of a receipt. The visibility revision is
folded into the revision of the Case, a deletion is modelled with the import
that follows it (`Recreate`), the restart inputs are the names. The generation a caller
expects is the one it pinned. Source, names and receipt change in one step, because
their write guards are held together.

### CompiledCache

`compiled` is COMPILED, the least used first, and `compiling` the holder of COMPILING.
`Hit`, `Miss`, `EnterBuilder`, `MissAgain`, `Build`, `Keep`, `GiveUp` are `compile`. An
interpretation records its identity and the security settings it was compiled
with; a cancellation may cut it short. `Insert` keeps the branch that finds
a winner after the building; `BuildsOnce` shows that it is never taken. The limit in bytes is
abstracted: any number of the oldest may leave. Dropping COMPILING is one step with
the return, and the two checks after the building are one.

### CaseCache

A publication has an owner (a Case and its creation), a key, a size and the pool it
is charged to; its number is its token, so that of the `entries`, those in the cache, the
oldest has the least. `Holders` are the requests that keep one alive after it left, and `shed`
what a request was the last to have. `used` is a bag of what is charged to each account: the owner, the
application, the pool. `Add` charges them one after another in the order of the
code, undoing what it charged when one refuses; `DropOwn` and `DropPayload` release them the same way. When a
reservation is refused, `PressesOwner` and `PressesRoot` are the loads of the counters from
which `pressure` is judged, `Evict` removes the oldest inactive publication that would
relieve it, `Trim` the selections of the engine, `Again` the next attempt. `Sync` to
`Store` are `case_sync`; `PinCase` to `AnswersCase` a query over a Case's evidence: pin,
check the pin, read the policy, resolve the key, check the token, take the payload or copy it,
check the pin again, confirm publication and Case. `Fitted` is `store_records` in closed form: of
the owner's publications, then of all, the longest run of the newest that fits. `OthersKept` allows the eviction of another's publication only under the
application's own pressure, which it defines, so that it is not the code's decision repeated.
What is in the cache at the beginning is within its owner's quota, as what requests publish is.

Left out: native publications and their builder, `case_evidence_budget`, the
pools of selections, requests without a Case, resizing and splitting a lease. The
owner's and the pool's counters are read in one step, for a pool never
has more than its owner. Only publications of identified Cases; a pool's name
carries the quota of the request that made it. A refusal for whatever reason is one
action. While a charge is half made others may be refused for nothing: the code does
this, the model does this, and no property denies it.

### MetadataCheckpoint, which implements DurableProgress

A log is a sequence of lines that start a record, continue one or are blank; `Parse` is
what a single pass makes of it, the reference for `ScanExact`. `folder` is the
directory as programs see it; `kept` collects the directories a loss of power may
leave. `work` is an opener's memory: cursor, rows, rows
appended, journal. `OpenComplete`, `Acquire`, `Restore`, `ResetPayload`, `ResetManifest`, `Scan`,
`Discover`, `AppendRows`, `Sync`, `Publish`, `Confirm`, `Close` are the life of an index in the
code's order, `JournalFails` any failure of it (the scan goes on without a journal), `Stop`
an error or a kill; `PruneLook`, `PruneLock`, `Prune` the cleaning. `PowerLoss` keeps any mix of
the directory entries since the last sync and any prefix of unsynced content.

`DurableProgress` says that what an opener would find never goes back while openers work,
fail or are stopped; that a loss of power may lower it, but not under what was reported
preserved; and that the clean-up forgets only an index not written since the cutoff.
`Scan` is the code's: chunks parsed apart and joined, the last row open until the next wave.

Two things are assumed. Reads of the index do not fail: `read_state` and `restore` take an error
of reading for an index that is not valid (`metadata_checkpoint.rs:307-309`, `318-319`, `626-628`), and the opener
then resets a valid one, so that with such an error even confirmed progress is lost. And the program runs on a Unix: only there
does `publish` sync the directory after the rename (`rs:712-717`); elsewhere a checkpoint reported
as preserved outlives a loss of power only if the rename does.

Left out: the JSON and XML formats, the spool in memory, the overlays and receipts of
`index_cache.rs`. Whether a save is due and whether a folder is old are free
choices; a payload is its header and its rows; validating under the shared
lock is one step; of the entries to be cleaned only `.lines` and `.state`.

## 3. The runs

| run | instance | what it shows |
|---|---|---|
| `scheduler_mixed` | a builder, a page that streams and fans out under a read guard, an import that waits for a device; `Limit` 3, waves of 2 items, 2 excursions | `TypeOK`, `ControlInv`, `SlotsAccounted`, `CpuWithinReservation`, `YieldGivesWay`: 1.3 million states |
| `scheduler_queue` | 2 peers, one of which waits for a device, and a builder, on 1 slot | `NoOvertaking`; `CancelledWaiterLeaves` although the slot's holder may never end |
| `scheduler_progress` | a stream under a read guard, a writer and a builder on 1 slot, endless arrivals | `NoStarvation`, `EveryOperationEnds` |
| `scheduler_lend_race` | 2 lenders and a wave | violation of `LendLeavesOneIdle` |
| `split_faults` | 5 bytes, chunks up to 2, 1 failing call, 2 kills, undo | `TypeOK`, `NothingLost`, `PartsKept`, `AssemblyExact`, `OutcomeExact`, `LeftoverHarmless`: 1.0 million states |
| `split_concludes` | 5 bytes, chunks up to 3, 3 kills, no undo, no failing call | `JournalBeforeCut`, and `Concludes` under a user who insists |
| `split_returns` | 3 bytes, both outputs there before or neither, overlapping requests, a fault, a kill | `RunReturns` |
| `split_cut_settles` | 5 bytes, one kill | violation of `CutSettles` |
| `split_discard_untouched` | 4 bytes, no kill | violation of `DiscardOnlyUntouched` |
| `operations` | a plain query that may ask the background worker, a load in two runs that publishes, an MCP request that publishes and builds both ways; one source under two configurations and another under one; 2 downloads, 2 closings | `UpdatesTypeOK`; of requests: `UpdateQuiet`, `RunningCounted`, `AnswerTrue`, `CancelExact`; of the engine: `InstallQuiet`, `ClaimsExact`, `ActiveAlive`, `FailureReal`; of updates: `DownloadOwned`, `DialogueSettles`: 0.9 million states |
| `source_publication` | 2 requests about the source, or 2 about a Case's evidence, or 2 that compile; 2 Cases | `CaseTypeOK`; of the source: `SourceFaithful`, `ImplementsRegister`; of the interpretations: `CompiledExact`; of the publications: `CreditExact`, `PinnedAnswered`, `OthersKept`: 0.4 million states |
| `metadata_checkpoint` | 2 openers and the pruner, 2 logs of 3 lines, waves of 2 chunks | `TypeOK`, `ScanExact`, `MappedIntact`, `KeepsProgress`: 0.2 million states |

Every property of a passing run has a mutant in `PROJECT.json`: a plausible bug
of the code (a dropped guard, a swapped order, a missing reset) with which TLC finds it
violated. The mutated operators stand beside what they replace and are used nowhere else.
A module over another checks the type invariant of both (`UpdatesTypeOK` is of Operations,
EngineBuilds and Updates; `CaseTypeOK` of SourcePublication and CaseCache).
`CancelExact` is `EarlyCancelHeld` and `Isolated`, `DialogueSettles` is `CloseAnswered` and `AttemptEnds`,
`SourceFaithful` is `OneOwner` and `StampsCurrent`, `OutcomeExact` is `SuccessExact` and `UndoExact`,
and `CompiledExact` contains `BuildsOnce`.

**Bounds.** Scheduler: three operations give every combination of a holder, an
older and a younger waiter; `Limit` 3 lets one of them hold a root, an extra and
a lease at once, `Limit` 1 is where hand-overs can deadlock. `Excursions`
bounds how often one closure leaves plain computation, so that two different ones
can follow each other; a closure returns to the same states afterwards. `MaxItems`
2 is a lane at work and another waiting. The builder takes waves and lends, and yields in every
instance; who leaves its slot for a device does so alone in `scheduler_mixed`, and alone or while its child
shares the reservation in `scheduler_queue`. Split: four or five bytes with a byte
order mark give leading runs, chunks of one side only, chunks of mixed sides,
several chunks, and a last chunk shorter than the rest; two kills interrupt the recovery of
an interruption; one failure meets every call. Where what is asked is only whether a run returns, the outputs are both there
before or neither, and the file begins with a byte of the matched output (`ReturnsInit`: without a mark
nothing tells the outputs apart). `Concludes` is asked without an undo and
without failing calls: a journal that a kill between the two removals of an undo leaves (l. 132) has no map and can never be concluded, and what
is promised of it is `LeftoverHarmless`. Operations: `MaxPending` 1 makes the
second early cancellation evict the first; two generations let an update follow
a cancel-all, or a second update a first that gave up; two revisions of the queue let one
job supersede another. `FewActors` keeps to what can meet: three requests when
nothing is built or installed, two beside an installation, one (which may build or
schedule) beside the worker, with or without an installation, and the rest of the dialogue by itself,
because it touches the others only through the barrier that installing raises. An attempt to cancel all or to
update counts as an actor beside the requests, and a job that supersedes another does not meet a
second attempt. The second source is there for what a publication keeps of the queue, and comes without
a cancel-all, an update or a build of a request's own (`Elsewhere`). Source: a
pair of requests is what races for one guard, and a third only repeats one of them;
the three kinds of request meet only in the Case, whose commands run beside
each, so `OneSide` takes them one at a time. Of two requests about the source at a time (`Meets`), one loads,
merges or stamps and one names a Case, which changes once meanwhile: without a writer and a Case they
have no guard to race for. One file, two generations and two revisions
(0 and 1) give a write that is published, one that is overtaken and one refused at the
limit of the counter; one re-creation makes a foreign
owner. The quota is 1 and an edit makes it 2, so that two pools of one owner live at a time; two
bytes of live credit and two retained publications (the code: three) are what one Case
beside another's fills, so that the shortage may be the owner's or everybody's. One
interpretation is kept (the code: four), so that any other evicts it. Metadata:
three lines in waves of two make a wave, a continuation and a last short wave, with a
record that goes on across them; two openers give the lease's holder and the one that finds it
taken. An opener that parses without a journal shares nothing until it has mapped what it made, so the
other does not parse or save beside it (`Near`); the second log differs from the first only in where its records begin,
so one opener at a time reads it, without a clean-up (`Framed`).

**Deadlock** is checked for the scheduler, where nothing may stop while somebody
waits, and for the checkpoints, which can always be opened again. It is off for
the separation, the operations and the source: when every request has
been answered and the bounds are used up, they really stop.

**Fairness.** `GlobalScheduler!FairSpec`: every thread keeps running (weak
fairness of its own steps), closures end and time passes for the front of
the queue, as the operating system's scheduler, the 20 ms wait and the clock
guarantee; nothing is assumed of who arrives or cancels. `WaitersOnly` assumes
only that waiting threads run, and nothing of the closures that hold the slots.
`LowspaceSplit!FairSpec`: the thread of a run keeps running; kills, faults and the
user are not fair. `InsistentSpec` adds a user who opens the list and presses Concluir
again and again, which is what `Concludes` is about: the code never resumes by itself.
Operations and the modules over it have no liveness property: a body may take for ever,
and so may a build. Neither have the source, the caches and the checkpoints, where a request
only ever waits for a lock whose holder takes its next step.

## 4. What is proved

Each theorem is about every value of the constants that satisfies the named assumptions of
its module: any number of operations, requests, lines, bytes, kills and failing
calls, where the runs have a few. Assumptions beyond types and sizes are that a value which
means "nobody" or "no file" is not somebody or a file (`NoneAssumption`,
`CompilersAssumption`, `ActorAssumption`, `MissingAssumption`, `NoCaseAssumption`,
`RequestAssumption`); and the scheduler's results are for callers that keep its contract
(`CallersAssumption`, section 2). Every module has one inductive invariant, and one lemma per action
that the action keeps it.

**GlobalScheduler**: `TypeOK` (the counter stays in `0..Limit` and never underflows),
`ControlInv`, `SlotsAccounted`, `CpuWithinReservation`, `NoOvertaking`, `YieldGivesWay`.
The invariant is `TypeOK /\ ControlInv /\ Accounted`. `SlotsAccounted` alone is not inductive: to
know that a drop subtracts what was counted one needs to know which reservations a
thread owns at each point, which is `ControlInv` (`Consistent(o)` for every operation).
Each action has the count of slots after it (three lemmas on reserving, dropping and
leaving the holdings alone), the types, `Consistent` for who acts, `OthersConsistent` for the rest.
The order of admission rests on a second invariant, `QInv`: the queue is the threads that wait, each once (so that
a thread has one place and `IsNext` is about that place), and only background builders yield
between batches. What `RemoveAt` leaves of a queue is the lemma `Without`.

**Operations**: `RunningCounted`, `UpdateQuiet`, `AnswerTrue`, `CancelExact`. Beside the count and
the types the invariant says of each request who has a token and whether the registry
sees it (`TokenHeld`), what was committed and published at each point (`PublishedOnce`), where a
cancellation that has not been answered is to be found (`Meant`), and that whoever is inside
while the barrier stands has an outdated token, so that it sees itself cancelled even
after the barrier fell (`Outdated`). `UpdateQuiet` rests on the last two: the
barrier and the count are under one mutex, and nobody can commit past an outdated token.

**EngineBuilds**, which is proved to implement Operations (`EngineImplementsOperations`), so that
the above holds of it: `InstallQuiet`, `ClaimsExact`, `ActiveAlive`, `FailureReal`. The hard part is
`InstallQuiet`: the updater looks at the queue and the claims, the worker and the requests one after another.
`Seen` says that each look stays true: once the queue is cleared nothing can enter it,
since `schedule` holds the registry from the barrier's check to the queue's lock
(`Engaged`). Of the claims it cannot be said that there will be none: a request that looked at the barrier
before the pause, and at its cancellation too, may claim after the updater has read the claims. What stays true
is that the worker has none and takes none, for its job is superseded; and a request that claims
is a running request, which the last look waits for. So the three looks together are as good as one.

**Updates**, proved to implement EngineBuilds (`UpdatesImplementEngine`, `CompositionCorrect`): `UpdatesTypeOK`,
`DownloadOwned`, `DialogueSettles`. The strengthening is `Offered`: a package that is ready is
what every attempt and every closing is about.

**SourcePublication**: `SourceFaithful` (with the exception it names: the second and later parts of a file merged twice), and `ImplementsRegister`, that source, names and
receipt under three locks are one versioned register. The invariant says who stands where with which guard, that the
history ends with what is on show unless its writer is between the parts and the
receipt, and that nobody knows a Case better than the Case's database, so that an
identity which still agrees means that nothing changed in between (`Known`, `Settled`). For the
refinement, each step writes the register once, answers a snapshot of one version, or stutters.

**CompiledCache**, proved to implement SourcePublication: `CompiledExact`. The invariant says that who
builds holds the builder's lock and has found nothing, and that what was cut short is never
given, because a cancelled request stays cancelled.

**CaseCache**, proved to implement CompiledCache (`CaseImplementsCompiled`): `CaseTypeOK`, `CreditExact`,
`PinnedAnswered`, `OthersKept`. The invariant says what a request has at each place (`Proper`), that what is to be given
back is nobody's any more (`Apart`), and of a query (`Pinned`) that if the publication it was asked about
is still in the cache, it is the one it resolved: a publication that left never comes back, so
finding the pinned one after the capture means that it was there all the time.
`CreditExact` is proved of every account, used or not (`CreditRight`). It compares a counter with two sums,
over the payloads alive and over the requests, for which the library has no facts: `SumStep` and
`SumWithout` take a term from a sum, `SumChanged` says what follows when one differs, all by complete induction
over the subsets of a finite set, with a set where the library's theorem has a predicate (`BySubsets`). Each step then is
one of three: it changes one request's charge (`StepCharges`), or a payload comes or goes with its
charge (`TokenComes`, `TokenLeaves`), or it moves nothing (`QuietKeeps`). `CacheAssumption` has the requests finite in number and at
least one publication kept, as the code's three.

`OthersKept` needs that no owner has more than the greatest quota it has in use (`WithinQuota`). That
alone is not inductive: the pool with the greatest quota may be given back first, while another
request, admitted under it, holds the owner's counter above what is left. The invariant that is,
`QuotaKept`, is about every quota q at once: the owner's pools of quota at most q, with the charges
made to the owner and not yet to such a pool, never exceed q. A reservation keeps it
because it charges the owner first and is refused above its own quota, which is at most q, and the
owner's counter covers them all (`AddKeepsQuota`). With q the greatest in use, the pools are all of the owner's
(`TakenExact`). The rest is adding up: the application's work is some owner's (`AllOwned`), so where
the quotas in use fit its limit it has room for whom the owner has room for (`RoomForOne`),
and `store_records` finds room beside the other owners' publications (`StoreKeepsOthers`). Sums over
owners and over payloads are compared by rows and columns (`SumSwap`).

**MetadataCheckpoint**: `TypeOK`, `ScanExact`, `MappedIntact`, and `KeepsProgress`, that openers,
failures, kills, losses of power and the clean-up implement DurableProgress.
`ScanExact` rests on lemmas about the framing: chunks parsed apart and joined are what one
reading makes of them, whatever the bounds of the chunks. The
invariant's second half is about files: every directory entry that a loss of power may leave
(`kept`) has a manifest whose rows are synced and are those of a reading (`Truthful`, `Durable`).
All of it is for reads that do not fail and directories that are synced (section 2).

**LowspaceSplit**: `TypeOK`, `NothingLost`, `PartsKept`, `AssemblyExact`, `OutcomeExact`,
`LeftoverHarmless`, `JournalBeforeCut`, with removals that may fail. The invariant has what a restart finds (`Durable`) and what a run knows (`Running`).
`Durable` goes by the phase of the saved journal: nothing was touched or both outputs are
there; while cutting, the original is the first bytes of itself, the chunks follow one another to its end
and have their parts (`Chain`, `Held`), and bytes it lacks under the saved cut are in
the parts of a chunk not yet counted (`Stray`: a run that failed to save); while
assembling, each output begins with its bytes up to the part it takes next
(`Grown`). `NothingLost` finds each byte by these cases. That the saved journal and
the run's differ by at most one chunk is `Ahead`. The theorems are under `OneAtATime == ~Lists /\ ~Overlaps`,
as in the runs that check them: a run that starts while the list is read
is the finding `split_discard_untouched`, and two recoveries at once are not sent by the page. `DiscardAlwaysUntouched` shows that
this finding needs the first. `JournalAlwaysFirst` is for runs without failing
calls (`MaxFaults = 0`), as checked; `JournalFirstUntilAFault` says the same of any run up to its first
failure. What follows one is in section 5.

Of `RunReturns` the hard half is proved: a run cannot go on for ever. What it has left is a
rank: the part of the run, the rounds of its loop (what is still to be cut, chunks to put back,
parts to append), the point of the round, the bytes of the file it is copying.
Ranks are well-founded, being ordered as pairs of pairs of numbers (the lemma `RanksEnd`); every step of the run lowers
the rank or ends it (`RunAlwaysDescends`), and a step of anybody else leaves the rank alone or kills the run
(`NobodyDelaysARun`). These hold for every user, with overlapping requests and lists, kills and failing calls: they
rest on a smaller invariant, `RunInv`, of what the journal of a run in progress is like
at each of its points, whoever else is at work. What TLC adds is that a run has a step to take wherever it
stands, and the fairness under which it is taken.

What a recursive function computes (`Offsets`, `Read`) is proved one step at a time: a set
of numbers that is not empty has a least one (`Least`, from `NatLessThanWellFounded`), so
a claim about a range holds when its first number has it and each one hands it to
the next (`Along`). `RECURSIVE` operators are used nowhere.

The proofs changed three things in the models. The cache of CaseCache was a sequence trimmed by a recursive
function and is now a set of tokens, of which the least is the oldest; TLC finds the same number of states.
And the place `RecoverClaim` goes to is now
decided by the phase first, as in `recover_impl`; a `CASE` with overlapping
guards had left it open for an undo of a separation already assembling. And `CaseInit` could
have a publication larger than its owner's quota, which the code never keeps; the instance
of `MCSource.cfg` has none.

Only model-checked: liveness (`NoStarvation`, `EveryOperationEnds`, `CancelledWaiterLeaves`,
`RunReturns`, `Concludes`), which needs fairness and ENABLED, beyond the proof system; the
descent behind `RunReturns` is proved. Every other
property that a passing run checks is stated by a theorem.

## 5. Findings

1. `scheduler_lend_race`: `lend_idle` decides that at least two slots are idle in one
   critical section and borrows in the next; between the two an admission or a wave
   can take slots, and the last idle one is lent although the comment and a
   test say one always stays free. The count itself stays right (`SlotsAccounted`).
2. `split_cut_settles`: a kill (or a failing write) while an undo copies a chunk back
   leaves the original between two lengths the journal knows; afterwards both
   Concluir and Desfazer refuse, for ever. No byte is lost (`NothingLost`
   holds): the parts are still in the work folder.
3. `split_discard_untouched`: the list discards the journal and the parts of a run
   that started after the list looked at BUSY.

Seen while modelling, without a run of their own:

- An undo whose `save` fails after the journal in memory changed goes on from
  memory. With faults allowed, `JournalBeforeCut` does not hold on that path
  (the parts have been copied back by then, so `NothingLost` does); the run that
  checks it allows kills and no faults.
- `Journal::discard` removes the work folder before the journal, and looks at neither result
  (`lowspace.rs:132`): a kill between the two, or a journal that cannot be removed, leaves a journal without its
  map. After an undo the page shows it as interrupted, and neither Concluir nor Desfazer can open
  it, for ever; the log is whole (`LeftoverHarmless`). After an assembly Concluir ends it.
- A part or a folder that cannot be removed stays on the disk after a run that reports success, and nothing
  removes it later (`lowspace.rs:414`, `468`).
- An error of reading the manifest or the rows of a valid index makes the next opener reset it
  (`metadata_checkpoint.rs:307`, `626`); the work is done again, the rows are right.
- `recover_impl` loads the journal before it claims the original (`mod.rs:427`). Two
  recoveries in flight at once, which the page does not send, could act on
  a journal the first has finished with; only `RunReturns` is checked with overlaps.
- A separation of a file whose earlier one was interrupted is not refused
  (`mod.rs:328`); BUSY only knows those that run.
- After an update gives up on a build that did not stop in time, a new request for the
  same index is taken for a duplicate of the dying job (`engine/mod.rs:1526`), and
  is left without an index until something asks again.
- A build stopped because nobody wanted its segment, and wanted again before it ends,
  is recorded as failed (`engine/mod.rs:1714`). `FailureReal` names this case as the
  exception.
- An opener that finds the lease taken answers Busy even when the index is complete and
  only mapped by a reader (`metadata_checkpoint.rs:360`).
- If the event that asks the page to close cannot be sent while an installation is
  under way, the dialogue goes back to Ready during the attempt (`updates.rs`,
  `restore_failed_install`). `AttemptEnds` is the other direction: a dialogue that says it is
  installing has an attempt that will end.
- The pressure on the cache is judged from counters read one after another. An owner's own
  quota, seen half released, can look like the application's, and then another Case's
  publication is evicted although the comment (`case_cache.rs:480`) says it is not.
  `OthersKept` states exactly when.
- `with_diagnostics` (`analysis_runtime.rs:328`) compiles without the Case's security
  settings and keeps the result under the Case's identity, where a later query finds it.
  `CompiledExact` says nothing of the settings for that reason; in the model an
  interpretation carries them, so the case can be followed.
- A second part with the path of the first keeps its old time settings
  (`lib.rs:850`): `set_ts_config` reads again the first one only.

## 6. Plan

Done: the scheduler, the separation on a full disk, operations with the engine's builders and
the updates, the publication of the source with both Case caches, and the
checkpoints; their proofs (section 4). Next, in this order, each with its properties and mutants:

1. `EventStream`: the bounded channel of `transfer_events` (`engine/ops.rs:4153`) over the
   lane of `GlobalScheduler`: early drop, panic, cancellation, errors; both sides end.
2. Case evidence: request receipts, idempotent retries, nested runs after commit.
3. Native publications and their builder, and the evidence budget, over `CaseCache`.
4. Runs of their own for the divergences of section 5 that have none.

Properties of a new module share a run wherever one instance serves them.

Not planned: parsers, the query language, detection rules and analyses, which are
functions of text best served by the corpus tests the repository has; SQL
generation; the interface beyond its role as a caller; remote clients.

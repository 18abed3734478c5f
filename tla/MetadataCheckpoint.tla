----------------------------- MODULE MetadataCheckpoint -----------------------------
(***************************************************************************)
(* The saved index of one log file (src-tauri/src/metadata_checkpoint.rs,  *)
(* driven by index_cache.rs and by index_lines and index_prepared in       *)
(* sources.rs).                                                            *)
(*                                                                         *)
(* The index is a file of rows to which openers append, and a manifest,    *)
(* replaced by a rename, that says how many rows count.  Openers of the    *)
(* same file, in this process or another, take the lock file exclusively   *)
(* to parse and save, or share it to map a finished index.  The log has    *)
(* multiline records: a line that does not start one continues the row     *)
(* before it, so the last row is kept out of the file while the scan goes  *)
(* on.  An opener may be cancelled or killed, a checkpoint may fail, the   *)
(* machine may lose power, and a clean-up removes what is old.             *)
(*                                                                         *)
(* Two things are assumed.  A read of the index does not fail: the code    *)
(* takes an error of reading for an index that is not valid (rs:307-309,   *)
(* 318-319, 626-628), and resets one that is.  And the system is a Unix:   *)
(* only there is the directory synced after the rename (rs:712-717).       *)
(***************************************************************************)
EXTENDS Integers, Sequences, SequencesExt, FiniteSets

CONSTANTS
    Openers,
    N,         \* lines of the log
    Logs,      \* the logs checked: each line "start", "more" or "blank"
    WaveChunks,
    Pruner, Nobody

ASSUME LogAssumption == N \in Nat \ {0} /\ Logs \subseteq [1..N -> {"start", "more", "blank"}]
ASSUME WaveAssumption == WaveChunks \in Nat \ {0}
ASSUME ActorAssumption == Nobody \notin Openers \cup {Pruner} /\ Pruner \notin Openers

VARIABLES
    log,
    payload, synced,   \* the .lines file, and what of it was last synced
    folder, kept,      \* the directory, and what may be left of it without power
    recent,            \* the manifest was replaced since the cutoff
    looked,            \* the clean-up has judged an entry old
    exclusive,         \* who holds the lock file exclusively
    at, work,          \* the openers
    promised           \* history: the checkpoint last reported preserved

disk == <<payload, synced, folder, kept>>
vars == <<log, disk, recent, looked, exclusive, at, work, promised>>

\* Rows are ranges of lines; the payload starts with a header.
Header == [from |-> 0, to |-> 0]
Torn   == [from |-> 1, to |-> 0]
Rows   == [from : 0..N, to : 0..N]
NoManifest == [rows |-> <<>>, tail |-> <<>>, cursor |-> 0, complete |-> FALSE, columns |-> FALSE]
Manifests  == [rows : Seq(Rows), tail : Seq(Rows), cursor : 0..N, complete : BOOLEAN, columns : BOOLEAN]
Folders    == [manifest : Manifests, lines : BOOLEAN]  \* lines: the payload has a name
Points     == {"idle", "waiting", "restoring", "resetting", "scanning", "appending", "syncing",
               "publishing", "confirming", "discovering", "closing", "handoff", "mapped"}
NoWork     == [lines |-> <<>>, cursor |-> 0, complete |-> FALSE, columns |-> FALSE,
               hashed |-> <<>>, journal |-> FALSE]

Init ==
    /\ log \in Logs
    /\ payload = <<>> /\ synced = <<>>
    /\ folder = [manifest |-> NoManifest, lines |-> FALSE]
    /\ kept = {folder}
    /\ recent = FALSE /\ looked = FALSE
    /\ exclusive = Nobody
    /\ at = [p \in Openers |-> "idle"]
    /\ work = [p \in Openers |-> NoWork]
    /\ promised = 0

Sharing == {p \in Openers : at[p] = "mapped"}
Free    == exclusive = Nobody /\ Sharing = {}

\* Besides the types: the lock file is exclusive or shared.
TypeOK ==
    /\ log \in Logs
    /\ payload \in Seq(Rows) /\ synced \in Seq(Rows)
    /\ folder \in Folders /\ folder \in kept /\ \A f \in kept : f \in Folders
    /\ recent \in BOOLEAN /\ looked \in BOOLEAN
    /\ exclusive \in Openers \cup {Pruner, Nobody}
    /\ exclusive # Nobody => Sharing = {}
    /\ at \in [Openers -> Points]
    /\ work \in [Openers -> [lines : Seq(Rows), cursor : 0..N, complete : BOOLEAN,
                             columns : BOOLEAN, hashed : Seq(Rows), journal : BOOLEAN]]
    /\ promised \in 0..(N + 2)

-----------------------------------------------------------------------------
(* Framing.                                                                 *)

Keeps(n) == log[n] # "blank"
Extend(rows, n) == [rows EXCEPT ![Len(rows)].to = n]
\* push_meta.
Push(rows, n) == IF log[n] = "more" /\ rows # <<>> THEN Extend(rows, n)
                 ELSE Append(rows, [from |-> n, to |-> n])
\* The lines after from, up to to, read into rows one after another.
Read(rows, from, to) ==
    LET read[n \in from..N] ==
            IF n = from THEN rows ELSE IF Keeps(n) THEN Push(read[n - 1], n) ELSE read[n - 1]
    IN  read[to]
Parse(from, to) == Read(<<>>, from, to)

\* A chunk parsed on its own: the lines before its first start continue the
\* row before the chunk, unless it is the first of the file.
StartIn(from, to) ==
    IF from = 0 THEN 1 ELSE Min({n \in (from + 1)..to : log[n] = "start"} \cup {to + 1})

\* How index_lines joins a chunk, with its leading lines, to the rows before it.
Join(rows, from, to) ==
    LET start   == StartIn(from, to)
        leading == {n \in (from + 1)..(start - 1) : Keeps(n)}
    IN  (IF leading = {} THEN rows
         ELSE IF rows # <<>> THEN Extend(rows, Max(leading))
         ELSE Parse(from, start - 1)) \o Parse(start - 1, to)

\* The chunks of a wave, one after another.
JoinAll(rows, cursor, bounds) ==
    LET joined[i \in 0..Len(bounds)] ==
            IF i = 0 THEN rows
            ELSE Join(joined[i - 1], IF i = 1 THEN cursor ELSE bounds[i - 1], bounds[i])
    IN  joined[Len(bounds)]

\* The bounds of the chunks of a wave, from the cursor on.
Waves(cursor) ==
    {bounds \in UNION {[1..n -> 1..N] : n \in 1..WaveChunks} :
        /\ \A i \in DOMAIN bounds : bounds[i] > IF i = 1 THEN cursor ELSE bounds[i - 1]
        /\ Len(bounds) < WaveChunks => Last(bounds) = N}

-----------------------------------------------------------------------------
(* What a manifest says, and whether the payload bears it out.              *)

SealedFault(w) == Len(w.lines)  \* the open row is sealed too
Sealed(w) == IF w.complete \/ w.lines = <<>> THEN Len(w.lines) ELSE Len(w.lines) - 1

ManifestOf(w) == [rows |-> w.hashed,
                  tail |-> SubSeq(w.lines, Sealed(w) + 1, Len(w.lines)),
                  cursor |-> w.cursor, complete |-> w.complete, columns |-> w.columns]

\* read_state and the digest: the payload begins with the rows of the manifest.
Valid == /\ folder.manifest # NoManifest /\ folder.lines
         /\ IsPrefix(folder.manifest.rows, payload)
Finished == Valid /\ folder.manifest.complete /\ folder.manifest.columns

Level(m) == IF m.columns THEN N + 2 ELSE IF m.complete THEN N + 1 ELSE m.cursor
\* What the next opener would find; nothing while one is resetting the index,
\* though an obsolete manifest may agree with the emptied payload by chance.
Found == IF Valid /\ \A p \in Openers : at[p] # "resetting" THEN Level(folder.manifest) ELSE 0

\* A change of the directory is kept for certain once the directory is synced.
Names(f) == folder' = f /\ kept' = kept \cup {f}

Goto(p, from, to) == at[p] = from /\ at' = [at EXCEPT ![p] = to]

\* Where an opener goes on, with its journal or without it.
Stage(w) == IF ~w.complete THEN "scanning" ELSE IF ~w.columns THEN "discovering" ELSE "closing"
Saves(w) == IF w.journal THEN "appending" ELSE Stage(w)

-----------------------------------------------------------------------------
\* open_complete: a finished index is mapped under the shared lock; before a
\* load, and again after one.
OpenComplete(p) ==
    /\ at[p] \in {"idle", "handoff"}
    /\ IF exclusive = Nobody /\ Finished
       THEN /\ at' = [at EXCEPT ![p] = "mapped"]
            /\ work' = [work EXCEPT ![p] = [NoWork EXCEPT !.lines = Tail(folder.manifest.rows),
                                                          !.cursor = N, !.complete = TRUE]]
       ELSE /\ at' = [at EXCEPT ![p] = IF at[p] = "idle" THEN "waiting" ELSE "idle"]
            /\ work' = [work EXCEPT ![p] = NoWork]
    /\ UNCHANGED <<log, disk, recent, looked, exclusive, promised>>

AcquireFault(p) ==  \* the shared lease of a mapped index is not asked for
    /\ exclusive = Nobody
    /\ Goto(p, "waiting", "restoring")
    /\ exclusive' = p
    /\ UNCHANGED <<log, disk, recent, looked, work, promised>>

\* Journal::open: the exclusive lock ...
Acquire(p) ==
    /\ Free
    /\ Goto(p, "waiting", "restoring")
    /\ exclusive' = p
    /\ UNCHANGED <<log, disk, recent, looked, work, promised>>

\* ... unless it stays taken for five seconds, or the folder cannot be used: then
\* the log is parsed without a journal.
Busy(p) ==
    /\ ~Free
    /\ Goto(p, "waiting", "idle")
    /\ UNCHANGED <<log, disk, recent, looked, exclusive, work, promised>>

Unavailable(p) ==
    /\ at[p] \in {"waiting", "restoring", "resetting"}
    /\ at' = [at EXCEPT ![p] = "scanning"]
    /\ exclusive' = IF exclusive = p THEN Nobody ELSE exclusive
    /\ UNCHANGED <<log, disk, recent, looked, work, promised>>

RestoreFault(p) ==  \* the open row is not taken up again
    /\ Valid
    /\ LET m == folder.manifest
           w == [lines |-> Tail(m.rows), cursor |-> m.cursor, complete |-> m.complete,
                 columns |-> m.columns, hashed |-> m.rows, journal |-> TRUE]
       IN  /\ Goto(p, "restoring", Stage(w))
           /\ work' = [work EXCEPT ![p] = w]
           /\ payload' = m.rows
    /\ UNCHANGED <<log, synced, folder, kept, recent, looked, exclusive, promised>>

\* restore: the rows, the open row and the cursor; the payload is trimmed to
\* what the manifest says.
Restore(p) ==
    /\ Valid
    /\ LET m == folder.manifest
           w == [lines |-> Tail(m.rows) \o m.tail, cursor |-> m.cursor, complete |-> m.complete,
                 columns |-> m.columns, hashed |-> m.rows, journal |-> TRUE]
       IN  /\ Goto(p, "restoring", Stage(w))
           /\ work' = [work EXCEPT ![p] = w]
           /\ payload' = m.rows
    /\ UNCHANGED <<log, synced, folder, kept, recent, looked, exclusive, promised>>

\* Otherwise the payload is emptied first, and the obsolete manifest removed.
\* An error of reading, which would come here with a valid index, is not among
\* the failures modelled.
ResetPayload(p) ==
    /\ ~Valid
    /\ Goto(p, "restoring", "resetting")
    /\ payload' = <<Header>>
    /\ Names([folder EXCEPT !.lines = TRUE])
    /\ UNCHANGED <<log, synced, recent, looked, exclusive, work, promised>>

ResetManifest(p) ==
    /\ Goto(p, "resetting", "scanning")
    /\ Names([folder EXCEPT !.manifest = NoManifest])
    /\ work' = [work EXCEPT ![p].journal = TRUE, ![p].hashed = <<Header>>]
    /\ UNCHANGED <<log, payload, synced, recent, looked, exclusive, promised>>

\* A wave of chunks; between waves the checkpoint may be due, at the end it is.
Scan(p) ==
    \E bounds \in Waves(work[p].cursor) :
        LET cursor == Last(bounds)
            w == [work[p] EXCEPT !.lines = JoinAll(@, work[p].cursor, bounds),
                                 !.cursor = cursor, !.complete = cursor = N]
        IN  /\ work' = [work EXCEPT ![p] = w]
            /\ \/ Goto(p, "scanning", Saves(w))
               \/ ~w.complete /\ Goto(p, "scanning", "scanning")
            /\ UNCHANGED <<log, disk, recent, looked, exclusive, promised>>

\* The columns are found from a sample of the rows.
Discover(p) ==
    LET w == [work[p] EXCEPT !.columns = TRUE]
    IN  /\ Goto(p, "discovering", Saves(w))
        /\ work' = [work EXCEPT ![p] = w]
        /\ UNCHANGED <<log, disk, recent, looked, exclusive, promised>>

Unsaved(w) == SubSeq(w.lines, Len(w.hashed), Sealed(w))  \* hashed: the header too

\* checkpoint_rows: the newly sealed rows are appended and hashed ...
AppendRows(p) ==
    /\ Goto(p, "appending", "syncing")
    /\ payload' = payload \o Unsaved(work[p])
    /\ work' = [work EXCEPT ![p].hashed = @ \o Unsaved(work[p])]
    /\ UNCHANGED <<log, synced, folder, kept, recent, looked, exclusive, promised>>

SyncFault(p) ==  \* the payload is not synced before the manifest
    /\ Goto(p, "syncing", "publishing")
    /\ UNCHANGED <<log, disk, recent, looked, exclusive, work, promised>>

\* ... and synced ...
Sync(p) ==
    /\ Goto(p, "syncing", "publishing")
    /\ synced' = payload
    /\ UNCHANGED <<log, payload, folder, kept, recent, looked, exclusive, work, promised>>

\* ... and a synced manifest is renamed over the last.
Publish(p) ==
    /\ Goto(p, "publishing", "confirming")
    /\ Names([folder EXCEPT !.manifest = ManifestOf(work[p])])
    /\ recent' = TRUE
    /\ UNCHANGED <<log, payload, synced, looked, exclusive, work, promised>>

\* With the directory synced, as on a Unix, the checkpoint is reported preserved.
Confirm(p) ==
    /\ Goto(p, "confirming", Stage(work[p]))
    /\ kept' = {folder}
    /\ promised' = Level(folder.manifest)
    /\ UNCHANGED <<log, payload, synced, folder, recent, looked, exclusive, work>>

\* A checkpoint that fails, a full disk say, part of the rows written: the
\* journal and its lock are dropped and the parsing goes on without it.
JournalFails(p) ==
    /\ at[p] \in {"appending", "syncing", "publishing", "confirming"}
    /\ at' = [at EXCEPT ![p] = Stage(work[p])]
    /\ work' = [work EXCEPT ![p].journal = FALSE, ![p].hashed = <<>>]
    /\ exclusive' = Nobody
    /\ \E part \in IF at[p] = "appending" THEN Prefixes(Unsaved(work[p])) ELSE {<<>>},
          torn \in IF at[p] = "appending" THEN {<<>>, <<Torn>>} ELSE {<<>>} :
           payload' = payload \o part \o torn
    /\ UNCHANGED <<log, synced, folder, kept, recent, looked, promised>>

\* The journal is dropped; a load that still had one maps what it saved.
Close(p) ==
    /\ Goto(p, "closing", IF work[p].journal THEN "handoff" ELSE "idle")
    /\ exclusive' = IF exclusive = p THEN Nobody ELSE exclusive
    /\ work' = [work EXCEPT ![p] = NoWork]
    /\ UNCHANGED <<log, disk, recent, looked, promised>>

\* The last view of the mapped index goes; or the opener is cancelled or killed.
Stop(p) ==
    /\ at[p] # "idle"
    /\ at' = [at EXCEPT ![p] = "idle"]
    /\ work' = [work EXCEPT ![p] = NoWork]
    /\ exclusive' = IF exclusive = p THEN Nobody ELSE exclusive
    /\ UNCHANGED <<log, disk, recent, looked, promised>>

-----------------------------------------------------------------------------
(* The clean-up of old entries.                                             *)

\* A clean-up starts: its cutoff is later than what was written before.
Age == /\ recent /\ ~looked
       /\ recent' = FALSE
       /\ UNCHANGED <<log, disk, looked, exclusive, at, work, promised>>

\* It finds an entry that was not read for long ...
PruneLook ==
    /\ ~looked
    /\ folder.lines \/ folder.manifest # NoManifest
    /\ looked' = TRUE
    /\ UNCHANGED <<log, disk, recent, exclusive, at, work, promised>>

PruneLockFault ==  \* the shared lease of a mapped index is not asked for
    /\ looked /\ exclusive # Pruner
    /\ IF exclusive = Nobody THEN exclusive' = Pruner /\ UNCHANGED looked
       ELSE looked' = FALSE /\ UNCHANGED exclusive
    /\ UNCHANGED <<log, disk, recent, at, work, promised>>

\* ... and takes the lock, or leaves the entry alone.
PruneLock ==
    /\ looked /\ exclusive # Pruner
    /\ IF Free THEN exclusive' = Pruner /\ UNCHANGED looked
       ELSE looked' = FALSE /\ UNCHANGED exclusive
    /\ UNCHANGED <<log, disk, recent, at, work, promised>>

Removes == /\ \/ Names([folder EXCEPT !.lines = FALSE])
              \/ Names([folder EXCEPT !.manifest = NoManifest])
           /\ promised' = 0

PruneFault ==  \* what was judged old before the lock is not looked at again
    /\ exclusive = Pruner
    /\ Removes
    /\ exclusive' = Nobody /\ looked' = FALSE
    /\ UNCHANGED <<log, payload, synced, recent, at, work>>

\* Under the lock the time of the manifest is looked at again.
Prune ==
    /\ exclusive = Pruner
    /\ IF recent THEN UNCHANGED <<folder, kept, promised>> ELSE Removes
    /\ exclusive' = Nobody /\ looked' = FALSE
    /\ UNCHANGED <<log, payload, synced, recent, at, work>>

-----------------------------------------------------------------------------
\* What a file may hold after a loss of power: what was synced and not changed
\* since; of the rest what it held then, or a part of what was written later.
Survivors ==
    LET same   == LongestCommonPrefix({payload, synced})
        newer  == {p \in Prefixes(payload) : IsPrefix(same, p)}
    IN  newer \cup {[p EXCEPT ![Len(p)] = Torn] : p \in newer \ {same}} \cup {synced}

PowerLoss ==
    /\ folder' \in [manifest : {f.manifest : f \in kept}, lines : {f.lines : f \in kept}]
    /\ payload' \in (IF folder'.lines THEN Survivors ELSE {<<>>})
    /\ synced' = payload'
    /\ kept' = {folder'}
    /\ exclusive' = Nobody /\ looked' = FALSE
    /\ at' = [p \in Openers |-> "idle"]
    /\ work' = [p \in Openers |-> NoWork]
    /\ UNCHANGED <<log, recent, promised>>

Step(p) ==
    \/ OpenComplete(p) \/ Acquire(p) \/ Busy(p) \/ Unavailable(p)
    \/ Restore(p) \/ ResetPayload(p) \/ ResetManifest(p) \/ Scan(p) \/ Discover(p)
    \/ AppendRows(p) \/ Sync(p) \/ Publish(p) \/ Confirm(p) \/ JournalFails(p)
    \/ Close(p) \/ Stop(p)

Next == \/ \E p \in Openers : Step(p)
        \/ Age \/ PruneLook \/ PruneLock \/ Prune
        \/ PowerLoss

Spec == Init /\ [][Next]_vars

-----------------------------------------------------------------------------
(* Properties.                                                              *)

\* Whatever the waves, the chunks they cut, the checkpoints resumed from and the
\* failures on the way, the rows an opener has are those of reading the log once
\* from its start, line by line (the oracle of the tests, index_file).
ScanExact == \A p \in Openers : work[p].lines = Parse(0, work[p].cursor)

\* The rows of a mapped index stay in the file as they are for as long as they
\* are mapped: nobody truncates, rewrites or extends them differently.
MappedIntact ==
    \A p \in Sharing : folder.lines /\ IsPrefix(<<Header>> \o work[p].lines, payload)

Progress == INSTANCE DurableProgress WITH found <- Found

\* An opener never finds less than another left, a preserved checkpoint outlives
\* a loss of power, and the clean-up forgets only what is old.  Writes may fail at
\* any point; reads do not, and directories are synced as on a Unix (see above).
KeepsProgress == Progress!Init /\ [][Progress!Next(PowerLoss)]_<<Progress!vars>>
=============================================================================

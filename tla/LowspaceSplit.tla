---------------------------- MODULE LowspaceSplit ----------------------------
(***************************************************************************)
(* Separating a log the disk cannot hold twice                             *)
(* (src-tauri/src/log_split/lowspace.rs, driven by log_split/mod.rs).      *)
(*                                                                         *)
(* The original is cut from its end, chunk by chunk, into two part files   *)
(* per chunk; then it is renamed to the output of its leading run and the  *)
(* parts are appended to the outputs.  A journal on disk lets a run that   *)
(* was killed be finished, or undone while it was still cutting.           *)
(*                                                                         *)
(* A byte is its position in the original.  One separation: one journal,   *)
(* one work folder.  The process may be killed at any step: the disk stays *)
(* as it is, memory is lost.                                               *)
(***************************************************************************)
EXTENDS Integers, Sequences, SequencesExt

CONSTANTS
    N,           \* bytes of the original
    Bom,         \* of which the byte order mark, copied to both outputs
    Missing,     \* a file that does not exist
    Undoes,      \* may the user cancel a run, or ask Desfazer?
    Lists,       \* may a run start while the page is reading its list?
    Overlaps,    \* may Concluir/Desfazer be asked while another run is busy?
    MaxChunk,    \* bound: bytes of a chunk (the code: by free space)
    MaxFaults,   \* bound: failing calls (a full disk, a locked file)
    MaxCrashes   \* bound: times the process is killed

ASSUME SizeAssumption   == /\ N \in Nat
                           /\ Bom \in 0..N
                           /\ MaxChunk \in Nat \ {0}
ASSUME ToggleAssumption == {Undoes, Lists, Overlaps} \subseteq BOOLEAN
ASSUME CrashAssumption  == /\ MaxFaults \in Nat
                           /\ MaxCrashes \in Nat
ASSUME MissingAssumption == Missing \notin Seq(Nat)

VARIABLES
    side,      \* the decision of the filter: TRUE goes to the matched output
    original, out, parts, work, map,  \* files
    disk,      \* the journal saved on disk
    journal,   \* the journal in the memory of the run
    reading,   \* the parts the run holds open
    pc,        \* where the run is; "idle": the original is not in BUSY
    request,   \* a recovery that has loaded its journal and not yet claimed
    listing,   \* where pending_impl is
    listed,    \* does the page show the separation as interrupted?
    result,    \* what the last run reported
    faults, crashes

files  == <<original, out, parts, work, map>>
budget == <<faults, crashes>>
vars == <<side, original, out, parts, work, map, disk, journal, reading, pc,
          request, listing, listed, result, faults, crashes>>

Sides == BOOLEAN
Other(s) == ~s

\* A journal that does not exist, and the one run_parts starts with.
NoJournal == [phase |-> "none", cut |-> 0, chunks |-> <<>>, renamed |-> FALSE,
              done |-> [s \in Sides |-> 0], len |-> [s \in Sides |-> 0],
              created |-> [s \in Sides |-> FALSE]]
NewJournal == [NoJournal EXCEPT !.phase = "decide", !.cut = N]
NoRequest == [kind |-> "none", journal |-> NoJournal]
NothingOpen == [s \in Sides |-> Missing]
NoParts == [i \in 1..N |-> [s \in Sides |-> Missing]]

Whole == [i \in 1..N |-> i]
BomBytes == [i \in 1..Bom |-> i]

\* The runs of map.bin, as the offsets of start..end that go to side s.
Offsets(start, end, s) ==
    LET picked[k \in start..end] ==
            IF k = start THEN <<>>
            ELSE IF side[k] = s THEN Append(picked[k - 1], k) ELSE picked[k - 1]
    IN  picked[end]

\* The leading run: its output and where it ends.
HeadSide == Bom < N /\ side[Bom + 1]
HeadEnd == CHOOSE e \in Bom..N :
              /\ \A k \in (Bom + 1)..e : side[k] = HeadSide
              /\ e < N => side[e + 1] # HeadSide

\* The file an output must be: the mark, then the bytes of its side.
Expected(s) == BomBytes \o Offsets(Bom, N, s)

ChunkLen(c, s) == Len(Offsets(c.start, c.end, s))

Journals == [phase : {"none", "decide", "carve", "assemble"}, cut : 0..N,
             chunks : Seq([start : 0..N, end : 0..N]), renamed : BOOLEAN,
             done : [Sides -> 0..N], len : [Sides -> 0..N],
             created : [Sides -> BOOLEAN]]
\* 0 is a byte that is not of the original.
Files == Seq(0..N) \cup {Missing}

\* The type invariant; a journal counts no more chunks than there are bytes.
TypeOK ==
    /\ side \in [1..N -> BOOLEAN]
    /\ original \in Files
    /\ out \in [Sides -> Files]
    /\ parts \in [1..N -> [Sides -> Files]]
    /\ {work, map} \subseteq BOOLEAN
    /\ {disk, journal, request.journal} \subseteq Journals
    /\ Len(disk.chunks) <= N
    /\ reading \in [Sides -> Files]
    /\ pc \in {"idle", "decide", "carveOpen", "carve", "record", "truncate",
               "undo", "putBack", "putting", "removeParts", "assemble",
               "rename", "renamed", "append", "created", "copy",
               "removePart", "discardWork", "discardJournal"}
    /\ request.kind \in {"none", "finish", "undo"}
    /\ listing \in {"none", "idle", "busy", "discardWork", "discardJournal"}
    /\ listed \in BOOLEAN
    /\ result \in {"none", "success", "restored", "untouched", "failed"}
    /\ faults \in 0..MaxFaults
    /\ crashes \in 0..MaxCrashes

Init ==
    /\ side \in [1..N -> BOOLEAN]
    /\ original = Whole
    /\ out \in [Sides -> {Missing, <<0>>}]
    /\ parts = NoParts
    /\ work = FALSE
    /\ map = FALSE
    /\ disk = NoJournal
    /\ journal = NoJournal
    /\ reading = NothingOpen
    /\ pc = "idle"
    /\ request = NoRequest
    /\ listing = "none"
    /\ listed = FALSE
    /\ result = "none"
    /\ faults = 0
    /\ crashes = 0

-----------------------------------------------------------------------------
Goto(from, to) == pc = from /\ pc' = to

\* The run returns: its journal, handles and Busy are dropped.
Report(r) == /\ pc' = "idle"
             /\ result' = r
             /\ journal' = NoJournal
             /\ reading' = NothingOpen

\* Journal::save replaces the journal on disk in one rename.
Save(j) == journal' = j /\ disk' = j

\* A call fails: the environment may, MaxFaults times.
Fault == faults < MaxFaults /\ faults' = faults + 1
NoFault == UNCHANGED faults

(* Decide.                                                                 *)

\* split_run: claim, a new work folder, journal.  An older separation of the
\* file has no journal any more, and its files are not being discarded: what
\* could not be removed of its folder is under another id.
Start ==
    /\ Goto("idle", "decide")
    /\ original = Whole
    /\ disk = NoJournal
    /\ request = NoRequest
    /\ listing = "none" \/ (Lists /\ listing \in {"idle", "busy"})
    /\ work' = TRUE
    /\ map' = FALSE
    /\ parts' = NoParts
    /\ Save(NewJournal)
    /\ listed' = FALSE
    /\ result' = "none"
    /\ UNCHANGED <<side, original, out, reading, request, listing, budget>>

\* The pass ends: map.bin is complete, the leading run is known.
DecideDone ==
    /\ Goto("decide", "carveOpen")
    /\ work
    /\ map' = TRUE
    /\ Save([journal EXCEPT !.phase = "carve"])
    /\ UNCHANGED <<side, original, out, parts, work, reading, request, listing, listed, result, budget>>

\* The pass fails, or is cancelled: what was made is discarded.
DecideFails ==
    /\ Goto("decide", "discardWork")
    /\ \/ ~work /\ UNCHANGED faults
       \/ Undoes /\ UNCHANGED faults
       \/ Fault
    /\ UNCHANGED <<side, files, disk, journal, reading, request, listing, listed, result, crashes>>

-----------------------------------------------------------------------------
(* Carve.                                                                  *)

\* settle_original: a kill between saving a chunk and truncating leaves the
\* original one chunk longer.
ChunkUncutFault(j) == FALSE  \* only the journal's own length is accepted
ChunkUncut(j) == /\ j.chunks # <<>>
                 /\ Last(j.chunks) = [start |-> j.cut, end |-> Len(original)]
Settles(j) == /\ original # Missing
              /\ Len(original) = j.cut \/ ChunkUncut(j)
Settle(j) == original' = SubSeq(original, 1, j.cut)

\* carve settles the original and opens the map.
CarveOpen ==
    /\ pc = "carveOpen"
    /\ Settles(journal)
    /\ Settle(journal)
    /\ pc' = IF map THEN "carve" ELSE "undo"
    /\ UNCHANGED <<side, out, parts, work, map, disk, journal, reading, request, listing, listed, result, budget>>

CarveRefused ==
    /\ Goto("carveOpen", "undo")
    /\ ~Settles(journal)
    /\ UNCHANGED <<side, files, disk, journal, reading, request, listing, listed, result, budget>>

Carving == pc = "carve" /\ journal.cut > HeadEnd

\* The bytes of a stretch of the original that go to side s.
PieceFault(start, end, s) ==  \* the first byte of the chunk is left out
    LET ks == Offsets(start + 1, end, s) IN [i \in DOMAIN ks |-> original[ks[i]]]
Piece(start, end, s) == LET ks == Offsets(start, end, s)
                        IN [i \in DOMAIN ks |-> original[ks[i]]]

\* A chunk before the cut is written to its two parts; the journal in memory
\* has it.
CarveChunk ==
    /\ Carving
    /\ work
    /\ \E start \in HeadEnd..(journal.cut - 1) :
         /\ start >= journal.cut - MaxChunk
         /\ parts' = [parts EXCEPT ![Len(journal.chunks) + 1] =
                        [s \in Sides |-> Piece(start, journal.cut, s)]]
         /\ journal' = [journal EXCEPT
                         !.chunks = Append(@, [start |-> start, end |-> journal.cut]),
                         !.cut = start]
    /\ pc' = "record"
    /\ UNCHANGED <<side, original, out, work, map, disk, reading, request, listing, listed, result, budget>>

RecordFault ==  \* the original is cut, the journal saved with the next chunk
    /\ Goto("record", "truncate")
    /\ UNCHANGED <<side, files, disk, journal, reading, request, listing, listed, result, budget>>

Record ==
    /\ Goto("record", "truncate")
    /\ Save(journal)
    /\ UNCHANGED <<side, files, reading, request, listing, listed, result, budget>>

Truncate ==
    /\ Goto("truncate", "carve")
    /\ Len(original) = Last(journal.chunks).end
    /\ original' = SubSeq(original, 1, journal.cut)
    /\ UNCHANGED <<side, out, parts, work, map, disk, journal, reading, request, listing, listed, result, budget>>

\* Cancelled between chunks, the work folder gone, or a call failing: undo.
CarveStops ==
    /\ \/ Carving /\ (Undoes \/ ~work) /\ UNCHANGED faults
       \/ Carving /\ Fault
       \/ pc \in {"carveOpen", "record", "truncate"} /\ Fault
    /\ pc' = "undo"
    /\ UNCHANGED <<side, files, disk, journal, reading, request, listing, listed, result, crashes>>

\* Only the leading run is left: the point of no return.
CarveDone ==
    /\ Goto("carve", "assemble")
    /\ journal.cut <= HeadEnd
    /\ UNCHANGED <<side, files, disk, journal, reading, request, listing, listed, result, budget>>

-----------------------------------------------------------------------------
(* Undo.                                                                   *)

UndoOpen ==
    /\ pc = "undo"
    /\ Settles(journal)
    /\ Settle(journal)
    /\ IF map
       THEN pc' = "putBack" /\ UNCHANGED <<journal, reading, result>>
       ELSE Report("failed")
    /\ UNCHANGED <<side, out, parts, work, map, disk, request, listing, listed, budget>>

LastChunk == Last(journal.chunks)
LastParts == parts[Len(journal.chunks)]
Readable(ps) == \A s \in Sides : ps[s] # Missing

PutBackOpen ==
    /\ Goto("putBack", "putting")
    /\ journal.chunks # <<>>
    /\ Readable(LastParts)
    /\ reading' = LastParts
    /\ UNCHANGED <<side, files, disk, journal, request, listing, listed, result, budget>>

\* Where in its part the next byte of the file order is.
PutBackAt == Len(Offsets(LastChunk.start, Len(original) + 1, side[Len(original) + 1]))
PutBackPart == reading[side[Len(original) + 1]]

PutBackByte ==
    /\ pc = "putting"
    /\ Len(original) < LastChunk.end
    /\ PutBackAt <= Len(PutBackPart)
    /\ original' = Append(original, PutBackPart[PutBackAt])
    /\ UNCHANGED <<side, out, parts, work, map, disk, journal, reading, pc, request, listing, listed, result, budget>>

PutBackFault ==  \* the parts are removed before the journal forgets them
    /\ Goto("putting", "removeParts")
    /\ Len(original) = LastChunk.end
    /\ journal' = [journal EXCEPT !.chunks = Front(@), !.cut = LastChunk.end]
    /\ reading' = NothingOpen
    /\ UNCHANGED <<side, files, disk, request, listing, listed, result, budget>>

PutBackSaved ==
    /\ Goto("putting", "removeParts")
    /\ Len(original) = LastChunk.end
    /\ Save([journal EXCEPT !.chunks = Front(@), !.cut = LastChunk.end])
    /\ reading' = NothingOpen
    /\ UNCHANGED <<side, files, request, listing, listed, result, budget>>

\* The two parts of the chunk just put back; a removal that fails is ignored.
RemoveParts ==
    /\ Goto("removeParts", "putBack")
    /\ \E gone \in SUBSET Sides :
         /\ IF gone = Sides THEN NoFault ELSE Fault
         /\ parts' = [parts EXCEPT ![Len(journal.chunks) + 1] =
                         [s \in Sides |-> IF s \in gone THEN Missing ELSE @[s]]]
    /\ UNCHANGED <<side, original, out, work, map, disk, journal, reading, request, listing, listed, result, crashes>>

UndoDoneFault ==  \* one chunk is put back instead of all
    /\ Goto("putBack", "discardWork")
    /\ journal.chunks = <<>> \/ journal.cut > HeadEnd
    /\ UNCHANGED <<side, files, disk, journal, reading, request, listing, listed, result, budget>>

UndoDone ==
    /\ Goto("putBack", "discardWork")
    /\ journal.chunks = <<>>
    /\ UNCHANGED <<side, files, disk, journal, reading, request, listing, listed, result, budget>>

\* A part the journal counts is gone, or too short.
PutBackFaultIgnored == FALSE  \* a part that is gone is tried again
PutBackUnreadable ==
    \/ pc = "putBack" /\ journal.chunks # <<>> /\ ~Readable(LastParts)
    \/ pc = "putting" /\ Len(original) < LastChunk.end /\ PutBackAt > Len(PutBackPart)

\* The original has a length the journal does not explain, or a call fails.
UndoFails ==
    /\ \/ pc = "undo" /\ ~Settles(journal) /\ UNCHANGED faults
       \/ PutBackUnreadable /\ UNCHANGED faults
       \/ pc \in {"undo", "putBack", "putting"} /\ Fault
    /\ Report("failed")
    /\ UNCHANGED <<side, files, disk, request, listing, listed, crashes>>

-----------------------------------------------------------------------------
(* Assemble.                                                               *)

AssemblePhase ==
    /\ Goto("assemble", "rename")
    /\ Save([journal EXCEPT !.phase = "assemble"])
    /\ UNCHANGED <<side, files, reading, request, listing, listed, result, budget>>

\* The original becomes the output of its leading run, once.
Rename ==
    /\ Goto("rename", "renamed")
    /\ ~journal.renamed
    /\ IF original # Missing
       THEN /\ out' = [out EXCEPT ![HeadSide] = original]
            /\ original' = Missing
       ELSE /\ out[HeadSide] # Missing
            /\ UNCHANGED <<out, original>>
    /\ UNCHANGED <<side, parts, work, map, disk, journal, reading, request, listing, listed, result, budget>>

RenameFault ==  \* the mark, already in the original, is counted again
    /\ Goto("renamed", "append")
    /\ Save([journal EXCEPT !.renamed = TRUE,
                            !.len[HeadSide] = journal.cut + Bom,
                            !.created[HeadSide] = TRUE])
    /\ UNCHANGED <<side, files, reading, request, listing, listed, result, budget>>

RenameRecorded ==
    /\ Goto("renamed", "append")
    /\ Save([journal EXCEPT !.renamed = TRUE,
                            !.done[HeadSide] = 0,
                            !.len[HeadSide] = journal.cut,
                            !.created[HeadSide] = TRUE])
    /\ UNCHANGED <<side, files, reading, request, listing, listed, result, budget>>

AlreadyRenamed ==
    /\ Goto("rename", "append")
    /\ journal.renamed
    /\ UNCHANGED <<side, files, disk, journal, reading, request, listing, listed, result, budget>>

\* The output the loop is at, its next part and that part's length.
Total == Len(journal.chunks)
Current == IF journal.done[HeadSide] < Total THEN HeadSide ELSE Other(HeadSide)
NextPart == Total - journal.done[Current]
NextLen == ChunkLen(journal.chunks[NextPart], Current)

CreateOutput ==
    /\ Goto("append", "created")
    /\ ~journal.created[Current]
    /\ out' = [out EXCEPT ![Current] = BomBytes]
    /\ UNCHANGED <<side, original, parts, work, map, disk, journal, reading, request, listing, listed, result, budget>>

CreateRecorded ==
    /\ Goto("created", "append")
    /\ Save([journal EXCEPT !.done[Current] = 0, !.len[Current] = Bom,
                            !.created[Current] = TRUE])
    /\ UNCHANGED <<side, files, reading, request, listing, listed, result, budget>>

\* File::set_len cuts, or extends with zeros.
SetLen(f, n) == [i \in 1..n |-> IF i <= Len(f) THEN f[i] ELSE 0]

\* A part is appended where the journal says the output ends.
AppendOpen ==
    /\ Goto("append", "copy")
    /\ journal.created[Current]
    /\ journal.done[Current] < Total
    /\ parts[NextPart][Current] # Missing
    /\ out' = [out EXCEPT ![Current] = SetLen(@, journal.len[Current])]
    /\ reading' = [NothingOpen EXCEPT ![Current] = parts[NextPart][Current]]
    /\ UNCHANGED <<side, original, parts, work, map, disk, journal, request, listing, listed, result, budget>>

\* The byte of the part that comes next.
CopyAt == Len(out[Current]) - journal.len[Current] + 1

CopyByte ==
    /\ pc = "copy"
    /\ CopyAt <= NextLen
    /\ CopyAt <= Len(reading[Current])
    /\ out' = [out EXCEPT ![Current] = Append(@, reading[Current][CopyAt])]
    /\ UNCHANGED <<side, original, parts, work, map, disk, journal, reading, pc, request, listing, listed, result, budget>>

AppendFault ==  \* the part is counted, the length is not
    /\ Goto("copy", "removePart")
    /\ Len(out[Current]) = journal.len[Current] + NextLen
    /\ Save([journal EXCEPT !.done[Current] = @ + 1])
    /\ reading' = NothingOpen
    /\ UNCHANGED <<side, files, request, listing, listed, result, budget>>

AppendRecorded ==
    /\ Goto("copy", "removePart")
    /\ Len(out[Current]) = journal.len[Current] + NextLen
    /\ Save([journal EXCEPT !.done[Current] = @ + 1, !.len[Current] = @ + NextLen])
    /\ reading' = NothingOpen
    /\ UNCHANGED <<side, files, request, listing, listed, result, budget>>

\* The part just appended, whose output may have been the last of its side.
Appended == IF journal.done[Other(HeadSide)] = 0 THEN HeadSide ELSE Other(HeadSide)
\* A removal that fails is ignored.
RemovePart ==
    /\ Goto("removePart", "append")
    /\ \/ /\ parts' = [parts EXCEPT ![Total - journal.done[Appended] + 1][Appended] = Missing]
          /\ NoFault
       \/ Fault /\ UNCHANGED parts
    /\ UNCHANGED <<side, original, out, work, map, disk, journal, reading, request, listing, listed, result, crashes>>

AssembleDoneFault ==  \* the output of the leading run is complete, the other not
    /\ Goto("append", "discardWork")
    /\ journal.done[HeadSide] = Total
    /\ UNCHANGED <<side, files, disk, journal, reading, request, listing, listed, result, budget>>

AssembleDone ==
    /\ Goto("append", "discardWork")
    /\ journal.created[Current]
    /\ journal.done[Current] = Total
    /\ UNCHANGED <<side, files, disk, journal, reading, request, listing, listed, result, budget>>

AppendUnreadable ==
    \/ /\ pc = "append"
       /\ journal.done[Current] < Total
       /\ parts[NextPart][Current] = Missing
    \/ pc = "copy" /\ CopyAt <= NextLen /\ CopyAt > Len(reading[Current])

AssembleFails ==
    /\ \/ AppendUnreadable /\ UNCHANGED faults
       \/ /\ pc \in {"assemble", "rename", "renamed", "append", "created", "copy"}
          /\ Fault
    /\ Report("failed")
    /\ UNCHANGED <<side, files, disk, request, listing, listed, crashes>>

-----------------------------------------------------------------------------
(* Discard, recovery, the list, and the process being killed.              *)

\* Journal::discard: the work folder goes first.  The result of neither removal
\* is looked at: a folder that cannot be removed keeps any of its files, the
\* journal is removed all the same, and the run reports what it would have.
DropWork ==
    \/ work' = FALSE /\ map' = FALSE /\ parts' = NoParts /\ NoFault
    \/ /\ Fault
       /\ UNCHANGED work
       /\ map' \in {map, FALSE}
       /\ \E kept \in SUBSET {i \in 1..N : parts[i] # NoParts[i]} :
            \E left \in [kept -> SUBSET Sides] :
              parts' = [i \in 1..N |-> [s \in Sides |->
                          IF i \in kept /\ s \in left[i] THEN parts[i][s] ELSE Missing]]
DropJournal == \/ disk' = NoJournal /\ NoFault
               \/ Fault /\ UNCHANGED disk

DiscardWork ==
    /\ Goto("discardWork", "discardJournal")
    /\ DropWork
    /\ UNCHANGED <<side, original, out, disk, journal, reading, request, listing, listed, result, crashes>>

DiscardJournal ==
    /\ pc = "discardJournal"
    /\ DropJournal
    /\ Report(CASE journal.phase = "assemble" -> "success"
                [] journal.phase = "carve"    -> "restored"
                [] OTHER                      -> "untouched")
    /\ UNCHANGED <<side, files, request, listing, listed, crashes>>

\* recover_impl loads the journal, and only then claims the original.  The
\* page knows the id from its list, which never shows one in the decide phase.
RecoverLoad ==
    /\ request = NoRequest
    /\ listed
    /\ disk # NoJournal
    /\ Overlaps \/ pc = "idle"
    /\ \E kind \in {"finish", "undo"} :
         /\ kind = "undo" => Undoes
         /\ request' = [kind |-> kind, journal |-> disk]
    /\ UNCHANGED <<side, files, disk, journal, reading, pc, listing, listed, result, budget>>

\* Concluir opens the original before it cuts on; Desfazer does in UndoOpen.
RecoverOpens == request.kind = "finish" /\ request.journal.phase = "carve"

RecoverClaim ==
    /\ request # NoRequest
    /\ pc = "idle"
    /\ \/ RecoverOpens /\ original = Missing /\ NoFault /\ Report("failed")
       \/ RecoverOpens /\ Fault /\ Report("failed")
       \/ /\ ~(RecoverOpens /\ original = Missing)
          /\ NoFault
          /\ journal' = request.journal
          /\ UNCHANGED reading
          /\ result' = "none"
          /\ pc' = IF request.journal.phase = "assemble" THEN "rename"
                   ELSE IF request.kind = "undo" THEN "undo" ELSE "carveOpen"
    /\ request' = NoRequest
    /\ UNCHANGED <<side, files, disk, listing, listed, crashes>>

RecoverRefused ==
    /\ request # NoRequest
    /\ pc # "idle"
    /\ request' = NoRequest
    /\ UNCHANGED <<side, files, disk, journal, reading, pc, listing, listed, result, budget>>

\* pending_impl: which originals are busy, then each journal.
ListSnapshot ==
    /\ listing = "none"
    /\ Lists \/ (pc = "idle" /\ request = NoRequest)
    /\ listing' = IF pc = "idle" THEN "idle" ELSE "busy"
    /\ UNCHANGED <<side, files, disk, journal, reading, pc, request, listed, result, budget>>

ListLoad ==
    /\ listing \in {"idle", "busy"}
    /\ listed' = (listing = "idle" /\ disk.phase \in {"carve", "assemble"})
    /\ listing' = IF listing = "idle" /\ disk.phase = "decide"
                  THEN "discardWork" ELSE "none"
    /\ UNCHANGED <<side, files, disk, journal, reading, pc, request, result, budget>>

ListDiscardWork ==
    /\ listing = "discardWork"
    /\ DropWork
    /\ listing' = "discardJournal"
    /\ UNCHANGED <<side, original, out, disk, journal, reading, pc, request, listed, result, crashes>>

ListDiscardJournal ==
    /\ listing = "discardJournal"
    /\ DropJournal
    /\ listing' = "none"
    /\ UNCHANGED <<side, files, journal, reading, pc, request, listed, result, crashes>>

Crash ==
    /\ crashes < MaxCrashes
    /\ pc # "idle" \/ listing # "none"
    /\ crashes' = crashes + 1
    /\ pc' = "idle"
    /\ journal' = NoJournal
    /\ reading' = NothingOpen
    /\ request' = NoRequest
    /\ listing' = "none"
    /\ listed' = FALSE
    /\ result' = "none"
    /\ UNCHANGED <<side, files, disk, faults>>

Decide   == Start \/ DecideDone \/ DecideFails
Carve    == CarveOpen \/ CarveRefused \/ CarveChunk \/ Record \/ Truncate
            \/ CarveStops \/ CarveDone
Undo     == UndoOpen \/ PutBackOpen \/ PutBackByte \/ PutBackSaved \/ RemoveParts \/ UndoDone
            \/ UndoFails
Assemble == AssemblePhase \/ Rename \/ RenameRecorded \/ AlreadyRenamed
            \/ CreateOutput \/ CreateRecorded \/ AppendOpen \/ CopyByte
            \/ AppendRecorded \/ RemovePart \/ AssembleDone \/ AssembleFails
Discard  == DiscardWork \/ DiscardJournal
Recover  == RecoverLoad \/ RecoverClaim \/ RecoverRefused
List     == ListSnapshot \/ ListLoad \/ ListDiscardWork \/ ListDiscardJournal

Next == Decide \/ Carve \/ Undo \/ Assemble \/ Discard \/ Recover \/ List \/ Crash

Spec == Init /\ [][Next]_vars

\* A run is a thread: it takes its next step.  Nobody has to start, cancel,
\* list or recover anything.
Run == Decide \/ Carve \/ Undo \/ Assemble \/ Discard
FairSpec == Spec /\ WF_vars(Run)

\* A user who presses Concluir until there is nothing left to conclude.
InsistentSpec == FairSpec /\ WF_vars(RecoverLoad) /\ WF_vars(RecoverClaim)
                          /\ WF_vars(List)

-----------------------------------------------------------------------------
(* What must hold.                                                         *)

Content(f) == IF f = Missing THEN {} ELSE ToSet(f)

\* Every byte of the original is in a file at every moment, whatever is
\* interrupted: in the original, in a part or in an output.
NothingLost ==
    \A k \in 1..N :
        \/ k \in Content(original)
        \/ \E s \in Sides : \/ k \in Content(out[s])
                            \/ \E i \in 1..N : k \in Content(parts[i][s])

\* A chunk the saved journal counts has its two parts, whole, until they were
\* appended: what a restart relies on.
Unappended(i, s) == i + disk.done[s] <= Len(disk.chunks)
PartsKept ==
    \A i \in DOMAIN disk.chunks, s \in Sides :
        Unappended(i, s) =>
            parts[i][s] = Offsets(disk.chunks[i].start, disk.chunks[i].end, s)

\* While assembling, what the journal says an output has, followed by the
\* parts it has yet to take, is the file that output must be.
Remaining(s) == LET i == Len(disk.chunks) - disk.done[s]
                IN IF i = 0 THEN <<>> ELSE Offsets(disk.chunks[i].start, N, s)
AssemblyExact ==
    \A s \in Sides :
        disk.created[s] =>
            /\ out[s] # Missing
            /\ SubSeq(out[s], 1, disk.len[s]) \o Remaining(s) = Expected(s)

\* A separation reported as done left the original's bytes in the two outputs,
\* each in its own and in order, and no original.
SuccessExact ==
    result = "success" => /\ original = Missing
                          /\ out = [s \in Sides |-> Expected(s)]

\* One reported as undone left the original as it was and no output of its own.
UndoExact ==
    result \in {"restored", "untouched"} => /\ original = Whole
                                           /\ \A s \in Sides : out[s] \in {Missing, <<0>>}

\* What the user is told of a separation is what became of the log, whether or
\* not the work folder and the journal could be removed (lowspace.rs:132).
OutcomeExact == SuccessExact /\ UndoExact

\* A journal without its map, which is what a discard that was interrupted or
\* that failed leaves behind, can be neither finished nor undone while cutting
\* (Runs::open fails): the original is whole then, or both outputs are.
LeftoverHarmless ==
    ~map => /\ disk.phase = "carve" => original = Whole
            /\ disk.phase = "assemble" =>
                 original = Missing /\ out = [s \in Sides |-> Expected(s)]

\* A run returns, whatever it meets.
RunReturns == pc # "idle" ~> pc = "idle"

\* Concluir finishes every interrupted separation.
Concludes == disk.phase \in {"carve", "assemble"} ~> result = "success"

\* lowspace.rs:13: a journal is written before every irreversible step: the
\* original is never cut below what the saved journal says is carved.
JournalBeforeCut ==
    [][original' # Missing /\ original # Missing /\ Len(original') < Len(original)
        => disk.cut <= Len(original')]_vars

\* lowspace.rs:13-15: an interrupted separation can be finished or undone, so
\* what a kill leaves while cutting is a length the journal explains.
CutSettles == pc = "idle" /\ disk.phase = "carve" => Settles(disk)

\* log_split/mod.rs:402: what the list discards was interrupted before
\* anything was changed; no run is at it.
DiscardOnlyUntouched ==
    listing = "discardWork" => pc = "idle" /\ original = Whole

=============================================================================

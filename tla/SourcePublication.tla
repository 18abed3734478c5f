------------------------------ MODULE SourcePublication ------------------------------
(***************************************************************************)
(* The loaded source, its receipts, and the admission of the requests that *)
(* read or replace it (src-tauri/src/source_publication.rs, the capture    *)
(* half of analysis_runtime.rs, set_ts_config and source_write_checked in  *)
(* lib.rs).                                                                *)
(*                                                                         *)
(* A request pins the receipt, then captures in a worker the Case's        *)
(* settings and the source, then runs after two more validations.  A load  *)
(* or a clear publishes under the write guard of the source; an edit of a  *)
(* file's time settings commits the Case first, under the same guard.      *)
(* Meanwhile the Case changes by other commands.  Any check may also find  *)
(* the request cancelled.                                                  *)
(***************************************************************************)
EXTENDS Integers, Sequences, SequencesExt, FiniteSets

CONSTANTS
    Requests,
    Kinds,          \* what they may be: load, merge, clear, stamp, query, look
    Cases, NoCase,  \* NoCase: the legacy request that names no Case
    Paths,          \* the files that can be opened
    MaxGeneration,  \* stands for u64::MAX: a revision past it is refused
    MaxRevision,    \* the same, of a Case
    MaxAnalysis,    \* bound: deletions and re-creations of a Case
    NoRequest, NoAnswer, Refused, Published

ASSUME NoCaseAssumption == NoCase \notin Cases
ASSUME LimitAssumption ==
    /\ {MaxGeneration, MaxRevision, MaxAnalysis} \subseteq Nat
    /\ MaxGeneration > 0 /\ Paths # {}
ASSUME RequestAssumption ==
    /\ NoRequest \notin Requests
    /\ Kinds \subseteq {"load", "merge", "clear", "stamp", "query", "look"}

VARIABLES
    store,        \* the Case database: analysis, revision, time settings by file
    active,       \* the active Case it records
    source, names, publication,  \* AppState: the parts, their files, the receipt
    writer,       \* who holds the write guard of the source
    readers,      \* who holds a read guard across steps
    at, task, pin, admitted, left, answer,  \* the requests
    published     \* history: everything that was published

state == <<source, names, publication>>
case  == <<store, active>>
guard == <<writer, readers>>
vars  == <<case, state, guard, at, task, pin, admitted, left, answer, published>>

Identities == [case : Cases \cup {NoCase}, analysis : 0..MaxAnalysis, revision : 0..MaxRevision]
Settings   == [Paths -> 0..MaxRevision]
Parts      == [path : Paths, case : Cases \cup {NoCase}, analysis : 0..MaxAnalysis,
               stamp : 0..MaxRevision]
Receipts   == [generation : 0..MaxGeneration, context : Identities]
Points     == {"idle", "pinned", "decoding", "reading", "captured", "validating", "rechecking",
               "working", "locking", "locked", "owned", "prepared", "saved", "stamped",
               "looking", "naming", "done"}

Nobody     == [case |-> NoCase, analysis |-> 0, revision |-> 0]
Plain      == [p \in Paths |-> 0]
NoReceipt  == [generation |-> -1, context |-> Nobody]
NoTask     == [kind |-> "look", identity |-> Nobody, path |-> CHOOSE p \in Paths : TRUE]
NoCapture  == [settings |-> Plain, source |-> <<>>, names |-> <<>>]
LastValue  == [source |-> source, names |-> names, context |-> publication.context]

\* The application starts with no source; the checks also start from one that
\* an earlier load published for a Case, read with the settings it then had.
Opened(c, p) == [path |-> p, case |-> c, analysis |-> 0, stamp |-> 0]

Init ==
    /\ store = [c \in Cases |-> [analysis |-> 0, revision |-> 0, stamps |-> Plain]]
    /\ active \in Cases \cup {NoCase}
    /\ \/ /\ source = <<>> /\ names = <<>>
          /\ publication = [generation |-> 0, context |-> Nobody]
          /\ published = <<LastValue>>
       \/ \E c \in Cases, p \in Paths :
              /\ source = <<Opened(c, p)>> /\ names = <<p>>
              /\ publication = [generation |-> 1, context |-> [Nobody EXCEPT !.case = c]]
              /\ published = <<[source |-> <<>>, names |-> <<>>, context |-> Nobody], LastValue>>
    /\ writer = NoRequest /\ readers = {}
    /\ at = [r \in Requests |-> "idle"]
    /\ task = [r \in Requests |-> NoTask]
    /\ pin = [r \in Requests |-> NoReceipt]
    /\ admitted = [r \in Requests |-> NoCapture]
    /\ left = [r \in Requests |-> 0]
    /\ answer = [r \in Requests |-> NoAnswer]

\* The type invariant: answers are checked by the register below.
TypeOK ==
    /\ store \in [Cases -> [analysis : 0..MaxAnalysis, revision : 0..MaxRevision, stamps : Settings]]
    /\ active \in Cases \cup {NoCase}
    /\ source \in Seq(Parts) /\ names \in Seq(Paths)
    /\ publication \in Receipts
    /\ writer \in Requests \cup {NoRequest} /\ readers \subseteq Requests
    /\ at \in [Requests -> Points]
    /\ task \in [Requests -> [kind : Kinds \cup {"look"}, identity : Identities, path : Paths]]
    /\ pin \in [Requests -> Receipts \cup {NoReceipt}]
    /\ admitted \in [Requests -> [settings : Settings, source : Seq(Parts), names : Seq(Paths)]]
    /\ left \in [Requests -> 0..3]

-----------------------------------------------------------------------------
Is(r, kind) == task[r].kind = kind
Id(r)       == task[r].identity
Owner(id)   == <<id.case, id.analysis>>     \* what same_owner compares

IdentityOf(c) == IF c = NoCase THEN Nobody
                 ELSE [case |-> c, analysis |-> store[c].analysis, revision |-> store[c].revision]

\* validate_identity; without an identity no Case may be active.
Current(id) == IF id.case = NoCase THEN active = NoCase ELSE id = IdentityOf(id.case)

OwnsSource(r) == Owner(Id(r)) = Owner(publication.context)

UnpublishedFault(r) == TRUE  \* the generation is not compared
\* Nothing was published since the request was admitted.
Unpublished(r) == publication.generation = pin[r].generation
\* validate_publication, for a query.
SourceValid(r) == Unpublished(r) /\ (Is(r, "query") => OwnsSource(r))

\* The first of the parts with that path, or 0.
First(parts, path) == SelectInSeq(parts, LAMBDA part : part.path = path)
PositionOf(path) == First(source, path)

\* validate_publication, for a merge.
Merges(r) == Is(r, "merge") => OwnsSource(r)
\* set_ts_config: an open source must be the Case's and hold the file.
Stamps(r) ==
    Is(r, "stamp") /\ source # <<>> => OwnsSource(r) /\ PositionOf(task[r].path) # 0

NextExists == publication.generation < MaxGeneration

\* What the check a request stands at asks for.
Valid(r) ==
    CASE at[r] \in {"pinned", "captured"}     -> publication = pin[r]
      [] at[r] \in {"decoding", "validating"} -> Current(Id(r))
      [] at[r] \in {"reading", "rechecking"}  -> SourceValid(r)
      [] at[r] \in {"working", "locked"}      -> Id(r).case # NoCase => Current(Id(r))
      [] at[r] = "owned"    -> Unpublished(r) /\ Merges(r) /\ Stamps(r) /\ NextExists
      [] at[r] = "prepared" -> Is(r, "stamp") => Current(Id(r)) /\ Id(r).revision < MaxRevision
      [] OTHER -> TRUE

Goto(r, from, to) == at[r] = from /\ at' = [at EXCEPT ![r] = to]
\* The answer; what the request held is dropped with it, its guards too.
Ends(r, what) == /\ at' = [at EXCEPT ![r] = "done"]
                 /\ answer' = [answer EXCEPT ![r] = what]
                 /\ task' = [task EXCEPT ![r] = NoTask]
                 /\ pin' = [pin EXCEPT ![r] = NoReceipt]
                 /\ admitted' = [admitted EXCEPT ![r] = NoCapture]
                 /\ left' = [left EXCEPT ![r] = 0]
                 /\ writer' = IF writer = r THEN NoRequest ELSE writer
                 /\ readers' = readers \ {r}
Refuses(r)    == Ends(r, Refused) /\ UNCHANGED <<case, state, published>>

\* CapturePin::new: the receipt only, on the command's thread.
Pin(r, kind, c, path) ==
    /\ at[r] = "idle"
    /\ kind # "look"
    /\ kind = "stamp" => c # NoCase
    /\ IF kind = "query" /\ Owner(IdentityOf(c)) # Owner(publication.context)
       THEN Refuses(r)
       ELSE /\ Goto(r, "idle", "pinned")
            /\ task' = [task EXCEPT ![r] = [kind |-> kind, identity |-> IdentityOf(c), path |-> path]]
            /\ pin' = [pin EXCEPT ![r] = publication]
            /\ UNCHANGED <<case, state, guard, admitted, left, answer, published>>

\* CapturePin::validate, before and after the capture.
Repin(r) ==
    /\ \/ Goto(r, "pinned", "decoding") /\ UNCHANGED left
       \/ Goto(r, "captured", "validating") /\ left' = [left EXCEPT ![r] = 3]
    /\ Valid(r)
    /\ UNCHANGED <<case, state, guard, task, pin, admitted, answer, published>>

\* capture: the Case's settings first...
Decode(r) ==
    /\ Goto(r, "decoding", "reading")
    /\ Valid(r)
    /\ admitted' = [admitted EXCEPT ![r].settings =
                      IF Id(r).case = NoCase THEN Plain ELSE store[Id(r).case].stamps]
    /\ UNCHANGED <<case, state, guard, task, pin, left, answer, published>>

\* ... then the source, under its read guard.
Capture(r) ==
    /\ Goto(r, "reading", "captured")
    /\ writer = NoRequest
    /\ Valid(r)
    /\ admitted' = [admitted EXCEPT ![r].names = names,
                                    ![r].source = IF Is(r, "query") THEN source ELSE <<>>]
    /\ UNCHANGED <<case, state, guard, task, pin, left, answer, published>>

\* Admitted::validate: when the capture ends, before the worker prepares the
\* visible rows, and after.  First the Case...
ValidateCase(r) ==
    /\ Goto(r, "validating", "rechecking")
    /\ Valid(r)
    /\ UNCHANGED <<case, state, guard, task, pin, admitted, left, answer, published>>

\* ... then the source, under its read guard.
ValidateSource(r) ==
    /\ Goto(r, "rechecking", IF left[r] > 1 THEN "validating"
                             ELSE IF Is(r, "stamp") THEN "locking" ELSE "working")
    /\ writer = NoRequest
    /\ Valid(r)
    /\ left' = [left EXCEPT ![r] = @ - 1]
    /\ UNCHANGED <<case, state, guard, task, pin, admitted, answer, published>>

\* A query answers from what it captured.
AnswerQuery(r) ==
    /\ at[r] = "working" /\ Is(r, "query")
    /\ Ends(r, [generation |-> pin[r].generation,
                value |-> [source |-> admitted[r].source, names |-> admitted[r].names,
                           context |-> pin[r].context]])
    /\ UNCHANGED <<case, state, published>>

-----------------------------------------------------------------------------
\* publish and clear read the Case once before they wait for the source.
CheckIdentity(r) ==
    /\ Goto(r, "working", "locking")
    /\ ~Is(r, "query")
    /\ Valid(r)
    /\ UNCHANGED <<case, state, guard, task, pin, admitted, left, answer, published>>

\* source_write_checked: the write guard; then, holding it, the Case again...
Acquire(r) ==
    /\ Goto(r, "locking", "locked")
    /\ writer = NoRequest /\ readers = {}
    /\ writer' = r
    /\ UNCHANGED <<case, state, readers, task, pin, admitted, left, answer, published>>

LockedCase(r) ==
    /\ Goto(r, "locked", "owned")
    /\ Valid(r)
    /\ UNCHANGED <<case, state, guard, task, pin, admitted, left, answer, published>>

\* ... the generation, the owner, and that a next receipt exists.
LockedSource(r) ==
    /\ Goto(r, "owned", "prepared")
    /\ Valid(r)
    /\ UNCHANGED <<case, state, guard, task, pin, admitted, left, answer, published>>

\* The part a load brings, read with the settings admitted.
Incoming(r) == <<[path |-> task[r].path, case |-> Id(r).case, analysis |-> Id(r).analysis,
                  stamp |-> admitted[r].settings[task[r].path]]>>

\* publish and clear, past operations::commit: source, names and receipt change
\* under both write guards.
Publish(r) ==
    /\ at[r] = "prepared" /\ ~Is(r, "stamp")
    /\ source' = CASE Is(r, "load")  -> Incoming(r)
                   [] Is(r, "merge") -> source \o Incoming(r)
                   [] Is(r, "clear") -> <<>>
    /\ names' = CASE Is(r, "load")  -> <<task[r].path>>
                  [] Is(r, "merge") -> Append(names, task[r].path)
                  [] Is(r, "clear") -> <<>>
    /\ publication' = [generation |-> publication.generation + 1, context |-> Id(r)]
    /\ published' = Append(published, LastValue')
    /\ Ends(r, Published)
    /\ UNCHANGED case

\* update_domain: the Case's settings, by compare-and-swap on its whole identity.
SaveSettings(r) ==
    /\ Goto(r, "prepared", "saved")
    /\ Is(r, "stamp")
    /\ Valid(r)
    /\ store' = [store EXCEPT ![Id(r).case].revision = @ + 1,
                              ![Id(r).case].stamps[task[r].path] = Id(r).revision + 1]
    /\ UNCHANGED <<active, state, guard, task, pin, admitted, left, answer, published>>

RestampFault(r) ==  \* read again with the settings admitted, not those saved
    /\ Goto(r, "saved", "stamped")
    /\ source' = IF source = <<>> THEN source
                 ELSE [source EXCEPT ![PositionOf(task[r].path)].stamp =
                                        admitted[r].settings[task[r].path]]
    /\ UNCHANGED <<case, names, publication, guard, task, pin, admitted, left, answer, published>>

\* The replacement prepared before: the first part with that path is re-read.
Restamp(r) ==
    /\ Goto(r, "saved", "stamped")
    /\ source' = IF source = <<>> THEN source
                 ELSE [source EXCEPT ![PositionOf(task[r].path)].stamp = Id(r).revision + 1]
    /\ UNCHANGED <<case, names, publication, guard, task, pin, admitted, left, answer, published>>

\* commit_touch_locked: a receipt with the new revision.
Touch(r) ==
    /\ at[r] = "stamped"
    /\ publication' = [generation |-> publication.generation + 1,
                       context |-> [Id(r) EXCEPT !.revision = @ + 1]]
    /\ UNCHANGED <<case, source, names>>
    /\ published' = Append(published, LastValue')
    /\ Ends(r, Published)

-----------------------------------------------------------------------------
\* source_snapshot: source, names and receipt one after another under the
\* source's read guard.
LookSource(r) ==
    /\ Goto(r, "idle", "looking")
    /\ writer = NoRequest
    /\ readers' = readers \cup {r}
    /\ admitted' = [admitted EXCEPT ![r].source = source]
    /\ UNCHANGED <<case, state, writer, task, pin, left, answer, published>>

LookNames(r) ==
    /\ Goto(r, "looking", "naming")
    /\ admitted' = [admitted EXCEPT ![r].names = names]
    /\ UNCHANGED <<case, state, guard, task, pin, left, answer, published>>

LookReceipt(r) ==
    /\ at[r] = "naming"
    /\ Ends(r, [generation |-> publication.generation,
                value |-> [source |-> admitted[r].source, names |-> admitted[r].names,
                           context |-> publication.context]])
    /\ UNCHANGED <<case, state, published>>

-----------------------------------------------------------------------------
Checked == {"pinned", "decoding", "reading", "captured", "validating", "rechecking",
            "working", "locking", "locked", "owned", "prepared"}

\* A check refuses; those of the source wait for its read guard first.
Refuse(r) ==
    /\ at[r] \in Checked
    /\ ~Valid(r)
    /\ at[r] \in {"reading", "rechecking"} => writer = NoRequest
    /\ Refuses(r)

\* The request is cancelled, or its own work fails: at any check, even at the
\* guard of the source.
Cancel(r) == at[r] \in Checked /\ Refuses(r)

Step(r) ==
    \/ Repin(r) \/ Decode(r) \/ Capture(r) \/ ValidateCase(r) \/ ValidateSource(r)
    \/ AnswerQuery(r) \/ CheckIdentity(r) \/ Acquire(r) \/ LockedCase(r) \/ LockedSource(r)
    \/ Publish(r) \/ SaveSettings(r) \/ Restamp(r) \/ Touch(r)
    \/ LookNames(r) \/ LookReceipt(r) \/ Refuse(r)

Arrives(r) ==
    \/ "look" \in Kinds /\ LookSource(r)
    \/ \E kind \in Kinds, c \in Cases \cup {NoCase}, p \in Paths : Pin(r, kind, c, p)

\* Another command commits the Case: field definitions, references, exclusions.
EditCase(c) ==
    /\ store[c].revision < MaxRevision
    /\ store' = [store EXCEPT ![c].revision = @ + 1]
    /\ UNCHANGED <<active, state, guard, at, task, pin, admitted, left, answer, published>>

\* The Case is deleted, and one with its id is imported: another analysis.
Recreate(c) ==
    /\ store[c].analysis < MaxAnalysis
    /\ store' = [store EXCEPT ![c] = [analysis |-> @.analysis + 1, revision |-> 0, stamps |-> Plain]]
    /\ UNCHANGED <<active, state, guard, at, task, pin, admitted, left, answer, published>>

\* The page records another active Case.
Switch(c) ==
    /\ active # c
    /\ active' = c
    /\ UNCHANGED <<store, state, guard, at, task, pin, admitted, left, answer, published>>

Next ==
    \/ \E r \in Requests : Arrives(r) \/ Step(r) \/ Cancel(r)
    \/ \E c \in Cases : EditCase(c) \/ Recreate(c)
    \/ \E c \in Cases \cup {NoCase} : Switch(c)

Spec == Init /\ [][Next]_vars

-----------------------------------------------------------------------------
(* Properties.                                                              *)

Register == INSTANCE SourceRegister WITH
    log <- published,
    began <- [r \in Requests |-> pin[r].generation],
    outcome <- answer

\* Whatever the Case and the other requests do, the source behaves as one
\* versioned register: no load is lost under another, no snapshot is torn, a
\* query answers the version it pinned, a refused request published nothing.
ImplementsRegister == Register!Spec

\* The exception: an edit of a file's time settings reads only the first of its
\* parts again (lib.rs:850), so a file merged twice keeps a part with the settings
\* it was merged with, though mcp.rs:1606 promises them to the current source.
ReadAgain(n) == n = PositionOf(source[n].path)

\* The time settings that the first part of each file of the open source was read
\* with are those its Case records, though the two live in different stores and
\* change one after the other: queries that show the Case's settings show what
\* those rows carry.  Nothing is said of a file's other parts.
StampsCurrent ==
    \A n \in DOMAIN source :
        LET part == source[n]
        IN  /\ ReadAgain(n)
            /\ part.case # NoCase
            /\ store[part.case].analysis = part.analysis
            /\ writer # NoRequest => at[writer] # "saved"
            => part.stamp = store[part.case].stamps[part.path]

\* Rows of two Cases are never in one source, and the receipt names their Case.
OneOwner ==
    writer = NoRequest =>
        \A n \in DOMAIN source : Owner(source[n]) = Owner(publication.context)

\* The rows on show are those of the Case they are shown for: its files, the first
\* part of each read with its settings, through every refusal, merge and edit
\* under the guards.
SourceFaithful == OneOwner /\ StampsCurrent
=============================================================================

------------------------- MODULE SourcePublication_proofs -------------------------
(***************************************************************************)
(* Theorems about SourcePublication: its type invariant, the faithfulness  *)
(* of the parts on show, and that it implements the versioned register.    *)
(*                                                                         *)
(* The inductive invariant says who stands where with which guard and      *)
(* receipt, that the history ends with what is on show unless its writer   *)
(* is between the parts and the receipt, and, of the two stores, that what *)
(* a request knows of a Case is never newer than the Case, so that an      *)
(* identity which still agrees means that nothing changed in between.      *)
(***************************************************************************)
EXTENDS SourcePublication, SequenceTheorems, WellFoundedInduction, TLAPS

Values == [source : Seq(Parts), names : Seq(Paths), context : Identities]

Unpinned == {"idle", "looking", "naming", "done"}
Viewing  == {"looking", "naming"}
Locked   == {"locked", "owned", "prepared", "saved", "stamped"}
Cleared  == {"prepared", "saved", "stamped"}
Undecoded == {"idle", "looking", "naming", "done", "pinned", "decoding"}
Captures == {"captured", "validating", "rechecking", "working"}

-----------------------------------------------------------------------------
(* The inductive invariant.                                                *)

\* Who holds which guard: the write guard excludes every other.
Guards ==
    /\ \A r \in Requests : writer = r <=> at[r] \in Locked
    /\ \A r \in Requests : r \in readers <=> at[r] \in Viewing
    /\ writer # NoRequest => readers = {}

\* The history ends with what is on show, but for parts re-read and not yet
\* published by the writer.
Logged ==
    /\ published \in Seq(Values)
    /\ Len(published) = publication.generation + 1
    /\ published[Len(published)].names = names
    /\ published[Len(published)].context = publication.context
    /\ (\A r \in Requests : at[r] # "stamped") => published[Len(published)].source = source

\* A request that has not answered, its receipt and what it captured under it.
Receipted(r) ==
    /\ at[r] # "done" => answer[r] = NoAnswer
    /\ at[r] \in Unpinned => pin[r] = NoReceipt
    /\ at[r] \notin Unpinned =>
           /\ pin[r] \in Receipts
           /\ pin[r].generation <= publication.generation
           /\ published[pin[r].generation + 1].context = pin[r].context
    /\ at[r] \in Captures /\ Is(r, "query") =>
           /\ admitted[r].source = published[pin[r].generation + 1].source
           /\ admitted[r].names = published[pin[r].generation + 1].names
    /\ at[r] \in Viewing => admitted[r].source = source
    /\ at[r] = "naming" => admitted[r].names = names
    /\ at[r] \in {"validating", "rechecking"} => left[r] > 0

\* What kind of request can stand where.
Kinded(r) ==
    /\ at[r] \notin Unpinned => task[r].kind \in {"load", "merge", "clear", "stamp", "query"}
    /\ at[r] \in Locked \cup {"locking"} => ~Is(r, "query")
    /\ at[r] \in {"saved", "stamped"} => Is(r, "stamp")
    /\ at[r] \notin Unpinned /\ Is(r, "stamp") => Id(r).case # NoCase

\* What the checks under the write guard found stays so while it is held.
Checks(r) ==
    /\ at[r] \in Cleared => /\ Unpublished(r) /\ NextExists
                            /\ Merges(r) /\ Stamps(r)
    /\ at[r] \in {"saved", "stamped"} => Id(r).revision < MaxRevision

\* No request and no part knows a Case better than the Case database.
Known(r) ==
    Id(r).case # NoCase =>
        /\ Id(r).analysis <= store[Id(r).case].analysis
        /\ Id(r).analysis = store[Id(r).case].analysis => Id(r).revision <= store[Id(r).case].revision
PartsKnown ==
    \A n \in DOMAIN source : source[n].case # NoCase => source[n].analysis <= store[source[n].case].analysis

Same(r) == Id(r).case # NoCase /\ store[Id(r).case].analysis = Id(r).analysis

\* The settings a request admitted are those of its Case as long as its identity
\* agrees; under the write guard, as long as the Case is not deleted.
Settled(r) ==
    /\ at[r] \notin Undecoded /\ Same(r) /\ store[Id(r).case].revision = Id(r).revision =>
           admitted[r].settings = store[Id(r).case].stamps
    /\ at[r] \in {"owned", "prepared"} /\ ~Is(r, "stamp") /\ Same(r) =>
           admitted[r].settings = store[Id(r).case].stamps
    /\ at[r] = "saved" /\ Same(r) => store[Id(r).case].stamps[task[r].path] = Id(r).revision + 1

\* All the parts are of the owner the receipt names, under the guards too.
Owned == \A n \in DOMAIN source : Owner(source[n]) = Owner(publication.context)

\* The part is about to be read again.
Restamping(path) == \E r \in Requests : at[r] = "saved" /\ task[r].path = path

PartsCurrent ==
    \A n \in DOMAIN source :
        /\ source[n].case # NoCase
        /\ store[source[n].case].analysis = source[n].analysis
        /\ \A m \in 1..(n - 1) : source[m].path # source[n].path
        /\ ~Restamping(source[n].path)
        => source[n].stamp = store[source[n].case].stamps[source[n].path]

AnswerOK == answer = [r \in Requests |-> answer[r]]

Faithful == PartsKnown /\ Owned /\ PartsCurrent

IInv ==
    /\ TypeOK /\ AnswerOK /\ Guards /\ Logged
    /\ \A r \in Requests : Receipted(r) /\ Kinded(r) /\ Checks(r) /\ Known(r) /\ Settled(r)
    /\ Faithful

-----------------------------------------------------------------------------
(* Lemmas about sequences.                                                 *)

\* A set of numbers that is not empty has a least one.
LEMMA Least ==
    ASSUME NEW S \in SUBSET Nat, S # {}
    PROVE  Min(S) \in S /\ \A y \in S : Min(S) <= y
<1> DEFINE R == OpToRel(<, Nat)
<1>1. IsWellFoundedOn(R, Nat)
  BY NatLessThanWellFounded, Zenon
<1>2. \A i, j \in Nat : i < j => <<i, j>> \in R
  BY DEF OpToRel
<1> HIDE DEF R
<1>3. PICK x \in S : \A y \in S : <<y, x>> \notin R
  BY <1>1, WFMin
<1>4. \A y \in S : x <= y
  <2>1. SUFFICES ASSUME NEW y \in S PROVE x <= y
    OBVIOUS
  <2>2. ~(y < x)
    BY <1>2, <1>3, <2>1
  <2> QED
    BY <2>2
<1> QED
  BY <1>4 DEF Min

\* First finds the first part with a path, which PositionOf and the properties use.
LEMMA FirstExact ==
    ASSUME NEW s \in Seq(Parts), NEW path
    PROVE  \/ /\ First(s, path) = 0
              /\ \A i \in 1..Len(s) : s[i].path # path
           \/ /\ First(s, path) \in 1..Len(s)
              /\ s[First(s, path)].path = path
              /\ \A i \in 1..Len(s) : s[i].path = path => First(s, path) <= i
<1> DEFINE I == {i \in 1..Len(s) : s[i].path = path}
<1>1. First(s, path) = IF I # {} THEN Min(I) ELSE 0
  BY Zenon DEF SelectInSeq, First
<1>2. I \in SUBSET Nat
  OBVIOUS
<1> QED BY <1>1, <1>2, Least

\* Its form for the parts on show.
LEMMA PositionExact ==
    ASSUME source \in Seq(Parts), NEW path
    PROVE  \/ /\ PositionOf(path) = 0
              /\ \A i \in 1..Len(source) : source[i].path # path
           \/ /\ PositionOf(path) \in 1..Len(source)
              /\ source[PositionOf(path)].path = path
              /\ \A i \in 1..Len(source) : source[i].path = path => PositionOf(path) <= i
BY FirstExact DEF PositionOf

-----------------------------------------------------------------------------
(* What a step of one request leaves alone.                                *)

\* The constants' values are of the types they are used at.
LEMMA ConstantTypes ==
    /\ Nobody \in Identities /\ Plain \in Settings
    /\ NoTask \in [kind : Kinds \cup {"look"}, identity : Identities, path : Paths]
    /\ NoCapture \in [settings : Settings, source : Seq(Parts), names : Seq(Paths)]
    /\ NoReceipt.generation = -1 /\ NoReceipt \notin Receipts
    /\ NoTask.identity.case = NoCase /\ NoTask.kind = "look"
<1>1. 0 \in 0..MaxAnalysis /\ 0 \in 0..MaxRevision
  BY LimitAssumption
<1>2. Nobody \in Identities /\ Plain \in Settings
  BY <1>1 DEF Nobody, Identities, Plain, Settings
<1>3. (CHOOSE p \in Paths : TRUE) \in Paths
  BY LimitAssumption
<1>4. NoTask \in [kind : Kinds \cup {"look"}, identity : Identities, path : Paths]
  BY <1>2, <1>3 DEF NoTask
<1>5. NoCapture \in [settings : Settings, source : Seq(Parts), names : Seq(Paths)]
  BY <1>2 DEF NoCapture
<1>6. NoReceipt.generation = -1 /\ NoReceipt \notin Receipts
  BY DEF NoReceipt, Receipts
<1> QED
  BY <1>2, <1>4, <1>5, <1>6 DEF NoTask, Nobody

\* What is recorded of the requests and the guards has its types.
RequestsOK ==
    /\ writer \in Requests \cup {NoRequest} /\ readers \subseteq Requests
    /\ at \in [Requests -> Points]
    /\ task \in [Requests -> [kind : Kinds \cup {"look"}, identity : Identities, path : Paths]]
    /\ pin \in [Requests -> Receipts \cup {NoReceipt}]
    /\ admitted \in [Requests -> [settings : Settings, source : Seq(Parts), names : Seq(Paths)]]
    /\ left \in [Requests -> 0..3]
    /\ AnswerOK

\* What is kept of the Case and of the source has its types.
StoresOK ==
    /\ store \in [Cases -> [analysis : 0..MaxAnalysis, revision : 0..MaxRevision, stamps : Settings]]
    /\ active \in Cases \cup {NoCase}
    /\ source \in Seq(Parts) /\ names \in Seq(Paths)
    /\ publication \in Receipts

\* What the invariant says of one request.
Sound(r) == Receipted(r) /\ Kinded(r) /\ Checks(r) /\ Known(r) /\ Settled(r)

\* The invariant in these parts.
LEMMA Parted ==
    IInv <=> /\ RequestsOK /\ StoresOK /\ Guards /\ Logged /\ Faithful
             /\ \A r \in Requests : Sound(r)
BY DEF IInv, TypeOK, RequestsOK, StoresOK, Sound

\* What a request is made of, all of it.
SameRequest(q) ==
    /\ at'[q] = at[q] /\ task'[q] = task[q] /\ pin'[q] = pin[q]
    /\ admitted'[q] = admitted[q] /\ left'[q] = left[q] /\ answer'[q] = answer[q]

\* A step of one request that changes no store keeps the invariant of the others.
LEMMA Private ==
    ASSUME IInv, NEW r \in Requests, UNCHANGED <<case, state, published>>,
           \A q \in Requests \ {r} : SameRequest(q),
           at[r] \notin {"saved", "stamped"}, at'[r] \notin {"saved", "stamped"},
           RequestsOK', Guards', Sound(r)'
    PROVE  IInv'
<1>1. StoresOK' /\ StoresOK /\ Logged /\ Faithful /\ \A q \in Requests : Sound(q)
  <2>1. UNCHANGED StoresOK
    BY DEF StoresOK, case, state
  <2> QED
    BY <2>1, Parted
<1>2. Logged'
  <2>1. (\A q \in Requests : at'[q] # "stamped") => \A q \in Requests : at[q] # "stamped"
    BY DEF SameRequest
  <2> QED
    BY <1>1, <2>1 DEF Logged, state
<1>3. Faithful'
  <2>1. \A path : Restamping(path)' <=> Restamping(path)
    BY DEF Restamping, SameRequest
  <2> QED
    BY <1>1, <2>1 DEF Faithful, PartsKnown, Owned, PartsCurrent, case, state, Owner
<1>4. ASSUME NEW q \in Requests \ {r} PROVE Sound(q)'
  <2>1. Is(q, "query")' = Is(q, "query") /\ Is(q, "stamp")' = Is(q, "stamp") /\ Is(q, "merge")' = Is(q, "merge")
        /\ Id(q)' = Id(q) /\ Same(q)' = Same(q)
    BY DEF Is, Id, SameRequest, Same, case
  <2>2. Receipted(q)' /\ Kinded(q)'
    BY <1>1, <2>1 DEF Sound, Receipted, Kinded, SameRequest, state
  <2>3. Checks(q)'
    <3>1. /\ Unpublished(q)' = Unpublished(q) /\ NextExists' = NextExists
          /\ OwnsSource(q)' = OwnsSource(q) /\ \A path : PositionOf(path)' = PositionOf(path)
      BY <2>1 DEF SameRequest, Unpublished, NextExists, OwnsSource, Owner, PositionOf, state
    <3>2. Merges(q)' = Merges(q) /\ Stamps(q)' = Stamps(q)
      BY <2>1, <3>1 DEF Merges, Stamps, SameRequest, state
    <3> QED
      BY <1>1, <2>1, <3>1, <3>2 DEF Sound, Checks, SameRequest
  <2>4. Known(q)' /\ Settled(q)'
    BY <1>1, <2>1 DEF Sound, Known, Settled, SameRequest, case
  <2> QED
    BY <2>2, <2>3, <2>4 DEF Sound
<1>5. \A q \in Requests : Sound(q)'
  BY <1>4
<1> QED
  BY <1>1, <1>2, <1>3, <1>5 DEF IInv, TypeOK, RequestsOK, StoresOK, Sound

\* A request that ends has nothing left, and its guards are free.
LEMMA Ending ==
    ASSUME IInv, NEW r \in Requests, NEW what, Ends(r, what)
    PROVE  /\ RequestsOK' /\ Guards' /\ Sound(r)'
           /\ \A q \in Requests \ {r} : SameRequest(q)
           /\ at'[r] = "done"
<1>1. RequestsOK /\ Guards /\ r \in DOMAIN answer
  BY Parted DEF RequestsOK, AnswerOK
<1>2. RequestsOK'
  <2>1. AnswerOK'
    BY <1>1 DEF RequestsOK, AnswerOK, Ends
  <2>2. writer' \in Requests \cup {NoRequest} /\ readers' \subseteq Requests
    BY <1>1 DEF RequestsOK, Ends
  <2>3. at' \in [Requests -> Points] /\ pin' \in [Requests -> Receipts \cup {NoReceipt}]
        /\ left' \in [Requests -> 0..3]
    BY <1>1 DEF RequestsOK, Ends, Points
  <2>4. task' \in [Requests -> [kind : Kinds \cup {"look"}, identity : Identities, path : Paths]]
    BY <1>1, ConstantTypes DEF RequestsOK, Ends
  <2>5. admitted' \in [Requests -> [settings : Settings, source : Seq(Parts), names : Seq(Paths)]]
    BY <1>1, ConstantTypes DEF RequestsOK, Ends
  <2> QED
    BY <2>1, <2>2, <2>3, <2>4, <2>5 DEF RequestsOK
<1>3. \A q \in Requests \ {r} : SameRequest(q)
  BY <1>1 DEF SameRequest, Ends, RequestsOK, AnswerOK
<1>4. /\ at'[r] = "done" /\ task'[r] = NoTask /\ pin'[r] = NoReceipt
  BY <1>1 DEF Ends, RequestsOK
<1>5. Guards'
  BY <1>1, <1>3, <1>4, RequestAssumption DEF Guards, Ends, SameRequest, Locked, Viewing
<1>6. Sound(r)'
  BY <1>4, ConstantTypes DEF Sound, Receipted, Kinded, Checks, Known, Settled, Id, Is, Same,
     Unpinned, Captures, Viewing, Locked, Cleared, Undecoded
<1> QED
  BY <1>2, <1>3, <1>4, <1>5, <1>6

\* A request that only ends keeps the invariant.
LEMMA OnlyEnding ==
    ASSUME IInv, NEW r \in Requests, NEW what, Ends(r, what), UNCHANGED <<case, state, published>>,
           at[r] \notin {"saved", "stamped"}
    PROVE  IInv'
BY Ending, Private

-----------------------------------------------------------------------------
(* The capture and the validations.                                        *)

\* A step of one request between two points, with or without some of its data.
LEMMA Going ==
    ASSUME IInv, NEW r \in Requests, NEW from, NEW to \in Points, Goto(r, from, to),
           UNCHANGED <<task, pin, answer>>,
           left' \in [Requests -> 0..3],
           admitted' \in [Requests -> [settings : Settings, source : Seq(Parts), names : Seq(Paths)]],
           \A q \in Requests \ {r} : left'[q] = left[q] /\ admitted'[q] = admitted[q],
           writer' \in Requests \cup {NoRequest}, readers' \subseteq Requests
    PROVE  /\ RequestsOK'
           /\ \A q \in Requests \ {r} : SameRequest(q)
           /\ at[r] = from /\ at'[r] = to
           /\ task'[r] = task[r] /\ pin'[r] = pin[r] /\ answer'[r] = answer[r]
           /\ Is(r, "query")' = Is(r, "query") /\ Is(r, "stamp")' = Is(r, "stamp")
           /\ Is(r, "merge")' = Is(r, "merge") /\ Id(r)' = Id(r)
<1>1. RequestsOK
  BY Parted
<1>2. RequestsOK'
  <2>1. AnswerOK'
    BY <1>1 DEF RequestsOK, AnswerOK
  <2> QED
    BY <1>1, <2>1 DEF RequestsOK, Goto
<1>3. \A q \in Requests \ {r} : SameRequest(q)
  BY <1>1 DEF SameRequest, Goto, RequestsOK
<1> QED
  BY <1>1, <1>2, <1>3 DEF Goto, RequestsOK, Is, Id

\* The first and the second look at the receipt keep the invariant.
LEMMA RepinKeeps == ASSUME IInv, NEW r \in Requests, Repin(r) PROVE IInv'
<1>1. RequestsOK /\ Guards /\ Sound(r)
  BY Parted
<1>2. CASE Goto(r, "pinned", "decoding") /\ UNCHANGED left
  <2>1. /\ RequestsOK' /\ \A q \in Requests \ {r} : SameRequest(q)
        /\ at[r] = "pinned" /\ at'[r] = "decoding"
        /\ task'[r] = task[r] /\ pin'[r] = pin[r] /\ answer'[r] = answer[r]
        /\ Is(r, "query")' = Is(r, "query") /\ Is(r, "stamp")' = Is(r, "stamp") /\ Id(r)' = Id(r)
    <3>1. left' \in [Requests -> 0..3] /\ "decoding" \in Points
      BY <1>1, <1>2 DEF RequestsOK, Points
    <3> QED
      BY <1>1, <1>2, <3>1, Going DEF Repin, guard, RequestsOK
  <2>2. Guards'
    BY <1>1, <2>1 DEF Guards, Repin, guard, SameRequest, Locked, Viewing
  <2>3. Sound(r)'
    BY <1>1, <2>1 DEF Repin, case, state, Sound, Receipted, Kinded, Checks, Known, Settled, Same,
       Unpinned, Captures, Viewing, Locked, Cleared, Undecoded
  <2> QED
    BY <2>1, <2>2, <2>3, Private DEF Repin
<1>3. CASE Goto(r, "captured", "validating") /\ left' = [left EXCEPT ![r] = 3]
  <2>1. /\ RequestsOK' /\ \A q \in Requests \ {r} : SameRequest(q)
        /\ at[r] = "captured" /\ at'[r] = "validating"
        /\ task'[r] = task[r] /\ pin'[r] = pin[r] /\ answer'[r] = answer[r]
        /\ Is(r, "query")' = Is(r, "query") /\ Is(r, "stamp")' = Is(r, "stamp") /\ Id(r)' = Id(r)
    <3>1. left' \in [Requests -> 0..3] /\ "validating" \in Points
          /\ \A q \in Requests \ {r} : left'[q] = left[q]
      BY <1>1, <1>3 DEF RequestsOK, Points
    <3> QED
      BY <1>1, <1>3, <3>1, Going, ZenonT(60) DEF Repin, guard, RequestsOK
  <2>2. Guards'
    BY <1>1, <2>1 DEF Guards, Repin, guard, SameRequest, Locked, Viewing
  <2>3. left'[r] = 3
    BY <1>1, <1>3 DEF RequestsOK
  <2>4. Sound(r)'
    BY <1>1, <2>1, <2>3 DEF Repin, case, state, Sound, Receipted, Kinded, Checks, Known, Settled, Same,
       Unpinned, Captures, Viewing, Locked, Cleared, Undecoded
  <2> QED
    BY <2>1, <2>2, <2>4, Private DEF Repin
<1> QED
  BY <1>2, <1>3 DEF Repin

\* A step that only moves a request on keeps the invariant if it keeps the request's.
LEMMA Walking ==
    ASSUME IInv, NEW r \in Requests, NEW from, NEW to \in Points, Goto(r, from, to),
           UNCHANGED <<case, state, guard, task, pin, admitted, left, answer, published>>,
           from \in Locked <=> to \in Locked, {from, to} \cap Viewing = {},
           {from, to} \cap {"saved", "stamped"} = {},
           Sound(r)'
    PROVE  IInv'
<1>1. RequestsOK /\ Guards
  BY Parted
<1>2. /\ RequestsOK' /\ \A q \in Requests \ {r} : SameRequest(q)
      /\ at[r] = from /\ at'[r] = to
  BY <1>1, Going DEF RequestsOK, guard
<1>3. Guards'
  BY <1>1, <1>2 DEF Guards, guard, SameRequest
<1> QED
  BY <1>2, <1>3, Private

\* What such a step leaves of the request, and of what its checks compare.
LEMMA Walked ==
    ASSUME IInv, NEW r \in Requests, NEW from, NEW to, Goto(r, from, to),
           UNCHANGED <<case, state, task, pin, answer, published>>
    PROVE  /\ at[r] = from /\ at'[r] = to
           /\ Id(r)' = Id(r) /\ Same(r)' = Same(r) /\ \A kind : Is(r, kind)' = Is(r, kind)
           /\ Unpublished(r)' = Unpublished(r) /\ NextExists' = NextExists
           /\ Merges(r)' = Merges(r) /\ Stamps(r)' = Stamps(r) /\ OwnsSource(r)' = OwnsSource(r)
<1>1. at[r] = from /\ at'[r] = to
  BY Parted DEF Goto, RequestsOK
<1>2. Id(r)' = Id(r) /\ Same(r)' = Same(r) /\ \A kind : Is(r, kind)' = Is(r, kind)
  BY DEF Id, Same, Is, case
<1>3. /\ Unpublished(r)' = Unpublished(r) /\ NextExists' = NextExists
      /\ OwnsSource(r)' = OwnsSource(r) /\ \A path : PositionOf(path)' = PositionOf(path)
  BY <1>2 DEF Unpublished, NextExists, OwnsSource, Owner, PositionOf, state
<1>4. Merges(r)' = Merges(r) /\ Stamps(r)' = Stamps(r)
  BY <1>2, <1>3 DEF Merges, Stamps, state
<1> QED
  BY <1>1, <1>2, <1>3, <1>4

\* The look at the Case keeps the invariant.
LEMMA ValidateCaseKeeps == ASSUME IInv, NEW r \in Requests, ValidateCase(r) PROVE IInv'
<1>1. Sound(r)
  BY Parted
<1>2. Goto(r, "validating", "rechecking") /\ "rechecking" \in Points
      /\ UNCHANGED <<case, state, guard, task, pin, admitted, left, answer, published>>
  BY DEF ValidateCase, Points
<1>3. /\ at[r] = "validating" /\ at'[r] = "rechecking"
      /\ Id(r)' = Id(r) /\ Same(r)' = Same(r) /\ \A kind : Is(r, kind)' = Is(r, kind)
      /\ Unpublished(r)' = Unpublished(r) /\ NextExists' = NextExists
      /\ Merges(r)' = Merges(r) /\ Stamps(r)' = Stamps(r)
  BY <1>2, Walked
<1>4. Sound(r)'
  BY <1>1, <1>2, <1>3 DEF ValidateCase, Valid, case, state, Sound, Receipted, Kinded, Checks, Known, Settled,
     Unpinned, Captures, Viewing, Locked, Cleared, Undecoded
<1> QED
  BY <1>2, <1>4, Walking DEF Locked, Viewing

\* The look at the Case before the wait for the source keeps it.
LEMMA CheckIdentityKeeps == ASSUME IInv, NEW r \in Requests, CheckIdentity(r) PROVE IInv'
<1>1. Sound(r)
  BY Parted
<1>2. Goto(r, "working", "locking") /\ "locking" \in Points
      /\ UNCHANGED <<case, state, guard, task, pin, admitted, left, answer, published>>
  BY DEF CheckIdentity, Points
<1>3. /\ at[r] = "working" /\ at'[r] = "locking"
      /\ Id(r)' = Id(r) /\ Same(r)' = Same(r) /\ \A kind : Is(r, kind)' = Is(r, kind)
      /\ Unpublished(r)' = Unpublished(r) /\ NextExists' = NextExists
      /\ Merges(r)' = Merges(r) /\ Stamps(r)' = Stamps(r)
  BY <1>2, Walked
<1>4. Sound(r)'
  BY <1>1, <1>2, <1>3 DEF CheckIdentity, Valid, case, state, Sound, Receipted, Kinded, Checks, Known, Settled,
     Unpinned, Captures, Viewing, Locked, Cleared, Undecoded
<1> QED
  BY <1>2, <1>4, Walking DEF Locked, Viewing

\* The look at the Case under the write guard keeps it: the settings admitted are current.
LEMMA LockedCaseKeeps == ASSUME IInv, NEW r \in Requests, LockedCase(r) PROVE IInv'
<1>1. Sound(r)
  BY Parted
<1>2. Goto(r, "locked", "owned") /\ "owned" \in Points
      /\ UNCHANGED <<case, state, guard, task, pin, admitted, left, answer, published>>
  BY DEF LockedCase, Points
<1>3. /\ at[r] = "locked" /\ at'[r] = "owned"
      /\ Id(r)' = Id(r) /\ Same(r)' = Same(r) /\ \A kind : Is(r, kind)' = Is(r, kind)
      /\ Unpublished(r)' = Unpublished(r) /\ NextExists' = NextExists
      /\ Merges(r)' = Merges(r) /\ Stamps(r)' = Stamps(r)
  BY <1>2, Walked
<1>4. Sound(r)'
  BY <1>1, <1>2, <1>3 DEF LockedCase, Valid, Current, IdentityOf, Same, Is, Id, case, state, Sound, Receipted, Kinded, Checks, Known, Settled,
     Unpinned, Captures, Viewing, Locked, Cleared, Undecoded
<1> QED
  BY <1>2, <1>4, Walking DEF Locked, Viewing

\* The look at the source under the write guard keeps it.
LEMMA LockedSourceKeeps == ASSUME IInv, NEW r \in Requests, LockedSource(r) PROVE IInv'
<1>1. Sound(r)
  BY Parted
<1>2. Goto(r, "owned", "prepared") /\ "prepared" \in Points
      /\ UNCHANGED <<case, state, guard, task, pin, admitted, left, answer, published>>
  BY DEF LockedSource, Points
<1>3. /\ at[r] = "owned" /\ at'[r] = "prepared"
      /\ Id(r)' = Id(r) /\ Same(r)' = Same(r) /\ \A kind : Is(r, kind)' = Is(r, kind)
      /\ Unpublished(r)' = Unpublished(r) /\ NextExists' = NextExists
      /\ Merges(r)' = Merges(r) /\ Stamps(r)' = Stamps(r)
  BY <1>2, Walked
<1>4. Sound(r)'
  BY <1>1, <1>2, <1>3 DEF LockedSource, Valid, case, state, Sound, Receipted, Kinded, Checks, Known, Settled,
     Unpinned, Captures, Viewing, Locked, Cleared, Undecoded
<1> QED
  BY <1>2, <1>4, Walking DEF Locked, Viewing

\* The looks at the source after those at the Case keep it.
LEMMA ValidateSourceKeeps == ASSUME IInv, NEW r \in Requests, ValidateSource(r) PROVE IInv'
<1> DEFINE to == IF left[r] > 1 THEN "validating" ELSE IF Is(r, "stamp") THEN "locking" ELSE "working"
<1>1. RequestsOK /\ Guards /\ Sound(r)
  BY Parted
<1>2. Goto(r, "rechecking", to) /\ to \in {"validating", "locking", "working"} /\ to \in Points
  BY DEF ValidateSource, Points
<1>3. left[r] > 0 /\ left[r] \in 0..3
  BY <1>1, <1>2 DEF Sound, Receipted, Goto, RequestsOK
<1>4. /\ left' \in [Requests -> 0..3] /\ left'[r] = left[r] - 1
      /\ \A q \in Requests \ {r} : left'[q] = left[q]
  BY <1>1, <1>3 DEF ValidateSource, RequestsOK
<1> HIDE DEF to
<1>5. /\ RequestsOK' /\ \A q \in Requests \ {r} : SameRequest(q)
  BY <1>1, <1>2, <1>4, Going DEF ValidateSource, guard, RequestsOK
<1>6. /\ at[r] = "rechecking" /\ at'[r] = to
      /\ Id(r)' = Id(r) /\ Same(r)' = Same(r) /\ \A kind : Is(r, kind)' = Is(r, kind)
  BY <1>2, Walked DEF ValidateSource
<1>7. Guards'
  BY <1>1, <1>2, <1>5, <1>6 DEF Guards, ValidateSource, guard, SameRequest, Locked, Viewing
<1>8. to = "validating" => left'[r] > 0
  BY <1>3, <1>4 DEF to
<1>9. to = "locking" => Is(r, "stamp")
  BY DEF to
<1>10. Sound(r)'
  BY <1>1, <1>2, <1>6, <1>8, <1>9 DEF ValidateSource, case, state, Sound, Receipted, Kinded, Checks, Known,
     Settled, Is, Unpinned, Captures, Viewing, Locked, Cleared, Undecoded
<1> QED
  BY <1>2, <1>5, <1>6, <1>7, <1>10, Private DEF ValidateSource

\* The settings of the Case are captured while its identity is current.
LEMMA DecodeKeeps == ASSUME IInv, NEW r \in Requests, Decode(r) PROVE IInv'
<1> DEFINE settings == IF Id(r).case = NoCase THEN Plain ELSE store[Id(r).case].stamps
<1>1. RequestsOK /\ StoresOK /\ Guards /\ Sound(r)
  BY Parted
<1>2. Goto(r, "decoding", "reading") /\ "reading" \in Points
  BY DEF Decode, Points
<1>3. settings \in Settings
  BY <1>1, ConstantTypes DEF StoresOK, RequestsOK, Identities, Id
<1> HIDE DEF settings
<1>4. /\ admitted' \in [Requests -> [settings : Settings, source : Seq(Parts), names : Seq(Paths)]]
      /\ \A q \in Requests \ {r} : admitted'[q] = admitted[q]
      /\ admitted'[r].settings = settings
  BY <1>1, <1>3 DEF Decode, RequestsOK, settings
<1>5. /\ RequestsOK' /\ \A q \in Requests \ {r} : SameRequest(q)
  BY <1>1, <1>2, <1>4, Going DEF Decode, guard, RequestsOK
<1>6. /\ at[r] = "decoding" /\ at'[r] = "reading"
      /\ Id(r)' = Id(r) /\ Same(r)' = Same(r) /\ \A kind : Is(r, kind)' = Is(r, kind)
  BY <1>2, Walked DEF Decode
<1>7. Guards'
  BY <1>1, <1>5, <1>6 DEF Guards, Decode, guard, SameRequest, Locked, Viewing
<1>8. Sound(r)'
  BY <1>1, <1>4, <1>6 DEF Decode, settings, case, state, Sound, Receipted, Kinded, Checks, Known, Settled,
     Same, Unpinned, Captures, Viewing, Locked, Cleared, Undecoded
<1> QED
  BY <1>5, <1>6, <1>7, <1>8, Private DEF Decode

\* Under the read guard nobody publishes: a query captures what its receipt names.
LEMMA CaptureKeeps == ASSUME IInv, NEW r \in Requests, Capture(r) PROVE IInv'
<1> DEFINE captured == IF Is(r, "query") THEN source ELSE <<>>
<1>1. RequestsOK /\ StoresOK /\ Guards /\ Logged /\ Sound(r)
  BY Parted
<1>2. Goto(r, "reading", "captured") /\ "captured" \in Points
  BY DEF Capture, Points
<1>3. captured \in Seq(Parts) /\ names \in Seq(Paths)
  BY <1>1 DEF StoresOK
<1> HIDE DEF captured
<1>4. admitted' = [admitted EXCEPT ![r] = [[admitted[r] EXCEPT !.names = names] EXCEPT !.source = captured]]
  BY <1>1 DEF Capture, RequestsOK, captured
<1>5. /\ admitted' \in [Requests -> [settings : Settings, source : Seq(Parts), names : Seq(Paths)]]
      /\ \A q \in Requests \ {r} : admitted'[q] = admitted[q]
      /\ admitted'[r].settings = admitted[r].settings
      /\ admitted'[r].source = captured /\ admitted'[r].names = names
  BY <1>1, <1>3, <1>4 DEF RequestsOK
<1>6. /\ RequestsOK' /\ \A q \in Requests \ {r} : SameRequest(q)
  BY <1>1, <1>2, <1>5, Going DEF Capture, guard, RequestsOK
<1>7. /\ at[r] = "reading" /\ at'[r] = "captured"
      /\ Id(r)' = Id(r) /\ Same(r)' = Same(r) /\ \A kind : Is(r, kind)' = Is(r, kind)
  BY <1>2, Walked DEF Capture
<1>8. Guards'
  BY <1>1, <1>6, <1>7 DEF Guards, Capture, guard, SameRequest, Locked, Viewing
<1>9. /\ published[pin[r].generation + 1].source = source
      /\ published[pin[r].generation + 1].names = names
  <2>1. \A q \in Requests : at[q] # "stamped"
    BY <1>1, RequestAssumption DEF Capture, Guards, Locked
  <2>2. pin[r].generation = publication.generation
    BY <1>7 DEF Capture, Valid, SourceValid, Unpublished
  <2> QED
    BY <1>1, <2>1, <2>2 DEF Logged
<1>10. Sound(r)'
  BY <1>1, <1>5, <1>7, <1>9 DEF Capture, captured, case, state, Sound, Receipted, Kinded, Checks, Known,
     Settled, Unpinned, Captures, Viewing, Locked, Cleared, Undecoded
<1> QED
  BY <1>6, <1>7, <1>8, <1>10, Private DEF Capture

-----------------------------------------------------------------------------
(* The guards, the looks and the endings.                                  *)

\* The write guard is taken where nobody holds one.
LEMMA AcquireKeeps == ASSUME IInv, NEW r \in Requests, Acquire(r) PROVE IInv'
<1>1. RequestsOK /\ Guards /\ Sound(r)
  BY Parted
<1>2. Goto(r, "locking", "locked") /\ "locked" \in Points
  BY DEF Acquire, Points
<1>3. /\ RequestsOK' /\ \A q \in Requests \ {r} : SameRequest(q)
  BY <1>1, <1>2, Going DEF Acquire, RequestsOK
<1>4. /\ at[r] = "locking" /\ at'[r] = "locked"
      /\ Id(r)' = Id(r) /\ Same(r)' = Same(r) /\ \A kind : Is(r, kind)' = Is(r, kind)
  BY <1>2, Walked DEF Acquire
<1>5. Guards'
  BY <1>1, <1>3, <1>4, RequestAssumption DEF Guards, Acquire, SameRequest, Locked, Viewing
<1>6. Sound(r)'
  BY <1>1, <1>4 DEF Acquire, case, state, Sound, Receipted, Kinded, Checks, Known, Settled,
     Unpinned, Captures, Viewing, Locked, Cleared, Undecoded
<1> QED
  BY <1>3, <1>4, <1>5, <1>6, Private DEF Acquire

\* A look takes a read guard, and keeps the source it read under it.
LEMMA LookSourceKeeps == ASSUME IInv, NEW r \in Requests, LookSource(r) PROVE IInv'
<1>1. RequestsOK /\ StoresOK /\ Guards /\ Sound(r)
  BY Parted
<1>2. Goto(r, "idle", "looking") /\ "looking" \in Points
  BY DEF LookSource, Points
<1>3. /\ admitted' \in [Requests -> [settings : Settings, source : Seq(Parts), names : Seq(Paths)]]
      /\ \A q \in Requests \ {r} : admitted'[q] = admitted[q]
      /\ admitted'[r].source = source
  BY <1>1 DEF LookSource, RequestsOK, StoresOK
<1>4. /\ RequestsOK' /\ \A q \in Requests \ {r} : SameRequest(q)
  BY <1>1, <1>2, <1>3, Going DEF LookSource, RequestsOK
<1>5. /\ at[r] = "idle" /\ at'[r] = "looking"
      /\ Id(r)' = Id(r) /\ Same(r)' = Same(r) /\ \A kind : Is(r, kind)' = Is(r, kind)
  BY <1>2, Walked DEF LookSource
<1>6. Guards'
  BY <1>1, <1>4, <1>5 DEF Guards, LookSource, SameRequest, Locked, Viewing
<1>7. Sound(r)'
  BY <1>1, <1>3, <1>5 DEF LookSource, case, state, Sound, Receipted, Kinded, Checks, Known, Settled,
     Unpinned, Captures, Viewing, Locked, Cleared, Undecoded
<1> QED
  BY <1>4, <1>5, <1>6, <1>7, Private DEF LookSource

\* The names are read under the same read guard.
LEMMA LookNamesKeeps == ASSUME IInv, NEW r \in Requests, LookNames(r) PROVE IInv'
<1>1. RequestsOK /\ StoresOK /\ Guards /\ Sound(r)
  BY Parted
<1>2. Goto(r, "looking", "naming") /\ "naming" \in Points
  BY DEF LookNames, Points
<1>3. /\ admitted' \in [Requests -> [settings : Settings, source : Seq(Parts), names : Seq(Paths)]]
      /\ \A q \in Requests \ {r} : admitted'[q] = admitted[q]
      /\ admitted'[r].source = admitted[r].source /\ admitted'[r].names = names
  BY <1>1 DEF LookNames, RequestsOK, StoresOK
<1>4. /\ RequestsOK' /\ \A q \in Requests \ {r} : SameRequest(q)
  BY <1>1, <1>2, <1>3, Going DEF LookNames, guard, RequestsOK
<1>5. /\ at[r] = "looking" /\ at'[r] = "naming"
      /\ Id(r)' = Id(r) /\ Same(r)' = Same(r) /\ \A kind : Is(r, kind)' = Is(r, kind)
  BY <1>2, Walked DEF LookNames
<1>6. Guards'
  BY <1>1, <1>4, <1>5 DEF Guards, LookNames, guard, SameRequest, Locked, Viewing
<1>7. Sound(r)'
  BY <1>1, <1>3, <1>5 DEF LookNames, case, state, Sound, Receipted, Kinded, Checks, Known, Settled,
     Unpinned, Captures, Viewing, Locked, Cleared, Undecoded
<1> QED
  BY <1>4, <1>5, <1>6, <1>7, Private DEF LookNames

\* A request is pinned to the receipt on show, and knows the Case as it is.
LEMMA PinKeeps ==
    ASSUME IInv, NEW r \in Requests, NEW kind \in Kinds, NEW c \in Cases \cup {NoCase}, NEW path \in Paths,
           Pin(r, kind, c, path)
    PROVE  IInv'
<1>1. RequestsOK /\ StoresOK /\ Guards /\ Logged /\ Sound(r)
  BY Parted
<1>2. IdentityOf(c) \in Identities /\ IdentityOf(c).case = c
  BY <1>1, ConstantTypes DEF IdentityOf, StoresOK, Identities, Nobody
<1>3. CASE Refuses(r)
  BY <1>3, OnlyEnding DEF Pin, Refuses
<1>4. CASE ~Refuses(r)
  <2>1. /\ at' = [at EXCEPT ![r] = "pinned"] /\ at[r] = "idle"
        /\ task' = [task EXCEPT ![r] = [kind |-> kind, identity |-> IdentityOf(c), path |-> path]]
        /\ pin' = [pin EXCEPT ![r] = publication]
        /\ UNCHANGED <<case, state, guard, admitted, left, answer, published>>
    BY <1>4 DEF Pin, Goto
  <2>2. RequestsOK'
    <3>1. AnswerOK' /\ at' \in [Requests -> Points]
      BY <1>1, <2>1 DEF RequestsOK, AnswerOK, Points
    <3>2. task' \in [Requests -> [kind : Kinds \cup {"look"}, identity : Identities, path : Paths]]
      BY <1>1, <1>2, <2>1 DEF RequestsOK
    <3>3. pin' \in [Requests -> Receipts \cup {NoReceipt}]
      BY <1>1, <2>1 DEF RequestsOK, StoresOK
    <3> QED
      BY <1>1, <2>1, <3>1, <3>2, <3>3 DEF RequestsOK, guard
  <2>3. \A q \in Requests \ {r} : SameRequest(q)
    BY <1>1, <2>1 DEF RequestsOK, SameRequest
  <2>4. /\ at'[r] = "pinned" /\ pin'[r] = publication
        /\ task'[r].kind = kind /\ task'[r].identity = IdentityOf(c)
    BY <1>1, <2>1 DEF RequestsOK
  <2>5. Guards'
    BY <1>1, <2>1, <2>3, <2>4 DEF Guards, guard, SameRequest, Locked, Viewing
  <2>6. Receipted(r)' /\ Checks(r)'
    BY <1>1, <2>1, <2>4 DEF Sound, Receipted, Checks, Logged, StoresOK, Receipts, state,
       Unpinned, Captures, Viewing, Cleared
  <2>7. Kinded(r)'
    BY <1>2, <2>1, <2>4, RequestAssumption DEF Kinded, Is, Id, Locked, Pin
  <2>8. Known(r)' /\ Settled(r)'
    BY <1>1, <1>2, <2>1, <2>4 DEF Known, Settled, Id, IdentityOf, StoresOK, case, Undecoded
  <2> QED
    BY <2>1, <2>2, <2>3, <2>4, <2>5, <2>6, <2>7, <2>8, Private DEF Sound
<1> QED
  BY <1>3, <1>4

\* What only answers, refuses or is cancelled keeps the invariant.
LEMMA AnswersKeep ==
    ASSUME IInv, NEW r \in Requests, AnswerQuery(r) \/ LookReceipt(r) \/ Refuse(r) \/ Cancel(r)
    PROVE  IInv'
BY OnlyEnding DEF AnswerQuery, LookReceipt, Refuse, Cancel, Refuses, Checked

-----------------------------------------------------------------------------
(* The Case changes by other commands.                                     *)

\* What the Case database counts, before and after a step.
LEMMA CaseNumbers ==
    /\ StoresOK => \A c \in Cases : store[c].analysis \in Nat /\ store[c].revision \in Nat
    /\ StoresOK' => \A c \in Cases : store'[c].analysis \in Nat /\ store'[c].revision \in Nat
<1> DEFINE Records == [analysis : 0..MaxAnalysis, revision : 0..MaxRevision, stamps : Settings]
<1>1. \A x \in Records : x.analysis \in Nat /\ x.revision \in Nat
  BY LimitAssumption
<1>2. /\ StoresOK => \A c \in Cases : store[c] \in Records
      /\ StoresOK' => \A c \in Cases : store'[c] \in Records
  BY DEF StoresOK
<1> QED
  BY <1>1, <1>2

\* A step of the Case leaves the requests and the source, so it keeps the
\* invariant if it makes no identity agree that did not, and keeps the settings
\* of those that still do.
LEMMA CaseMoves ==
    ASSUME IInv, UNCHANGED <<state, guard, at, task, pin, admitted, left, answer, published>>,
           StoresOK',
           \A c \in Cases : \/ store'[c] = store[c]
                            \/ store'[c].analysis > store[c].analysis
                            \/ /\ store'[c].analysis = store[c].analysis
                               /\ store'[c].revision > store[c].revision
                               /\ store'[c].stamps = store[c].stamps
    PROVE  IInv'
<1>1. RequestsOK /\ StoresOK /\ Guards /\ Logged /\ Faithful /\ \A r \in Requests : Sound(r)
  BY Parted
<1>2. RequestsOK' /\ Guards' /\ Logged'
  BY <1>1 DEF RequestsOK, AnswerOK, Guards, Logged, guard, state
<1>3. \A r \in Requests : /\ Id(r)' = Id(r) /\ \A kind : Is(r, kind)' = Is(r, kind)
                          /\ Id(r) \in Identities
  BY <1>1 DEF Id, Is, RequestsOK
<1>4. ASSUME NEW r \in Requests PROVE Sound(r)'
  <2>1. Receipted(r)' /\ Kinded(r)'
    BY <1>1, <1>3 DEF Sound, Receipted, Kinded, state
  <2>2. Checks(r)'
    <3>1. /\ Unpublished(r)' = Unpublished(r) /\ NextExists' = NextExists
          /\ OwnsSource(r)' = OwnsSource(r) /\ \A path : PositionOf(path)' = PositionOf(path)
      BY <1>3 DEF Unpublished, NextExists, OwnsSource, Owner, PositionOf, state
    <3>2. Merges(r)' = Merges(r) /\ Stamps(r)' = Stamps(r)
      BY <1>3, <3>1 DEF Merges, Stamps, state
    <3> QED
      BY <1>1, <1>3, <3>1, <3>2 DEF Sound, Checks
  <2>3. CASE Id(r).case = NoCase
    BY <1>3, <2>1, <2>2, <2>3 DEF Sound, Known, Settled, Same
  <2>4. CASE Id(r).case # NoCase
    <3> DEFINE c == Id(r).case
    <3>1. /\ c \in Cases /\ Id(r).analysis \in Nat /\ Id(r).revision \in Nat
          /\ store[c].analysis \in Nat /\ store[c].revision \in Nat
          /\ store'[c].analysis \in Nat /\ store'[c].revision \in Nat
      <4>1. c \in Cases /\ Id(r).analysis \in Nat /\ Id(r).revision \in Nat
        BY <1>3, <2>4, LimitAssumption DEF Identities
      <4> QED
        BY <1>1, <4>1, CaseNumbers
    <3>2. Known(r)'
      BY <1>1, <1>3, <2>4, <3>1 DEF Sound, Known
    <3>3. Settled(r)'
      BY <1>1, <1>3, <2>4, <3>1 DEF Sound, Known, Settled, Same
    <3> QED
      BY <2>1, <2>2, <3>2, <3>3 DEF Sound
  <2> QED
    BY <2>3, <2>4
<1>5. Faithful'
  <2>1. Owned' /\ \A path : Restamping(path)' = Restamping(path)
    BY <1>1 DEF Faithful, Owned, Owner, state, Restamping
  <2>2. ASSUME NEW n \in DOMAIN source, source[n].case # NoCase
        PROVE  /\ source[n].case \in Cases /\ source[n].analysis \in Nat
               /\ store[source[n].case].analysis \in Nat /\ store'[source[n].case].analysis \in Nat
    <3>1. source[n] \in Parts
      BY <1>1 DEF StoresOK
    <3> QED
      BY <1>1, <2>2, <3>1, CaseNumbers, LimitAssumption DEF Parts
  <2>3. PartsKnown'
    BY <1>1, <2>2 DEF Faithful, PartsKnown, state
  <2>4. PartsCurrent'
    BY <1>1, <2>1, <2>2 DEF Faithful, PartsKnown, PartsCurrent, state
  <2> QED
    BY <2>1, <2>3, <2>4 DEF Faithful
<1> QED
  BY <1>2, <1>4, <1>5 DEF IInv, TypeOK, RequestsOK, StoresOK, Sound

\* An edit of the Case makes its revision newer than any a request knows.
LEMMA EditCaseKeeps == ASSUME IInv, NEW c \in Cases, EditCase(c) PROVE IInv'
<1>1. StoresOK
  BY Parted
<1>2. store[c].revision + 1 \in 0..MaxRevision
  BY <1>1, LimitAssumption DEF EditCase, StoresOK
<1>3. /\ store'[c].revision = store[c].revision + 1 /\ store'[c].analysis = store[c].analysis
      /\ store'[c].stamps = store[c].stamps /\ \A d \in Cases \ {c} : store'[d] = store[d]
  BY <1>1 DEF EditCase, StoresOK
<1>4. StoresOK'
  BY <1>1, <1>2 DEF EditCase, StoresOK, state
<1> QED
  BY <1>1, <1>3, <1>4, CaseMoves, LimitAssumption DEF EditCase, StoresOK

\* A Case imported again is another analysis than any a request or a part knows.
LEMMA RecreateKeeps == ASSUME IInv, NEW c \in Cases, Recreate(c) PROVE IInv'
<1>1. StoresOK
  BY Parted
<1>2. store[c].analysis + 1 \in 0..MaxAnalysis /\ 0 \in 0..MaxRevision
  BY <1>1, LimitAssumption DEF Recreate, StoresOK
<1>3. /\ store'[c].analysis = store[c].analysis + 1 /\ \A d \in Cases \ {c} : store'[d] = store[d]
  BY <1>1 DEF Recreate, StoresOK
<1>4. StoresOK'
  BY <1>1, <1>2, ConstantTypes DEF Recreate, StoresOK, state
<1> QED
  BY <1>1, <1>3, <1>4, CaseMoves, LimitAssumption DEF Recreate, StoresOK

\* Which Case is active is not part of what is on show.
LEMMA SwitchKeeps == ASSUME IInv, NEW c \in Cases \cup {NoCase}, Switch(c) PROVE IInv'
<1>1. StoresOK
  BY Parted
<1>2. StoresOK'
  BY <1>1 DEF Switch, StoresOK, state
<1> QED
  BY <1>2, CaseMoves DEF Switch

-----------------------------------------------------------------------------
(* The steps under the write guard.                                        *)

\* Who holds the write guard is alone.
LEMMA Alone ==
    ASSUME IInv, NEW r \in Requests, at[r] \in Locked
    PROVE  \A q \in Requests \ {r} : at[q] \notin Locked /\ at[q] \notin Viewing
BY Parted, RequestAssumption DEF Guards

\* The Case's settings are committed while its identity is current: whoever knew
\* it then knows an older one now, and the part is to be read again.
LEMMA SaveSettingsKeeps == ASSUME IInv, NEW r \in Requests, SaveSettings(r) PROVE IInv'
<1> DEFINE c == Id(r).case
           path == task[r].path
<1>1. RequestsOK /\ StoresOK /\ Guards /\ Logged /\ Faithful /\ \A q \in Requests : Sound(q)
  BY Parted
<1>2. Goto(r, "prepared", "saved") /\ "saved" \in Points
  BY DEF SaveSettings, Points
<1>3. /\ at[r] = "prepared" /\ at'[r] = "saved"
      /\ Is(r, "stamp") /\ Id(r) = IdentityOf(c) /\ Id(r).revision < MaxRevision
      /\ Id(r) \in Identities /\ path \in Paths /\ c \in Cases
  <2>1. at[r] = "prepared" /\ at'[r] = "saved"
    BY <1>1, <1>2 DEF Goto, RequestsOK
  <2>2. Id(r) \in Identities /\ path \in Paths /\ c # NoCase
    BY <1>1, <2>1 DEF RequestsOK, Id, Sound, Kinded, Unpinned, SaveSettings
  <2> QED
    BY <2>1, <2>2 DEF SaveSettings, Valid, Current, Identities
<1>4. /\ store[c].analysis = Id(r).analysis /\ store[c].revision = Id(r).revision
      /\ store[c].analysis \in Nat /\ store[c].revision \in Nat
  BY <1>1, <1>3, CaseNumbers, NoCaseAssumption DEF IdentityOf
<1> HIDE DEF c, path
<1>5. /\ store'[c].revision = store[c].revision + 1 /\ store'[c].analysis = store[c].analysis
      /\ store'[c].stamps[path] = Id(r).revision + 1
      /\ \A p \in Paths \ {path} : store'[c].stamps[p] = store[c].stamps[p]
      /\ \A d \in Cases \ {c} : store'[d] = store[d]
      /\ StoresOK'
  <2> DEFINE new == [[store[c] EXCEPT !.revision = @ + 1] EXCEPT !.stamps[path] = Id(r).revision + 1]
  <2>1. store' = [store EXCEPT ![c] = new]
    BY <1>1, <1>3 DEF SaveSettings, StoresOK, c, path
  <2>2. Id(r).revision + 1 \in 0..MaxRevision
    BY <1>3, <1>4, LimitAssumption
  <2>3. store[c] \in [analysis : 0..MaxAnalysis, revision : 0..MaxRevision, stamps : Settings]
    BY <1>1, <1>3 DEF StoresOK
  <2>4. /\ new.revision = store[c].revision + 1 /\ new.analysis = store[c].analysis
        /\ new.stamps = [store[c].stamps EXCEPT ![path] = Id(r).revision + 1]
        /\ new \in [analysis : 0..MaxAnalysis, revision : 0..MaxRevision, stamps : Settings]
    BY <1>3, <1>4, <2>2, <2>3 DEF Settings
  <2> HIDE DEF new
  <2>5. store[c].stamps \in Settings
    BY <2>3
  <2>6. StoresOK'
    BY <1>1, <2>1, <2>4, ZenonT(60) DEF StoresOK, SaveSettings, state
  <2> QED
    BY <1>1, <1>3, <2>1, <2>4, <2>5, <2>6 DEF StoresOK, Settings
<1>6. RequestsOK' /\ \A q \in Requests \ {r} : SameRequest(q)
  BY <1>1, <1>2, Going DEF SaveSettings, RequestsOK, guard
<1>7. \A q \in Requests \ {r} : at[q] \notin Locked /\ at[q] \notin Viewing
  BY <1>3, Alone DEF Locked
<1>8. Guards'
  BY <1>1, <1>3, <1>6 DEF Guards, SaveSettings, guard, SameRequest, Locked, Viewing
<1>9. Logged'
  BY <1>1, <1>3, <1>7 DEF Logged, SaveSettings, state, SameRequest, Locked
<1>10. \A q \in Requests : /\ Id(q)' = Id(q) /\ \A kind : Is(q, kind)' = Is(q, kind)
                           /\ Id(q) \in Identities
  BY <1>1 DEF Id, Is, RequestsOK, SaveSettings
<1>11. ASSUME NEW q \in Requests PROVE Sound(q)'
  <2>1. Receipted(q)' /\ Kinded(q)'
    <3>1. CASE q = r
      BY <1>1, <1>3, <1>10, <3>1 DEF Sound, Receipted, Kinded, SaveSettings, state, Unpinned, Captures,
         Viewing, Locked
    <3>2. CASE q # r
      BY <1>1, <1>6, <1>10, <3>2 DEF Sound, Receipted, Kinded, SaveSettings, state, SameRequest
    <3> QED
      BY <3>1, <3>2
  <2>2. Checks(q)'
    <3>1. /\ Unpublished(q)' = Unpublished(q) /\ NextExists' = NextExists
          /\ OwnsSource(q)' = OwnsSource(q) /\ \A x : PositionOf(x)' = PositionOf(x)
      BY <1>10 DEF Unpublished, NextExists, OwnsSource, Owner, PositionOf, state, SaveSettings
    <3>2. Merges(q)' = Merges(q) /\ Stamps(q)' = Stamps(q)
      BY <1>10, <3>1 DEF Merges, Stamps, state, SaveSettings
    <3>3. CASE q = r
      BY <1>1, <1>3, <1>10, <3>1, <3>2, <3>3 DEF Sound, Checks, Cleared
    <3>4. CASE q # r
      BY <1>1, <1>6, <1>10, <3>1, <3>2, <3>4 DEF Sound, Checks, SameRequest
    <3> QED
      BY <3>3, <3>4
  <2>3. ASSUME Id(q).case # NoCase
        PROVE  /\ Id(q).case \in Cases /\ Id(q).analysis \in Nat /\ Id(q).revision \in Nat
    BY <1>10, <2>3, LimitAssumption DEF Identities
  <2>4. Known(q)'
    BY <1>1, <1>4, <1>5, <1>10, <2>3 DEF Sound, Known
  <2>5. Settled(q)'
    <3>1. CASE q = r
      <4>1. /\ at'[r] = "saved" /\ Id(r)' = Id(r) /\ task'[r].path = path
            /\ store'[c].revision # Id(r).revision /\ store'[c].stamps[path] = Id(r).revision + 1
        <5>1. at'[r] = "saved" /\ store'[c].stamps[path] = Id(r).revision + 1
          BY <1>3, <1>5
        <5>2. task' = task
          BY DEF SaveSettings
        <5>3. Id(r)' = Id(r) /\ task'[r].path = path
          BY <5>2 DEF Id, path
        <5>4. store'[c].revision # Id(r).revision
          BY <1>4, <1>5
        <5> QED
          BY <5>1, <5>3, <5>4
      <4> QED
        BY <3>1, <4>1 DEF Settled, Same, c
    <3>2. CASE q # r
      BY <1>1, <1>4, <1>5, <1>6, <1>7, <1>10, <2>3, <3>2 DEF Sound, Settled, Same, Known, Locked, SameRequest
    <3> QED
      BY <3>1, <3>2
  <2> QED
    BY <2>1, <2>2, <2>4, <2>5 DEF Sound
<1>12. Faithful'
  <2>1. source' = source /\ publication' = publication
    BY DEF SaveSettings, state
  <2>2. Owned'
    BY <1>1, <2>1 DEF Faithful, Owned, Owner
  <2>3. ASSUME NEW n \in DOMAIN source PROVE source[n].case \in Cases \cup {NoCase} /\ source[n].path \in Paths
    <3>1. source[n] \in Parts
      BY <1>1 DEF StoresOK
    <3> QED
      BY <3>1 DEF Parts
  <2>4. PartsKnown'
    BY <1>1, <1>5, <2>1, <2>3 DEF Faithful, PartsKnown
  <2>5. \A x : /\ ~Restamping(x)
               /\ ~Restamping(x)' => x # path
    BY <1>3, <1>6, <1>7 DEF Restamping, Locked, SameRequest, SaveSettings, path
  <2>6. PartsCurrent'
    BY <1>1, <1>5, <2>1, <2>3, <2>5 DEF Faithful, PartsCurrent
  <2> QED
    BY <2>2, <2>4, <2>6 DEF Faithful
<1> QED
  BY <1>5, <1>6, <1>8, <1>9, <1>11, <1>12 DEF IInv, TypeOK, RequestsOK, StoresOK, Sound

\* The part is read again with what was saved: the parts are current once more.
LEMMA RestampKeeps == ASSUME IInv, NEW r \in Requests, Restamp(r) PROVE IInv'
<1> DEFINE path == task[r].path
           spot == PositionOf(path)
<1>1. RequestsOK /\ StoresOK /\ Guards /\ Logged /\ Faithful /\ \A q \in Requests : Sound(q)
  BY Parted
<1>2. Goto(r, "saved", "stamped") /\ "stamped" \in Points
  BY DEF Restamp, Points
<1>3. /\ at[r] = "saved" /\ at'[r] = "stamped"
      /\ Is(r, "stamp") /\ Id(r).revision < MaxRevision /\ Id(r) \in Identities /\ path \in Paths
  <2>1. at[r] = "saved" /\ at'[r] = "stamped"
    BY <1>1, <1>2 DEF Goto, RequestsOK
  <2> QED
    BY <1>1, <2>1 DEF RequestsOK, Id, Sound, Kinded, Checks
<1>4. Stamps(r)
  BY <1>1, <1>3 DEF Sound, Checks, Cleared
<1>5. source # <<>> => /\ OwnsSource(r) /\ spot \in DOMAIN source /\ source[spot].path = path
                       /\ \A i \in DOMAIN source : source[i].path = path => spot <= i
  BY <1>1, <1>3, <1>4, PositionExact DEF Stamps, StoresOK
<1> HIDE DEF path, spot
<1>6. /\ source' \in Seq(Parts) /\ DOMAIN source' = DOMAIN source
      /\ \A n \in DOMAIN source : /\ source'[n].path = source[n].path /\ source'[n].case = source[n].case
                                  /\ source'[n].analysis = source[n].analysis
      /\ \A n \in DOMAIN source : n # spot => source'[n] = source[n]
      /\ source # <<>> => source'[spot].stamp = Id(r).revision + 1
  <2>1. CASE source = <<>>
    BY <1>1, <2>1 DEF Restamp, StoresOK
  <2>2. CASE source # <<>>
    <3>1. source' = [source EXCEPT ![spot] = [source[spot] EXCEPT !.stamp = Id(r).revision + 1]]
      BY <1>1, <1>5, <2>2 DEF Restamp, spot, path, StoresOK
    <3>2. source[spot] \in Parts /\ Id(r).revision + 1 \in 0..MaxRevision
      BY <1>1, <1>3, <1>5, <2>2, LimitAssumption DEF StoresOK, Identities
    <3> DEFINE new == [source[spot] EXCEPT !.stamp = Id(r).revision + 1]
    <3>3. /\ new \in Parts /\ new.path = source[spot].path /\ new.case = source[spot].case
          /\ new.analysis = source[spot].analysis /\ new.stamp = Id(r).revision + 1
      BY <3>2 DEF Parts
    <3> HIDE DEF new
    <3>4. source' = [source EXCEPT ![spot] = new]
      BY <3>1 DEF new
    <3> QED
      BY <1>1, <1>5, <2>2, <3>3, <3>4 DEF StoresOK
  <2> QED
    BY <2>1, <2>2
<1>7. RequestsOK' /\ \A q \in Requests \ {r} : SameRequest(q)
  BY <1>1, <1>2, Going DEF Restamp, RequestsOK, guard
<1>8. \A q \in Requests \ {r} : at[q] \notin Locked /\ at[q] \notin Viewing
  BY <1>3, Alone DEF Locked
<1>9. StoresOK'
  BY <1>1, <1>6 DEF StoresOK, Restamp, case
<1>10. Guards'
  BY <1>1, <1>3, <1>7 DEF Guards, Restamp, guard, SameRequest, Locked, Viewing
<1>11. Logged'
  BY <1>1, <1>3 DEF Logged, Restamp
<1>12. \A q \in Requests : Id(q)' = Id(q) /\ Same(q)' = Same(q) /\ \A kind : Is(q, kind)' = Is(q, kind)
  BY DEF Id, Is, Same, Restamp, case
<1>13. ASSUME NEW q \in Requests \ {r} PROVE Sound(q)'
  <2>1. Receipted(q)' /\ Kinded(q)'
    BY <1>1, <1>7, <1>8, <1>12 DEF Sound, Receipted, Kinded, Restamp, SameRequest
  <2>2. Checks(q)'
    BY <1>7, <1>8 DEF Checks, SameRequest, Locked, Cleared
  <2>3. Known(q)' /\ Settled(q)'
    BY <1>1, <1>7, <1>12 DEF Sound, Known, Settled, SameRequest, Restamp, case
  <2> QED
    BY <2>1, <2>2, <2>3 DEF Sound
<1>14. Sound(r)'
  <2>1. Receipted(r)' /\ Kinded(r)' /\ Known(r)' /\ Settled(r)'
    BY <1>1, <1>3, <1>12 DEF Sound, Receipted, Kinded, Known, Settled, Restamp, case, Unpinned, Captures,
       Viewing, Locked, Undecoded
  <2>2. Unpublished(r)' /\ NextExists' /\ OwnsSource(r)' = OwnsSource(r)
    BY <1>1, <1>3, <1>12 DEF Sound, Checks, Cleared, Unpublished, NextExists, OwnsSource, Restamp
  <2>3. Merges(r)'
    BY <1>3, <1>12 DEF Merges, Is
  <2>4. source' # <<>> => PositionOf(path)' # 0
    <3>1. SUFFICES ASSUME source' # <<>> PROVE PositionOf(path)' # 0
      OBVIOUS
    <3>2. source # <<>>
      BY <1>1, <1>6, <3>1 DEF Restamp
    <3>3. spot \in 1..Len(source') /\ source'[spot].path = path
      BY <1>1, <1>5, <1>6, <3>2 DEF StoresOK
    <3>4. First(source', path) # 0
      BY <1>6, <3>3, FirstExact
    <3>5. path' = path
      BY DEF path, Restamp
    <3> QED
      BY <3>4, <3>5 DEF PositionOf
  <2>5. Stamps(r)'
    <3>1. source' # <<>> => source # <<>>
      BY DEF Restamp
    <3>2. task' = task
      BY DEF Restamp
    <3> QED
      BY <1>5, <2>2, <2>4, <3>1, <3>2 DEF Stamps, path
  <2>6. Checks(r)'
    BY <1>3, <1>12, <2>2, <2>3, <2>5 DEF Checks
  <2> QED
    BY <2>1, <2>6 DEF Sound
<1>15. Faithful'
  <2>1. PartsKnown' /\ Owned'
    BY <1>1, <1>6 DEF Faithful, PartsKnown, Owned, Owner, Restamp, case
  <2>2. \A x : /\ ~Restamping(x)'
               /\ Restamping(x) => x = path
    BY <1>3, <1>7, <1>8 DEF Restamping, Locked, SameRequest, path
  <2>3. ASSUME NEW n \in DOMAIN source', source'[n].case # NoCase,
               store[source'[n].case].analysis = source'[n].analysis,
               \A m \in 1..(n - 1) : source'[m].path # source'[n].path
        PROVE  source'[n].stamp = store[source'[n].case].stamps[source'[n].path]
    <3>1. /\ n \in DOMAIN source /\ n \in Nat /\ \A m \in 1..(n - 1) : m \in DOMAIN source
          /\ \A m \in 1..(n - 1) : source[m].path # source[n].path
      BY <1>1, <1>6, <2>3 DEF StoresOK
    <3>2. CASE source[n].path # path
      BY <1>1, <1>5, <1>6, <2>2, <2>3, <3>1, <3>2 DEF Faithful, PartsCurrent
    <3>3. CASE source[n].path = path
      <4>1. source # <<>> /\ n = spot
        BY <1>1, <1>5, <1>6, <3>1, <3>3 DEF StoresOK
      <4>2. source[n].case = Id(r).case /\ source[n].analysis = Id(r).analysis
        BY <1>1, <1>5, <3>1, <4>1 DEF Faithful, Owned, OwnsSource, Owner
      <4>3. Same(r)
        BY <1>6, <2>3, <3>1, <4>2 DEF Same
      <4> QED
        BY <1>1, <1>3, <1>6, <3>1, <3>3, <4>1, <4>2, <4>3 DEF Sound, Settled, path
    <3> QED
      BY <3>2, <3>3
  <2>4. PartsCurrent'
    <3>1. store' = store
      BY DEF Restamp, case
    <3> SUFFICES ASSUME NEW n \in DOMAIN source', source'[n].case # NoCase,
                        store'[source'[n].case].analysis = source'[n].analysis,
                        \A m \in 1..(n - 1) : source'[m].path # source'[n].path
                 PROVE  source'[n].stamp = store'[source'[n].case].stamps[source'[n].path]
      BY DEF PartsCurrent
    <3> QED
      BY <2>3, <3>1
  <2> QED
    BY <2>1, <2>4 DEF Faithful
<1> QED
  BY <1>7, <1>9, <1>10, <1>11, <1>13, <1>14, <1>15 DEF IInv, TypeOK, RequestsOK, StoresOK, Sound

\* What is published under the write guard, whole, is on show and in the history.
LEMMA Publishing ==
    ASSUME IInv, NEW r \in Requests, at[r] \in {"prepared", "stamped"}, Ends(r, Published),
           UNCHANGED case, publication' \in Receipts,
           publication'.generation = publication.generation + 1,
           source' \in Seq(Parts), names' \in Seq(Paths),
           published' = Append(published, LastValue'), Faithful'
    PROVE  IInv'
<1>1. RequestsOK /\ StoresOK /\ Guards /\ Logged /\ \A q \in Requests : Sound(q)
  BY Parted
<1>2. /\ RequestsOK' /\ Guards' /\ Sound(r)'
      /\ \A q \in Requests \ {r} : SameRequest(q)
  BY Ending
<1>3. \A q \in Requests \ {r} : at[q] \notin Locked /\ at[q] \notin Viewing
  BY Alone DEF Locked
<1>4. StoresOK'
  BY <1>1 DEF StoresOK, case
<1>5. /\ published \in Seq(Values) /\ publication.generation \in Nat
      /\ Len(published) = publication.generation + 1
      /\ LastValue' \in Values
  BY <1>1, <1>4, LimitAssumption DEF Logged, StoresOK, Receipts, LastValue, Values
<1>6. /\ published' \in Seq(Values) /\ Len(published') = publication.generation + 2
      /\ published'[publication.generation + 2] = LastValue'
      /\ \A n \in 1..(publication.generation + 1) : published'[n] = published[n]
  BY <1>5
<1>7. Logged'
  BY <1>5, <1>6 DEF Logged, LastValue
<1>8. ASSUME NEW q \in Requests \ {r} PROVE Sound(q)'
  <2>1. Id(q)' = Id(q) /\ Same(q)' = Same(q) /\ \A kind : Is(q, kind)' = Is(q, kind)
    BY <1>2 DEF Id, Is, Same, SameRequest, case
  <2>2. at[q] \notin Unpinned => pin[q].generation \in Nat /\ pin[q].generation <= publication.generation
    BY <1>1, LimitAssumption DEF Sound, Receipted, Receipts
  <2>3. at[q] \notin Unpinned => published'[pin[q].generation + 1] = published[pin[q].generation + 1]
    <3>1. at[q] \notin Unpinned => pin[q].generation + 1 \in 1..(publication.generation + 1)
      BY <1>5, <2>2
    <3> QED
      BY <1>6, <3>1
  <2>4. Receipted(q)'
    <3>1. at[q] \notin Unpinned => pin[q].generation <= publication'.generation
      BY <1>5, <2>2
    <3>2. at[q] \in Captures => at[q] \notin Unpinned
      BY DEF Captures, Unpinned
    <3>3. /\ at'[q] = at[q] /\ pin'[q] = pin[q] /\ admitted'[q] = admitted[q]
          /\ left'[q] = left[q] /\ answer'[q] = answer[q]
      BY <1>2 DEF SameRequest
    <3>4. at[q] \notin Viewing /\ at[q] # "naming"
      BY <1>3 DEF Viewing
    <3>5. Receipted(q)
      BY <1>1 DEF Sound
    <3> QED
      BY <2>1, <2>3, <3>1, <3>2, <3>3, <3>4, <3>5 DEF Receipted
  <2>5. Kinded(q)' /\ Known(q)' /\ Settled(q)'
    BY <1>1, <1>2, <2>1 DEF Sound, Kinded, Known, Settled, SameRequest, case
  <2>6. Checks(q)'
    BY <1>2, <1>3 DEF Checks, SameRequest, Locked, Cleared
  <2> QED
    BY <2>4, <2>5, <2>6 DEF Sound
<1> QED
  BY <1>2, <1>4, <1>7, <1>8 DEF IInv, TypeOK, RequestsOK, StoresOK, Sound

\* A receipt with the new revision names the same owner.
LEMMA TouchKeeps == ASSUME IInv, NEW r \in Requests, Touch(r) PROVE IInv'
<1>1. RequestsOK /\ StoresOK /\ Faithful /\ Sound(r)
  BY Parted
<1>2. /\ at[r] = "stamped" /\ Is(r, "stamp") /\ Id(r) \in Identities /\ Id(r).revision < MaxRevision
      /\ publication.generation < MaxGeneration
      /\ source # <<>> => OwnsSource(r)
  BY <1>1 DEF Touch, Sound, Checks, Kinded, Cleared, NextExists, Stamps, RequestsOK, Id
<1>3. Id(r).revision + 1 \in 0..MaxRevision /\ publication.generation + 1 \in 0..MaxGeneration
  <2>1. Id(r).revision \in 0..MaxRevision
    BY <1>2 DEF Identities
  <2>2. publication.generation \in 0..MaxGeneration
    BY <1>1 DEF StoresOK, Receipts
  <2> QED
    BY <1>2, <2>1, <2>2, LimitAssumption
<1>4. /\ publication'.context \in Identities
      /\ publication'.context.case = Id(r).case /\ publication'.context.analysis = Id(r).analysis
      /\ publication'.generation = publication.generation + 1
      /\ publication' = [generation |-> publication'.generation, context |-> publication'.context]
  <2>1. publication' = [generation |-> publication.generation + 1, context |-> [Id(r) EXCEPT !.revision = @ + 1]]
    BY DEF Touch
  <2> DEFINE id == [Id(r) EXCEPT !.revision = @ + 1]
  <2>0. Id(r).revision \in 0..MaxRevision /\ Id(r).revision + 1 \in 0..MaxRevision
    BY <1>2, <1>3 DEF Identities
  <2>2. id \in Identities /\ id.case = Id(r).case /\ id.analysis = Id(r).analysis
    BY <1>2, <2>0 DEF Identities
  <2> HIDE DEF id
  <2>3. publication'.generation = publication.generation + 1 /\ publication'.context = id
    BY <2>1 DEF id
  <2> QED
    BY <2>1, <2>2, <2>3 DEF id
<1>5. publication' \in Receipts
  BY <1>3, <1>4 DEF Receipts
<1>6. Faithful'
  <2>1. Owned'
    BY <1>1, <1>2, <1>4 DEF Faithful, Owned, OwnsSource, Owner, Touch, StoresOK
  <2>2. \A path : Restamping(path)' <=> Restamping(path)
    <3>1. \A q \in Requests \ {r} : SameRequest(q)
      BY Ending DEF Touch
    <3>2. at'[r] = "done"
      BY Ending DEF Touch
    <3> QED
      BY <1>2, <3>1, <3>2 DEF Restamping, SameRequest
  <2>3. PartsKnown' /\ PartsCurrent'
    BY <1>1, <2>2 DEF Faithful, PartsKnown, PartsCurrent, Touch, case
  <2> QED
    BY <2>1, <2>3 DEF Faithful
<1> QED
  BY <1>1, <1>2, <1>4, <1>5, <1>6, Publishing DEF Touch, StoresOK

\* What a load or a merge brings is the request's, read with current settings.
LEMMA IncomingExact ==
    ASSUME IInv, NEW r \in Requests, at[r] = "prepared", ~Is(r, "stamp")
    PROVE  \E part \in Parts :
             /\ Incoming(r) = <<part>> /\ part.path = task[r].path
             /\ Owner(part) = Owner(Id(r))
             /\ part.case # NoCase => part.analysis <= store[part.case].analysis
             /\ part.case # NoCase /\ store[part.case].analysis = part.analysis =>
                    part.stamp = store[part.case].stamps[part.path]
<1> DEFINE part == [path |-> task[r].path, case |-> Id(r).case, analysis |-> Id(r).analysis,
                    stamp |-> admitted[r].settings[task[r].path]]
<1>1. RequestsOK /\ Sound(r)
  BY Parted
<1>2. part \in Parts
  BY <1>1 DEF RequestsOK, Parts, Settings, Identities, Id
<1>3. /\ Incoming(r) = <<part>> /\ part.path = task[r].path
      /\ Owner(part) = Owner(Id(r))
  BY DEF Incoming, Owner
<1>4. part.case # NoCase => part.analysis <= store[part.case].analysis
  BY <1>1 DEF Sound, Known
<1>5. part.case # NoCase /\ store[part.case].analysis = part.analysis =>
                    part.stamp = store[part.case].stamps[part.path]
  BY <1>1 DEF Sound, Settled, Same
<1> QED
  BY <1>2, <1>3, <1>4, <1>5

\* A load, a merge and a clear publish parts of one owner, all current.
LEMMA PublishKeeps == ASSUME IInv, NEW r \in Requests, Publish(r) PROVE IInv'
<1>1. RequestsOK /\ StoresOK /\ Guards /\ Faithful /\ Sound(r)
  BY Parted
<1>2. /\ at[r] = "prepared" /\ ~Is(r, "stamp") /\ Id(r) \in Identities /\ task[r].path \in Paths
      /\ publication.generation < MaxGeneration
      /\ Is(r, "merge") => OwnsSource(r)
      /\ Is(r, "load") \/ Is(r, "merge") \/ Is(r, "clear")
  BY <1>1 DEF Publish, Sound, Checks, Kinded, Cleared, NextExists, Merges, RequestsOK, Id, Is, Unpinned, Locked
<1>3. publication.generation + 1 \in 0..MaxGeneration
  BY <1>1, <1>2, LimitAssumption DEF StoresOK, Receipts
<1>4. /\ publication' \in Receipts /\ publication'.generation = publication.generation + 1
      /\ publication'.context = Id(r)
  BY <1>2, <1>3 DEF Publish, Receipts
<1>5. PICK part \in Parts :
             /\ Incoming(r) = <<part>> /\ part.path = task[r].path
             /\ Owner(part) = Owner(Id(r))
             /\ part.case # NoCase => part.analysis <= store[part.case].analysis
             /\ part.case # NoCase /\ store[part.case].analysis = part.analysis =>
                    part.stamp = store[part.case].stamps[part.path]
  BY <1>2, IncomingExact
<1>6. store' = store
  BY DEF Publish, case
<1>7. \A path : ~Restamping(path)
  BY <1>2, Alone DEF Restamping, Locked
<1>8. CASE Is(r, "load")
  <2>1. source' = <<part>> /\ names' = <<task[r].path>>
    BY <1>5, <1>8 DEF Publish, Is
  <2>2. /\ DOMAIN source' = {1} /\ source'[1] = part
        /\ source' \in Seq(Parts) /\ names' \in Seq(Paths)
    BY <1>2, <2>1
  <2>3. Owned'
    BY <1>4, <1>5, <2>2 DEF Owned, Owner
  <2>4. PartsKnown' /\ PartsCurrent'
    BY <1>5, <1>6, <2>2 DEF PartsKnown, PartsCurrent
  <2> QED
    BY <1>2, <1>4, <2>2, <2>3, <2>4, Publishing DEF Publish, Faithful
<1>9. CASE Is(r, "merge")
  <2>1. source' = Append(source, part) /\ names' = Append(names, task[r].path)
    BY <1>1, <1>5, <1>9 DEF Publish, Is, StoresOK
  <2>2. /\ source' \in Seq(Parts) /\ names' \in Seq(Paths)
        /\ Len(source) \in Nat /\ DOMAIN source = 1..Len(source)
        /\ DOMAIN source' = 1..(Len(source) + 1) /\ source'[Len(source) + 1] = part
        /\ \A n \in DOMAIN source : source'[n] = source[n]
    BY <1>1, <1>2, <2>1 DEF StoresOK
  <2>3. ASSUME NEW n \in DOMAIN source', n \notin DOMAIN source PROVE n = Len(source) + 1
    BY <2>2, <2>3
  <2>4. Owned'
    BY <1>1, <1>2, <1>4, <1>5, <1>9, <2>2, <2>3 DEF Faithful, Owned, OwnsSource, Owner
  <2>5. PartsKnown'
    BY <1>1, <1>5, <1>6, <2>2, <2>3 DEF Faithful, PartsKnown
  <2>6. ASSUME NEW n \in DOMAIN source', source'[n].case # NoCase,
               store[source'[n].case].analysis = source'[n].analysis,
               \A m \in 1..(n - 1) : source'[m].path # source'[n].path
        PROVE  source'[n].stamp = store[source'[n].case].stamps[source'[n].path]
    <3>1. CASE n \in DOMAIN source
      <4>1. \A m \in 1..(n - 1) : m \in DOMAIN source
        BY <2>2, <3>1
      <4> QED
        BY <1>1, <1>7, <2>2, <2>6, <3>1, <4>1 DEF Faithful, PartsCurrent
    <3>2. CASE n \notin DOMAIN source
      BY <1>5, <2>2, <2>3, <2>6, <3>2
    <3> QED
      BY <3>1, <3>2
  <2>7. PartsCurrent'
    BY <1>6, <2>6 DEF PartsCurrent
  <2> QED
    BY <1>2, <1>4, <2>2, <2>4, <2>5, <2>7, Publishing DEF Publish, Faithful
<1>10. CASE Is(r, "clear")
  <2>1. source' = <<>> /\ names' = <<>>
    BY <1>10 DEF Publish, Is
  <2>2. Faithful'
    BY <2>1 DEF Faithful, Owned, PartsKnown, PartsCurrent
  <2> QED
    BY <1>2, <1>4, <2>1, <2>2, Publishing DEF Publish
<1> QED
  BY <1>2, <1>8, <1>9, <1>10

-----------------------------------------------------------------------------
(* The theorems.                                                           *)

\* The invariant holds where the application starts.
LEMMA InitHolds == Init => IInv
<1> SUFFICES ASSUME Init PROVE IInv
  OBVIOUS
<1>1. 0 \in 0..MaxAnalysis /\ 0 \in 0..MaxRevision /\ 0 \in 0..MaxGeneration /\ 1 \in 0..MaxGeneration
  BY LimitAssumption
<1>2. RequestsOK
  BY ConstantTypes DEF Init, RequestsOK, AnswerOK, Points
<1>3. Guards
  BY RequestAssumption DEF Init, Guards, Locked, Viewing
<1>4. \A r \in Requests : Sound(r)
  BY ConstantTypes DEF Init, Sound, Receipted, Kinded, Checks, Known, Settled, Id, Is, Same,
     Unpinned, Captures, Viewing, Locked, Cleared, Undecoded
<1>5. /\ store \in [Cases -> [analysis : 0..MaxAnalysis, revision : 0..MaxRevision, stamps : Settings]]
      /\ active \in Cases \cup {NoCase}
  BY <1>1, ConstantTypes DEF Init
<1>6. \A path : ~Restamping(path)
  BY DEF Init, Restamping
<1>7. CASE /\ source = <<>> /\ names = <<>>
           /\ publication = [generation |-> 0, context |-> Nobody]
           /\ published = <<LastValue>>
  <2>1. StoresOK
    BY <1>1, <1>5, <1>7, ConstantTypes DEF StoresOK, Receipts
  <2>2. LastValue \in Values
    BY <2>1, <1>7, ConstantTypes DEF StoresOK, Values, LastValue
  <2>3. Logged
    BY <1>7, <2>2 DEF Logged, LastValue
  <2>4. Faithful
    BY <1>7 DEF Faithful, PartsKnown, Owned, PartsCurrent
  <2> QED
    BY <1>2, <1>3, <1>4, <2>1, <2>3, <2>4, Parted
<1>8. ASSUME NEW c \in Cases, NEW p \in Paths,
             source = <<Opened(c, p)>> /\ names = <<p>>,
             publication = [generation |-> 1, context |-> [Nobody EXCEPT !.case = c]],
             published = <<[source |-> <<>>, names |-> <<>>, context |-> Nobody], LastValue>>
      PROVE  IInv
  <2>1. Opened(c, p) \in Parts /\ [Nobody EXCEPT !.case = c] \in Identities
    BY <1>1, ConstantTypes DEF Opened, Parts, Nobody, Identities
  <2>2. StoresOK
    BY <1>1, <1>5, <1>8, <2>1 DEF StoresOK, Receipts
  <2>3. LastValue \in Values /\ [source |-> <<>>, names |-> <<>>, context |-> Nobody] \in Values
    BY <2>2, <1>8, <2>1, ConstantTypes DEF StoresOK, Values, LastValue
  <2>4. Logged
    <3>1. Len(published) = 2 /\ published \in Seq(Values) /\ published[2] = LastValue
      BY <1>8, <2>3
    <3> QED
      BY <1>8, <3>1 DEF Logged, LastValue
  <2>5. DOMAIN source = {1} /\ source[1] = Opened(c, p)
    BY <1>8
  <2>6. Faithful
    BY <1>8, <2>5, NoCaseAssumption DEF Faithful, PartsKnown, Owned, PartsCurrent, Opened, Owner, Nobody, Plain, Init
  <2> QED
    BY <1>2, <1>3, <1>4, <2>2, <2>4, <2>6, Parted
<1> QED
  BY <1>7, <1>8 DEF Init

\* Every step keeps it.
LEMMA StepKeeps == IInv /\ [Next]_vars => IInv'
<1> SUFFICES ASSUME IInv, [Next]_vars PROVE IInv'
  OBVIOUS
<1>1. ASSUME NEW r \in Requests, Arrives(r) \/ Step(r) \/ Cancel(r) PROVE IInv'
  BY <1>1, RepinKeeps, DecodeKeeps, CaptureKeeps, ValidateCaseKeeps, ValidateSourceKeeps, CheckIdentityKeeps,
     AcquireKeeps, LockedCaseKeeps, LockedSourceKeeps, PublishKeeps, SaveSettingsKeeps, RestampKeeps,
     TouchKeeps, LookSourceKeeps, LookNamesKeeps, PinKeeps, AnswersKeep DEF Arrives, Step
<1>2. ASSUME NEW c \in Cases, EditCase(c) \/ Recreate(c) PROVE IInv'
  BY <1>2, EditCaseKeeps, RecreateKeeps
<1>3. ASSUME NEW c \in Cases \cup {NoCase}, Switch(c) PROVE IInv'
  BY <1>3, SwitchKeeps
<1>4. CASE UNCHANGED vars
  <2>1. /\ UNCHANGED <<store, active, source, names, publication, writer, readers>>
        /\ UNCHANGED <<at, task, pin, admitted, left, answer, published>>
    BY <1>4 DEF vars, case, state, guard
  <2>2. TypeOK' /\ AnswerOK' /\ Guards'
    BY <2>1 DEF IInv, TypeOK, AnswerOK, Guards
  <2>3. Logged'
    BY <2>1 DEF IInv, Logged
  <2>4. ASSUME NEW r \in Requests PROVE Receipted(r)' /\ Kinded(r)' /\ Known(r)' /\ Settled(r)'
    BY <2>1 DEF IInv, Receipted, Kinded, Known, Settled, Same, Is, Id
  <2>5. ASSUME NEW r \in Requests PROVE Checks(r)'
    <3>1. Unpublished(r)' = Unpublished(r) /\ NextExists' = NextExists
      BY <2>1 DEF Unpublished, NextExists
    <3>2. OwnsSource(r)' = OwnsSource(r)
      <4>1. Id(r)' = Id(r) /\ publication' = publication
        BY <2>1 DEF Id
      <4> QED
        BY <4>1 DEF OwnsSource, Owner
    <3>3. PositionOf(task[r].path)' = PositionOf(task[r].path)
      BY <2>1 DEF PositionOf
    <3>4. Stamps(r)' = Stamps(r) /\ Merges(r)' = Merges(r)
      BY <2>1, <3>2, <3>3 DEF Stamps, Merges, Is
    <3> QED
      BY <2>1, <3>1, <3>4 DEF IInv, Checks, Id
  <2>6. Faithful'
    BY <2>1 DEF IInv, Faithful, PartsKnown, Owned, PartsCurrent, Restamping, Owner
  <2> QED
    BY <2>2, <2>3, <2>4, <2>5, <2>6 DEF IInv
<1> QED
  BY <1>1, <1>2, <1>3, <1>4 DEF Next

\* The inductive invariant holds in every state the application reaches.
THEOREM SourceInvariantHolds == Spec => []IInv
<1> QED
  BY InitHolds, StepKeeps, PTL DEF Spec

\* Everything recorded of the source, the Case and the requests has its type.
THEOREM SourceTypeCorrect == Spec => []TypeOK
<1>1. IInv => TypeOK
  BY DEF IInv
<1> QED
  BY <1>1, SourceInvariantHolds, PTL

\* The rows on show are those of one Case, the one the receipt names, and the first
\* part of each of its files was read with the settings it records, whatever was
\* refused, merged, edited or deleted meanwhile; nothing is said of other parts.
THEOREM SourceAlwaysFaithful == Spec => []SourceFaithful
<1>1. IInv => SourceFaithful
  <2> SUFFICES ASSUME IInv PROVE SourceFaithful
    OBVIOUS
  <2>1. StoresOK /\ Faithful /\ Guards
    BY Parted
  <2>2. OneOwner
    BY <2>1 DEF Faithful, Owned, OneOwner
  <2>3. ASSUME NEW n \in DOMAIN source, source[n].case # NoCase,
               store[source[n].case].analysis = source[n].analysis,
               n = PositionOf(source[n].path),
               writer # NoRequest => at[writer] # "saved"
        PROVE  source[n].stamp = store[source[n].case].stamps[source[n].path]
    <3>1. \A x : ~Restamping(x)
      BY <2>1, <2>3, RequestAssumption DEF Restamping, Guards, Locked
    <3>2. \A m \in 1..(n - 1) : source[m].path # source[n].path
      <4> DEFINE path == source[n].path
      <4>1. /\ Len(source) \in Nat /\ n \in 1..Len(source) /\ n = PositionOf(path)
            /\ DOMAIN source = 1..Len(source)
        BY <2>1, <2>3 DEF StoresOK
      <4> HIDE DEF path
      <4>2. \A i \in 1..Len(source) : source[i].path = path => n <= i
        BY <2>1, <4>1, PositionExact DEF StoresOK
      <4> QED
        BY <4>1, <4>2 DEF path
    <3> QED
      BY <2>1, <2>3, <3>1, <3>2 DEF Faithful, PartsCurrent
  <2> QED
    BY <2>2, <2>3 DEF SourceFaithful, StampsCurrent, ReadAgain
<1> QED
  BY <1>1, SourceInvariantHolds, PTL

-----------------------------------------------------------------------------
(* The source implements the versioned register of SourceRegister.         *)

\* A request that ends here, and drops its receipt, ends there: it had not answered.
LEMMA EndsThere ==
    ASSUME IInv, NEW r \in Requests, at[r] # "done", pin' = [pin EXCEPT ![r] = NoReceipt]
    PROVE  /\ answer[r] = NoAnswer
           /\ [q \in Requests |-> pin[q].generation]' = [[q \in Requests |-> pin[q].generation] EXCEPT ![r] = -1]
<1>1. RequestsOK /\ Sound(r)
  BY Parted
<1>2. [q \in Requests |-> pin[q].generation]' = [[q \in Requests |-> pin[q].generation] EXCEPT ![r] = -1]
  BY <1>1, ConstantTypes DEF RequestsOK
<1>3. answer[r] = NoAnswer
  BY <1>1 DEF Sound, Receipted
<1> QED
  BY <1>2, <1>3

\* A load, a merge, a clear or an edit that is published is a compare-and-swap
\* on the version its request began at.
LEMMA WritesThere ==
    ASSUME IInv, NEW r \in Requests, Publish(r) \/ Touch(r)
    PROVE  Register!Write(r)
<1>1. StoresOK /\ Logged /\ Sound(r)
  BY Parted
<1>2. at[r] \in {"prepared", "stamped"} /\ Ends(r, Published) /\ published' = Append(published, LastValue')
  BY DEF Publish, Touch
<1>3. pin[r].generation = Len(published) - 1
  BY <1>1, <1>2, LimitAssumption DEF Sound, Checks, Cleared, Unpublished, Logged, StoresOK, Receipts
<1>4. /\ Len(published') = Len(published) + 1
      /\ SubSeq(published', 1, Len(published)) = published
  BY <1>1, <1>2, AppendProperties, SubSeqProperties DEF Logged
<1>5. Register!Ends(r, Published)
  BY <1>2, EndsThere DEF Ends, Register!Ends
<1> QED
  BY <1>3, <1>4, <1>5 DEF Register!Write, Register!LastGeneration

\* A query answers the version its receipt names, whatever was published since.
LEMMA ReadsThere ==
    ASSUME IInv, NEW r \in Requests, AnswerQuery(r)
    PROVE  Register!Read(r)
<1>1. RequestsOK /\ StoresOK /\ Logged /\ Sound(r)
  BY Parted
<1>2. at[r] = "working" /\ Is(r, "query") /\ UNCHANGED published
  BY DEF AnswerQuery
<1> DEFINE version == published[pin[r].generation + 1]
<1>3. /\ pin[r].generation \in Nat /\ pin[r].generation + 1 \in 1..Len(published)
      /\ admitted[r].source = version.source /\ admitted[r].names = version.names
      /\ pin[r].context = version.context
  BY <1>1, <1>2, LimitAssumption DEF Sound, Receipted, Logged, StoresOK, Receipts, Unpinned, Captures
<1>4. version \in Values
  BY <1>1, <1>3 DEF Logged
<1>5. version = [source |-> admitted[r].source, names |-> admitted[r].names, context |-> pin[r].context]
  BY <1>3, <1>4 DEF Values
<1>6. /\ answer' = [answer EXCEPT ![r] = [generation |-> pin[r].generation, value |-> version]]
      /\ pin' = [pin EXCEPT ![r] = NoReceipt]
  BY <1>5 DEF AnswerQuery, Ends
<1> DEFINE began == [q \in Requests |-> pin[q].generation]
<1>7. began[r] = pin[r].generation
  OBVIOUS
<1> HIDE DEF began
<1>8. /\ began[r] >= 0
      /\ answer' = [answer EXCEPT ![r] = [generation |-> began[r], value |-> published[began[r] + 1]]]
  BY <1>3, <1>6, <1>7
<1>9. answer[r] = NoAnswer /\ began' = [began EXCEPT ![r] = -1]
  BY <1>2, <1>6, EndsThere DEF began
<1> QED
  BY <1>2, <1>8, <1>9 DEF Register!Read, Register!Ends, began

\* A look answers the last version, whole, although it reads its parts one by one.
LEMMA LooksThere ==
    ASSUME IInv, NEW r \in Requests, LookReceipt(r)
    PROVE  Register!Look(r)
<1>1. RequestsOK /\ StoresOK /\ Guards /\ Logged /\ Sound(r)
  BY Parted
<1>2. at[r] = "naming" /\ UNCHANGED published
  BY DEF LookReceipt
<1>3. \A q \in Requests : at[q] # "stamped"
  BY <1>1, <1>2, RequestAssumption DEF Guards, Viewing, Locked
<1> DEFINE version == published[Len(published)]
<1>4. /\ version.source = admitted[r].source /\ version.names = admitted[r].names
      /\ version.context = publication.context /\ publication.generation = Len(published) - 1
  BY <1>1, <1>2, <1>3, LimitAssumption DEF Sound, Receipted, Viewing, Logged, StoresOK, Receipts
<1>5. version \in Values
  BY <1>1, LimitAssumption DEF Logged, StoresOK, Receipts
<1>6. version = [source |-> admitted[r].source, names |-> admitted[r].names, context |-> publication.context]
  BY <1>4, <1>5 DEF Values
<1>7. /\ answer' = [answer EXCEPT ![r] = [generation |-> Len(published) - 1, value |-> version]]
      /\ pin' = [pin EXCEPT ![r] = NoReceipt]
  BY <1>4, <1>6 DEF LookReceipt, Ends
<1> QED
  BY <1>2, <1>7, EndsThere DEF Register!Look, Register!Ends, Register!LastGeneration, Register!Last

\* A request that is refused, by a check or by its own work, published nothing.
LEMMA RefusesThere ==
    ASSUME IInv, NEW r \in Requests, Refuses(r), at[r] # "done"
    PROVE  Register!Refuse(r)
BY EndsThere DEF Refuses, Ends, Register!Refuse, Register!Ends

\* A request begins at the version on show.
LEMMA BeginsThere ==
    ASSUME IInv, NEW r \in Requests, NEW kind \in Kinds, NEW c \in Cases \cup {NoCase}, NEW path \in Paths,
           Pin(r, kind, c, path)
    PROVE  Register!Begin(r) \/ Register!Refuse(r)
<1>1. RequestsOK /\ StoresOK /\ Logged /\ Sound(r)
  BY Parted
<1>2. at[r] = "idle"
  BY DEF Pin
<1>3. CASE Refuses(r)
  BY <1>2, <1>3, RefusesThere
<1>4. CASE pin' = [pin EXCEPT ![r] = publication] /\ UNCHANGED <<answer, published>>
  <2>1. pin[r].generation = -1 /\ answer[r] = NoAnswer
    BY <1>1, <1>2, ConstantTypes DEF Sound, Receipted, Unpinned
  <2>2. publication.generation = Len(published) - 1
    BY <1>1, LimitAssumption DEF Logged, StoresOK, Receipts
  <2>3. [q \in Requests |-> pin[q].generation]'
            = [[q \in Requests |-> pin[q].generation] EXCEPT ![r] = Len(published) - 1]
    BY <1>1, <1>4, <2>2 DEF RequestsOK
  <2> QED
    BY <1>4, <2>1, <2>3 DEF Register!Begin, Register!LastGeneration
<1> QED
  BY <1>3, <1>4 DEF Pin

\* Whatever the Case and the other requests do, the source behaves as one versioned
\* register: no load is lost under another, no snapshot is torn, a query answers the
\* version it pinned, a refused request published nothing.
THEOREM SourceImplementsRegister == Spec => ImplementsRegister
<1>1. Init => Register!Init
  <2> SUFFICES ASSUME Init PROVE Register!Init
    OBVIOUS
  <2>1. Len(published) >= 1
    BY InitHolds, Parted, LimitAssumption DEF Logged, StoresOK, Receipts
  <2>2. [r \in Requests |-> pin[r].generation] = [r \in Requests |-> -1]
    BY ConstantTypes DEF Init
  <2> QED
    BY <2>1, <2>2 DEF Init, Register!Init
<1>2. IInv /\ [Next]_vars => [Register!Next]_Register!vars
  <2> SUFFICES ASSUME IInv, [Next]_vars PROVE [Register!Next]_Register!vars
    OBVIOUS
  <2>1. ASSUME UNCHANGED <<pin, answer, published>> PROVE UNCHANGED Register!vars
    BY <2>1 DEF Register!vars
  <2>2. ASSUME NEW r \in Requests, Arrives(r) \/ Step(r) \/ Cancel(r) PROVE [Register!Next]_Register!vars
    <3>1. CASE Arrives(r)
      BY <2>1, <2>2, <3>1, BeginsThere DEF Arrives, LookSource, Register!Next
    <3>2. CASE Publish(r) \/ Touch(r)
      BY <3>2, WritesThere DEF Register!Next
    <3>3. CASE AnswerQuery(r)
      BY <3>3, ReadsThere DEF Register!Next
    <3>4. CASE LookReceipt(r)
      BY <3>4, LooksThere DEF Register!Next
    <3>5. CASE Refuse(r) \/ Cancel(r)
      BY <3>5, RefusesThere DEF Refuse, Cancel, Checked, Register!Next
    <3>6. CASE Repin(r) \/ Decode(r) \/ Capture(r) \/ ValidateCase(r) \/ ValidateSource(r) \/ CheckIdentity(r)
                \/ Acquire(r) \/ LockedCase(r) \/ LockedSource(r) \/ SaveSettings(r) \/ Restamp(r) \/ LookNames(r)
      BY <2>1, <3>6 DEF Repin, Decode, Capture, ValidateCase, ValidateSource, CheckIdentity, Acquire, LockedCase,
         LockedSource, SaveSettings, Restamp, LookNames
    <3> QED
      BY <2>2, <3>1, <3>2, <3>3, <3>4, <3>5, <3>6 DEF Step
  <2>3. ASSUME NEW c \in Cases \cup {NoCase}, EditCase(c) \/ Recreate(c) \/ Switch(c) PROVE UNCHANGED Register!vars
    BY <2>1, <2>3 DEF EditCase, Recreate, Switch
  <2>4. CASE UNCHANGED vars
    BY <2>1, <2>4 DEF vars
  <2> QED
    BY <2>2, <2>3, <2>4 DEF Next
<1> QED
  BY <1>1, <1>2, SourceInvariantHolds, PTL DEF Spec, ImplementsRegister, Register!Spec
===================================================================================

----------------------- MODULE LowspaceSplit_proofs -----------------------
(***************************************************************************)
(* Theorems about LowspaceSplit: no byte of the original is lost, what the *)
(* journal on disk counts is on disk, and what is reported is so.  They    *)
(* are about a user who does one thing at a time: a run is not started     *)
(* while the list is being read, nor two recoveries at once.  The last     *)
(* part needs no such user: every step of a run is a step down a           *)
(* well-founded order, so a run that takes its steps ends.                 *)
(***************************************************************************)
EXTENDS LowspaceSplit, SequenceTheorems, WellFoundedInduction, TLAPS

OneAtATime == ~Lists /\ ~Overlaps

-----------------------------------------------------------------------------
(* The inductive invariant.                                                 *)

Prefix(n) == [i \in 1..n |-> i]
Untouched == \A s \in Sides : out[s] \in {Missing, <<0>>}
Intact    == original = Whole /\ Untouched
Delivered == original = Missing /\ \A s \in Sides : out[s] = Expected(s)

\* The chunks of a journal follow one another from the end of the file to its
\* cut; a byte behind the start of one is in it or in one before it.
Chain(j) ==
    /\ j.cut = IF j.chunks = <<>> THEN N ELSE Last(j.chunks).start
    /\ \A i \in DOMAIN j.chunks :
         /\ HeadEnd <= j.chunks[i].start
         /\ j.chunks[i].start < j.chunks[i].end
         /\ j.chunks[i].start + i <= N
         /\ j.chunks[i].end = IF i = 1 THEN N ELSE j.chunks[i - 1].start
         /\ \A k \in (j.chunks[i].start + 1)..N :
              \E h \in 1..i : j.chunks[h].start < k /\ k <= j.chunks[h].end

\* The parts of a chunk are whole until they are appended.
Held(j) ==
    \A i \in DOMAIN j.chunks, s \in Sides :
        i + j.done[s] <= Len(j.chunks) =>
            parts[i][s] = Offsets(j.chunks[i].start, j.chunks[i].end, s)

\* A journal of a run that has not begun to assemble.
Fresh(j) == ~j.renamed /\ \A s \in Sides : j.done[s] = 0 /\ j.len[s] = 0 /\ ~j.created[s]

\* After a failure, the bytes the original lacks under the saved cut are in
\* the parts of a chunk that the saved journal does not count.
Stray == \E start \in 0..Len(original) : \A s \in Sides :
             parts[Len(disk.chunks) + 1][s] = Offsets(start, disk.cut, s)

Cutting ==
    /\ Chain(disk) /\ Held(disk) /\ Fresh(disk)
    /\ Untouched
    /\ original # Missing /\ Len(original) <= N /\ original = Prefix(Len(original))
    /\ Len(original) < disk.cut => Stray

\* Where the bytes an output has yet to take begin.
Bound(j, s) == LET i == Len(j.chunks) - j.done[s] IN IF i = 0 THEN N ELSE j.chunks[i].start

\* An output that was created has its bytes up to there, and perhaps more.
Grown(j, s) ==
    /\ j.done[s] <= Len(j.chunks)
    /\ ~j.created[s] => j.done[s] = 0
    /\ j.created[s] =>
         /\ out[s] # Missing
         /\ j.len[s] <= Len(out[s])
         /\ SubSeq(out[s], 1, j.len[s]) = BomBytes \o Offsets(Bom, Bound(j, s), s)
         /\ j.done[s] = Len(j.chunks) => Len(out[s]) = j.len[s]

Assembling ==
    /\ Chain(disk) /\ Held(disk)
    /\ disk.cut = HeadEnd
    /\ IF disk.renamed
       THEN original = Missing /\ disk.created[HeadSide] /\ \A s \in Sides : Grown(disk, s)
       ELSE /\ Fresh(disk)
            /\ \/ original = Prefix(HeadEnd) /\ Untouched
               \/ original = Missing /\ out[HeadSide] = Prefix(HeadEnd)

\* What a restart finds.
Durable ==
    /\ disk.phase = "none" => disk = NoJournal /\ (Intact \/ Delivered)
    /\ disk.phase = "decide" => disk = NewJournal /\ Intact
    /\ disk.phase = "carve" => Cutting
    /\ disk.phase = "assemble" => Assembling

\* The requests, the list and the reports.
Session ==
    /\ request # NoRequest => /\ pc = "idle"
                              /\ request.journal = disk
                              /\ disk.phase \in {"carve", "assemble"}
    /\ listed => disk.phase # "decide"
    /\ listing \in {"discardWork", "discardJournal"} => pc = "idle" /\ disk.phase = "decide"
    /\ pc # "idle" /\ disk.phase = "decide" => listing = "none"
    /\ pc # "idle" => result = "none"
    /\ result = "success" => Delivered
    /\ result \in {"restored", "untouched"} => Intact

\* The run's journal has a chunk that the one on disk does not have yet.
Ahead ==
    /\ journal.phase = "carve"
    /\ Chain(journal) /\ Held(journal) /\ Fresh(journal)
    /\ journal.chunks # <<>>
    /\ disk.chunks = Front(journal.chunks)
    /\ disk.cut = Last(journal.chunks).end

\* What a run knows at each point.
Running ==
    /\ pc = "decide" => journal = disk /\ disk.phase = "decide"
    /\ pc \in {"carveOpen", "carve", "truncate", "removeParts"} => journal = disk /\ disk.phase = "carve"
    /\ pc = "truncate" => journal.chunks # <<>>
    /\ pc \in {"carve", "removeParts"} => Len(original) = disk.cut
    /\ pc = "record" => disk.phase = "carve" /\ Ahead /\ Len(original) = disk.cut
    /\ pc \in {"undo", "putBack", "putting"} =>
         disk.phase = "carve" /\ (journal = disk \/ (Ahead /\ faults > 0))
    /\ pc = "putBack" => Len(original) = journal.cut
    /\ pc = "putting" =>
         /\ journal.chunks # <<>>
         /\ LastChunk.start <= Len(original) /\ Len(original) <= LastChunk.end
         /\ \A s \in Sides : reading[s] = Offsets(LastChunk.start, LastChunk.end, s)
    /\ pc = "assemble" => /\ journal = disk /\ disk.phase = "carve"
                          /\ disk.cut = HeadEnd /\ Len(original) = HeadEnd
    /\ pc \in {"rename", "renamed", "append", "created", "copy", "removePart"} =>
         journal = disk /\ disk.phase = "assemble"
    /\ pc = "renamed" => /\ ~journal.renamed
                         /\ original = Missing /\ out[HeadSide] = Prefix(HeadEnd)
    /\ pc \in {"append", "created", "copy", "removePart"} => journal.renamed
    /\ pc = "created" => ~journal.created[Current] /\ out[Current] = BomBytes
    /\ pc = "copy" =>
         /\ journal.created[Current] /\ journal.done[Current] < Total
         /\ reading[Current] = Offsets(journal.chunks[NextPart].start,
                                       journal.chunks[NextPart].end, Current)
         /\ Len(out[Current]) <= journal.len[Current] + Len(reading[Current])
         /\ \A i \in 1..(Len(out[Current]) - journal.len[Current]) :
              out[Current][journal.len[Current] + i] = reading[Current][i]
    /\ pc \in {"discardWork", "discardJournal"} =>
         /\ journal = disk
         /\ \/ disk.phase = "decide"
            \/ disk.phase = "carve" /\ disk.chunks = <<>> /\ original = Whole
            \/ /\ disk.phase = "assemble" /\ disk.renamed
               /\ \A s \in Sides : disk.created[s] /\ disk.done[s] = Len(disk.chunks)

IInv == TypeOK /\ Durable /\ Session /\ Running

-----------------------------------------------------------------------------
(* Numbers.                                                                 *)

\* A set of numbers that is not empty has a least one.
LEMMA Least ==
    ASSUME NEW S \in SUBSET Nat, S # {}
    PROVE  \E x \in S : \A y \in S : x <= y
<1> DEFINE R == OpToRel(<, Nat)
<1>1. IsWellFoundedOn(R, Nat)
  BY NatLessThanWellFounded, Zenon
<1>2. \A i, j \in Nat : i < j => <<i, j>> \in R
  BY DEF OpToRel
<1> HIDE DEF R
<1>3. PICK x \in S : \A y \in S : <<y, x>> \notin R
  BY <1>1, WFMin
<1>4. ASSUME NEW y \in S PROVE x <= y
  <2>1. ~(y < x)
    BY <1>2, <1>3, <1>4
  <2> QED
    BY <2>1
<1> QED
  BY <1>4

\* What holds at the first number of a range, and at each when it holds at the
\* one before, holds all over the range.
LEMMA Along ==
    ASSUME NEW from \in Nat, NEW to \in Nat, NEW S, from \in S,
           \A k \in (from + 1)..to : k - 1 \in S => k \in S
    PROVE  \A k \in from..to : k \in S
<1> DEFINE B == {k \in from..to : k \notin S}
<1>1. B \in SUBSET Nat
  OBVIOUS
<1>2. SUFFICES ASSUME B # {} PROVE FALSE
  OBVIOUS
<1>3. PICK k \in B : \A j \in B : k <= j
  <2> HIDE DEF B
  <2> QED
    BY <1>1, <1>2, Least
<1>4. k # from /\ k \in (from + 1)..to /\ k - 1 \in from..to /\ ~(k <= k - 1)
  BY <1>3
<1>5. k - 1 \in S
  BY <1>3, <1>4
<1> QED
  BY <1>3, <1>4, <1>5

-----------------------------------------------------------------------------
(* The bytes of a side.                                                     *)

\* What Offsets computes: no bytes, or those before the last one and that one.
LEMMA OffsetsStep ==
    ASSUME NEW a \in 0..N, NEW s
    PROVE  /\ Offsets(a, a, s) = <<>>
           /\ \A b \in (a + 1)..N :
                Offsets(a, b, s) = IF side[b] = s THEN Append(Offsets(a, b - 1, s), b)
                                   ELSE Offsets(a, b - 1, s)
<1> DEFINE G(f, b) == [k \in a..b |-> IF k = a THEN <<>>
                                      ELSE IF side[k] = s THEN Append(f[k - 1], k) ELSE f[k - 1]]
<1>0. N \in Nat /\ a \in Nat
  BY SizeAssumption
<1>1. ASSUME NEW b \in a..N PROVE \E f : f = G(f, b)
  <2> DEFINE B == {c \in a..N : ~ \E f : f = G(f, c)}
  <2>1. SUFFICES ASSUME B # {} PROVE FALSE
    BY <1>1
  <2>2. B \in SUBSET Nat
    BY <1>0
  <2>3. PICK c \in B : \A j \in B : c <= j
    <3> HIDE DEF B
    <3> QED
      BY <2>1, <2>2, Least
  <2>4. CASE c = a
    <3>1. [k \in {a} |-> <<>>] = G([k \in {a} |-> <<>>], a)
      BY <1>0
    <3> QED
      BY <2>3, <2>4, <3>1
  <2>5. CASE c > a
    <3>1. c - 1 \in a..N /\ ~(c <= c - 1)
      BY <1>0, <2>3, <2>5
    <3>2. PICK f : f = G(f, c - 1)
      BY <2>3, <3>1
    <3> DEFINE g == [k \in a..c |-> IF k < c THEN f[k]
                                    ELSE IF side[k] = s THEN Append(f[k - 1], k) ELSE f[k - 1]]
    <3>3. g = G(g, c)
      <4>1. ASSUME NEW k \in a..c
            PROVE  g[k] = IF k = a THEN <<>>
                          ELSE IF side[k] = s THEN Append(g[k - 1], k) ELSE g[k - 1]
        <5>1. CASE k = c
          <6>1. k # a /\ ~(k < c) /\ k - 1 < c /\ k - 1 \in a..c
            BY <1>0, <2>3, <2>5, <5>1
          <6> QED
            BY <6>1
        <5>2. CASE k = a
          BY <1>0, <2>3, <2>5, <3>2, <5>2
        <5>3. CASE k # a /\ k # c
          <6>1. k < c /\ k - 1 < c /\ k \in a..(c - 1) /\ k - 1 \in a..c
            BY <1>0, <2>3, <5>3
          <6>2. f[k] = IF side[k] = s THEN Append(f[k - 1], k) ELSE f[k - 1]
            BY <3>2, <5>3, <6>1
          <6>3. g[k] = f[k] /\ g[k - 1] = f[k - 1]
            BY <6>1
          <6> QED
            BY <5>3, <6>2, <6>3
        <5> QED
          BY <5>1, <5>2, <5>3
      <4> QED
        BY <4>1
    <3> QED
      BY <2>3, <3>3
  <2> QED
    BY <1>0, <2>3, <2>4, <2>5
<1> DEFINE picked(b) == CHOOSE f : f = G(f, b)
<1>2. \A b : Offsets(a, b, s) = picked(b)[b]
  BY DEF Offsets
<1>3. \A b \in a..N : picked(b) = G(picked(b), b)
  BY <1>1
<1> HIDE DEF picked
<1>4. \A b \in a..N : \A k \in a..b :
        picked(b)[k] = IF k = a THEN <<>>
                       ELSE IF side[k] = s THEN Append(picked(b)[k - 1], k) ELSE picked(b)[k - 1]
  BY <1>3
<1>5. ASSUME NEW b \in a..N, NEW c \in b..N PROVE picked(b)[b] = picked(c)[b]
  <2> DEFINE S == {k \in a..b : picked(b)[k] = picked(c)[k]}
  <2>1. a \in S /\ b \in Nat /\ \A k \in a..b : k \in a..c
    BY <1>0, <1>4
  <2>2. \A k \in (a + 1)..b : k - 1 \in S => k \in S
    <3> TAKE k \in (a + 1)..b
    <3>1. k \in a..b /\ k \in a..c /\ k # a /\ c \in a..N
      BY <1>0, <2>1
    <3> QED
      BY <1>4, <3>1
  <2> HIDE DEF S
  <2>3. \A k \in a..b : k \in S
    BY <1>0, <2>1, <2>2, Along
  <2> QED
    BY <1>0, <2>3 DEF S
<1>6. Offsets(a, a, s) = <<>>
  BY <1>0, <1>2, <1>4
<1>7. ASSUME NEW b \in (a + 1)..N
      PROVE  Offsets(a, b, s) = IF side[b] = s THEN Append(Offsets(a, b - 1, s), b)
                                ELSE Offsets(a, b - 1, s)
  <2>1. b \in a..N /\ b \in a..b /\ b # a /\ b - 1 \in a..N /\ b \in (b - 1)..N
    BY <1>0
  <2>2. picked(b - 1)[b - 1] = picked(b)[b - 1]
    BY <1>5, <2>1
  <2> QED
    BY <1>2, <1>4, <2>1, <2>2
<1> QED
  BY <1>6, <1>7

\* They are numbers of the stretch, no more than it has.
LEMMA OffsetsType ==
    ASSUME NEW a \in 0..N, NEW b \in a..N, NEW s
    PROVE  /\ Offsets(a, b, s) \in Seq((a + 1)..b)
           /\ Len(Offsets(a, b, s)) <= b - a
<1>0. N \in Nat /\ a \in Nat /\ b \in Nat
  BY SizeAssumption
<1> DEFINE S == {k \in a..b : Offsets(a, k, s) \in Seq((a + 1)..b) /\ Len(Offsets(a, k, s)) <= k - a}
<1>1. a \in S
  <2>1. Offsets(a, a, s) = <<>> /\ <<>> \in Seq((a + 1)..b) /\ Len(<<>>) = 0
    BY OffsetsStep
  <2> QED
    BY <1>0, <2>1
<1>2. ASSUME NEW k \in (a + 1)..b, k - 1 \in S PROVE k \in S
  <2> DEFINE q == Offsets(a, k - 1, s)
  <2>1. Offsets(a, k, s) = IF side[k] = s THEN Append(q, k) ELSE q
    <3>1. k \in (a + 1)..N
      BY <1>0
    <3> QED
      BY <3>1, OffsetsStep
  <2>2. q \in Seq((a + 1)..b) /\ Len(q) <= k - 1 - a
    BY <1>2
  <2> HIDE DEF q
  <2>3. Append(q, k) \in Seq((a + 1)..b) /\ Len(Append(q, k)) = Len(q) + 1 /\ Len(q) \in Nat
    BY <2>2
  <2>4. Offsets(a, k, s) \in Seq((a + 1)..b) /\ Len(Offsets(a, k, s)) <= k - a
    <3>1. k \in Nat
      BY <1>0
    <3>2. CASE side[k] = s
      BY <1>0, <2>1, <2>2, <2>3, <3>1, <3>2
    <3>3. CASE side[k] # s
      BY <1>0, <2>1, <2>2, <2>3, <3>1, <3>3
    <3> QED
      BY <3>2, <3>3
  <2> QED
    BY <1>0, <2>4
<1> HIDE DEF S
<1>3. \A k \in a..b : k \in S
  BY <1>0, <1>1, <1>2, Along
<1> QED
  BY <1>0, <1>3 DEF S

\* What is appended to two sequences is appended to the second.
LEMMA AppendToEnd ==
    ASSUME NEW u \in Seq(Nat), NEW v \in Seq(Nat), NEW n \in Nat
    PROVE  Append(u \o v, n) = u \o Append(v, n)
<1>1. <<n>> \in Seq(Nat) /\ u \o v \in Seq(Nat)
  OBVIOUS
<1>2. Append(v, n) = v \o <<n>>
  BY AppendIsConcat
<1>3. Append(u \o v, n) = (u \o v) \o <<n>>
  BY <1>1, AppendIsConcat
<1>4. (u \o v) \o <<n>> = u \o (v \o <<n>>)
  BY <1>1, ConcatAssociative
<1> QED
  BY <1>2, <1>3, <1>4

\* Those of a stretch are those of its beginning, then those of the rest.
LEMMA OffsetsJoin ==
    ASSUME NEW a \in 0..N, NEW b \in a..N, NEW c \in b..N, NEW s
    PROVE  Offsets(a, c, s) = Offsets(a, b, s) \o Offsets(b, c, s)
<1>0. N \in Nat /\ a \in Nat /\ b \in Nat /\ c \in Nat
  BY SizeAssumption
<1> DEFINE S == {k \in b..c : Offsets(a, k, s) = Offsets(a, b, s) \o Offsets(b, k, s)}
<1>1. b \in S
  <2>1. Offsets(a, b, s) \in Seq(Nat)
    BY <1>0, OffsetsType
  <2>2. Offsets(b, b, s) = <<>>
    BY <1>0, OffsetsStep
  <2> QED
    BY <1>0, <2>1, <2>2
<1>2. ASSUME NEW k \in (b + 1)..c, k - 1 \in S PROVE k \in S
  <2>1. k \in (a + 1)..N /\ k \in (b + 1)..N /\ b \in 0..N /\ k - 1 \in b..N /\ k \in Nat
    BY <1>0
  <2>2. /\ Offsets(a, k, s) = IF side[k] = s THEN Append(Offsets(a, k - 1, s), k) ELSE Offsets(a, k - 1, s)
        /\ Offsets(b, k, s) = IF side[k] = s THEN Append(Offsets(b, k - 1, s), k) ELSE Offsets(b, k - 1, s)
    BY <2>1, OffsetsStep
  <2>3. Offsets(a, b, s) \in Seq(Nat) /\ Offsets(b, k - 1, s) \in Seq(Nat)
    <3>1. Offsets(a, b, s) \in Seq((a + 1)..b) /\ Offsets(b, k - 1, s) \in Seq((b + 1)..(k - 1))
      BY <2>1, OffsetsType
    <3> QED
      BY <1>0, <2>1, <3>1
  <2>4. Append(Offsets(a, b, s) \o Offsets(b, k - 1, s), k) = Offsets(a, b, s) \o Append(Offsets(b, k - 1, s), k)
    BY <2>1, <2>3, AppendToEnd, Zenon
  <2>5. Offsets(a, k - 1, s) = Offsets(a, b, s) \o Offsets(b, k - 1, s)
    BY <1>2
  <2>6. Offsets(a, k, s) = Offsets(a, b, s) \o Offsets(b, k, s)
    BY <2>2, <2>4, <2>5, Zenon
  <2> QED
    BY <1>0, <2>6
<1> HIDE DEF S
<1>3. \A k \in b..c : k \in S
  BY <1>0, <1>1, <1>2, Along
<1> QED
  BY <1>0, <1>3 DEF S

\* Where a byte is among those of its side.
LEMMA OffsetsAt ==
    ASSUME NEW a \in 0..N, NEW b \in a..N, NEW k \in (a + 1)..b, NEW s, side[k] = s
    PROVE  /\ Len(Offsets(a, k, s)) \in 1..Len(Offsets(a, b, s))
           /\ Offsets(a, b, s)[Len(Offsets(a, k, s))] = k
           /\ Len(Offsets(a, k - 1, s)) = Len(Offsets(a, k, s)) - 1
<1> DEFINE p == Offsets(a, k - 1, s)
           q == Offsets(k, b, s)
<1>0. /\ N \in Nat /\ a \in Nat /\ b \in Nat /\ k \in Nat /\ k \in 0..N /\ k \in a..N /\ k \in (a + 1)..N
      /\ b \in k..N /\ k - 1 \in a..N
  BY SizeAssumption
<1>1. Offsets(a, k, s) = Append(p, k)
  BY <1>0, OffsetsStep
<1>2. Offsets(a, b, s) = Offsets(a, k, s) \o q
  BY <1>0, OffsetsJoin
<1>3. p \in Seq(Nat) /\ q \in Seq(Nat)
  <2>1. p \in Seq((a + 1)..(k - 1)) /\ q \in Seq((k + 1)..b)
    BY <1>0, OffsetsType
  <2> QED
    BY <1>0, <2>1
<1> HIDE DEF p, q
<1>4. Append(p, k) \in Seq(Nat) /\ Len(Append(p, k)) = Len(p) + 1 /\ Append(p, k)[Len(p) + 1] = k
  BY <1>0, <1>3
<1>5. /\ Len(Append(p, k) \o q) = Len(p) + 1 + Len(q) /\ (Append(p, k) \o q)[Len(p) + 1] = k
      /\ Len(p) \in Nat /\ Len(q) \in Nat
  BY <1>0, <1>3, <1>4
<1> QED
  BY <1>1, <1>2, <1>4, <1>5 DEF p

\* Where every byte goes to one side, it has them all and the other none.
LEMMA OffsetsOneSided ==
    ASSUME NEW a \in 0..N, NEW b \in a..N, NEW s, \A k \in (a + 1)..b : side[k] = s
    PROVE  /\ Offsets(a, b, s) = [i \in 1..(b - a) |-> a + i]
           /\ \A t : t # s => Offsets(a, b, t) = <<>>
<1>0. N \in Nat /\ a \in Nat /\ b \in Nat
  BY SizeAssumption
<1> DEFINE S == {k \in a..b : /\ Offsets(a, k, s) = [i \in 1..(k - a) |-> a + i]
                              /\ \A t : t # s => Offsets(a, k, t) = <<>>}
<1>1. a \in S
  <2>1. \A t : Offsets(a, a, t) = <<>>
    BY OffsetsStep
  <2>2. [i \in 1..(a - a) |-> a + i] = <<>>
    BY <1>0
  <2>3. /\ Offsets(a, a, s) = [i \in 1..(a - a) |-> a + i]
        /\ \A t : t # s => Offsets(a, a, t) = <<>>
    BY <2>1, <2>2
  <2>4. a \in a..b
    BY <1>0
  <2> QED
    BY <2>3, <2>4
<1>2. ASSUME NEW k \in (a + 1)..b, k - 1 \in S PROVE k \in S
  <2>1. k \in (a + 1)..N /\ side[k] = s /\ k \in Nat /\ k - 1 - a \in Nat
    BY <1>0
  <2>2. Offsets(a, k, s) = Append(Offsets(a, k - 1, s), k)
    BY <2>1, OffsetsStep
  <2>3. ASSUME NEW t, t # s PROVE Offsets(a, k, t) = <<>>
    <3>1. Offsets(a, k, t) = Offsets(a, k - 1, t)
      BY <2>1, <2>3, OffsetsStep
    <3> QED
      BY <1>2, <2>3, <3>1
  <2> DEFINE m == k - 1 - a
             q == [i \in 1..m |-> a + i]
             r == [i \in 1..(m + 1) |-> a + i]
  <2>4. Append(q, k) = r
    <3>1. q \in Seq(Nat) /\ Len(q) = m /\ \A i \in 1..m : q[i] = a + i
      BY <1>0, <2>1
    <3>2. r \in Seq(Nat) /\ Len(r) = m + 1 /\ \A i \in 1..(m + 1) : r[i] = a + i
      BY <1>0, <2>1
    <3>3. k = a + (m + 1) /\ m \in Nat
      BY <1>0, <2>1
    <3> HIDE DEF q, r, m
    <3>4. /\ Append(q, k) \in Seq(Nat) /\ Len(Append(q, k)) = m + 1
          /\ \A i \in 1..(m + 1) : Append(q, k)[i] = IF i <= m THEN q[i] ELSE k
      BY <2>1, <3>1, <3>3
    <3>5. \A i \in 1..(m + 1) : Append(q, k)[i] = r[i]
      BY <1>0, <3>1, <3>2, <3>3, <3>4
    <3> QED
      BY <3>2, <3>4, <3>5, SeqEqual
  <2>5. m + 1 = k - a /\ Offsets(a, k - 1, s) = q
    BY <1>0, <1>2, <2>1
  <2>6. Offsets(a, k, s) = [i \in 1..(k - a) |-> a + i]
    BY <2>2, <2>4, <2>5
  <2>7. k \in a..b
    BY <1>0
  <2> QED
    BY <2>3, <2>6, <2>7
<1> HIDE DEF S
<1>3. \A k \in a..b : k \in S
  BY <1>0, <1>1, <1>2, Along
<1> QED
  BY <1>0, <1>3 DEF S

\* The leading run exists.
LEMMA HeadIs ==
    ASSUME side \in [1..N -> BOOLEAN]
    PROVE  /\ HeadEnd \in Bom..N /\ HeadEnd \in 0..N /\ HeadSide \in Sides /\ Other(HeadSide) \in Sides
           /\ Other(HeadSide) # HeadSide
           /\ \A s \in Sides : s = HeadSide \/ s = Other(HeadSide)
           /\ \A k \in (Bom + 1)..HeadEnd : side[k] = HeadSide
<1>0. N \in Nat /\ Bom \in Nat /\ Bom <= N
  BY SizeAssumption
<1>1. HeadSide \in BOOLEAN
  BY <1>0 DEF HeadSide
<1> DEFINE E == {e \in Bom..N : e < N => side[e + 1] # HeadSide}
<1>2. E \in SUBSET Nat /\ N \in E
  BY <1>0
<1>3. PICK e \in E : \A f \in E : e <= f
  <2> HIDE DEF E
  <2> QED
    BY <1>2, Least
<1>4. e \in Bom..N /\ (e < N => side[e + 1] # HeadSide)
  BY <1>3
<1>5. ASSUME NEW k \in (Bom + 1)..e PROVE side[k] = HeadSide
  <2>1. k - 1 \in Bom..N /\ ~(e <= k - 1) /\ k - 1 < N /\ (k - 1) + 1 = k
    BY <1>0, <1>4
  <2> QED
    BY <1>3, <2>1
<1>6. HeadEnd \in Bom..N /\ \A k \in (Bom + 1)..HeadEnd : side[k] = HeadSide
  BY <1>4, <1>5 DEF HeadEnd
<1> QED
  BY <1>0, <1>1, <1>6 DEF Other, Sides

\* The first numbers, and those after some of them.
LEMMA PrefixIs ==
    ASSUME NEW n \in Nat
    PROVE  /\ Prefix(n) \in Seq(Nat) /\ Len(Prefix(n)) = n
           /\ n <= N => Prefix(n) \in Seq(0..N)
           /\ \A i \in 1..n : Prefix(n)[i] = i
           /\ Append(Prefix(n), n + 1) = Prefix(n + 1)
           /\ \A m \in 0..n : SubSeq(Prefix(n), 1, m) = Prefix(m)
<1>1. /\ Prefix(n) \in Seq(Nat) /\ Len(Prefix(n)) = n
      /\ \A i \in 1..n : Prefix(n)[i] = i
  BY DEF Prefix
<1>2. n <= N => Prefix(n) \in Seq(0..N)
  BY SizeAssumption DEF Prefix
<1>3. Append(Prefix(n), n + 1) = Prefix(n + 1)
  <2>1. /\ Prefix(n + 1) \in Seq(Nat) /\ Len(Prefix(n + 1)) = n + 1
        /\ \A i \in 1..(n + 1) : Prefix(n + 1)[i] = i
    BY DEF Prefix
  <2>2. /\ Append(Prefix(n), n + 1) \in Seq(Nat) /\ Len(Append(Prefix(n), n + 1)) = n + 1
        /\ \A i \in 1..(n + 1) : Append(Prefix(n), n + 1)[i] = i
    BY <1>1
  <2> QED
    BY <2>1, <2>2, SeqEqual
<1>4. ASSUME NEW m \in 0..n PROVE SubSeq(Prefix(n), 1, m) = Prefix(m)
  <2>1. Prefix(m) \in Seq(Nat) /\ Len(Prefix(m)) = m /\ \A i \in 1..m : Prefix(m)[i] = i
    BY DEF Prefix
  <2>2. /\ SubSeq(Prefix(n), 1, m) \in Seq(Nat) /\ Len(SubSeq(Prefix(n), 1, m)) = m
        /\ \A i \in 1..m : SubSeq(Prefix(n), 1, m)[i] = i
    BY <1>1
  <2> QED
    BY <2>1, <2>2, SeqEqual
<1> QED
  BY <1>1, <1>2, <1>3, <1>4

\* The file at its leading run is its output so far, and the other's is the mark.
LEMMA HeadPrefix ==
    ASSUME side \in [1..N -> BOOLEAN]
    PROVE  /\ Prefix(HeadEnd) = BomBytes \o Offsets(Bom, HeadEnd, HeadSide)
           /\ BomBytes = BomBytes \o Offsets(Bom, HeadEnd, Other(HeadSide))
           /\ BomBytes \in Seq(0..N) /\ Len(BomBytes) = Bom /\ BomBytes = Prefix(Bom)
<1>0. N \in Nat /\ Bom \in Nat /\ Bom <= N /\ Bom \in 0..N
  BY SizeAssumption
<1>1. /\ HeadEnd \in Bom..N /\ Other(HeadSide) # HeadSide
      /\ \A k \in (Bom + 1)..HeadEnd : side[k] = HeadSide
  BY HeadIs
<1> DEFINE d == HeadEnd - Bom
           q == [i \in 1..d |-> Bom + i]
<1>2. d \in Nat /\ HeadEnd \in Nat /\ HeadEnd = Bom + d
  BY <1>0, <1>1
<1>3. Offsets(Bom, HeadEnd, HeadSide) = q /\ Offsets(Bom, HeadEnd, Other(HeadSide)) = <<>>
  <2> HIDE DEF HeadEnd, HeadSide, Other, Offsets
  <2> QED
    BY <1>0, <1>1, OffsetsOneSided
<1>4. BomBytes = Prefix(Bom) /\ Prefix(Bom) \in Seq(0..N) /\ Len(Prefix(Bom)) = Bom
      /\ \A i \in 1..Bom : Prefix(Bom)[i] = i
  <2>1. BomBytes = Prefix(Bom)
    BY DEF BomBytes, Prefix
  <2> QED
    BY <1>0, <2>1, PrefixIs
<1>5. Prefix(HeadEnd) = Prefix(Bom) \o q
  <2>1. q \in Seq(Nat) /\ Len(q) = d /\ \A i \in 1..d : q[i] = Bom + i
    BY <1>0, <1>2
  <2>2. Prefix(Bom) \in Seq(Nat)
    BY <1>0, PrefixIs
  <2>3. /\ Prefix(HeadEnd) \in Seq(Nat) /\ Len(Prefix(HeadEnd)) = Bom + d
        /\ \A i \in 1..(Bom + d) : Prefix(HeadEnd)[i] = i
    BY <1>2, PrefixIs
  <2> HIDE DEF q, d
  <2>4. /\ Prefix(Bom) \o q \in Seq(Nat) /\ Len(Prefix(Bom) \o q) = Bom + d
        /\ \A i \in 1..(Bom + d) :
              (Prefix(Bom) \o q)[i] = IF i <= Bom THEN Prefix(Bom)[i] ELSE q[i - Bom]
    <3>1. /\ Prefix(Bom) \o q \in Seq(Nat) /\ Len(Prefix(Bom) \o q) = Len(Prefix(Bom)) + Len(q)
          /\ \A i \in 1..(Len(Prefix(Bom)) + Len(q)) :
                (Prefix(Bom) \o q)[i] = IF i <= Len(Prefix(Bom)) THEN Prefix(Bom)[i]
                                        ELSE q[i - Len(Prefix(Bom))]
      BY <2>1, <2>2, ConcatProperties
    <3>2. Len(Prefix(Bom)) = Bom /\ Len(q) = d
      BY <1>4, <2>1
    <3> QED
      BY <3>1, <3>2, Zenon
  <2>5. ASSUME NEW i \in 1..(Bom + d) PROVE (Prefix(Bom) \o q)[i] = Prefix(HeadEnd)[i]
    <3>1. CASE i <= Bom
      BY <1>0, <1>2, <1>4, <2>3, <2>4, <3>1, SMTT(30)
    <3>2. CASE ~(i <= Bom)
      <4>1. i - Bom \in 1..d /\ Bom + (i - Bom) = i
        BY <1>0, <1>2, <3>2
      <4> QED
        BY <2>1, <2>3, <2>4, <3>2, <4>1
    <3> QED
      BY <3>1, <3>2
  <2> QED
    BY <2>3, <2>4, <2>5, SeqEqual
<1>6. Prefix(Bom) = Prefix(Bom) \o <<>>
  BY <1>4
<1> QED
  BY <1>3, <1>4, <1>5, <1>6

\* An output is the mark, its bytes up to anywhere and those from there on.
LEMMA ExpectedJoin ==
    ASSUME NEW b \in Bom..N, NEW s
    PROVE  Expected(s) = (BomBytes \o Offsets(Bom, b, s)) \o Offsets(b, N, s)
<1>0. N \in Nat /\ Bom \in Nat /\ Bom <= N /\ Bom \in 0..N /\ b \in 0..N /\ N \in b..N
  BY SizeAssumption
<1>1. Offsets(Bom, N, s) = Offsets(Bom, b, s) \o Offsets(b, N, s)
  BY <1>0, OffsetsJoin
<1>2. BomBytes \in Seq(Nat) /\ Offsets(Bom, b, s) \in Seq(Nat) /\ Offsets(b, N, s) \in Seq(Nat)
  <2>1. Offsets(Bom, b, s) \in Seq((Bom + 1)..b) /\ Offsets(b, N, s) \in Seq((b + 1)..N)
    BY <1>0, OffsetsType
  <2>2. BomBytes \in Seq(Nat)
    BY <1>0 DEF BomBytes
  <2> QED
    BY <1>0, <2>1, <2>2
<1>3. BomBytes \o (Offsets(Bom, b, s) \o Offsets(b, N, s))
        = (BomBytes \o Offsets(Bom, b, s)) \o Offsets(b, N, s)
  <2> DEFINE x == BomBytes
             y == Offsets(Bom, b, s)
             z == Offsets(b, N, s)
  <2>1. x \in Seq(Nat) /\ y \in Seq(Nat) /\ z \in Seq(Nat)
    BY <1>2
  <2> HIDE DEF x, y, z
  <2>2. x \o (y \o z) = (x \o y) \o z
    BY <2>1, SMTT(30)
  <2> QED
    BY <2>2 DEF x, y, z
<1> QED
  BY <1>1, <1>3 DEF Expected

\* Reading the original for the bytes of a side gives them.
LEMMA PieceIs ==
    ASSUME NEW n \in 0..N, original = Prefix(n), NEW a \in 0..n, NEW b \in a..n, NEW s
    PROVE  Piece(a, b, s) = Offsets(a, b, s)
<1>0. N \in Nat /\ n \in Nat /\ a \in 0..N /\ b \in a..N /\ a \in Nat /\ b \in Nat
  BY SizeAssumption
<1> DEFINE ks == Offsets(a, b, s)
<1>1. ks \in Seq((a + 1)..b)
  BY <1>0, OffsetsType
<1>2. Piece(a, b, s) = [i \in DOMAIN ks |-> original[ks[i]]]
  BY DEF Piece
<1> HIDE DEF ks
<1>3. ASSUME NEW i \in DOMAIN ks PROVE original[ks[i]] = ks[i]
  <2>1. ks[i] \in (a + 1)..b
    BY <1>1
  <2>2. ks[i] \in 1..n
    BY <1>0, <2>1
  <2> QED
    BY <1>0, <2>2, PrefixIs
<1>4. ks = [i \in DOMAIN ks |-> ks[i]]
  BY <1>1
<1> QED
  BY <1>2, <1>3, <1>4 DEF ks

\* The beginning of a sequence.
LEMMA Beginning ==
    ASSUME NEW K, NEW p \in Seq(K), NEW m \in 0..Len(p)
    PROVE  /\ SubSeq(p, 1, m) \in Seq(K) /\ Len(SubSeq(p, 1, m)) = m
           /\ DOMAIN SubSeq(p, 1, m) = 1..m
           /\ \A i \in 1..m : SubSeq(p, 1, m)[i] = p[i]
<1>1. m \in Int /\ 1 \in Int /\ \A i \in 1..m : p[i] \in K
  OBVIOUS
<1>2. /\ SubSeq(p, 1, m) \in Seq(K)
      /\ Len(SubSeq(p, 1, m)) = IF 1 <= m THEN m - 1 + 1 ELSE 0
      /\ \A i \in 1..(m - 1 + 1) : SubSeq(p, 1, m)[i] = p[1 + i - 1]
  BY <1>1, SubSeqProperties
<1>3. m - 1 + 1 = m /\ \A i \in 1..m : 1 + i - 1 = i
  BY <1>1
<1>4. Len(SubSeq(p, 1, m)) = m
  BY <1>2
<1> QED
  BY <1>2, <1>3, <1>4

\* A sequence with one more element: which is its last, the others its front.
LEMMA WithOneMore ==
    ASSUME NEW K, NEW p \in Seq(K), NEW c \in K
    PROVE  /\ Append(p, c) \in Seq(K) /\ Len(Append(p, c)) = Len(p) + 1
           /\ DOMAIN Append(p, c) = 1..(Len(p) + 1)
           /\ \A i \in 1..Len(p) : Append(p, c)[i] = p[i]
           /\ Append(p, c)[Len(p) + 1] = c
           /\ Front(Append(p, c)) = p /\ Last(Append(p, c)) = c /\ Append(p, c) # <<>>
<1> DEFINE q == Append(p, c)
<1>1. /\ q \in Seq(K) /\ Len(q) = Len(p) + 1 /\ DOMAIN q = 1..(Len(p) + 1)
      /\ \A i \in 1..Len(p) : q[i] = p[i]
      /\ q[Len(p) + 1] = c /\ Len(p) \in Nat
  OBVIOUS
<1> HIDE DEF q
<1>2. Front(q) = SubSeq(q, 1, Len(p)) /\ Last(q) = c /\ q # <<>>
  BY <1>1 DEF Front, Last
<1>3. /\ SubSeq(q, 1, Len(p)) \in Seq(K) /\ Len(SubSeq(q, 1, Len(p))) = Len(p)
      /\ \A i \in 1..Len(p) : SubSeq(q, 1, Len(p))[i] = q[i]
  BY <1>1
<1>4. SubSeq(q, 1, Len(p)) = p
  BY <1>1, <1>3, SeqEqual
<1> QED
  BY <1>1, <1>2, <1>4 DEF q

\* A sequence without its last element.
LEMMA WithoutLast ==
    ASSUME NEW K, NEW p \in Seq(K), p # <<>>
    PROVE  /\ Front(p) \in Seq(K) /\ Len(Front(p)) = Len(p) - 1
           /\ DOMAIN Front(p) = 1..(Len(p) - 1)
           /\ \A i \in 1..(Len(p) - 1) : Front(p)[i] = p[i]
<1>1. Len(p) \in Nat /\ Len(p) - 1 \in 0..Len(p)
  OBVIOUS
<1>2. Front(p) = SubSeq(p, 1, Len(p) - 1)
  BY <1>1 DEF Front
<1> DEFINE m == Len(p) - 1
<1>3. m \in 0..Len(p)
  BY <1>1
<1> HIDE DEF m
<1>4. /\ SubSeq(p, 1, m) \in Seq(K) /\ Len(SubSeq(p, 1, m)) = m
      /\ DOMAIN SubSeq(p, 1, m) = 1..m
      /\ \A i \in 1..m : SubSeq(p, 1, m)[i] = p[i]
  BY <1>3, Beginning
<1> QED
  BY <1>2, <1>4 DEF m

-----------------------------------------------------------------------------
(* Journals.                                                                *)

\* The values of a journal's chunks.
LEMMA ChunkValues ==
    ASSUME NEW j \in Journals
    PROVE  /\ j.cut \in 0..N /\ j.chunks \in Seq([start : 0..N, end : 0..N])
           /\ Len(j.chunks) \in Nat /\ DOMAIN j.chunks = 1..Len(j.chunks)
           /\ \A i \in 1..Len(j.chunks) : /\ j.chunks[i].start \in 0..N /\ j.chunks[i].end \in 0..N
                                          /\ j.chunks[i] = [start |-> j.chunks[i].start, end |-> j.chunks[i].end]
           /\ j.chunks # <<>> <=> Len(j.chunks) > 0
           /\ Last(j.chunks) = j.chunks[Len(j.chunks)]
           /\ \A s \in Sides : j.done[s] \in 0..N /\ j.len[s] \in 0..N /\ j.created[s] \in BOOLEAN
           /\ j.renamed \in BOOLEAN
<1>1. /\ j.cut \in 0..N /\ j.chunks \in Seq([start : 0..N, end : 0..N]) /\ j.renamed \in BOOLEAN
      /\ j.done \in [Sides -> 0..N] /\ j.len \in [Sides -> 0..N] /\ j.created \in [Sides -> BOOLEAN]
  BY DEF Journals
<1>2. \A i \in 1..Len(j.chunks) : j.chunks[i] \in [start : 0..N, end : 0..N]
  BY <1>1, ElementOfSeq
<1> QED
  BY <1>1, <1>2 DEF Last

\* The cut is where the last chunk starts, or the end; never in the leading run.
LEMMA ChainCut ==
    ASSUME side \in [1..N -> BOOLEAN], NEW j \in Journals, Chain(j)
    PROVE  /\ j.cut \in HeadEnd..N
           /\ j.cut + Len(j.chunks) <= N
           /\ \A k \in (j.cut + 1)..N : \E h \in 1..Len(j.chunks) :
                j.chunks[h].start < k /\ k <= j.chunks[h].end
<1>0. N \in Nat /\ HeadEnd \in 0..N /\ HeadEnd \in Nat
  <2>1. HeadEnd \in 0..N
    BY HeadIs
  <2> HIDE DEF HeadEnd
  <2> QED
    BY <2>1, SizeAssumption
<1> DEFINE t == Len(j.chunks)
<1>1. t \in Nat /\ DOMAIN j.chunks = 1..t /\ j.cut \in 0..N /\ (j.chunks # <<>> <=> t > 0)
      /\ Last(j.chunks) = j.chunks[t]
  BY ChunkValues
<1> HIDE DEF t
<1>2. CASE j.chunks = <<>>
  <2>1. t = 0 /\ j.cut = N
    BY <1>1, <1>2 DEF Chain
  <2> QED
    BY <1>0, <2>1 DEF t
<1>3. CASE j.chunks # <<>>
  <2>1. t \in 1..t /\ j.cut = j.chunks[t].start
    BY <1>1, <1>3 DEF Chain
  <2>2. /\ HeadEnd <= j.chunks[t].start /\ j.chunks[t].start + t <= N
        /\ \A k \in (j.chunks[t].start + 1)..N : \E h \in 1..t :
              j.chunks[h].start < k /\ k <= j.chunks[h].end
    BY <1>1, <2>1 DEF Chain
  <2>3. j.cut \in HeadEnd..N
    BY <1>0, <1>1, <2>1, <2>2
  <2>4. j.cut + t <= N /\ \A k \in (j.cut + 1)..N : \E h \in 1..t :
              j.chunks[h].start < k /\ k <= j.chunks[h].end
    BY <2>1, <2>2
  <2> QED
    BY <2>3, <2>4 DEF t
<1> QED
  BY <1>2, <1>3

\* A chunk is a stretch behind the leading run.
LEMMA ChainChunk ==
    ASSUME side \in [1..N -> BOOLEAN], NEW j \in Journals, Chain(j), NEW i \in 1..Len(j.chunks)
    PROVE  /\ j.chunks[i].start \in HeadEnd..N /\ j.chunks[i].start \in 0..N
           /\ j.chunks[i].end \in j.chunks[i].start..N
           /\ j.chunks[i].start < j.chunks[i].end
           /\ i <= N
<1>0. N \in Nat /\ HeadEnd \in 0..N /\ HeadEnd \in Nat
  <2>1. HeadEnd \in 0..N
    BY HeadIs
  <2> HIDE DEF HeadEnd
  <2> QED
    BY <2>1, SizeAssumption
<1>1. /\ i \in DOMAIN j.chunks /\ j.chunks[i].start \in 0..N /\ j.chunks[i].end \in 0..N
  BY ChunkValues
<1>2. HeadEnd <= j.chunks[i].start /\ j.chunks[i].start < j.chunks[i].end /\ j.chunks[i].start + i <= N
  BY <1>1 DEF Chain
<1> QED
  BY <1>0, <1>1, <1>2

\* Cutting another chunk off.
LEMMA ChainGrows ==
    ASSUME side \in [1..N -> BOOLEAN], NEW j \in Journals, Chain(j),
           NEW start \in 0..N, HeadEnd <= start, start < j.cut,
           NEW c \in [start : 0..N, end : 0..N], c.start = start, c.end = j.cut,
           NEW k, k.chunks = Append(j.chunks, c), k.cut = start
    PROVE  /\ Chain(k)
           /\ Len(k.chunks) = Len(j.chunks) + 1 /\ Len(k.chunks) <= N
           /\ \A i \in 1..Len(j.chunks) : k.chunks[i] = j.chunks[i]
<1>0. N \in Nat /\ HeadEnd \in 0..N /\ HeadEnd \in Nat /\ j.cut \in HeadEnd..N /\ j.cut + Len(j.chunks) <= N
  <2>1. HeadEnd \in 0..N /\ j.cut \in HeadEnd..N /\ j.cut + Len(j.chunks) <= N
    BY HeadIs, ChainCut
  <2> HIDE DEF HeadEnd
  <2> QED
    BY <2>1, SizeAssumption
<1> DEFINE t == Len(j.chunks)
           q == Append(j.chunks, c)
           K == [start : 0..N, end : 0..N]
<1> HIDE DEF HeadEnd
<1>1. start \in 0..N /\ start < j.cut /\ j.cut \in Nat /\ start \in Nat
  BY <1>0
<1>2. /\ j.cut \in 0..N /\ j.chunks \in Seq(K) /\ t \in Nat /\ DOMAIN j.chunks = 1..t
      /\ (j.chunks # <<>> <=> t > 0) /\ Last(j.chunks) = j.chunks[t]
  BY ChunkValues
<1>3. c \in K /\ c.start = start /\ c.end = j.cut
  OBVIOUS
<1>4. k.chunks = q /\ k.cut = start
  BY DEF q
<1>5. /\ q \in Seq(K) /\ Len(q) = t + 1 /\ DOMAIN q = 1..(t + 1) /\ q[t + 1] = c
      /\ \A i \in 1..t : q[i] = j.chunks[i]
      /\ Front(q) = j.chunks /\ Last(q) = c /\ q # <<>>
  <2> HIDE DEF K
  <2> QED
    BY <1>2, <1>3, WithOneMore
<1>8. \A i \in 1..t :
         /\ HeadEnd <= j.chunks[i].start
         /\ j.chunks[i].start < j.chunks[i].end
         /\ j.chunks[i].start + i <= N
         /\ j.chunks[i].end = IF i = 1 THEN N ELSE j.chunks[i - 1].start
         /\ \A n \in (j.chunks[i].start + 1)..N :
              \E h \in 1..i : j.chunks[h].start < n /\ n <= j.chunks[h].end
  BY <1>2 DEF Chain
<1>9. j.cut = IF t = 0 THEN N ELSE j.chunks[t].start
  BY <1>2 DEF Chain
<1>10. \A n \in (j.cut + 1)..N : \E h \in 1..t : j.chunks[h].start < n /\ n <= j.chunks[h].end
  BY ChainCut
<1> HIDE DEF q, t
<1>11. ASSUME NEW i \in 1..(t + 1)
       PROVE  /\ HeadEnd <= q[i].start
              /\ q[i].start < q[i].end
              /\ q[i].start + i <= N
              /\ q[i].end = IF i = 1 THEN N ELSE q[i - 1].start
              /\ \A n \in (q[i].start + 1)..N :
                   \E h \in 1..i : q[h].start < n /\ n <= q[h].end
  <2>1. CASE i \in 1..t
    <3>0. t \in Nat
      BY <1>2
    <3>6. \A h \in 1..i : h \in 1..t
      BY <2>1, <3>0
    <3>1. \A h \in 1..i : q[h] = j.chunks[h] /\ h \in 1..t
      BY <1>5, <3>6
    <3>2. i # 1 => i - 1 \in 1..i
      BY <2>1, <3>0
    <3>3. i \in 1..i
      BY <2>1, <3>0
    <3>7. \A n \in (j.chunks[i].start + 1)..N :
             \E h \in 1..i : j.chunks[h].start < n /\ n <= j.chunks[h].end
      BY <1>8, <2>1
    <3>8. q[i] = j.chunks[i]
      BY <3>1, <3>3
    <3>4. \A n \in (q[i].start + 1)..N : \E h \in 1..i : q[h].start < n /\ n <= q[h].end
      BY <3>1, <3>7, <3>8, Zenon
    <3>5. q[i].end = IF i = 1 THEN N ELSE q[i - 1].start
      BY <1>8, <2>1, <3>1, <3>2, <3>3
    <3> QED
      BY <1>8, <2>1, <3>1, <3>3, <3>4, <3>5
  <2>2. CASE i = t + 1
    <3>1. q[i].start = start /\ q[i].end = j.cut
      BY <1>3, <1>5, <2>2
    <3>2. start + t + 1 <= N
      BY <1>0, <1>1, <1>2, SMTT(30) DEF t
    <3>3. q[i].end = IF i = 1 THEN N ELSE q[i - 1].start
      <4>1. CASE t = 0
        BY <1>9, <2>2, <3>1, <4>1
      <4>2. CASE t # 0
        <5>1. i # 1 /\ i - 1 = t /\ t \in 1..t
          BY <1>2, <2>2, <4>2
        <5> QED
          BY <1>5, <1>9, <3>1, <4>2, <5>1
      <4> QED
        BY <4>1, <4>2
    <3>4. ASSUME NEW n \in (start + 1)..N PROVE \E h \in 1..i : q[h].start < n /\ n <= q[h].end
      <4>1. CASE n <= j.cut
        <5>1. i \in 1..i /\ q[i].start < n /\ n <= q[i].end
          BY <1>1, <1>2, <2>2, <3>1, <4>1
        <5> QED
          BY <5>1
      <4>2. CASE ~(n <= j.cut)
        <5>1. n \in (j.cut + 1)..N
          BY <1>0, <1>1, <4>2
        <5>2. PICK h \in 1..t : j.chunks[h].start < n /\ n <= j.chunks[h].end
          BY <1>10, <5>1
        <5>3. h \in 1..i /\ q[h] = j.chunks[h]
          <6>1. t \in Nat /\ \A x \in 1..t : q[x] = j.chunks[x]
            BY <1>2, <1>5
          <6> QED
            BY <2>2, <6>1
        <5> QED
          BY <5>2, <5>3
      <4> QED
        BY <4>1, <4>2
    <3> QED
      BY <1>0, <1>1, <1>2, <2>2, <3>1, <3>2, <3>3, <3>4
  <2> QED
    BY <1>2, <2>1, <2>2
<1>12. Chain(k)
  <2>1. k.cut = IF k.chunks = <<>> THEN N ELSE Last(k.chunks).start
    BY <1>3, <1>4, <1>5
  <2>2. DOMAIN k.chunks = 1..(t + 1)
    BY <1>4, <1>5
  <2> DEFINE Links(x) == \A i \in 1..(t + 1) :
              /\ HeadEnd <= x[i].start
              /\ x[i].start < x[i].end
              /\ x[i].start + i <= N
              /\ x[i].end = IF i = 1 THEN N ELSE x[i - 1].start
              /\ \A n \in (x[i].start + 1)..N :
                   \E h \in 1..i : x[h].start < n /\ n <= x[h].end
  <2>3. Links(k.chunks)
    <3>1. Links(q)
      BY <1>11, Zenon
    <3> HIDE DEF Links
    <3> QED
      BY <3>1, <1>4
  <2> QED
    BY <2>1, <2>2, <2>3, Zenon DEF Chain
<1>13. t + 1 <= N
  BY <1>0, <1>1, <1>2 DEF t
<1> QED
  BY <1>4, <1>5, <1>12, <1>13 DEF t

\* Forgetting the last one.
LEMMA ChainShrinks ==
    ASSUME side \in [1..N -> BOOLEAN], NEW j \in Journals, Chain(j), j.chunks # <<>>,
           NEW k, k = [j EXCEPT !.chunks = Front(@), !.cut = Last(j.chunks).end]
    PROVE  /\ Chain(k) /\ k \in Journals
           /\ Len(k.chunks) = Len(j.chunks) - 1
           /\ \A i \in 1..Len(k.chunks) : k.chunks[i] = j.chunks[i] /\ i \in 1..Len(j.chunks)
<1> DEFINE t == Len(j.chunks)
           q == Front(j.chunks)
           K == [start : 0..N, end : 0..N]
<1>1. /\ j.cut \in 0..N /\ j.chunks \in Seq(K) /\ t \in Nat /\ DOMAIN j.chunks = 1..t
      /\ t > 0 /\ Last(j.chunks) = j.chunks[t] /\ j.chunks[t].end \in 0..N
      /\ t \in 1..t
  <2>1. /\ j.cut \in 0..N /\ j.chunks \in Seq(K) /\ t \in Nat /\ DOMAIN j.chunks = 1..t
        /\ t > 0 /\ Last(j.chunks) = j.chunks[t]
        /\ \A i \in 1..t : j.chunks[i].end \in 0..N
    BY ChunkValues
  <2> HIDE DEF t, K
  <2>2. t \in 1..t
    BY <2>1
  <2> QED
    BY <2>1, <2>2
<1>2. /\ q \in Seq(K) /\ Len(q) = t - 1 /\ DOMAIN q = 1..(t - 1)
      /\ \A i \in 1..(t - 1) : q[i] = j.chunks[i] /\ i \in 1..t
  <2> HIDE DEF K
  <2>1. \A i \in 1..(t - 1) : i \in 1..t
    BY <1>1
  <2> QED
    BY <1>1, <2>1, WithoutLast
<1> HIDE DEF q
<1>3. k.chunks = q /\ k.cut = j.chunks[t].end /\ k \in Journals
  <2>1. k = [j EXCEPT !.chunks = q, !.cut = j.chunks[t].end]
    BY <1>1 DEF q
  <2> HIDE DEF t
  <2> QED
    BY <1>1, <1>2, <2>1 DEF Journals
<1>4. \A i \in 1..t :
         /\ HeadEnd <= j.chunks[i].start
         /\ j.chunks[i].start < j.chunks[i].end
         /\ j.chunks[i].start + i <= N
         /\ j.chunks[i].end = IF i = 1 THEN N ELSE j.chunks[i - 1].start
         /\ \A n \in (j.chunks[i].start + 1)..N :
              \E h \in 1..i : j.chunks[h].start < n /\ n <= j.chunks[h].end
  BY <1>1 DEF Chain
<1> HIDE DEF t
<1>5. ASSUME NEW i \in 1..(t - 1)
      PROVE  /\ HeadEnd <= q[i].start
             /\ q[i].start < q[i].end
             /\ q[i].start + i <= N
             /\ q[i].end = IF i = 1 THEN N ELSE q[i - 1].start
             /\ \A n \in (q[i].start + 1)..N :
                  \E h \in 1..i : q[h].start < n /\ n <= q[h].end
  <2>0. t \in Nat
    BY <1>1
  <2>5. \A h \in 1..i : h \in 1..(t - 1)
    BY <2>0
  <2>1. \A h \in 1..i : q[h] = j.chunks[h] /\ h \in 1..t
    BY <1>2, <2>5
  <2>2. i \in 1..i /\ (i # 1 => i - 1 \in 1..i)
    BY <2>0
  <2>3. \A n \in (q[i].start + 1)..N : \E h \in 1..i : q[h].start < n /\ n <= q[h].end
    BY <1>4, <2>1, <2>2
  <2>4. q[i].end = IF i = 1 THEN N ELSE q[i - 1].start
    BY <1>4, <2>1, <2>2
  <2> QED
    BY <1>4, <2>1, <2>2, <2>3, <2>4
<1>6. k.cut = IF k.chunks = <<>> THEN N ELSE Last(k.chunks).start
  <2>1. CASE t = 1
    <3>1. q = <<>>
      BY <1>1, <1>2, <2>1
    <3> QED
      BY <1>1, <1>3, <1>4, <2>1, <3>1
  <2>2. CASE t # 1
    <3>1. q # <<>> /\ t - 1 \in 1..(t - 1)
      BY <1>1, <1>2, <2>2
    <3>2. Last(q) = j.chunks[t - 1]
      BY <1>2, <3>1 DEF Last
    <3> QED
      BY <1>1, <1>3, <1>4, <2>2, <3>1, <3>2
  <2> QED
    BY <2>1, <2>2
<1>7. Chain(k)
  <2>1. DOMAIN k.chunks = 1..(t - 1)
    BY <1>2, <1>3
  <2> DEFINE Links(x) == \A i \in 1..(t - 1) :
              /\ HeadEnd <= x[i].start
              /\ x[i].start < x[i].end
              /\ x[i].start + i <= N
              /\ x[i].end = IF i = 1 THEN N ELSE x[i - 1].start
              /\ \A n \in (x[i].start + 1)..N :
                   \E h \in 1..i : x[h].start < n /\ n <= x[h].end
  <2>2. Links(k.chunks)
    <3>1. Links(q)
      BY <1>5, Zenon
    <3> HIDE DEF Links
    <3> QED
      BY <3>1, <1>3
  <2> QED
    BY <1>6, <2>1, <2>2, Zenon DEF Chain
<1> QED
  BY <1>2, <1>3, <1>7 DEF t

-----------------------------------------------------------------------------
(* What a step that leaves the files alone keeps.                           *)

\* The decision of the filter never changes.
LEMMA SameSide ==
    ASSUME side' = side
    PROVE  /\ \A a, b, s : Offsets(a, b, s)' = Offsets(a, b, s)
           /\ HeadSide' = HeadSide /\ HeadEnd' = HeadEnd
           /\ \A s : Expected(s)' = Expected(s)
<1>1. \A a, b, s : Offsets(a, b, s)' = Offsets(a, b, s)
  BY DEF Offsets
<1>2. HeadSide' = HeadSide
  BY DEF HeadSide
<1>3. HeadEnd' = HeadEnd
  BY <1>2 DEF HeadEnd
<1> QED
  BY <1>1, <1>2, <1>3 DEF Expected

\* Nor do the chunks a journal counts.
LEMMA SameChain == ASSUME side' = side, NEW j PROVE Chain(j)' <=> Chain(j)
  BY SameSide DEF Chain

\* Parts that were left alone are held as before.
LEMMA SameHeld == ASSUME side' = side, parts' = parts, NEW j PROVE Held(j)' <=> Held(j)
  BY SameSide DEF Held

\* Fresh says nothing of the files.
LEMMA SameFresh == ASSUME NEW j PROVE Fresh(j)' <=> Fresh(j)
  BY DEF Fresh

\* Outputs that were left alone have grown as far as before.
LEMMA SameGrown ==
    ASSUME side' = side, NEW j, NEW s, out'[s] = out[s] PROVE Grown(j, s)' <=> Grown(j, s)
  BY SameSide DEF Grown, Bound

\* What a restart would find stays so.
LEMMA Restful ==
    ASSUME Durable, side' = side, original' = original, out' = out, parts' = parts, disk' = disk
    PROVE  Durable'
<1>1. Intact' <=> Intact
  BY DEF Intact, Untouched
<1>2. Delivered' <=> Delivered
  BY SameSide DEF Delivered
<1>3. Stray' <=> Stray
  BY SameSide DEF Stray
<1>4. Cutting' <=> Cutting
  BY <1>3, SameChain, SameHeld, SameFresh DEF Cutting, Untouched
<1>5. Assembling' <=> Assembling
  BY SameSide, SameChain, SameHeld, SameFresh, SameGrown DEF Assembling, Untouched
<1> QED
  BY <1>1, <1>2, <1>4, <1>5 DEF Durable

\* A journal in memory stays as far ahead of the one on disk.
LEMMA AheadRests ==
    ASSUME Ahead, side' = side, parts' = parts, disk' = disk, journal' = journal
    PROVE  Ahead'
  BY SameChain, SameHeld, SameFresh DEF Ahead

\* Whether the original is whole, or its outputs are, is read off the files.
LEMMA SameEnds ==
    ASSUME side' = side, original' = original, out' = out
    PROVE  (Intact' <=> Intact) /\ (Delivered' <=> Delivered)
<1>1. Intact' <=> Intact
  BY DEF Intact, Untouched
<1>2. Delivered' <=> Delivered
  BY SameSide DEF Delivered
<1> QED
  BY <1>1, <1>2

-----------------------------------------------------------------------------
(* Every step keeps the invariant.                                          *)

\* What a run starts from, and leaves in memory, are values of their types.
LEMMA FreshValues ==
    /\ NoJournal \in Journals /\ NewJournal \in Journals
    /\ NoRequest.journal = NoJournal /\ NoRequest.kind = "none"
    /\ NothingOpen \in [Sides -> Files] /\ NoParts \in [1..N -> [Sides -> Files]]
    /\ Len(NoJournal.chunks) = 0 /\ Len(NewJournal.chunks) = 0
<1>1. NoJournal \in Journals /\ Len(NoJournal.chunks) = 0
  BY SizeAssumption DEF NoJournal, Journals
<1>2. NewJournal \in Journals /\ Len(NewJournal.chunks) = 0
  <2>1. N \in 0..N
    BY SizeAssumption
  <2> QED
    BY <1>1, <2>1 DEF NewJournal, NoJournal, Journals
<1>3. Missing \in Files
  BY DEF Files
<1> QED
  BY <1>1, <1>2, <1>3 DEF NoRequest, NothingOpen, NoParts

\* A call that fails is counted.
LEMMA FaultType == ASSUME TypeOK, Fault PROVE faults' \in 0..MaxFaults
  BY CrashAssumption DEF TypeOK, Fault

\* A pass that fails leaves the decision to be discarded.
LEMMA DecideFailsKeeps == ASSUME IInv, OneAtATime, DecideFails PROVE IInv'
<1>1. TypeOK'
  <2>1. faults' \in 0..MaxFaults
    BY FaultType DEF IInv, DecideFails, TypeOK
  <2> QED
    BY <2>1 DEF IInv, TypeOK, DecideFails, Goto, files
<1>2. Durable'
  BY Restful DEF IInv, DecideFails, files
<1>3. Session'
  BY DEF IInv, Session, DecideFails, Goto, files, NoRequest
<1>4. Running'
  BY DEF IInv, Running, DecideFails, Goto, files
<1> QED
  BY <1>1, <1>2, <1>3, <1>4 DEF IInv

\* An original of another length is not cut further.
LEMMA CarveRefusedKeeps == ASSUME IInv, OneAtATime, CarveRefused PROVE IInv'
<1>1. TypeOK'
  BY DEF IInv, TypeOK, CarveRefused, Goto, files, budget
<1>2. Durable'
  BY Restful DEF IInv, CarveRefused, files
<1>3. Session'
  BY DEF IInv, Session, CarveRefused, Goto, files
<1>4. Running'
  BY DEF IInv, Running, CarveRefused, Goto, files, budget
<1> QED
  BY <1>1, <1>2, <1>3, <1>4 DEF IInv

\* A run that stops cutting undoes with the journal it has in memory.
LEMMA CarveStopsKeeps == ASSUME IInv, OneAtATime, CarveStops PROVE IInv'
<1>1. TypeOK'
  <2>1. faults' \in 0..MaxFaults
    BY FaultType DEF IInv, CarveStops, TypeOK
  <2> QED
    BY <2>1 DEF IInv, TypeOK, CarveStops, Carving, files
<1>2. Durable'
  BY Restful DEF IInv, CarveStops, files
<1>3. Session'
  BY DEF IInv, Session, CarveStops, Carving, files
<1>4. Running'
  <2>1. Ahead => Ahead'
    BY AheadRests DEF CarveStops, files
  <2>2. pc = "record" => faults' > 0
    BY DEF CarveStops, Carving, Fault, IInv, TypeOK
  <2> QED
    BY <2>1, <2>2 DEF IInv, Running, CarveStops, Carving, files
<1> QED
  BY <1>1, <1>2, <1>3, <1>4 DEF IInv

\* Only the leading run is left.
LEMMA CarveDoneKeeps == ASSUME IInv, OneAtATime, CarveDone PROVE IInv'
<1>1. TypeOK'
  BY DEF IInv, TypeOK, CarveDone, Goto, files, budget
<1>2. Durable'
  BY Restful DEF IInv, CarveDone, files
<1>3. Session'
  BY DEF IInv, Session, CarveDone, Goto, files
<1>4. Running'
  <2>1. disk.cut = HeadEnd /\ Len(original) = HeadEnd
    <3>1. journal = disk /\ Len(original) = disk.cut /\ disk.cut <= HeadEnd /\ Chain(disk) /\ disk \in Journals
          /\ side \in [1..N -> BOOLEAN]
      BY DEF IInv, TypeOK, Running, Durable, Cutting, CarveDone, Goto
    <3>2. disk.cut \in HeadEnd..N /\ HeadEnd \in 0..N
      BY <3>1, ChainCut, HeadIs
    <3> HIDE DEF HeadEnd
    <3> QED
      BY <3>1, <3>2, SizeAssumption
  <2>2. HeadEnd' = HeadEnd
    BY SameSide DEF CarveDone
  <2> HIDE DEF HeadEnd
  <2> QED
    BY <2>1, <2>2 DEF IInv, Running, CarveDone, Goto, files
<1> QED
  BY <1>1, <1>2, <1>3, <1>4 DEF IInv

\* The parts of the last chunk are opened.
LEMMA PutBackOpenKeeps == ASSUME IInv, OneAtATime, PutBackOpen PROVE IInv'
<1>0. /\ journal \in Journals /\ journal.chunks # <<>> /\ Chain(journal) /\ Held(journal) /\ Fresh(journal)
      /\ Len(original) = journal.cut
  BY DEF IInv, TypeOK, Running, Durable, Cutting, Ahead, PutBackOpen, Goto
<1>1. LastChunk.start = journal.cut /\ journal.cut \in Nat /\ journal.cut <= LastChunk.end
  <2>1. Len(journal.chunks) \in 1..Len(journal.chunks) /\ LastChunk = journal.chunks[Len(journal.chunks)]
    BY <1>0, ChunkValues DEF LastChunk
  <2>2. LastChunk.start \in Nat /\ LastChunk.end \in LastChunk.start..N
    BY <1>0, <2>1, ChainChunk DEF IInv, TypeOK
  <2> QED
    BY <1>0, <2>2, SizeAssumption DEF Chain, LastChunk
<1>2. /\ LastParts \in [Sides -> Files]
      /\ \A s \in Sides : LastParts[s] = Offsets(LastChunk.start, LastChunk.end, s)
  <2>1. /\ Len(journal.chunks) \in 1..N /\ Len(journal.chunks) \in DOMAIN journal.chunks
        /\ LastChunk = journal.chunks[Len(journal.chunks)]
    BY <1>0, ChunkValues, ChainChunk DEF LastChunk, IInv, TypeOK
  <2>2. \A s \in Sides : journal.done[s] = 0 /\ Len(journal.chunks) + 0 <= Len(journal.chunks)
    BY <1>0, ChunkValues DEF Fresh
  <2> QED
    BY <1>0, <2>1, <2>2 DEF Held, LastParts, IInv, TypeOK
<1>3. TypeOK'
  BY <1>2 DEF IInv, TypeOK, PutBackOpen, Goto, files, budget
<1>4. Durable'
  BY Restful DEF IInv, PutBackOpen, files
<1>5. Session'
  BY DEF IInv, Session, PutBackOpen, Goto, files
<1>6. Running'
  <2>1. Ahead => Ahead'
    BY AheadRests DEF PutBackOpen, files
  <2>2. LastChunk' = LastChunk /\ \A s \in Sides : reading'[s] = Offsets(LastChunk.start, LastChunk.end, s)'
    BY <1>2, SameSide DEF PutBackOpen, LastChunk
  <2>3. /\ journal.chunks' # <<>>
        /\ LastChunk'.start <= Len(original') /\ Len(original') <= LastChunk'.end
        /\ \A s \in Sides : reading'[s] = Offsets(LastChunk.start, LastChunk.end, s)'
    BY <1>0, <1>1, <2>2 DEF PutBackOpen, files
  <2> QED
    BY <2>1, <2>2, <2>3 DEF IInv, Running, PutBackOpen, Goto, files, budget
<1> QED
  BY <1>3, <1>4, <1>5, <1>6 DEF IInv

\* Everything is put back.
LEMMA UndoDoneKeeps == ASSUME IInv, OneAtATime, UndoDone PROVE IInv'
<1>0. journal = disk /\ disk.phase = "carve" /\ disk.chunks = <<>> /\ original = Whole
  <2>1. /\ disk.phase = "carve" /\ journal.chunks = <<>> /\ Len(original) = journal.cut
        /\ journal = disk /\ Cutting
    BY DEF IInv, Running, Durable, Ahead, UndoDone, Goto
  <2>2. disk.cut = N /\ original = Prefix(Len(original))
    BY <2>1 DEF Cutting, Chain
  <2> QED
    BY <2>1, <2>2 DEF Whole, Prefix
<1>1. TypeOK'
  BY DEF IInv, TypeOK, UndoDone, Goto, files, budget
<1>2. Durable'
  BY Restful DEF IInv, UndoDone, files
<1>3. Session'
  BY DEF IInv, Session, UndoDone, Goto, files
<1>4. Running'
  BY <1>0 DEF Running, UndoDone, Goto, files, Whole
<1> QED
  BY <1>1, <1>2, <1>3, <1>4 DEF IInv

\* A run that gives up leaves what it found.
LEMMA UndoFailsKeeps == ASSUME IInv, OneAtATime, UndoFails PROVE IInv'
<1>0. pc # "idle"
  BY DEF UndoFails, PutBackUnreadable
<1>1. TypeOK'
  <2>1. faults' \in 0..MaxFaults
    BY FaultType DEF IInv, UndoFails, TypeOK
  <2> QED
    BY <2>1, FreshValues DEF IInv, TypeOK, UndoFails, Report, files
<1>2. Durable'
  BY Restful DEF IInv, UndoFails, files
<1>3. Session'
  BY <1>0 DEF IInv, Session, UndoFails, Report, files
<1>4. Running'
  BY DEF Running, UndoFails, Report
<1> QED
  BY <1>1, <1>2, <1>3, <1>4 DEF IInv

\* So does one that fails while it assembles.
LEMMA AssembleFailsKeeps == ASSUME IInv, OneAtATime, AssembleFails PROVE IInv'
<1>0. pc # "idle"
  BY DEF AssembleFails, AppendUnreadable
<1>1. TypeOK'
  <2>1. faults' \in 0..MaxFaults
    BY FaultType DEF IInv, AssembleFails, TypeOK
  <2> QED
    BY <2>1, FreshValues DEF IInv, TypeOK, AssembleFails, Report, files
<1>2. Durable'
  BY Restful DEF IInv, AssembleFails, files
<1>3. Session'
  BY <1>0 DEF IInv, Session, AssembleFails, Report, files
<1>4. Running'
  BY DEF Running, AssembleFails, Report
<1> QED
  BY <1>1, <1>2, <1>3, <1>4 DEF IInv

\* An original that already is its output goes on to the parts.
LEMMA AlreadyRenamedKeeps == ASSUME IInv, OneAtATime, AlreadyRenamed PROVE IInv'
<1>1. TypeOK'
  BY DEF IInv, TypeOK, AlreadyRenamed, Goto, files, budget
<1>2. Durable'
  BY Restful DEF IInv, AlreadyRenamed, files
<1>3. Session'
  BY DEF IInv, Session, AlreadyRenamed, Goto, files
<1>4. Running'
  BY DEF IInv, Running, AlreadyRenamed, Goto, files, budget
<1> QED
  BY <1>1, <1>2, <1>3, <1>4 DEF IInv

\* Both outputs have everything.
LEMMA AssembleDoneKeeps == ASSUME IInv, OneAtATime, AssembleDone PROVE IInv'
<1>0. /\ journal = disk /\ disk.phase = "assemble" /\ disk.renamed
      /\ \A s \in Sides : disk.created[s] /\ disk.done[s] = Len(disk.chunks)
  <2>1. /\ journal = disk /\ disk.phase = "assemble" /\ disk.renamed /\ disk.created[HeadSide]
        /\ \A s \in Sides : disk.done[s] <= Len(disk.chunks)
        /\ disk \in Journals
    BY DEF IInv, TypeOK, Running, Durable, Assembling, Grown, AssembleDone, Goto
  <2>2. journal.created[Current] /\ journal.done[Current] = Total
    BY DEF AssembleDone
  <2>3. HeadSide \in Sides /\ Other(HeadSide) # HeadSide /\ \A s \in Sides : s = HeadSide \/ s = Other(HeadSide)
    BY HeadIs DEF IInv, TypeOK
  <2>4. Current = Other(HeadSide) /\ disk.done[HeadSide] = Len(disk.chunks)
    <3>1. \A s \in Sides : disk.done[s] \in 0..N /\ Len(disk.chunks) \in Nat
      BY <2>1, ChunkValues
    <3> HIDE DEF HeadSide
    <3>2. ~(disk.done[HeadSide] < Len(disk.chunks))
      BY <2>1, <2>2, <2>3, <3>1, SizeAssumption DEF Current, Total
    <3> QED
      BY <2>1, <2>3, <3>1, <3>2, SizeAssumption DEF Current, Total
  <2> HIDE DEF HeadSide
  <2> QED
    BY <2>1, <2>2, <2>3, <2>4 DEF Total
<1>1. TypeOK'
  BY DEF IInv, TypeOK, AssembleDone, Goto, files, budget
<1>2. Durable'
  BY Restful DEF IInv, AssembleDone, files
<1>3. Session'
  BY DEF IInv, Session, AssembleDone, Goto, files
<1>4. Running'
  BY <1>0 DEF Running, AssembleDone, Goto, files
<1> QED
  BY <1>1, <1>2, <1>3, <1>4 DEF IInv

\* A recovery loads the journal that is on disk.
LEMMA RecoverLoadKeeps == ASSUME IInv, OneAtATime, RecoverLoad PROVE IInv'
<1>0. pc = "idle" /\ disk.phase \in {"carve", "assemble"} /\ disk \in Journals /\ request' # NoRequest
      /\ request'.journal = disk /\ request'.kind \in {"finish", "undo"}
  <2>1. pc = "idle" /\ disk.phase # "decide" /\ disk # NoJournal /\ disk \in Journals
    BY DEF IInv, TypeOK, Session, RecoverLoad, OneAtATime
  <2>2. disk.phase \in {"carve", "assemble"}
    BY <2>1 DEF IInv, Durable, Journals
  <2>3. request'.journal = disk /\ request'.kind \in {"finish", "undo"}
    BY DEF RecoverLoad
  <2> QED
    BY <2>1, <2>2, <2>3 DEF NoRequest
<1>1. TypeOK'
  BY <1>0 DEF IInv, TypeOK, RecoverLoad, files, budget
<1>2. Durable'
  BY Restful DEF IInv, RecoverLoad, files
<1>3. Session'
  BY <1>0, SameEnds DEF IInv, Session, RecoverLoad, files
<1>4. Running'
  BY <1>0 DEF Running, RecoverLoad
<1> QED
  BY <1>1, <1>2, <1>3, <1>4 DEF IInv

\* It claims the original, and goes on from that journal.
LEMMA RecoverClaimKeeps == ASSUME IInv, OneAtATime, RecoverClaim PROVE IInv'
<1>0. /\ request.journal = disk /\ disk.phase \in {"carve", "assemble"} /\ request' = NoRequest
      /\ UNCHANGED <<side, files, disk, listing, listed, crashes>>
  BY DEF IInv, Session, RecoverClaim
<1>1. \/ Report("failed")
      \/ /\ journal' = disk /\ reading' = reading /\ result' = "none"
         /\ \/ pc' = "rename" /\ disk.phase = "assemble"
            \/ pc' \in {"undo", "carveOpen"} /\ disk.phase = "carve"
  BY <1>0 DEF RecoverClaim
<1>2. faults' \in 0..MaxFaults
  BY FaultType DEF IInv, RecoverClaim, NoFault, TypeOK
<1>3. TypeOK'
  BY <1>0, <1>1, <1>2, FreshValues DEF IInv, TypeOK, Report, files, NoRequest
<1>4. Durable'
  BY <1>0, Restful DEF IInv, files
<1>5. Session'
  BY <1>0, <1>1, SameEnds DEF IInv, Session, RecoverClaim, Report, files
<1>6. Running'
  BY <1>0, <1>1 DEF Running, Report
<1> QED
  BY <1>3, <1>4, <1>5, <1>6 DEF IInv

\* An original that is busy is not claimed.
LEMMA RecoverRefusedKeeps == ASSUME IInv, OneAtATime, RecoverRefused PROVE IInv'
  BY DEF IInv, Session, RecoverRefused

\* The list notes whether a run is at the original.
LEMMA ListSnapshotKeeps == ASSUME IInv, OneAtATime, ListSnapshot PROVE IInv'
<1>0. pc = "idle" /\ request = NoRequest
  BY DEF ListSnapshot, OneAtATime
<1>1. TypeOK'
  BY DEF IInv, TypeOK, ListSnapshot, files, budget
<1>2. Durable'
  BY Restful DEF IInv, ListSnapshot, files
<1>3. Session'
  BY <1>0, SameEnds DEF IInv, Session, ListSnapshot, files
<1>4. Running'
  BY <1>0 DEF Running, ListSnapshot
<1> QED
  BY <1>1, <1>2, <1>3, <1>4 DEF IInv

\* It loads the journal.
LEMMA ListLoadKeeps == ASSUME IInv, OneAtATime, ListLoad PROVE IInv'
<1>1. TypeOK'
  BY DEF IInv, TypeOK, ListLoad, files, budget
<1>2. Durable'
  BY Restful DEF IInv, ListLoad, files
<1>3. Session'
  BY SameEnds DEF IInv, Session, ListLoad, files
<1>4. Running'
  <2>1. Ahead => Ahead'
    BY AheadRests DEF ListLoad, files
  <2>2. HeadSide' = HeadSide /\ HeadEnd' = HeadEnd /\ (\A a, b, s : Offsets(a, b, s)' = Offsets(a, b, s))
    BY SameSide DEF ListLoad
  <2>3. /\ Current' = Current /\ LastChunk' = LastChunk /\ Total' = Total
        /\ NextPart' = NextPart
    BY <2>2 DEF ListLoad, Current, LastChunk, Total, NextPart
  <2> HIDE DEF HeadSide, HeadEnd, Current, LastChunk, Total, NextPart, Offsets
  <2> QED
    BY <2>1, <2>2, <2>3 DEF IInv, Running, ListLoad, files, budget
<1> QED
  BY <1>1, <1>2, <1>3, <1>4 DEF IInv

\* A kill leaves the disk as it is.
LEMMA CrashKeeps == ASSUME IInv, OneAtATime, Crash PROVE IInv'
<1>1. TypeOK'
  <2>1. crashes' \in 0..MaxCrashes
    BY CrashAssumption DEF IInv, TypeOK, Crash
  <2> QED
    BY <2>1, FreshValues DEF IInv, TypeOK, Crash, files
<1>2. Durable'
  BY Restful DEF IInv, Crash, files
<1>3. Session'
  BY DEF Session, Crash
<1>4. Running'
  BY DEF Running, Crash
<1> QED
  BY <1>1, <1>2, <1>3, <1>4 DEF IInv

\* A whole original exists, and has every byte.
LEMMA WholeIs == Whole = Prefix(N) /\ Whole \in Seq(0..N) /\ Len(Whole) = N /\ Whole # Missing
<1>1. Whole = Prefix(N) /\ N \in Nat
  BY SizeAssumption DEF Whole, Prefix
<1> QED
  BY <1>1, PrefixIs, MissingAssumption

\* A run starts on an original that is whole.
LEMMA StartKeeps == ASSUME IInv, OneAtATime, Start PROVE IInv'
<1>0. Intact /\ listing = "none" /\ request = NoRequest
  <2>1. disk.phase = "none" /\ original = Whole /\ original # Missing
    BY WholeIs DEF Start, NoJournal
  <2> QED
    BY <2>1 DEF IInv, Durable, Delivered, Start, OneAtATime
<1>1. TypeOK'
  BY FreshValues DEF IInv, TypeOK, Start, Goto, Save, budget
<1>2. Intact' /\ disk' = NewJournal /\ disk'.phase = "decide"
  BY <1>0, SameEnds DEF Start, Save, NewJournal, NoJournal
<1>3. Durable'
  BY <1>2 DEF Durable
<1>4. Session'
  BY <1>0 DEF Session, Start, Goto
<1>5. Running'
  BY <1>2 DEF Running, Start, Goto, Save
<1> QED
  BY <1>1, <1>3, <1>4, <1>5 DEF IInv

\* The decision is complete: nothing is cut yet.
LEMMA DecideDoneKeeps == ASSUME IInv, OneAtATime, DecideDone PROVE IInv'
<1>0. journal = disk /\ disk = NewJournal /\ Intact /\ listing = "none" /\ request = NoRequest /\ result = "none"
  BY DEF IInv, Running, Durable, Session, DecideDone, Goto
<1>1. /\ disk' = [NewJournal EXCEPT !.phase = "carve"] /\ disk' \in Journals
      /\ disk'.phase = "carve" /\ disk'.cut = N /\ disk'.chunks = <<>> /\ ~disk'.renamed
      /\ \A s \in Sides : disk'.done[s] = 0 /\ disk'.len[s] = 0 /\ ~disk'.created[s]
  <2>1. disk' = [NewJournal EXCEPT !.phase = "carve"]
    BY <1>0 DEF DecideDone, Save
  <2>2. disk' \in Journals
    BY <2>1, FreshValues DEF Journals
  <2> QED
    BY <2>1, <2>2 DEF NewJournal, NoJournal
<1>2. TypeOK'
  <2>1. disk' \in Journals /\ journal' = disk' /\ Len(disk'.chunks) <= N
    BY <1>1, SizeAssumption DEF DecideDone, Save
  <2> QED
    BY <2>1 DEF IInv, TypeOK, DecideDone, Goto, Save, budget
<1>3. Cutting'
  <2>1. Chain(disk)' /\ Held(disk)' /\ Fresh(disk)'
    BY <1>1 DEF Chain, Held, Fresh
  <2>2. Untouched' /\ original' = Whole
    BY <1>0 DEF Intact, Untouched, DecideDone
  <2>3. original' # Missing /\ Len(original') = N /\ original' = Prefix(Len(original')) /\ N \in Nat
    BY <2>2, WholeIs, SizeAssumption
  <2>4. original' = Prefix(Len(original))'
    BY <2>3 DEF Prefix
  <2> QED
    BY <1>1, <2>1, <2>2, <2>3, <2>4 DEF Cutting
<1>4. Durable'
  BY <1>1, <1>3 DEF Durable
<1>5. Session'
  BY <1>0, <1>1 DEF IInv, Session, DecideDone, Goto
<1>6. Running'
  BY <1>1 DEF Running, DecideDone, Goto, Save
<1> QED
  BY <1>2, <1>4, <1>5, <1>6 DEF IInv

\* The last chunk of a journal reaches from its cut to the one before.
LEMMA LastIs ==
    ASSUME side \in [1..N -> BOOLEAN], NEW j \in Journals, Chain(j), j.chunks # <<>>
    PROVE  /\ Last(j.chunks) = j.chunks[Len(j.chunks)] /\ Last(j.chunks).start = j.cut
           /\ Last(j.chunks).end \in 0..N /\ j.cut < Last(j.chunks).end
           /\ j.cut \in 0..N
           /\ Len(j.chunks) \in 1..N /\ Len(j.chunks) \in DOMAIN j.chunks
<1>1. /\ Last(j.chunks) = j.chunks[Len(j.chunks)] /\ Len(j.chunks) \in Nat /\ Len(j.chunks) > 0
      /\ DOMAIN j.chunks = 1..Len(j.chunks) /\ j.cut \in 0..N
      /\ \A i \in 1..Len(j.chunks) : j.chunks[i].end \in 0..N
  BY ChunkValues
<1>2. Len(j.chunks) \in 1..Len(j.chunks)
  BY <1>1
<1>3. j.chunks[Len(j.chunks)].start < j.chunks[Len(j.chunks)].end /\ Len(j.chunks) <= N
  BY <1>2, ChainChunk
<1>4. Last(j.chunks).start = j.cut
  BY DEF Chain
<1> QED
  BY <1>1, <1>2, <1>3, <1>4, SizeAssumption

\* A chunk is recorded before the original is cut.
LEMMA RecordKeeps == ASSUME IInv, OneAtATime, Record PROVE IInv'
<1>0. /\ disk.phase = "carve" /\ Cutting /\ Len(original) = disk.cut
      /\ Chain(journal) /\ Held(journal) /\ Fresh(journal) /\ journal.phase = "carve"
      /\ journal.chunks # <<>> /\ disk.cut = Last(journal.chunks).end
      /\ side \in [1..N -> BOOLEAN] /\ journal \in Journals /\ disk \in Journals
  BY DEF IInv, TypeOK, Running, Durable, Ahead, Record, Goto
<1>1. disk' = journal /\ journal' = journal
  BY DEF Record, Save
<1>2. Len(journal.chunks) <= N /\ ~(disk.cut < journal.cut)
  <2>1. journal.cut < disk.cut /\ journal.cut \in 0..N /\ disk.cut \in 0..N /\ Len(journal.chunks) \in 1..N
    BY <1>0, LastIs
  <2> QED
    BY <2>1, SizeAssumption
<1>3. TypeOK'
  BY <1>1, <1>2 DEF IInv, TypeOK, Record, Goto, files, budget
<1>4. Cutting'
  <2>1. Chain(disk)' /\ Held(disk)' /\ Fresh(disk)'
    <3>1. Chain(journal)' /\ Held(journal)' /\ Fresh(journal)'
      BY <1>0, SameSide DEF Record, files, Chain, Held, Fresh, Save
    <3> QED
      BY <1>1, <3>1 DEF Chain, Held, Fresh
  <2>2. UNCHANGED <<original, out>>
    BY DEF Record, files
  <2> QED
    BY <1>0, <1>1, <1>2, <2>1, <2>2 DEF Cutting, Untouched, Prefix
<1>5. Durable'
  BY <1>0, <1>1, <1>4 DEF Durable
<1>6. Session'
  BY <1>0, <1>1 DEF IInv, Session, Record, Goto
<1>7. Running'
  BY <1>0, <1>1 DEF Running, Record, Goto
<1> QED
  BY <1>3, <1>5, <1>6, <1>7 DEF IInv

\* A chunk that was put back is forgotten before its parts go.
LEMMA PutBackSavedKeeps == ASSUME IInv, OneAtATime, PutBackSaved PROVE IInv'
<1>0. /\ disk.phase = "carve" /\ Cutting
      /\ Chain(journal) /\ Held(journal) /\ Fresh(journal) /\ journal.phase = "carve"
      /\ journal.chunks # <<>> /\ Len(original) = Last(journal.chunks).end
      /\ side \in [1..N -> BOOLEAN] /\ journal \in Journals
  BY DEF IInv, TypeOK, Running, Durable, Cutting, Ahead, PutBackSaved, Goto, LastChunk
<1>k. PICK k : k = [journal EXCEPT !.chunks = Front(@), !.cut = Last(journal.chunks).end]
  OBVIOUS
<1>1. disk' = k /\ journal' = k
  BY <1>k DEF PutBackSaved, Save, LastChunk
<1>2. /\ k.phase = "carve" /\ k.cut = Len(original) /\ k.renamed = journal.renamed
      /\ k.done = journal.done /\ k.len = journal.len /\ k.created = journal.created
  BY <1>0, <1>k DEF Journals
<1>3. /\ Chain(k) /\ k \in Journals /\ Len(k.chunks) = Len(journal.chunks) - 1
      /\ \A i \in 1..Len(k.chunks) : k.chunks[i] = journal.chunks[i] /\ i \in 1..Len(journal.chunks)
  BY <1>0, <1>k, ChainShrinks
<1>4. /\ Len(journal.chunks) \in Nat /\ Len(journal.chunks) <= N /\ DOMAIN journal.chunks = 1..Len(journal.chunks)
      /\ DOMAIN k.chunks = 1..Len(k.chunks) /\ k.cut \in 0..N
      /\ \A s \in Sides : k.done[s] = 0
  <2>1. Len(journal.chunks) \in 1..N
    BY <1>0, LastIs
  <2> QED
    BY <1>0, <1>2, <1>3, <2>1, ChunkValues, SizeAssumption DEF Fresh
<1>5. TypeOK'
  <2>1. Len(k.chunks) <= N
    BY <1>3, <1>4, SizeAssumption
  <2> QED
    BY <1>1, <1>3, <2>1, FreshValues DEF IInv, TypeOK, PutBackSaved, Goto, files, budget
<1>6. Cutting'
  <2>1. Held(k)
    <3>1. ASSUME NEW i \in 1..Len(k.chunks), NEW s \in Sides
          PROVE  parts[i][s] = Offsets(k.chunks[i].start, k.chunks[i].end, s)
      <4>1. i \in DOMAIN journal.chunks /\ i + journal.done[s] <= Len(journal.chunks) /\ k.chunks[i] = journal.chunks[i]
        BY <1>2, <1>3, <1>4
      <4> QED
        BY <1>0, <4>1 DEF Held
    <3> QED
      BY <1>4, <3>1 DEF Held
  <2>2. Fresh(k)
    BY <1>0, <1>2 DEF Fresh
  <2>3. Chain(k)' /\ Held(k)' /\ Fresh(k)'
    BY <1>3, <2>1, <2>2, SameChain, SameHeld, SameFresh DEF PutBackSaved, files
  <2>4. Chain(disk)' /\ Held(disk)' /\ Fresh(disk)'
    BY <1>1, <2>3 DEF Chain, Held, Fresh
  <2>5. UNCHANGED <<original, out>>
    BY DEF PutBackSaved, files
  <2>6. ~(Len(original) < k.cut)
    BY <1>2, <1>4, SizeAssumption
  <2> QED
    BY <1>0, <1>1, <2>4, <2>5, <2>6 DEF Cutting, Untouched, Prefix
<1>7. Durable'
  BY <1>1, <1>2, <1>6 DEF Durable
<1>8. Session'
  BY <1>0, <1>1, <1>2 DEF IInv, Session, PutBackSaved, Goto
<1>9. Running'
  BY <1>1, <1>2 DEF Running, PutBackSaved, Goto, files
<1> QED
  BY <1>5, <1>7, <1>8, <1>9 DEF IInv

\* Where an output ends: at the leading run before its first part, and where
\* the next part begins after it took one.
LEMMA BoundIs ==
    ASSUME side \in [1..N -> BOOLEAN], NEW j \in Journals, Chain(j), NEW s \in Sides,
           j.done[s] <= Len(j.chunks)
    PROVE  /\ Bound(j, s) \in Bom..N
           /\ j.done[s] = 0 => Bound(j, s) = j.cut
           /\ j.done[s] < Len(j.chunks) =>
                LET i == Len(j.chunks) - j.done[s]
                IN  /\ i \in DOMAIN j.chunks /\ i \in 1..N
                    /\ Bound(j, s) = j.chunks[i].start
                    /\ j.chunks[i].start \in Bom..N /\ j.chunks[i].end \in j.chunks[i].start..N
                    /\ j.chunks[i].end = IF i = 1 THEN N ELSE j.chunks[i - 1].start
<1> DEFINE i == Len(j.chunks) - j.done[s]
<1>0. N \in Nat /\ Bom \in Nat /\ Bom <= N /\ HeadEnd \in Bom..N
  BY SizeAssumption, HeadIs
<1>1. /\ Len(j.chunks) \in Nat /\ j.done[s] \in Nat /\ DOMAIN j.chunks = 1..Len(j.chunks)
      /\ Last(j.chunks) = j.chunks[Len(j.chunks)] /\ (j.chunks # <<>> <=> Len(j.chunks) > 0)
  BY ChunkValues
<1>2. ASSUME NEW h \in 1..Len(j.chunks)
      PROVE  /\ j.chunks[h].start \in Bom..N /\ j.chunks[h].end \in j.chunks[h].start..N /\ h \in 1..N
             /\ j.chunks[h].end = IF h = 1 THEN N ELSE j.chunks[h - 1].start
  <2>1. /\ j.chunks[h].start \in HeadEnd..N /\ j.chunks[h].end \in j.chunks[h].start..N /\ h <= N
    BY ChainChunk
  <2>2. j.chunks[h].end = IF h = 1 THEN N ELSE j.chunks[h - 1].start
    BY <1>1 DEF Chain
  <2> HIDE DEF HeadEnd
  <2> QED
    BY <1>0, <1>1, <2>1, <2>2
<1>3. CASE i = 0
  <2>1. Bound(j, s) = N
    BY <1>3 DEF Bound
  <2>2. j.done[s] = Len(j.chunks)
    BY <1>1, <1>3
  <2>3. j.done[s] = 0 => j.cut = N
    BY <1>1, <2>2 DEF Chain
  <2> QED
    BY <1>0, <1>1, <2>1, <2>2, <2>3
<1>4. CASE i # 0
  <2>1. i \in 1..Len(j.chunks) /\ j.done[s] < Len(j.chunks)
    BY <1>1, <1>4
  <2>2. Bound(j, s) = j.chunks[i].start
    BY <1>4 DEF Bound
  <2>3. j.done[s] = 0 => i = Len(j.chunks) /\ j.cut = j.chunks[i].start
    BY <1>1, <2>1 DEF Chain
  <2> HIDE DEF i
  <2>4. /\ i \in DOMAIN j.chunks /\ i \in 1..N
        /\ j.chunks[i].start \in Bom..N /\ j.chunks[i].end \in j.chunks[i].start..N
        /\ j.chunks[i].end = IF i = 1 THEN N ELSE j.chunks[i - 1].start
    BY <1>1, <1>2, <2>1
  <2>5. Bound(j, s) \in Bom..N /\ (j.done[s] = 0 => Bound(j, s) = j.cut)
    BY <2>2, <2>3, <2>4
  <2> QED
    BY <2>2, <2>4, <2>5 DEF i
<1> QED
  BY <1>3, <1>4

\* The mark and the bytes of a side up to some place: no longer than to there.
LEMMA GrowthIs ==
    ASSUME NEW b \in Bom..N, NEW s
    PROVE  /\ BomBytes \o Offsets(Bom, b, s) \in Seq(0..N)
           /\ Len(BomBytes \o Offsets(Bom, b, s)) \in 0..N
           /\ Offsets(Bom, b, s) \in Seq(0..N) /\ BomBytes \in Seq(0..N) /\ Len(BomBytes) = Bom
<1>0. N \in Nat /\ Bom \in Nat /\ Bom <= N /\ Bom \in 0..N /\ b \in Nat /\ b <= N
  BY SizeAssumption
<1> DEFINE x == BomBytes
           y == Offsets(Bom, b, s)
<1>1. x \in Seq(0..N) /\ Len(x) = Bom
  BY <1>0 DEF BomBytes
<1>2. y \in Seq(0..N) /\ Len(y) <= b - Bom
  <2>1. y \in Seq((Bom + 1)..b) /\ Len(y) <= b - Bom
    BY <1>0, OffsetsType
  <2> HIDE DEF y
  <2> QED
    BY <1>0, <2>1
<1> HIDE DEF x, y
<1>3. x \o y \in Seq(0..N) /\ Len(x \o y) = Len(x) + Len(y) /\ Len(y) \in Nat
  BY <1>1, <1>2
<1>4. Len(x \o y) \in 0..N
  BY <1>0, <1>1, <1>2, <1>3
<1> QED
  BY <1>1, <1>2, <1>3, <1>4 DEF x, y

\* A sequence of some length is all of its beginning of that length.
LEMMA AllOfIt == ASSUME NEW K, NEW p \in Seq(K) PROVE SubSeq(p, 1, Len(p)) = p
  OBVIOUS

\* Only the leading run is left in the original: assembling begins.
LEMMA AssemblePhaseKeeps == ASSUME IInv, OneAtATime, AssemblePhase PROVE IInv'
<1>0. /\ journal = disk /\ disk.phase = "carve" /\ Cutting /\ disk.cut = HeadEnd /\ Len(original) = HeadEnd
      /\ disk \in Journals /\ Len(disk.chunks) <= N
  BY DEF IInv, TypeOK, Running, Durable, AssemblePhase, Goto
<1>k. PICK k : k = [disk EXCEPT !.phase = "assemble"]
  OBVIOUS
<1>1. disk' = k /\ journal' = k
  BY <1>0, <1>k DEF AssemblePhase, Save
<1>2. /\ k.phase = "assemble" /\ k.cut = disk.cut /\ k.renamed = disk.renamed /\ k.chunks = disk.chunks
      /\ k.done = disk.done /\ k.len = disk.len /\ k.created = disk.created /\ k \in Journals
  BY <1>0, <1>k DEF Journals
<1>3. TypeOK'
  BY <1>0, <1>1, <1>2 DEF IInv, TypeOK, AssemblePhase, Goto, files, budget
<1>4. Assembling'
  <2>1. Chain(k) /\ Held(k) /\ Fresh(k)
    BY <1>0, <1>2 DEF Cutting, Chain, Held, Fresh
  <2>2. Chain(k)' /\ Held(k)' /\ Fresh(k)'
    BY <2>1, SameChain, SameHeld, SameFresh DEF AssemblePhase, files
  <2>3. Chain(disk)' /\ Held(disk)' /\ Fresh(disk)'
    BY <1>1, <2>2 DEF Chain, Held, Fresh
  <2>4. UNCHANGED <<original, out>> /\ HeadEnd' = HeadEnd
    BY SameSide DEF AssemblePhase, files
  <2>5. original' = Prefix(HeadEnd)' /\ Untouched' /\ ~disk'.renamed
    BY <1>0, <1>1, <1>2, <2>4 DEF Cutting, Untouched, Prefix, Fresh
  <2> QED
    BY <1>0, <1>1, <1>2, <2>3, <2>4, <2>5 DEF Assembling
<1>5. Durable'
  BY <1>1, <1>2, <1>4 DEF Durable
<1>6. Session'
  BY <1>0, <1>1, <1>2 DEF IInv, Session, AssemblePhase, Goto
<1>7. Running'
  BY <1>1, <1>2 DEF Running, AssemblePhase, Goto
<1> QED
  BY <1>3, <1>5, <1>6, <1>7 DEF IInv

\* The rename of the original is recorded.
LEMMA RenameRecordedKeeps == ASSUME IInv, OneAtATime, RenameRecorded PROVE IInv'
<1>0. /\ journal = disk /\ disk.phase = "assemble" /\ Assembling /\ ~disk.renamed
      /\ original = Missing /\ out[HeadSide] = Prefix(HeadEnd)
      /\ disk \in Journals /\ Len(disk.chunks) <= N
      /\ side \in [1..N -> BOOLEAN]
  BY DEF IInv, TypeOK, Running, Durable, RenameRecorded, Goto
<1>k. PICK k : k = [disk EXCEPT !.renamed = TRUE, !.done[HeadSide] = 0,
                                !.len[HeadSide] = disk.cut, !.created[HeadSide] = TRUE]
  OBVIOUS
<1>1. disk' = k /\ journal' = k
  BY <1>0, <1>k DEF RenameRecorded, Save
<1>s. /\ HeadSide \in Sides /\ \A s \in Sides : s = HeadSide \/ s = Other(HeadSide)
      /\ HeadEnd \in Bom..N /\ HeadEnd \in 0..N /\ HeadEnd \in Nat
  <2>1. HeadSide \in Sides /\ (\A s \in Sides : s = HeadSide \/ s = Other(HeadSide))
        /\ HeadEnd \in Bom..N /\ HeadEnd \in 0..N
    BY <1>0, HeadIs
  <2> HIDE DEF HeadEnd
  <2> QED
    BY <2>1, SizeAssumption
<1>2. /\ k.phase = "assemble" /\ k.cut = disk.cut /\ k.renamed = TRUE /\ k.chunks = disk.chunks
      /\ k \in Journals
      /\ k.done[HeadSide] = 0 /\ k.len[HeadSide] = disk.cut /\ k.created[HeadSide]
      /\ \A s \in Sides : s # HeadSide =>
           k.done[s] = disk.done[s] /\ k.len[s] = disk.len[s] /\ k.created[s] = disk.created[s]
  <2>1. /\ k.phase = disk.phase /\ k.cut = disk.cut /\ k.renamed = TRUE /\ k.chunks = disk.chunks
        /\ k.done = [disk.done EXCEPT ![HeadSide] = 0]
        /\ k.len = [disk.len EXCEPT ![HeadSide] = disk.cut]
        /\ k.created = [disk.created EXCEPT ![HeadSide] = TRUE]
        /\ k = [phase |-> k.phase, cut |-> k.cut, chunks |-> k.chunks, renamed |-> k.renamed,
                done |-> k.done, len |-> k.len, created |-> k.created]
    BY <1>0, <1>k DEF Journals
  <2>2. /\ disk.done \in [Sides -> 0..N] /\ disk.len \in [Sides -> 0..N] /\ disk.created \in [Sides -> BOOLEAN]
        /\ disk.cut \in 0..N /\ 0 \in 0..N
    BY <1>0, SizeAssumption DEF Journals
  <2> HIDE DEF HeadSide, HeadEnd
  <2>3. /\ k.done \in [Sides -> 0..N] /\ k.len \in [Sides -> 0..N] /\ k.created \in [Sides -> BOOLEAN]
        /\ k.done[HeadSide] = 0 /\ k.len[HeadSide] = disk.cut /\ k.created[HeadSide]
        /\ \A s \in Sides : s # HeadSide =>
             k.done[s] = disk.done[s] /\ k.len[s] = disk.len[s] /\ k.created[s] = disk.created[s]
    BY <1>s, <2>1, <2>2
  <2>4. k \in Journals
    BY <1>0, <2>1, <2>3 DEF Journals
  <2> QED
    BY <1>0, <2>1, <2>3, <2>4
<1>3. TypeOK'
  BY <1>0, <1>1, <1>2 DEF IInv, TypeOK, RenameRecorded, Goto, files, budget
<1>4. Fresh(disk) /\ Chain(disk) /\ Held(disk) /\ disk.cut = HeadEnd
  BY <1>0 DEF Assembling
<1>5. \A s \in Sides : k.done[s] = 0
  BY <1>2, <1>4 DEF Fresh
<1>6. Chain(k) /\ Held(k)
  <2>1. Chain(k)
    BY <1>2, <1>4 DEF Chain
  <2>2. Held(k)
    BY <1>2, <1>4, <1>5 DEF Held, Fresh
  <2> QED
    BY <2>1, <2>2
<1>7. ASSUME NEW s \in Sides PROVE Grown(k, s)
  <2>1. CASE s = HeadSide
    <3>1. Len(k.chunks) \in Nat
      BY <1>2, ChunkValues
    <3>2. Bound(k, s) = HeadEnd
      BY <1>2, <1>4, <1>5, <1>6, <1>0, <3>1, BoundIs, ChunkValues
    <3>3. Prefix(HeadEnd) \in Seq(Nat) /\ Len(Prefix(HeadEnd)) = HeadEnd
      BY <1>s, PrefixIs
    <3>4. SubSeq(Prefix(HeadEnd), 1, HeadEnd) = Prefix(HeadEnd) /\ Prefix(HeadEnd) # Missing
      <4> HIDE DEF HeadEnd
      <4> QED
        BY <3>3, AllOfIt, MissingAssumption
    <3>5. Prefix(HeadEnd) = BomBytes \o Offsets(Bom, HeadEnd, HeadSide)
      BY <1>0, HeadPrefix
    <3> HIDE DEF HeadEnd, HeadSide
    <3>6. k.done[s] = 0 /\ k.created[s] /\ k.len[s] = HeadEnd /\ out[s] = Prefix(HeadEnd)
      BY <1>0, <1>2, <1>4, <2>1
    <3>7. SubSeq(out[s], 1, k.len[s]) = BomBytes \o Offsets(Bom, Bound(k, s), s)
      BY <2>1, <3>2, <3>4, <3>5, <3>6
    <3>8. Len(out[s]) = k.len[s] /\ k.len[s] <= Len(out[s]) /\ out[s] # Missing
      BY <1>s, <3>3, <3>4, <3>6
    <3> QED
      BY <3>1, <3>6, <3>7, <3>8 DEF Grown
  <2>2. CASE s # HeadSide
    <3>1. ~k.created[s] /\ k.done[s] = 0 /\ Len(k.chunks) \in Nat
      BY <1>2, <1>4, <2>2, ChunkValues DEF Fresh
    <3> QED
      BY <3>1 DEF Grown
  <2> QED
    BY <2>1, <2>2
<1>8. Assembling'
  <2>1. UNCHANGED <<side, original, out, parts>> /\ HeadEnd' = HeadEnd /\ HeadSide' = HeadSide
    BY SameSide DEF RenameRecorded, files
  <2>2. Chain(k)' /\ Held(k)' /\ \A s \in Sides : Grown(k, s)'
    BY <1>6, <1>7, <2>1, SameChain, SameHeld, SameGrown
  <2>3. Chain(disk)' /\ Held(disk)' /\ \A s \in Sides : Grown(disk, s)'
    BY <1>1, <2>2 DEF Chain, Held, Grown, Bound
  <2> HIDE DEF HeadEnd, HeadSide
  <2> QED
    BY <1>0, <1>1, <1>2, <1>4, <2>1, <2>3 DEF Assembling
<1>9. Durable'
  BY <1>1, <1>2, <1>8 DEF Durable
<1>10. Session'
  BY <1>0, <1>1, <1>2 DEF IInv, Session, RenameRecorded, Goto
<1>11. Running'
  BY <1>1, <1>2 DEF Running, RenameRecorded, Goto
<1> QED
  BY <1>3, <1>9, <1>10, <1>11 DEF IInv

\* The output the loop is at is one of the two; while assembling, the output of
\* the leading run exists and the other is begun when it has all its parts.
LEMMA CurrentIs ==
    ASSUME side \in [1..N -> BOOLEAN]
    PROVE  /\ Current \in Sides /\ HeadSide \in Sides
           /\ HeadEnd \in Bom..N /\ HeadEnd \in 0..N
BY HeadIs DEF Current

\* What is known while the parts are appended.
LEMMA AppendingIs ==
    ASSUME IInv, pc \in {"append", "created", "copy", "removePart"}
    PROVE  /\ journal = disk /\ disk.phase = "assemble" /\ disk.renamed /\ Assembling
           /\ disk \in Journals /\ Len(disk.chunks) <= N /\ Len(disk.chunks) \in Nat
           /\ side \in [1..N -> BOOLEAN]
           /\ original = Missing /\ disk.created[HeadSide]
           /\ Chain(disk) /\ Held(disk) /\ disk.cut = HeadEnd
           /\ \A s \in Sides : /\ Grown(disk, s) /\ disk.done[s] <= Len(disk.chunks)
                               /\ disk.done[s] \in 0..N /\ disk.len[s] \in 0..N /\ disk.created[s] \in BOOLEAN
           /\ Current \in Sides /\ HeadSide \in Sides /\ HeadEnd \in Bom..N /\ HeadEnd \in 0..N
<1>1. /\ journal = disk /\ disk.phase = "assemble" /\ disk.renamed /\ Assembling
      /\ disk \in Journals /\ Len(disk.chunks) <= N /\ side \in [1..N -> BOOLEAN]
  BY DEF IInv, TypeOK, Running, Durable
<1>2. /\ Len(disk.chunks) \in Nat
      /\ \A s \in Sides : disk.done[s] \in 0..N /\ disk.len[s] \in 0..N /\ disk.created[s] \in BOOLEAN
  BY <1>1, ChunkValues
<1> QED
  BY <1>1, <1>2, CurrentIs DEF Assembling, Grown

\* The journal counts the output it has just begun.
LEMMA CreateRecordedKeeps == ASSUME IInv, OneAtATime, CreateRecorded PROVE IInv'
<1>0. /\ journal = disk /\ disk.phase = "assemble" /\ disk.renamed
      /\ disk \in Journals /\ Len(disk.chunks) <= N /\ Len(disk.chunks) \in Nat
      /\ side \in [1..N -> BOOLEAN]
      /\ original = Missing /\ disk.created[HeadSide]
      /\ Chain(disk) /\ Held(disk) /\ disk.cut = HeadEnd
      /\ \A s \in Sides : /\ Grown(disk, s) /\ disk.done[s] <= Len(disk.chunks)
                          /\ disk.done[s] \in 0..N /\ disk.len[s] \in 0..N /\ disk.created[s] \in BOOLEAN
      /\ Current \in Sides /\ HeadSide \in Sides /\ HeadEnd \in Bom..N /\ HeadEnd \in 0..N
  BY AppendingIs DEF CreateRecorded, Goto
<1> DEFINE c == Current
<1>c. ~disk.created[c] /\ out[c] = BomBytes /\ disk.done[c] = 0 /\ c # HeadSide /\ c = Other(HeadSide) /\ c \in Sides
  <2>1. ~disk.created[c] /\ out[c] = BomBytes
    BY <1>0 DEF IInv, Running, CreateRecorded, Goto
  <2>2. disk.done[c] = 0
    BY <1>0, <2>1 DEF Grown
  <2> QED
    BY <1>0, <2>1, <2>2, HeadIs
<1>k. PICK k : k = [disk EXCEPT !.done[c] = 0, !.len[c] = Bom, !.created[c] = TRUE]
  OBVIOUS
<1>1. disk' = k /\ journal' = k
  BY <1>0, <1>k DEF CreateRecorded, Save
<1> HIDE DEF c
<1>2. /\ k.phase = "assemble" /\ k.cut = disk.cut /\ k.renamed = TRUE /\ k.chunks = disk.chunks
      /\ k \in Journals
      /\ k.done = disk.done /\ k.len[c] = Bom /\ k.created[c]
      /\ \A s \in Sides : s # c => k.len[s] = disk.len[s] /\ k.created[s] = disk.created[s]
  <2>1. /\ k.phase = disk.phase /\ k.cut = disk.cut /\ k.renamed = disk.renamed /\ k.chunks = disk.chunks
        /\ k.done = [disk.done EXCEPT ![c] = 0]
        /\ k.len = [disk.len EXCEPT ![c] = Bom]
        /\ k.created = [disk.created EXCEPT ![c] = TRUE]
        /\ k = [phase |-> k.phase, cut |-> k.cut, chunks |-> k.chunks, renamed |-> k.renamed,
                done |-> k.done, len |-> k.len, created |-> k.created]
    BY <1>0, <1>k DEF Journals
  <2>2. /\ disk.done \in [Sides -> 0..N] /\ disk.len \in [Sides -> 0..N] /\ disk.created \in [Sides -> BOOLEAN]
        /\ Bom \in 0..N
    BY <1>0, SizeAssumption DEF Journals
  <2>3. /\ k.done = disk.done /\ k.len \in [Sides -> 0..N] /\ k.created \in [Sides -> BOOLEAN]
        /\ k.len[c] = Bom /\ k.created[c]
        /\ \A s \in Sides : s # c => k.len[s] = disk.len[s] /\ k.created[s] = disk.created[s]
    BY <1>c, <2>1, <2>2
  <2>4. k \in Journals
    BY <1>0, <2>1, <2>2, <2>3 DEF Journals
  <2> QED
    BY <1>0, <2>1, <2>3, <2>4
<1>3. TypeOK'
  BY <1>0, <1>1, <1>2 DEF IInv, TypeOK, CreateRecorded, Goto, files, budget
<1>6. Chain(k) /\ Held(k)
  <2>1. Chain(k)
    BY <1>0, <1>2 DEF Chain
  <2>2. Held(k)
    BY <1>0, <1>2 DEF Held
  <2> QED
    BY <2>1, <2>2
<1>7. ASSUME NEW s \in Sides PROVE Grown(k, s)
  <2>1. CASE s = c
    <3>1. Bound(k, c) = HeadEnd
      BY <1>0, <1>2, <1>6, <1>c, BoundIs
    <3>2. BomBytes \in Seq(0..N) /\ Len(BomBytes) = Bom
          /\ BomBytes = BomBytes \o Offsets(Bom, HeadEnd, c)
      BY <1>0, <1>c, HeadPrefix
    <3>3. SubSeq(BomBytes, 1, Bom) = BomBytes /\ BomBytes # Missing
      <4>1. BomBytes \in Seq(Nat)
        BY <3>2, SizeAssumption DEF BomBytes
      <4> QED
        BY <3>2, <4>1, AllOfIt, MissingAssumption
    <3>4. out[c] = BomBytes /\ k.len[c] = Bom /\ k.done[c] = 0 /\ k.created[c] /\ Len(k.chunks) \in Nat
          /\ Bom \in Nat
      BY <1>0, <1>2, <1>c, SizeAssumption
    <3> HIDE DEF HeadEnd
    <3>5. SubSeq(out[c], 1, k.len[c]) = BomBytes \o Offsets(Bom, Bound(k, c), c)
      BY <3>1, <3>2, <3>3, <3>4
    <3>6. Len(out[c]) = k.len[c] /\ k.len[c] <= Len(out[c]) /\ out[c] # Missing
      BY <3>2, <3>3, <3>4
    <3> QED
      BY <2>1, <3>4, <3>5, <3>6 DEF Grown
  <2>2. CASE s # c
    <3>1. k.created[s] = disk.created[s] /\ k.len[s] = disk.len[s] /\ k.done[s] = disk.done[s] /\ k.chunks = disk.chunks
      BY <1>2, <2>2
    <3>2. Grown(disk, s)
      BY <1>0
    <3> QED
      BY <3>1, <3>2 DEF Grown, Bound
  <2> QED
    BY <2>1, <2>2
<1>8. Assembling'
  <2>1. UNCHANGED <<side, original, out, parts>> /\ HeadEnd' = HeadEnd /\ HeadSide' = HeadSide
    BY SameSide DEF CreateRecorded, files
  <2>2. Chain(k)' /\ Held(k)' /\ \A s \in Sides : Grown(k, s)'
    BY <1>6, <1>7, <2>1, SameChain, SameHeld, SameGrown
  <2>3. Chain(disk)' /\ Held(disk)' /\ \A s \in Sides : Grown(disk, s)'
    BY <1>1, <2>2 DEF Chain, Held, Grown, Bound
  <2> HIDE DEF HeadEnd, HeadSide
  <2>4. k.created[HeadSide]
    BY <1>0, <1>2, <1>c
  <2> QED
    BY <1>0, <1>1, <1>2, <2>1, <2>3, <2>4 DEF Assembling
<1>9. Durable'
  BY <1>1, <1>2, <1>8 DEF Durable
<1>10. Session'
  BY <1>0, <1>1, <1>2 DEF IInv, Session, CreateRecorded, Goto
<1>11. Running'
  BY <1>1, <1>2 DEF Running, CreateRecorded, Goto
<1> QED
  BY <1>3, <1>9, <1>10, <1>11 DEF IInv

\* A file that begins with one sequence and goes on with another is both.
LEMMA Continued ==
    ASSUME NEW K, NEW f \in Seq(K), NEW x \in Seq(K), NEW y \in Seq(K), NEW l \in Nat,
           l <= Len(f), SubSeq(f, 1, l) = x, Len(f) = l + Len(y),
           \A i \in 1..Len(y) : f[l + i] = y[i]
    PROVE  f = x \o y
<1>1. /\ Len(x) = l /\ \A i \in 1..l : x[i] = f[i]
  <2>1. l \in 0..Len(f)
    OBVIOUS
  <2> QED
    BY <2>1, Beginning
<1>2. /\ x \o y \in Seq(K) /\ Len(x \o y) = Len(x) + Len(y)
      /\ \A i \in 1..(Len(x) + Len(y)) :
            (x \o y)[i] = IF i <= Len(x) THEN x[i] ELSE y[i - Len(x)]
  BY ConcatProperties
<1>3. ASSUME NEW i \in 1..Len(f) PROVE f[i] = (x \o y)[i]
  <2>0. Len(f) \in Nat /\ Len(y) \in Nat
    OBVIOUS
  <2>1. CASE i <= l
    BY <1>1, <1>2, <2>0, <2>1
  <2>2. CASE ~(i <= l)
    <3>1. i - l \in 1..Len(y) /\ l + (i - l) = i
      BY <2>0, <2>2
    <3> QED
      BY <1>1, <1>2, <2>0, <2>2, <3>1
  <2> QED
    BY <2>1, <2>2
<1> QED
  BY <1>1, <1>2, <1>3, SeqEqual

\* A sequence of some values is one of more values.
LEMMA SeqWider == ASSUME NEW S, NEW T, S \subseteq T, NEW p \in Seq(S) PROVE p \in Seq(T)
<1>1. p = [i \in 1..Len(p) |-> p[i]] /\ Len(p) \in Nat /\ \A i \in 1..Len(p) : p[i] \in T
  BY ElementOfSeq
<1> QED
  BY <1>1

\* What is known of the part that is being appended.
LEMMA CopyingIs ==
    ASSUME IInv, pc = "copy"
    PROVE  LET c == Current
               i == Len(disk.chunks) - disk.done[c]
               b == disk.chunks[i].start
               e == disk.chunks[i].end
           IN  /\ c \in Sides /\ disk.created[c] /\ disk.done[c] < Len(disk.chunks)
               /\ i \in DOMAIN disk.chunks /\ i \in 1..N /\ NextPart = i /\ journal = disk
               /\ b \in Bom..N /\ e \in b..N /\ e = IF i = 1 THEN N ELSE disk.chunks[i - 1].start
               /\ Bound(disk, c) = b
               /\ reading[c] = Offsets(b, e, c) /\ reading[c] \in Seq(0..N)
               /\ NextLen = Len(reading[c])
               /\ out[c] \in Seq(0..N) /\ out[c] # Missing
               /\ disk.len[c] \in Nat /\ disk.len[c] <= Len(out[c])
               /\ SubSeq(out[c], 1, disk.len[c]) = BomBytes \o Offsets(Bom, b, c)
               /\ Len(out[c]) <= disk.len[c] + Len(reading[c])
               /\ \A k \in 1..(Len(out[c]) - disk.len[c]) : out[c][disk.len[c] + k] = reading[c][k]
<1> DEFINE c == Current
           i == Len(disk.chunks) - disk.done[c]
           b == disk.chunks[i].start
           e == disk.chunks[i].end
<1>1. /\ journal = disk /\ disk \in Journals /\ side \in [1..N -> BOOLEAN]
      /\ Chain(disk) /\ Grown(disk, c) /\ disk.done[c] <= Len(disk.chunks)
      /\ c \in Sides /\ disk.len[c] \in 0..N /\ out \in [Sides -> Files]
  BY AppendingIs DEF IInv, TypeOK
<1>2. /\ journal.created[c] /\ journal.done[c] < Total
      /\ reading[c] = Offsets(journal.chunks[NextPart].start, journal.chunks[NextPart].end, c)
      /\ Len(out[c]) <= journal.len[c] + Len(reading[c])
      /\ \A k \in 1..(Len(out[c]) - journal.len[c]) : out[c][journal.len[c] + k] = reading[c][k]
  BY DEF IInv, Running
<1>3. disk.done[c] < Len(disk.chunks) /\ NextPart = i
  BY <1>1, <1>2 DEF Total, NextPart
<1>4. /\ i \in DOMAIN disk.chunks /\ i \in 1..N
      /\ Bound(disk, c) = b /\ b \in Bom..N /\ e \in b..N
      /\ e = IF i = 1 THEN N ELSE disk.chunks[i - 1].start
  <2> HIDE DEF c
  <2> QED
    BY <1>1, <1>3, BoundIs
<1>5. reading[c] = Offsets(b, e, c) /\ NextLen = Len(reading[c])
  BY <1>1, <1>2, <1>3 DEF NextLen, ChunkLen
<1>6. reading[c] \in Seq(0..N)
  <2> HIDE DEF c, b, e
  <2>1. b \in 0..N /\ e \in b..N /\ e \in Nat /\ b \in Nat /\ N \in Nat
    BY <1>4, SizeAssumption, SMTT(30)
  <2>2. Offsets(b, e, c) \in Seq((b + 1)..e)
    BY <2>1, OffsetsType
  <2>3. (b + 1)..e \subseteq 0..N
    BY <2>1
  <2>4. Offsets(b, e, c) \in Seq(0..N)
    BY <2>2, <2>3, SeqWider
  <2> QED
    BY <1>5, <2>4
<1>7. /\ out[c] # Missing /\ disk.len[c] <= Len(out[c])
      /\ SubSeq(out[c], 1, disk.len[c]) = BomBytes \o Offsets(Bom, b, c)
  BY <1>1, <1>2, <1>4 DEF Grown
<1>8. out[c] \in Seq(0..N)
  BY <1>1, <1>7 DEF Files
<1>9. disk.len[c] \in Nat
  BY <1>1, SizeAssumption
<1> HIDE DEF c, b, e
<1>10. /\ Len(out[c]) <= disk.len[c] + Len(reading[c])
       /\ \A k \in 1..(Len(out[c]) - disk.len[c]) : out[c][disk.len[c] + k] = reading[c][k]
       /\ disk.created[c]
  BY <1>1, <1>2
<1> QED
  BY <1>1, <1>3, <1>4, <1>5, <1>6, <1>7, <1>8, <1>9, <1>10 DEF c, b, e

\* A part that was appended whole is counted, with the length of its output.
LEMMA AppendRecordedKeeps == ASSUME IInv, OneAtATime, AppendRecorded PROVE IInv'
<1>0. /\ journal = disk /\ disk.phase = "assemble" /\ disk.renamed
      /\ disk \in Journals /\ Len(disk.chunks) <= N /\ Len(disk.chunks) \in Nat
      /\ side \in [1..N -> BOOLEAN]
      /\ original = Missing /\ disk.created[HeadSide]
      /\ Chain(disk) /\ Held(disk) /\ disk.cut = HeadEnd
      /\ \A s \in Sides : /\ Grown(disk, s) /\ disk.done[s] <= Len(disk.chunks)
                          /\ disk.done[s] \in 0..N /\ disk.len[s] \in 0..N /\ disk.created[s] \in BOOLEAN
  BY AppendingIs DEF AppendRecorded, Goto
<1> DEFINE c == Current
           i == Len(disk.chunks) - disk.done[c]
           b == disk.chunks[i].start
           e == disk.chunks[i].end
           l == disk.len[c] + Len(reading[c])
<1>c. /\ c \in Sides /\ disk.created[c] /\ disk.done[c] < Len(disk.chunks)
      /\ i \in DOMAIN disk.chunks /\ i \in 1..N
      /\ b \in Bom..N /\ e \in b..N /\ e = IF i = 1 THEN N ELSE disk.chunks[i - 1].start
      /\ reading[c] = Offsets(b, e, c) /\ reading[c] \in Seq(0..N)
      /\ NextLen = Len(reading[c])
      /\ out[c] \in Seq(0..N) /\ out[c] # Missing
      /\ disk.len[c] \in Nat /\ disk.len[c] <= Len(out[c])
      /\ SubSeq(out[c], 1, disk.len[c]) = BomBytes \o Offsets(Bom, b, c)
      /\ \A k \in 1..(Len(out[c]) - disk.len[c]) : out[c][disk.len[c] + k] = reading[c][k]
  BY CopyingIs DEF AppendRecorded, Goto
<1>k. PICK k : k = [disk EXCEPT !.done[c] = disk.done[c] + 1, !.len[c] = l]
  OBVIOUS
<1>1. disk' = k /\ journal' = k /\ Len(out[c]) = l
  <2>1. NextLen = Len(reading[c])
    BY <1>c
  <2> HIDE DEF NextLen
  <2> QED
    BY <1>0, <1>k, <2>1 DEF AppendRecorded, Save
<1>d. /\ disk.done[c] \in Nat /\ disk.done[c] <= N /\ Len(disk.chunks) \in Nat /\ Len(disk.chunks) <= N
      /\ disk.done[c] < Len(disk.chunks) /\ i = Len(disk.chunks) - disk.done[c] /\ N \in Nat
  <2>1. \A s \in Sides : disk.done[s] \in 0..N
    BY <1>0
  <2>2. c \in Sides
    BY <1>c
  <2>3. disk.done[c] < Len(disk.chunks)
    BY <1>c
  <2>4. Len(disk.chunks) \in Nat /\ Len(disk.chunks) <= N
    BY <1>0
  <2> HIDE DEF c
  <2>5. disk.done[c] \in 0..N
    BY <2>1, <2>2
  <2> QED
    BY <2>3, <2>4, <2>5, SizeAssumption
<1> HIDE DEF c
\* The output is its bytes up to the end of the chunk.
<1>o. out[c] = BomBytes \o Offsets(Bom, e, c) /\ l \in 0..N /\ e \in Bom..N
  <2> HIDE DEF b, e
  <2>0. b \in Bom..N /\ e \in b..N
    BY <1>c, Zenon
  <2>1. N \in Nat /\ Bom \in Nat /\ Bom \in 0..N /\ b \in Bom..N /\ e \in b..N /\ e \in Bom..N
    BY <2>0, SizeAssumption
  <2>2. BomBytes \in Seq(0..N) /\ Offsets(Bom, b, c) \in Seq(0..N) /\ BomBytes \o Offsets(Bom, b, c) \in Seq(0..N)
    BY <2>1, GrowthIs
  <2>3. out[c] = (BomBytes \o Offsets(Bom, b, c)) \o reading[c]
    <3>1. Len(out[c]) - disk.len[c] = Len(reading[c]) /\ Len(out[c]) = disk.len[c] + Len(reading[c])
      BY <1>1, <1>c, SMTT(30)
    <3> DEFINE x == BomBytes \o Offsets(Bom, b, c)
               y == reading[c]
               f == out[c]
               n == disk.len[c]
               K == 0..N
    <3>2. x \in Seq(K) /\ y \in Seq(K) /\ f \in Seq(K) /\ n \in Nat /\ n <= Len(f) /\ SubSeq(f, 1, n) = x
      BY <1>c, <2>2
    <3>3. \A h \in 1..Len(y) : f[n + h] = y[h]
      BY <1>c, <3>1
    <3>5. Len(f) = n + Len(y)
      BY <3>1
    <3> HIDE DEF x, y, f, n, K
    <3>4. f = x \o y
      BY <3>2, <3>3, <3>5, Continued
    <3> QED
      BY <3>4 DEF x, y, f
  <2>4. Offsets(Bom, e, c) = Offsets(Bom, b, c) \o reading[c]
    <3>1. reading[c] = Offsets(b, e, c)
      BY <1>c
    <3>2. Offsets(Bom, e, c) = Offsets(Bom, b, c) \o Offsets(b, e, c)
      BY <2>1, OffsetsJoin
    <3> QED
      BY <3>1, <3>2
  <2>5. (BomBytes \o Offsets(Bom, b, c)) \o reading[c] = BomBytes \o (Offsets(Bom, b, c) \o reading[c])
    <3> DEFINE x == BomBytes
               y == Offsets(Bom, b, c)
               z == reading[c]
               K == 0..N
    <3>1. x \in Seq(K) /\ y \in Seq(K) /\ z \in Seq(K)
      BY <1>c, <2>2
    <3> HIDE DEF x, y, z, K
    <3>2. (x \o y) \o z = x \o (y \o z)
      BY <3>1
    <3> QED
      BY <3>2 DEF x, y, z
  <2>6. out[c] = BomBytes \o Offsets(Bom, e, c)
    BY <2>3, <2>4, <2>5
  <2> QED
    BY <1>1, <2>1, <2>6, GrowthIs
<1> HIDE DEF l, b, e, i
<1>2. /\ k.phase = "assemble" /\ k.cut = disk.cut /\ k.renamed = TRUE /\ k.chunks = disk.chunks
      /\ k \in Journals /\ k.created = disk.created
      /\ k.done[c] = disk.done[c] + 1 /\ k.len[c] = l
      /\ \A s \in Sides : s # c => k.len[s] = disk.len[s] /\ k.done[s] = disk.done[s]
  <2>1. /\ k.phase = disk.phase /\ k.cut = disk.cut /\ k.renamed = disk.renamed /\ k.chunks = disk.chunks
        /\ k.done = [disk.done EXCEPT ![c] = disk.done[c] + 1]
        /\ k.len = [disk.len EXCEPT ![c] = l]
        /\ k.created = disk.created
        /\ k = [phase |-> k.phase, cut |-> k.cut, chunks |-> k.chunks, renamed |-> k.renamed,
                done |-> k.done, len |-> k.len, created |-> k.created]
    BY <1>0, <1>k DEF Journals
  <2>2. /\ disk.done \in [Sides -> 0..N] /\ disk.len \in [Sides -> 0..N]
        /\ disk.done[c] + 1 \in 0..N
    <3>1. disk \in Journals
      BY <1>0
    <3>2. disk.done \in [Sides -> 0..N] /\ disk.len \in [Sides -> 0..N]
      BY <3>1 DEF Journals
    <3> QED
      BY <1>0, <1>d, <3>2
  <2>3. /\ k.done \in [Sides -> 0..N] /\ k.len \in [Sides -> 0..N]
        /\ k.done[c] = disk.done[c] + 1 /\ k.len[c] = l
        /\ \A s \in Sides : s # c => k.len[s] = disk.len[s] /\ k.done[s] = disk.done[s]
    <3>1. c \in Sides /\ l \in 0..N
      BY <1>c, <1>o
    <3> QED
      BY <2>1, <2>2, <3>1
  <2>4. k \in Journals
    BY <1>0, <2>1, <2>3 DEF Journals
  <2> QED
    BY <1>0, <2>1, <2>3, <2>4
<1>3. TypeOK'
  BY <1>0, <1>1, <1>2, FreshValues DEF IInv, TypeOK, AppendRecorded, Goto, files, budget
<1>6. Chain(k) /\ Held(k)
  <2>1. Chain(k)
    BY <1>0, <1>2 DEF Chain
  <2>2. Held(k)
    <3>1. ASSUME NEW h \in DOMAIN disk.chunks, NEW s \in Sides, h + k.done[s] <= Len(disk.chunks)
          PROVE  h + disk.done[s] <= Len(disk.chunks)
      <4>1. h \in Nat /\ disk.done[s] \in Nat /\ (k.done[s] = disk.done[s] \/ k.done[s] = disk.done[s] + 1)
        BY <1>0, <1>2, ChunkValues, SizeAssumption
      <4> QED
        BY <1>0, <3>1, <4>1
    <3> QED
      BY <1>0, <1>2, <3>1 DEF Held
  <2> QED
    BY <2>1, <2>2
<1>7. ASSUME NEW s \in Sides PROVE Grown(k, s)
  <2>1. CASE s = c
    <3>1. Len(k.chunks) - k.done[c] = i - 1 /\ k.done[c] <= Len(k.chunks) /\ i \in Nat
      BY <1>2, <1>d
    <3>2. Bound(k, c) = e
      <4>1. e = IF i = 1 THEN N ELSE disk.chunks[i - 1].start
        BY <1>c
      <4> QED
        BY <1>2, <3>1, <4>1 DEF Bound
    <3>3. SubSeq(out[c], 1, l) = out[c]
      BY <1>1, <1>c, AllOfIt
    <3>4. l <= Len(out[c])
      BY <1>1, <1>o, SizeAssumption
    <3>5. SubSeq(out[c], 1, k.len[c]) = BomBytes \o Offsets(Bom, Bound(k, c), c)
      BY <1>2, <1>o, <3>2, <3>3
    <3>6. k.created[c] /\ k.len[c] = l /\ Len(out[c]) = l /\ out[c] # Missing
      BY <1>1, <1>2, <1>c
    <3> QED
      BY <2>1, <3>1, <3>4, <3>5, <3>6 DEF Grown
  <2>2. CASE s # c
    <3>1. k.created[s] = disk.created[s] /\ k.len[s] = disk.len[s] /\ k.done[s] = disk.done[s] /\ k.chunks = disk.chunks
      BY <1>2, <2>2
    <3>2. Grown(disk, s)
      BY <1>0
    <3> QED
      BY <3>1, <3>2 DEF Grown, Bound
  <2> QED
    BY <2>1, <2>2
<1>8. Assembling'
  <2>1. UNCHANGED <<side, original, out, parts>> /\ HeadEnd' = HeadEnd /\ HeadSide' = HeadSide
    BY SameSide DEF AppendRecorded, files
  <2>2. Chain(k)' /\ Held(k)' /\ \A s \in Sides : Grown(k, s)'
    BY <1>6, <1>7, <2>1, SameChain, SameHeld, SameGrown
  <2>3. Chain(disk)' /\ Held(disk)' /\ \A s \in Sides : Grown(disk, s)'
    BY <1>1, <2>2 DEF Chain, Held, Grown, Bound
  <2> HIDE DEF HeadEnd, HeadSide
  <2> QED
    BY <1>0, <1>1, <1>2, <2>1, <2>3 DEF Assembling
<1>9. Durable'
  BY <1>1, <1>2, <1>8 DEF Durable
<1>10. Session'
  BY <1>0, <1>1, <1>2 DEF IInv, Session, AppendRecorded, Goto
<1>11. Running'
  BY <1>1, <1>2 DEF Running, AppendRecorded, Goto
<1> QED
  BY <1>3, <1>9, <1>10, <1>11 DEF IInv

\* Both outputs have every part.
AllAppended == disk.renamed /\ \A s \in Sides : disk.created[s] /\ disk.done[s] = Len(disk.chunks)

\* A journal that counts every part says the outputs are complete.
LEMMA AppendedIs == ASSUME IInv, disk.phase = "assemble", AllAppended PROVE Delivered
<1>1. /\ original = Missing /\ disk \in Journals /\ out \in [Sides -> Files]
      /\ \A s \in Sides : Grown(disk, s) /\ disk.created[s] /\ disk.done[s] = Len(disk.chunks)
      /\ Len(disk.chunks) \in Nat
  BY ChunkValues DEF IInv, TypeOK, Durable, Assembling, AllAppended
<1>2. ASSUME NEW s \in Sides PROVE out[s] = Expected(s)
  <2>1. Bound(disk, s) = N
    BY <1>1 DEF Bound
  <2>2. out[s] # Missing /\ SubSeq(out[s], 1, disk.len[s]) = BomBytes \o Offsets(Bom, N, s)
        /\ Len(out[s]) = disk.len[s]
    BY <1>1, <2>1 DEF Grown
  <2>3. out[s] \in Seq(0..N)
    BY <1>1, <2>2 DEF Files
  <2>4. SubSeq(out[s], 1, Len(out[s])) = out[s]
    BY <2>3, AllOfIt
  <2> QED
    BY <2>2, <2>4 DEF Expected
<1> QED
  BY <1>1, <1>2 DEF Delivered

\* A journal is discarded when nothing is left to do: the original is as it
\* was, or the outputs have everything.
LEMMA Finished ==
    ASSUME IInv, pc \in {"discardWork", "discardJournal"}
    PROVE  /\ journal = disk
           /\ disk.phase \in {"decide", "carve"} => Intact
           /\ disk.phase = "assemble" => Delivered
           /\ disk.phase \in {"decide", "carve", "assemble"}
<1>1. /\ journal = disk
      /\ \/ disk.phase = "decide"
         \/ disk.phase = "carve" /\ disk.chunks = <<>> /\ original = Whole
         \/ /\ disk.phase = "assemble" /\ disk.renamed
            /\ \A s \in Sides : disk.created[s] /\ disk.done[s] = Len(disk.chunks)
  BY DEF IInv, Running
<1>2. disk.phase = "decide" => Intact
  BY DEF IInv, Durable
<1>3. disk.phase = "carve" => Intact
  BY <1>1 DEF IInv, Durable, Cutting, Intact
<1>4. disk.phase = "assemble" => Delivered
  BY <1>1, AppendedIs DEF AllAppended
<1> QED
  BY <1>1, <1>2, <1>3, <1>4

\* The journal goes last, and the run reports what it did.
LEMMA DiscardJournalKeeps == ASSUME IInv, OneAtATime, DiscardJournal PROVE IInv'
<1>0. /\ journal = disk /\ (disk.phase \in {"decide", "carve"} => Intact)
      /\ (disk.phase = "assemble" => Delivered) /\ disk.phase \in {"decide", "carve", "assemble"}
      /\ request = NoRequest /\ listing \notin {"discardWork", "discardJournal"}
      /\ UNCHANGED <<side, files, request, listing, listed, crashes>>
  BY Finished DEF DiscardJournal, IInv, Running, Session
<1>1. pc' = "idle" /\ (Intact' <=> Intact) /\ (Delivered' <=> Delivered)
  BY SameEnds DEF DiscardJournal, Report, files
<1>2. (disk' = NoJournal /\ disk'.phase = "none") \/ disk' = disk
  BY DEF DiscardJournal, DropJournal, NoJournal
<1>3. TypeOK'
  <2>1. result' \in {"success", "restored", "untouched"}
    BY <1>0 DEF DiscardJournal, Report
  <2>2. faults' \in 0..MaxFaults
    BY FaultType DEF IInv, TypeOK, DiscardJournal, DropJournal, NoFault
  <2>3. disk' \in Journals /\ Len(disk'.chunks) <= N
    BY <1>2, FreshValues, SizeAssumption DEF IInv, TypeOK
  <2>4. pc' = "idle" /\ journal' = NoJournal /\ reading' = NothingOpen
    BY DEF DiscardJournal, Report
  <2> QED
    BY <1>0, <2>1, <2>2, <2>3, <2>4, FreshValues DEF IInv, TypeOK, files
<1>4. Durable'
  <2>1. CASE disk' = NoJournal /\ disk'.phase = "none"
    BY <1>0, <1>1, <2>1 DEF Durable
  <2>2. CASE disk' = disk
    BY <1>0, <2>2, Restful DEF IInv, files
  <2> QED
    BY <1>2, <2>1, <2>2
<1>5. Session'
  <2>1. result' = "success" => disk.phase = "assemble"
    BY <1>0 DEF DiscardJournal, Report
  <2>2. result' \in {"restored", "untouched"} => disk.phase \in {"decide", "carve"}
    BY <1>0 DEF DiscardJournal, Report
  <2>3. listing' \notin {"discardWork", "discardJournal"} /\ request' = NoRequest /\ listed' = listed
    BY <1>0
  <2>4. listed => disk'.phase # "decide"
    BY <1>2 DEF IInv, Session
  <2> QED
    BY <1>0, <1>1, <2>1, <2>2, <2>3, <2>4 DEF Session
<1>6. Running'
  BY <1>1 DEF Running
<1> QED
  BY <1>3, <1>4, <1>5, <1>6 DEF IInv

\* The list discards a decision that was interrupted: nothing was changed.
LEMMA ListDiscardJournalKeeps == ASSUME IInv, OneAtATime, ListDiscardJournal PROVE IInv'
<1>0. /\ pc = "idle" /\ disk.phase = "decide" /\ Intact /\ request = NoRequest
      /\ UNCHANGED <<side, files, journal, reading, pc, request, listed, result, crashes>>
      /\ listing' = "none" /\ ~listed
  BY DEF ListDiscardJournal, IInv, Session, Durable
<1>1. (Intact' <=> Intact) /\ (Delivered' <=> Delivered)
  BY <1>0, SameEnds DEF files
<1>2. (disk' = NoJournal /\ disk'.phase = "none") \/ disk' = disk
  BY DEF ListDiscardJournal, DropJournal, NoJournal
<1>3. TypeOK'
  <2>1. faults' \in 0..MaxFaults
    BY FaultType DEF IInv, TypeOK, ListDiscardJournal, DropJournal, NoFault
  <2>2. disk' \in Journals /\ Len(disk'.chunks) <= N
    BY <1>2, FreshValues, SizeAssumption DEF IInv, TypeOK
  <2> QED
    BY <1>0, <2>1, <2>2 DEF IInv, TypeOK, files
<1>4. Durable'
  <2>1. CASE disk' = NoJournal /\ disk'.phase = "none"
    BY <1>0, <1>1, <2>1 DEF Durable
  <2>2. CASE disk' = disk
    BY <1>0, <2>2, Restful DEF IInv, files
  <2> QED
    BY <1>2, <2>1, <2>2
<1>5. Session'
  BY <1>0, <1>1 DEF IInv, Session
<1>6. Running'
  BY <1>0 DEF Running
<1> QED
  BY <1>3, <1>4, <1>5, <1>6 DEF IInv

\* The work folder goes when no journal needs a part any more.
LEMMA DropWorkKeeps ==
    ASSUME IInv, DropWork, UNCHANGED <<side, original, out, disk>>,
           \/ disk.phase = "decide"
           \/ disk.phase = "carve" /\ disk.chunks = <<>> /\ original = Whole
           \/ /\ disk.phase = "assemble" /\ disk.renamed
              /\ \A s \in Sides : disk.done[s] = Len(disk.chunks)
    PROVE  Durable'
<1>1. (Intact' <=> Intact) /\ HeadEnd' = HeadEnd /\ HeadSide' = HeadSide
  BY SameEnds, SameSide
<1>d. disk \in Journals /\ DOMAIN disk.chunks = 1..Len(disk.chunks) /\ Len(disk.chunks) \in Nat
  BY ChunkValues DEF IInv, TypeOK
<1>2. CASE disk.phase = "decide"
  BY <1>1, <1>2 DEF IInv, Durable
<1>3. CASE disk.phase = "carve" /\ disk.chunks = <<>> /\ original = Whole
  <2>1. Chain(disk) /\ Fresh(disk) /\ Untouched /\ original = Prefix(Len(original)) /\ original # Missing
        /\ disk.cut = N
    BY <1>3 DEF IInv, Durable, Cutting, Chain
  <2>2. Chain(disk)' /\ Fresh(disk)'
    BY <2>1, <1>1 DEF Chain, Fresh
  <2>3. Held(disk)'
    BY <1>3 DEF Held
  <2>4. Untouched' /\ (original = Prefix(Len(original)))' /\ original' # Missing
    BY <2>1 DEF Untouched, Prefix
  <2>5. Len(original) = N /\ N \in Nat
    BY <1>3, WholeIs, SizeAssumption
  <2>6. Cutting'
    BY <2>1, <2>2, <2>3, <2>4, <2>5 DEF Cutting
  <2> QED
    BY <1>3, <2>6 DEF Durable
<1>4. CASE disk.phase = "assemble" /\ disk.renamed /\ \A s \in Sides : disk.done[s] = Len(disk.chunks)
  <2>1. /\ Chain(disk) /\ disk.cut = HeadEnd /\ original = Missing /\ disk.created[HeadSide]
        /\ \A s \in Sides : Grown(disk, s)
    BY <1>4 DEF IInv, Durable, Assembling
  <2>2. Chain(disk)' /\ \A s \in Sides : Grown(disk, s)'
    <3>1. \A s : Expected(s)' = Expected(s) /\ \A a, b : Offsets(a, b, s)' = Offsets(a, b, s)
      BY SameSide
    <3> QED
      BY <1>1, <2>1, <3>1, ZenonT(40) DEF Chain, Grown, Bound
  <2>3. Held(disk)'
    <3>1. \A i \in DOMAIN disk.chunks, s \in Sides : ~(i + disk.done[s] <= Len(disk.chunks))
      BY <1>4, <1>d
    <3> QED
      BY <3>1 DEF Held
  <2>4. Assembling'
    BY <1>1, <1>4, <2>1, <2>2, <2>3 DEF Assembling
  <2> QED
    BY <1>4, <2>4 DEF Durable
<1> QED
  BY <1>2, <1>3, <1>4

\* What is left of a folder is what was there.
LEMMA DropWorkType ==
    ASSUME TypeOK, DropWork
    PROVE  /\ {work', map'} \subseteq BOOLEAN
           /\ parts' \in [1..N -> [Sides -> Files]]
           /\ faults' \in 0..MaxFaults
<1>1. CASE work' = FALSE /\ map' = FALSE /\ parts' = NoParts /\ NoFault
  BY <1>1, FreshValues DEF TypeOK, NoFault
<1>2. CASE ~(work' = FALSE /\ map' = FALSE /\ parts' = NoParts /\ NoFault)
  <2>1. PICK kept \in SUBSET {i \in 1..N : parts[i] # NoParts[i]} :
          \E left \in [kept -> SUBSET Sides] :
            parts' = [i \in 1..N |-> [s \in Sides |->
                        IF i \in kept /\ s \in left[i] THEN parts[i][s] ELSE Missing]]
    BY <1>2 DEF DropWork
  <2>2. PICK left : parts' = [i \in 1..N |-> [s \in Sides |->
                        IF i \in kept /\ s \in left[i] THEN parts[i][s] ELSE Missing]]
    BY <2>1
  <2>3. \A i \in 1..N, s \in Sides : parts[i][s] \in Files /\ Missing \in Files
    BY DEF TypeOK, Files
  <2>4. parts' \in [1..N -> [Sides -> Files]]
    BY <2>2, <2>3
  <2>5. Fault /\ work' = work /\ map' \in {map, FALSE}
    BY <1>2 DEF DropWork
  <2> QED
    BY <2>4, <2>5, FaultType DEF TypeOK
<1> QED
  BY <1>1, <1>2

\* The run discards its work folder.
LEMMA DiscardWorkKeeps == ASSUME IInv, OneAtATime, DiscardWork PROVE IInv'
<1>1. TypeOK'
  <2>1. {work', map'} \subseteq BOOLEAN /\ parts' \in [1..N -> [Sides -> Files]] /\ faults' \in 0..MaxFaults
    BY DropWorkType DEF IInv, DiscardWork
  <2> QED
    BY <2>1 DEF IInv, TypeOK, DiscardWork, Goto
<1>0. \/ disk.phase = "decide"
      \/ disk.phase = "carve" /\ disk.chunks = <<>> /\ original = Whole
      \/ /\ disk.phase = "assemble" /\ disk.renamed
         /\ \A s \in Sides : disk.created[s] /\ disk.done[s] = Len(disk.chunks)
  BY DEF IInv, Running, DiscardWork, Goto
<1>2. Durable'
  BY <1>0, DropWorkKeeps DEF DiscardWork
<1>3. Session'
  BY DEF IInv, Session, DiscardWork, Goto
<1>4. Running'
  BY DEF IInv, Running, DiscardWork, Goto, Whole
<1> QED
  BY <1>1, <1>2, <1>3, <1>4 DEF IInv

\* The list discards one of an interrupted decision.
LEMMA ListDiscardWorkKeeps == ASSUME IInv, OneAtATime, ListDiscardWork PROVE IInv'
<1>0. pc = "idle" /\ disk.phase = "decide"
  BY DEF IInv, Session, ListDiscardWork
<1>1. TypeOK'
  <2>1. {work', map'} \subseteq BOOLEAN /\ parts' \in [1..N -> [Sides -> Files]] /\ faults' \in 0..MaxFaults
    BY DropWorkType DEF IInv, ListDiscardWork
  <2> QED
    BY <2>1 DEF IInv, TypeOK, ListDiscardWork
<1>2. Durable'
  BY <1>0, DropWorkKeeps DEF ListDiscardWork
<1>3. Session'
  BY <1>0, SameEnds DEF IInv, Session, ListDiscardWork
<1>4. Running'
  BY <1>0 DEF Running, ListDiscardWork
<1> QED
  BY <1>1, <1>2, <1>3, <1>4 DEF IInv

\* Cutting the original to the length a journal of its own chunks has.
LEMMA Settled ==
    ASSUME Cutting, TypeOK, Chain(journal), Settles(journal), Settle(journal)
    PROVE  original' = Prefix(journal.cut) /\ journal.cut \in 0..N
<1>0. original = Prefix(Len(original)) /\ Len(original) <= N /\ Len(original) \in Nat /\ journal.cut \in 0..N
  <2>1. original = Prefix(Len(original)) /\ Len(original) <= N /\ journal.cut \in 0..N
    BY ChunkValues DEF Cutting, TypeOK
  <2>2. Len(original) \in Nat
    <3>1. original \in Seq(0..N)
      BY DEF Cutting, TypeOK, Files
    <3> QED
      BY <3>1
  <2> QED
    BY <2>1, <2>2
<1>1. journal.cut <= Len(original)
  <2>1. CASE Len(original) = journal.cut
    BY <1>0, <2>1
  <2>2. CASE ChunkUncut(journal)
    <3>1. journal.chunks # <<>> /\ Last(journal.chunks).end = Len(original)
      BY <2>2 DEF ChunkUncut
    <3>2. journal.cut < Last(journal.chunks).end
      BY <3>1, LastIs DEF TypeOK
    <3> QED
      BY <1>0, <3>1, <3>2, SizeAssumption
  <2> QED
    BY <2>1, <2>2 DEF Settles
<1>2. journal.cut \in 0..Len(original)
  BY <1>0, <1>1, SizeAssumption
<1>3. SubSeq(Prefix(Len(original)), 1, journal.cut) = Prefix(journal.cut)
  BY <1>0, <1>2, PrefixIs
<1> QED
  BY <1>0, <1>3 DEF Settle

\* An original of another length, of the same bytes, with nothing astray.
LEMMA CuttingAt ==
    ASSUME Cutting, UNCHANGED <<side, out, parts, disk>>, NEW n \in 0..N, original' = Prefix(n),
           n < disk.cut => Stray'
    PROVE  /\ Cutting'
           /\ original' \in Files /\ original' # Missing /\ Len(original') = n
<1>1. Chain(disk)' /\ Held(disk)' /\ Fresh(disk)'
  BY SameSide DEF Cutting, Chain, Held, Fresh
<1>2. /\ original' \in Seq(0..N) /\ Len(original') = n /\ n <= N /\ original' = Prefix(Len(original'))
      /\ original' \in Seq(Nat)
  BY PrefixIs, SizeAssumption
<1>3. original' # Missing /\ original' \in Files
  BY <1>2, MissingAssumption DEF Files
<1>4. (original = Prefix(Len(original)))' /\ Untouched'
  BY <1>2 DEF Prefix, Cutting, Untouched
<1> QED
  BY <1>1, <1>2, <1>3, <1>4 DEF Cutting

\* The bytes the original lacks are in parts that were left alone.
LEMMA StrayAt ==
    ASSUME UNCHANGED <<side, parts, disk>>, NEW start, start \in 0..Len(original'),
           \A s \in Sides : parts[Len(disk.chunks) + 1][s] = Offsets(start, disk.cut, s)
    PROVE  Stray'
  BY SameSide DEF Stray

\* The original is settled before it is cut on.
LEMMA CarveOpenKeeps == ASSUME IInv, OneAtATime, CarveOpen PROVE IInv'
<1>0. /\ journal = disk /\ disk.phase = "carve" /\ Cutting /\ Chain(journal) /\ TypeOK /\ disk \in Journals
  BY DEF IInv, TypeOK, Running, Durable, Cutting, CarveOpen
<1>1. original' = Prefix(disk.cut) /\ disk.cut \in 0..N
  BY <1>0, Settled DEF CarveOpen
<1>2. Cutting' /\ original' \in Files /\ Len(original') = disk.cut
  <2>1. ~(disk.cut < disk.cut)
    BY <1>1, SizeAssumption
  <2> QED
    BY <1>0, <1>1, <2>1, CuttingAt DEF CarveOpen
<1>3. TypeOK'
  BY <1>2 DEF IInv, TypeOK, CarveOpen, budget
<1>4. Durable'
  BY <1>0, <1>2 DEF Durable, CarveOpen
<1>5. Session'
  BY <1>0 DEF IInv, Session, CarveOpen
<1>6. Running'
  BY <1>0, <1>2 DEF Running, CarveOpen
<1> QED
  BY <1>3, <1>4, <1>5, <1>6 DEF IInv

\* The original loses the chunk the saved journal has.
LEMMA TruncateKeeps == ASSUME IInv, OneAtATime, Truncate PROVE IInv'
<1>0. /\ journal = disk /\ disk.phase = "carve" /\ Cutting /\ Chain(journal) /\ TypeOK /\ disk \in Journals
      /\ journal.chunks # <<>> /\ Len(original) = Last(journal.chunks).end
  BY DEF IInv, TypeOK, Running, Durable, Cutting, Truncate, Goto
<1>1. original' = Prefix(disk.cut) /\ disk.cut \in 0..N
  <2>1. Settles(journal)
    <3>1. original # Missing /\ Last(journal.chunks).start = journal.cut
      BY <1>0 DEF Cutting, Chain
    <3>2. Last(journal.chunks) = [start |-> journal.cut, end |-> Len(original)]
      <4>1. /\ Last(journal.chunks) = journal.chunks[Len(journal.chunks)]
            /\ Len(journal.chunks) \in 1..Len(journal.chunks)
        BY <1>0, ChunkValues
      <4>2. Last(journal.chunks) = [start |-> Last(journal.chunks).start, end |-> Last(journal.chunks).end]
        BY <1>0, <4>1, ChunkValues
      <4> QED
        BY <1>0, <3>1, <4>2
    <3> QED
      BY <1>0, <3>1, <3>2 DEF Settles, ChunkUncut
  <2>2. Settle(journal)
    BY DEF Truncate, Settle
  <2> QED
    BY <1>0, <2>1, <2>2, Settled
<1>2. Cutting' /\ original' \in Files /\ Len(original') = disk.cut
  <2>1. ~(disk.cut < disk.cut)
    BY <1>1, SizeAssumption
  <2> QED
    BY <1>0, <1>1, <2>1, CuttingAt DEF Truncate
<1>3. TypeOK'
  BY <1>2 DEF IInv, TypeOK, Truncate, Goto, budget
<1>4. Durable'
  BY <1>0, <1>2 DEF Durable, Truncate
<1>5. Session'
  BY <1>0 DEF IInv, Session, Truncate, Goto
<1>6. Running'
  BY <1>0, <1>2 DEF Running, Truncate, Goto
<1> QED
  BY <1>3, <1>4, <1>5, <1>6 DEF IInv

\* A run that undoes cuts back what it had begun to put back, or a chunk the
\* saved journal does not have: then its parts have it.
LEMMA UndoOpenKeeps == ASSUME IInv, OneAtATime, UndoOpen PROVE IInv'
<1>0. /\ disk.phase = "carve" /\ Cutting /\ TypeOK /\ journal \in Journals /\ disk \in Journals
      /\ Chain(journal) /\ Held(journal) /\ Fresh(journal)
      /\ journal = disk \/ (Ahead /\ faults > 0)
      /\ side \in [1..N -> BOOLEAN] /\ result = "none" /\ pc # "idle"
  BY DEF IInv, TypeOK, Session, Running, Durable, Cutting, Ahead, UndoOpen
<1>1. original' = Prefix(journal.cut) /\ journal.cut \in 0..N
  BY <1>0, Settled DEF UndoOpen
<1>2. Len(original') = journal.cut /\ journal.cut \in Nat
  <2>1. PICK n : n = journal.cut
    OBVIOUS
  <2>2. n \in Nat
    BY <1>1, <2>1, SizeAssumption
  <2>3. Len(Prefix(n)) = n
    BY <2>2, PrefixIs
  <2> QED
    BY <1>1, <2>1, <2>2, <2>3
<1>3. ASSUME journal.cut < disk.cut PROVE Stray'
  <2>1. Ahead
    BY <1>0, <1>1, <1>3, SizeAssumption
  <2>2. /\ disk.cut = Last(journal.chunks).end /\ disk.chunks = Front(journal.chunks) /\ journal.chunks # <<>>
    BY <2>1 DEF Ahead
  <2>3. /\ Last(journal.chunks) = journal.chunks[Len(journal.chunks)] /\ Last(journal.chunks).start = journal.cut
        /\ Len(journal.chunks) \in DOMAIN journal.chunks /\ Len(journal.chunks) \in 1..N
    BY <1>0, <2>2, LastIs
  <2>4. Len(disk.chunks) + 1 = Len(journal.chunks)
    <3>1. journal.chunks \in Seq([start : 0..N, end : 0..N])
      BY <1>0, ChunkValues
    <3>2. Len(Front(journal.chunks)) = Len(journal.chunks) - 1 /\ Len(journal.chunks) \in Nat
      BY <2>2, <3>1, WithoutLast
    <3> QED
      BY <2>2, <3>2
  <2>5. \A s \in Sides : parts[Len(disk.chunks) + 1][s] = Offsets(journal.cut, disk.cut, s)
    <3>1. \A s \in Sides : Len(journal.chunks) + journal.done[s] <= Len(journal.chunks)
      BY <1>0, <2>3, SizeAssumption DEF Fresh
    <3> QED
      BY <1>0, <2>2, <2>3, <2>4, <3>1 DEF Held
  <2>6. journal.cut \in 0..Len(original')
    BY <1>2
  <2>7. PICK start : start = journal.cut
    OBVIOUS
  <2> QED
    BY <2>5, <2>6, <2>7, StrayAt DEF UndoOpen
<1>4. Cutting' /\ original' \in Files
  BY <1>0, <1>1, <1>3, CuttingAt DEF UndoOpen
<1>5. TypeOK'
  BY <1>4, FreshValues DEF IInv, TypeOK, UndoOpen, Report, budget
<1>6. Durable'
  BY <1>0, <1>4 DEF Durable, UndoOpen
<1>7. Session'
  BY <1>0 DEF IInv, Session, UndoOpen, Report
<1>8. Running'
  <2>1. Ahead /\ journal' = journal => Ahead'
    BY AheadRests DEF UndoOpen
  <2> QED
    BY <1>0, <1>2, <2>1 DEF Running, UndoOpen, Report, budget
<1> QED
  BY <1>5, <1>6, <1>7, <1>8 DEF IInv

\* A byte is put back: the next of the file order, out of the part of its side.
LEMMA PutBackByteKeeps == ASSUME IInv, OneAtATime, PutBackByte PROVE IInv'
<1>0. /\ disk.phase = "carve" /\ Cutting /\ TypeOK /\ journal \in Journals /\ disk \in Journals
      /\ Chain(journal) /\ Held(journal) /\ Fresh(journal)
      /\ journal = disk \/ (Ahead /\ faults > 0)
      /\ side \in [1..N -> BOOLEAN] /\ result = "none"
      /\ journal.chunks # <<>> /\ LastChunk.start <= Len(original) /\ Len(original) < LastChunk.end
      /\ \A s \in Sides : reading[s] = Offsets(LastChunk.start, LastChunk.end, s)
  BY DEF IInv, TypeOK, Session, Running, Durable, Cutting, Ahead, PutBackByte
<1> DEFINE n == Len(original)
           a == LastChunk.start
           e == LastChunk.end
<1>1. /\ a = journal.cut /\ a \in 0..N /\ e \in 0..N /\ n \in Nat /\ original = Prefix(n) /\ n + 1 \in 0..N
      /\ LastChunk = journal.chunks[Len(journal.chunks)] /\ Len(journal.chunks) \in DOMAIN journal.chunks
      /\ a <= n /\ n < e /\ Len(journal.chunks) \in 1..N
  <2>1. /\ a = journal.cut /\ a \in 0..N /\ e \in 0..N
        /\ LastChunk = journal.chunks[Len(journal.chunks)] /\ Len(journal.chunks) \in DOMAIN journal.chunks
        /\ Len(journal.chunks) \in 1..N
    BY <1>0, LastIs DEF LastChunk
  <2>2. original \in Seq(0..N) /\ original = Prefix(n)
    BY <1>0 DEF Cutting, TypeOK, Files
  <2>3. n \in Nat
    BY <2>2
  <2>4. a <= n /\ n < e
    BY <1>0
  <2> HIDE DEF n, a, e
  <2>5. n + 1 \in 0..N
    BY <2>1, <2>3, <2>4, SizeAssumption
  <2> QED
    BY <2>1, <2>2, <2>3, <2>4, <2>5
<1>2. original' = Prefix(n + 1)
  <2> DEFINE s == side[n + 1]
  <2>1. PutBackAt = Len(Offsets(a, n + 1, s)) /\ PutBackPart = Offsets(a, e, s) /\ s \in Sides
        /\ original' = Append(original, PutBackPart[PutBackAt])
    <3>1. s \in Sides
      <4>1. n + 1 \in 1..N
        BY <1>1
      <4> HIDE DEF n
      <4> QED
        BY <1>0, <4>1 DEF Sides
    <3> QED
      BY <1>0, <3>1 DEF PutBackAt, PutBackPart, PutBackByte
  <2> HIDE DEF n, a, e
  <2>2. a \in 0..N /\ e \in a..N /\ n + 1 \in (a + 1)..e
    BY <1>1, SizeAssumption
  <2>3. Offsets(a, e, s)[Len(Offsets(a, n + 1, s))] = n + 1
    BY <2>2, OffsetsAt
  <2>4. Append(Prefix(n), n + 1) = Prefix(n + 1)
    BY <1>1, PrefixIs
  <2>5. PutBackPart[PutBackAt] = n + 1
    BY <2>1, <2>3
  <2>6. original' = Append(Prefix(n), n + 1)
    BY <1>1, <2>1, <2>5
  <2> QED
    BY <2>4, <2>6
<1>3. ASSUME n + 1 < disk.cut PROVE Stray'
  <2>0. disk.cut \in 0..N
    BY <1>0, ChunkValues
  <2>1. Ahead
    <3>1. journal = disk => disk.cut <= n
      BY <1>1
    <3>2. ~(disk.cut <= n)
      <4> HIDE DEF n
      <4> QED
        BY <1>1, <1>3, <2>0, SizeAssumption
    <3> QED
      BY <1>0, <3>1, <3>2
  <2>2. /\ disk.cut = e /\ disk.chunks = Front(journal.chunks)
    BY <2>1 DEF Ahead, LastChunk
  <2>4. Len(disk.chunks) + 1 = Len(journal.chunks)
    <3>1. journal.chunks \in Seq([start : 0..N, end : 0..N])
      BY <1>0, ChunkValues
    <3>2. Len(Front(journal.chunks)) = Len(journal.chunks) - 1 /\ Len(journal.chunks) \in Nat
      BY <1>0, <3>1, WithoutLast
    <3> QED
      BY <2>2, <3>2
  <2>5. \A s \in Sides : parts[Len(disk.chunks) + 1][s] = Offsets(a, disk.cut, s)
    <3>1. \A s \in Sides : Len(journal.chunks) + journal.done[s] <= Len(journal.chunks)
      BY <1>0, <1>1, SizeAssumption DEF Fresh
    <3>2. \A s \in Sides : parts[Len(journal.chunks)][s] = Offsets(a, e, s)
      BY <1>0, <1>1, <3>1 DEF Held
    <3> QED
      BY <2>2, <2>4, <3>2
  <2>6. a \in 0..Len(original')
    <3>1. Len(Prefix(n + 1)) = n + 1
      <4> HIDE DEF n
      <4> QED
        BY <1>1, PrefixIs
    <3> HIDE DEF n, a
    <3> QED
      BY <1>1, <1>2, <3>1, SizeAssumption
  <2>7. PICK start : start = a
    OBVIOUS
  <2> QED
    BY <2>5, <2>6, <2>7, StrayAt DEF PutBackByte
<1>p. PICK m : m = n + 1
  OBVIOUS
<1>4. Cutting' /\ original' \in Files /\ Len(original') = n + 1
  <2>1. m \in 0..N /\ original' = Prefix(m) /\ (m < disk.cut => Stray')
    BY <1>1, <1>2, <1>3, <1>p
  <2>2. UNCHANGED <<side, out, parts, disk>>
    BY DEF PutBackByte
  <2> HIDE DEF n
  <2> QED
    BY <1>0, <1>p, <2>1, <2>2, CuttingAt
<1>5. TypeOK'
  BY <1>4 DEF IInv, TypeOK, PutBackByte, budget
<1>6. Durable'
  BY <1>0, <1>4 DEF Durable, PutBackByte
<1>7. Session'
  BY <1>0 DEF IInv, Session, PutBackByte
<1>8. Running'
  <2>1. Ahead => Ahead'
    BY AheadRests DEF PutBackByte
  <2>2. LastChunk' = LastChunk
    BY DEF LastChunk, PutBackByte
  <2>3. LastChunk'.start <= Len(original') /\ Len(original') <= LastChunk'.end
    <3>1. a <= n + 1 /\ n + 1 <= e
      <4> HIDE DEF n, a, e
      <4> QED
        BY <1>1, SizeAssumption
    <3> QED
      BY <1>4, <2>2, <3>1
  <2>4. \A s \in Sides : reading'[s] = Offsets(LastChunk.start, LastChunk.end, s)'
    BY <1>0, <2>2, SameSide DEF PutBackByte
  <2> HIDE DEF LastChunk
  <2> QED
    BY <1>0, <2>1, <2>2, <2>3, <2>4 DEF Running, PutBackByte, budget
<1> QED
  BY <1>5, <1>6, <1>7, <1>8 DEF IInv

\* The parts of a chunk that is back are removed.
LEMMA RemovePartsKeeps == ASSUME IInv, OneAtATime, RemoveParts PROVE IInv'
<1>0. /\ journal = disk /\ disk.phase = "carve" /\ Cutting /\ Len(original) = disk.cut
      /\ disk \in Journals /\ DOMAIN disk.chunks = 1..Len(disk.chunks) /\ Len(disk.chunks) \in Nat
      /\ disk.cut \in 0..N /\ parts \in [1..N -> [Sides -> Files]]
  BY ChunkValues DEF IInv, TypeOK, Running, Durable, RemoveParts, Goto
<1>r. PICK gone \in SUBSET Sides :
        /\ IF gone = Sides THEN NoFault ELSE Fault
        /\ parts' = [parts EXCEPT ![Len(journal.chunks) + 1] =
                        [s \in Sides |-> IF s \in gone THEN Missing ELSE @[s]]]
  BY DEF RemoveParts
<1>1. \A i \in DOMAIN disk.chunks : parts'[i] = parts[i]
  BY <1>0, <1>r
<1>2. TypeOK'
  <2>1. ASSUME Len(journal.chunks) + 1 \in 1..N
        PROVE  [s \in Sides |-> IF s \in gone THEN Missing ELSE parts[Len(journal.chunks) + 1][s]] \in [Sides -> Files]
    BY <1>0, <2>1 DEF Files
  <2>2. parts' \in [1..N -> [Sides -> Files]]
    BY <1>0, <1>r, <2>1
  <2>3. faults' \in 0..MaxFaults
    BY <1>r, FaultType DEF IInv, TypeOK, NoFault
  <2> QED
    BY <2>2, <2>3 DEF IInv, TypeOK, RemoveParts, Goto
<1>3. Cutting'
  <2>1. Chain(disk)' /\ Fresh(disk)'
    BY <1>0, SameSide DEF Cutting, Chain, Fresh, RemoveParts
  <2>2. Held(disk)'
    BY <1>0, <1>1, SameSide DEF Cutting, Held, RemoveParts
  <2>3. UNCHANGED <<original, out, disk>> /\ ~(Len(original) < disk.cut)
    BY <1>0, SizeAssumption DEF RemoveParts
  <2> QED
    BY <1>0, <2>1, <2>2, <2>3 DEF Cutting, Untouched, Prefix
<1>4. Durable'
  BY <1>0, <1>3 DEF Durable, RemoveParts
<1>5. Session'
  BY <1>0 DEF IInv, Session, RemoveParts, Goto
<1>6. Running'
  BY <1>0 DEF Running, RemoveParts, Goto
<1> QED
  BY <1>2, <1>4, <1>5, <1>6 DEF IInv

\* A chunk is written to its parts; the journal in memory has it.
LEMMA CarveChunkKeeps == ASSUME IInv, OneAtATime, CarveChunk PROVE IInv'
<1>0. /\ journal = disk /\ disk.phase = "carve" /\ Cutting /\ Len(original) = disk.cut
      /\ disk \in Journals /\ Chain(disk) /\ Held(disk) /\ Fresh(disk)
      /\ original = Prefix(disk.cut) /\ result = "none"
      /\ side \in [1..N -> BOOLEAN] /\ parts \in [1..N -> [Sides -> Files]]
  BY DEF IInv, TypeOK, Session, Running, Durable, Cutting, CarveChunk, Carving
<1>a. PICK start \in HeadEnd..(journal.cut - 1) :
         /\ parts' = [parts EXCEPT ![Len(journal.chunks) + 1] =
                        [s \in Sides |-> Piece(start, journal.cut, s)]]
         /\ journal' = [journal EXCEPT
                         !.chunks = Append(@, [start |-> start, end |-> journal.cut]),
                         !.cut = start]
  BY DEF CarveChunk
<1>1. /\ start \in HeadEnd..(disk.cut - 1)
         /\ parts' = [parts EXCEPT ![Len(disk.chunks) + 1] =
                        [s \in Sides |-> Piece(start, disk.cut, s)]]
         /\ journal' = [disk EXCEPT
                         !.chunks = Append(@, [start |-> start, end |-> disk.cut]),
                         !.cut = start]
  BY <1>0, <1>a
<1>k. PICK k : k = [disk EXCEPT !.chunks = Append(@, [start |-> start, end |-> disk.cut]), !.cut = start]
  OBVIOUS
<1>2. /\ Chain(k) /\ k \in Journals
      /\ Len(k.chunks) = Len(disk.chunks) + 1 /\ Len(k.chunks) <= N
      /\ Front(k.chunks) = disk.chunks
      /\ Last(k.chunks) = [start |-> start, end |-> disk.cut]
      /\ \A i \in 1..Len(disk.chunks) : k.chunks[i] = disk.chunks[i]
      /\ k.cut = start
  <2>1. disk \in Journals /\ Chain(disk) /\ side \in [1..N -> BOOLEAN]
    BY <1>0
  <2>3. start \in 0..N /\ HeadEnd <= start /\ start < disk.cut
    <3>1. HeadEnd \in 0..N /\ disk.cut \in 0..N
      BY <1>0, HeadIs, ChunkValues
    <3> HIDE DEF HeadEnd
    <3> QED
      BY <1>1, <3>1, SizeAssumption
  <2>0. PICK c : c = [start |-> start, end |-> disk.cut]
    OBVIOUS
  <2>6. c \in [start : 0..N, end : 0..N] /\ c.start = start /\ c.end = disk.cut
    BY <2>0, <2>1, <2>3, ChunkValues
  <2>2. k.chunks = Append(disk.chunks, c) /\ k.cut = start
    BY <1>k, <2>0, <2>1 DEF Journals
  <2>7. /\ k.chunks \in Seq([start : 0..N, end : 0..N])
        /\ Front(k.chunks) = disk.chunks /\ Last(k.chunks) = c
    <3> DEFINE K == [start : 0..N, end : 0..N]
    <3>1. disk.chunks \in Seq(K) /\ c \in K
      BY <2>1, <2>6, ChunkValues
    <3> HIDE DEF K
    <3>2. k.chunks \in Seq(K) /\ Front(k.chunks) = disk.chunks /\ Last(k.chunks) = c
      BY <2>2, <3>1, WithOneMore
    <3> QED
      BY <3>2 DEF K
  <2>4. /\ Chain(k)
        /\ Len(k.chunks) = Len(disk.chunks) + 1 /\ Len(k.chunks) <= N
        /\ \A i \in 1..Len(disk.chunks) : k.chunks[i] = disk.chunks[i]
    BY <2>1, <2>2, <2>3, <2>6, ChainGrows
  <2>5. k \in Journals
    <3>1. k = [disk EXCEPT !.chunks = k.chunks, !.cut = start]
      BY <1>k, <2>2
    <3> QED
      BY <2>1, <2>3, <2>7, <3>1 DEF Journals
  <2> QED
    BY <2>0, <2>2, <2>4, <2>5, <2>7
<1>3. /\ k.phase = "carve" /\ k.renamed = disk.renamed /\ k.done = disk.done
      /\ k.len = disk.len /\ k.created = disk.created
  BY <1>0, <1>k DEF Journals
<1>4. /\ HeadEnd \in 0..N /\ HeadEnd \in Nat /\ disk.cut \in 0..N /\ N \in Nat
      /\ start \in 0..N /\ start \in 0..disk.cut /\ disk.cut \in start..disk.cut /\ disk.cut \in start..N
      /\ start < disk.cut
  <2>1. HeadEnd \in 0..N /\ disk.cut \in 0..N
    BY <1>0, HeadIs, ChunkValues
  <2> HIDE DEF HeadEnd
  <2> QED
    BY <1>1, <2>1, SizeAssumption
<1> HIDE DEF HeadEnd
<1>5. /\ Len(disk.chunks) \in Nat /\ DOMAIN disk.chunks = 1..Len(disk.chunks)
      /\ DOMAIN k.chunks = 1..Len(k.chunks) /\ Len(disk.chunks) + 1 \in 1..N
      /\ \A s \in Sides : k.done[s] = 0 /\ disk.done[s] = 0
      /\ k.chunks # <<>> /\ Last(k.chunks) = k.chunks[Len(k.chunks)]
  <2>1. Len(disk.chunks) \in Nat
    BY <1>0, ChunkValues
  <2>2. Len(k.chunks) > 0
    BY <1>2, <2>1
  <2>3. Len(disk.chunks) + 1 \in 1..N
    BY <1>2, <1>4, <2>1
  <2> QED
    BY <1>0, <1>2, <1>3, <2>1, <2>2, <2>3, ChunkValues DEF Fresh
<1>6. \A s \in Sides : /\ Piece(start, disk.cut, s) = Offsets(start, disk.cut, s)
                       /\ Offsets(start, disk.cut, s) \in Seq(0..N)
  <2>1. PICK n : n = disk.cut
    OBVIOUS
  <2>2. n \in 0..N /\ start \in 0..n /\ n \in start..n /\ n \in start..N /\ original = Prefix(n)
    BY <1>0, <1>4, <2>1
  <2>3. ASSUME NEW s \in Sides PROVE Piece(start, n, s) = Offsets(start, n, s) /\ Offsets(start, n, s) \in Seq(0..N)
    <3>1. Piece(start, n, s) = Offsets(start, n, s)
      BY <2>2, PieceIs
    <3>2. Offsets(start, n, s) \in Seq((start + 1)..n)
      BY <1>4, <2>2, OffsetsType
    <3>3. (start + 1)..n \subseteq 0..N
      BY <1>4, <2>2
    <3>4. Offsets(start, n, s) \in Seq(0..N)
      BY <3>2, <3>3, SeqWider
    <3> QED
      BY <3>1, <3>4
  <2> QED
    BY <2>1, <2>3
<1>7. /\ parts' \in [1..N -> [Sides -> Files]]
      /\ \A i \in 1..Len(disk.chunks) : parts'[i] = parts[i]
      /\ \A s \in Sides : parts'[Len(disk.chunks) + 1][s] = Offsets(start, disk.cut, s)
  <2>1. [s \in Sides |-> Piece(start, disk.cut, s)] \in [Sides -> Files]
    BY <1>6 DEF Files
  <2>2. \A i \in 1..Len(disk.chunks) : i \in 1..N /\ i # Len(disk.chunks) + 1
    BY <1>4, <1>5
  <2> QED
    BY <1>0, <1>1, <1>5, <1>6, <2>1, <2>2
<1>8. TypeOK'
  <2>1. journal' \in Journals
    BY <1>1, <1>2, <1>k
  <2> QED
    BY <1>7, <2>1 DEF IInv, TypeOK, CarveChunk, budget
<1>9. Cutting'
  <2>1. Chain(disk)' /\ Fresh(disk)'
    BY <1>0, SameSide DEF Cutting, Chain, Fresh, CarveChunk
  <2>2. Held(disk)'
    BY <1>0, <1>5, <1>7, SameSide, SMTT(30) DEF Cutting, Held, CarveChunk
  <2>3. UNCHANGED <<original, out, disk>> /\ ~(Len(original) < disk.cut)
    BY <1>0, <1>4 DEF CarveChunk
  <2> QED
    BY <1>0, <2>1, <2>2, <2>3 DEF Cutting, Untouched, Prefix
<1>10. Durable'
  BY <1>0, <1>9 DEF Durable, CarveChunk
<1>11. Session'
  BY <1>0 DEF IInv, Session, CarveChunk, Carving
<1>12. Ahead'
  <2>1. journal' = k /\ disk' = disk /\ side' = side
    BY <1>1, <1>k DEF CarveChunk
  <2>2. Chain(k)' /\ Fresh(k)'
    BY <1>0, <1>2, <1>3, <2>1, SameChain DEF Fresh
  <2>3. ASSUME NEW i \in 1..Len(k.chunks), NEW s \in Sides
        PROVE  parts'[i][s] = Offsets(k.chunks[i].start, k.chunks[i].end, s)
    <3>1. CASE i \in 1..Len(disk.chunks)
      <4>1. i + disk.done[s] <= Len(disk.chunks)
        BY <1>5, <3>1
      <4>2. parts[i][s] = Offsets(disk.chunks[i].start, disk.chunks[i].end, s)
        BY <1>0, <1>5, <3>1, <4>1 DEF Held
      <4> QED
        BY <1>2, <1>7, <3>1, <4>2
    <3>2. CASE i = Len(disk.chunks) + 1
      <4>1. k.chunks[i].start = start /\ k.chunks[i].end = disk.cut
        BY <1>2, <1>5, <3>2
      <4> QED
        BY <1>7, <3>2, <4>1
    <3> QED
      BY <1>2, <1>5, <3>1, <3>2
  <2>4. Held(k)'
    <3>1. \A i \in 1..Len(k.chunks), s \in Sides :
             parts'[i][s] = Offsets(k.chunks[i].start, k.chunks[i].end, s)'
      BY <2>1, <2>3, SameSide
    <3> QED
      BY <1>5, <3>1 DEF Held
  <2>5. Chain(journal)' /\ Held(journal)' /\ Fresh(journal)'
    BY <2>1, <2>2, <2>4 DEF Chain, Held, Fresh
  <2> QED
    BY <1>2, <1>3, <1>5, <2>1, <2>5 DEF Ahead
<1>13. Running'
  BY <1>0, <1>12 DEF Running, CarveChunk
<1> QED
  BY <1>8, <1>10, <1>11, <1>13 DEF IInv

\* The original becomes the output of its leading run.
LEMMA RenameKeeps == ASSUME IInv, OneAtATime, Rename PROVE IInv'
<1>0. /\ journal = disk /\ disk.phase = "assemble" /\ Assembling /\ ~disk.renamed /\ result = "none"
      /\ side \in [1..N -> BOOLEAN] /\ original \in Files /\ out \in [Sides -> Files]
  BY DEF IInv, TypeOK, Session, Running, Durable, Rename, Goto
<1>1. /\ Chain(disk) /\ Held(disk) /\ disk.cut = HeadEnd /\ Fresh(disk)
      /\ \/ original = Prefix(HeadEnd)
         \/ original = Missing /\ out[HeadSide] = Prefix(HeadEnd)
  BY <1>0 DEF Assembling
<1>2. HeadSide \in Sides
  BY <1>0, HeadIs
<1>3. /\ original' = Missing /\ out' \in [Sides -> Files] /\ out'[HeadSide] = Prefix(HeadEnd)
      /\ UNCHANGED <<side, parts, disk, journal>>
  <2> HIDE DEF HeadEnd, HeadSide
  <2>1. CASE original # Missing
    BY <1>0, <1>1, <1>2, <2>1 DEF Rename
  <2>2. CASE original = Missing
    <3>1. out[HeadSide] = Prefix(HeadEnd)
      <4>1. Prefix(HeadEnd) # Missing
        <5>1. HeadEnd \in 0..N
          BY <1>0, HeadIs
        <5> QED
          BY <5>1, PrefixIs, MissingAssumption, SizeAssumption
      <4> QED
        BY <1>1, <2>2, <4>1
    <3> QED
      BY <1>0, <2>2, <3>1 DEF Rename
  <2> QED
    BY <2>1, <2>2
<1>4. HeadEnd' = HeadEnd /\ HeadSide' = HeadSide
  BY <1>3, SameSide
<1>5. TypeOK'
  <2>1. Missing \in Files
    BY DEF Files
  <2> QED
    BY <1>3, <2>1 DEF IInv, TypeOK, Rename, Goto, budget
<1>6. Assembling'
  <2>1. Chain(disk)' /\ Held(disk)' /\ Fresh(disk)'
    BY <1>1, <1>3, SameSide DEF Chain, Held, Fresh
  <2>2. (out[HeadSide] = Prefix(HeadEnd))'
    BY <1>3, <1>4 DEF Prefix
  <2> HIDE DEF HeadEnd, HeadSide
  <2> QED
    BY <1>0, <1>1, <1>3, <1>4, <2>1, <2>2 DEF Assembling
<1>7. Durable'
  BY <1>0, <1>3, <1>6 DEF Durable
<1>8. Session'
  BY <1>0 DEF IInv, Session, Rename, Goto
<1>9. Running'
  <2>1. (out[HeadSide] = Prefix(HeadEnd))'
    BY <1>3, <1>4 DEF Prefix
  <2> HIDE DEF HeadEnd, HeadSide
  <2> QED
    BY <1>0, <1>3, <2>1 DEF Running, Rename, Goto
<1> QED
  BY <1>5, <1>7, <1>8, <1>9 DEF IInv

\* An output that was not begun is created with the mark.
LEMMA CreateOutputKeeps == ASSUME IInv, OneAtATime, CreateOutput PROVE IInv'
<1>0. /\ journal = disk /\ disk.phase = "assemble" /\ disk.renamed
      /\ side \in [1..N -> BOOLEAN] /\ result = "none"
      /\ original = Missing /\ disk.created[HeadSide]
      /\ Chain(disk) /\ Held(disk) /\ disk.cut = HeadEnd
      /\ \A s \in Sides : Grown(disk, s)
      /\ Current \in Sides /\ ~disk.created[Current]
      /\ out \in [Sides -> Files]
  BY AppendingIs DEF CreateOutput, Goto, IInv, TypeOK, Session
<1>1. /\ HeadEnd' = HeadEnd /\ HeadSide' = HeadSide /\ Current' = Current
      /\ UNCHANGED <<side, original, parts, disk, journal>>
  BY SameSide DEF CreateOutput, Current, Total
<1>2. /\ out' \in [Sides -> Files] /\ out'[Current] = BomBytes
      /\ \A s \in Sides : s # Current => out'[s] = out[s]
  <2>1. BomBytes \in Files
    BY GrowthIs, SizeAssumption DEF Files
  <2> HIDE DEF Current
  <2> QED
    BY <1>0, <2>1 DEF CreateOutput
<1>3. TypeOK'
  BY <1>2 DEF IInv, TypeOK, CreateOutput, Goto, budget
<1>4. ASSUME NEW s \in Sides PROVE Grown(disk, s)'
  <2>1. CASE s = Current
    BY <1>0, <1>1, <2>1 DEF Grown
  <2>2. CASE s # Current
    <3>1. PICK j : j = disk
      OBVIOUS
    <3>2. Grown(j, s)'
      BY <1>0, <1>1, <1>2, <2>2, <3>1, SameGrown
    <3> QED
      BY <1>1, <3>1, <3>2 DEF Grown, Bound
  <2> QED
    BY <2>1, <2>2
<1>5. Assembling'
  <2>1. Chain(disk)' /\ Held(disk)'
    BY <1>0, <1>1, SameSide DEF Chain, Held
  <2> HIDE DEF HeadEnd, HeadSide
  <2> QED
    BY <1>0, <1>1, <1>4, <2>1 DEF Assembling
<1>6. Durable'
  BY <1>0, <1>1, <1>5 DEF Durable
<1>7. Session'
  BY <1>0 DEF IInv, Session, CreateOutput, Goto
<1>8. Running'
  <2>1. (out[Current] = BomBytes)'
    BY <1>1, <1>2 DEF BomBytes
  <2>2. ~(journal.created[Current])'
    BY <1>0, <1>1
  <2> HIDE DEF Current
  <2> QED
    BY <1>0, <1>1, <2>1, <2>2 DEF Running, CreateOutput, Goto
<1> QED
  BY <1>3, <1>6, <1>7, <1>8 DEF IInv

\* Cutting a file to a length it has, or more, is taking its beginning.
LEMMA SetLenCuts ==
    ASSUME NEW K, NEW f \in Seq(K), NEW n \in 0..Len(f)
    PROVE  /\ SetLen(f, n) = SubSeq(f, 1, n) /\ SetLen(f, n) \in Seq(K) /\ Len(SetLen(f, n)) = n
           /\ SubSeq(SetLen(f, n), 1, n) = SubSeq(f, 1, n)
<1>1. /\ SubSeq(f, 1, n) \in Seq(K) /\ Len(SubSeq(f, 1, n)) = n
      /\ DOMAIN SubSeq(f, 1, n) = 1..n
      /\ \A i \in 1..n : SubSeq(f, 1, n)[i] = f[i]
  BY Beginning
<1>2. SetLen(f, n) = SubSeq(f, 1, n)
  <2>1. \A i \in 1..n : i <= Len(f)
    OBVIOUS
  <2>2. SetLen(f, n) = [i \in 1..n |-> f[i]]
    BY <2>1 DEF SetLen
  <2>3. SubSeq(f, 1, n) = [i \in 1..n |-> SubSeq(f, 1, n)[i]]
    BY <1>1
  <2> QED
    BY <1>1, <2>2, <2>3
<1>3. SubSeq(SubSeq(f, 1, n), 1, n) = SubSeq(f, 1, n)
  BY <1>1, AllOfIt
<1> QED
  BY <1>1, <1>2, <1>3

\* What is known before a part is appended.
LEMMA NextIs ==
    ASSUME IInv, pc = "append", journal.created[Current], journal.done[Current] < Total
    PROVE  LET c == Current
               i == Len(disk.chunks) - disk.done[c]
               b == disk.chunks[i].start
               e == disk.chunks[i].end
           IN  /\ c \in Sides /\ i \in DOMAIN disk.chunks /\ i \in 1..N /\ NextPart = i /\ journal = disk
               /\ parts[i][c] = Offsets(b, e, c)
               /\ out[c] \in Seq(0..N) /\ disk.len[c] \in 0..Len(out[c])
<1> DEFINE c == Current
           i == Len(disk.chunks) - disk.done[c]
<1>1. /\ journal = disk /\ disk \in Journals /\ side \in [1..N -> BOOLEAN]
      /\ Chain(disk) /\ Held(disk) /\ Grown(disk, c) /\ disk.done[c] <= Len(disk.chunks)
      /\ c \in Sides /\ disk.len[c] \in 0..N /\ out \in [Sides -> Files]
      /\ disk.done[c] \in 0..N /\ Len(disk.chunks) \in Nat
  BY AppendingIs DEF IInv, TypeOK
<1>2. disk.created[c] /\ disk.done[c] < Len(disk.chunks) /\ NextPart = i
  BY <1>1 DEF Total, NextPart
<1> HIDE DEF c
<1>3. i \in DOMAIN disk.chunks /\ i \in 1..N
  BY <1>1, <1>2, BoundIs
<1>4. i + disk.done[c] <= Len(disk.chunks)
  BY <1>1, SizeAssumption
<1>5. parts[i][c] = Offsets(disk.chunks[i].start, disk.chunks[i].end, c)
  BY <1>1, <1>3, <1>4 DEF Held
<1>6. out[c] \in Seq(0..N) /\ disk.len[c] \in 0..Len(out[c])
  <2>1. out[c] # Missing /\ disk.len[c] <= Len(out[c])
    BY <1>1, <1>2 DEF Grown
  <2>2. out[c] \in Seq(0..N)
    BY <1>1, <2>1 DEF Files
  <2>3. Len(out[c]) \in Nat
    BY <2>2
  <2> QED
    BY <1>1, <2>1, <2>2, <2>3, SizeAssumption
<1> QED
  BY <1>1, <1>2, <1>3, <1>5, <1>6 DEF c

\* The output is cut to what the journal says it has, and the part opened.
LEMMA AppendOpenKeeps == ASSUME IInv, OneAtATime, AppendOpen PROVE IInv'
<1>0. /\ journal = disk /\ disk.phase = "assemble" /\ disk.renamed
      /\ side \in [1..N -> BOOLEAN] /\ result = "none"
      /\ original = Missing /\ disk.created[HeadSide]
      /\ Chain(disk) /\ Held(disk) /\ disk.cut = HeadEnd
      /\ \A s \in Sides : Grown(disk, s)
      /\ Current \in Sides /\ disk.created[Current] /\ disk.done[Current] < Len(disk.chunks)
      /\ out \in [Sides -> Files] /\ parts \in [1..N -> [Sides -> Files]]
      /\ disk.done[Current] \in 0..N /\ Len(disk.chunks) \in Nat
  BY AppendingIs DEF AppendOpen, Goto, IInv, TypeOK, Session, Total
<1>1. /\ HeadEnd' = HeadEnd /\ HeadSide' = HeadSide /\ Current' = Current /\ Total' = Total
      /\ NextPart' = NextPart
      /\ UNCHANGED <<side, original, parts, disk, journal>>
  BY SameSide DEF AppendOpen, Current, Total, NextPart
<1> DEFINE c == Current
           i == NextPart
           l == disk.len[c]
<1>2. /\ c \in Sides /\ i \in DOMAIN disk.chunks /\ i \in 1..N
      /\ parts[i][c] = Offsets(disk.chunks[i].start, disk.chunks[i].end, c)
      /\ out[c] \in Seq(0..N) /\ l \in 0..Len(out[c])
  BY NextIs DEF AppendOpen, Goto
<1>s. /\ HeadEnd' = HeadEnd /\ HeadSide' = HeadSide /\ c' = c /\ i' = i
      /\ UNCHANGED <<side, original, parts, disk, journal>>
  BY <1>1
<1>3. /\ out' = [out EXCEPT ![c] = SetLen(out[c], l)]
      /\ reading' = [NothingOpen EXCEPT ![c] = parts[i][c]]
  BY <1>0 DEF AppendOpen
<1>c. c \in Sides /\ disk.created[c] /\ disk.done[c] < Len(disk.chunks)
  BY <1>0
<1> HIDE DEF c, i
<1>4. /\ SetLen(out[c], l) \in Seq(0..N) /\ Len(SetLen(out[c], l)) = l
      /\ SubSeq(SetLen(out[c], l), 1, l) = SubSeq(out[c], 1, l)
  BY <1>2, SetLenCuts
<1>5. /\ out' \in [Sides -> Files] /\ out'[c] = SetLen(out[c], l)
      /\ \A s \in Sides : s # c => out'[s] = out[s]
  BY <1>0, <1>2, <1>3, <1>4 DEF Files
<1>6. reading' \in [Sides -> Files] /\ reading'[c] = Offsets(disk.chunks[i].start, disk.chunks[i].end, c)
  <2>1. parts[i][c] \in Files
    BY <1>0, <1>2
  <2> QED
    BY <1>2, <1>3, <2>1, FreshValues
<1>7. TypeOK'
  BY <1>5, <1>6 DEF IInv, TypeOK, AppendOpen, Goto, budget
<1>8. ASSUME NEW s \in Sides PROVE Grown(disk, s)'
  <2>1. CASE s = c
    <3>1. /\ out'[c] # Missing /\ Len(out'[c]) = l /\ l <= l
          /\ SubSeq(out'[c], 1, l) = SubSeq(out[c], 1, l)
      <4>1. out'[c] \in Seq(Nat)
        BY <1>4, <1>5, SizeAssumption
      <4>2. l \in Nat
        BY <1>2
      <4> QED
        BY <1>4, <1>5, <4>1, <4>2, MissingAssumption
    <3>2. Grown(disk, c)
      BY <1>0, <1>c
    <3>3. SubSeq(out'[c], 1, l) = BomBytes \o Offsets(Bom, Bound(disk, c), c)
      BY <1>c, <3>1, <3>2 DEF Grown
    <3>4. (SubSeq(out[s], 1, disk.len[s]) = BomBytes \o Offsets(Bom, Bound(disk, s), s))'
      BY <1>s, <2>1, <3>3, SameSide DEF Bound, BomBytes
    <3>5. (disk.done[s] <= Len(disk.chunks) /\ disk.created[s] /\ out[s] # Missing
           /\ disk.len[s] <= Len(out[s]) /\ Len(out[s]) = disk.len[s])'
      BY <1>s, <1>c, <2>1, <3>1, <3>2 DEF Grown
    <3> QED
      BY <3>4, <3>5 DEF Grown
  <2>2. CASE s # c
    <3>1. PICK j : j = disk
      OBVIOUS
    <3>2. Grown(j, s)'
      BY <1>0, <1>s, <1>5, <2>2, <3>1, SameGrown
    <3> QED
      BY <1>s, <3>1, <3>2 DEF Grown, Bound
  <2> QED
    BY <2>1, <2>2
<1>9. Assembling'
  <2>1. Chain(disk)' /\ Held(disk)'
    BY <1>0, <1>s, SameSide DEF Chain, Held
  <2> HIDE DEF HeadEnd, HeadSide
  <2> QED
    BY <1>0, <1>s, <1>8, <2>1 DEF Assembling
<1>10. Durable'
  BY <1>0, <1>s, <1>9 DEF Durable
<1>11. Session'
  BY <1>0 DEF IInv, Session, AppendOpen, Goto
<1>12. Running'
  <2>1. Len(out'[c]) = l /\ l \in Nat
    BY <1>2, <1>4, <1>5
  <2>2. Len(reading'[c]) \in Nat
    <3>1. parts[i][c] # Missing
      BY DEF AppendOpen, c, i
    <3>2. reading'[c] = parts[i][c] /\ parts[i][c] \in Seq(0..N)
      BY <1>0, <1>2, <1>6, <3>1 DEF Files
    <3> QED
      BY <3>2
  <2>3. /\ (journal.created[Current] /\ journal.done[Current] < Total)'
        /\ (reading[Current] = Offsets(journal.chunks[NextPart].start,
                                       journal.chunks[NextPart].end, Current))'
        /\ (Len(out[Current]) <= journal.len[Current] + Len(reading[Current]))'
        /\ (\A h \in 1..(Len(out[Current]) - journal.len[Current]) :
              out[Current][journal.len[Current] + h] = reading[Current][h])'
    <3>1. (journal.created[c] /\ journal.done[c] < Len(disk.chunks))'
      BY <1>0, <1>c, <1>s
    <3>2. (reading[c] = Offsets(journal.chunks[i].start, journal.chunks[i].end, c))'
      BY <1>0, <1>6, <1>s, SameSide
    <3>3. (Len(out[c]) <= journal.len[c] + Len(reading[c]))' /\ (Len(out[c]) - journal.len[c] = 0)'
      BY <1>0, <1>s, <2>1, <2>2
    <3>4. (\A h \in 1..(Len(out[c]) - journal.len[c]) : out[c][journal.len[c] + h] = reading[c][h])'
      BY <3>3
    <3> QED
      BY <1>0, <1>s, <3>1, <3>2, <3>3, <3>4 DEF c, i, Total
  <2> HIDE DEF Current, NextPart, Total
  <2> QED
    BY <1>0, <1>s, <2>3 DEF Running, AppendOpen, Goto
<1> QED
  BY <1>7, <1>10, <1>11, <1>12 DEF IInv

\* The next byte of the part is appended to the output.
LEMMA CopyByteKeeps == ASSUME IInv, OneAtATime, CopyByte PROVE IInv'
<1>0. /\ journal = disk /\ disk.phase = "assemble" /\ disk.renamed
      /\ side \in [1..N -> BOOLEAN] /\ result = "none"
      /\ original = Missing /\ disk.created[HeadSide]
      /\ Chain(disk) /\ Held(disk) /\ disk.cut = HeadEnd
      /\ \A s \in Sides : Grown(disk, s)
      /\ Current \in Sides /\ disk.created[Current] /\ disk.done[Current] < Len(disk.chunks)
      /\ out \in [Sides -> Files]
      /\ disk.done[Current] \in 0..N /\ Len(disk.chunks) \in Nat
  BY AppendingIs, CopyingIs DEF CopyByte, IInv, TypeOK, Session
<1>1. /\ HeadEnd' = HeadEnd /\ HeadSide' = HeadSide /\ Current' = Current /\ Total' = Total
      /\ NextPart' = NextPart
      /\ UNCHANGED <<side, original, parts, disk, journal, reading>>
  BY SameSide DEF CopyByte, Current, Total, NextPart
<1> DEFINE c == Current
           i == NextPart
           l == disk.len[c]
           n == Len(out[c])
           f == Append(out[c], reading[c][n - l + 1])
<1>2. /\ c \in Sides
      /\ reading[c] = Offsets(disk.chunks[i].start, disk.chunks[i].end, c) /\ reading[c] \in Seq(0..N)
      /\ NextLen = Len(reading[c])
      /\ out[c] \in Seq(0..N) /\ l \in Nat /\ l <= n
      /\ SubSeq(out[c], 1, l) = BomBytes \o Offsets(Bom, Bound(disk, c), c)
      /\ \A h \in 1..(n - l) : out[c][l + h] = reading[c][h]
  BY CopyingIs DEF CopyByte
<1>s. /\ HeadEnd' = HeadEnd /\ HeadSide' = HeadSide /\ c' = c /\ i' = i
      /\ UNCHANGED <<side, original, parts, disk, journal, reading>>
  BY <1>1
<1>3. /\ out' = [out EXCEPT ![c] = f] /\ n - l + 1 <= Len(reading[c])
  BY <1>0, <1>2 DEF CopyByte, CopyAt
<1>c. c \in Sides /\ disk.created[c] /\ disk.done[c] < Len(disk.chunks)
  BY <1>0
<1> HIDE DEF c, i
<1>4. /\ f \in Seq(0..N) /\ Len(f) = n + 1 /\ n \in Nat /\ Len(reading[c]) \in Nat
      /\ \A h \in 1..n : f[h] = out[c][h]
      /\ f[n + 1] = reading[c][n - l + 1]
      /\ SubSeq(f, 1, l) = SubSeq(out[c], 1, l)
  <2> DEFINE r == reading[c]
             g == out[c]
             K == 0..N
             h == n - l + 1
  <2>1. r \in Seq(K) /\ g \in Seq(K) /\ n = Len(g) /\ n \in Nat /\ Len(r) \in Nat
    BY <1>2
  <2>2. h \in 1..Len(r)
    BY <1>2, <1>3, <2>1
  <2>3. r[h] \in K
    <3> HIDE DEF r, g, K, h
    <3> QED
      BY <2>1, <2>2, ElementOfSeq
  <2>4. f = Append(g, r[h])
    OBVIOUS
  <2>5. l \in 0..Len(g) /\ l \in 0..(Len(g) + 1)
    BY <1>2, <2>1
  <2> HIDE DEF r, g, K, h, f, l, n
  <2>6. /\ f \in Seq(K) /\ Len(f) = Len(g) + 1 /\ (\A x \in 1..Len(g) : f[x] = g[x]) /\ f[Len(g) + 1] = r[h]
    BY <2>1, <2>3, <2>4, WithOneMore
  <2>7. SubSeq(f, 1, l) = SubSeq(g, 1, l)
    <3>1. /\ SubSeq(f, 1, l) \in Seq(K) /\ Len(SubSeq(f, 1, l)) = l
          /\ \A x \in 1..l : SubSeq(f, 1, l)[x] = f[x]
      BY <2>5, <2>6, Beginning
    <3>2. /\ SubSeq(g, 1, l) \in Seq(K) /\ Len(SubSeq(g, 1, l)) = l
          /\ \A x \in 1..l : SubSeq(g, 1, l)[x] = g[x]
      BY <2>1, <2>5, Beginning
    <3>3. \A x \in 1..l : x \in 1..Len(g)
      BY <2>1, <2>5
    <3>4. \A x \in 1..l : SubSeq(f, 1, l)[x] = SubSeq(g, 1, l)[x]
      BY <2>6, <3>1, <3>2, <3>3
    <3> QED
      BY <3>1, <3>2, <3>4, SeqEqual
  <2> QED
    BY <2>1, <2>6, <2>7 DEF r, g, K, h
<1> HIDE DEF f
<1>5. /\ out' \in [Sides -> Files] /\ out'[c] = f
      /\ \A s \in Sides : s # c => out'[s] = out[s]
  BY <1>0, <1>2, <1>3, <1>4 DEF Files
<1>7. TypeOK'
  BY <1>5 DEF IInv, TypeOK, CopyByte, budget
<1>8. ASSUME NEW s \in Sides PROVE Grown(disk, s)'
  <2>1. CASE s = c
    <3>1. /\ out'[c] # Missing /\ l <= Len(out'[c])
          /\ SubSeq(out'[c], 1, l) = SubSeq(out[c], 1, l)
      <4>1. out'[c] \in Seq(Nat)
        BY <1>4, <1>5, SizeAssumption
      <4>2. l \in Nat /\ l <= n
        BY <1>2
      <4> HIDE DEF l, n
      <4> QED
        BY <1>4, <1>5, <4>1, <4>2, MissingAssumption
    <3>2. Grown(disk, c)
      BY <1>0, <1>c
    <3>3. SubSeq(out'[c], 1, l) = BomBytes \o Offsets(Bom, Bound(disk, c), c)
      BY <1>2, <3>1
    <3>4. (SubSeq(out[s], 1, disk.len[s]) = BomBytes \o Offsets(Bom, Bound(disk, s), s))'
      BY <1>s, <2>1, <3>3, SameSide DEF Bound, BomBytes
    <3>5. disk.done[c] <= Len(disk.chunks) /\ disk.done[c] # Len(disk.chunks)
      <4>1. disk.done[c] \in 0..N /\ Len(disk.chunks) \in Nat
        BY <1>0 DEF c
      <4> QED
        BY <1>c, <4>1, SizeAssumption
    <3>6. (disk.done[s] <= Len(disk.chunks) /\ disk.created[s] /\ out[s] # Missing
           /\ disk.len[s] <= Len(out[s]) /\ disk.done[s] # Len(disk.chunks))'
      BY <1>s, <1>c, <2>1, <3>1, <3>5
    <3> QED
      BY <3>4, <3>6 DEF Grown
  <2>2. CASE s # c
    <3>1. PICK j : j = disk
      OBVIOUS
    <3>2. Grown(j, s)'
      BY <1>0, <1>s, <1>5, <2>2, <3>1, SameGrown
    <3> QED
      BY <1>s, <3>1, <3>2 DEF Grown, Bound
  <2> QED
    BY <2>1, <2>2
<1>9. Assembling'
  <2>1. Chain(disk)' /\ Held(disk)'
    BY <1>0, <1>s, SameSide DEF Chain, Held
  <2> HIDE DEF HeadEnd, HeadSide
  <2> QED
    BY <1>0, <1>s, <1>8, <2>1 DEF Assembling
<1>10. Durable'
  BY <1>0, <1>s, <1>9 DEF Durable
<1>11. Session'
  BY <1>0 DEF IInv, Session, CopyByte
<1>12. Running'
  <2>3. /\ (journal.created[Current] /\ journal.done[Current] < Total)'
        /\ (reading[Current] = Offsets(journal.chunks[NextPart].start,
                                       journal.chunks[NextPart].end, Current))'
        /\ (Len(out[Current]) <= journal.len[Current] + Len(reading[Current]))'
        /\ (\A h \in 1..(Len(out[Current]) - journal.len[Current]) :
              out[Current][journal.len[Current] + h] = reading[Current][h])'
    <3>1. (journal.created[c] /\ journal.done[c] < Len(disk.chunks))'
      BY <1>0, <1>c, <1>s
    <3>2. (reading[c] = Offsets(journal.chunks[i].start, journal.chunks[i].end, c))'
      BY <1>0, <1>2, <1>s, SameSide
    <3>3. Len(f) <= l + Len(reading[c])
      <4>1. l \in Nat
        BY <1>2
      <4> HIDE DEF l, n
      <4> QED
        BY <1>3, <1>4, <4>1
    <3>4. ASSUME NEW h \in 1..(Len(f) - l) PROVE f[l + h] = reading[c][h]
      <4>1. l \in Nat /\ l <= n /\ n \in Nat /\ Len(f) = n + 1
        BY <1>2, <1>4
      <4>2. CASE h \in 1..(n - l)
        <5>1. l + h \in 1..n
          <6> HIDE DEF l, n
          <6> QED
            BY <4>1, <4>2
        <5> QED
          BY <1>2, <1>4, <4>2, <5>1
      <4>3. CASE h = n - l + 1
        <5>1. l + h = n + 1
          <6> HIDE DEF l, n
          <6> QED
            BY <4>1, <4>3
        <5> QED
          BY <1>4, <4>3, <5>1
      <4>4. h \in 1..(n - l) \/ h = n - l + 1
        <5> HIDE DEF l, n
        <5> QED
          BY <4>1
      <4> QED
        BY <4>2, <4>3, <4>4
    <3>5. (Len(out[c]) <= journal.len[c] + Len(reading[c]))'
      BY <1>0, <1>5, <1>s, <3>3
    <3>6. (\A h \in 1..(Len(out[c]) - journal.len[c]) : out[c][journal.len[c] + h] = reading[c][h])'
      BY <1>0, <1>5, <1>s, <3>4
    <3> QED
      BY <1>0, <1>s, <3>1, <3>2, <3>5, <3>6 DEF c, i, Total
  <2> HIDE DEF Current, NextPart, Total
  <2> QED
    BY <1>0, <1>s, <2>3 DEF Running, CopyByte
<1> QED
  BY <1>7, <1>10, <1>11, <1>12 DEF IInv

\* A part that was appended is removed: no journal counts on it.
LEMMA RemovePartKeeps == ASSUME IInv, OneAtATime, RemovePart PROVE IInv'
<1>0. /\ journal = disk /\ disk.phase = "assemble" /\ disk.renamed
      /\ side \in [1..N -> BOOLEAN] /\ result = "none"
      /\ original = Missing /\ disk.created[HeadSide]
      /\ Chain(disk) /\ Held(disk) /\ disk.cut = HeadEnd
      /\ \A s \in Sides : Grown(disk, s) /\ disk.done[s] \in 0..N
      /\ HeadSide \in Sides
      /\ parts \in [1..N -> [Sides -> Files]]
      /\ Len(disk.chunks) \in Nat /\ DOMAIN disk.chunks = 1..Len(disk.chunks) /\ Len(disk.chunks) <= N
  BY AppendingIs, ChunkValues DEF RemovePart, Goto, IInv, TypeOK, Session
<1>1. /\ HeadEnd' = HeadEnd /\ HeadSide' = HeadSide
      /\ UNCHANGED <<side, original, out, disk, journal>>
  BY SameSide DEF RemovePart
<1> DEFINE a == Appended
           m == Len(disk.chunks) - disk.done[a] + 1
<1>2. a \in Sides /\ (parts' = [parts EXCEPT ![m][a] = Missing] \/ parts' = parts)
  <2>1. a \in Sides
    BY <1>0, HeadIs DEF Appended
  <2> QED
    BY <1>0, <2>1 DEF RemovePart, Total
<1> HIDE DEF a
<1>3. parts' \in [1..N -> [Sides -> Files]]
  <2>1. Missing \in Files
    BY DEF Files
  <2> HIDE DEF m
  <2> QED
    BY <1>0, <1>2, <2>1
<1>4. TypeOK'
  <2>1. faults' \in 0..MaxFaults
    BY FaultType DEF IInv, TypeOK, RemovePart, NoFault
  <2> QED
    BY <1>3, <2>1 DEF IInv, TypeOK, RemovePart, Goto
<1>5. Held(disk)'
  <2>1. ASSUME NEW h \in DOMAIN disk.chunks, NEW s \in Sides, h + disk.done[s] <= Len(disk.chunks)
        PROVE  parts'[h][s] = parts[h][s]
    <3>1. h \in 1..N /\ h \in Nat
      BY <1>0, SizeAssumption
    <3>2. disk.done[a] \in Nat /\ disk.done[s] \in Nat
      BY <1>0, <1>2, SizeAssumption
    <3>3. ~(h = m /\ s = a)
      BY <1>0, <2>1, <3>1, <3>2
    <3> HIDE DEF m
    <3> QED
      BY <1>0, <1>2, <3>1, <3>3
  <2> QED
    BY <1>0, <1>1, <2>1, SameSide, SMTT(30) DEF Held
<1>6. Assembling'
  <2>1. Chain(disk)'
    BY <1>0, <1>1, SameSide DEF Chain
  <2>2. \A s \in Sides : Grown(disk, s)'
    <3>1. PICK j : j = disk
      OBVIOUS
    <3>2. \A s \in Sides : Grown(j, s)'
      BY <1>0, <1>1, <3>1, SameGrown
    <3> QED
      BY <1>1, <3>1, <3>2 DEF Grown, Bound
  <2> HIDE DEF HeadEnd, HeadSide
  <2> QED
    BY <1>0, <1>1, <1>5, <2>1, <2>2 DEF Assembling
<1>7. Durable'
  BY <1>0, <1>1, <1>6 DEF Durable
<1>8. Session'
  BY <1>0 DEF IInv, Session, RemovePart, Goto
<1>9. Running'
  BY <1>0, <1>1 DEF IInv, Running, RemovePart, Goto
<1> QED
  BY <1>4, <1>7, <1>8, <1>9 DEF IInv

\* The disk a separation starts from.
LEMMA InitHolds == ASSUME Init PROVE IInv
<1>1. TypeOK
  <2>1. Whole \in Files /\ {Missing, <<0>>} \subseteq Files
    BY WholeIs, SizeAssumption DEF Files
  <2>2. 0 \in 0..MaxFaults /\ 0 \in 0..MaxCrashes
    BY CrashAssumption
  <2>3. /\ side \in [1..N -> BOOLEAN] /\ original \in Files /\ {work, map} \subseteq BOOLEAN
        /\ parts \in [1..N -> [Sides -> Files]] /\ reading \in [Sides -> Files]
    BY <2>1, FreshValues DEF Init
  <2>4. out \in [Sides -> Files]
    BY <2>1 DEF Init
  <2>5. {disk, journal, request.journal} \subseteq Journals /\ Len(disk.chunks) <= N
    BY FreshValues, SizeAssumption DEF Init
  <2>6. request.kind \in {"none", "finish", "undo"}
    BY FreshValues DEF Init
  <2> QED
    BY <2>2, <2>3, <2>4, <2>5, <2>6 DEF Init, TypeOK
<1>2. Intact /\ disk = NoJournal /\ disk.phase = "none"
  BY DEF Init, Intact, Untouched, NoJournal
<1>3. Durable
  BY <1>2 DEF Durable
<1>4. Session
  BY DEF Init, Session
<1>5. Running
  BY DEF Init, Running
<1> QED
  BY <1>1, <1>3, <1>4, <1>5 DEF IInv

\* A step that changes nothing.
LEMMA StutterKeeps == ASSUME IInv, UNCHANGED vars PROVE IInv'
<1>0. UNCHANGED <<side, original, out, parts, work, map, disk, journal, reading, pc,
                  request, listing, listed, result, faults, crashes>>
  BY DEF vars
<1>1. TypeOK'
  BY <1>0 DEF IInv, TypeOK
<1>2. Durable'
  BY <1>0, Restful DEF IInv
<1>3. Session'
  BY <1>0, SameEnds DEF IInv, Session
<1>4. Running'
  <2>1. Ahead => Ahead'
    BY <1>0, AheadRests
  <2>2. HeadSide' = HeadSide /\ HeadEnd' = HeadEnd /\ (\A a, b, s : Offsets(a, b, s)' = Offsets(a, b, s))
    BY <1>0, SameSide
  <2>3. /\ Current' = Current /\ LastChunk' = LastChunk /\ Total' = Total
        /\ NextPart' = NextPart
    BY <1>0, <2>2 DEF Current, LastChunk, Total, NextPart
  <2>4. BomBytes' = BomBytes
    BY DEF BomBytes
  <2> HIDE DEF HeadSide, HeadEnd, Current, LastChunk, Total, NextPart, Offsets, BomBytes
  <2> QED
    BY <1>0, <2>1, <2>2, <2>3, <2>4 DEF IInv, Running
<1> QED
  BY <1>1, <1>2, <1>3, <1>4 DEF IInv

\* Every step keeps the invariant.
LEMMA NextKeeps == ASSUME IInv, OneAtATime, [Next]_vars PROVE IInv'
<1>1. CASE Decide
  BY <1>1, StartKeeps, DecideDoneKeeps, DecideFailsKeeps DEF Decide
<1>2. CASE Carve
  BY <1>2, CarveOpenKeeps, CarveRefusedKeeps, CarveChunkKeeps, RecordKeeps, TruncateKeeps,
     CarveStopsKeeps, CarveDoneKeeps DEF Carve
<1>3. CASE Undo
  BY <1>3, UndoOpenKeeps, PutBackOpenKeeps, PutBackByteKeeps, PutBackSavedKeeps,
     RemovePartsKeeps, UndoDoneKeeps, UndoFailsKeeps DEF Undo
<1>4. CASE Assemble
  BY <1>4, AssemblePhaseKeeps, RenameKeeps, RenameRecordedKeeps, AlreadyRenamedKeeps,
     CreateOutputKeeps, CreateRecordedKeeps, AppendOpenKeeps, CopyByteKeeps,
     AppendRecordedKeeps, RemovePartKeeps, AssembleDoneKeeps, AssembleFailsKeeps DEF Assemble
<1>5. CASE Discard
  BY <1>5, DiscardWorkKeeps, DiscardJournalKeeps DEF Discard
<1>6. CASE Recover
  BY <1>6, RecoverLoadKeeps, RecoverClaimKeeps, RecoverRefusedKeeps DEF Recover
<1>7. CASE List
  BY <1>7, ListSnapshotKeeps, ListLoadKeeps, ListDiscardWorkKeeps, ListDiscardJournalKeeps DEF List
<1>8. CASE Crash
  BY <1>8, CrashKeeps
<1>9. CASE UNCHANGED vars
  BY <1>9, StutterKeeps
<1> QED
  BY <1>1, <1>2, <1>3, <1>4, <1>5, <1>6, <1>7, <1>8, <1>9 DEF Next

\* The invariant of the separation (log_split/lowspace.rs, log_split/mod.rs)
\* holds in every state, whatever fails and wherever the process is killed.
THEOREM SplitInvariantHolds == ASSUME OneAtATime PROVE Spec => []IInv
<1>1. Init => IInv
  BY InitHolds
<1>2. IInv /\ [Next]_vars => IInv'
  BY NextKeeps
<1> QED
  BY <1>1, <1>2, PTL DEF Spec

-----------------------------------------------------------------------------
(* What the invariant says of the bytes.                                    *)

\* A byte of a stretch is among those of its side.
LEMMA InOffsets ==
    ASSUME NEW a \in 0..N, NEW b \in a..N, NEW k \in (a + 1)..b, NEW s, side[k] = s
    PROVE  k \in Content(Offsets(a, b, s))
<1>0. N \in Nat /\ a \in Nat /\ b \in Nat
  BY SizeAssumption
<1>1. /\ Len(Offsets(a, k, s)) \in 1..Len(Offsets(a, b, s))
      /\ Offsets(a, b, s)[Len(Offsets(a, k, s))] = k
  BY OffsetsAt
<1>2. Offsets(a, b, s) \in Seq((a + 1)..b)
  BY OffsetsType
<1> DEFINE q == Offsets(a, b, s)
<1>3. q \in Seq(Nat) /\ DOMAIN q = 1..Len(q)
  BY <1>0, <1>2
<1>4. q # Missing
  BY <1>3, MissingAssumption
<1> QED
  BY <1>1, <1>3, <1>4 DEF Content, ToSet

\* A byte of the mark is in every output, one behind it in that of its side.
LEMMA InOutput ==
    ASSUME NEW b \in Bom..N, NEW s, NEW k \in 1..b, k <= Bom \/ side[k] = s
    PROVE  \E i \in 1..Len(BomBytes \o Offsets(Bom, b, s)) :
             (BomBytes \o Offsets(Bom, b, s))[i] = k
<1>0. N \in Nat /\ Bom \in Nat /\ Bom \in 0..N /\ b \in Nat /\ k \in Nat
  BY SizeAssumption
<1> DEFINE x == BomBytes
           y == Offsets(Bom, b, s)
<1>1. x \in Seq(Nat) /\ Len(x) = Bom /\ \A i \in 1..Bom : x[i] = i
  BY <1>0 DEF BomBytes
<1>2. y \in Seq(Nat)
  <2>1. y \in Seq((Bom + 1)..b)
    BY <1>0, OffsetsType
  <2> QED
    BY <1>0, <2>1
<1>3. CASE k <= Bom
  <2> HIDE DEF x, y
  <2>1. k \in 1..Len(x \o y) /\ (x \o y)[k] = k
    BY <1>0, <1>1, <1>2, <1>3
  <2> QED
    BY <2>1 DEF x, y
<1>4. CASE ~(k <= Bom)
  <2>1. k \in (Bom + 1)..b /\ side[k] = s
    BY <1>0, <1>4
  <2> DEFINE i == Len(Offsets(Bom, k, s))
  <2>2. i \in 1..Len(y) /\ y[i] = k
    BY <1>0, <2>1, OffsetsAt
  <2> HIDE DEF x, y, i
  <2>3. Bom + i \in 1..Len(x \o y) /\ (x \o y)[Bom + i] = k
    BY <1>0, <1>1, <1>2, <2>2
  <2> QED
    BY <2>3 DEF x, y
<1> QED
  BY <1>3, <1>4

\* So it is in a file that begins so.
LEMMA InFile ==
    ASSUME NEW b \in Bom..N, NEW s, NEW k \in 1..b, k <= Bom \/ side[k] = s,
           NEW f \in Seq(0..N), f # Missing, NEW l \in 0..Len(f),
           SubSeq(f, 1, l) = BomBytes \o Offsets(Bom, b, s)
    PROVE  k \in Content(f)
<1> DEFINE x == BomBytes \o Offsets(Bom, b, s)
<1>1. PICK i \in 1..Len(x) : x[i] = k
  BY InOutput
<1> HIDE DEF x
<1>2. Len(x) = l /\ \A h \in 1..l : x[h] = f[h]
  <2> DEFINE K == 0..N
  <2>1. f \in Seq(K)
    OBVIOUS
  <2>2. SubSeq(f, 1, l) = x
    BY DEF x
  <2> HIDE DEF K
  <2> QED
    BY <2>1, <2>2, Beginning
<1>3. i \in 1..Len(f) /\ f[i] = k /\ DOMAIN f = 1..Len(f)
  BY <1>1, <1>2
<1> QED
  BY <1>3 DEF Content, ToSet

\* The first numbers are in the file they are.
LEMMA InPrefix ==
    ASSUME NEW n \in 0..N, NEW k \in 1..n
    PROVE  k \in Content(Prefix(n))
<1>1. n \in Nat /\ Prefix(n) \in Seq(Nat) /\ Len(Prefix(n)) = n /\ Prefix(n)[k] = k
  BY PrefixIs, SizeAssumption
<1>2. Prefix(n) # Missing /\ DOMAIN Prefix(n) = 1..n
  BY <1>1, MissingAssumption
<1> QED
  BY <1>1, <1>2 DEF Content, ToSet

\* A byte behind the start of a chunk is in the parts of the chunks up to it,
\* when those are still to be appended.
LEMMA InParts ==
    ASSUME side \in [1..N -> BOOLEAN], NEW j \in Journals, Chain(j), Held(j),
           NEW k \in 1..N, NEW i \in 0..Len(j.chunks),
           i + j.done[side[k]] <= Len(j.chunks),
           \E h \in 1..i : j.chunks[h].start < k /\ k <= j.chunks[h].end
    PROVE  \E s \in Sides : \E h \in 1..N : k \in Content(parts[h][s])
<1> DEFINE s == side[k]
<1>0. s \in Sides /\ N \in Nat
  BY SizeAssumption DEF Sides
<1>1. PICK h \in 1..i : j.chunks[h].start < k /\ k <= j.chunks[h].end
  OBVIOUS
<1>2. /\ Len(j.chunks) \in Nat /\ DOMAIN j.chunks = 1..Len(j.chunks) /\ j.done[s] \in 0..N
  BY <1>0, ChunkValues
<1>3. h \in 1..Len(j.chunks) /\ h + j.done[s] <= Len(j.chunks)
  <2> HIDE DEF s
  <2>1. i + j.done[s] <= Len(j.chunks)
    BY DEF s
  <2> QED
    BY <1>0, <1>2, <2>1, SMTT(30)
<1>4. /\ j.chunks[h].start \in 0..N /\ j.chunks[h].end \in j.chunks[h].start..N /\ h \in 1..N
  <2>1. /\ j.chunks[h].start \in 0..N /\ j.chunks[h].end \in j.chunks[h].start..N /\ h <= N
    BY <1>3, ChainChunk
  <2> QED
    BY <1>0, <1>3, <2>1
<1>5. parts[h][s] = Offsets(j.chunks[h].start, j.chunks[h].end, s)
  BY <1>0, <1>2, <1>3 DEF Held
<1>6. PICK a, b : a = j.chunks[h].start /\ b = j.chunks[h].end
  OBVIOUS
<1>7. a \in 0..N /\ b \in a..N /\ k \in (a + 1)..b
  BY <1>0, <1>1, <1>4, <1>6
<1>8. k \in Content(Offsets(a, b, s))
  BY <1>7, InOffsets
<1> QED
  BY <1>0, <1>4, <1>5, <1>6, <1>8

-----------------------------------------------------------------------------
(* What a restart finds keeps every byte.                                   *)

\* A whole original has every byte, and so have the two outputs it becomes.
LEMMA EndsHaveAll ==
    ASSUME TypeOK, Intact \/ Delivered, NEW k \in 1..N
    PROVE  k \in Content(original) \/ \E s \in Sides : k \in Content(out[s])
<1>0. N \in Nat /\ N \in 0..N /\ Bom \in 0..N /\ N \in Bom..N /\ N \in 0..N
  BY SizeAssumption
<1>1. CASE Intact
  BY <1>0, <1>1, WholeIs, InPrefix DEF Intact
<1>2. CASE Delivered
  <2> DEFINE s == side[k]
  <2>1. s \in Sides
    BY DEF TypeOK, Sides
  <2>2. /\ BomBytes \in Seq(Nat) /\ Offsets(Bom, N, s) \in Seq(Nat)
    <3>1. Offsets(Bom, N, s) \in Seq((Bom + 1)..N)
      BY <1>0, OffsetsType
    <3> QED
      BY <1>0, <3>1 DEF BomBytes
  <2>3. PICK i \in 1..Len(Expected(s)) : Expected(s)[i] = k
    BY <1>0, InOutput DEF Expected
  <2>4. Expected(s) \in Seq(Nat)
    <3> DEFINE x == BomBytes
               y == Offsets(Bom, N, s)
    <3>1. x \in Seq(Nat) /\ y \in Seq(Nat)
      BY <2>2
    <3> HIDE DEF x, y
    <3>2. x \o y \in Seq(Nat)
      BY <3>1
    <3> QED
      BY <3>2 DEF x, y, Expected
  <2>5. out[s] = Expected(s)
    BY <1>2, <2>1 DEF Delivered
  <2> DEFINE f == out[s]
  <2>6. f \in Seq(Nat) /\ f # Missing /\ i \in DOMAIN f /\ f[i] = k
    <3>1. f \in Seq(Nat) /\ f # Missing /\ i \in 1..Len(f) /\ f[i] = k
      BY <2>3, <2>4, <2>5, MissingAssumption
    <3> HIDE DEF f
    <3> QED
      BY <3>1
  <2>7. k \in Content(f)
    BY <2>6 DEF Content, ToSet
  <2> QED
    BY <2>1, <2>7
<1> QED
  BY <1>1, <1>2

\* While it is cut, a byte is in the original, in the parts of a chunk the
\* saved journal counts, or in those of one it does not count yet.
LEMMA CuttingHasAll ==
    ASSUME TypeOK, Cutting, NEW k \in 1..N
    PROVE  k \in Content(original) \/ \E s \in Sides : \E i \in 1..N : k \in Content(parts[i][s])
<1>0. /\ N \in Nat /\ k \in Nat /\ side \in [1..N -> BOOLEAN] /\ disk \in Journals
      /\ Chain(disk) /\ Held(disk) /\ Fresh(disk)
      /\ original = Prefix(Len(original)) /\ Len(original) \in 0..N
  <2>1. original \in Seq(0..N) /\ Len(original) <= N /\ N \in Nat
    BY SizeAssumption DEF TypeOK, Cutting, Files
  <2>2. Len(original) \in 0..N
    BY <2>1
  <2> QED
    BY <2>1, <2>2 DEF TypeOK, Cutting
<1>1. /\ Len(disk.chunks) \in Nat /\ disk.cut \in 0..N /\ disk.cut \in HeadEnd..N
      /\ disk.cut + Len(disk.chunks) <= N
      /\ \A h \in (disk.cut + 1)..N : \E i \in 1..Len(disk.chunks) :
            disk.chunks[i].start < h /\ h <= disk.chunks[i].end
  BY <1>0, ChunkValues, ChainCut
<1>2. side[k] \in Sides
  BY <1>0 DEF Sides
<1>3. CASE k <= Len(original)
  <2>1. PICK n : n = Len(original)
    OBVIOUS
  <2>2. k \in 1..n /\ n \in 0..N /\ original = Prefix(n)
    BY <1>0, <1>3, <2>1
  <2> QED
    BY <2>2, InPrefix
<1>4. CASE k > disk.cut
  <2>1. disk.done[side[k]] = 0
    BY <1>0, <1>2 DEF Fresh
  <2>2. k \in (disk.cut + 1)..N
    BY <1>0, <1>1, <1>4
  <2>3. Len(disk.chunks) \in 0..Len(disk.chunks) /\ Len(disk.chunks) + disk.done[side[k]] <= Len(disk.chunks)
    BY <1>1, <2>1
  <2> QED
    BY <1>0, <1>1, <2>2, <2>3, InParts
<1>5. CASE k > Len(original) /\ k <= disk.cut
  <2>1. Len(original) < disk.cut /\ disk.cut >= 1
    BY <1>0, <1>1, <1>5
  <2>2. PICK start \in 0..Len(original) : \A s \in Sides :
           parts[Len(disk.chunks) + 1][s] = Offsets(start, disk.cut, s)
    BY <2>1 DEF Cutting, Stray
  <2>3. Len(disk.chunks) + 1 \in 1..N
    BY <1>0, <1>1, <2>1
  <2>4. PICK b : b = disk.cut
    OBVIOUS
  <2>5. start \in 0..N /\ b \in start..N /\ k \in (start + 1)..b
    BY <1>0, <1>1, <1>5, <2>1, <2>4
  <2>6. k \in Content(Offsets(start, b, side[k]))
    BY <2>5, InOffsets
  <2> QED
    BY <1>2, <2>2, <2>3, <2>4, <2>6
<1> QED
  BY <1>0, <1>1, <1>3, <1>4, <1>5

\* While it is assembled, a byte is in what is left of the original, in the
\* output of its side or in the parts that output has yet to take.
LEMMA AssemblingHasAll ==
    ASSUME TypeOK, Assembling, NEW k \in 1..N
    PROVE  \/ k \in Content(original)
           \/ \E s \in Sides : \/ k \in Content(out[s])
                               \/ \E i \in 1..N : k \in Content(parts[i][s])
<1>0. /\ N \in Nat /\ k \in Nat /\ Bom \in Nat /\ Bom <= N
      /\ side \in [1..N -> BOOLEAN] /\ disk \in Journals
      /\ Chain(disk) /\ Held(disk) /\ disk.cut = HeadEnd
  BY SizeAssumption DEF TypeOK, Assembling
<1>1. /\ Len(disk.chunks) \in Nat /\ disk.cut \in 0..N
      /\ DOMAIN disk.chunks = 1..Len(disk.chunks)
      /\ \A h \in (disk.cut + 1)..N : \E i \in 1..Len(disk.chunks) :
            disk.chunks[i].start < h /\ h <= disk.chunks[i].end
  BY <1>0, ChunkValues, ChainCut
<1>2. side[k] \in Sides /\ HeadSide \in Sides
  BY <1>0, HeadIs DEF Sides
<1> DEFINE s == side[k]
<1>3. disk.done[s] \in Nat
  BY <1>0, <1>2, ChunkValues, SizeAssumption
<1>4. CASE ~disk.renamed
  <2>1. /\ Fresh(disk)
        /\ \/ original = Prefix(HeadEnd)
           \/ out[HeadSide] = Prefix(HeadEnd)
    BY <1>4 DEF Assembling
  <2>2. CASE k <= disk.cut
    <3>1. PICK n : n = HeadEnd
      OBVIOUS
    <3>2. n \in 0..N /\ k \in 1..n
      BY <1>0, <1>1, <2>2, <3>1
    <3>3. k \in Content(Prefix(n))
      BY <3>2, InPrefix
    <3> HIDE DEF HeadEnd, HeadSide
    <3> QED
      BY <1>2, <2>1, <3>1, <3>3
  <2>3. CASE k > disk.cut
    <3>1. disk.done[s] = 0
      BY <1>2, <2>1 DEF Fresh
    <3>2. k \in (disk.cut + 1)..N
      BY <1>0, <1>1, <2>3
    <3>3. Len(disk.chunks) \in 0..Len(disk.chunks) /\ Len(disk.chunks) + disk.done[s] <= Len(disk.chunks)
      BY <1>1, <3>1
    <3> QED
      BY <1>0, <1>1, <3>2, <3>3, InParts
  <2> QED
    BY <1>0, <1>1, <2>2, <2>3
<1>5. CASE disk.renamed
  <2>1. disk.created[HeadSide] /\ Grown(disk, s) /\ Grown(disk, HeadSide)
    BY <1>2, <1>5 DEF Assembling
  <2>2. disk.done[s] <= Len(disk.chunks) /\ disk.done[HeadSide] <= Len(disk.chunks)
    BY <2>1 DEF Grown
  <2>3. ASSUME NEW t \in Sides, disk.created[t], Grown(disk, t), disk.done[t] <= Len(disk.chunks),
               k <= Bom \/ s = t, k <= Bound(disk, t)
        PROVE  k \in Content(out[t])
    <3>1. PICK b, f, l : b = Bound(disk, t) /\ f = out[t] /\ l = disk.len[t]
      OBVIOUS
    <3>2. b \in Bom..N
      BY <1>0, <2>3, <3>1, BoundIs
    <3>3. /\ f \in Seq(0..N) /\ f # Missing /\ l \in Nat /\ l <= Len(f)
          /\ SubSeq(f, 1, l) = BomBytes \o Offsets(Bom, b, t)
      <4>1. out[t] \in Files /\ disk.len[t] \in Nat
        BY <1>0, <2>3, ChunkValues, SizeAssumption DEF TypeOK
      <4> QED
        BY <2>3, <3>1, <4>1 DEF Grown, Files
    <3>4. l \in 0..Len(f) /\ k \in 1..b
      BY <1>0, <2>3, <3>1, <3>2, <3>3
    <3>5. k \in Content(f)
      <4> HIDE DEF s
      <4>1. k <= Bom \/ side[k] = t
        BY <2>3 DEF s
      <4> QED
        BY <3>2, <3>3, <3>4, <4>1, InFile
    <3> QED
      BY <3>1, <3>5
  <2>4. CASE k <= Bom
    <3>1. Bound(disk, HeadSide) \in Bom..N
      BY <1>0, <1>2, <2>2, BoundIs
    <3>2. k <= Bound(disk, HeadSide)
      <4> DEFINE b == Bound(disk, HeadSide)
      <4> HIDE DEF b
      <4>1. b \in Bom..N
        BY <3>1 DEF b
      <4>2. k <= b
        BY <1>0, <2>4, <4>1
      <4> QED
        BY <4>2 DEF b
    <3> QED
      BY <1>2, <2>1, <2>2, <2>3, <2>4, <3>2
  <2>5. CASE ~(k <= Bom) /\ k <= Bound(disk, s) /\ disk.created[s]
    BY <1>2, <2>1, <2>2, <2>3, <2>5
  <2>6. CASE ~(k <= Bom) /\ k <= Bound(disk, s) /\ ~disk.created[s]
    <3>1. disk.done[s] = 0
      BY <2>1, <2>6 DEF Grown
    <3>2. Bound(disk, s) = HeadEnd
      BY <1>0, <1>2, <2>2, <3>1, BoundIs
    <3>3. k \in (Bom + 1)..HeadEnd
      <4>1. HeadEnd \in Bom..N /\ k <= HeadEnd
        BY <1>0, <2>6, <3>2, HeadIs
      <4> HIDE DEF HeadEnd
      <4> QED
        BY <1>0, <2>6, <4>1
    <3>4. side[k] = HeadSide
      BY <1>0, <3>3, HeadIs
    <3> HIDE DEF HeadSide
    <3> QED
      BY <2>1, <2>6, <3>4
  <2>7. CASE ~(k <= Bound(disk, s))
    <3> DEFINE i == Len(disk.chunks) - disk.done[s]
    <3>1. i \in 0..Len(disk.chunks) /\ i + disk.done[s] <= Len(disk.chunks)
      BY <1>1, <1>3, <2>2
    <3>2. i # 0
      <4>1. i = 0 => Bound(disk, s) = N
        BY DEF Bound
      <4> HIDE DEF i
      <4> QED
        BY <1>0, <2>7, <4>1
    <3>3. Bound(disk, s) = disk.chunks[i].start
      BY <3>2 DEF Bound
    <3>4. i \in DOMAIN disk.chunks /\ disk.chunks[i].start \in 0..N
      <4> HIDE DEF i
      <4>1. i \in 1..Len(disk.chunks)
        BY <1>1, <3>1, <3>2
      <4> QED
        BY <1>0, <1>1, <4>1, ChunkValues
    <3>5. k \in (disk.chunks[i].start + 1)..N
      <4> HIDE DEF i
      <4> QED
        BY <1>0, <2>7, <3>3, <3>4
    <3>6. \E h \in 1..i : disk.chunks[h].start < k /\ k <= disk.chunks[h].end
      <4> HIDE DEF i
      <4> QED
        BY <1>0, <3>4, <3>5 DEF Chain
    <3> HIDE DEF i
    <3>7. i + disk.done[side[k]] <= Len(disk.chunks)
      BY <3>1
    <3> QED
      BY <1>0, <3>1, <3>6, <3>7, InParts
  <2> QED
    BY <2>4, <2>5, <2>6, <2>7
<1> QED
  BY <1>4, <1>5

\* Whatever phase the disk is in, it has every byte.
LEMMA KeepsAll == ASSUME IInv PROVE NothingLost
<1>0. TypeOK /\ disk.phase \in {"none", "decide", "carve", "assemble"}
  BY DEF IInv, TypeOK, Journals
<1>1. SUFFICES ASSUME NEW k \in 1..N
               PROVE  \/ k \in Content(original)
                      \/ \E s \in Sides : \/ k \in Content(out[s])
                                          \/ \E i \in 1..N : k \in Content(parts[i][s])
  BY DEF NothingLost
<1>2. CASE disk.phase \in {"none", "decide"}
  BY <1>0, <1>2, EndsHaveAll DEF IInv, Durable
<1>3. CASE disk.phase = "carve"
  BY <1>0, <1>3, CuttingHasAll DEF IInv, Durable
<1>4. CASE disk.phase = "assemble"
  BY <1>0, <1>4, AssemblingHasAll DEF IInv, Durable
<1> QED
  BY <1>0, <1>2, <1>3, <1>4

\* What the saved journal counts is on disk.
LEMMA KeepsParts == ASSUME IInv PROVE PartsKept
<1>0. disk \in Journals /\ disk.phase \in {"none", "decide", "carve", "assemble"}
  BY DEF IInv, TypeOK, Journals
<1>1. Held(disk)
  <2>1. CASE disk.phase \in {"none", "decide"}
    <3>1. Len(disk.chunks) = 0
      BY <2>1, FreshValues DEF IInv, Durable
    <3>2. DOMAIN disk.chunks = {}
      BY <1>0, <3>1, ChunkValues
    <3> QED
      BY <3>2 DEF Held
  <2>2. CASE disk.phase \in {"carve", "assemble"}
    BY <2>2 DEF IInv, Durable, Cutting, Assembling
  <2> QED
    BY <1>0, <2>1, <2>2
<1> QED
  BY <1>1 DEF Held, PartsKept, Unappended

\* An output and the parts it has yet to take are the file it must be.
LEMMA AssemblesExactly == ASSUME IInv PROVE AssemblyExact
<1>0. /\ disk \in Journals /\ disk.phase \in {"none", "decide", "carve", "assemble"}
      /\ side \in [1..N -> BOOLEAN]
      /\ N \in Nat /\ Bom \in Nat /\ Bom <= N
  <2>1. disk \in Journals /\ side \in [1..N -> BOOLEAN]
    BY DEF IInv, TypeOK
  <2>2. disk.phase \in {"none", "decide", "carve", "assemble"}
    BY <2>1 DEF Journals
  <2> QED
    BY <2>1, <2>2, SizeAssumption
<1>1. SUFFICES ASSUME NEW s \in Sides, disk.created[s]
               PROVE  /\ out[s] # Missing
                      /\ SubSeq(out[s], 1, disk.len[s]) \o Remaining(s) = Expected(s)
  BY DEF AssemblyExact
<1>2. disk.phase = "assemble" /\ disk.renamed
  <2>1. disk.phase # "none" /\ disk.phase # "decide"
    <3>1. ~NoJournal.created[s] /\ ~NewJournal.created[s]
      BY DEF NoJournal, NewJournal
    <3> QED
      BY <1>1, <3>1 DEF IInv, Durable
  <2>2. ~Fresh(disk)
    BY <1>1 DEF Fresh
  <2>3. disk.phase # "carve"
    BY <2>2 DEF IInv, Durable, Cutting
  <2> QED
    BY <1>0, <2>1, <2>2, <2>3 DEF IInv, Durable, Assembling
<1>3. Chain(disk) /\ Grown(disk, s)
  BY <1>2 DEF IInv, Durable, Assembling
<1>4. /\ disk.done[s] <= Len(disk.chunks) /\ out[s] # Missing
      /\ SubSeq(out[s], 1, disk.len[s]) = BomBytes \o Offsets(Bom, Bound(disk, s), s)
  BY <1>1, <1>3 DEF Grown
<1>5. Bound(disk, s) \in Bom..N
  BY <1>0, <1>3, <1>4, BoundIs
<1>6. Remaining(s) = Offsets(Bound(disk, s), N, s)
  <2>1. Offsets(N, N, s) = <<>>
    <3>1. N \in 0..N
      BY <1>0
    <3> QED
      BY <3>1, OffsetsStep
  <2> QED
    BY <2>1 DEF Remaining, Bound
<1>7. PICK b : b = Bound(disk, s)
  OBVIOUS
<1>8. Expected(s) = (BomBytes \o Offsets(Bom, b, s)) \o Offsets(b, N, s)
  BY <1>5, <1>7, ExpectedJoin
<1> QED
  BY <1>4, <1>6, <1>7, <1>8

\* Outputs that are each as expected are the two outputs.
LEMMA DeliveredOuts ==
    ASSUME TypeOK, Delivered PROVE original = Missing /\ out = [s \in Sides |-> Expected(s)]
<1>1. out \in [Sides -> Files]
  BY DEF TypeOK
<1>2. out = [s \in Sides |-> out[s]]
  BY <1>1
<1>3. [s \in Sides |-> out[s]] = [s \in Sides |-> Expected(s)]
  BY DEF Delivered
<1> QED
  BY <1>2, <1>3 DEF Delivered

\* What was reported is what became of the log.
LEMMA ReportsTruly == ASSUME IInv PROVE OutcomeExact
<1>1. SuccessExact
  BY DeliveredOuts DEF IInv, Session, SuccessExact
<1>2. UndoExact
  BY DEF IInv, Session, Intact, Untouched, UndoExact
<1> QED
  BY <1>1, <1>2 DEF OutcomeExact

-----------------------------------------------------------------------------
(* What a discard leaves behind.                                            *)

\* The map is there until nothing is left that would need it.
Mapped ==
    /\ pc \in {"carve", "record", "truncate", "putBack", "putting", "removeParts", "assemble"} => map
    /\ pc = "undo" => map \/ journal = disk
    /\ disk.phase = "carve" => map \/ (disk.chunks = <<>> /\ original = Whole)
    /\ disk.phase = "assemble" => map \/ AllAppended

\* The original is not cut by settling it when no chunk was carved.
LEMMA SettlesWhole ==
    ASSUME IInv, journal = disk, disk.phase = "carve", disk.chunks = <<>>, original = Whole,
           Settle(journal)
    PROVE  original' = Whole
<1>1. disk.cut = N /\ N \in Nat
  BY SizeAssumption DEF IInv, Durable, Cutting, Chain
<1>2. original' = SubSeq(Whole, 1, Len(Whole))
  BY <1>1, WholeIs DEF Settle
<1> QED
  BY <1>2, WholeIs, AllOfIt

\* Cutting needs the map; a run that stops has it, or the journal on disk.
LEMMA CutsMapped ==
    ASSUME IInv, OneAtATime, Mapped, Decide \/ Carve PROVE Mapped'
<1>0. ASSUME UNCHANGED <<original, disk, map>>,
             pc' \in {"carve", "record", "truncate", "assemble"} => map,
             pc' = "undo" => map \/ journal' = disk,
             pc' \notin {"putBack", "putting", "removeParts"}
      PROVE  Mapped'
  BY <1>0 DEF Mapped, AllAppended, Whole
<1>m. ASSUME map' PROVE Mapped'
  BY <1>m DEF Mapped
<1>1. CASE Start
  BY <1>1 DEF Mapped, Start, Goto, Save, NewJournal, NoJournal
<1>2. CASE DecideDone
  BY <1>2 DEF Mapped, DecideDone
<1>3. CASE DecideFails
  BY <1>0, <1>3 DEF DecideFails, Goto, files
<1>4. CASE CarveOpen
  <2>1. journal = disk /\ disk.phase = "carve" /\ UNCHANGED <<map, journal, disk>>
        /\ Settle(journal) /\ pc' = IF map THEN "carve" ELSE "undo"
    BY <1>4 DEF CarveOpen, IInv, Running
  <2>2. CASE ~map
    <3>1. disk.chunks = <<>> /\ original = Whole
      BY <2>1, <2>2 DEF Mapped
    <3>2. original' = Whole
      BY <2>1, <3>1, SettlesWhole
    <3> QED
      BY <2>1, <2>2, <3>1, <3>2 DEF Mapped, Whole
  <2> QED
    BY <1>m, <2>1, <2>2
<1>5. CASE CarveRefused
  BY <1>0, <1>5 DEF CarveRefused, Goto, files, IInv, Running
<1>6. CASE CarveChunk \/ Record \/ Truncate
  BY <1>m, <1>6 DEF CarveChunk, Carving, Record, Truncate, Goto, files, Mapped
<1>7. CASE CarveStops
  <2>1. map \/ journal = disk
    BY <1>7 DEF CarveStops, Carving, IInv, Running, Mapped
  <2> QED
    BY <1>0, <1>7, <2>1 DEF CarveStops, files
<1>8. CASE CarveDone
  BY <1>0, <1>8 DEF CarveDone, Goto, files, Mapped
<1> QED
  BY <1>1, <1>2, <1>3, <1>4, <1>5, <1>6, <1>7, <1>8 DEF Decide, Carve

\* So does putting back; what is discarded then is asked for by nothing.
LEMMA UndoMapped ==
    ASSUME IInv, OneAtATime, Mapped, Undo \/ Discard PROVE Mapped'
<1>m. ASSUME map' PROVE Mapped'
  BY <1>m DEF Mapped
<1>0. ASSUME UNCHANGED <<original, disk, map>>, pc' \in {"idle", "discardWork"} PROVE Mapped'
  BY <1>0 DEF Mapped, AllAppended, Whole
<1>1. CASE UndoOpen
  <2>1. /\ disk.phase = "carve" /\ UNCHANGED <<map, disk>> /\ Settle(journal)
        /\ map \/ (journal = disk /\ pc' = "idle")
    BY <1>1 DEF UndoOpen, IInv, Running, Mapped, Report
  <2>2. CASE ~map
    <3>1. disk.chunks = <<>> /\ original = Whole
      BY <2>1, <2>2 DEF Mapped
    <3>2. original' = Whole
      BY <2>1, <2>2, <3>1, SettlesWhole
    <3> QED
      BY <2>1, <2>2, <3>1, <3>2 DEF Mapped, Whole
  <2> QED
    BY <1>m, <2>1, <2>2
<1>2. CASE PutBackOpen \/ PutBackByte \/ PutBackSaved \/ RemoveParts
  BY <1>m, <1>2 DEF PutBackOpen, PutBackByte, PutBackSaved, RemoveParts, Goto, files, Mapped
<1>3. CASE UndoDone
  BY <1>0, <1>3 DEF UndoDone, Goto, files
<1>4. CASE UndoFails
  BY <1>0, <1>4 DEF UndoFails, Report, files
<1>5. CASE DiscardWork
  <2>1. /\ disk.phase = "carve" => disk.chunks = <<>> /\ original = Whole
        /\ disk.phase = "assemble" => AllAppended
    BY <1>5 DEF IInv, Running, DiscardWork, Goto, AllAppended
  <2> QED
    BY <1>5, <2>1 DEF DiscardWork, Goto, Mapped, AllAppended, Whole
<1>6. CASE DiscardJournal
  <2>1. pc' = "idle" /\ UNCHANGED <<original, map>>
    BY <1>6 DEF DiscardJournal, Report, files
  <2>2. disk'.phase = "none" \/ disk' = disk
    BY <1>6 DEF DiscardJournal, DropJournal, NoJournal
  <2> QED
    BY <1>0, <2>1, <2>2 DEF Mapped
<1> QED
  BY <1>1, <1>2, <1>3, <1>4, <1>5, <1>6 DEF Undo, Discard

\* Appending has no use for the map, and nothing to do once all is appended.
LEMMA AssembleMapped ==
    ASSUME IInv, OneAtATime, Mapped, Assemble PROVE Mapped'
<1>m. ASSUME map' PROVE Mapped'
  BY <1>m DEF Mapped
<1>p. /\ pc = "assemble" => map
      /\ pc \in {"rename", "renamed", "append", "created", "copy", "removePart"} =>
           journal = disk /\ disk.phase = "assemble" /\ (map \/ AllAppended)
  BY DEF IInv, Running, Mapped
<1>0. ASSUME UNCHANGED <<disk, map>>, disk.phase = "assemble" \/ original' = original,
             pc' \in {"idle", "rename", "renamed", "append", "created", "copy", "removePart", "discardWork"}
      PROVE  Mapped'
  BY <1>0 DEF Mapped, AllAppended, Whole
<1>c. HeadSide \in Sides /\ Current \in Sides
  BY HeadIs DEF Current, IInv, TypeOK
<1>1. CASE AssemblePhase
  BY <1>1, <1>m, <1>p DEF AssemblePhase, Goto, files
<1>2. CASE Rename
  BY <1>0, <1>2, <1>p DEF Rename, Goto
<1>3. CASE RenameRecorded
  <2>1. ~AllAppended
    BY <1>3, <1>p DEF RenameRecorded, Goto, IInv, Running, AllAppended
  <2> QED
    BY <1>3, <1>m, <1>p, <2>1 DEF RenameRecorded, Goto, files
<1>4. CASE CreateRecorded
  <2>1. ~AllAppended
    BY <1>4, <1>c, <1>p DEF CreateRecorded, Goto, IInv, Running, AllAppended
  <2> QED
    BY <1>4, <1>m, <1>p, <2>1 DEF CreateRecorded, Goto, files
<1>5. CASE AppendRecorded
  <2>1. journal = disk /\ journal.done[Current] < Len(disk.chunks) /\ Len(disk.chunks) \in Nat
    BY <1>5, <1>p, ChunkValues DEF AppendRecorded, Goto, IInv, TypeOK, Running, Total
  <2>2. ~AllAppended
    BY <1>c, <2>1 DEF AllAppended
  <2> QED
    BY <1>5, <1>m, <1>p, <2>2 DEF AppendRecorded, Goto, files
<1>6. CASE AlreadyRenamed \/ AssembleDone
  BY <1>0, <1>6 DEF AlreadyRenamed, AssembleDone, Goto, files
<1>7. CASE CreateOutput \/ AppendOpen \/ CopyByte \/ RemovePart
  BY <1>0, <1>7 DEF CreateOutput, AppendOpen, CopyByte, RemovePart, Goto
<1>8. CASE AssembleFails
  BY <1>0, <1>8 DEF AssembleFails, Report, files
<1> QED
  BY <1>1, <1>2, <1>3, <1>4, <1>5, <1>6, <1>7, <1>8 DEF Assemble

\* A recovery goes on from the journal on disk; the list discards a decision.
LEMMA OthersMapped ==
    ASSUME IInv, OneAtATime, Mapped, Recover \/ List \/ Crash \/ UNCHANGED vars PROVE Mapped'
<1>0. ASSUME UNCHANGED <<original, disk, map>>,
             UNCHANGED <<pc, journal>> \/ pc' \in {"idle", "rename", "carveOpen"} \/ (pc' = "undo" /\ journal' = disk)
      PROVE  Mapped'
  BY <1>0 DEF Mapped, AllAppended, Whole
<1>1. CASE RecoverLoad \/ RecoverRefused \/ ListSnapshot \/ ListLoad
  BY <1>0, <1>1 DEF RecoverLoad, RecoverRefused, ListSnapshot, ListLoad, files
<1>2. CASE RecoverClaim
  <2>1. request.journal = disk /\ UNCHANGED <<original, disk, map>>
    BY <1>2 DEF RecoverClaim, files, IInv, Session
  <2>2. pc' \in {"idle", "rename", "carveOpen"} \/ (pc' = "undo" /\ journal' = disk)
    BY <1>2, <2>1 DEF RecoverClaim, Report
  <2> QED
    BY <1>0, <2>1, <2>2
<1>3. CASE ListDiscardWork
  <2>1. pc = "idle" /\ disk.phase = "decide" /\ UNCHANGED <<pc, disk>>
    BY <1>3 DEF ListDiscardWork, IInv, Session
  <2> QED
    BY <2>1 DEF Mapped
<1>4. CASE ListDiscardJournal
  <2>1. pc = "idle" /\ disk.phase = "decide" /\ UNCHANGED pc
    BY <1>4 DEF ListDiscardJournal, IInv, Session
  <2>2. disk'.phase \in {"none", "decide"}
    BY <1>4, <2>1 DEF ListDiscardJournal, DropJournal, NoJournal
  <2> QED
    BY <2>1, <2>2 DEF Mapped
<1>5. CASE Crash
  BY <1>0, <1>5 DEF Crash, files
<1>6. CASE UNCHANGED vars
  BY <1>0, <1>6 DEF vars
<1> QED
  BY <1>1, <1>2, <1>3, <1>4, <1>5, <1>6 DEF Recover, List

\* So a journal without its map asks for nothing more.
LEMMA LeavesHarmless == ASSUME IInv, Mapped PROVE LeftoverHarmless
<1>1. CASE ~map /\ disk.phase = "assemble"
  <2>1. Delivered
    BY <1>1, AppendedIs DEF Mapped
  <2>2. original = Missing /\ out = [s \in Sides |-> Expected(s)]
    BY <2>1, DeliveredOuts DEF IInv
  <2> QED
    BY <1>1, <2>2 DEF LeftoverHarmless
<1>2. CASE map \/ disk.phase # "assemble"
  BY <1>2 DEF Mapped, LeftoverHarmless
<1> QED
  BY <1>1, <1>2

\* The list discards what is untouched.
LEMMA DiscardsUntouched == ASSUME IInv PROVE DiscardOnlyUntouched
  BY DEF IInv, Session, Durable, Intact, DiscardOnlyUntouched

\* Of the steps, three cut the original: each to what the saved journal says,
\* when no call has failed.
LEMMA CutsBehindJournal ==
    ASSUME IInv, faults = 0, OneAtATime, Next,
           original' # Missing, original # Missing, Len(original') < Len(original)
    PROVE  disk.cut <= Len(original')
<1>0. TypeOK /\ disk \in Journals /\ disk.cut \in 0..N /\ N \in Nat
  BY ChunkValues, SizeAssumption DEF IInv, TypeOK
<1>1. original' # original /\ original \in Seq(0..N) /\ Len(original) \in Nat
  <2>1. original \in Seq(0..N)
    BY <1>0 DEF TypeOK, Files
  <2>2. Len(original) \in Nat
    BY <2>1
  <2>3. ~(Len(original) < Len(original))
    BY <2>2
  <2> QED
    BY <2>1, <2>2, <2>3
<1>2. ASSUME original' = Prefix(disk.cut) PROVE disk.cut <= Len(original')
  <2>1. PICK n : n = disk.cut
    OBVIOUS
  <2>2. n \in Nat /\ original' = Prefix(n)
    BY <1>0, <1>2, <2>1
  <2>3. Len(original') = disk.cut
    BY <2>1, <2>2, PrefixIs
  <2> QED
    BY <1>0, <2>3
<1>3. CASE CarveOpen
  <2>1. journal = disk /\ disk.phase = "carve"
    BY <1>3 DEF IInv, Running, CarveOpen
  <2>2. Cutting /\ Chain(journal)
    BY <2>1 DEF IInv, Durable, Cutting
  <2> QED
    BY <1>0, <1>2, <1>3, <2>1, <2>2, Settled DEF CarveOpen
<1>4. CASE UndoOpen
  <2>1. journal = disk /\ disk.phase = "carve"
    BY <1>4, SizeAssumption DEF IInv, Running, UndoOpen
  <2>2. Cutting /\ Chain(journal)
    BY <2>1 DEF IInv, Durable, Cutting
  <2> QED
    BY <1>0, <1>2, <1>4, <2>1, <2>2, Settled DEF UndoOpen
<1>5. CASE Truncate
  <2>1. /\ journal = disk /\ disk.phase = "carve" /\ journal.chunks # <<>>
        /\ Len(original) = Last(journal.chunks).end /\ original' = SubSeq(original, 1, journal.cut)
    BY <1>5 DEF IInv, Running, Truncate, Goto
  <2>2. Cutting /\ Chain(journal) /\ original = Prefix(Len(original))
    BY <2>1 DEF IInv, Durable, Cutting
  <2>3. disk.cut \in 0..Len(original)
    <3>1. journal.cut < Last(journal.chunks).end
      BY <1>0, <2>1, <2>2, LastIs DEF TypeOK
    <3> QED
      BY <1>0, <1>1, <2>1, <3>1
  <2>4. PICK n : n = Len(original)
    OBVIOUS
  <2>5. SubSeq(Prefix(n), 1, disk.cut) = Prefix(disk.cut)
    BY <1>1, <2>3, <2>4, PrefixIs
  <2> QED
    BY <1>2, <2>1, <2>2, <2>4, <2>5
<1>6. CASE PutBackByte
  <2>1. original' = Append(original, PutBackPart[PutBackAt])
    BY <1>6 DEF PutBackByte
  <2>2. \A x : Len(Append(original, x)) = Len(original) + 1
    BY <1>1
  <2>3. Len(original') = Len(original) + 1
    BY <2>1, <2>2
  <2> QED
    BY <1>1, <2>3
<1>7. CASE Rename
  BY <1>1, <1>7 DEF Rename
<1> QED
  BY <1>1, <1>3, <1>4, <1>5, <1>6, <1>7 DEF Next, Decide, Carve, Undo, Assemble, Discard, Recover, List,
     Start, DecideDone, DecideFails, CarveRefused, CarveChunk, Record, CarveStops, CarveDone,
     PutBackOpen, PutBackSaved, RemoveParts, UndoDone, UndoFails,
     AssemblePhase, RenameRecorded, AlreadyRenamed, CreateOutput, CreateRecorded, AppendOpen,
     CopyByte, AppendRecorded, RemovePart, AssembleDone, AssembleFails, DiscardWork, DiscardJournal,
     RecoverLoad, RecoverClaim, RecoverRefused, ListSnapshot, ListLoad, ListDiscardWork,
     ListDiscardJournal, Crash, files

-----------------------------------------------------------------------------
(* The theorems.                                                            *)

\* The journals, files and states of a separation are what the code takes
\* them for, and a journal counts no more chunks than there are bytes.
THEOREM SplitTypeCorrect == ASSUME OneAtATime PROVE Spec => []TypeOK
<1>1. IInv => TypeOK
  BY DEF IInv
<1> QED
  BY <1>1, SplitInvariantHolds, PTL

\* Every byte of the original is in a file at every moment, wherever the
\* process is killed and whatever call fails (lowspace.rs, carve to assemble).
THEOREM NothingEverLost == ASSUME OneAtATime PROVE Spec => []NothingLost
<1>1. IInv => NothingLost
  BY KeepsAll
<1> QED
  BY <1>1, SplitInvariantHolds, PTL

\* What a restart relies on: the parts of a chunk the saved journal counts are
\* whole until they were appended.
THEOREM PartsAlwaysKept == ASSUME OneAtATime PROVE Spec => []PartsKept
<1>1. IInv => PartsKept
  BY KeepsParts
<1> QED
  BY <1>1, SplitInvariantHolds, PTL

\* What the journal says an output has, followed by the parts it has yet to
\* take, is the output: assembling may be taken up again at any step.
THEOREM AssemblyAlwaysExact == ASSUME OneAtATime PROVE Spec => []AssemblyExact
<1>1. IInv => AssemblyExact
  BY AssemblesExactly
<1> QED
  BY <1>1, SplitInvariantHolds, PTL

\* A separation reported as done left every byte in the output of its side and
\* no original, one reported as undone the original as it was: so it is whether
\* or not the removals succeed whose results lowspace.rs:132, 414 and 468 ignore.
THEOREM OutcomeAlwaysExact == ASSUME OneAtATime PROVE Spec => []OutcomeExact
<1>1. IInv => OutcomeExact
  BY ReportsTruly
<1> QED
  BY <1>1, SplitInvariantHolds, PTL

\* A journal whose map is gone, for a discard was interrupted between the folder
\* and the journal or could not remove the journal (lowspace.rs:132-133), is one
\* of a log that is whole, or whose two outputs are.
THEOREM LeftoverAlwaysHarmless == ASSUME OneAtATime PROVE Spec => []LeftoverHarmless
<1>1. Init => Mapped
  BY DEF Init, Mapped, NoJournal
<1>2. IInv /\ Mapped /\ [Next]_vars => Mapped'
  BY CutsMapped, UndoMapped, AssembleMapped, OthersMapped DEF Next
<1>3. IInv /\ Mapped => LeftoverHarmless
  BY LeavesHarmless
<1> QED
  BY <1>1, <1>2, <1>3, SplitInvariantHolds, PTL DEF Spec

\* The list discards only what no run has begun to cut (log_split/mod.rs:402):
\* so it is when no run starts while the list is being read.
THEOREM DiscardAlwaysUntouched == ASSUME OneAtATime PROVE Spec => []DiscardOnlyUntouched
<1>1. IInv => DiscardOnlyUntouched
  BY DiscardsUntouched
<1> QED
  BY <1>1, SplitInvariantHolds, PTL

\* Until a call fails, the original is never cut below what the saved journal
\* says is carved (lowspace.rs:13); a failing call may leave the run's own
\* journal ahead of the saved one, and then undoing cuts below it.
THEOREM JournalFirstUntilAFault ==
    ASSUME OneAtATime
    PROVE  Spec => [][/\ faults = 0
                      /\ original' # Missing /\ original # Missing /\ Len(original') < Len(original)
                      => disk.cut <= Len(original')]_vars
<1>1. ASSUME IInv, [Next]_vars
      PROVE  [/\ faults = 0
              /\ original' # Missing /\ original # Missing /\ Len(original') < Len(original)
              => disk.cut <= Len(original')]_vars
  BY <1>1, CutsBehindJournal
<1> QED
  BY <1>1, SplitInvariantHolds, PTL DEF Spec

\* So where no call fails it never is.
THEOREM JournalAlwaysFirst ==
    ASSUME OneAtATime, MaxFaults = 0 PROVE Spec => JournalBeforeCut
<1>1. ASSUME IInv, [Next]_vars
      PROVE  [original' # Missing /\ original # Missing /\ Len(original') < Len(original)
                => disk.cut <= Len(original')]_vars
  <2>1. faults = 0
    BY <1>1, SizeAssumption DEF IInv, TypeOK
  <2> QED
    BY <1>1, <2>1, CutsBehindJournal
<1> QED
  BY <1>1, SplitInvariantHolds, PTL DEF Spec, JournalBeforeCut

-----------------------------------------------------------------------------
(* A run does not go on for ever: here of every user, also one who starts a  *)
(* run or a recovery while another request is at work.                       *)

IsSeq(f) == \E S : f \in Seq(S)

\* A journal, whoever loaded it and however old it is.
Shaped(j) ==
    j \in [phase : {"none", "decide", "carve", "assemble"}, cut : 0..N,
           chunks : Seq([start : 0..N, end : 0..N]), renamed : BOOLEAN,
           done : [Sides -> Nat], len : [Sides -> Nat], created : [Sides -> BOOLEAN]]
Journalled(j) ==
    /\ Shaped(j)
    /\ \A i \in DOMAIN j.chunks : j.chunks[i].start < j.chunks[i].end
    /\ \A s \in Sides : j.done[s] <= Len(j.chunks) /\ (~j.created[s] => j.done[s] = 0)
    /\ j.phase # "assemble" => \A s \in Sides : j.done[s] = 0

\* What a run has of its own, which nobody else changes.
Deciding  == {"decide"}
Cuts      == {"carveOpen", "carve", "record", "truncate"}
Restores  == {"undo", "putBack", "putting", "removeParts"}
Turns     == {"assemble", "rename", "renamed"}
Appends   == {"append", "created", "copy", "removePart"}
Discards  == {"discardWork", "discardJournal"}

Own ==
    /\ side \in [1..N -> BOOLEAN]
    /\ Journalled(disk) /\ Journalled(journal) /\ Journalled(request.journal)
    /\ original = Missing \/ IsSeq(original)
    /\ out = [s \in Sides |-> out[s]]

\* What it knows at each point.
Knows ==
    /\ pc \in {"idle"} \cup Deciding \cup Cuts \cup Restores \cup Turns \cup Appends \cup Discards
    /\ pc \in Deciding \cup Cuts \cup Restores => journal.phase # "assemble"
    /\ pc \in {"rename", "renamed"} \cup Appends => journal.phase = "assemble"
    /\ pc \in {"carve", "record", "truncate", "putBack", "putting", "removeParts"} => IsSeq(original)
    /\ pc \in {"record", "truncate", "putting"} => journal.chunks # <<>>
    /\ pc = "created" => ~journal.created[Current]
    /\ pc = "copy" => /\ journal.created[Current] /\ journal.done[Current] < Total
                      /\ IsSeq(out[Current])

\* How much it has left: the part of the run, the rounds of its loop, the point
\* of the round, the bytes of the file it is copying.
Part ==
    CASE pc \in Deciding -> 5 [] pc \in Cuts -> 4 [] pc \in Restores -> 3
      [] pc \in Turns -> 2 [] pc \in Appends -> 1 [] OTHER -> 0
Rounds ==
    CASE pc \in Cuts     -> journal.cut
      [] pc \in Restores -> Len(journal.chunks)
      [] pc \in Appends  -> (Total - journal.done[TRUE]) + (Total - journal.done[FALSE])
      [] OTHER -> 0
Point ==
    CASE pc \in {"removePart"} -> 4
      [] pc \in {"carveOpen", "undo"} -> 3
      [] pc \in {"record", "removeParts", "assemble", "created"} -> 2
      [] pc \in {"truncate", "putBack", "rename", "discardWork"} -> 1
      [] pc = "append" -> IF journal.created[Current] THEN 1 ELSE 3
      [] OTHER -> 0
Positive(n) == IF n > 0 THEN n ELSE 0
Bytes ==
    CASE pc = "putting" -> Positive(LastChunk.end - Len(original))
      [] pc = "copy"    -> Positive(journal.len[Current] + NextLen - Len(out[Current]))
      [] OTHER -> 0
Rank == <<<<Part, Rounds>>, <<Point, Bytes>>>>

Below     == OpToRel(<, Nat)
PairBelow == LexPairOrdering(Below, Below, Nat, Nat)
RankBelow == LexPairOrdering(PairBelow, PairBelow, Nat \X Nat, Nat \X Nat)
Ranks     == (Nat \X Nat) \X (Nat \X Nat)

\* There is no endless way down: ranks are well-founded.
LEMMA RanksEnd == IsWellFoundedOn(RankBelow, Ranks)
<1>1. IsWellFoundedOn(Below, Nat)
  BY NatLessThanWellFounded, Zenon DEF Below
<1>2. IsWellFoundedOn(PairBelow, Nat \X Nat)
  BY <1>1, WFLexPairOrdering, Zenon DEF PairBelow
<1> QED
  BY <1>2, WFLexPairOrdering, Zenon DEF RankBelow, Ranks

\* One rank is below another when the first number that differs is smaller.
LEMMA PairIsBelow ==
    ASSUME NEW m \in Nat, NEW n \in Nat, NEW p \in Nat, NEW q \in Nat,
           m < p \/ (m = p /\ n < q)
    PROVE  << <<m, n>>, <<p, q>> >> \in PairBelow
<1>1. \A k, l \in Nat : k < l => <<k, l>> \in Below
  BY DEF Below, OpToRel
<1> DEFINE z == << <<m, n>>, <<p, q>> >>
<1>2. z \in (Nat \X Nat) \X (Nat \X Nat) /\ z[1][1] = m /\ z[1][2] = n /\ z[2][1] = p /\ z[2][2] = q
  OBVIOUS
<1>3. <<z[1][1], z[2][1]>> \in Below \/ (z[1][1] = z[2][1] /\ <<z[1][2], z[2][2]>> \in Below)
  BY <1>1, <1>2
<1> QED
  BY <1>2, <1>3 DEF PairBelow, LexPairOrdering

\* That of two pairs of them.
LEMMA RankIsBelow ==
    ASSUME NEW x \in Nat \X Nat, NEW y \in Nat \X Nat, NEW u \in Nat \X Nat, NEW v \in Nat \X Nat,
           <<x, u>> \in PairBelow \/ (x = u /\ <<y, v>> \in PairBelow)
    PROVE  << <<x, y>>, <<u, v>> >> \in RankBelow
<1> DEFINE z == << <<x, y>>, <<u, v>> >>
<1>1. /\ z \in ((Nat \X Nat) \X (Nat \X Nat)) \X ((Nat \X Nat) \X (Nat \X Nat))
      /\ z[1][1] = x /\ z[1][2] = y /\ z[2][1] = u /\ z[2][2] = v
  OBVIOUS
<1>2. <<z[1][1], z[2][1]>> \in PairBelow \/ (z[1][1] = z[2][1] /\ <<z[1][2], z[2][2]>> \in PairBelow)
  BY <1>1
<1> QED
  BY <1>1, <1>2 DEF RankBelow, LexPairOrdering

\* What holds of a run whoever overlaps with it.
RunInv == Own /\ Knows

\* The values of such a journal.
LEMMA JournalledValues ==
    ASSUME NEW j, Journalled(j)
    PROVE  /\ j.cut \in 0..N /\ j.cut \in Nat
           /\ j.chunks \in Seq([start : 0..N, end : 0..N])
           /\ Len(j.chunks) \in Nat /\ DOMAIN j.chunks = 1..Len(j.chunks)
           /\ \A i \in 1..Len(j.chunks) : /\ j.chunks[i].start \in 0..N /\ j.chunks[i].end \in 0..N
                                          /\ j.chunks[i].start < j.chunks[i].end
           /\ j.chunks # <<>> <=> Len(j.chunks) > 0
           /\ Last(j.chunks) = j.chunks[Len(j.chunks)]
           /\ \A s \in Sides : /\ j.done[s] \in Nat /\ j.len[s] \in Nat /\ j.created[s] \in BOOLEAN
                               /\ j.done[s] <= Len(j.chunks) /\ (~j.created[s] => j.done[s] = 0)
<1>0. N \in Nat
  BY SizeAssumption
<1>1. /\ j.cut \in 0..N /\ j.chunks \in Seq([start : 0..N, end : 0..N])
      /\ j.done \in [Sides -> Nat] /\ j.len \in [Sides -> Nat] /\ j.created \in [Sides -> BOOLEAN]
  BY DEF Journalled, Shaped
<1>2. \A i \in 1..Len(j.chunks) : j.chunks[i] \in [start : 0..N, end : 0..N]
  BY <1>1, ElementOfSeq
<1>3. \A i \in DOMAIN j.chunks : j.chunks[i].start < j.chunks[i].end
  BY DEF Journalled, Shaped
<1>4. \A s \in Sides : j.done[s] <= Len(j.chunks) /\ (~j.created[s] => j.done[s] = 0)
  BY DEF Journalled, Shaped
<1> QED
  BY <1>0, <1>1, <1>2, <1>3, <1>4 DEF Last

\* The first journals are such.
LEMMA FreshJournalled == Journalled(NoJournal) /\ Journalled(NewJournal)
<1>1. N \in 0..N /\ 0 \in 0..N /\ <<>> \in Seq([start : 0..N, end : 0..N])
  BY SizeAssumption
<1>2. Journalled(NoJournal)
  BY <1>1 DEF Journalled, Shaped, NoJournal
<1>3. /\ NewJournal.phase = "decide" /\ NewJournal.chunks = NoJournal.chunks
      /\ NewJournal.done = NoJournal.done /\ NewJournal.created = NoJournal.created
      /\ Shaped(NewJournal)
  BY <1>1, <1>2 DEF NewJournal, Journalled, Shaped
<1>0. \A s \in Sides : NoJournal.done[s] = 0
  BY DEF NoJournal
<1>4. NoJournal.chunks = <<>>
  BY DEF NoJournal
<1>5. Journalled(NewJournal)
  BY <1>0, <1>2, <1>3, <1>4 DEF Journalled, Shaped
<1> QED
  BY <1>2, <1>5

\* The output a run is at depends on its journal only.
LEMMA SameCurrent ==
    ASSUME side' = side, journal' = journal
    PROVE  Current' = Current /\ Total' = Total /\ NextLen' = NextLen /\ HeadEnd' = HeadEnd
           /\ HeadSide' = HeadSide
<1>1. HeadSide' = HeadSide /\ HeadEnd' = HeadEnd /\ \A a, b, s : Offsets(a, b, s)' = Offsets(a, b, s)
  BY SameSide
<1>2. Total' = Total
  BY DEF Total
<1>3. Current' = Current
  BY <1>1, <1>2 DEF Current
<1>4. NextPart' = NextPart
  BY <1>2, <1>3 DEF NextPart
<1>5. NextLen' = NextLen
  BY <1>1, <1>3, <1>4 DEF NextLen, ChunkLen
<1> QED
  BY <1>1, <1>2, <1>3, <1>5

\* A step that leaves journals and files alone keeps what a run has.
LEMMA OwnStays ==
    ASSUME Own, side' = side, disk' = disk, journal' = journal, request' = request,
           original' = original, out' = out
    PROVE  Own'
BY DEF Own, Journalled, Shaped, IsSeq

\* A run that is not at work knows nothing.
LEMMA IdleKnows == ASSUME pc' \in {"idle"} \cup Discards PROVE Knows'
BY DEF Knows, Deciding, Cuts, Restores, Turns, Appends, Discards

\* What a run makes of its journal is again one: another phase,
LEMMA PhaseJournalled ==
    ASSUME NEW j, Journalled(j),
           NEW p \in {"none", "decide", "carve", "assemble"},
           p # "assemble" => j.phase # "assemble"
    PROVE  Journalled([j EXCEPT !.phase = p]) /\ [j EXCEPT !.phase = p].phase = p
<1> DEFINE k == [j EXCEPT !.phase = p]
<1>1. /\ k.phase = p /\ k.chunks = j.chunks /\ k.done = j.done /\ k.created = j.created
      /\ Shaped(k)
  BY DEF Journalled, Shaped
<1> HIDE DEF k
<1>2. Journalled(k)
  BY <1>1 DEF Journalled, Shaped
<1> QED
  BY <1>1, <1>2 DEF k

\* other chunks before anything is assembled,
LEMMA ChunksJournalled ==
    ASSUME NEW j, Journalled(j), j.phase # "assemble", NEW c \in 0..N,
           NEW q \in Seq([start : 0..N, end : 0..N]),
           \A i \in DOMAIN q : q[i].start < q[i].end
    PROVE  Journalled([j EXCEPT !.chunks = q, !.cut = c])
<1> DEFINE k == [j EXCEPT !.chunks = q, !.cut = c]
<1>1. /\ k.phase = j.phase /\ k.chunks = q /\ k.done = j.done /\ k.created = j.created
      /\ Shaped(k)
  BY DEF Journalled, Shaped
<1> HIDE DEF k
<1>2. Len(q) \in Nat
  OBVIOUS
<1>3. \A s \in Sides : k.done[s] = 0
  BY <1>1 DEF Journalled, Shaped
<1>4. Journalled(k)
  BY <1>1, <1>2, <1>3 DEF Journalled, Shaped
<1> QED
  BY <1>4 DEF k

\* an output that begins, or has a part more.
LEMMA OutputJournalled ==
    ASSUME NEW j, Journalled(j), NEW s \in Sides, NEW d \in Nat,
           d <= Len(j.chunks), j.phase # "assemble" => d = 0,
           NEW k, Shaped(k),
           k.phase = j.phase, k.chunks = j.chunks,
           k.done = [j.done EXCEPT ![s] = d], k.created = [j.created EXCEPT ![s] = TRUE]
    PROVE  Journalled(k)
<1>2. j.done \in [Sides -> Nat] /\ j.created \in [Sides -> BOOLEAN]
  BY DEF Journalled, Shaped
<1>3. \A t \in Sides : /\ k.done[t] = IF t = s THEN d ELSE j.done[t]
                       /\ k.created[t] = IF t = s THEN TRUE ELSE j.created[t]
  BY <1>2
<1>4. \A t \in Sides : k.done[t] <= Len(k.chunks) /\ (~k.created[t] => k.done[t] = 0)
  BY <1>3 DEF Journalled, Shaped
<1>5. k.phase # "assemble" => \A t \in Sides : k.done[t] = 0
  BY <1>3 DEF Journalled, Shaped
<1>6. \A i \in DOMAIN k.chunks : k.chunks[i].start < k.chunks[i].end
  BY DEF Journalled, Shaped
<1> QED
  BY <1>4, <1>5, <1>6 DEF Journalled, Shaped

\* A part has a length.
LEMMA NextLenIs ==
    ASSUME Own, pc = "copy", Knows
    PROVE  NextLen \in Nat /\ Current \in Sides /\ Total \in Nat
<1>1. Journalled(journal) /\ side \in [1..N -> BOOLEAN] /\ journal.done[Current] < Total
  BY DEF Own, Knows
<1>2. Current \in Sides
  BY <1>1, CurrentIs
<1>3. Total \in Nat /\ journal.done[Current] \in Nat
  BY <1>1, <1>2, JournalledValues DEF Total
<1>4. NextPart \in 1..Len(journal.chunks)
  BY <1>1, <1>3 DEF NextPart, Total
<1> DEFINE c == journal.chunks[NextPart]
<1>5. c.start \in 0..N /\ c.end \in 0..N /\ c.start < c.end
  BY <1>1, <1>4, JournalledValues
<1> HIDE DEF c
<1>6. c.end \in c.start..N
  BY <1>5, SizeAssumption
<1>7. Offsets(c.start, c.end, Current) \in Seq((c.start + 1)..c.end)
  BY <1>5, <1>6, OffsetsType
<1>8. Len(Offsets(c.start, c.end, Current)) \in Nat
  BY <1>7
<1> QED
  BY <1>2, <1>3, <1>8 DEF NextLen, ChunkLen, c

\* What is cut from a sequence is one.
LEMMA SubSeqIsSeq ==
    ASSUME NEW f, IsSeq(f), NEW n \in Nat
    PROVE  IsSeq(SubSeq(f, 1, n))
<1>1. PICK S : f \in Seq(S)
  BY DEF IsSeq
<1>2. SubSeq(f, 1, n) = [i \in 1..n |-> f[i]]
  BY <1>1
<1>3. SubSeq(f, 1, n) \in Seq({f[i] : i \in 1..n})
  BY <1>2
<1> QED
  BY <1>3 DEF IsSeq

\* So is one with a byte more.
LEMMA AppendIsSeq ==
    ASSUME NEW f, IsSeq(f), NEW x
    PROVE  IsSeq(Append(f, x)) /\ Len(Append(f, x)) = Len(f) + 1 /\ Len(f) \in Nat
<1>1. PICK S : f \in Seq(S)
  BY DEF IsSeq
<1>2. f \in Seq(S \cup {x}) /\ x \in S \cup {x}
  BY <1>1, SeqWider
<1>3. Append(f, x) \in Seq(S \cup {x}) /\ Len(Append(f, x)) = Len(f) + 1
  BY <1>2, WithOneMore
<1> QED
  BY <1>1, <1>3 DEF IsSeq

\* So is what set_len leaves of any file.
LEMMA SetLenIsSeq ==
    ASSUME NEW f, NEW n \in Nat
    PROVE  IsSeq(SetLen(f, n)) /\ Len(SetLen(f, n)) = n
<1> DEFINE S == {IF i <= Len(f) THEN f[i] ELSE 0 : i \in 1..n}
<1>1. SetLen(f, n) \in [1..n -> S]
  BY DEF SetLen
<1> HIDE DEF S
<1>2. SetLen(f, n) \in Seq(S) /\ Len(SetLen(f, n)) = n
  BY <1>1
<1> QED
  BY <1>2 DEF IsSeq

\* A file cut to what a journal counts is a sequence.
LEMMA SettledIs ==
    ASSUME Own, NEW j, Journalled(j), Settles(j), Settle(j)
    PROVE  IsSeq(original')
<1>1. IsSeq(original) /\ j.cut \in Nat
  BY JournalledValues DEF Own, Settles
<1>2. IsSeq(SubSeq(original, 1, j.cut))
  BY <1>1, SubSeqIsSeq
<1> QED
  BY <1>2 DEF Settle, IsSeq

\* So does one that replaces journals and files by such journals and files.
LEMMA OwnUnless ==
    ASSUME Own, side' = side, out' = out \/ out' = [s \in Sides |-> out'[s]],
           Journalled(disk'), Journalled(journal'), Journalled(request'.journal),
           original' = original \/ original' = Missing \/ IsSeq(original')
    PROVE  Own'
BY SMTT(30) DEF Own, Journalled, Shaped, IsSeq

\* A run that returns has what it started with.
LEMMA ReportKeeps ==
    ASSUME RunInv, NEW r, Report(r), UNCHANGED <<side, original, out, request>>,
           Journalled(disk')
    PROVE  RunInv'
<1>1. journal' = NoJournal /\ pc' = "idle" /\ request'.journal = request.journal
  BY DEF Report
<1>2. Journalled(journal') /\ Journalled(request'.journal)
  BY <1>1, FreshJournalled DEF RunInv, Own
<1>3. Own'
  BY <1>2, OwnUnless DEF RunInv
<1>4. Knows'
  BY <1>1, IdleKnows
<1> QED
  BY <1>3, <1>4 DEF RunInv

\* A step that changes neither journals nor files, to a point where no more is known.
LEMMA MoveKeeps ==
    ASSUME RunInv, UNCHANGED <<side, original, out, disk, journal, request>>,
           \/ pc' = pc
           \/ pc' \in {"idle"} \cup Discards
           \/ pc' \in {"undo", "carveOpen"} /\ journal.phase # "assemble"
           \/ pc' \in {"putBack", "removeParts"} /\ journal.phase # "assemble" /\ IsSeq(original)
           \/ pc' = "putting" /\ journal.phase # "assemble" /\ IsSeq(original) /\ journal.chunks # <<>>
           \/ pc' = "assemble"
           \/ pc' \in {"append", "removePart"} /\ journal.phase = "assemble"
    PROVE  RunInv'
<1>1. Own'
  BY OwnStays DEF RunInv
<1>2. Current' = Current /\ Total' = Total
  BY SameCurrent
<1>3. ASSUME pc' = pc PROVE Knows'
  BY <1>2, <1>3 DEF RunInv, Knows, IsSeq, Deciding, Cuts, Restores, Turns, Appends, Discards
<1>4. ASSUME pc' # pc PROVE Knows'
  BY <1>4 DEF Knows, IsSeq, Deciding, Cuts, Restores, Turns, Appends, Discards
<1> QED
  BY <1>1, <1>3, <1>4 DEF RunInv

\* The steps of the decision and of the cut keep it.
LEMMA CutsKeep ==
    ASSUME RunInv, Decide \/ Carve
    PROVE  RunInv'
<1> USE DEF RunInv
<1>0. /\ Journalled(disk) /\ Journalled(journal) /\ Journalled(request.journal)
      /\ side \in [1..N -> BOOLEAN]
  BY DEF Own
<1>1. CASE Start
  <2>1. /\ pc' = "decide" /\ journal' = NewJournal /\ disk' = NewJournal
        /\ UNCHANGED <<side, original, out, request>>
    BY <1>1 DEF Start, Goto, Save
  <2>2. Own'
    BY <1>0, <2>1, FreshJournalled, OwnUnless
  <2>3. NewJournal.phase = "decide"
    BY DEF NewJournal, NoJournal
  <2>4. Knows'
    BY <2>1, <2>3 DEF Knows, Deciding, Cuts, Restores, Turns, Appends, Discards
  <2> QED
    BY <2>2, <2>4
<1>2. CASE DecideDone
  <2>1. /\ pc' = "carveOpen" /\ pc = "decide"
        /\ journal' = [journal EXCEPT !.phase = "carve"] /\ disk' = journal'
        /\ UNCHANGED <<side, original, out, request>>
    BY <1>2 DEF DecideDone, Goto, Save
  <2>2. journal.phase # "assemble"
    BY <2>1 DEF Knows, Deciding
  <2>3. Journalled(journal') /\ journal'.phase = "carve"
    <3> DEFINE p == "carve"
    <3>1. p \in {"none", "decide", "carve", "assemble"} /\ p # "assemble"
      OBVIOUS
    <3>2. journal' = [journal EXCEPT !.phase = p]
      BY <2>1
    <3> HIDE DEF p
    <3>3. Journalled(journal') /\ journal'.phase = p
      BY <1>0, <2>2, <3>1, <3>2, PhaseJournalled
    <3> QED
      BY <3>3 DEF p
  <2>4. Own'
    BY <1>0, <2>1, <2>3, OwnUnless
  <2>5. Knows'
    BY <2>1, <2>3 DEF Knows, Deciding, Cuts, Restores, Turns, Appends, Discards
  <2> QED
    BY <2>4, <2>5
<1>3. CASE DecideFails
  BY <1>3, MoveKeeps DEF DecideFails, Goto, files, Discards
<1>4. CASE CarveOpen
  <2>1. /\ pc = "carveOpen" /\ pc' \in {"carve", "undo"} /\ Settles(journal) /\ Settle(journal)
        /\ UNCHANGED <<side, out, disk, journal, request>>
    BY <1>4 DEF CarveOpen
  <2>2. IsSeq(original') /\ journal.phase # "assemble"
    BY <1>0, <2>1, SettledIs DEF Knows, Cuts
  <2>3. Own'
    BY <1>0, <2>1, <2>2, OwnUnless
  <2>4. Knows'
    BY <2>1, <2>2 DEF Knows, IsSeq, Deciding, Cuts, Restores, Turns, Appends, Discards
  <2> QED
    BY <2>3, <2>4
<1>5. CASE CarveRefused
  <2>1. pc = "carveOpen" /\ pc' = "undo" /\ journal.phase # "assemble"
    BY <1>5 DEF CarveRefused, Goto, Knows, Cuts
  <2> QED
    BY <1>5, <2>1, MoveKeeps DEF CarveRefused, files
<1>6. CASE CarveChunk
  <2>1. /\ pc = "carve" /\ pc' = "record" /\ UNCHANGED <<side, original, out, disk, request>>
        /\ journal.phase # "assemble" /\ IsSeq(original)
    BY <1>6 DEF CarveChunk, Carving, Knows, Cuts
  <2>2. PICK start \in HeadEnd..(journal.cut - 1) :
          journal' = [journal EXCEPT
                       !.chunks = Append(@, [start |-> start, end |-> journal.cut]), !.cut = start]
    BY <1>6 DEF CarveChunk
  <2> DEFINE c == [start |-> start, end |-> journal.cut]
             q == Append(journal.chunks, c)
  <2>3. journal.cut \in 0..N /\ HeadEnd \in 0..N /\ Len(journal.chunks) \in Nat
    BY <1>0, HeadIs, JournalledValues
  <2>4. start \in 0..N /\ start < journal.cut
    BY <2>2, <2>3, SizeAssumption
  <2>5. c \in [start : 0..N, end : 0..N] /\ c.start < c.end
    BY <2>3, <2>4
  <2>6. journal.chunks \in Seq([start : 0..N, end : 0..N])
    BY <1>0, JournalledValues
  <2>7. journal' = [journal EXCEPT !.chunks = q, !.cut = start]
    BY <2>2
  <2> HIDE DEF c
  <2>8. /\ q \in Seq([start : 0..N, end : 0..N]) /\ DOMAIN q = 1..(Len(journal.chunks) + 1)
        /\ \A i \in 1..Len(journal.chunks) : q[i] = journal.chunks[i]
        /\ q[Len(journal.chunks) + 1] = c /\ q # <<>>
    BY <2>5, <2>6, WithOneMore
  <2> HIDE DEF q
  <2>9. \A i \in DOMAIN q : q[i].start < q[i].end
    <3> TAKE i \in DOMAIN q
    <3>1. i \in 1..Len(journal.chunks) \/ i = Len(journal.chunks) + 1
      BY <2>3, <2>8
    <3>2. \A k \in 1..Len(journal.chunks) : journal.chunks[k].start < journal.chunks[k].end
      BY <1>0, JournalledValues
    <3> QED
      BY <2>5, <2>8, <3>1, <3>2
  <2>10. Journalled(journal')
    BY <1>0, <2>1, <2>4, <2>7, <2>8, <2>9, ChunksJournalled
  <2>11. journal'.phase = journal.phase /\ journal'.chunks = q
    BY <1>0, <2>7 DEF Journalled, Shaped
  <2>12. Own'
    BY <1>0, <2>1, <2>10, OwnUnless
  <2>13. Knows'
    BY <2>1, <2>8, <2>11 DEF Knows, IsSeq, Deciding, Cuts, Restores, Turns, Appends, Discards
  <2> QED
    BY <2>12, <2>13
<1>7. CASE Record
  <2>1. /\ pc = "record" /\ pc' = "truncate" /\ journal' = journal /\ disk' = journal
        /\ UNCHANGED <<side, original, out, request>>
    BY <1>7 DEF Record, Goto, Save, files
  <2>2. Own'
    BY <1>0, <2>1, OwnUnless
  <2>3. Knows'
    BY <2>1 DEF Knows, IsSeq, Deciding, Cuts, Restores, Turns, Appends, Discards
  <2> QED
    BY <2>2, <2>3
<1>8. CASE Truncate
  <2>1. /\ pc = "truncate" /\ pc' = "carve" /\ UNCHANGED <<side, out, disk, journal, request>>
        /\ Len(original) = Last(journal.chunks).end /\ original' = SubSeq(original, 1, journal.cut)
        /\ journal.phase # "assemble" /\ IsSeq(original)
    BY <1>8 DEF Truncate, Goto, Knows, Cuts
  <2>2. IsSeq(original')
    <3>1. journal.cut \in Nat
      BY <1>0, JournalledValues
    <3>2. IsSeq(SubSeq(original, 1, journal.cut))
      BY <2>1, <3>1, SubSeqIsSeq
    <3> QED
      BY <2>1, <3>2 DEF IsSeq
  <2>3. Own'
    BY <1>0, <2>1, <2>2, OwnUnless
  <2>4. Knows'
    BY <2>1, <2>2 DEF Knows, IsSeq, Deciding, Cuts, Restores, Turns, Appends, Discards
  <2> QED
    BY <2>3, <2>4
<1>9. CASE CarveStops
  <2>1. pc' = "undo" /\ journal.phase # "assemble"
    BY <1>9 DEF CarveStops, Carving, Knows, Cuts
  <2> QED
    BY <1>9, <2>1, MoveKeeps DEF CarveStops, files
<1>10. CASE CarveDone
  BY <1>10, MoveKeeps DEF CarveDone, Goto, files
<1> QED
  BY <1>1, <1>2, <1>3, <1>4, <1>5, <1>6, <1>7, <1>8, <1>9, <1>10 DEF Decide, Carve

\* So do those that put chunks back, and those that discard.
LEMMA UndoKeeps ==
    ASSUME RunInv, Undo \/ Discard
    PROVE  RunInv'
<1> USE DEF RunInv
<1>0. /\ Journalled(disk) /\ Journalled(journal) /\ Journalled(request.journal)
      /\ side \in [1..N -> BOOLEAN]
  BY DEF Own
<1>1. CASE UndoOpen
  <2>1. /\ pc = "undo" /\ Settles(journal) /\ Settle(journal)
        /\ UNCHANGED <<side, out, disk, request>>
        /\ \/ pc' = "putBack" /\ journal' = journal
           \/ Report("failed")
    BY <1>1 DEF UndoOpen
  <2>2. IsSeq(original') /\ journal.phase # "assemble"
    BY <1>0, <2>1, SettledIs DEF Knows, Restores
  <2>3. CASE pc' = "putBack" /\ journal' = journal
    <3>1. Own'
      BY <1>0, <2>1, <2>2, <2>3, OwnUnless
    <3>2. Knows'
      BY <2>2, <2>3 DEF Knows, IsSeq, Deciding, Cuts, Restores, Turns, Appends, Discards
    <3> QED
      BY <3>1, <3>2
  <2>4. CASE Report("failed")
    <3>1. journal' = NoJournal /\ pc' = "idle"
      BY <2>4 DEF Report
    <3>2. Own'
      BY <1>0, <2>1, <2>2, <3>1, FreshJournalled, OwnUnless
    <3> QED
      BY <3>1, <3>2, IdleKnows
  <2> QED
    BY <2>1, <2>3, <2>4
<1>2. CASE PutBackOpen
  <2>1. pc = "putBack" /\ pc' = "putting" /\ journal.phase # "assemble" /\ IsSeq(original) /\ journal.chunks # <<>>
    BY <1>2 DEF PutBackOpen, Goto, Knows, Restores
  <2> QED
    BY <1>2, <2>1, MoveKeeps DEF PutBackOpen, files
<1>3. CASE PutBackByte
  <2>1. /\ pc = "putting" /\ pc' = pc /\ UNCHANGED <<side, out, disk, journal, request>>
        /\ original' = Append(original, PutBackPart[PutBackAt])
        /\ journal.phase # "assemble" /\ IsSeq(original) /\ journal.chunks # <<>>
    BY <1>3 DEF PutBackByte, Knows, Restores
  <2>2. IsSeq(original') /\ Len(original') = Len(original) + 1
    BY <2>1, AppendIsSeq
  <2>3. Own'
    BY <1>0, <2>1, <2>2, OwnUnless
  <2>4. Knows'
    BY <2>1, <2>2 DEF Knows, IsSeq, Deciding, Cuts, Restores, Turns, Appends, Discards
  <2> QED
    BY <2>3, <2>4
<1>4. CASE PutBackSaved
  <2>1. /\ pc = "putting" /\ pc' = "removeParts" /\ UNCHANGED <<side, original, out, request>>
        /\ journal' = [journal EXCEPT !.chunks = Front(@), !.cut = LastChunk.end]
        /\ disk' = journal'
        /\ journal.phase # "assemble" /\ IsSeq(original) /\ journal.chunks # <<>>
    BY <1>4 DEF PutBackSaved, Goto, Save, files, Knows, Restores
  <2> DEFINE q == Front(journal.chunks)
             c == LastChunk.end
  <2>2. /\ journal.chunks \in Seq([start : 0..N, end : 0..N]) /\ Len(journal.chunks) \in Nat
        /\ Len(journal.chunks) > 0 /\ LastChunk = journal.chunks[Len(journal.chunks)]
        /\ \A i \in 1..Len(journal.chunks) : /\ journal.chunks[i].end \in 0..N
                                             /\ journal.chunks[i].start < journal.chunks[i].end
    BY <1>0, <2>1, JournalledValues DEF LastChunk
  <2>3. c \in 0..N
    BY <2>2
  <2>4. /\ q \in Seq([start : 0..N, end : 0..N]) /\ DOMAIN q = 1..(Len(journal.chunks) - 1)
        /\ \A i \in 1..(Len(journal.chunks) - 1) : q[i] = journal.chunks[i]
    BY <2>1, <2>2, WithoutLast
  <2>5. journal' = [journal EXCEPT !.chunks = q, !.cut = c]
    BY <2>1
  <2> HIDE DEF q, c
  <2>6. \A i \in DOMAIN q : q[i].start < q[i].end
    <3> TAKE i \in DOMAIN q
    <3>0. i \in 1..(Len(journal.chunks) - 1)
      BY <2>4
    <3> DEFINE n == Len(journal.chunks)
    <3>2. n \in Nat /\ i \in 1..(n - 1)
      BY <2>2, <3>0
    <3> HIDE DEF n
    <3>3. i \in 1..n
      BY <3>2
    <3>1. i \in 1..Len(journal.chunks) /\ q[i] = journal.chunks[i]
      BY <2>4, <3>0, <3>3 DEF n
    <3> QED
      BY <2>2, <3>1
  <2>7. Journalled(journal')
    <3>1. Journalled([journal EXCEPT !.chunks = q, !.cut = c])
      BY <1>0, <2>1, <2>3, <2>4, <2>6, ChunksJournalled
    <3> QED
      BY <2>5, <3>1
  <2>8. journal'.phase = journal.phase
    BY <1>0, <2>5 DEF Journalled, Shaped
  <2>9. Own'
    BY <1>0, <2>1, <2>7, OwnUnless
  <2>10. Knows'
    BY <2>1, <2>8 DEF Knows, IsSeq, Deciding, Cuts, Restores, Turns, Appends, Discards
  <2> QED
    BY <2>9, <2>10
<1>5. CASE RemoveParts
  <2>1. pc = "removeParts" /\ pc' = "putBack" /\ journal.phase # "assemble" /\ IsSeq(original)
    BY <1>5 DEF RemoveParts, Goto, Knows, Restores
  <2> QED
    BY <1>5, <2>1, MoveKeeps DEF RemoveParts
<1>6. CASE UndoDone
  BY <1>6, MoveKeeps DEF UndoDone, Goto, files, Discards
<1>7. CASE UndoFails
  <2>1. Report("failed") /\ UNCHANGED <<side, original, out, request, disk>>
    BY <1>7 DEF UndoFails, files
  <2> QED
    BY <1>0, <2>1, ReportKeeps
<1>8. CASE DiscardWork
  BY <1>8, MoveKeeps DEF DiscardWork, Goto, Discards
<1>9. CASE DiscardJournal
  <2>1. PICK r : Report(r)
    BY <1>9 DEF DiscardJournal
  <2>2. UNCHANGED <<side, original, out, request>> /\ (disk' = NoJournal \/ disk' = disk)
    BY <1>9 DEF DiscardJournal, DropJournal, files
  <2>3. Journalled(disk')
    BY <2>2, FreshJournalled DEF RunInv, Own
  <2> QED
    BY <2>1, <2>2, <2>3, ReportKeeps
<1> QED
  BY <1>1, <1>2, <1>3, <1>4, <1>5, <1>6, <1>7, <1>8, <1>9 DEF Undo, Discard

\* So do the other requests: a recovery, the list, the end of the process.
LEMMA OthersKeep ==
    ASSUME RunInv, Recover \/ List \/ Crash \/ UNCHANGED vars
    PROVE  RunInv'
<1> USE DEF RunInv
<1>0. /\ Journalled(disk) /\ Journalled(journal) /\ Journalled(request.journal)
      /\ side \in [1..N -> BOOLEAN]
  BY DEF Own
<1>1. NoRequest.journal = NoJournal
  BY DEF NoRequest
<1>2. ASSUME UNCHANGED <<side, original, out, journal, pc>>, Journalled(disk'), Journalled(request'.journal)
      PROVE  RunInv'
  <2>1. Own'
    BY <1>0, <1>2, OwnUnless
  <2>2. Current' = Current /\ Total' = Total
    BY <1>2, SameCurrent
  <2>3. Knows'
    BY <1>2, <2>2 DEF Knows, IsSeq, Deciding, Cuts, Restores, Turns, Appends, Discards
  <2> QED
    BY <2>1, <2>3
<1>3. CASE RecoverLoad
  <2>1. UNCHANGED <<side, original, out, journal, pc, disk>>
    BY <1>3 DEF RecoverLoad, files
  <2>2. request'.journal = disk
    BY <1>3 DEF RecoverLoad
  <2> QED
    BY <1>0, <1>2, <2>1, <2>2
<1>4. CASE RecoverClaim
  <2>1. UNCHANGED <<side, original, out, disk>> /\ request' = NoRequest /\ pc = "idle"
    BY <1>4 DEF RecoverClaim, files
  <2>2. CASE Report("failed")
    <3>1. journal' = NoJournal /\ pc' = "idle"
      BY <2>2 DEF Report
    <3>2. Own'
      BY <1>0, <1>1, <2>1, <3>1, FreshJournalled, OwnUnless
    <3> QED
      BY <3>1, <3>2, IdleKnows
  <2>3. CASE ~Report("failed")
    <3>1. /\ journal' = request.journal
          /\ pc' = IF request.journal.phase = "assemble" THEN "rename"
                   ELSE IF request.kind = "undo" THEN "undo" ELSE "carveOpen"
      BY <1>4, <2>3 DEF RecoverClaim
    <3>2. Own'
      BY <1>0, <1>1, <2>1, <3>1, FreshJournalled, OwnUnless
    <3>3. Knows'
      BY <3>1 DEF Knows, IsSeq, Deciding, Cuts, Restores, Turns, Appends, Discards
    <3> QED
      BY <3>2, <3>3
  <2> QED
    BY <2>2, <2>3
<1>5. CASE RecoverRefused
  <2>1. UNCHANGED <<side, original, out, journal, pc, disk>> /\ request'.journal = NoJournal
    BY <1>1, <1>5 DEF RecoverRefused, files
  <2> QED
    BY <1>0, <1>2, <2>1, FreshJournalled
<1>6. CASE List
  <2>1. UNCHANGED <<side, original, out, journal, pc, request>> /\ disk' \in {disk, NoJournal}
    BY <1>6 DEF List, ListSnapshot, ListLoad, ListDiscardWork, ListDiscardJournal, DropJournal, files
  <2> QED
    BY <1>0, <1>2, <2>1, FreshJournalled
<1>7. CASE Crash
  <2>1. /\ UNCHANGED <<side, original, out, disk>> /\ request' = NoRequest
        /\ journal' = NoJournal /\ pc' = "idle"
    BY <1>7 DEF Crash, files
  <2>2. Own'
    BY <1>0, <1>1, <2>1, FreshJournalled, OwnUnless
  <2> QED
    BY <2>1, <2>2, IdleKnows
<1>8. CASE UNCHANGED vars
  <2>1. UNCHANGED <<side, original, out, journal, pc, disk, request>>
    BY <1>8 DEF vars
  <2> QED
    BY <1>0, <1>2, <2>1
<1> QED
  BY <1>3, <1>4, <1>5, <1>6, <1>7, <1>8 DEF Recover

\* So do those that assemble the outputs.
LEMMA AssembleKeeps ==
    ASSUME RunInv, Assemble
    PROVE  RunInv'
<1> USE DEF RunInv
<1>0. /\ Journalled(disk) /\ Journalled(journal) /\ Journalled(request.journal)
      /\ side \in [1..N -> BOOLEAN] /\ out = [s \in Sides |-> out[s]]
      /\ Current \in Sides /\ HeadSide \in Sides
  BY CurrentIs DEF Own
<1>1. CASE AssemblePhase
  <2>1. /\ pc' = "rename" /\ UNCHANGED <<side, original, out, request>>
        /\ journal' = [journal EXCEPT !.phase = "assemble"] /\ disk' = journal'
    BY <1>1 DEF AssemblePhase, Goto, Save, files
  <2> DEFINE p == "assemble"
  <2>2. p \in {"none", "decide", "carve", "assemble"} /\ (p # "assemble" => journal.phase # "assemble")
        /\ journal' = [journal EXCEPT !.phase = p]
    BY <2>1
  <2> HIDE DEF p
  <2>3. Journalled(journal') /\ journal'.phase = p
    BY <1>0, <2>2, PhaseJournalled
  <2>4. Own'
    BY <1>0, <2>1, <2>3, OwnUnless
  <2>5. Knows'
    BY <2>1, <2>3 DEF p, Knows, IsSeq, Deciding, Cuts, Restores, Turns, Appends, Discards
  <2> QED
    BY <2>4, <2>5
<1>2. CASE Rename
  <2>1. /\ pc = "rename" /\ pc' = "renamed" /\ UNCHANGED <<side, disk, journal, request>>
        /\ \/ out' = [out EXCEPT ![HeadSide] = original] /\ original' = Missing
           \/ UNCHANGED <<out, original>>
        /\ journal.phase = "assemble"
    BY <1>2 DEF Rename, Goto, Knows
  <2>2. out' = out \/ out' = [s \in Sides |-> out'[s]]
    BY <1>0, <2>1
  <2>3. Own'
    BY <1>0, <2>1, <2>2, OwnUnless
  <2>4. Knows'
    BY <2>1 DEF Knows, IsSeq, Deciding, Cuts, Restores, Turns, Appends, Discards
  <2> QED
    BY <2>3, <2>4
<1>3. CASE RenameRecorded
  <2>1. /\ pc = "renamed" /\ pc' = "append" /\ UNCHANGED <<side, original, out, request>>
        /\ journal' = [journal EXCEPT !.renamed = TRUE, !.done[HeadSide] = 0,
                                      !.len[HeadSide] = journal.cut, !.created[HeadSide] = TRUE]
        /\ disk' = journal' /\ journal.phase = "assemble"
    BY <1>3 DEF RenameRecorded, Goto, Save, files, Knows
  <2>2. journal.cut \in Nat /\ Len(journal.chunks) \in Nat
    BY <1>0, JournalledValues
  <2>3. /\ journal'.phase = journal.phase /\ journal'.chunks = journal.chunks
        /\ journal'.done = [journal.done EXCEPT ![HeadSide] = 0]
        /\ journal'.created = [journal.created EXCEPT ![HeadSide] = TRUE]
        /\ Shaped(journal')
    BY <1>0, <2>1, <2>2 DEF Journalled, Shaped
  <2>4. Journalled(journal')
    <3> DEFINE d == 0
    <3>1. /\ d \in Nat /\ d <= Len(journal.chunks) /\ (journal.phase # "assemble" => d = 0)
          /\ journal'.done = [journal.done EXCEPT ![HeadSide] = d]
      BY <2>2, <2>3
    <3> HIDE DEF d
    <3> QED
      BY <1>0, <2>2, <2>3, <3>1, OutputJournalled
  <2>5. Own'
    BY <1>0, <2>1, <2>4, OwnUnless
  <2>6. Knows'
    BY <2>1, <2>3 DEF Knows, IsSeq, Deciding, Cuts, Restores, Turns, Appends, Discards
  <2> QED
    BY <2>5, <2>6
<1>4. CASE AlreadyRenamed
  <2>1. pc' = "append" /\ journal.phase = "assemble"
    BY <1>4 DEF AlreadyRenamed, Goto, Knows
  <2> QED
    BY <1>4, <2>1, MoveKeeps DEF AlreadyRenamed, files
<1>5. CASE CreateOutput
  <2>1. /\ pc = "append" /\ pc' = "created" /\ UNCHANGED <<side, original, disk, journal, request>>
        /\ ~journal.created[Current] /\ out' = [out EXCEPT ![Current] = BomBytes]
        /\ journal.phase = "assemble"
    BY <1>5 DEF CreateOutput, Goto, Knows, Appends
  <2>2. out' = [s \in Sides |-> out'[s]]
    BY <1>0, <2>1
  <2>3. Own'
    BY <1>0, <2>1, <2>2, OwnUnless
  <2>4. Current' = Current
    BY <2>1, SameCurrent
  <2>5. Knows'
    BY <2>1, <2>4 DEF Knows, IsSeq, Deciding, Cuts, Restores, Turns, Appends, Discards
  <2> QED
    BY <2>3, <2>5
<1>6. CASE CreateRecorded
  <2>1. /\ pc = "created" /\ pc' = "append" /\ UNCHANGED <<side, original, out, request>>
        /\ journal' = [journal EXCEPT !.done[Current] = 0, !.len[Current] = Bom,
                                      !.created[Current] = TRUE]
        /\ disk' = journal' /\ journal.phase = "assemble"
    BY <1>6 DEF CreateRecorded, Goto, Save, files, Knows, Appends
  <2>2. Bom \in Nat /\ Len(journal.chunks) \in Nat
    BY <1>0, JournalledValues, SizeAssumption
  <2> DEFINE o == Current
  <2>3. o \in Sides /\ journal' = [journal EXCEPT !.done[o] = 0, !.len[o] = Bom, !.created[o] = TRUE]
    BY <1>0, <2>1
  <2> HIDE DEF o
  <2>4. /\ journal'.phase = journal.phase /\ journal'.chunks = journal.chunks
        /\ journal'.done = [journal.done EXCEPT ![o] = 0]
        /\ journal'.created = [journal.created EXCEPT ![o] = TRUE]
        /\ Shaped(journal')
    BY <1>0, <2>2, <2>3 DEF Journalled, Shaped
  <2>5. Journalled(journal')
    <3> DEFINE d == 0
    <3>1. /\ d \in Nat /\ d <= Len(journal.chunks) /\ (journal.phase # "assemble" => d = 0)
          /\ journal'.done = [journal.done EXCEPT ![o] = d]
      BY <2>2, <2>4
    <3>2. o \in Sides
      BY <2>3
    <3> HIDE DEF d
    <3> QED
      BY <1>0, <2>4, <3>1, <3>2, OutputJournalled
  <2>6. Own'
    BY <1>0, <2>1, <2>5, OwnUnless
  <2>7. Knows'
    BY <2>1, <2>4 DEF Knows, IsSeq, Deciding, Cuts, Restores, Turns, Appends, Discards
  <2> QED
    BY <2>6, <2>7
<1>7. CASE AppendOpen
  <2>1. /\ pc = "append" /\ pc' = "copy" /\ UNCHANGED <<side, original, disk, journal, request>>
        /\ journal.created[Current] /\ journal.done[Current] < Total
        /\ out' = [out EXCEPT ![Current] = SetLen(out[Current], journal.len[Current])]
        /\ journal.phase = "assemble"
    BY <1>7 DEF AppendOpen, Goto, Knows, Appends
  <2>2. out' = [s \in Sides |-> out'[s]] /\ out'[Current] = SetLen(out[Current], journal.len[Current])
    BY <1>0, <2>1
  <2>3. Own'
    BY <1>0, <2>1, <2>2, OwnUnless
  <2>4. Current' = Current /\ Total' = Total
    BY <2>1, SameCurrent
  <2>5. journal.len[Current] \in Nat
    BY <1>0, JournalledValues
  <2>6. IsSeq(out'[Current])
    BY <2>2, <2>5, SetLenIsSeq
  <2>7. Knows'
    BY <2>1, <2>4, <2>6 DEF Knows, IsSeq, Deciding, Cuts, Restores, Turns, Appends, Discards
  <2> QED
    BY <2>3, <2>7
<1>8. CASE CopyByte
  <2>1. /\ pc = "copy" /\ pc' = pc /\ UNCHANGED <<side, original, disk, journal, request>>
        /\ out' = [out EXCEPT ![Current] = Append(out[Current], reading[Current][CopyAt])]
        /\ journal.phase = "assemble"
        /\ journal.created[Current] /\ journal.done[Current] < Total /\ IsSeq(out[Current])
    BY <1>8 DEF CopyByte, Knows, Appends
  <2>2. /\ out' = [s \in Sides |-> out'[s]]
        /\ out'[Current] = Append(out[Current], reading[Current][CopyAt])
    BY <1>0, <2>1
  <2>3. Own'
    BY <1>0, <2>1, <2>2, OwnUnless
  <2>4. Current' = Current /\ Total' = Total
    BY <2>1, SameCurrent
  <2>5. IsSeq(out'[Current])
    BY <2>1, <2>2, AppendIsSeq
  <2>6. Knows'
    BY <2>1, <2>4, <2>5 DEF Knows, IsSeq, Deciding, Cuts, Restores, Turns, Appends, Discards
  <2> QED
    BY <2>3, <2>6
<1>9. CASE AppendRecorded
  <2>1. /\ pc = "copy" /\ pc' = "removePart" /\ UNCHANGED <<side, original, out, request>>
        /\ journal' = [journal EXCEPT !.done[Current] = @ + 1, !.len[Current] = @ + NextLen]
        /\ disk' = journal' /\ journal.phase = "assemble"
        /\ journal.created[Current] /\ journal.done[Current] < Total
    BY <1>9 DEF AppendRecorded, Goto, Save, files, Knows, Appends
  <2>2. NextLen \in Nat /\ Total \in Nat
    BY <2>1, NextLenIs
  <2> DEFINE o == Current
             d == journal.done[o] + 1
             l == journal.len[o] + NextLen
  <2>3. o \in Sides /\ d \in Nat /\ l \in Nat /\ d <= Len(journal.chunks)
    BY <1>0, <2>1, <2>2, JournalledValues, SMTT(30) DEF Total
  <2>4. journal' = [journal EXCEPT !.done[o] = d, !.len[o] = l] /\ journal.created[o]
    BY <1>0, <2>1
  <2> HIDE DEF o, d, l
  <2>5. /\ journal'.phase = journal.phase /\ journal'.chunks = journal.chunks
        /\ journal'.done = [journal.done EXCEPT ![o] = d]
        /\ journal'.created = journal.created
        /\ Shaped(journal')
    BY <1>0, <2>3, <2>4 DEF Journalled, Shaped
  <2>6. journal'.created = [journal.created EXCEPT ![o] = TRUE]
    <3>1. journal.created \in [Sides -> BOOLEAN] /\ journal.created[o] = TRUE
      BY <1>0, <2>3, <2>4 DEF Journalled, Shaped
    <3> QED
      BY <2>5, <3>1
  <2>7. Journalled(journal')
    BY <1>0, <2>1, <2>3, <2>5, <2>6, OutputJournalled
  <2>8. Own'
    BY <1>0, <2>1, <2>7, OwnUnless
  <2>9. Knows'
    BY <2>1, <2>5 DEF Knows, IsSeq, Deciding, Cuts, Restores, Turns, Appends, Discards
  <2> QED
    BY <2>8, <2>9
<1>10. CASE RemovePart
  <2>1. pc' = "append" /\ journal.phase = "assemble"
    BY <1>10 DEF RemovePart, Goto, Knows, Appends
  <2> QED
    BY <1>10, <2>1, MoveKeeps DEF RemovePart
<1>11. CASE AssembleDone
  BY <1>11, MoveKeeps DEF AssembleDone, Goto, files, Discards
<1>12. CASE AssembleFails
  <2>1. Report("failed") /\ UNCHANGED <<side, original, out, request, disk>>
    BY <1>12 DEF AssembleFails, files
  <2> QED
    BY <1>0, <2>1, ReportKeeps
<1> QED
  BY <1>1, <1>2, <1>3, <1>4, <1>5, <1>6, <1>7, <1>8, <1>9, <1>10, <1>11, <1>12 DEF Assemble

\* The values of what a run knows hold in every state, whoever overlaps with it.
LEMMA RunInvHolds == Spec => []RunInv
<1>1. Init => RunInv
  <2> SUFFICES ASSUME Init PROVE RunInv
    OBVIOUS
  <2>1. /\ side \in [1..N -> BOOLEAN] /\ original = Whole /\ out \in [Sides -> {Missing, <<0>>}]
        /\ disk = NoJournal /\ journal = NoJournal /\ request.journal = NoJournal /\ pc = "idle"
    BY DEF Init, NoRequest
  <2>2. IsSeq(original)
    BY <2>1, WholeIs DEF IsSeq
  <2>3. Own
    BY <2>1, <2>2, FreshJournalled DEF Own
  <2>4. Knows
    BY <2>1 DEF Knows, Deciding, Cuts, Restores, Turns, Appends, Discards
  <2> QED
    BY <2>3, <2>4 DEF RunInv
<1>2. RunInv /\ [Next]_vars => RunInv'
  BY CutsKeep, UndoKeeps, AssembleKeeps, OthersKeep DEF Next
<1> QED
  BY <1>1, <1>2, PTL DEF Spec

-----------------------------------------------------------------------------
(* Every step of a run is on the way down.                                  *)

\* The numbers of a rank.
Numbers == Part \in Nat /\ Rounds \in Nat /\ Point \in Nat /\ Bytes \in Nat

\* They are natural numbers.
LEMMA NumbersAre == RunInv => Numbers
<1> SUFFICES ASSUME RunInv PROVE Numbers
  OBVIOUS
<1>0. Own /\ Knows /\ Journalled(journal) /\ side \in [1..N -> BOOLEAN] /\ Current \in Sides
  BY CurrentIs DEF RunInv, Own
<1>1. /\ journal.cut \in Nat /\ Len(journal.chunks) \in Nat
      /\ \A s \in Sides : /\ journal.done[s] \in Nat /\ journal.done[s] <= Len(journal.chunks)
                          /\ journal.len[s] \in Nat /\ journal.created[s] \in BOOLEAN
  BY <1>0, JournalledValues
<1>2. Part \in Nat
  BY DEF Part
<1>3. Rounds \in Nat
  <2>1. TRUE \in Sides /\ FALSE \in Sides
    BY DEF Sides
  <2> DEFINE m == journal.done[TRUE]
             n == journal.done[FALSE]
  <2>3. /\ m \in Nat /\ m <= Len(journal.chunks)
        /\ n \in Nat /\ n <= Len(journal.chunks)
    BY <1>1, <2>1, Zenon
  <2> HIDE DEF m, n
  <2>4. (Total - m) + (Total - n) \in Nat
    BY <1>1, <2>3 DEF Total
  <2>2. (Total - journal.done[TRUE]) + (Total - journal.done[FALSE]) \in Nat
    BY <2>4 DEF m, n
  <2> QED
    BY <1>1, <2>2 DEF Rounds
<1>4. Point \in Nat
  BY <1>0, <1>1 DEF Point
<1>5. \A n \in Int : Positive(n) \in Nat
  BY DEF Positive
<1>6. pc = "putting" => LastChunk.end - Len(original) \in Int
  <2> HAVE pc = "putting"
  <2>1. IsSeq(original) /\ journal.chunks # <<>>
    BY <1>0 DEF Knows
  <2>2. LastChunk.end \in 0..N
    BY <1>0, <2>1, JournalledValues DEF LastChunk
  <2>3. Len(original) \in Nat
    BY <2>1 DEF IsSeq
  <2> QED
    BY <2>2, <2>3
<1>7. pc = "copy" => journal.len[Current] + NextLen - Len(out[Current]) \in Int
  <2> HAVE pc = "copy"
  <2>1. NextLen \in Nat /\ IsSeq(out[Current])
    BY <1>0, NextLenIs DEF Knows
  <2>2. Len(out[Current]) \in Nat
    BY <2>1 DEF IsSeq
  <2> QED
    BY <1>0, <1>1, <2>1, <2>2
<1>8. Bytes \in Nat
  BY <1>5, <1>6, <1>7 DEF Bytes
<1> QED
  BY <1>2, <1>3, <1>4, <1>8 DEF Numbers

\* A step to a lower rank.
Descends == <<Rank', Rank>> \in RankBelow

\* One number that changes, the first that does, is smaller: a step down.
LEMMA Down ==
    ASSUME RunInv, RunInv',
           \/ Part' < Part
           \/ Part' = Part /\ Rounds' < Rounds
           \/ Part' = Part /\ Rounds' = Rounds /\ Point' < Point
           \/ Part' = Part /\ Rounds' = Rounds /\ Point' = Point /\ Bytes' < Bytes
    PROVE  Descends
<1>1. Numbers
  BY NumbersAre
<1>2. Numbers'
  <2>1. (RunInv => Numbers)'
    BY NumbersAre, PTL
  <2> QED
    BY <2>1
<1> DEFINE a == Part'
           b == Rounds'
           c == Point'
           d == Bytes'
           e == Part
           f == Rounds
           g == Point
           h == Bytes
<1>3. /\ a \in Nat /\ b \in Nat /\ c \in Nat /\ d \in Nat
      /\ e \in Nat /\ f \in Nat /\ g \in Nat /\ h \in Nat
  BY <1>1, <1>2 DEF Numbers
<1>4. \/ a < e
      \/ a = e /\ b < f
      \/ a = e /\ b = f /\ c < g
      \/ a = e /\ b = f /\ c = g /\ d < h
  OBVIOUS
<1>5. Rank' = <<<<a, b>>, <<c, d>>>> /\ Rank = <<<<e, f>>, <<g, h>>>>
  BY DEF Rank
<1> HIDE DEF a, b, c, d, e, f, g, h
<1>6. <<a, b>> \in Nat \X Nat /\ <<c, d>> \in Nat \X Nat /\ <<e, f>> \in Nat \X Nat /\ <<g, h>> \in Nat \X Nat
  BY <1>3
<1>7. CASE a < e \/ (a = e /\ b < f)
  <2>1. << <<a, b>>, <<e, f>> >> \in PairBelow
    BY <1>3, <1>7, PairIsBelow
  <2> QED
    BY <1>5, <1>6, <2>1, RankIsBelow DEF Descends
<1>8. CASE a = e /\ b = f /\ (c < g \/ (c = g /\ d < h))
  <2>1. << <<c, d>>, <<g, h>> >> \in PairBelow
    BY <1>3, <1>8, PairIsBelow
  <2>2. <<a, b>> = <<e, f>>
    BY <1>8
  <2> QED
    BY <1>5, <1>6, <2>1, <2>2, RankIsBelow DEF Descends
<1> QED
  BY <1>4, <1>7, <1>8

\* The numbers of a point, of a run that is not at the end of a loop.
LEMMA PartIs ==
    /\ pc \in Deciding => Part = 5
    /\ pc \in Cuts     => Part = 4 /\ Rounds = journal.cut
    /\ pc \in Restores => Part = 3 /\ Rounds = Len(journal.chunks)
    /\ pc \in Turns    => Part = 2 /\ Rounds = 0
    /\ pc \in Appends  => /\ Part = 1
                          /\ Rounds = (Total - journal.done[TRUE]) + (Total - journal.done[FALSE])
    /\ pc \in Discards => Part = 0 /\ Rounds = 0
BY DEF Part, Rounds, Deciding, Cuts, Restores, Turns, Appends, Discards

\* So are those after a step.
LEMMA PartIsNext ==
    /\ pc' \in Deciding => Part' = 5
    /\ pc' \in Cuts     => Part' = 4 /\ Rounds' = journal'.cut
    /\ pc' \in Restores => Part' = 3 /\ Rounds' = Len(journal'.chunks)
    /\ pc' \in Turns    => Part' = 2 /\ Rounds' = 0
    /\ pc' \in Appends  => /\ Part' = 1
                           /\ Rounds' = (Total' - journal'.done[TRUE]) + (Total' - journal'.done[FALSE])
    /\ pc' \in Discards => Part' = 0 /\ Rounds' = 0
BY DEF Part, Rounds, Deciding, Cuts, Restores, Turns, Appends, Discards

\* A later part of the run is a lower rank.
LEMMA LaterPart ==
    ASSUME RunInv, RunInv',
           \/ pc \in Deciding /\ pc' \in Cuts
           \/ pc \in Cuts     /\ pc' \in Restores \cup Turns
           \/ pc \in Turns    /\ pc' \in Appends
           \/ pc \in Deciding \cup Restores \cup Appends /\ pc' \in Discards
    PROVE  Descends
<1>1. \/ Part = 5 /\ Part' \in {4, 0}
      \/ Part = 4 /\ Part' \in {3, 2}
      \/ Part = 2 /\ Part' = 1
      \/ Part \in {3, 1} /\ Part' = 0
  BY PartIs, PartIsNext, Zenon DEF Deciding, Cuts, Restores, Turns, Appends, Discards
<1>2. Part' < Part
  BY <1>1
<1> QED
  BY <1>2, Down

\* So is a later point of the round a loop is in.
LEMMA LaterPoint ==
    ASSUME RunInv, RunInv', journal' = journal, side' = side, Point' < Point,
           \/ pc \in Cuts /\ pc' \in Cuts
           \/ pc \in Restores /\ pc' \in Restores
           \/ pc \in Turns /\ pc' \in Turns
           \/ pc \in Appends /\ pc' \in Appends
           \/ pc \in Discards /\ pc' \in Discards
    PROVE  Descends
<1>1. Total' = Total
  BY SameCurrent
<1>2. Part' = Part /\ Rounds' = Rounds
  BY <1>1, PartIs, PartIsNext
<1> QED
  BY <1>2, Down

\* The points, but for the one that asks whether the output exists.
LEMMA PointIs ==
    /\ pc = "removePart" => Point = 4
    /\ pc \in {"carveOpen", "undo"} => Point = 3
    /\ pc \in {"record", "removeParts", "assemble", "created"} => Point = 2
    /\ pc \in {"truncate", "putBack", "rename", "discardWork"} => Point = 1
    /\ pc = "append" => Point = IF journal.created[Current] THEN 1 ELSE 3
    /\ pc \in {"carve", "putting", "renamed", "copy", "discardJournal"} => Point = 0
BY DEF Point

\* So are those after a step.
LEMMA PointIsNext ==
    /\ pc' = "removePart" => Point' = 4
    /\ pc' \in {"carveOpen", "undo"} => Point' = 3
    /\ pc' \in {"record", "removeParts", "assemble", "created"} => Point' = 2
    /\ pc' \in {"truncate", "putBack", "rename", "discardWork"} => Point' = 1
    /\ pc' = "append" => Point' = IF journal'.created[Current'] THEN 1 ELSE 3
    /\ pc' \in {"carve", "putting", "renamed", "copy", "discardJournal"} => Point' = 0
BY DEF Point

\* The decision and the cut go down.
LEMMA CutsDescend ==
    ASSUME RunInv, RunInv', pc # "idle", Decide \/ Carve
    PROVE  Descends
<1>0. Journalled(journal)
  BY DEF RunInv, Own
<1>1. CASE Start
  BY <1>1 DEF Start, Goto
<1>2. CASE DecideDone
  <2>1. pc \in Deciding /\ pc' \in Cuts
    BY <1>2 DEF DecideDone, Goto, Deciding, Cuts
  <2> QED
    BY <2>1, LaterPart
<1>3. CASE DecideFails
  <2>1. pc \in Deciding /\ pc' \in Discards
    BY <1>3 DEF DecideFails, Goto, Deciding, Discards
  <2> QED
    BY <2>1, LaterPart
<1>4. CASE CarveOpen
  <2>1. pc = "carveOpen" /\ pc' \in {"carve", "undo"} /\ journal' = journal /\ side' = side
    BY <1>4 DEF CarveOpen
  <2>2. CASE pc' = "undo"
    <3>1. pc \in Cuts /\ pc' \in Restores
      BY <2>1, <2>2 DEF Cuts, Restores
    <3> QED
      BY <3>1, LaterPart
  <2>3. CASE pc' = "carve"
    <3>1. pc \in Cuts /\ pc' \in Cuts /\ Point' < Point
      BY <2>1, <2>3, PointIs, PointIsNext DEF Cuts
    <3> QED
      BY <2>1, <3>1, LaterPoint
  <2> QED
    BY <2>1, <2>2, <2>3
<1>5. CASE CarveRefused \/ CarveStops
  <2>1. pc \in Cuts /\ pc' \in Restores
    BY <1>5 DEF CarveRefused, CarveStops, Carving, Goto, Cuts, Restores
  <2> QED
    BY <2>1, LaterPart
<1>6. CASE CarveChunk
  <2>1. pc \in Cuts /\ pc' \in Cuts
    BY <1>6 DEF CarveChunk, Carving, Cuts
  <2>2. PICK start \in HeadEnd..(journal.cut - 1) :
          journal' = [journal EXCEPT
                       !.chunks = Append(@, [start |-> start, end |-> journal.cut]), !.cut = start]
    BY <1>6 DEF CarveChunk
  <2>3. journal'.cut = start
    BY <1>0, <2>2 DEF Journalled, Shaped
  <2>4. journal.cut \in Nat /\ HeadEnd \in Int
    <3>1. HeadEnd \in 0..N
      BY HeadIs DEF RunInv, Own
    <3> QED
      BY <1>0, <3>1, JournalledValues
  <2>5. start < journal.cut
    BY <2>2, <2>4
  <2>6. Part' = Part /\ Rounds' < Rounds
    BY <2>1, <2>3, <2>5, PartIs, PartIsNext
  <2> QED
    BY <2>6, Down
<1>7. CASE Record \/ Truncate
  <2>1. pc \in Cuts /\ pc' \in Cuts /\ journal' = journal /\ side' = side
    BY <1>7 DEF Record, Truncate, Goto, Save, Cuts
  <2>2. Point' < Point
    BY <1>7, PointIs, PointIsNext DEF Record, Truncate, Goto
  <2> QED
    BY <2>1, <2>2, LaterPoint
<1>8. CASE CarveDone
  <2>1. pc \in Cuts /\ pc' \in Turns
    BY <1>8 DEF CarveDone, Goto, Cuts, Turns
  <2> QED
    BY <2>1, LaterPart
<1> QED
  BY <1>1, <1>2, <1>3, <1>4, <1>5, <1>6, <1>7, <1>8 DEF Decide, Carve

\* Putting chunks back goes down, or ends; so does discarding.
LEMMA UndoDescends ==
    ASSUME RunInv, RunInv', Undo \/ Discard
    PROVE  pc' = "idle" \/ Descends
<1>0. /\ Journalled(journal)
      /\ pc = "putting" => IsSeq(original) /\ journal.chunks # <<>>
  BY DEF RunInv, Own, Knows
<1>1. CASE UndoOpen
  <2>1. pc = "undo" /\ side' = side /\ ((pc' = "putBack" /\ journal' = journal) \/ pc' = "idle")
    BY <1>1 DEF UndoOpen, Report
  <2>2. CASE pc' = "putBack" /\ journal' = journal
    <3>1. pc \in Restores /\ pc' \in Restores /\ Point' < Point
      BY <2>1, <2>2, PointIs, PointIsNext DEF Restores
    <3> QED
      BY <2>1, <2>2, <3>1, LaterPoint
  <2> QED
    BY <2>1, <2>2
<1>2. CASE PutBackOpen \/ RemoveParts
  <2>1. pc \in Restores /\ pc' \in Restores /\ journal' = journal /\ side' = side
    BY <1>2 DEF PutBackOpen, RemoveParts, Goto, Restores
  <2>2. Point' < Point
    BY <1>2, PointIs, PointIsNext DEF PutBackOpen, RemoveParts, Goto
  <2> QED
    BY <2>1, <2>2, LaterPoint
<1>3. CASE PutBackByte
  <2>1. /\ pc = "putting" /\ pc' = "putting" /\ journal' = journal
        /\ Len(original) < LastChunk.end /\ original' = Append(original, PutBackPart[PutBackAt])
    BY <1>3 DEF PutBackByte
  <2>2. Len(original) \in Nat /\ Len(original') = Len(original) + 1
    BY <1>0, <2>1, AppendIsSeq
  <2>3. LastChunk.end \in Nat /\ LastChunk' = LastChunk
    <3>0. journal.chunks # <<>>
      BY <1>0, <2>1
    <3>1. LastChunk.end \in 0..N
      BY <1>0, <3>0, JournalledValues DEF LastChunk
    <3>2. LastChunk.end \in Nat
      BY <3>1, SizeAssumption
    <3> QED
      BY <2>1, <3>2 DEF LastChunk
  <2>4. Part' = Part /\ Rounds' = Rounds /\ Point' = Point
    BY <2>1, PartIs, PartIsNext, PointIs, PointIsNext DEF Restores
  <2> DEFINE e == LastChunk.end
             n == Len(original)
             m == Len(original')
  <2>5. Bytes = Positive(e - n) /\ Bytes' = Positive(e - m)
    BY <2>1, <2>3 DEF Bytes
  <2>6. e \in Nat /\ n \in Nat /\ m = n + 1 /\ n < e
    BY <2>1, <2>2, <2>3
  <2> HIDE DEF e, n, m
  <2>7. Bytes' < Bytes
    BY <2>5, <2>6 DEF Positive
  <2> QED
    BY <2>4, <2>7, Down
<1>4. CASE PutBackSaved
  <2>1. /\ pc = "putting" /\ pc' = "removeParts"
        /\ journal' = [journal EXCEPT !.chunks = Front(@), !.cut = LastChunk.end]
        /\ journal.chunks # <<>>
    BY <1>0, <1>4 DEF PutBackSaved, Goto, Save
  <2>2. journal'.chunks = Front(journal.chunks)
    BY <1>0, <2>1 DEF Journalled, Shaped
  <2>3. /\ journal.chunks \in Seq([start : 0..N, end : 0..N]) /\ Len(journal.chunks) \in Nat
        /\ Len(journal.chunks) > 0
    BY <1>0, <2>1, JournalledValues
  <2>4. /\ Front(journal.chunks) \in Seq([start : 0..N, end : 0..N])
        /\ DOMAIN Front(journal.chunks) = 1..(Len(journal.chunks) - 1)
    BY <2>1, <2>3, WithoutLast
  <2>5. Len(journal'.chunks) < Len(journal.chunks)
    BY <2>2, <2>3, <2>4
  <2>6. Part' = Part /\ Rounds' < Rounds
    BY <2>1, <2>5, PartIs, PartIsNext DEF Restores
  <2> QED
    BY <2>6, Down
<1>5. CASE UndoDone
  <2>1. pc \in Restores /\ pc' \in Discards
    BY <1>5 DEF UndoDone, Goto, Restores, Discards
  <2> QED
    BY <2>1, LaterPart
<1>6. CASE DiscardWork
  <2>1. pc = "discardWork" /\ pc' = "discardJournal" /\ journal' = journal /\ side' = side
    BY <1>6 DEF DiscardWork, Goto
  <2>2. pc \in Discards /\ pc' \in Discards /\ Point' < Point
    BY <2>1, PointIs, PointIsNext DEF Discards
  <2> QED
    BY <2>1, <2>2, LaterPoint
<1>7. CASE UndoFails \/ DiscardJournal
  BY <1>7 DEF UndoFails, DiscardJournal, Report
<1> QED
  BY <1>1, <1>2, <1>3, <1>4, <1>5, <1>6, <1>7 DEF Undo, Discard

\* So does assembling the outputs.
LEMMA AssembleDescends ==
    ASSUME RunInv, RunInv', Assemble
    PROVE  pc' = "idle" \/ Descends
<1>0. /\ Own /\ Knows /\ Journalled(journal) /\ side \in [1..N -> BOOLEAN]
      /\ Current \in Sides
  BY CurrentIs DEF RunInv, Own
<1>1. CASE AssemblePhase \/ Rename
  <2>1. pc \in Turns /\ pc' \in Turns /\ side' = side
    BY <1>1 DEF AssemblePhase, Rename, Goto, Turns
  <2>2. Part' = Part /\ Rounds' = Rounds
    BY <2>1, PartIs, PartIsNext
  <2>3. Point' < Point
    BY <1>1, PointIs, PointIsNext DEF AssemblePhase, Rename, Goto
  <2> QED
    BY <2>2, <2>3, Down
<1>2. CASE RenameRecorded \/ AlreadyRenamed
  <2>1. pc \in Turns /\ pc' \in Appends
    BY <1>2 DEF RenameRecorded, AlreadyRenamed, Goto, Turns, Appends
  <2> QED
    BY <2>1, LaterPart
<1>3. CASE CreateOutput \/ AppendOpen \/ RemovePart
  <2>1. pc \in Appends /\ pc' \in Appends /\ journal' = journal /\ side' = side
    BY <1>3 DEF CreateOutput, AppendOpen, RemovePart, Goto, Appends
  <2>2. Current' = Current
    BY <2>1, SameCurrent
  <2>3. \/ pc = "append" /\ pc' = "created" /\ ~journal.created[Current]
        \/ pc = "append" /\ pc' = "copy" /\ journal.created[Current]
        \/ pc = "removePart" /\ pc' = "append"
    BY <1>3 DEF CreateOutput, AppendOpen, RemovePart, Goto
  <2>4. Point' < Point
    BY <2>3, PointIs, PointIsNext
  <2> QED
    BY <2>1, <2>4, LaterPoint
<1>4. CASE CreateRecorded
  <2>1. /\ pc = "created" /\ pc' = "append" /\ side' = side
        /\ journal' = [journal EXCEPT !.done[Current] = 0, !.len[Current] = Bom,
                                      !.created[Current] = TRUE]
    BY <1>4 DEF CreateRecorded, Goto, Save, files
  <2> DEFINE o == Current
  <2>2. o \in Sides /\ journal.done[o] = 0
    <3>1. ~journal.created[Current]
      BY <1>0, <2>1 DEF Knows
    <3> QED
      BY <1>0, <3>1, JournalledValues
  <2>3. journal' = [journal EXCEPT !.done[o] = 0, !.len[o] = Bom, !.created[o] = TRUE]
    BY <2>1
  <2> HIDE DEF o
  <2>4. /\ journal'.chunks = journal.chunks
        /\ journal'.done = [journal.done EXCEPT ![o] = 0]
        /\ journal'.created = [journal.created EXCEPT ![o] = TRUE]
    BY <1>0, <2>3 DEF Journalled, Shaped
  <2>5. journal'.done = journal.done /\ journal'.created[o] = TRUE
    <3>1. journal.done \in [Sides -> Nat] /\ journal.created \in [Sides -> BOOLEAN]
      BY <1>0 DEF Journalled, Shaped
    <3> QED
      BY <2>2, <2>4, <3>1
  <2>6. HeadSide' = HeadSide
    BY <2>1, SameSide
  <2>7. Total' = Total
    BY <2>4 DEF Total
  <2>8. Current' = o
    BY <2>5, <2>6, <2>7 DEF Current, o
  <2>9. Part' = Part /\ Rounds' = Rounds
    BY <2>1, <2>5, <2>7, PartIs, PartIsNext DEF Appends
  <2>10. Point' < Point
    BY <2>1, <2>5, <2>8, PointIs, PointIsNext
  <2> QED
    BY <2>9, <2>10, Down
<1>5. CASE CopyByte
  <2>1. /\ pc = "copy" /\ pc' = "copy" /\ journal' = journal /\ side' = side
        /\ CopyAt <= NextLen
        /\ out' = [out EXCEPT ![Current] = Append(out[Current], reading[Current][CopyAt])]
    BY <1>5 DEF CopyByte
  <2>2. Current' = Current /\ NextLen' = NextLen /\ Total' = Total
    BY <2>1, SameCurrent
  <2>3. out'[Current] = Append(out[Current], reading[Current][CopyAt])
    BY <1>0, <2>1 DEF Own
  <2>4. IsSeq(out[Current]) /\ NextLen \in Nat /\ journal.len[Current] \in Nat
    BY <1>0, <2>1, NextLenIs, JournalledValues DEF Knows
  <2> DEFINE l == journal.len[Current]
             t == NextLen
             n == Len(out[Current])
             m == Len(out'[Current])
  <2>5. n \in Nat /\ m = n + 1
    BY <2>3, <2>4, AppendIsSeq
  <2>6. Bytes = Positive(l + t - n) /\ Bytes' = Positive(l + t - m)
    BY <2>1, <2>2 DEF Bytes
  <2>7. l \in Nat /\ t \in Nat /\ n - l + 1 <= t
    BY <2>1, <2>4 DEF CopyAt
  <2> HIDE DEF l, t, n, m
  <2>8. Bytes' < Bytes
    BY <2>5, <2>6, <2>7 DEF Positive
  <2>9. Part' = Part /\ Rounds' = Rounds /\ Point' = Point
    BY <2>1, <2>2, PartIs, PartIsNext, PointIs, PointIsNext DEF Appends
  <2> QED
    BY <2>8, <2>9, Down
<1>6. CASE AppendRecorded
  <2>1. /\ pc = "copy" /\ pc' = "removePart"
        /\ journal' = [journal EXCEPT !.done[Current] = @ + 1, !.len[Current] = @ + NextLen]
    BY <1>6 DEF AppendRecorded, Goto, Save, files
  <2> DEFINE o == Current
  <2>2. o \in Sides /\ journal' = [journal EXCEPT !.done[o] = @ + 1, !.len[o] = @ + NextLen]
    BY <1>0, <2>1
  <2> HIDE DEF o
  <2>3. /\ journal'.chunks = journal.chunks
        /\ journal'.done = [journal.done EXCEPT ![o] = @ + 1]
    BY <1>0, <2>2 DEF Journalled, Shaped
  <2>4. Total' = Total /\ Total \in Nat
    BY <1>0, <2>3, JournalledValues DEF Total
  <2>5. journal.done \in [Sides -> Nat]
    BY <1>0 DEF Journalled, Shaped
  <2> DEFINE a == journal.done[TRUE]
             b == journal.done[FALSE]
             c == journal'.done[TRUE]
             d == journal'.done[FALSE]
             n == Total
  <2>6. /\ a \in Nat /\ b \in Nat /\ n \in Nat
        /\ (c = a + 1 /\ d = b) \/ (c = a /\ d = b + 1)
    BY <2>2, <2>3, <2>4, <2>5, ZenonT(40) DEF Sides
  <2> HIDE DEF a, b, c, d, n
  <2>7. (n - c) + (n - d) < (n - a) + (n - b)
    BY <2>6
  <2>8. Part' = Part /\ Rounds' = (n - c) + (n - d) /\ Rounds = (n - a) + (n - b)
    BY <2>1, <2>4, PartIs, PartIsNext DEF Appends, a, b, c, d, n
  <2> QED
    BY <2>7, <2>8, Down
<1>7. CASE AssembleDone
  <2>1. pc \in Appends /\ pc' \in Discards
    BY <1>7 DEF AssembleDone, Goto, Appends, Discards
  <2> QED
    BY <2>1, LaterPart
<1>8. CASE AssembleFails
  BY <1>8 DEF AssembleFails, Report
<1> QED
  BY <1>1, <1>2, <1>3, <1>4, <1>5, <1>6, <1>7, <1>8 DEF Assemble

\* A request, the list or the end of the process leaves a run where it is, or
\* ends it.
LEMMA OthersLeave ==
    ASSUME RunInv, pc # "idle", Recover \/ List \/ Crash \/ UNCHANGED vars
    PROVE  pc' = "idle" \/ (pc' = pc /\ Rank' = Rank)
<1>1. \/ pc' = "idle"
      \/ UNCHANGED <<side, journal, pc, original, out>>
  BY DEF Recover, RecoverLoad, RecoverClaim, RecoverRefused, List, ListSnapshot, ListLoad,
         ListDiscardWork, ListDiscardJournal, Crash, files, vars
<1>2. ASSUME UNCHANGED <<side, journal, pc, original, out>> PROVE Rank' = Rank
  <2>1. Current' = Current /\ Total' = Total /\ NextLen' = NextLen
    BY <1>2, SameCurrent
  <2>2. LastChunk' = LastChunk
    BY <1>2 DEF LastChunk
  <2>3. Part' = Part
    BY <1>2 DEF Part
  <2>4. Rounds' = Rounds
    BY <1>2, <2>1 DEF Rounds
  <2>5. Point' = Point
    BY <1>2, <2>1 DEF Point
  <2>6. Bytes' = Bytes
    BY <1>2, <2>1, <2>2 DEF Bytes
  <2> QED
    BY <2>3, <2>4, <2>5, <2>6 DEF Rank
<1> QED
  BY <1>1, <1>2

\* A run has somewhere lower to go at every step, whatever fails and whoever
\* else is at work: what it has left is a rank,
THEOREM RankAlwaysThere == Spec => [](Rank \in Ranks)
<1>1. RunInv => Rank \in Ranks
  BY NumbersAre DEF Numbers, Rank, Ranks
<1> QED
  BY <1>1, RunInvHolds, PTL

\* each of its steps lowers it or ends the run,
THEOREM RunAlwaysDescends ==
    Spec => [][Run /\ pc # "idle" => pc' = "idle" \/ <<Rank', Rank>> \in RankBelow]_vars
<1>1. ASSUME RunInv, RunInv', [Next]_vars
      PROVE  [Run /\ pc # "idle" => pc' = "idle" \/ <<Rank', Rank>> \in RankBelow]_vars
  BY <1>1, CutsDescend, UndoDescends, AssembleDescends DEF Run, Descends
<1> QED
  BY <1>1, RunInvHolds, PTL DEF Spec

\* and a step of anyone else leaves it as it is or ends the run.
THEOREM NobodyDelaysARun ==
    Spec => [][pc # "idle" /\ ~Run => pc' = "idle" \/ (pc' = pc /\ Rank' = Rank)]_vars
<1>1. ASSUME RunInv, [Next]_vars
      PROVE  [pc # "idle" /\ ~Run => pc' = "idle" \/ (pc' = pc /\ Rank' = Rank)]_vars
  BY <1>1, OthersLeave DEF Next, Run
<1> QED
  BY <1>1, RunInvHolds, PTL DEF Spec
=============================================================================

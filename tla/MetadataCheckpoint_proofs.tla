-------------------------- MODULE MetadataCheckpoint_proofs --------------------------
(***************************************************************************)
(* Theorems about MetadataCheckpoint: the rows an opener has are those of  *)
(* one reading of the log, the rows of a mapped index stay in its file,    *)
(* and saved progress is kept as DurableProgress says.                     *)
(*                                                                         *)
(* The lemmas about the framing go by the least counterexample: a set of   *)
(* numbers that is not empty has a least one.                              *)
(***************************************************************************)
EXTENDS MetadataCheckpoint, SequenceTheorems, WellFoundedInduction, TLAPS

-----------------------------------------------------------------------------
(* Numbers.                                                                *)

\* A set of numbers that is not empty has a least one.
LEMMA Least ==
    ASSUME NEW S \in SUBSET Nat, S # {}
    PROVE  \E x \in S : \A y \in S : x <= y
<1> DEFINE R == OpToRel(<, Nat)
<1>1. IsWellFoundedOn(R, Nat)
  BY NatLessThanWellFounded, Zenon
<1>2. \A i, j \in Nat : i < j => <<i, j>> \in R
  BY DEF OpToRel
<1> HIDE DEF R
<1>3. PICK x \in S : \A y \in S : <<y, x>> \notin R
  BY <1>1, WFMin
<1>4. ASSUME NEW y \in S PROVE x <= y
  <2>1. ~(y < x)
    BY <1>2, <1>3, <1>4
  <2> QED
    BY <2>1
<1> QED
  BY <1>4

\* A set of numbers below a bound that is not empty has a greatest one.
LEMMA Greatest ==
    ASSUME NEW b \in Nat, NEW S \in SUBSET (0..b), S # {}
    PROVE  \E x \in S : \A y \in S : y <= x
<1> DEFINE T == {b - x : x \in S}
<1>1. T \in SUBSET Nat /\ T # {}
  <2>1. \A x \in S : b - x \in Nat
    OBVIOUS
  <2> QED
    BY <2>1
<1> HIDE DEF T
<1>2. PICK t \in T : \A u \in T : t <= u
  BY <1>1, Least
<1>3. PICK x \in S : t = b - x
  BY DEF T
<1>4. ASSUME NEW y \in S PROVE y <= x
  <2>1. b - y \in T
    BY DEF T
  <2>2. b - x <= b - y
    BY <1>2, <1>3, <2>1
  <2> QED
    BY <2>2
<1> QED
  BY <1>4

\* What holds at the first number of a range, and at each when it holds at the
\* one before, holds all over the range.
LEMMA Along ==
    ASSUME NEW from \in Nat, NEW to \in Nat, NEW S, from \in S,
           \A k \in (from + 1)..to : k - 1 \in S => k \in S
    PROVE  \A k \in from..to : k \in S
<1> DEFINE B == {k \in from..to : k \notin S}
<1>1. B \in SUBSET Nat
  OBVIOUS
<1>2. SUFFICES ASSUME B # {} PROVE FALSE
  OBVIOUS
<1>3. PICK k \in B : \A j \in B : k <= j
  <2> HIDE DEF B
  <2> QED
    BY <1>1, <1>2, Least
<1>4. k # from /\ k \in (from + 1)..to /\ k - 1 \in from..to /\ ~(k <= k - 1)
  BY <1>3
<1>5. k - 1 \in S
  BY <1>3, <1>4
<1> QED
  BY <1>3, <1>4, <1>5

-----------------------------------------------------------------------------
(* Reading lines into rows.                                                *)

\* What Read computes: nothing to read, or the last line after all before it.
LEMMA ReadStep ==
    ASSUME NEW rows, NEW from \in 0..N
    PROVE  /\ Read(rows, from, from) = rows
           /\ \A to \in (from + 1)..N :
                Read(rows, from, to) = IF Keeps(to) THEN Push(Read(rows, from, to - 1), to)
                                       ELSE Read(rows, from, to - 1)
<1> DEFINE G(f, k) == [n \in from..k |-> IF n = from THEN rows
                                         ELSE IF Keeps(n) THEN Push(f[n - 1], n) ELSE f[n - 1]]
           read == CHOOSE f : f = G(f, N)
<1>1. \A to : Read(rows, from, to) = read[to]
  BY DEF Read
<1>2. \E f : f = G(f, N)
  <2> DEFINE B == {k \in from..N : ~ \E f : f = G(f, k)}
  <2>1. N \in from..N /\ \A k \in from..N : k \in Nat
    BY LogAssumption
  <2>0. SUFFICES ASSUME B # {} PROVE FALSE
    BY <2>1
  <2>5. B \in SUBSET Nat
    BY <2>1
  <2>2. PICK k \in B : \A j \in B : k <= j
    <3> HIDE DEF B
    <3> QED
      BY <2>0, <2>5, Least
  <2>3. CASE k = from
    <3>1. [n \in {from} |-> rows] = G([n \in {from} |-> rows], from)
      OBVIOUS
    <3> QED
      BY <2>3, <3>1
  <2>4. CASE k > from
    <3>5. k - 1 \in from..N /\ ~(k <= k - 1)
      BY <2>1, <2>2, <2>4, LogAssumption
    <3>1. PICK f : f = G(f, k - 1)
      BY <2>2, <3>5
    <3> DEFINE g == [n \in from..k |-> IF n < k THEN f[n]
                                       ELSE IF Keeps(n) THEN Push(f[n - 1], n) ELSE f[n - 1]]
    <3>2. g = G(g, k)
      <4>1. ASSUME NEW n \in from..k
            PROVE  g[n] = IF n = from THEN rows ELSE IF Keeps(n) THEN Push(g[n - 1], n) ELSE g[n - 1]
        BY <2>4, <3>1
      <4> QED
        BY <4>1
    <3> QED
      BY <3>2
  <2> QED
    BY <2>2, <2>3, <2>4
<1>3. read = G(read, N)
  BY <1>2
<1> HIDE DEF read
<1>4. read[from] = rows
  BY <1>3, LogAssumption
<1>5. ASSUME NEW to \in (from + 1)..N
      PROVE  read[to] = IF Keeps(to) THEN Push(read[to - 1], to) ELSE read[to - 1]
  <2>1. to \in from..N /\ to # from
    BY LogAssumption
  <2> QED
    BY <1>3, <2>1
<1> QED
  BY <1>1, <1>4, <1>5

\* What one line does to rows.
LEMMA PushRows ==
    ASSUME NEW rows \in Seq(Rows), NEW n \in 1..N
    PROVE  /\ Push(rows, n) \in Seq(Rows) /\ Push(rows, n) # <<>>
           /\ Len(Push(rows, n)) \in {Len(rows), Len(rows) + 1}
           /\ \A i \in 1..(Len(rows) - 1) : Push(rows, n)[i] = rows[i]
<1>1. CASE log[n] = "more" /\ rows # <<>>
  <2> DEFINE last == rows[Len(rows)]
  <2>1. Len(rows) \in 1..Len(rows) /\ last \in Rows
    BY <1>1
  <2>2. [last EXCEPT !.to = n] \in Rows
    BY <2>1, LogAssumption DEF Rows
  <2>3. Push(rows, n) = [rows EXCEPT ![Len(rows)] = [last EXCEPT !.to = n]]
    BY <1>1 DEF Push, Extend
  <2> HIDE DEF last
  <2> QED
    BY <1>1, <2>1, <2>2, <2>3
<1>2. CASE ~(log[n] = "more" /\ rows # <<>>)
  <2>1. [from |-> n, to |-> n] \in Rows
    BY LogAssumption DEF Rows
  <2>2. Push(rows, n) = Append(rows, [from |-> n, to |-> n])
    BY <1>2 DEF Push
  <2> QED
    BY <2>1, <2>2
<1> QED
  BY <1>1, <1>2

\* A reading only extends the last row it is given and adds rows after it.
LEMMA ReadRows ==
    ASSUME NEW rows \in Seq(Rows), NEW from \in 0..N, NEW to \in from..N
    PROVE  /\ Read(rows, from, to) \in Seq(Rows)
           /\ Len(Read(rows, from, to)) >= Len(rows)
           /\ \A i \in 1..(Len(rows) - 1) : Read(rows, from, to)[i] = rows[i]
<1> DEFINE P(k) == /\ Read(rows, from, k) \in Seq(Rows)
                   /\ Len(Read(rows, from, k)) >= Len(rows)
                   /\ \A i \in 1..(Len(rows) - 1) : Read(rows, from, k)[i] = rows[i]
           S == {k \in from..N : P(k)}
<1>1. from \in S
  BY ReadStep, LogAssumption
<1>2. ASSUME NEW k \in (from + 1)..N, k - 1 \in S PROVE k \in S
  <2>1. k \in from..N /\ k \in 1..N /\ P(k - 1)
    BY <1>2, LogAssumption
  <2>2. CASE ~Keeps(k)
    <3>1. Read(rows, from, k) = Read(rows, from, k - 1)
      BY <2>2, ReadStep
    <3> QED
      BY <2>1, <3>1
  <2>3. CASE Keeps(k)
    <3> DEFINE s == Read(rows, from, k - 1)
    <3>1. Read(rows, from, k) = Push(s, k)
      BY <2>3, ReadStep
    <3>2. s \in Seq(Rows) /\ Len(s) >= Len(rows) /\ \A i \in 1..(Len(rows) - 1) : s[i] = rows[i]
      BY <2>1
    <3> HIDE DEF s
    <3>3. /\ Push(s, k) \in Seq(Rows) /\ Len(Push(s, k)) \in {Len(s), Len(s) + 1}
          /\ \A i \in 1..(Len(s) - 1) : Push(s, k)[i] = s[i]
      BY <2>1, <3>2, PushRows
    <3> QED
      BY <2>1, <3>1, <3>2, <3>3
  <2> QED
    BY <2>2, <2>3
<1>3. \A k \in from..N : k \in S
  <2>1. from \in Nat /\ N \in Nat
    BY LogAssumption
  <2> HIDE DEF S
  <2> QED
    BY <1>1, <1>2, <2>1, Along
<1> QED
  BY <1>3, LogAssumption

\* A change of the last element of what was added to a sequence.
LEMMA SetLast ==
    ASSUME NEW R, NEW base \in Seq(R), NEW own \in Seq(R), own # <<>>, NEW r \in R
    PROVE  [base \o own EXCEPT ![Len(base) + Len(own)] = r]
               = base \o [own EXCEPT ![Len(own)] = r]
<1> DEFINE b == Len(base)
           c == Len(own)
           both == base \o own
           e == [own EXCEPT ![c] = r]
           s == [both EXCEPT ![b + c] = r]
<1>1. /\ b \in Nat /\ c \in Nat \ {0} /\ both \in Seq(R) /\ Len(both) = b + c /\ c \in 1..Len(own)
      /\ \A i \in 1..(b + c) : both[i] = IF i <= b THEN base[i] ELSE own[i - b]
  BY ConcatProperties
<1>2. /\ e \in Seq(R) /\ Len(e) = c
      /\ \A i \in 1..c : e[i] = IF i = c THEN r ELSE own[i]
  <2> HIDE DEF c
  <2> QED
    BY <1>1, ExceptSeq DEF c
<1> HIDE DEF e
<1>3. /\ base \o e \in Seq(R) /\ Len(base \o e) = b + c
      /\ \A i \in 1..(b + c) : (base \o e)[i] = IF i <= b THEN base[i] ELSE e[i - b]
  <2>1. /\ base \o e \in Seq(R) /\ Len(base \o e) = Len(base) + Len(e)
        /\ \A i \in 1..(Len(base) + Len(e)) :
              (base \o e)[i] = IF i <= Len(base) THEN base[i] ELSE e[i - Len(base)]
    BY <1>2, ConcatProperties
  <2>2. Len(e) = c /\ Len(base) = b
    BY <1>2
  <2> HIDE DEF b, c
  <2> QED
    BY <2>1, <2>2, Zenon
<1> HIDE DEF b, c, both
<1>4. b + c \in 1..Len(both)
  BY <1>1
<1>5. /\ s \in Seq(R) /\ Len(s) = b + c
      /\ \A i \in 1..(b + c) : s[i] = IF i = b + c THEN r ELSE both[i]
  BY <1>1, <1>4, ExceptSeq
<1> HIDE DEF s
<1>6. ASSUME NEW i \in 1..(b + c) PROVE s[i] = (base \o e)[i]
  <2>1. b \in Nat /\ c \in Nat \ {0}
    BY <1>1
  <2>2. /\ s[i] = IF i = b + c THEN r ELSE both[i]
        /\ both[i] = IF i <= b THEN base[i] ELSE own[i - b]
        /\ (base \o e)[i] = IF i <= b THEN base[i] ELSE e[i - b]
    BY <1>1, <1>3, <1>5
  <2>3. CASE i <= b
    <3>1. i # b + c
      BY <2>1, <2>3
    <3> QED
      BY <2>2, <2>3, <3>1
  <2>4. CASE i > b
    <3>1. i - b \in 1..c /\ (i - b = c <=> i = b + c) /\ ~(i <= b)
      BY <2>1, <2>4
    <3>2. e[i - b] = IF i - b = c THEN r ELSE own[i - b]
      BY <1>2, <3>1
    <3> QED
      BY <2>2, <3>1, <3>2
  <2>5. i <= b \/ i > b
    BY <2>1
  <2> QED
    BY <2>3, <2>4, <2>5
<1>7. s = base \o e
  BY <1>3, <1>5, <1>6, SeqEqual
<1> QED
  BY <1>7 DEF s, e, b, c, both

\* What a parsing returns.
LEMMA ParseRows ==
    ASSUME NEW a \in 0..N, NEW c \in a..N
    PROVE  Parse(a, c) \in Seq(Rows)
<1>1. <<>> \in Seq(Rows)
  OBVIOUS
<1> QED
  BY <1>1, ReadRows DEF Parse

\* A line read after rows of others leaves those alone, unless it continues the
\* last of them.
LEMMA PushAfter ==
    ASSUME NEW base \in Seq(Rows), NEW own \in Seq(Rows), NEW n \in 1..N,
           own # <<>> \/ log[n] # "more"
    PROVE  Push(base \o own, n) = base \o Push(own, n)
<1>1. CASE log[n] = "more" /\ own # <<>>
  <2> DEFINE last == own[Len(own)]
             r == [last EXCEPT !.to = n]
  <2>1. Len(own) \in 1..Len(own) /\ last \in Rows
    BY <1>1
  <2>2. r \in Rows
    BY <2>1, LogAssumption, SMTT(60) DEF Rows
  <2>3. Push(own, n) = [own EXCEPT ![Len(own)] = r]
    BY <1>1 DEF Push, Extend
  <2>4. /\ base \o own # <<>> /\ Len(base \o own) = Len(base) + Len(own)
        /\ (base \o own)[Len(base) + Len(own)] = last
    BY <2>1
  <2>5. Push(base \o own, n) = [base \o own EXCEPT ![Len(base) + Len(own)] = [@ EXCEPT !.to = n]]
    BY <1>1, <2>4 DEF Push, Extend
  <2>6. Push(base \o own, n) = [base \o own EXCEPT ![Len(base) + Len(own)] = r]
    BY <2>4, <2>5
  <2> HIDE DEF r
  <2> QED
    BY <1>1, <2>2, <2>3, <2>6, SetLast
<1>2. CASE log[n] # "more"
  <2>1. [from |-> n, to |-> n] \in Rows
    BY LogAssumption DEF Rows
  <2>2. Append(base \o own, [from |-> n, to |-> n]) = base \o Append(own, [from |-> n, to |-> n])
    BY <2>1, SMTT(60)
  <2> QED
    BY <1>2, <2>2 DEF Push
<1> QED
  BY <1>1, <1>2

\* Reading on from where a reading ended.
LEMMA Compose ==
    ASSUME NEW rows, NEW a \in 0..N, NEW b \in a..N, NEW c \in b..N
    PROVE  Read(Read(rows, a, b), b, c) = Read(rows, a, c)
<1> DEFINE S == {k \in b..N : Read(Read(rows, a, b), b, k) = Read(rows, a, k)}
<1>1. b \in S
  BY ReadStep, LogAssumption
<1>2. ASSUME NEW k \in (b + 1)..N, k - 1 \in S PROVE k \in S
  <2>1. k \in b..N /\ k \in (a + 1)..N /\ b \in 0..N
    BY LogAssumption
  <2>2. Read(rows, a, k) = IF Keeps(k) THEN Push(Read(rows, a, k - 1), k) ELSE Read(rows, a, k - 1)
    BY <2>1, ReadStep
  <2>3. Read(Read(rows, a, b), b, k) = IF Keeps(k) THEN Push(Read(Read(rows, a, b), b, k - 1), k)
                                       ELSE Read(Read(rows, a, b), b, k - 1)
    BY <2>1, ReadStep
  <2> QED
    BY <1>2, <2>1, <2>2, <2>3
<1>3. \A k \in b..N : k \in S
  <2>1. b \in Nat /\ N \in Nat
    BY LogAssumption
  <2> HIDE DEF S
  <2> QED
    BY <1>1, <1>2, <2>1, Along
<1> QED
  BY <1>3

\* Reading after rows that no line continues: those rows, and what is read on
\* its own.
LEMMA ReadAfter ==
    ASSUME NEW base \in Seq(Rows), NEW a \in 0..N, NEW c \in a..N,
           \/ c = a
           \/ Keeps(a + 1) /\ log[a + 1] # "more"
    PROVE  Read(base, a, c) = base \o Parse(a, c)
<1> DEFINE P(k) == Read(base, a, k) = base \o Parse(a, k) /\ (k > a => Parse(a, k) # <<>>)
           S == {k \in a..N : P(k)}
<1>1. a \in S
  BY ReadStep, LogAssumption DEF Parse
<1>2. ASSUME NEW k \in (a + 1)..c, k - 1 \in S PROVE k \in S
  <2> DEFINE s == Parse(a, k - 1)
  <2>1. k \in a..N /\ k \in (a + 1)..N /\ k - 1 \in a..N /\ k \in 1..N
    BY LogAssumption
  <2>2. Read(base, a, k) = IF Keeps(k) THEN Push(Read(base, a, k - 1), k) ELSE Read(base, a, k - 1)
    BY <2>1, ReadStep
  <2>3. Parse(a, k) = IF Keeps(k) THEN Push(s, k) ELSE s
    BY <2>1, ReadStep DEF Parse
  <2>4. Read(base, a, k - 1) = base \o s /\ (k - 1 > a => s # <<>>)
    BY <1>2
  <2>5. s \in Seq(Rows)
    BY <2>1, ParseRows
  <2> HIDE DEF s
  <2>6. CASE k = a + 1
    <3>1. Keeps(k) /\ log[k] # "more"
      BY <2>6
    <3>2. Push(base \o s, k) = base \o Push(s, k) /\ Push(s, k) # <<>>
      BY <2>1, <2>5, <3>1, PushAfter, PushRows
    <3> QED
      BY <2>1, <2>2, <2>3, <2>4, <3>1, <3>2
  <2>7. CASE k # a + 1
    <3>1. s # <<>>
      BY <2>4, <2>7
    <3>2. Push(base \o s, k) = base \o Push(s, k) /\ Push(s, k) # <<>>
      BY <2>1, <2>5, <3>1, PushAfter, PushRows
    <3> QED
      BY <2>1, <2>2, <2>3, <2>4, <3>1, <3>2
  <2> QED
    BY <2>6, <2>7
<1>3. \A k \in a..c : k \in S
  <2>1. a \in Nat /\ c \in Nat
    BY LogAssumption
  <2> HIDE DEF S
  <2> QED
    BY <1>1, <1>2, <2>1, Along
<1> QED
  BY <1>3, LogAssumption

\* The least and the greatest element, as Min and Max choose them.
LEMMA Extremes ==
    ASSUME NEW S \in SUBSET Int, NEW x \in S
    PROVE  /\ (\A y \in S : y <= x) => Max(S) = x
           /\ (\A y \in S : x <= y) => Min(S) = x
<1>1. ASSUME \A y \in S : y <= x PROVE Max(S) = x
  <2>1. \A y \in S : x >= y
    BY <1>1
  <2>2. Max(S) \in S /\ \A y \in S : Max(S) >= y
    BY <2>1 DEF Max
  <2>3. Max(S) \in Int /\ Max(S) >= x /\ Max(S) <= x /\ x \in Int
    BY <1>1, <2>2
  <2> QED
    BY <2>3
<1>2. ASSUME \A y \in S : x <= y PROVE Min(S) = x
  <2>1. Min(S) \in S /\ \A y \in S : Min(S) <= y
    BY <1>2 DEF Min
  <2>2. Min(S) \in Int /\ Min(S) <= x /\ x <= Min(S) /\ x \in Int
    BY <1>2, <2>1
  <2> QED
    BY <2>2
<1> QED
  BY <1>1, <1>2

\* Lines that start no record leave the rows alone, or all continue the last.
LEMMA Continues ==
    ASSUME NEW rows \in Seq(Rows), NEW a \in 0..N, NEW b \in a..N,
           log \in [1..N -> {"start", "more", "blank"}],
           \A n \in (a + 1)..b : log[n] # "start"
    PROVE  LET lines == {n \in (a + 1)..b : Keeps(n)}
           IN  /\ lines = {} => Read(rows, a, b) = rows
               /\ lines # {} /\ rows # <<>> => Read(rows, a, b) = Extend(rows, Max(lines))
<1> DEFINE L(k) == {n \in (a + 1)..k : Keeps(n)}
           P(k) == /\ L(k) = {} => Read(rows, a, k) = rows
                   /\ L(k) # {} /\ rows # <<>> => Read(rows, a, k) = Extend(rows, Max(L(k)))
           S == {k \in a..N : P(k)}
<1>0. N \in Nat
  BY LogAssumption
<1>1. a \in S
  <2>1. L(a) = {}
    BY <1>0
  <2>2. Read(rows, a, a) = rows
    BY ReadStep
  <2> QED
    BY <1>0, <2>1, <2>2
<1>2. ASSUME NEW k \in (a + 1)..b, k - 1 \in S PROVE k \in S
  <2>1. k \in a..N /\ k \in (a + 1)..N /\ k \in 1..N /\ k - 1 \in a..N
    BY <1>0
  <2>2. P(k - 1)
    BY <1>2
  <2>3. Read(rows, a, k) = IF Keeps(k) THEN Push(Read(rows, a, k - 1), k) ELSE Read(rows, a, k - 1)
    BY <2>1, ReadStep
  <2>4. CASE ~Keeps(k)
    <3>1. L(k) = L(k - 1)
      BY <2>1, <2>4, <1>0
    <3> HIDE DEF L
    <3> QED
      BY <2>1, <2>2, <2>3, <2>4, <3>1
  <2>5. CASE Keeps(k) /\ rows # <<>>
    <3>1. log[k] = "more"
      BY <2>1, <2>5 DEF Keeps
    <3>2. L(k) # {} /\ Max(L(k)) = k
      <4>1. k \in L(k) /\ L(k) \in SUBSET Int /\ \A y \in L(k) : y <= k
        BY <2>5, <2>1, <1>0
      <4> HIDE DEF L
      <4> QED
        BY <4>1, Extremes
    <3>3. Len(rows) \in 1..Len(rows) /\ rows[Len(rows)] \in Rows
      BY <2>5
    <3>4. Push(Read(rows, a, k - 1), k) = Extend(rows, k)
      <4>1. CASE L(k - 1) = {}
        BY <2>2, <2>5, <3>1, <4>1 DEF Push
      <4>2. CASE L(k - 1) # {}
        <5> DEFINE m == Max(L(k - 1))
        <5>1. Read(rows, a, k - 1) = Extend(rows, m)
          BY <2>2, <2>5, <4>2
        <5> HIDE DEF m
        <5>2. Extend(rows, m) = [rows EXCEPT ![Len(rows)] = [rows[Len(rows)] EXCEPT !.to = m]]
          BY DEF Extend
        <5>3. Len(Extend(rows, m)) = Len(rows) /\ Extend(rows, m) # <<>>
          BY <3>3, <5>2
        <5>4. Push(Extend(rows, m), k) = [Extend(rows, m) EXCEPT ![Len(rows)].to = k]
          BY <3>1, <5>3 DEF Push, Extend
        <5>5. [Extend(rows, m) EXCEPT ![Len(rows)].to = k] = [rows EXCEPT ![Len(rows)].to = k]
          BY <3>3, <5>2 DEF Rows
        <5> QED
          BY <5>1, <5>4, <5>5 DEF Extend
      <4> QED
        BY <4>1, <4>2
    <3> HIDE DEF L
    <3> QED
      BY <2>1, <2>3, <2>5, <3>2, <3>4
  <2>6. CASE Keeps(k) /\ rows = <<>>
    <3>1. k \in L(k)
      BY <2>6, <2>1, <1>0
    <3> HIDE DEF L
    <3> QED
      BY <2>1, <2>6, <3>1
  <2> QED
    BY <2>4, <2>5, <2>6
<1>3. \A k \in a..b : k \in S
  <2>1. a \in Nat /\ b \in Nat
    BY <1>0
  <2> HIDE DEF S
  <2> QED
    BY <1>1, <1>2, <2>1, Along
<1>4. b \in S
  BY <1>0, <1>3
<1> QED
  BY <1>4

\* A chunk parsed on its own and joined to the rows before it gives what reading
\* on gives.
LEMMA JoinExact ==
    ASSUME NEW a \in 0..N, NEW b \in (a + 1)..N, log \in [1..N -> {"start", "more", "blank"}]
    PROVE  Join(Parse(0, a), a, b) = Parse(0, b)
<1> DEFINE rows == Parse(0, a)
           s == StartIn(a, b)
           leading == {n \in (a + 1)..(s - 1) : Keeps(n)}
           left == IF leading = {} THEN rows
                   ELSE IF rows # <<>> THEN Extend(rows, Max(leading)) ELSE Parse(a, s - 1)
<1>0. N \in Nat /\ 0 \in 0..N /\ a \in 0..N /\ b \in 0..N
  BY LogAssumption
<1>1. Join(Parse(0, a), a, b) = left \o Parse(s - 1, b)
  BY Zenon DEF Join
<1>2. rows \in Seq(Rows)
  BY <1>0, ParseRows
<1>3. CASE a = 0
  <2>1. s = 1 /\ leading = {}
    BY <1>0, <1>3 DEF StartIn
  <2>2. rows = <<>>
    BY <1>0, <1>3, ReadStep DEF Parse
  <2>3. Parse(0, b) \in Seq(Rows)
    BY <1>0, ParseRows
  <2>4. left = <<>> /\ s - 1 = 0
    BY <2>1, <2>2
  <2> HIDE DEF left, s
  <2>5. <<>> \o Parse(0, b) = Parse(0, b)
    BY <2>3
  <2> QED
    BY <1>1, <2>4, <2>5
<1>4. CASE a > 0
  <2> DEFINE T == {n \in (a + 1)..b : log[n] = "start"} \cup {b + 1}
  <2>1. T \in SUBSET Nat /\ T # {}
    BY <1>0
  <2>2. PICK t \in T : \A u \in T : t <= u
    <3> HIDE DEF T
    <3> QED
      BY <2>1, Least
  <2>3. s = t
    <3>1. s = Min(T)
      BY <1>4, <1>0 DEF StartIn
    <3>2. T \in SUBSET Int
      BY <2>1
    <3> HIDE DEF T, s
    <3> QED
      BY <2>2, <3>1, <3>2, Extremes
  <2>4. t \in (a + 1)..(b + 1) /\ (t = b + 1 \/ log[t] = "start")
    BY <2>2, <1>0
  <2>5. ASSUME NEW n \in (a + 1)..(t - 1) PROVE log[n] # "start"
    BY <2>2, <2>4, <1>0
  <2>6. t - 1 \in a..N /\ b \in (t - 1)..N /\ t - 1 \in 0..N /\ b \in a..N
    BY <2>4, <1>0
  <2>7. left = Read(rows, a, t - 1)
    <3> HIDE DEF s, rows
    <3> DEFINE z == t - 1
               lines == {n \in (a + 1)..z : Keeps(n)}
    <3>0. lines = leading
      BY <2>3
    <3>a. z \in a..N /\ \A n \in (a + 1)..z : log[n] # "start"
      BY <2>5, <2>6
    <3>b. /\ lines = {} => Read(rows, a, z) = rows
          /\ lines # {} /\ rows # <<>> => Read(rows, a, z) = Extend(rows, Max(lines))
      <4> HIDE DEF z
      <4> QED
        BY <1>0, <1>2, <3>a, Continues, Zenon
    <3>1. /\ leading = {} => Read(rows, a, t - 1) = rows
          /\ leading # {} /\ rows # <<>> => Read(rows, a, t - 1) = Extend(rows, Max(leading))
      <4> HIDE DEF lines, leading
      <4> QED
        BY <3>0, <3>b
    <3> HIDE DEF leading
    <3> QED
      BY <2>3, <3>1 DEF Parse
  <2>8. Read(rows, a, t - 1) \in Seq(Rows)
    <3> HIDE DEF rows
    <3> QED
      BY <1>2, <2>6, ReadRows
  <2>9. Read(Read(rows, a, t - 1), t - 1, b) = Read(rows, a, t - 1) \o Parse(t - 1, b)
    <3>2. (t - 1) + 1 = t /\ (t = b + 1 => b = t - 1)
      BY <2>4, <1>0
    <3>1. \/ b = t - 1
          \/ Keeps((t - 1) + 1) /\ log[(t - 1) + 1] # "more"
      BY <2>4, <3>2 DEF Keeps
    <3> HIDE DEF rows
    <3> QED
      BY <2>6, <2>8, <3>1, ReadAfter
  <2>10. Read(Read(rows, a, t - 1), t - 1, b) = Read(rows, a, b)
    BY <2>6, Compose
  <2>11. Read(rows, a, b) = Parse(0, b)
    <3>1. 0 \in 0..N
      BY <1>0
    <3> QED
      BY <2>6, <3>1, Compose DEF Parse
  <2> HIDE DEF left, rows, s
  <2> QED
    BY <1>1, <2>3, <2>7, <2>9, <2>10, <2>11
<1> QED
  BY <1>0, <1>3, <1>4

\* The rows after each chunk of a wave.
Joined(rows, cursor, bounds) ==
    CHOOSE joined : joined = [i \in 0..Len(bounds) |->
        IF i = 0 THEN rows
        ELSE Join(joined[i - 1], IF i = 1 THEN cursor ELSE bounds[i - 1], bounds[i])]

\* What JoinAll computes: the chunks joined so far, and the next one.
LEMMA JoinAllStep ==
    ASSUME NEW rows, NEW cursor, NEW bounds, NEW n \in Nat, Len(bounds) = n
    PROVE  LET joined == Joined(rows, cursor, bounds)
           IN  /\ JoinAll(rows, cursor, bounds) = joined[n]
               /\ joined[0] = rows
               /\ n > 0 => joined[1] = Join(rows, cursor, bounds[1])
               /\ \A i \in 2..n : joined[i] = Join(joined[i - 1], bounds[i - 1], bounds[i])
<1> DEFINE J(f, i) == Join(f[i - 1], IF i = 1 THEN cursor ELSE bounds[i - 1], bounds[i])
           G(f, k) == [i \in 0..k |-> IF i = 0 THEN rows ELSE J(f, i)]
           joined == Joined(rows, cursor, bounds)
<1>1. JoinAll(rows, cursor, bounds) = joined[n]
  BY DEF JoinAll, Joined
<1>2. \E f : f = G(f, n)
  <2> HIDE DEF J
  <2> DEFINE S == {k \in 0..n : \E f : f = G(f, k)}
  <2>1. 0 \in S
    <3> DEFINE f == [i \in 0..0 |-> rows]
    <3>1. f = G(f, 0)
      <4>1. \A i \in 0..0 : i = 0
        OBVIOUS
      <4> QED
        BY <4>1
    <3> HIDE DEF f
    <3> QED
      BY <3>1
  <2>2. ASSUME NEW k \in 1..n, k - 1 \in S PROVE k \in S
    <3>1. PICK f : f = G(f, k - 1)
      BY <2>2
    <3> DEFINE g == [i \in 0..k |-> IF i < k THEN f[i] ELSE J(f, i)]
    <3>2. ASSUME NEW i \in 0..k PROVE g[i] = IF i = 0 THEN rows ELSE J(g, i)
      <4>1. CASE i = 0
        BY <3>1, <4>1
      <4>2. CASE i # 0
        <5>1. i - 1 \in 0..k /\ i - 1 < k /\ g[i - 1] = f[i - 1]
          BY <4>2
        <5>2. J(g, i) = J(f, i)
          BY <5>1 DEF J
        <5>3. g[i] = J(f, i)
          <6>1. i < k => f[i] = J(f, i)
            BY <3>1, <4>2
          <6> QED
            BY <6>1
        <5> QED
          BY <4>2, <5>2, <5>3
      <4> QED
        BY <4>1, <4>2
    <3>3. g = G(g, k)
      BY <3>2
    <3> HIDE DEF g
    <3> QED
      BY <3>3
  <2>3. \A k \in 0..n : k \in S
    <3>1. n \in Nat /\ 0 \in Nat
      OBVIOUS
    <3> HIDE DEF S
    <3>2. \A k \in (0 + 1)..n : k - 1 \in S => k \in S
      BY <2>2
    <3> QED
      BY <2>1, <3>1, <3>2, Along
  <2> QED
    BY <2>3
<1>3. joined = G(joined, n)
  <2>1. joined = CHOOSE f : f = G(f, n)
    BY DEF Joined
  <2> HIDE DEF joined
  <2> QED
    BY <1>2, <2>1
<1> HIDE DEF joined, J
<1>4. joined[0] = rows
  BY <1>3
<1>5. \A i \in 1..n : joined[i] = J(joined, i)
  BY <1>3
<1>6. n > 0 => joined[1] = Join(rows, cursor, bounds[1])
  <2>1. J(joined, 1) = Join(joined[0], cursor, bounds[1])
    BY DEF J
  <2> QED
    BY <1>4, <1>5, <2>1
<1>7. ASSUME NEW i \in 2..n PROVE joined[i] = Join(joined[i - 1], bounds[i - 1], bounds[i])
  <2>1. J(joined, i) = Join(joined[i - 1], bounds[i - 1], bounds[i])
    BY DEF J
  <2> QED
    BY <1>5, <2>1
<1> QED
  BY <1>1, <1>4, <1>6, <1>7 DEF joined

\* However a wave is cut into chunks, the rows after it are those of reading all
\* lines up to its end.
LEMMA WaveExact ==
    ASSUME NEW cursor \in 0..N, NEW bounds \in Waves(cursor),
           log \in [1..N -> {"start", "more", "blank"}]
    PROVE  /\ Last(bounds) \in (cursor + 1)..N
           /\ JoinAll(Parse(0, cursor), cursor, bounds) = Parse(0, Last(bounds))
<1>1. PICK n \in 1..WaveChunks : bounds \in [1..n -> 1..N]
  BY DEF Waves
<1>2. /\ n \in Nat /\ n >= 1 /\ Len(bounds) = n /\ N \in Nat /\ DOMAIN bounds = 1..n
      /\ \A i \in 1..n : bounds[i] \in 1..N
  BY <1>1, LogAssumption, WaveAssumption
<1>3. \A i \in 1..n : bounds[i] > IF i = 1 THEN cursor ELSE bounds[i - 1]
  BY <1>2 DEF Waves
<1> DEFINE joined == Joined(Parse(0, cursor), cursor, bounds)
<1>4. /\ JoinAll(Parse(0, cursor), cursor, bounds) = joined[n]
      /\ joined[0] = Parse(0, cursor)
      /\ n > 0 => joined[1] = Join(Parse(0, cursor), cursor, bounds[1])
      /\ \A i \in 2..n : joined[i] = Join(joined[i - 1], bounds[i - 1], bounds[i])
  <2>1. n \in Nat /\ Len(bounds) = n
    BY <1>2
  <2> QED
    BY <2>1, JoinAllStep
<1> HIDE DEF joined
<1> DEFINE end(i) == IF i = 0 THEN cursor ELSE bounds[i]
           P(i) == end(i) \in cursor..N /\ joined[i] = Parse(0, end(i)) /\ (i > 0 => end(i) > cursor)
           S == {i \in 0..n : P(i)}
<1>5. 0 \in S
  BY <1>2, <1>4
<1>6. ASSUME NEW i \in 1..n, i - 1 \in S PROVE i \in S
  <2>1. i \in 0..n /\ i # 0
    BY <1>2
  <2>2. end(i - 1) = IF i = 1 THEN cursor ELSE bounds[i - 1]
    BY <1>2
  <2>3. end(i) = bounds[i] /\ end(i) \in 1..N
    BY <1>2, <2>1
  <2>4. P(i - 1)
    BY <1>6
  <2>5. end(i) > end(i - 1)
    BY <1>3, <2>2, <2>3
  <2>6. joined[i] = Join(joined[i - 1], end(i - 1), end(i))
    <3>1. CASE i = 1
      BY <1>2, <1>4, <3>1
    <3>2. CASE i # 1
      <4>1. i \in 2..n /\ i - 1 # 0
        BY <1>2, <3>2
      <4> QED
        BY <1>4, <2>3, <4>1
    <3> QED
      BY <3>1, <3>2
  <2>7. end(i - 1) \in 0..N /\ end(i) \in (end(i - 1) + 1)..N
    BY <1>2, <2>3, <2>4, <2>5
  <2> HIDE DEF end
  <2>8. joined[i] = Parse(0, end(i))
    BY <2>4, <2>6, <2>7, JoinExact
  <2>9. end(i) \in cursor..N /\ end(i) > cursor
    BY <1>2, <2>4, <2>7
  <2> QED
    BY <2>1, <2>8, <2>9
<1>7. \A i \in 0..n : i \in S
  <2>1. n \in Nat /\ 0 \in Nat
    BY <1>2
  <2> HIDE DEF S
  <2>2. \A i \in (0 + 1)..n : i - 1 \in S => i \in S
    BY <1>6
  <2> QED
    BY <1>5, <2>1, <2>2, Along
<1>8. n \in S /\ end(n) = Last(bounds) /\ n > 0
  BY <1>2, <1>7 DEF Last
<1> HIDE DEF end
<1>9. Last(bounds) \in cursor..N /\ Last(bounds) > cursor /\ joined[n] = Parse(0, Last(bounds))
  BY <1>8
<1> QED
  BY <1>2, <1>4, <1>9

-----------------------------------------------------------------------------
(* The inductive invariant.                                                *)

\* What an opener may have in hand.
Works == [lines : Seq(Rows), cursor : 0..N, complete : BOOLEAN,
          columns : BOOLEAN, hashed : Seq(Rows), journal : BOOLEAN]

\* What an opener has is what it read; it is done at the end of the log, and the
\* columns are looked for after that.
Framed(p) ==
    /\ work[p].lines = Parse(0, work[p].cursor)
    /\ work[p].complete => work[p].cursor = N
    /\ work[p].columns \/ at[p] = "discovering" => work[p].complete

\* Before the parsing, and after it, an opener has nothing.
Fresh(p) == at[p] \in {"idle", "waiting", "restoring", "resetting", "handoff"} => work[p] = NoWork

\* Who works on the files holds the lock file exclusively.
Locked(p) ==
    /\ at[p] \in {"restoring", "resetting"} \/ work[p].journal => exclusive = p
    /\ at[p] \in {"appending", "syncing", "publishing", "confirming"} => work[p].journal
    /\ at[p] = "mapped" => ~work[p].journal

\* What an opener has hashed is the header and its first rows, none but sealed
\* ones, and all of those once they are appended.
Hashed(p) ==
    work[p].journal =>
        LET w == work[p]
        IN  /\ w.hashed # <<>> /\ Len(w.hashed) <= Sealed(w) + 1
            /\ w.hashed = <<Header>> \o SubSeq(w.lines, 1, Len(w.hashed) - 1)
            /\ at[p] \in {"syncing", "publishing", "confirming"} => Len(w.hashed) = Sealed(w) + 1

\* Mapped rows are in the file.
Maps(p) == at[p] = "mapped" => folder.lines /\ IsPrefix(<<Header>> \o work[p].lines, payload)

\* While an opener has a journal the payload is what it hashed, and the manifest
\* does not go further than the opener.
Saved(p) ==
    /\ at[p] = "resetting" => payload = <<Header>> /\ folder.lines /\ promised = 0
    /\ work[p].journal =>
          /\ payload = work[p].hashed /\ folder.lines
          /\ Level(folder.manifest) <= Level(work[p])
    /\ at[p] \in {"publishing", "confirming"} => synced = payload
    /\ at[p] = "confirming" => folder.manifest = ManifestOf(work[p])

Opener(p) == Framed(p) /\ Fresh(p) /\ Locked(p) /\ Hashed(p) /\ Maps(p) /\ Saved(p)

\* A manifest says what a reading of the log up to its cursor gives; the open
\* row, if there is one, is its tail.
Honest(m) ==
    \/ m = NoManifest
    \/ /\ m.rows # <<>> /\ m.rows[1] = Header
       /\ Tail(m.rows) \o m.tail = Parse(0, m.cursor)
       /\ m.complete => m.tail = <<>> /\ m.cursor = N
       /\ m.columns => m.complete
       /\ Len(m.tail) = 1 \/ m.complete \/ (m.tail = <<>> /\ Len(m.rows) = 1)

Truthful == \A f \in kept : Honest(f.manifest)

\* Whatever is left of the directory and of the payload bears out what was
\* promised.
Durable ==
    promised > 0 => \A f \in kept :
        /\ f.lines /\ f.manifest # NoManifest /\ Level(f.manifest) >= promised
        /\ IsPrefix(f.manifest.rows, payload)
        /\ IsPrefix(f.manifest.rows, synced)
        /\ IsPrefix(f.manifest.rows, folder.manifest.rows)

IInv == TypeOK /\ (\A p \in Openers : Opener(p)) /\ Truthful /\ Durable

-----------------------------------------------------------------------------
(* Rows of a payload, and what is in hand.                                 *)

\* A sequence is a prefix of another that has its elements at the same places.
LEMMA PrefixIs ==
    ASSUME NEW s \in Seq(Rows), NEW t \in Seq(Rows)
    PROVE  IsPrefix(s, t) <=> Len(s) <= Len(t) /\ \A i \in 1..Len(s) : s[i] = t[i]
<1>1. SUFFICES ASSUME Len(s) <= Len(t)
               PROVE  SubSeq(s, 1, Len(s)) = SubSeq(t, 1, Len(s)) <=> \A i \in 1..Len(s) : s[i] = t[i]
  BY DEF IsPrefix
<1>2. SubSeq(s, 1, Len(s)) = s
  BY SubSeqFull
<1> DEFINE u == SubSeq(t, 1, Len(s))
<1>3. u \in Seq(Rows) /\ Len(u) = Len(s) /\ \A i \in 1..Len(s) : u[i] = t[i]
  BY <1>1
<1> HIDE DEF u
<1>4. s = u <=> \A i \in 1..Len(s) : s[i] = u[i]
  BY <1>3, SeqEqual
<1> QED
  BY <1>2, <1>3, <1>4 DEF u

\* A prefix is one of itself, of what has its sequence as a prefix, and of what
\* extends its sequence.
LEMMA PrefixKept ==
    ASSUME NEW s \in Seq(Rows), NEW t \in Seq(Rows), NEW u \in Seq(Rows)
    PROVE  /\ IsPrefix(s, s)
           /\ IsPrefix(s, t) /\ IsPrefix(t, u) => IsPrefix(s, u)
           /\ IsPrefix(s, t) => IsPrefix(s, t \o u)
<1>1. IsPrefix(s, s)
  BY PrefixIs
<1>2. ASSUME IsPrefix(s, t), IsPrefix(t, u) PROVE IsPrefix(s, u)
  <2>1. /\ Len(s) <= Len(t) /\ Len(t) <= Len(u) /\ Len(s) \in Nat /\ Len(t) \in Nat /\ Len(u) \in Nat
        /\ \A i \in 1..Len(s) : s[i] = t[i]
        /\ \A i \in 1..Len(t) : t[i] = u[i]
    BY <1>2, PrefixIs
  <2>2. \A i \in 1..Len(s) : i \in 1..Len(t)
    BY <2>1
  <2>3. Len(s) <= Len(u) /\ \A i \in 1..Len(s) : s[i] = u[i]
    BY <2>1, <2>2
  <2> QED
    BY <2>3, PrefixIs
<1>3. ASSUME IsPrefix(s, t) PROVE IsPrefix(s, t \o u)
  <2>1. Len(s) <= Len(t) /\ \A i \in 1..Len(s) : s[i] = t[i]
    BY <1>3, PrefixIs
  <2>2. /\ t \o u \in Seq(Rows) /\ Len(s) <= Len(t \o u)
        /\ \A i \in 1..Len(s) : s[i] = (t \o u)[i]
    BY <2>1, ConcatProperties
  <2> QED
    BY <2>2, PrefixIs
<1> QED
  BY <1>1, <1>2, <1>3

\* What the initial values are.
LEMMA Values ==
    /\ Header \in Rows /\ Torn \in Rows /\ <<Header>> \in Seq(Rows) /\ <<>> \in Seq(Rows)
    /\ NoManifest \in Manifests /\ NoWork \in Works /\ Parse(0, 0) = <<>>
<1>1. N \in Nat /\ N >= 1 /\ 0 \in 0..N
  BY LogAssumption
<1>2. Header \in Rows /\ Torn \in Rows
  BY <1>1 DEF Header, Torn, Rows
<1>3. <<Header>> \in Seq(Rows) /\ <<>> \in Seq(Rows)
  BY <1>2
<1>4. NoManifest \in Manifests /\ NoWork \in Works
  BY <1>1, <1>3 DEF NoManifest, Manifests, NoWork, Works
<1>5. Parse(0, 0) = <<>>
  BY <1>1, ReadStep DEF Parse
<1> QED
  BY <1>2, <1>3, <1>4, <1>5

\* How far an opener or a manifest is, is a number.
LEMMA Levels ==
    ASSUME NEW m, m \in Manifests \/ m \in Works
    PROVE  Level(m) \in 0..(N + 2) /\ (Level(m) > 0 => m # NoManifest)
<1>1. m.cursor \in 0..N /\ m.complete \in BOOLEAN /\ m.columns \in BOOLEAN /\ N \in Nat
  BY LogAssumption DEF Manifests, Works
<1>2. Level(m) \in 0..(N + 2)
  BY <1>1 DEF Level
<1>3. Level(NoManifest) = 0
  BY DEF Level, NoManifest
<1> QED
  BY <1>2, <1>3

\* What it is to be the header and the first rows.
LEMMA BeginsIs ==
    ASSUME NEW h \in Seq(Rows), h # <<>>, NEW lines \in Seq(Rows), Len(h) - 1 <= Len(lines)
    PROVE  h = <<Header>> \o SubSeq(lines, 1, Len(h) - 1)
             <=> h[1] = Header /\ \A i \in 1..(Len(h) - 1) : h[i + 1] = lines[i]
<1> DEFINE n == Len(h) - 1
           u == SubSeq(lines, 1, n)
           v == <<Header>> \o u
<1>1. n \in Nat /\ n <= Len(lines) /\ Len(h) = n + 1 /\ Len(lines) \in Nat
  OBVIOUS
<1> HIDE DEF n
<1>2. u \in Seq(Rows) /\ Len(u) = n /\ \A i \in 1..n : u[i] = lines[i]
  BY <1>1
<1> HIDE DEF u
<1>3. <<Header>> \in Seq(Rows) /\ Len(<<Header>>) = 1 /\ <<Header>>[1] = Header
  BY Values
<1>4. /\ v \in Seq(Rows) /\ Len(v) = 1 + n /\ v[1] = Header
      /\ \A i \in 1..n : v[i + 1] = lines[i]
  <2>1. /\ v \in Seq(Rows) /\ Len(v) = Len(<<Header>>) + Len(u)
        /\ \A i \in 1..(Len(<<Header>>) + Len(u)) :
              v[i] = IF i <= Len(<<Header>>) THEN <<Header>>[i] ELSE u[i - Len(<<Header>>)]
    BY <1>2, <1>3, ConcatProperties
  <2> HIDE DEF v
  <2>2. \A i \in 1..(1 + n) : v[i] = IF i <= 1 THEN <<Header>>[i] ELSE u[i - 1]
    BY <1>2, <1>3, <2>1
  <2>3. v[1] = Header
    BY <1>1, <1>3, <2>2
  <2>4. ASSUME NEW i \in 1..n PROVE v[i + 1] = lines[i]
    <3>1. i + 1 \in 1..(1 + n) /\ ~(i + 1 <= 1) /\ (i + 1) - 1 = i
      BY <1>1
    <3> QED
      BY <1>2, <2>2, <3>1
  <2> QED
    BY <1>2, <1>3, <2>1, <2>3, <2>4
<1> HIDE DEF v
<1>5. ASSUME h[1] = Header, \A i \in 1..n : h[i + 1] = lines[i] PROVE h = v
  <2>1. ASSUME NEW i \in 1..Len(h) PROVE h[i] = v[i]
    <3>1. CASE i = 1
      BY <1>4, <1>5, <3>1
    <3>2. CASE i # 1
      <4>1. i - 1 \in 1..n /\ (i - 1) + 1 = i
        BY <1>1, <3>2
      <4>2. h[(i - 1) + 1] = lines[i - 1] /\ v[(i - 1) + 1] = lines[i - 1]
        BY <1>4, <1>5, <4>1
      <4> QED
        BY <4>1, <4>2
    <3> QED
      BY <3>1, <3>2
  <2>2. Len(h) = Len(v)
    BY <1>1, <1>4
  <2> QED
    BY <1>4, <2>1, <2>2, SeqEqual
<1>6. ASSUME h = v PROVE h[1] = Header /\ \A i \in 1..n : h[i + 1] = lines[i]
  BY <1>4, <1>6
<1> QED
  BY <1>5, <1>6 DEF n, u, v

\* A header and rows that a manifest lists, taken up again with its open row.
LEMMA Resumed ==
    ASSUME NEW m \in Manifests, Honest(m), m # NoManifest
    PROVE  LET lines == Tail(m.rows) \o m.tail
           IN  /\ lines \in Seq(Rows) /\ lines = Parse(0, m.cursor) /\ m.rows # <<>>
               /\ m.rows = <<Header>> \o SubSeq(lines, 1, Len(m.rows) - 1)
               /\ Len(m.rows) - 1 <= IF m.complete \/ lines = <<>> THEN Len(lines) ELSE Len(lines) - 1
               /\ m.complete => lines = Tail(m.rows) /\ m.rows = <<Header>> \o lines /\ m.cursor = N
<1> DEFINE r == m.rows
           t == m.tail
           lines == Tail(r) \o t
<1>1. /\ r \in Seq(Rows) /\ t \in Seq(Rows) /\ r # <<>> /\ r[1] = Header
      /\ m.complete => t = <<>> /\ m.cursor = N
      /\ Len(t) = 1 \/ m.complete \/ (t = <<>> /\ Len(r) = 1)
      /\ lines = Parse(0, m.cursor)
  BY DEF Manifests, Honest
<1> HIDE DEF r, t
<1>2. /\ Tail(r) \in Seq(Rows) /\ Len(Tail(r)) = Len(r) - 1 /\ Len(r) \in Nat \ {0} /\ Len(t) \in Nat
      /\ \A i \in 1..(Len(r) - 1) : Tail(r)[i] = r[i + 1]
  BY <1>1
<1>3. /\ lines \in Seq(Rows) /\ Len(lines) = Len(r) - 1 + Len(t)
      /\ \A i \in 1..(Len(r) - 1) : lines[i] = Tail(r)[i]
  <2>1. /\ lines \in Seq(Rows) /\ Len(lines) = Len(Tail(r)) + Len(t)
        /\ \A i \in 1..(Len(Tail(r)) + Len(t)) :
              lines[i] = IF i <= Len(Tail(r)) THEN Tail(r)[i] ELSE t[i - Len(Tail(r))]
    BY <1>1, <1>2, ConcatProperties
  <2> HIDE DEF lines
  <2>2. \A i \in 1..(Len(r) - 1) : i \in 1..(Len(Tail(r)) + Len(t)) /\ i <= Len(Tail(r))
    BY <1>2
  <2> QED
    BY <1>2, <2>1, <2>2
<1>4. m.complete => lines = Tail(r)
  BY <1>1, <1>2
<1> HIDE DEF lines
<1>5. Len(r) - 1 <= Len(lines) /\ Len(r) - 1 \in Nat
  BY <1>2, <1>3
<1>6. \A i \in 1..(Len(r) - 1) : r[i + 1] = lines[i]
  BY <1>2, <1>3
<1>7. r = <<Header>> \o SubSeq(lines, 1, Len(r) - 1)
  BY <1>1, <1>3, <1>5, <1>6, BeginsIs
<1>8. Len(r) - 1 <= IF m.complete \/ lines = <<>> THEN Len(lines) ELSE Len(lines) - 1
  <2>1. CASE m.complete \/ lines = <<>>
    BY <1>5, <2>1
  <2>2. CASE ~(m.complete \/ lines = <<>>)
    <3>1. Len(lines) # 0
      BY <1>3, <2>2
    <3>2. Len(t) = 1
      BY <1>1, <1>2, <1>3, <2>2, <3>1
    <3> QED
      BY <1>2, <1>3, <2>2, <3>2
  <2> QED
    BY <2>1, <2>2
<1>9. ASSUME m.complete PROVE r = <<Header>> \o lines
  <2>1. Len(lines) = Len(r) - 1
    BY <1>2, <1>4, <1>9
  <2>2. SubSeq(lines, 1, Len(lines)) = lines
    BY <1>3, SubSeqFull
  <2> QED
    BY <1>7, <2>1, <2>2
<1>10. m.complete => m.cursor = N
  BY <1>1
<1>11. lines = Parse(0, m.cursor)
  BY <1>1 DEF lines
<1> QED
  BY <1>1, <1>3, <1>4, <1>7, <1>8, <1>9, <1>10, <1>11 DEF r, t, lines

\* Appended and hashed, the newly sealed rows are those after the ones hashed
\* before.
LEMMA Appended ==
    ASSUME NEW w \in Works, w.hashed # <<>>, Len(w.hashed) <= Sealed(w) + 1,
           w.hashed = <<Header>> \o SubSeq(w.lines, 1, Len(w.hashed) - 1)
    PROVE  LET h == w.hashed \o Unsaved(w)
           IN  /\ Unsaved(w) \in Seq(Rows) /\ h \in Seq(Rows) /\ h # <<>>
               /\ Len(h) = Sealed(w) + 1
               /\ h = <<Header>> \o SubSeq(w.lines, 1, Sealed(w))
<1> DEFINE g == w.hashed
           lines == w.lines
           s == Sealed(w)
           k == Len(g)
           u == SubSeq(lines, k, s)
           h == g \o u
<1>1. /\ g \in Seq(Rows) /\ lines \in Seq(Rows) /\ k \in Nat \ {0} /\ s \in Nat /\ s <= Len(lines)
      /\ k <= s + 1 /\ g # <<>> /\ Len(lines) \in Nat /\ Len(g) = k
  BY DEF Works, Sealed
<1>2. g[1] = Header /\ \A i \in 1..(Len(g) - 1) : g[i + 1] = lines[i]
  <2>1. Len(g) - 1 <= Len(lines)
    BY <1>1
  <2> QED
    BY <1>1, <2>1, BeginsIs
<1>3. Unsaved(w) = u
  BY DEF Unsaved
<1> HIDE DEF g, lines, s, k
<1>4. /\ u \in Seq(Rows) /\ Len(u) = s - k + 1
      /\ \A i \in 1..(s - k + 1) : u[i] = lines[k + i - 1]
  <2>1. \A i \in k..s : lines[i] \in Rows
    BY <1>1
  <2> QED
    BY <1>1, <2>1, SubSeqProperties
<1> HIDE DEF u
<1>5. /\ h \in Seq(Rows) /\ Len(h) = s + 1
      /\ \A i \in 1..(s + 1) : h[i] = IF i <= k THEN g[i] ELSE u[i - k]
  <2>1. /\ h \in Seq(Rows) /\ Len(h) = Len(g) + Len(u)
        /\ \A i \in 1..(Len(g) + Len(u)) : h[i] = IF i <= Len(g) THEN g[i] ELSE u[i - Len(g)]
    BY <1>1, <1>4, ConcatProperties
  <2>2. Len(g) + Len(u) = s + 1 /\ Len(g) = k
    BY <1>1, <1>4
  <2> HIDE DEF h
  <2> QED
    BY <2>1, <2>2
<1> HIDE DEF h
<1>6. h # <<>> /\ Len(h) - 1 = s /\ Len(h) - 1 <= Len(lines)
  BY <1>1, <1>5
<1>7. h[1] = Header
  BY <1>1, <1>2, <1>5
<1>8. ASSUME NEW i \in 1..s PROVE h[i + 1] = lines[i]
  <2>1. i + 1 \in 1..(s + 1)
    BY <1>1
  <2>2. CASE i + 1 <= k
    <3>1. i \in 1..(Len(g) - 1)
      BY <1>1, <2>2
    <3> QED
      BY <1>2, <1>5, <2>1, <2>2, <3>1
  <2>3. CASE ~(i + 1 <= k)
    <3>1. (i + 1) - k \in 1..(s - k + 1) /\ k + ((i + 1) - k) - 1 = i
      BY <1>1, <2>3
    <3>2. u[(i + 1) - k] = lines[k + ((i + 1) - k) - 1]
      BY <1>4, <3>1
    <3> QED
      BY <1>5, <2>1, <2>3, <3>1, <3>2
  <2> QED
    BY <2>2, <2>3
<1>9. h = <<Header>> \o SubSeq(lines, 1, s)
  <2>1. h = <<Header>> \o SubSeq(lines, 1, Len(h) - 1)
    BY <1>1, <1>5, <1>6, <1>7, <1>8, BeginsIs
  <2> QED
    BY <1>6, <2>1
<1> QED
  BY <1>3, <1>4, <1>5, <1>6, <1>9 DEF g, lines, s, k, u, h

\* What was hashed stays right when more lines are read.
LEMMA ReadOn ==
    ASSUME NEW a \in 0..N, NEW b \in a..N, NEW h \in Seq(Rows), h # <<>>,
           h = <<Header>> \o SubSeq(Parse(0, a), 1, Len(h) - 1),
           Len(h) - 1 <= IF Parse(0, a) = <<>> THEN 0 ELSE Len(Parse(0, a)) - 1
    PROVE  /\ Parse(0, b) \in Seq(Rows)
           /\ h = <<Header>> \o SubSeq(Parse(0, b), 1, Len(h) - 1)
           /\ Len(h) - 1 <= IF Parse(0, b) = <<>> THEN 0 ELSE Len(Parse(0, b)) - 1
<1> DEFINE old == Parse(0, a)
           new == Parse(0, b)
<1>0. 0 \in 0..N /\ b \in 0..N
  BY LogAssumption
<1>1. old \in Seq(Rows) /\ new \in Seq(Rows)
  BY <1>0, ParseRows
<1>2. Len(new) >= Len(old) /\ \A i \in 1..(Len(old) - 1) : new[i] = old[i]
  <2>1. new = Read(old, a, b)
    BY <1>0, Compose DEF Parse
  <2> HIDE DEF old, new
  <2> QED
    BY <1>1, <2>1, ReadRows
<1>3. Len(h) - 1 <= IF old = <<>> THEN 0 ELSE Len(old) - 1
  OBVIOUS
<1>4. h = <<Header>> \o SubSeq(old, 1, Len(h) - 1)
  OBVIOUS
<1> HIDE DEF old, new
<1>5. Len(h) - 1 <= Len(old) /\ Len(h) - 1 <= Len(new) /\ Len(h) \in Nat \ {0}
  BY <1>1, <1>2, <1>3
<1>6. h[1] = Header /\ \A i \in 1..(Len(h) - 1) : h[i + 1] = old[i]
  BY <1>1, <1>4, <1>5, BeginsIs
<1>7. ASSUME NEW i \in 1..(Len(h) - 1) PROVE old[i] = new[i]
  <2>1. i \in 1..(Len(old) - 1)
    BY <1>1, <1>3, <1>5
  <2> QED
    BY <1>2, <2>1
<1>8. h = <<Header>> \o SubSeq(new, 1, Len(h) - 1)
  BY <1>1, <1>5, <1>6, <1>7, BeginsIs
<1>9. Len(h) - 1 <= IF new = <<>> THEN 0 ELSE Len(new) - 1
  <2>1. CASE old = <<>>
    BY <1>1, <1>3, <1>5, <2>1
  <2>2. CASE old # <<>>
    <3>1. Len(old) > 0 /\ Len(new) \in Nat
      BY <1>1, <2>2
    <3>2. new # <<>>
      BY <1>2, <3>1
    <3> QED
      BY <1>1, <1>2, <1>3, <2>2, <3>1, <3>2
  <2> QED
    BY <2>1, <2>2
<1> QED
  BY <1>1, <1>8, <1>9 DEF new

\* The manifest of an opener that has all its sealed rows in the payload tells
\* the truth.
LEMMA Published ==
    ASSUME NEW w \in Works, w.lines = Parse(0, w.cursor),
           w.complete => w.cursor = N, w.columns => w.complete,
           w.hashed # <<>>, Len(w.hashed) = Sealed(w) + 1,
           w.hashed = <<Header>> \o SubSeq(w.lines, 1, Len(w.hashed) - 1)
    PROVE  /\ ManifestOf(w) \in Manifests /\ Honest(ManifestOf(w))
           /\ Level(ManifestOf(w)) = Level(w)
           /\ ManifestOf(w).rows # <<>>
<1> DEFINE h == w.hashed
           lines == w.lines
           s == Sealed(w)
           t == SubSeq(lines, s + 1, Len(lines))
<1>1. /\ h \in Seq(Rows) /\ lines \in Seq(Rows) /\ s \in Nat /\ s <= Len(lines)
      /\ Len(h) = s + 1 /\ h # <<>> /\ Len(lines) \in Nat
      /\ h = <<Header>> \o SubSeq(lines, 1, Len(h) - 1)
      /\ w.complete \/ lines = <<>> => s = Len(lines)
      /\ ~(w.complete \/ lines = <<>>) => s = Len(lines) - 1
  BY DEF Works, Sealed
<1>2. ManifestOf(w) = [rows |-> h, tail |-> t, cursor |-> w.cursor,
                       complete |-> w.complete, columns |-> w.columns]
  BY DEF ManifestOf
<1> HIDE DEF h, lines, s
<1>3. h[1] = Header /\ \A i \in 1..(Len(h) - 1) : h[i + 1] = lines[i]
  BY <1>1, BeginsIs
<1>4. /\ t \in Seq(Rows) /\ Len(t) = Len(lines) - s
      /\ \A i \in 1..(Len(lines) - s) : t[i] = lines[s + i]
  <2>1. \A i \in (s + 1)..Len(lines) : lines[i] \in Rows
    BY <1>1
  <2>2. /\ t \in Seq(Rows)
        /\ Len(t) = IF s + 1 <= Len(lines) THEN Len(lines) - (s + 1) + 1 ELSE 0
        /\ \A i \in 1..(Len(lines) - (s + 1) + 1) : t[i] = lines[(s + 1) + i - 1]
    BY <1>1, <2>1, SubSeqProperties
  <2> HIDE DEF t
  <2>3. Len(t) = Len(lines) - s
    BY <1>1, <2>2
  <2>4. ASSUME NEW i \in 1..(Len(lines) - s) PROVE t[i] = lines[s + i]
    <3>1. i \in 1..(Len(lines) - (s + 1) + 1) /\ (s + 1) + i - 1 = s + i
      BY <1>1
    <3> QED
      BY <2>2, <3>1
  <2> QED
    BY <2>2, <2>3, <2>4
<1> HIDE DEF t
<1>5. Tail(h) \o t = lines
  <2> DEFINE rows == Tail(h)
  <2>1. rows \in Seq(Rows) /\ Len(rows) = s /\ \A i \in 1..s : rows[i] = lines[i]
    BY <1>1, <1>3
  <2> HIDE DEF rows
  <2>2. /\ rows \o t \in Seq(Rows) /\ Len(rows \o t) = Len(lines)
        /\ \A i \in 1..Len(lines) : (rows \o t)[i] = IF i <= s THEN rows[i] ELSE t[i - s]
    <3>1. /\ rows \o t \in Seq(Rows) /\ Len(rows \o t) = Len(rows) + Len(t)
          /\ \A i \in 1..(Len(rows) + Len(t)) :
                (rows \o t)[i] = IF i <= Len(rows) THEN rows[i] ELSE t[i - Len(rows)]
      BY <1>4, <2>1, ConcatProperties, ZenonT(60)
    <3>2. Len(rows) + Len(t) = Len(lines) /\ Len(rows) = s
      BY <1>1, <1>4, <2>1
    <3> QED
      BY <3>1, <3>2
  <2>3. ASSUME NEW i \in 1..Len(lines) PROVE (rows \o t)[i] = lines[i]
    <3>1. CASE i <= s
      BY <1>1, <2>1, <2>2, <3>1
    <3>2. CASE ~(i <= s)
      <4>1. i - s \in 1..(Len(lines) - s) /\ s + (i - s) = i
        BY <1>1, <3>2
      <4>2. t[i - s] = lines[s + (i - s)]
        BY <1>4, <4>1
      <4> QED
        BY <2>2, <3>2, <4>1, <4>2
    <3> QED
      BY <3>1, <3>2
  <2> QED
    BY <1>1, <2>2, <2>3, SeqEqual DEF rows
<1>6. /\ w.complete => t = <<>> /\ w.cursor = N
      /\ Len(t) = 1 \/ w.complete \/ (t = <<>> /\ Len(h) = 1)
  <2>1. CASE w.complete \/ lines = <<>>
    <3>1. Len(t) = 0 /\ (lines = <<>> => s = 0)
      BY <1>1, <1>4, <2>1
    <3> QED
      BY <1>1, <1>4, <2>1, <3>1
  <2>2. CASE ~(w.complete \/ lines = <<>>)
    BY <1>1, <1>4, <2>2
  <2> QED
    BY <2>1, <2>2
<1>7. w.cursor \in 0..N /\ w.complete \in BOOLEAN /\ w.columns \in BOOLEAN
  BY DEF Works
<1>8. lines = Parse(0, w.cursor)
  BY DEF lines
<1>9. ManifestOf(w) \in Manifests
  BY <1>1, <1>2, <1>4, <1>7 DEF Manifests
<1>10. Honest(ManifestOf(w))
  BY <1>1, <1>2, <1>3, <1>5, <1>6, <1>8, SMTT(60) DEF Honest
<1>11. Level(ManifestOf(w)) = Level(w)
  BY <1>2 DEF Level
<1> QED
  BY <1>1, <1>2, <1>9, <1>10, <1>11

-----------------------------------------------------------------------------
(* The openers a step is not about.                                        *)

\* The rows of a reading depend on the log alone.
LEMMA SameLog == ASSUME log' = log PROVE \A a, c : Parse(a, c)' = Parse(a, c)
  BY DEF Parse, Read, Push, Keeps

\* The rows an opener has after a step are those of a reading of the log before.
LEMMA FramedNow ==
    ASSUME log' = log, NEW p, work'[p].lines = Parse(0, work'[p].cursor),
           work'[p].complete => work'[p].cursor = N,
           work'[p].columns \/ at'[p] = "discovering" => work'[p].complete
    PROVE  Framed(p)'
  BY SameLog DEF Framed

\* An opener that a step leaves alone, the files too.
LEMMA Still ==
    ASSUME NEW q \in Openers, Opener(q),
           UNCHANGED <<log, payload, synced, folder, promised>>,
           at'[q] = at[q], work'[q] = work[q], exclusive = q => exclusive' = q
    PROVE  Opener(q)'
<1>1. Framed(q)'
  BY SameLog DEF Opener, Framed
<1>2. Fresh(q)' /\ Locked(q)' /\ Maps(q)'
  BY DEF Opener, Fresh, Locked, Maps
<1>3. Hashed(q)'
  BY DEF Opener, Hashed
<1>4. Saved(q)'
  BY DEF Opener, Saved, Valid
<1> QED
  BY <1>1, <1>2, <1>3, <1>4 DEF Opener

\* An opener that a step leaves alone while another, or the clean-up, has the lock
\* file exclusively: whatever happens to the files.
LEMMA Waits ==
    ASSUME TypeOK, NEW q \in Openers, Opener(q), exclusive \notin {q, Nobody},
           log' = log, at'[q] = at[q], work'[q] = work[q]
    PROVE  Opener(q)'
<1>1. at[q] \notin {"restoring", "resetting", "appending", "syncing", "publishing", "confirming", "mapped"}
  BY DEF Opener, Locked, TypeOK, Sharing
<1>2. ~work[q].journal
  BY DEF Opener, Locked
<1>3. Framed(q)'
  BY SameLog DEF Opener, Framed
<1>4. Fresh(q)' /\ Locked(q)' /\ Maps(q)' /\ Hashed(q)' /\ Saved(q)'
  BY <1>1, <1>2 DEF Opener, Fresh, Locked, Maps, Hashed, Saved
<1> QED
  BY <1>3, <1>4 DEF Opener

\* A manifest tells the truth about the log whatever else happens.
LEMMA TruthKept == ASSUME log' = log, NEW m PROVE Honest(m)' <=> Honest(m)
  BY SameLog DEF Honest

\* An opener that has nothing and holds no place in the files.
LEMMA Rests ==
    ASSUME NEW q \in Openers, work'[q] = NoWork,
           at'[q] \in {"idle", "waiting", "scanning", "handoff"}
    PROVE  Opener(q)'
<1>1. Framed(q)'
  <2>1. (Parse(0, 0) = <<>>)'
    BY Values, PTL
  <2> QED
    BY <2>1 DEF Framed, NoWork
<1>2. Fresh(q)' /\ Locked(q)' /\ Maps(q)' /\ Hashed(q)' /\ Saved(q)'
  BY DEF Fresh, Locked, Maps, Hashed, Saved, NoWork
<1> QED
  BY <1>1, <1>2 DEF Opener

\* A step of an opener that leaves the files alone.
LEMMA Moves ==
    ASSUME IInv, NEW p \in Openers, UNCHANGED <<log, disk, recent, looked, promised>>,
           at' \in [Openers -> Points], work' \in [Openers -> Works],
           \A q \in Openers \ {p} :
              at'[q] = at[q] /\ work'[q] = work[q] /\ (exclusive = q => exclusive' = q),
           exclusive' \in Openers \cup {Pruner, Nobody}, exclusive' # Nobody => Sharing' = {},
           Opener(p)'
    PROVE  IInv'
<1>1. TypeOK'
  BY DEF IInv, TypeOK, Works, disk
<1>2. ASSUME NEW q \in Openers PROVE Opener(q)'
  BY Still DEF IInv, disk
<1>3. Truthful'
  BY TruthKept DEF IInv, Truthful, disk
<1>4. Durable'
  BY DEF IInv, Durable, disk
<1> QED
  BY <1>1, <1>2, <1>3, <1>4 DEF IInv

\* What the invariant says of the manifest that is in force.
LEMMA InForce ==
    ASSUME IInv
    PROVE  /\ folder \in Folders /\ folder.manifest \in Manifests /\ Honest(folder.manifest)
           /\ payload \in Seq(Rows) /\ synced \in Seq(Rows)
           /\ \A f \in kept : f \in Folders /\ f.manifest \in Manifests /\ f.manifest.rows \in Seq(Rows)
  BY DEF IInv, TypeOK, Truthful, Folders, Manifests

\* A finished index is mapped, or there is none to map.
LEMMA OpenCompleteStep == ASSUME IInv, NEW p \in Openers, OpenComplete(p) PROVE IInv'
<1> DEFINE w == [NoWork EXCEPT !.lines = Tail(folder.manifest.rows), !.cursor = N, !.complete = TRUE]
<1>0. /\ at \in [Openers -> Points] /\ work \in [Openers -> Works] /\ folder.manifest \in Manifests
      /\ at[p] \in {"idle", "handoff"} /\ exclusive \in Openers \cup {Pruner, Nobody}
      /\ UNCHANGED <<log, disk, recent, looked, exclusive, promised>>
  BY InForce DEF IInv, TypeOK, Works, OpenComplete
<1>1. CASE exclusive = Nobody /\ Finished
  <2>1. at' = [at EXCEPT ![p] = "mapped"] /\ work' = [work EXCEPT ![p] = w]
    BY <1>1 DEF OpenComplete
  <2> DEFINE m == folder.manifest
  <2>2. /\ Honest(m) /\ m # NoManifest /\ m.complete /\ folder.lines /\ IsPrefix(m.rows, payload)
        /\ m \in Manifests
    BY <1>0, <1>1, InForce DEF Finished, Valid
  <2>3. /\ Tail(m.rows) \in Seq(Rows) /\ Tail(m.rows) = Parse(0, N)
        /\ m.rows = <<Header>> \o Tail(m.rows)
    <3> HIDE DEF m
    <3> QED
      BY <2>2, Resumed
  <2>4. w \in Works /\ w.lines = Tail(m.rows) /\ w.cursor = N /\ w.complete /\ ~w.columns /\ ~w.journal
    <3>1. N \in 0..N
      BY LogAssumption
    <3> QED
      BY <2>3, <3>1, Values DEF Works, NoWork
  <2> HIDE DEF w, m
  <2>5. at'[p] = "mapped" /\ work'[p] = w /\ folder' = folder /\ payload' = payload
    BY <1>0, <2>1 DEF disk
  <2>6. Framed(p)'
    BY <1>0, <2>3, <2>4, <2>5, SameLog DEF Framed
  <2>7. Maps(p)'
    BY <2>2, <2>3, <2>4, <2>5 DEF Maps
  <2>8. Fresh(p)' /\ Locked(p)' /\ Hashed(p)' /\ Saved(p)'
    BY <2>4, <2>5 DEF Fresh, Locked, Hashed, Saved
  <2>9. Opener(p)'
    BY <2>6, <2>7, <2>8 DEF Opener
  <2>10. at' \in [Openers -> Points] /\ work' \in [Openers -> Works]
    BY <1>0, <2>1, <2>4 DEF Points
  <2>11. \A q \in Openers \ {p} : at'[q] = at[q] /\ work'[q] = work[q] /\ exclusive' = exclusive
    BY <1>0, <2>1
  <2> QED
    BY <1>0, <1>1, <2>9, <2>10, <2>11, Moves
<1>2. CASE ~(exclusive = Nobody /\ Finished)
  <2>1. /\ at' = [at EXCEPT ![p] = IF at[p] = "idle" THEN "waiting" ELSE "idle"]
        /\ work' = [work EXCEPT ![p] = NoWork]
    BY <1>2 DEF OpenComplete
  <2>2. Opener(p)'
    BY <1>0, <2>1, Rests
  <2>3. at' \in [Openers -> Points] /\ work' \in [Openers -> Works]
    BY <1>0, <2>1, Values DEF Points
  <2>4. \A q \in Openers \ {p} : at'[q] = at[q] /\ work'[q] = work[q] /\ exclusive' = exclusive
    BY <1>0, <2>1
  <2>5. exclusive' # Nobody => Sharing' = {}
    BY <1>0, <2>1 DEF IInv, TypeOK, Sharing
  <2> QED
    BY <1>0, <2>2, <2>3, <2>4, <2>5, Moves
<1> QED
  BY <1>1, <1>2

\* The exclusive lock is taken while nobody has the file mapped.
LEMMA AcquireStep == ASSUME IInv, NEW p \in Openers, Acquire(p) PROVE IInv'
<1>1. /\ at \in [Openers -> Points] /\ work \in [Openers -> Works] /\ at[p] = "waiting"
      /\ exclusive = Nobody /\ Sharing = {} /\ exclusive' = p /\ work' = work
      /\ at' = [at EXCEPT ![p] = "restoring"]
      /\ UNCHANGED <<log, disk, recent, looked, promised>>
  BY DEF IInv, TypeOK, Works, Acquire, Goto, Free
<1>2. at' \in [Openers -> Points] /\ work' \in [Openers -> Works] /\ Sharing' = {}
  BY <1>1 DEF Points, Sharing
<1>3. Opener(p)'
  <2>1. work'[p] = NoWork /\ at'[p] = "restoring" /\ Opener(p)
    BY <1>1 DEF IInv, Opener, Fresh
  <2>2. Framed(p)'
    BY <1>1, <2>1, SameLog DEF Opener, Framed
  <2> QED
    BY <1>1, <2>1, <2>2 DEF Opener, Fresh, Locked, Hashed, Maps, Saved, NoWork
<1>4. p \in Openers /\ \A q \in Openers \ {p} : at'[q] = at[q] /\ work'[q] = work[q] /\ exclusive # q
  BY <1>1, ActorAssumption
<1> QED
  BY <1>1, <1>2, <1>3, <1>4, Moves

\* The lock stays taken.
LEMMA BusyStep == ASSUME IInv, NEW p \in Openers, Busy(p) PROVE IInv'
<1>1. /\ at \in [Openers -> Points] /\ work \in [Openers -> Works] /\ at[p] = "waiting"
      /\ exclusive' = exclusive /\ work' = work /\ at' = [at EXCEPT ![p] = "idle"]
      /\ UNCHANGED <<log, disk, recent, looked, promised>>
      /\ exclusive \in Openers \cup {Pruner, Nobody}
  BY DEF IInv, TypeOK, Works, Busy, Goto
<1>2. at' \in [Openers -> Points] /\ work' \in [Openers -> Works]
  BY <1>1 DEF Points
<1>3. exclusive' # Nobody => Sharing' = {}
  BY <1>1 DEF IInv, TypeOK, Sharing
<1>4. Opener(p)'
  <2>1. work'[p] = NoWork /\ at'[p] = "idle"
    BY <1>1 DEF IInv, Opener, Fresh
  <2> QED
    BY <2>1, Rests
<1>5. \A q \in Openers \ {p} : at'[q] = at[q] /\ work'[q] = work[q]
  BY <1>1
<1> QED
  BY <1>1, <1>2, <1>3, <1>4, <1>5, Moves

\* The parsing starts without a journal.
LEMMA UnavailableStep == ASSUME IInv, NEW p \in Openers, Unavailable(p) PROVE IInv'
<1>1. /\ at \in [Openers -> Points] /\ work \in [Openers -> Works]
      /\ at[p] \in {"waiting", "restoring", "resetting"}
      /\ exclusive' = (IF exclusive = p THEN Nobody ELSE exclusive)
      /\ work' = work /\ at' = [at EXCEPT ![p] = "scanning"]
      /\ UNCHANGED <<log, disk, recent, looked, promised>>
      /\ exclusive \in Openers \cup {Pruner, Nobody}
  BY DEF IInv, TypeOK, Works, Unavailable
<1>2. at' \in [Openers -> Points] /\ work' \in [Openers -> Works]
  BY <1>1 DEF Points
<1>3. exclusive' \in Openers \cup {Pruner, Nobody} /\ (exclusive' # Nobody => Sharing' = {})
  BY <1>1 DEF IInv, TypeOK, Sharing
<1>4. Opener(p)'
  <2>1. work'[p] = NoWork /\ at'[p] = "scanning"
    BY <1>1 DEF IInv, Opener, Fresh
  <2> QED
    BY <2>1, Rests
<1>5. \A q \in Openers \ {p} : at'[q] = at[q] /\ work'[q] = work[q] /\ (exclusive = q => exclusive' = q)
  BY <1>1
<1> QED
  BY <1>1, <1>2, <1>3, <1>4, <1>5, Moves

\* An opener gives up what it has.
LEMMA StopStep == ASSUME IInv, NEW p \in Openers, Stop(p) \/ Close(p) PROVE IInv'
<1>1. /\ at \in [Openers -> Points] /\ work \in [Openers -> Works]
      /\ exclusive' = (IF exclusive = p THEN Nobody ELSE exclusive)
      /\ work' = [work EXCEPT ![p] = NoWork]
      /\ \/ at' = [at EXCEPT ![p] = "idle"]
         \/ at' = [at EXCEPT ![p] = "handoff"]
      /\ UNCHANGED <<log, disk, recent, looked, promised>>
      /\ exclusive \in Openers \cup {Pruner, Nobody}
  BY DEF IInv, TypeOK, Works, Stop, Close, Goto
<1>2. at' \in [Openers -> Points] /\ work' \in [Openers -> Works]
  BY <1>1, Values DEF Points
<1>3. exclusive' \in Openers \cup {Pruner, Nobody} /\ (exclusive' # Nobody => Sharing' = {})
  BY <1>1 DEF IInv, TypeOK, Sharing
<1>4. Opener(p)'
  <2>1. work'[p] = NoWork /\ at'[p] \in {"idle", "handoff"}
    BY <1>1
  <2> QED
    BY <2>1, Rests
<1>5. \A q \in Openers \ {p} : at'[q] = at[q] /\ work'[q] = work[q] /\ (exclusive = q => exclusive' = q)
  BY <1>1
<1> QED
  BY <1>1, <1>2, <1>3, <1>4, <1>5, Moves

\* A wave of chunks is read.
LEMMA ScanStep == ASSUME IInv, NEW p \in Openers, Scan(p) PROVE IInv'
<1> DEFINE w == work[p]
<1>1. PICK bounds \in Waves(w.cursor) :
        LET v == [w EXCEPT !.lines = JoinAll(@, w.cursor, bounds),
                           !.cursor = Last(bounds), !.complete = Last(bounds) = N]
        IN  /\ work' = [work EXCEPT ![p] = v]
            /\ \/ Goto(p, "scanning", Saves(v))
               \/ ~v.complete /\ Goto(p, "scanning", "scanning")
            /\ UNCHANGED <<log, disk, recent, looked, exclusive, promised>>
  BY DEF Scan
<1> DEFINE c == Last(bounds)
           v == [w EXCEPT !.lines = JoinAll(@, w.cursor, bounds), !.cursor = c, !.complete = c = N]
<1>2. /\ at \in [Openers -> Points] /\ work \in [Openers -> Works] /\ w \in Works
      /\ log \in [1..N -> {"start", "more", "blank"}] /\ N \in Nat
      /\ exclusive \in Openers \cup {Pruner, Nobody} /\ Opener(p)
  BY LogAssumption DEF IInv, TypeOK, Works
<1>3. /\ work' = [work EXCEPT ![p] = v] /\ at[p] = "scanning"
      /\ at' = [at EXCEPT ![p] = Saves(v)] \/ (~v.complete /\ at' = at)
      /\ UNCHANGED <<log, disk, recent, looked, exclusive, promised>>
  BY <1>1, <1>2 DEF Goto
<1> HIDE DEF w
<1>4. w.cursor \in 0..N /\ w.lines = Parse(0, w.cursor)
  BY <1>2 DEF Works, Opener, Framed, w
<1>5. c \in (w.cursor + 1)..N /\ JoinAll(w.lines, w.cursor, bounds) = Parse(0, c)
  BY <1>2, <1>4, WaveExact
<1> HIDE DEF c
<1>6. /\ v.lines = Parse(0, c) /\ v.cursor = c /\ v.complete = (c = N) /\ v.columns = w.columns
      /\ v.hashed = w.hashed /\ v.journal = w.journal
  BY <1>2, <1>5 DEF Works
<1>7. c \in 0..N /\ w.cursor < N /\ c \in w.cursor..N /\ 0 \in 0..N /\ c > w.cursor
  BY <1>2, <1>4, <1>5
<1>8. ~w.complete /\ ~w.columns /\ w.complete \in BOOLEAN /\ w.columns \in BOOLEAN
  <2>1. w.cursor # N
    BY <1>4, <1>7
  <2> QED
    BY <1>2, <2>1 DEF Opener, Framed, w, Works
<1>9. v \in Works
  <2>1. Parse(0, c) \in Seq(Rows)
    BY <1>7, ParseRows
  <2> QED
    BY <1>2, <1>5, <1>7, <2>1 DEF Works
<1>10. at' \in [Openers -> Points] /\ at'[p] \in {"scanning", "appending", "discovering", "closing"}
       /\ (at'[p] = "appending" => v.journal) /\ (at'[p] = "discovering" => v.complete)
  BY <1>2, <1>3 DEF Saves, Stage, Points
<1> HIDE DEF v
<1>11. work' \in [Openers -> Works] /\ work'[p] = v
       /\ \A q \in Openers \ {p} : at'[q] = at[q] /\ work'[q] = work[q] /\ exclusive' = exclusive
  BY <1>2, <1>3, <1>9
<1>12. exclusive' # Nobody => Sharing' = {}
  BY <1>2, <1>3, <1>10, <1>11 DEF IInv, TypeOK, Sharing
<1>13. Opener(p)'
  <2>1. Framed(p)'
    BY <1>3, <1>6, <1>8, <1>10, <1>11, SameLog DEF Framed
  <2>2. Fresh(p)' /\ Maps(p)'
    BY <1>10 DEF Fresh, Maps
  <2>3. Locked(p)'
    BY <1>2, <1>3, <1>6, <1>10, <1>11 DEF Opener, Locked, w
  <2>4. Hashed(p)'
    <3>1. SUFFICES ASSUME w.journal
                   PROVE  /\ v.hashed # <<>> /\ Len(v.hashed) <= Sealed(v) + 1
                          /\ v.hashed = <<Header>> \o SubSeq(v.lines, 1, Len(v.hashed) - 1)
      BY <1>6, <1>10, <1>11 DEF Hashed
    <3> DEFINE h == w.hashed
    <3>2. h \in Seq(Rows) /\ h # <<>> /\ Len(h) <= Sealed(w) + 1
          /\ h = <<Header>> \o SubSeq(Parse(0, w.cursor), 1, Len(h) - 1)
      BY <1>2, <1>4, <3>1 DEF Opener, Hashed, w, Works
    <3> HIDE DEF h
    <3>3. Len(h) - 1 <= IF Parse(0, w.cursor) = <<>> THEN 0 ELSE Len(Parse(0, w.cursor)) - 1
      <4>1. Len(h) \in Nat /\ Parse(0, w.cursor) \in Seq(Rows)
        BY <1>4, <1>7, <3>2, ParseRows
      <4>2. Sealed(w) = IF w.lines = <<>> THEN Len(w.lines) ELSE Len(w.lines) - 1
        BY <1>8 DEF Sealed
      <4> QED
        BY <1>4, <3>2, <4>1, <4>2
    <3>4. /\ Parse(0, c) \in Seq(Rows) /\ h = <<Header>> \o SubSeq(Parse(0, c), 1, Len(h) - 1)
          /\ Len(h) - 1 <= IF Parse(0, c) = <<>> THEN 0 ELSE Len(Parse(0, c)) - 1
      BY <1>4, <1>7, <3>2, <3>3, ReadOn
    <3>5. Len(h) <= Sealed(v) + 1
      <4>1. Sealed(v) = IF c = N \/ Parse(0, c) = <<>> THEN Len(Parse(0, c)) ELSE Len(Parse(0, c)) - 1
        BY <1>6 DEF Sealed
      <4>2. Len(h) \in Nat /\ Len(Parse(0, c)) \in Nat
        BY <3>2, <3>4
      <4> QED
        BY <3>4, <4>1, <4>2
    <3> QED
      BY <1>6, <3>2, <3>4, <3>5 DEF h
  <2>5. Saved(p)'
    <3>1. Level(w) <= Level(v)
      BY <1>4, <1>6, <1>7, <1>8 DEF Level
    <3>2. Level(w) \in 0..(N + 2) /\ Level(v) \in 0..(N + 2) /\ Level(folder.manifest) \in 0..(N + 2)
      BY <1>2, <1>9, Levels, InForce DEF w
    <3>3. w.journal => payload = w.hashed /\ folder.lines /\ Level(folder.manifest) <= Level(w)
      BY <1>2 DEF Opener, Saved, w
    <3>4. w.journal => payload = v.hashed /\ folder.lines /\ Level(folder.manifest) <= Level(v)
      BY <1>2, <1>6, <3>1, <3>2, <3>3
    <3>5. payload' = payload /\ folder' = folder
      BY <1>3 DEF disk
    <3> QED
      BY <1>6, <1>10, <1>11, <3>4, <3>5 DEF Saved
  <2> QED
    BY <2>1, <2>2, <2>3, <2>4, <2>5 DEF Opener
<1> QED
  BY <1>2, <1>3, <1>10, <1>11, <1>12, <1>13, Moves

\* The columns are found.
LEMMA DiscoverStep == ASSUME IInv, NEW p \in Openers, Discover(p) PROVE IInv'
<1> DEFINE w == work[p]
           v == [w EXCEPT !.columns = TRUE]
<1>1. /\ at \in [Openers -> Points] /\ work \in [Openers -> Works] /\ w \in Works /\ N \in Nat
      /\ exclusive \in Openers \cup {Pruner, Nobody} /\ Opener(p)
      /\ at[p] = "discovering" /\ at' = [at EXCEPT ![p] = Saves(v)] /\ work' = [work EXCEPT ![p] = v]
      /\ UNCHANGED <<log, disk, recent, looked, exclusive, promised>>
  BY LogAssumption DEF IInv, TypeOK, Works, Discover, Goto
<1>2. /\ v \in Works /\ v.lines = w.lines /\ v.cursor = w.cursor /\ v.complete = w.complete
      /\ v.columns /\ v.hashed = w.hashed /\ v.journal = w.journal
  BY <1>1 DEF Works
<1>3. w.complete /\ w.lines = Parse(0, w.cursor) /\ w.cursor = N
  BY <1>1 DEF Opener, Framed
<1>4. at' \in [Openers -> Points] /\ at'[p] \in {"appending", "closing"}
      /\ (at'[p] = "appending" => v.journal)
  BY <1>1, <1>2, <1>3 DEF Saves, Stage, Points
<1> HIDE DEF v, w
<1>5. work' \in [Openers -> Works] /\ work'[p] = v
      /\ \A q \in Openers \ {p} : at'[q] = at[q] /\ work'[q] = work[q] /\ exclusive' = exclusive
  BY <1>1, <1>2
<1>6. exclusive' # Nobody => Sharing' = {}
  BY <1>1, <1>4, <1>5 DEF IInv, TypeOK, Sharing
<1>7. Opener(p)'
  <2>1. Framed(p)'
    <3>1. v.lines = Parse(0, N) /\ v.cursor = N /\ v.complete
      BY <1>2, <1>3
    <3> QED
      BY <1>1, <1>5, <3>1, SameLog DEF Framed
  <2>2. Fresh(p)' /\ Maps(p)'
    BY <1>4 DEF Fresh, Maps
  <2>3. Locked(p)'
    BY <1>1, <1>2, <1>4, <1>5 DEF Opener, Locked, w
  <2>4. Hashed(p)'
    <3>1. Sealed(v) = Sealed(w)
      BY <1>2 DEF Sealed
    <3> QED
      BY <1>1, <1>2, <1>4, <1>5, <3>1 DEF Opener, Hashed, w
  <2>5. Saved(p)'
    <3>1. Level(v) = N + 2 /\ Level(folder.manifest) \in 0..(N + 2)
      BY <1>2, Levels, InForce DEF Level
    <3>2. v.journal => payload = v.hashed /\ folder.lines
      BY <1>1, <1>2 DEF Opener, Saved, w
    <3>3. payload' = payload /\ folder' = folder
      BY <1>1 DEF disk
    <3>4. Level(folder.manifest) <= Level(v)
      BY <1>1, <3>1
    <3> QED
      BY <1>4, <1>5, <3>2, <3>3, <3>4 DEF Saved
  <2> QED
    BY <2>1, <2>2, <2>3, <2>4, <2>5 DEF Opener
<1> QED
  BY <1>1, <1>4, <1>5, <1>6, <1>7, Moves

-----------------------------------------------------------------------------
(* The steps that change the files.                                        *)

\* A step of an opener, or of the clean-up, that holds the lock file exclusively.
LEMMA Writes ==
    ASSUME IInv, NEW h \in Openers \cup {Pruner}, exclusive = h, UNCHANGED log,
           at' \in [Openers -> Points], work' \in [Openers -> Works],
           \A q \in Openers \ {h} : at'[q] = at[q] /\ work'[q] = work[q],
           h \in Openers => at'[h] # "mapped" /\ Opener(h)',
           exclusive' \in Openers \cup {Pruner, Nobody},
           payload' \in Seq(Rows), synced' \in Seq(Rows),
           folder' \in Folders, folder' \in kept', \A f \in kept' : f \in Folders,
           recent' \in BOOLEAN, looked' \in BOOLEAN, promised' \in 0..(N + 2),
           Truthful', Durable'
    PROVE  IInv'
<1>1. h # Nobody /\ Sharing = {}
  BY ActorAssumption DEF IInv, TypeOK
<1>2. Sharing' = {}
  <2>1. ASSUME NEW q \in Openers, at'[q] = "mapped" PROVE FALSE
    <3>1. q # h
      BY <2>1
    <3> QED
      BY <1>1, <2>1, <3>1 DEF Sharing
  <2> QED
    BY <2>1 DEF Sharing
<1>3. TypeOK'
  BY <1>2 DEF IInv, TypeOK, Works
<1>4. ASSUME NEW q \in Openers PROVE Opener(q)'
  <2>1. CASE q = h
    BY <2>1
  <2>2. CASE q # h
    BY <1>1, <2>2, Waits DEF IInv
  <2> QED
    BY <2>1, <2>2
<1> QED
  BY <1>3, <1>4 DEF IInv

\* The index is taken up again where its manifest says.
LEMMA RestoreStep == ASSUME IInv, NEW p \in Openers, Restore(p) PROVE IInv'
<1> DEFINE m == folder.manifest
           lines == Tail(m.rows) \o m.tail
           w == [lines |-> lines, cursor |-> m.cursor, complete |-> m.complete,
                 columns |-> m.columns, hashed |-> m.rows, journal |-> TRUE]
<1>1. /\ at \in [Openers -> Points] /\ work \in [Openers -> Works] /\ Valid
      /\ at[p] = "restoring" /\ at' = [at EXCEPT ![p] = Stage(w)] /\ work' = [work EXCEPT ![p] = w]
      /\ payload' = m.rows /\ UNCHANGED <<log, synced, folder, kept, recent, looked, exclusive, promised>>
      /\ Opener(p)
  BY DEF IInv, TypeOK, Works, Restore, Goto
<1>2. exclusive = p
  BY <1>1 DEF Opener, Locked
<1>3. /\ m \in Manifests /\ Honest(m) /\ m # NoManifest /\ folder.lines /\ folder \in Folders
      /\ IsPrefix(m.rows, payload) /\ payload \in Seq(Rows) /\ synced \in Seq(Rows)
      /\ m.rows \in Seq(Rows) /\ m.cursor \in 0..N /\ m.complete \in BOOLEAN /\ m.columns \in BOOLEAN
  BY <1>1, InForce DEF Valid, Manifests
<1> HIDE DEF m
<1>4. /\ lines \in Seq(Rows) /\ lines = Parse(0, m.cursor) /\ m.rows # <<>>
      /\ m.rows = <<Header>> \o SubSeq(lines, 1, Len(m.rows) - 1)
      /\ Len(m.rows) - 1 <= IF m.complete \/ lines = <<>> THEN Len(lines) ELSE Len(lines) - 1
  BY <1>3, Resumed
<1>5. (m.complete => m.cursor = N) /\ (m.columns => m.complete)
  BY <1>3 DEF Honest, NoManifest
<1> HIDE DEF lines
<1>6. w \in Works
  BY <1>3, <1>4 DEF Works
<1>7. at' \in [Openers -> Points] /\ at'[p] \in {"scanning", "discovering", "closing"}
      /\ (at'[p] = "discovering" => m.complete)
  BY <1>1 DEF Stage, Points
<1>8. work' \in [Openers -> Works] /\ work'[p] = w
  BY <1>1, <1>6
<1>9. \A q \in Openers \ {p} : at'[q] = at[q] /\ work'[q] = work[q]
  BY <1>1
<1>10. Opener(p)'
  <2>1. Framed(p)'
    BY <1>1, <1>4, <1>5, <1>7, <1>8, SameLog DEF Framed
  <2>2. Fresh(p)' /\ Maps(p)' /\ Locked(p)'
    BY <1>1, <1>2, <1>7, <1>8 DEF Fresh, Maps, Locked
  <2>3. Hashed(p)'
    <3>1. Len(m.rows) <= Sealed(w) + 1
      <4>1. Sealed(w) = IF m.complete \/ lines = <<>> THEN Len(lines) ELSE Len(lines) - 1
        BY DEF Sealed
      <4>2. Len(m.rows) \in Nat /\ Len(lines) \in Nat
        BY <1>3, <1>4
      <4> QED
        BY <1>4, <4>1, <4>2
    <3> QED
      BY <1>4, <1>7, <1>8, <3>1 DEF Hashed
  <2>4. Saved(p)'
    <3>1. Level(w) = Level(m) /\ Level(m) <= Level(m)
      <4>1. Level(m) \in 0..(N + 2)
        BY <1>3, Levels
      <4>2. Level(w) = Level(m)
        BY DEF Level
      <4> QED
        BY <4>1, <4>2
    <3>2. folder' = folder /\ folder.manifest = m
      BY <1>1 DEF m
    <3> QED
      BY <1>1, <1>3, <1>7, <1>8, <3>1, <3>2 DEF Saved
  <2> QED
    BY <2>1, <2>2, <2>3, <2>4 DEF Opener
<1>11. Truthful'
  BY <1>1, TruthKept DEF IInv, Truthful
<1>12. Durable'
  BY <1>1 DEF IInv, Durable, m
<1>13. recent' \in BOOLEAN /\ looked' \in BOOLEAN /\ promised' \in 0..(N + 2)
       /\ exclusive' = p /\ folder' \in kept' /\ (\A f \in kept' : f \in Folders) /\ folder' \in Folders
  BY <1>1, <1>2 DEF IInv, TypeOK
<1> QED
  BY <1>1, <1>2, <1>3, <1>7, <1>8, <1>9, <1>10, <1>11, <1>12, <1>13, Writes, ZenonT(60)

\* The payload is emptied.
LEMMA ResetPayloadStep == ASSUME IInv, NEW p \in Openers, ResetPayload(p) PROVE IInv'
<1> DEFINE f == [folder EXCEPT !.lines = TRUE]
<1>1. /\ at \in [Openers -> Points] /\ work \in [Openers -> Works] /\ ~Valid
      /\ at[p] = "restoring" /\ at' = [at EXCEPT ![p] = "resetting"] /\ work' = work
      /\ payload' = <<Header>> /\ folder' = f /\ kept' = kept \cup {f}
      /\ UNCHANGED <<log, synced, recent, looked, exclusive, promised>> /\ Opener(p)
  BY DEF IInv, TypeOK, Works, ResetPayload, Goto, Names
<1>2. exclusive = p /\ work[p] = NoWork
  BY <1>1 DEF Opener, Locked, Fresh
<1>3. /\ folder \in Folders /\ folder \in kept /\ Honest(folder.manifest)
      /\ f \in Folders /\ f.lines /\ f.manifest = folder.manifest
  BY InForce DEF IInv, TypeOK, Folders
<1>4. promised = 0
  <2>1. promised \in 0..(N + 2) /\ N \in Nat
    BY LogAssumption DEF IInv, TypeOK
  <2>2. ~(promised > 0)
    BY <1>1, <1>3 DEF IInv, Durable, Valid
  <2> QED
    BY <2>1, <2>2
<1> HIDE DEF f
<1>5. at' \in [Openers -> Points] /\ at'[p] = "resetting" /\ work'[p] = NoWork
      /\ \A q \in Openers \ {p} : at'[q] = at[q] /\ work'[q] = work[q]
  BY <1>1, <1>2 DEF Points
<1>6. Opener(p)'
  <2>1. Framed(p)'
    BY <1>1, <1>5, SameLog DEF Opener, Framed, NoWork
  <2>2. Fresh(p)' /\ Locked(p)' /\ Hashed(p)' /\ Maps(p)' /\ Saved(p)'
    BY <1>1, <1>2, <1>3, <1>4, <1>5 DEF Fresh, Locked, Hashed, Maps, Saved, NoWork
  <2> QED
    BY <2>1, <2>2 DEF Opener
<1>7. Truthful'
  BY <1>1, <1>3, TruthKept DEF IInv, Truthful
<1>8. Durable'
  BY <1>1, <1>4 DEF Durable
<1>9. /\ recent' \in BOOLEAN /\ looked' \in BOOLEAN /\ promised' \in 0..(N + 2) /\ exclusive' = p
      /\ folder' \in kept' /\ (\A g \in kept' : g \in Folders) /\ folder' \in Folders
      /\ payload' \in Seq(Rows) /\ synced' \in Seq(Rows) /\ work' \in [Openers -> Works]
  BY <1>1, <1>2, <1>3, Values DEF IInv, TypeOK
<1> QED
  BY <1>1, <1>2, <1>5, <1>6, <1>7, <1>8, <1>9, Writes

\* The obsolete manifest is removed.
LEMMA ResetManifestStep == ASSUME IInv, NEW p \in Openers, ResetManifest(p) PROVE IInv'
<1> DEFINE f == [folder EXCEPT !.manifest = NoManifest]
           w == [NoWork EXCEPT !.journal = TRUE, !.hashed = <<Header>>]
<1>1. /\ at \in [Openers -> Points] /\ work \in [Openers -> Works] /\ Opener(p)
      /\ at[p] = "resetting" /\ at' = [at EXCEPT ![p] = "scanning"]
      /\ work' = [work EXCEPT ![p].journal = TRUE, ![p].hashed = <<Header>>]
      /\ folder' = f /\ kept' = kept \cup {f}
      /\ UNCHANGED <<log, payload, synced, recent, looked, exclusive, promised>>
  BY DEF IInv, TypeOK, Works, ResetManifest, Goto, Names
<1>2. exclusive = p /\ work[p] = NoWork /\ payload = <<Header>> /\ folder.lines /\ promised = 0
  BY <1>1 DEF Opener, Locked, Fresh, Saved
<1>3. work' = [work EXCEPT ![p] = w]
  BY <1>1, <1>2 DEF NoWork
<1>4. w \in Works
  BY Values DEF Works, NoWork
<1>5. /\ w.lines = <<>> /\ w.cursor = 0 /\ ~w.complete /\ ~w.columns /\ w.hashed = <<Header>> /\ w.journal
  BY DEF NoWork
<1>6. f \in Folders /\ f.lines /\ f.manifest = NoManifest
  BY <1>2, InForce, Values DEF Folders
<1> HIDE DEF f, w
<1>7. at' \in [Openers -> Points] /\ at'[p] = "scanning" /\ work' \in [Openers -> Works] /\ work'[p] = w
      /\ \A q \in Openers \ {p} : at'[q] = at[q] /\ work'[q] = work[q]
  BY <1>1, <1>3, <1>4 DEF Points
<1>8. Opener(p)'
  <2>1. Framed(p)'
    <3>1. w.lines = Parse(0, 0) /\ w.cursor = 0
      BY <1>5, Values
    <3> QED
      BY <1>1, <1>5, <1>7, <3>1, FramedNow
  <2>2. Hashed(p)'
    <3>1. Sealed(w) = 0
      BY <1>5 DEF Sealed
    <3>2. <<Header>> = <<Header>> \o SubSeq(<<>>, 1, Len(<<Header>>) - 1)
          /\ Len(<<Header>>) = 1 /\ <<Header>> # <<>>
      <4>1. SubSeq(<<>>, 1, 0) = <<>>
        OBVIOUS
      <4> QED
        BY <4>1
    <3>3. /\ w.hashed # <<>> /\ Len(w.hashed) <= Sealed(w) + 1
          /\ w.hashed = <<Header>> \o SubSeq(w.lines, 1, Len(w.hashed) - 1)
      BY <1>5, <3>1, <3>2
    <3> QED
      BY <1>7, <3>3 DEF Hashed
  <2>3. Fresh(p)' /\ Locked(p)' /\ Maps(p)'
    BY <1>1, <1>2, <1>5, <1>7 DEF Fresh, Locked, Maps
  <2>4. Saved(p)'
    <3>1. Level(NoManifest) = 0 /\ Level(w) \in 0..(N + 2) /\ N \in Nat
      BY <1>4, Levels, LogAssumption DEF Level, NoManifest
    <3> QED
      BY <1>1, <1>2, <1>5, <1>6, <1>7, <3>1 DEF Saved
  <2> QED
    BY <2>1, <2>2, <2>3, <2>4 DEF Opener
<1>9. Truthful'
  <2>1. Honest(NoManifest)'
    BY DEF Honest
  <2> QED
    BY <1>1, <1>6, <2>1, TruthKept DEF IInv, Truthful
<1>10. Durable'
  BY <1>1, <1>2 DEF Durable
<1>11. /\ recent' \in BOOLEAN /\ looked' \in BOOLEAN /\ promised' \in 0..(N + 2) /\ exclusive' = p
       /\ folder' \in kept' /\ (\A g \in kept' : g \in Folders) /\ folder' \in Folders
       /\ payload' \in Seq(Rows) /\ synced' \in Seq(Rows)
  BY <1>1, <1>2, <1>6 DEF IInv, TypeOK
<1> QED
  BY <1>1, <1>2, <1>7, <1>8, <1>9, <1>10, <1>11, Writes

\* The newly sealed rows are appended.
LEMMA AppendRowsStep == ASSUME IInv, NEW p \in Openers, AppendRows(p) PROVE IInv'
<1> DEFINE w == work[p]
           u == Unsaved(w)
           v == [w EXCEPT !.hashed = @ \o u]
<1>1. /\ at \in [Openers -> Points] /\ work \in [Openers -> Works] /\ w \in Works /\ Opener(p)
      /\ at[p] = "appending" /\ at' = [at EXCEPT ![p] = "syncing"]
      /\ work' = [work EXCEPT ![p].hashed = @ \o u] /\ payload' = payload \o u
      /\ UNCHANGED <<log, synced, folder, kept, recent, looked, exclusive, promised>>
  BY DEF IInv, TypeOK, Works, AppendRows, Goto
<1>2. work' = [work EXCEPT ![p] = v]
  BY <1>1
<1>3. w.journal /\ exclusive = p
  BY <1>1 DEF Opener, Locked
<1>4. /\ w.hashed # <<>> /\ Len(w.hashed) <= Sealed(w) + 1
      /\ w.hashed = <<Header>> \o SubSeq(w.lines, 1, Len(w.hashed) - 1)
      /\ payload = w.hashed /\ folder.lines /\ Level(folder.manifest) <= Level(w)
      /\ w.lines = Parse(0, w.cursor) /\ (w.complete => w.cursor = N) /\ (w.columns => w.complete)
  BY <1>1, <1>3 DEF Opener, Framed, Hashed, Saved
<1> HIDE DEF w
<1> DEFINE h == w.hashed \o u
<1>5. /\ u \in Seq(Rows) /\ h \in Seq(Rows) /\ h # <<>>
      /\ Len(h) = Sealed(w) + 1 /\ h = <<Header>> \o SubSeq(w.lines, 1, Sealed(w))
  BY <1>1, <1>4, Appended
<1> HIDE DEF u
<1>6. /\ v.hashed = h /\ v.lines = w.lines /\ v.cursor = w.cursor /\ v.complete = w.complete
      /\ v.columns = w.columns /\ v.journal
  BY <1>1, <1>3 DEF Works
<1> HIDE DEF h
<1>7. v \in Works
  BY <1>1, <1>5, <1>6 DEF Works
<1> HIDE DEF v
<1>8. at' \in [Openers -> Points] /\ at'[p] = "syncing" /\ work' \in [Openers -> Works] /\ work'[p] = v
      /\ \A q \in Openers \ {p} : at'[q] = at[q] /\ work'[q] = work[q]
  BY <1>1, <1>2, <1>7 DEF Points
<1>9. payload' = h
  BY <1>1, <1>4 DEF h
<1>10. Sealed(v) = Sealed(w) /\ Level(v) = Level(w) /\ Sealed(w) \in Nat
  BY <1>1, <1>6 DEF Sealed, Level, Works
<1>11. Opener(p)'
  <2>1. Framed(p)'
    <3>1. v.lines = Parse(0, v.cursor)
      BY <1>4, <1>6
    <3> QED
      BY <1>1, <1>4, <1>6, <1>8, <3>1, FramedNow
  <2>2. Hashed(p)'
    <3>1. Len(h) - 1 = Sealed(w) /\ Len(h) <= Sealed(w) + 1
      BY <1>5, <1>10
    <3>2. /\ v.hashed # <<>> /\ Len(v.hashed) = Sealed(v) + 1 /\ Len(v.hashed) <= Sealed(v) + 1
          /\ v.hashed = <<Header>> \o SubSeq(v.lines, 1, Len(v.hashed) - 1)
      BY <1>5, <1>6, <1>10, <3>1
    <3> QED
      BY <1>8, <3>2 DEF Hashed
  <2>3. Fresh(p)' /\ Locked(p)' /\ Maps(p)'
    BY <1>1, <1>3, <1>6, <1>8 DEF Fresh, Locked, Maps
  <2>4. Saved(p)'
    <3>1. folder' = folder
      BY <1>1
    <3> QED
      BY <1>4, <1>6, <1>8, <1>9, <1>10, <3>1 DEF Saved
  <2> QED
    BY <2>1, <2>2, <2>3, <2>4 DEF Opener
<1>12. Truthful'
  BY <1>1, TruthKept DEF IInv, Truthful
<1>13. Durable'
  <2>1. ASSUME NEW r \in Seq(Rows), IsPrefix(r, payload) PROVE IsPrefix(r, payload')
    BY <1>1, <1>5, <2>1, PrefixKept, InForce
  <2> QED
    BY <1>1, <2>1, InForce DEF IInv, Durable
<1>14. /\ recent' \in BOOLEAN /\ looked' \in BOOLEAN /\ promised' \in 0..(N + 2) /\ exclusive' = p
       /\ folder' \in kept' /\ (\A g \in kept' : g \in Folders) /\ folder' \in Folders
       /\ payload' \in Seq(Rows) /\ synced' \in Seq(Rows)
  BY <1>1, <1>3, <1>5, <1>9 DEF IInv, TypeOK
<1> QED
  BY <1>1, <1>3, <1>8, <1>11, <1>12, <1>13, <1>14, Writes

\* The payload is synced.
LEMMA SyncStep == ASSUME IInv, NEW p \in Openers, Sync(p) PROVE IInv'
<1>1. /\ at \in [Openers -> Points] /\ work \in [Openers -> Works] /\ Opener(p)
      /\ at[p] = "syncing" /\ at' = [at EXCEPT ![p] = "publishing"] /\ synced' = payload
      /\ UNCHANGED <<log, payload, folder, kept, recent, looked, exclusive, work, promised>>
  BY DEF IInv, TypeOK, Works, Sync, Goto
<1>2. work[p].journal /\ exclusive = p
  BY <1>1 DEF Opener, Locked
<1>3. at' \in [Openers -> Points] /\ at'[p] = "publishing"
      /\ \A q \in Openers \ {p} : at'[q] = at[q] /\ work'[q] = work[q]
  BY <1>1 DEF Points
<1>4. Opener(p)'
  <2>1. Framed(p)'
    BY <1>1, <1>3, FramedNow DEF Opener, Framed
  <2>2. Hashed(p)'
    BY <1>1, <1>3 DEF Opener, Hashed
  <2>3. Fresh(p)' /\ Locked(p)' /\ Maps(p)' /\ Saved(p)'
    BY <1>1, <1>2, <1>3 DEF Opener, Fresh, Locked, Maps, Saved
  <2> QED
    BY <2>1, <2>2, <2>3 DEF Opener
<1>5. Truthful'
  BY <1>1, TruthKept DEF IInv, Truthful
<1>6. Durable'
  BY <1>1 DEF IInv, Durable
<1>7. /\ recent' \in BOOLEAN /\ looked' \in BOOLEAN /\ promised' \in 0..(N + 2) /\ exclusive' = p
      /\ folder' \in kept' /\ (\A g \in kept' : g \in Folders) /\ folder' \in Folders
      /\ payload' \in Seq(Rows) /\ synced' \in Seq(Rows) /\ work' \in [Openers -> Works]
  BY <1>1, <1>2 DEF IInv, TypeOK
<1> QED
  BY <1>1, <1>2, <1>3, <1>4, <1>5, <1>6, <1>7, Writes

\* What is true of an opener about to publish, or that has published.
LEMMA Ready ==
    ASSUME IInv, NEW p \in Openers, at[p] \in {"publishing", "confirming"}
    PROVE  /\ work[p] \in Works /\ work[p].journal /\ exclusive = p /\ folder.lines
           /\ work[p].hashed = payload /\ synced = payload
           /\ ManifestOf(work[p]) \in Manifests /\ Honest(ManifestOf(work[p]))
           /\ ManifestOf(work[p]).rows = payload
           /\ Level(ManifestOf(work[p])) = Level(work[p])
           /\ Level(folder.manifest) <= Level(work[p])
<1> DEFINE w == work[p]
<1>1. w \in Works /\ w.journal /\ exclusive = p
  BY DEF IInv, TypeOK, Works, Opener, Locked
<1>2. /\ w.lines = Parse(0, w.cursor) /\ (w.complete => w.cursor = N) /\ (w.columns => w.complete)
      /\ w.hashed # <<>> /\ Len(w.hashed) = Sealed(w) + 1
      /\ w.hashed = <<Header>> \o SubSeq(w.lines, 1, Len(w.hashed) - 1)
      /\ payload = w.hashed /\ folder.lines /\ synced = payload
      /\ Level(folder.manifest) <= Level(w)
  BY <1>1 DEF IInv, Opener, Framed, Hashed, Saved
<1>3. ManifestOf(w).rows = w.hashed
  BY DEF ManifestOf
<1> HIDE DEF w
<1>4. /\ ManifestOf(w) \in Manifests /\ Honest(ManifestOf(w))
      /\ Level(ManifestOf(w)) = Level(w)
  BY <1>1, <1>2, Published
<1> QED
  BY <1>1, <1>2, <1>3, <1>4 DEF w

\* The manifest is replaced.
LEMMA PublishStep == ASSUME IInv, NEW p \in Openers, Publish(p) PROVE IInv'
<1> DEFINE m == ManifestOf(work[p])
           f == [folder EXCEPT !.manifest = m]
<1>1. /\ at \in [Openers -> Points] /\ work \in [Openers -> Works] /\ Opener(p)
      /\ at[p] = "publishing" /\ at' = [at EXCEPT ![p] = "confirming"]
      /\ folder' = f /\ kept' = kept \cup {f} /\ recent' = TRUE
      /\ UNCHANGED <<log, payload, synced, looked, exclusive, work, promised>>
  BY DEF IInv, TypeOK, Works, Publish, Goto, Names
<1>2. /\ work[p] \in Works /\ work[p].journal /\ exclusive = p /\ folder.lines
      /\ work[p].hashed = payload /\ synced = payload
      /\ m \in Manifests /\ Honest(m) /\ m.rows = payload
      /\ Level(m) = Level(work[p]) /\ Level(folder.manifest) <= Level(m)
  BY <1>1, Ready
<1>3. f \in Folders /\ f.lines /\ f.manifest = m
  BY <1>2, InForce DEF Folders
<1>4. /\ payload \in Seq(Rows) /\ synced \in Seq(Rows) /\ N \in Nat /\ promised \in 0..(N + 2)
      /\ Level(m) \in 0..(N + 2) /\ Level(folder.manifest) \in 0..(N + 2) /\ Level(m) <= Level(m)
  <2>1. payload \in Seq(Rows) /\ synced \in Seq(Rows) /\ folder.manifest \in Manifests
    BY InForce
  <2>2. N \in Nat /\ promised \in 0..(N + 2)
    BY LogAssumption DEF IInv, TypeOK
  <2>3. Level(m) \in 0..(N + 2) /\ Level(folder.manifest) \in 0..(N + 2)
    BY <1>2, <2>1, Levels
  <2>4. Level(m) <= Level(m)
    BY <2>3
  <2> QED
    BY <2>1, <2>2, <2>3, <2>4
<1>5. at' \in [Openers -> Points] /\ at'[p] = "confirming"
      /\ \A q \in Openers \ {p} : at'[q] = at[q] /\ work'[q] = work[q]
  BY <1>1 DEF Points
<1>6. Opener(p)'
  <2>1. Framed(p)'
    BY <1>1, <1>5, FramedNow DEF Opener, Framed
  <2>2. Hashed(p)'
    BY <1>1, <1>5 DEF Opener, Hashed
  <2>3. Fresh(p)' /\ Locked(p)' /\ Maps(p)'
    BY <1>1, <1>2, <1>5 DEF Opener, Fresh, Locked, Maps
  <2>4. Saved(p)'
    <3>1. Level(folder'.manifest) <= Level(work'[p]) /\ folder'.lines /\ folder'.manifest = ManifestOf(work'[p])
      <4> HIDE DEF f
      <4>1. folder'.manifest = m /\ folder'.lines /\ work' = work
        BY <1>1, <1>3
      <4>2. m = ManifestOf(work'[p]) /\ Level(m) <= Level(work'[p])
        BY <1>2, <1>4, <4>1
      <4> QED
        BY <4>1, <4>2
    <3> QED
      BY <1>1, <1>2, <1>5, <3>1 DEF Saved
  <2> QED
    BY <2>1, <2>2, <2>3, <2>4 DEF Opener
<1> HIDE DEF f, m
<1>7. Truthful'
  BY <1>1, <1>2, <1>3, TruthKept DEF IInv, Truthful
<1>8. Durable'
  <2>1. SUFFICES ASSUME promised > 0, NEW g \in kept \cup {f}
                 PROVE  /\ g.lines /\ g.manifest # NoManifest /\ Level(g.manifest) >= promised
                        /\ IsPrefix(g.manifest.rows, payload)
                        /\ IsPrefix(g.manifest.rows, synced)
                        /\ IsPrefix(g.manifest.rows, m.rows)
    BY <1>1, <1>3 DEF Durable
  <2>2. \A k \in kept :
           /\ k.lines /\ k.manifest # NoManifest /\ Level(k.manifest) >= promised
           /\ IsPrefix(k.manifest.rows, payload) /\ IsPrefix(k.manifest.rows, synced)
    BY <2>1 DEF IInv, Durable
  <2>3. CASE g \in kept
    BY <1>2, <2>2, <2>3
  <2>4. CASE g = f
    <3>1. Level(folder.manifest) >= promised
      BY <2>2 DEF IInv, TypeOK
    <3>2. Level(m) >= promised /\ Level(m) > 0
      BY <1>2, <1>4, <2>1, <3>1
    <3>3. m # NoManifest
      BY <1>2, <3>2, Levels
    <3>4. IsPrefix(payload, payload)
      BY <1>4, PrefixKept
    <3> QED
      BY <1>2, <1>3, <2>4, <3>2, <3>3, <3>4
  <2> QED
    BY <2>1, <2>3, <2>4
<1>9. /\ recent' \in BOOLEAN /\ looked' \in BOOLEAN /\ promised' \in 0..(N + 2) /\ exclusive' = p
      /\ folder' \in kept' /\ (\A g \in kept' : g \in Folders) /\ folder' \in Folders
      /\ payload' \in Seq(Rows) /\ synced' \in Seq(Rows) /\ work' \in [Openers -> Works]
  BY <1>1, <1>2, <1>3, <1>4 DEF IInv, TypeOK
<1> QED
  BY <1>1, <1>2, <1>5, <1>6, <1>7, <1>8, <1>9, Writes

\* The directory is synced.
LEMMA ConfirmStep == ASSUME IInv, NEW p \in Openers, Confirm(p) PROVE IInv'
<1> DEFINE w == work[p]
           m == folder.manifest
<1>1. /\ at \in [Openers -> Points] /\ work \in [Openers -> Works] /\ Opener(p)
      /\ at[p] = "confirming" /\ at' = [at EXCEPT ![p] = Stage(w)]
      /\ kept' = {folder} /\ promised' = Level(m)
      /\ UNCHANGED <<log, payload, synced, folder, recent, looked, exclusive, work>>
  BY DEF IInv, TypeOK, Works, Confirm, Goto
<1>2. /\ w \in Works /\ w.journal /\ exclusive = p /\ folder.lines
      /\ w.hashed = payload /\ synced = payload /\ m = ManifestOf(w)
      /\ m \in Manifests /\ Honest(m) /\ m.rows = payload /\ Level(m) = Level(w)
      /\ Level(m) <= Level(w)
  BY <1>1, Ready DEF Opener, Saved
<1>3. /\ payload \in Seq(Rows) /\ synced \in Seq(Rows) /\ Level(m) \in 0..(N + 2) /\ Level(m) >= Level(m)
      /\ (Level(m) > 0 => m # NoManifest) /\ IsPrefix(payload, payload)
  <2>1. payload \in Seq(Rows) /\ synced \in Seq(Rows) /\ m \in Manifests
    BY InForce
  <2>2. Level(m) \in 0..(N + 2) /\ (Level(m) > 0 => m # NoManifest)
    BY <2>1, Levels
  <2>3. Level(m) >= Level(m)
    BY <2>2, LogAssumption
  <2> QED
    BY <2>1, <2>2, <2>3, PrefixKept
<1>4. at' \in [Openers -> Points] /\ at'[p] \in {"scanning", "discovering", "closing"}
      /\ (at'[p] = "discovering" => w.complete)
      /\ \A q \in Openers \ {p} : at'[q] = at[q] /\ work'[q] = work[q]
  BY <1>1 DEF Stage, Points
<1>5. Opener(p)'
  <2>1. Framed(p)'
    BY <1>1, <1>4, FramedNow DEF Opener, Framed
  <2>2. Hashed(p)'
    BY <1>1, <1>4 DEF Opener, Hashed
  <2>3. Fresh(p)' /\ Locked(p)' /\ Maps(p)' /\ Saved(p)'
    BY <1>1, <1>2, <1>4 DEF Opener, Fresh, Locked, Maps, Saved
  <2> QED
    BY <2>1, <2>2, <2>3 DEF Opener
<1> HIDE DEF w, m
<1>6. Truthful'
  BY <1>1, <1>2, TruthKept DEF Truthful, m
<1>7. Durable'
  <2>1. folder' = folder /\ folder.manifest = m
    BY <1>1 DEF m
  <2> QED
    BY <1>1, <1>2, <1>3, <2>1 DEF Durable
<1>8. /\ recent' \in BOOLEAN /\ looked' \in BOOLEAN /\ promised' \in 0..(N + 2) /\ exclusive' = p
      /\ folder' \in kept' /\ (\A g \in kept' : g \in Folders) /\ folder' \in Folders
      /\ payload' \in Seq(Rows) /\ synced' \in Seq(Rows) /\ work' \in [Openers -> Works]
  BY <1>1, <1>2, <1>3 DEF IInv, TypeOK
<1> QED
  BY <1>1, <1>2, <1>4, <1>5, <1>6, <1>7, <1>8, Writes

\* A checkpoint fails, part of the rows appended.
LEMMA JournalFailsStep == ASSUME IInv, NEW p \in Openers, JournalFails(p) PROVE IInv'
<1> DEFINE w == work[p]
           v == [w EXCEPT !.journal = FALSE, !.hashed = <<>>]
           parts == IF at[p] = "appending" THEN Prefixes(Unsaved(w)) ELSE {<<>>}
           tears == IF at[p] = "appending" THEN {<<>>, <<Torn>>} ELSE {<<>>}
<1>1. /\ at \in [Openers -> Points] /\ work \in [Openers -> Works] /\ Opener(p)
      /\ at[p] \in {"appending", "syncing", "publishing", "confirming"}
      /\ at' = [at EXCEPT ![p] = Stage(w)]
      /\ work' = [work EXCEPT ![p].journal = FALSE, ![p].hashed = <<>>]
      /\ exclusive' = Nobody
      /\ UNCHANGED <<log, synced, folder, kept, recent, looked, promised>>
  BY DEF IInv, TypeOK, Works, JournalFails
<1>2. PICK part \in parts, torn \in tears : payload' = payload \o part \o torn
  BY DEF JournalFails
<1>3. w \in Works /\ w.journal /\ exclusive = p /\ work' = [work EXCEPT ![p] = v]
  BY <1>1 DEF Opener, Locked
<1>4. /\ w.hashed # <<>> /\ Len(w.hashed) <= Sealed(w) + 1
      /\ w.hashed = <<Header>> \o SubSeq(w.lines, 1, Len(w.hashed) - 1)
      /\ w.lines = Parse(0, w.cursor) /\ (w.complete => w.cursor = N) /\ (w.columns => w.complete)
  BY <1>1, <1>3 DEF Opener, Framed, Hashed
<1>5. part \in Seq(Rows) /\ torn \in Seq(Rows)
  <2>1. <<>> \in Seq(Rows) /\ <<Torn>> \in Seq(Rows)
    BY Values
  <2>2. Unsaved(w) \in Seq(Rows)
    <3> HIDE DEF w
    <3> QED
      BY <1>3, <1>4, Appended
  <2>3. Prefixes(Unsaved(w)) \subseteq Seq(Rows)
    <3> DEFINE u == Unsaved(w)
    <3>1. ASSUME NEW l \in 0..Len(u) PROVE SubSeq(u, 1, l) \in Seq(Rows)
      <4>1. \A i \in 1..l : u[i] \in Rows
        BY <2>2
      <4> HIDE DEF u
      <4> QED
        BY <4>1, SubSeqProperties
    <3> QED
      BY <3>1 DEF Prefixes
  <2> QED
    BY <2>1, <2>3
<1>6. /\ v \in Works /\ v.lines = w.lines /\ v.cursor = w.cursor /\ v.complete = w.complete
      /\ v.columns = w.columns /\ ~v.journal
  BY <1>3, Values DEF Works
<1>7. at' \in [Openers -> Points] /\ at'[p] \in {"scanning", "discovering", "closing"}
      /\ (at'[p] = "discovering" => w.complete)
  BY <1>1 DEF Stage, Points
<1> HIDE DEF v, w
<1>8. work' \in [Openers -> Works] /\ work'[p] = v
      /\ \A q \in Openers \ {p} : at'[q] = at[q] /\ work'[q] = work[q]
  BY <1>1, <1>3, <1>6
<1>9. Opener(p)'
  <2>1. Framed(p)'
    <3>1. v.lines = Parse(0, v.cursor)
      BY <1>4, <1>6
    <3> QED
      BY <1>1, <1>4, <1>6, <1>7, <1>8, <3>1, FramedNow
  <2>2. Fresh(p)' /\ Locked(p)' /\ Maps(p)' /\ Hashed(p)' /\ Saved(p)'
    BY <1>6, <1>7, <1>8 DEF Fresh, Locked, Maps, Hashed, Saved
  <2> QED
    BY <2>1, <2>2 DEF Opener
<1>10. Truthful'
  BY <1>1, TruthKept DEF IInv, Truthful
<1>11. payload \in Seq(Rows) /\ payload \o part \in Seq(Rows) /\ payload' \in Seq(Rows)
  BY <1>2, <1>5, InForce
<1>12. Durable'
  <2>1. ASSUME NEW r \in Seq(Rows), IsPrefix(r, payload) PROVE IsPrefix(r, payload')
    <3>1. IsPrefix(r, payload \o part)
      BY <1>5, <1>11, <2>1, PrefixKept
    <3> QED
      BY <1>2, <1>5, <1>11, <3>1, PrefixKept
  <2> QED
    BY <1>1, <2>1, InForce DEF IInv, Durable
<1>13. /\ recent' \in BOOLEAN /\ looked' \in BOOLEAN /\ promised' \in 0..(N + 2)
       /\ exclusive' \in Openers \cup {Pruner, Nobody}
       /\ folder' \in kept' /\ (\A g \in kept' : g \in Folders) /\ folder' \in Folders
       /\ synced' \in Seq(Rows)
  BY <1>1 DEF IInv, TypeOK
<1> QED
  BY <1>1, <1>3, <1>7, <1>8, <1>9, <1>10, <1>11, <1>12, <1>13, Writes

\* What the clean-up does before it removes anything.
LEMMA LookStep == ASSUME IInv, Age \/ PruneLook \/ PruneLock PROVE IInv'
<1>1. /\ UNCHANGED <<log, payload, synced, folder, kept, at, work, promised>>
      /\ recent' \in BOOLEAN /\ looked' \in BOOLEAN
      /\ exclusive' = exclusive \/ (Free /\ exclusive' = Pruner)
  BY DEF IInv, TypeOK, Age, PruneLook, PruneLock, disk
<1>2. TypeOK'
  BY <1>1 DEF IInv, TypeOK, Free, Sharing
<1>3. ASSUME NEW q \in Openers PROVE Opener(q)'
  <2>1. exclusive = q => exclusive' = q
    BY <1>1, ActorAssumption DEF Free
  <2> QED
    BY <1>1, <2>1, Still DEF IInv
<1>4. Truthful'
  BY <1>1, TruthKept DEF IInv, Truthful
<1>5. Durable'
  BY <1>1 DEF IInv, Durable
<1> QED
  BY <1>2, <1>3, <1>4, <1>5 DEF IInv

\* The clean-up removes a file of an old entry, or leaves a recent one alone.
LEMMA PruneStep == ASSUME IInv, Prune PROVE IInv'
<1>1. /\ exclusive = Pruner /\ exclusive' = Nobody /\ looked' = FALSE
      /\ UNCHANGED <<log, payload, synced, recent, at, work>>
      /\ \/ UNCHANGED <<folder, kept, promised>>
         \/ /\ folder' = [folder EXCEPT !.lines = FALSE] /\ kept' = kept \cup {folder'} /\ promised' = 0
         \/ /\ folder' = [folder EXCEPT !.manifest = NoManifest] /\ kept' = kept \cup {folder'}
            /\ promised' = 0
  BY DEF Prune, Removes, Names
<1>2. folder' \in Folders /\ folder' \in kept' /\ \A f \in kept' : f \in Folders
  BY <1>1, InForce, Values, ZenonT(60) DEF IInv, TypeOK, Folders
<1>3. Honest(NoManifest)
  BY DEF Honest
<1>4. Truthful'
  <2>1. ASSUME NEW f \in kept' PROVE Honest(f.manifest)
    <3>1. CASE f \in kept
      BY <3>1 DEF IInv, Truthful
    <3>2. CASE f \notin kept
      <4>1. f = folder' /\ (f.manifest = folder.manifest \/ f.manifest = NoManifest)
        BY <1>1, <3>2, InForce DEF Folders
      <4> QED
        BY <1>3, <4>1, InForce
    <3> QED
      BY <3>1, <3>2
  <2> QED
    BY <1>1, <2>1, TruthKept DEF Truthful
<1>5. Durable'
  BY <1>1 DEF IInv, Durable
<1>6. at' \in [Openers -> Points] /\ work' \in [Openers -> Works] /\ Pruner \notin Openers
      /\ \A q \in Openers : at'[q] = at[q] /\ work'[q] = work[q]
  BY <1>1, ActorAssumption DEF IInv, TypeOK, Works
<1>7. /\ recent' \in BOOLEAN /\ looked' \in BOOLEAN /\ promised' \in 0..(N + 2)
      /\ payload' \in Seq(Rows) /\ synced' \in Seq(Rows)
  <2>1. 0 \in 0..(N + 2)
    BY LogAssumption
  <2>2. recent \in BOOLEAN /\ promised \in 0..(N + 2) /\ payload \in Seq(Rows) /\ synced \in Seq(Rows)
    BY DEF IInv, TypeOK
  <2>3. promised' = promised \/ promised' = 0
    BY <1>1
  <2> QED
    BY <1>1, <2>1, <2>2, <2>3
<1> QED
  BY <1>1, <1>2, <1>4, <1>5, <1>6, <1>7, Writes

\* The longest common prefix of two sequences is a prefix of both, and has every
\* prefix of both as a prefix.
LEMMA Common ==
    ASSUME NEW s \in Seq(Rows), NEW t \in Seq(Rows), NEW r \in Seq(Rows),
           IsPrefix(r, s), IsPrefix(r, t)
    PROVE  LET c == LongestCommonPrefix({s, t})
           IN  c \in Seq(Rows) /\ IsPrefix(c, s) /\ IsPrefix(c, t) /\ IsPrefix(r, c)
<1> DEFINE C == CommonPrefixes({s, t})
           c == LongestCommonPrefix({s, t})
<1>1. ASSUME NEW x \in Seq(Rows), NEW l \in 0..Len(x)
      PROVE  SubSeq(x, 1, l) \in Seq(Rows) /\ Len(SubSeq(x, 1, l)) = l
             /\ \A i \in 1..l : SubSeq(x, 1, l)[i] = x[i]
  OBVIOUS
<1>2. ASSUME NEW d \in C PROVE d \in Seq(Rows) /\ Len(d) \in 0..Len(s) /\ IsPrefix(d, s) /\ IsPrefix(d, t)
  <2>1. IsPrefix(d, s) /\ IsPrefix(d, t) /\ d \in Prefixes(s) \cup Prefixes(t)
    BY DEF CommonPrefixes
  <2>2. d \in Seq(Rows)
    BY <1>1, <2>1 DEF Prefixes
  <2> QED
    BY <2>1, <2>2, PrefixIs
<1>3. r \in C
  <2>1. Len(r) \in 0..Len(s) /\ r = SubSeq(s, 1, Len(r))
    <3>1. Len(r) \in 0..Len(s) /\ \A i \in 1..Len(r) : r[i] = s[i]
      BY PrefixIs
    <3>2. SubSeq(s, 1, Len(r)) \in Seq(Rows) /\ Len(SubSeq(s, 1, Len(r))) = Len(r)
          /\ \A i \in 1..Len(r) : SubSeq(s, 1, Len(r))[i] = s[i]
      BY <1>1, <3>1
    <3> QED
      BY <3>1, <3>2, SeqEqual
  <2>2. r \in Prefixes(s)
    BY <2>1 DEF Prefixes
  <2> QED
    BY <2>2 DEF CommonPrefixes
<1> HIDE DEF C
<1>4. \E d \in C : \A o \in C : Len(o) <= Len(d)
  <2> DEFINE L == {Len(d) : d \in C}
  <2>1. Len(s) \in Nat /\ L \in SUBSET (0..Len(s)) /\ L # {}
    <3>1. \A d \in C : Len(d) \in 0..Len(s)
      BY <1>2
    <3>2. Len(s) \in Nat /\ Len(r) \in L
      BY <1>3
    <3>3. L \in SUBSET (0..Len(s))
      BY <3>1
    <3> QED
      BY <3>2, <3>3
  <2>2. PICK l \in L : \A k \in L : k <= l
    <3> HIDE DEF L
    <3> QED
      BY <2>1, Greatest
  <2> QED
    BY <2>2
<1>5. c \in C /\ \A o \in C : Len(o) <= Len(c)
  <2>1. c = CHOOSE d \in C : \A o \in C : Len(o) <= Len(d)
    BY DEF LongestCommonPrefix, C
  <2> HIDE DEF c
  <2> QED
    BY <1>4, <2>1
<1> HIDE DEF c
<1>6. c \in Seq(Rows) /\ IsPrefix(c, s) /\ IsPrefix(c, t) /\ Len(r) <= Len(c)
  BY <1>2, <1>3, <1>5
<1>7. IsPrefix(r, c)
  <2>1. /\ Len(c) <= Len(s) /\ \A i \in 1..Len(c) : c[i] = s[i]
        /\ \A i \in 1..Len(r) : r[i] = s[i]
    BY <1>6, PrefixIs
  <2>2. \A i \in 1..Len(r) : i \in 1..Len(c)
    BY <1>6
  <2>3. \A i \in 1..Len(r) : r[i] = c[i]
    BY <2>1, <2>2
  <2> QED
    BY <1>6, <2>3, PrefixIs
<1> QED
  BY <1>6, <1>7 DEF c

\* What a loss of power leaves of the payload begins with what both the file and
\* its last synced state begin with.
LEMMA Survived ==
    ASSUME payload \in Seq(Rows), synced \in Seq(Rows), NEW x \in Survivors
    PROVE  /\ x \in Seq(Rows)
           /\ \A r \in Seq(Rows) : IsPrefix(r, payload) /\ IsPrefix(r, synced) => IsPrefix(r, x)
<1> DEFINE same == LongestCommonPrefix({payload, synced})
           newer == {y \in Prefixes(payload) : IsPrefix(same, y)}
<1>1. /\ same \in Seq(Rows) /\ IsPrefix(same, payload) /\ IsPrefix(same, synced)
      /\ \A r \in Seq(Rows) : IsPrefix(r, payload) /\ IsPrefix(r, synced) => IsPrefix(r, same)
  <2>1. <<>> \in Seq(Rows) /\ IsPrefix(<<>>, payload) /\ IsPrefix(<<>>, synced)
    <3>1. <<>> \in Seq(Rows) /\ Len(<<>>) = 0
      OBVIOUS
    <3>2. \A t \in Seq(Rows) : Len(<<>>) <= Len(t) /\ \A i \in 1..Len(<<>>) : <<>>[i] = t[i]
      BY <3>1
    <3>3. \A t \in Seq(Rows) : IsPrefix(<<>>, t)
      BY <3>1, <3>2, PrefixIs
    <3> QED
      BY <3>1, <3>3
  <2> QED
    BY <2>1, Common
<1>2. x \in newer \/ (\E y \in newer \ {same} : x = [y EXCEPT ![Len(y)] = Torn]) \/ x = synced
  BY DEF Survivors
<1>3. ASSUME NEW y \in newer PROVE y \in Seq(Rows) /\ IsPrefix(same, y)
  <2>1. PICK l \in 0..Len(payload) : y = SubSeq(payload, 1, l)
    BY DEF Prefixes
  <2>2. y \in Seq(Rows)
    BY <2>1
  <2> QED
    BY <2>2
<1> HIDE DEF newer
<1>4. x \in Seq(Rows) /\ IsPrefix(same, x)
  <2>1. CASE x \in newer
    BY <1>3, <2>1
  <2>2. CASE x = synced
    BY <1>1, <2>2
  <2>3. ASSUME NEW y \in newer \ {same}, x = [y EXCEPT ![Len(y)] = Torn]
        PROVE  x \in Seq(Rows) /\ IsPrefix(same, x)
    <3> HIDE DEF same
    <3>1. /\ y \in Seq(Rows) /\ Len(same) <= Len(y) /\ Len(same) \in Nat /\ Len(y) \in Nat
          /\ \A i \in 1..Len(same) : same[i] = y[i]
      BY <1>1, <1>3, <2>3, PrefixIs
    <3>2. Len(same) # Len(y)
      BY <1>1, <2>3, <3>1, SeqEqual
    <3>3. Len(y) \in 1..Len(y)
      BY <3>1, <3>2
    <3>4. /\ x \in Seq(Rows) /\ Len(x) = Len(y)
          /\ \A i \in 1..Len(y) : x[i] = IF i = Len(y) THEN Torn ELSE y[i]
      BY <2>3, <3>1, <3>3, Values, ExceptSeq
    <3>5. \A i \in 1..Len(same) : i \in 1..Len(y) /\ i # Len(y)
      BY <3>1, <3>2
    <3>6. \A i \in 1..Len(same) : same[i] = x[i]
      BY <3>1, <3>4, <3>5
    <3> QED
      BY <1>1, <3>1, <3>4, <3>6, PrefixIs
  <2> QED
    BY <1>2, <2>1, <2>2, <2>3
<1> HIDE DEF same
<1>5. \A r \in Seq(Rows) : IsPrefix(r, payload) /\ IsPrefix(r, synced) => IsPrefix(r, x)
  BY <1>1, <1>4, PrefixKept
<1> QED
  BY <1>4, <1>5

\* The machine loses power.
LEMMA PowerLossStep == ASSUME IInv, PowerLoss PROVE IInv'
<1>1. /\ folder' \in [manifest : {f.manifest : f \in kept}, lines : {f.lines : f \in kept}]
      /\ payload' \in (IF folder'.lines THEN Survivors ELSE {<<>>})
      /\ synced' = payload' /\ kept' = {folder'} /\ exclusive' = Nobody /\ looked' = FALSE
      /\ at' = [p \in Openers |-> "idle"] /\ work' = [p \in Openers |-> NoWork]
      /\ UNCHANGED <<log, recent, promised>>
  BY DEF PowerLoss
<1>2. PICK f \in kept, g \in kept : folder' = [manifest |-> f.manifest, lines |-> g.lines]
  BY <1>1
<1>3. /\ f \in Folders /\ g \in Folders /\ folder' \in Folders
      /\ folder'.manifest = f.manifest /\ folder'.lines = g.lines
      /\ payload \in Seq(Rows) /\ synced \in Seq(Rows) /\ f.manifest.rows \in Seq(Rows)
  BY <1>2, InForce DEF Folders
<1>4. payload' \in Seq(Rows)
  BY <1>1, <1>3, Survived, Values
<1>5. TypeOK'
  <2>1. at' \in [Openers -> Points] /\ work' \in [Openers -> Works]
    BY <1>1, Values DEF Points
  <2> QED
    BY <1>1, <1>3, <1>4, <2>1 DEF IInv, TypeOK, Works
<1>6. ASSUME NEW q \in Openers PROVE Opener(q)'
  BY <1>1, Rests
<1>7. Truthful'
  <2>1. Honest(f.manifest)
    BY DEF IInv, Truthful
  <2> QED
    BY <1>1, <1>3, <2>1, TruthKept DEF Truthful
<1>8. Durable'
  <2>1. SUFFICES ASSUME promised > 0
                 PROVE  /\ folder'.lines /\ folder'.manifest # NoManifest
                        /\ Level(folder'.manifest) >= promised
                        /\ IsPrefix(folder'.manifest.rows, payload')
                        /\ IsPrefix(folder'.manifest.rows, folder'.manifest.rows)
    BY <1>1 DEF Durable
  <2>2. /\ g.lines /\ f.manifest # NoManifest /\ Level(f.manifest) >= promised
        /\ IsPrefix(f.manifest.rows, payload) /\ IsPrefix(f.manifest.rows, synced)
    BY <2>1 DEF IInv, Durable
  <2>3. payload' \in Survivors
    BY <1>1, <1>3, <2>2
  <2>4. IsPrefix(f.manifest.rows, payload')
    BY <1>3, <2>2, <2>3, Survived
  <2>5. IsPrefix(f.manifest.rows, f.manifest.rows)
    BY <1>3, PrefixKept
  <2> QED
    BY <1>3, <2>2, <2>4, <2>5
<1> QED
  BY <1>5, <1>6, <1>7, <1>8 DEF IInv

-----------------------------------------------------------------------------
(* The theorems.                                                           *)

\* The initial states satisfy the invariant.
LEMMA InitInv == Init => IInv
<1> SUFFICES ASSUME Init PROVE IInv
  OBVIOUS
<1>1. folder \in Folders /\ folder.manifest = NoManifest
  BY Values DEF Init, Folders
<1>2. TypeOK
  <2>1. at \in [Openers -> Points] /\ work \in [Openers -> Works]
    BY Values DEF Init, Points
  <2>2. promised \in 0..(N + 2)
    BY LogAssumption DEF Init
  <2> QED
    BY <1>1, <2>1, <2>2, Values DEF Init, TypeOK, Works
<1>3. ASSUME NEW q \in Openers PROVE Opener(q)
  <2>1. at[q] = "idle" /\ work[q] = NoWork
    BY DEF Init
  <2>2. Framed(q)
    BY <2>1, Values DEF Framed, NoWork
  <2> QED
    BY <2>1, <2>2 DEF Opener, Fresh, Locked, Hashed, Maps, Saved, NoWork
<1>4. Truthful
  BY <1>1 DEF Init, Truthful, Honest
<1>5. Durable
  BY DEF Init, Durable
<1> QED
  BY <1>2, <1>3, <1>4, <1>5 DEF IInv

\* Every step keeps the invariant.
LEMMA StepInv == IInv /\ [Next]_vars => IInv'
<1> SUFFICES ASSUME IInv, [Next]_vars PROVE IInv'
  OBVIOUS
<1>1. ASSUME NEW p \in Openers, Step(p) PROVE IInv'
  <2>1. CASE OpenComplete(p)
    BY <2>1, OpenCompleteStep
  <2>2. CASE Acquire(p)
    BY <2>2, AcquireStep
  <2>3. CASE Busy(p)
    BY <2>3, BusyStep
  <2>4. CASE Unavailable(p)
    BY <2>4, UnavailableStep
  <2>5. CASE Restore(p)
    BY <2>5, RestoreStep
  <2>6. CASE ResetPayload(p)
    BY <2>6, ResetPayloadStep
  <2>7. CASE ResetManifest(p)
    BY <2>7, ResetManifestStep
  <2>8. CASE Scan(p)
    BY <2>8, ScanStep
  <2>9. CASE Discover(p)
    BY <2>9, DiscoverStep
  <2>10. CASE AppendRows(p)
    BY <2>10, AppendRowsStep
  <2>11. CASE Sync(p)
    BY <2>11, SyncStep
  <2>12. CASE Publish(p)
    BY <2>12, PublishStep
  <2>13. CASE Confirm(p)
    BY <2>13, ConfirmStep
  <2>14. CASE JournalFails(p)
    BY <2>14, JournalFailsStep
  <2>15. CASE Close(p) \/ Stop(p)
    BY <2>15, StopStep
  <2> QED
    BY <1>1, <2>1, <2>2, <2>3, <2>4, <2>5, <2>6, <2>7, <2>8, <2>9, <2>10, <2>11, <2>12,
       <2>13, <2>14, <2>15 DEF Step
<1>2. CASE Age \/ PruneLook \/ PruneLock
  BY <1>2, LookStep
<1>3. CASE Prune
  BY <1>3, PruneStep
<1>4. CASE PowerLoss
  BY <1>4, PowerLossStep
<1>5. CASE UNCHANGED vars
  <2>1. ASSUME NEW q \in Openers PROVE Opener(q)'
    BY <1>5, Still DEF IInv, vars, disk
  <2>2. Truthful'
    BY <1>5, TruthKept DEF IInv, Truthful, vars, disk
  <2>3. TypeOK' /\ Durable'
    BY <1>5 DEF IInv, TypeOK, Sharing, Durable, vars, disk
  <2> QED
    BY <2>1, <2>2, <2>3 DEF IInv
<1> QED
  BY <1>1, <1>2, <1>3, <1>4, <1>5 DEF Next

\* What holds in every reachable state.
THEOREM CheckpointInvariantHolds == Spec => []IInv
  BY InitInv, StepInv, PTL DEF Spec

\* The types, and that the lock file is exclusive or shared.
THEOREM CheckpointTypeCorrect == Spec => []TypeOK
<1>1. IInv => TypeOK
  BY DEF IInv
<1> QED
  BY <1>1, CheckpointInvariantHolds, PTL

\* Whatever the waves and their chunks, the checkpoints resumed from, the
\* failures and the losses of power, an opener has the rows of one reading of
\* the log.
THEOREM ScanAlwaysExact == Spec => []ScanExact
<1>1. IInv => ScanExact
  BY DEF IInv, Opener, Framed, ScanExact
<1> QED
  BY <1>1, CheckpointInvariantHolds, PTL

\* Mapped rows stay in the file as they are while they are mapped.
THEOREM MappedAlwaysIntact == Spec => []MappedIntact
<1>1. IInv => MappedIntact
  BY DEF IInv, Opener, Maps, MappedIntact, Sharing
<1> QED
  BY <1>1, CheckpointInvariantHolds, PTL

-----------------------------------------------------------------------------
(* Saved progress.                                                         *)

\* How far an opener would find is a number.
LEMMA FoundNumber ==
    ASSUME IInv
    PROVE  /\ Found \in 0..(N + 2) /\ N \in Nat
           /\ Found > 0 => Valid /\ Found = Level(folder.manifest)
                           /\ \A q \in Openers : at[q] # "resetting"
<1>1. Level(folder.manifest) \in 0..(N + 2) /\ N \in Nat
  BY InForce, Levels, LogAssumption
<1> QED
  BY <1>1 DEF Found

\* A step after which the manifest is in force as it was, or a better one, loses
\* nothing.
LEMMA FoundKept ==
    ASSUME IInv, IInv',
           Found > 0 => /\ Valid' /\ Level(folder'.manifest) >= Level(folder.manifest)
                        /\ \A q \in Openers : at'[q] # "resetting"
    PROVE  Found' >= Found
<1>1. /\ Found \in 0..(N + 2) /\ N \in Nat
      /\ Found > 0 => Found = Level(folder.manifest)
  BY FoundNumber
<1>2. Found' \in 0..(N + 2)
  <2>1. folder'.manifest \in Manifests
    BY DEF IInv, TypeOK, Folders
  <2>2. Level(folder'.manifest) \in 0..(N + 2)
    BY <2>1, Levels
  <2> QED
    BY <1>1, <2>2 DEF Found
<1>3. CASE Found > 0
  <2>1. Found' = Level(folder'.manifest)
    BY <1>3 DEF Found
  <2> QED
    BY <1>1, <1>3, <2>1
<1>4. CASE ~(Found > 0)
  BY <1>1, <1>2, <1>4
<1> QED
  BY <1>3, <1>4

\* Saving, or a step that does not touch what is saved.
LEMMA Saving ==
    ASSUME IInv, IInv', UNCHANGED promised, recent' \in {recent, TRUE},
           Found > 0 => /\ Valid' /\ Level(folder'.manifest) >= Level(folder.manifest)
                        /\ \A q \in Openers : at'[q] # "resetting"
    PROVE  [Progress!Next(PowerLoss)]_<<Progress!vars>>
<1>1. Found' >= Found
  BY FoundKept
<1> QED
  BY <1>1 DEF Progress!Next, Progress!Save

\* A step of an opener that changes neither the payload nor the directory, and
\* resets nothing.
LEMMA Passing ==
    ASSUME IInv, IInv', UNCHANGED <<payload, folder, promised>>, recent' \in {recent, TRUE},
           \A q \in Openers : at'[q] = "resetting" => at[q] = "resetting"
    PROVE  [Progress!Next(PowerLoss)]_<<Progress!vars>>
<1>1. ASSUME Found > 0
      PROVE  /\ Valid' /\ Level(folder'.manifest) >= Level(folder.manifest)
             /\ \A q \in Openers : at'[q] # "resetting"
  <2>1. /\ Valid /\ Level(folder.manifest) \in 0..(N + 2) /\ N \in Nat
        /\ \A q \in Openers : at[q] # "resetting"
    BY <1>1, FoundNumber, InForce, Levels
  <2>2. Valid' /\ folder' = folder
    BY <2>1 DEF Valid
  <2> QED
    BY <2>1, <2>2
<1> QED
  BY <1>1, Saving

\* Every step of an opener saves, or reports what was saved.
LEMMA OpenerProgress ==
    ASSUME IInv, IInv', NEW p \in Openers, Step(p)
    PROVE  [Progress!Next(PowerLoss)]_<<Progress!vars>>
<1>0. at \in [Openers -> Points] /\ Opener(p) /\ payload \in Seq(Rows) /\ folder.manifest.rows \in Seq(Rows)
      /\ recent \in {recent, TRUE}
  BY InForce DEF IInv, TypeOK, Manifests
<1>1. ASSUME OpenComplete(p) \/ Acquire(p) \/ Busy(p) \/ Unavailable(p) \/ Close(p) \/ Stop(p)
      PROVE  [Progress!Next(PowerLoss)]_<<Progress!vars>>
  <2>1. UNCHANGED <<payload, folder, promised, recent>>
        /\ \A q \in Openers : at'[q] = "resetting" => at[q] = "resetting"
    BY <1>0, <1>1 DEF OpenComplete, Acquire, Busy, Unavailable, Close, Stop, Goto, disk
  <2> QED
    BY <2>1, Passing
<1>2. ASSUME Scan(p) \/ Discover(p) PROVE [Progress!Next(PowerLoss)]_<<Progress!vars>>
  <2>1. UNCHANGED <<payload, folder, promised, recent>>
    BY <1>2 DEF Scan, Discover, disk
  <2>2. \A q \in Openers : at'[q] = "resetting" => at[q] = "resetting"
    <3>1. \A w : Saves(w) # "resetting"
      BY DEF Saves, Stage
    <3>2. \E w : at' = [at EXCEPT ![p] = Saves(w)] \/ at' = [at EXCEPT ![p] = "scanning"]
      <4>1. CASE Scan(p)
        BY <4>1 DEF Scan, Goto
      <4>2. CASE Discover(p)
        BY <4>2 DEF Discover, Goto
      <4> QED
        BY <1>2, <4>1, <4>2
    <3> QED
      BY <1>0, <3>1, <3>2
  <2> QED
    BY <2>1, <2>2, Passing
<1>3. ASSUME Sync(p) PROVE [Progress!Next(PowerLoss)]_<<Progress!vars>>
  <2>1. UNCHANGED <<payload, folder, promised, recent>>
        /\ \A q \in Openers : at'[q] = "resetting" => at[q] = "resetting"
    BY <1>0, <1>3 DEF Sync, Goto
  <2> QED
    BY <2>1, Passing
<1>4. ASSUME Restore(p) PROVE [Progress!Next(PowerLoss)]_<<Progress!vars>>
  <2>1. /\ Valid /\ payload' = folder.manifest.rows /\ UNCHANGED <<folder, promised, recent>>
        /\ at[p] = "restoring" /\ at'[p] # "resetting"
        /\ \A q \in Openers \ {p} : at'[q] = at[q]
    BY <1>0, <1>4 DEF Restore, Goto, Stage
  <2>2. ASSUME Found > 0
        PROVE  /\ Valid' /\ Level(folder'.manifest) >= Level(folder.manifest)
               /\ \A q \in Openers : at'[q] # "resetting"
    <3>1. IsPrefix(folder.manifest.rows, folder.manifest.rows)
      BY <1>0, PrefixKept
    <3>2. Level(folder.manifest) \in 0..(N + 2) /\ N \in Nat /\ \A q \in Openers : at[q] # "resetting"
      BY <2>2, FoundNumber, InForce, Levels
    <3> QED
      BY <2>1, <3>1, <3>2 DEF Valid
  <2> QED
    BY <2>1, <2>2, Saving
<1>5. ASSUME ResetPayload(p) \/ ResetManifest(p) PROVE [Progress!Next(PowerLoss)]_<<Progress!vars>>
  <2>1. ~Valid \/ at[p] = "resetting"
    BY <1>5 DEF ResetPayload, ResetManifest, Goto
  <2>2. ~(Found > 0)
    BY <2>1, FoundNumber
  <2>3. UNCHANGED <<promised, recent>>
    BY <1>5 DEF ResetPayload, ResetManifest
  <2> QED
    BY <2>2, <2>3, Saving
<1>6. ASSUME AppendRows(p) \/ JournalFails(p) PROVE [Progress!Next(PowerLoss)]_<<Progress!vars>>
  <2>1. /\ UNCHANGED <<folder, promised, recent>> /\ at'[p] # "resetting"
        /\ \A q \in Openers \ {p} : at'[q] = at[q]
    BY <1>0, <1>6 DEF AppendRows, JournalFails, Goto, Stage
  <2>2. ASSUME NEW r \in Seq(Rows), IsPrefix(r, payload) PROVE IsPrefix(r, payload')
    <3> DEFINE w == work[p]
    <3>1. /\ w \in Works /\ w.hashed # <<>> /\ Len(w.hashed) <= Sealed(w) + 1
          /\ w.hashed = <<Header>> \o SubSeq(w.lines, 1, Len(w.hashed) - 1)
      BY <1>0, <1>6 DEF IInv, TypeOK, Works, Opener, Locked, Hashed, AppendRows, JournalFails, Goto
    <3>2. Unsaved(w) \in Seq(Rows)
      <4> HIDE DEF w
      <4> QED
        BY <3>1, Appended
    <3>3. CASE AppendRows(p)
      <4>1. payload' = payload \o Unsaved(w)
        BY <3>3 DEF AppendRows
      <4> QED
        BY <1>0, <2>2, <3>2, <4>1, PrefixKept
    <3>4. CASE JournalFails(p)
      <4>1. \A part \in Prefixes(Unsaved(w)) : part \in Seq(Rows)
        BY <3>2 DEF Prefixes
      <4>2. PICK part \in Seq(Rows), torn \in Seq(Rows) : payload' = payload \o part \o torn
        <5>1. PICK part \in IF at[p] = "appending" THEN Prefixes(Unsaved(w)) ELSE {<<>>},
                   torn \in IF at[p] = "appending" THEN {<<>>, <<Torn>>} ELSE {<<>>} :
                 payload' = payload \o part \o torn
          BY <3>4 DEF JournalFails
        <5>2. <<>> \in Seq(Rows) /\ <<Torn>> \in Seq(Rows)
          BY Values
        <5>3. part \in Seq(Rows) /\ torn \in Seq(Rows)
          BY <4>1, <5>2
        <5> QED
          BY <5>1, <5>3
      <4>3. payload \o part \in Seq(Rows) /\ IsPrefix(r, payload \o part)
        BY <1>0, <2>2, PrefixKept
      <4> QED
        BY <4>2, <4>3, PrefixKept
    <3> QED
      BY <1>6, <3>3, <3>4
  <2>3. ASSUME Found > 0
        PROVE  /\ Valid' /\ Level(folder'.manifest) >= Level(folder.manifest)
               /\ \A q \in Openers : at'[q] # "resetting"
    <3>1. Valid /\ Level(folder.manifest) \in 0..(N + 2) /\ N \in Nat
          /\ \A q \in Openers : at[q] # "resetting"
      BY <2>3, FoundNumber, InForce, Levels
    <3>2. Valid'
      BY <1>0, <2>1, <2>2, <3>1 DEF Valid
    <3> QED
      BY <2>1, <3>1, <3>2
  <2> QED
    BY <2>1, <2>3, Saving
<1>7. ASSUME Publish(p) PROVE [Progress!Next(PowerLoss)]_<<Progress!vars>>
  <2> DEFINE m == ManifestOf(work[p])
  <2>1. /\ at[p] = "publishing" /\ folder' = [folder EXCEPT !.manifest = m] /\ recent' = TRUE
        /\ UNCHANGED <<payload, promised>> /\ at'[p] # "resetting"
        /\ \A q \in Openers \ {p} : at'[q] = at[q]
    BY <1>0, <1>7 DEF Publish, Names, Goto
  <2>2. /\ m \in Manifests /\ m.rows = payload /\ Level(m) = Level(work[p]) /\ folder.lines
        /\ Level(folder.manifest) <= Level(m)
    BY <2>1, Ready
  <2>3. folder'.manifest = m /\ folder'.lines
    BY <2>1, <2>2, InForce DEF Folders
  <2> HIDE DEF m
  <2>4. ASSUME Found > 0
        PROVE  /\ Valid' /\ Level(folder'.manifest) >= Level(folder.manifest)
               /\ \A q \in Openers : at'[q] # "resetting"
    <3>1. /\ Level(folder.manifest) \in 0..(N + 2) /\ N \in Nat /\ Found = Level(folder.manifest)
          /\ \A q \in Openers : at[q] # "resetting"
      BY <2>4, FoundNumber, InForce, Levels
    <3>2. Level(m) \in 0..(N + 2) /\ Level(m) > 0 /\ Level(m) >= Level(folder.manifest)
      BY <2>2, <2>4, <3>1, Levels
    <3>3. m # NoManifest
      BY <2>2, <3>2, Levels
    <3>4. IsPrefix(m.rows, payload')
      BY <1>0, <2>1, <2>2, PrefixKept
    <3>5. Valid'
      BY <2>3, <3>3, <3>4 DEF Valid
    <3> QED
      BY <2>1, <2>3, <3>1, <3>2, <3>5
  <2> QED
    BY <2>1, <2>4, Saving
<1>8. ASSUME Confirm(p) PROVE [Progress!Next(PowerLoss)]_<<Progress!vars>>
  <2>1. /\ at[p] = "confirming" /\ promised' = Level(folder.manifest)
        /\ UNCHANGED <<payload, folder, recent>> /\ at'[p] # "resetting"
        /\ \A q \in Openers \ {p} : at'[q] = at[q]
    BY <1>0, <1>8 DEF Confirm, Goto, Stage
  <2>2. /\ exclusive = p /\ folder.lines /\ folder.manifest.rows = payload
        /\ ManifestOf(work[p]).rows # <<>> /\ folder.manifest = ManifestOf(work[p])
    <3>1. work[p].journal /\ work[p].hashed # <<>> /\ folder.manifest = ManifestOf(work[p])
      BY <1>0, <2>1 DEF Opener, Locked, Hashed, Saved
    <3>2. ManifestOf(work[p]).rows = work[p].hashed
      BY DEF ManifestOf
    <3> QED
      BY <2>1, <3>1, <3>2, Ready
  <2>3. \A q \in Openers : at[q] # "resetting" /\ at'[q] # "resetting"
    <3>1. \A q \in Openers \ {p} : at[q] # "resetting"
      BY <2>2 DEF IInv, Opener, Locked
    <3> QED
      BY <2>1, <3>1
  <2>4. Valid /\ Valid'
    <3>1. IsPrefix(payload, payload)
      BY <1>0, PrefixKept
    <3>2. folder.manifest # NoManifest
      BY <2>2 DEF NoManifest
    <3> QED
      BY <2>1, <2>2, <3>1, <3>2 DEF Valid
  <2>5. Found = Level(folder.manifest) /\ Found' = Found
    BY <2>1, <2>3, <2>4 DEF Found
  <2> QED
    BY <2>1, <2>5 DEF Progress!Next, Progress!Promise
<1> QED
  BY <1>1, <1>2, <1>3, <1>4, <1>5, <1>6, <1>7, <1>8 DEF Step

\* So does every step of the system, or it lets time pass, forgets what is old,
\* or loses power and keeps what was reported preserved.
LEMMA ProgressStep ==
    ASSUME IInv, IInv', [Next]_vars
    PROVE  [Progress!Next(PowerLoss)]_<<Progress!vars>>
<1>1. CASE \E p \in Openers : Step(p)
  BY <1>1, OpenerProgress
<1>2. CASE Age
  <2>1. UNCHANGED <<payload, folder, at, promised>> /\ recent' = FALSE
    BY <1>2 DEF Age, disk
  <2>2. Found' = Found
    BY <2>1 DEF Found, Valid
  <2> QED
    BY <2>1, <2>2 DEF Progress!Next, Progress!Age
<1>3. CASE PruneLook \/ PruneLock
  <2>1. UNCHANGED <<payload, folder, at, promised, recent>>
    BY <1>3 DEF PruneLook, PruneLock, disk
  <2> QED
    BY <2>1, Passing
<1>4. CASE Prune
  <2>1. CASE recent
    <3>1. UNCHANGED <<payload, folder, at, promised, recent>>
      BY <1>4, <2>1 DEF Prune
    <3> QED
      BY <3>1, Passing
  <2>2. CASE ~recent
    <3>1. /\ promised' = 0 /\ recent' = recent
          /\ \/ folder' = [folder EXCEPT !.lines = FALSE]
             \/ folder' = [folder EXCEPT !.manifest = NoManifest]
      BY <1>4, <2>2 DEF Prune, Removes, Names
    <3>2. ~Valid'
      BY <3>1, InForce DEF Valid, Folders
    <3>3. Found' = 0
      BY <3>2 DEF Found
    <3> QED
      BY <2>2, <3>1, <3>3 DEF Progress!Next, Progress!Forget
  <2> QED
    BY <2>1, <2>2
<1>5. CASE PowerLoss
  <2>1. /\ UNCHANGED <<promised, recent>> /\ kept' = {folder'} /\ at' = [p \in Openers |-> "idle"]
    BY <1>5 DEF PowerLoss
  <2>2. Found' >= promised
    <3>1. /\ promised \in 0..(N + 2) /\ N \in Nat /\ folder'.manifest \in Manifests
          /\ Level(folder'.manifest) \in 0..(N + 2)
      <4>1. promised \in 0..(N + 2) /\ N \in Nat /\ folder'.manifest \in Manifests
        BY LogAssumption DEF IInv, TypeOK, Folders
      <4> QED
        BY <4>1, Levels
    <3>2. CASE promised = 0
      BY <3>1, <3>2 DEF Found
    <3>3. CASE promised > 0
      <4>1. /\ folder'.lines /\ folder'.manifest # NoManifest /\ Level(folder'.manifest) >= promised
            /\ IsPrefix(folder'.manifest.rows, payload')
        BY <2>1, <3>3 DEF IInv, Durable
      <4>2. Valid' /\ \A q \in Openers : at'[q] # "resetting"
        BY <2>1, <4>1 DEF Valid
      <4> QED
        BY <4>1, <4>2 DEF Found
    <3> QED
      BY <3>1, <3>2, <3>3
  <2> QED
    BY <1>5, <2>1, <2>2 DEF Progress!Next, Progress!Lose
<1>6. CASE UNCHANGED vars
  <2>1. UNCHANGED <<payload, folder, at, promised, recent>>
    BY <1>6 DEF vars, disk
  <2> QED
    BY <2>1, Passing
<1> QED
  BY <1>1, <1>2, <1>3, <1>4, <1>5, <1>6 DEF Next

\* An opener never finds less than another left, what was reported preserved
\* outlives a loss of power, and only what is old is forgotten: the checkpoints
\* implement DurableProgress, as long as reads of the index do not fail and
\* directories are synced, as on a Unix.
THEOREM ProgressAlwaysKept == Spec => KeepsProgress
<1>1. Init => Progress!Init
  BY DEF Init, Progress!Init, Found, Valid
<1>2. IInv /\ IInv' /\ [Next]_vars => [Progress!Next(PowerLoss)]_<<Progress!vars>>
  BY ProgressStep
<1> QED
  BY <1>1, <1>2, CheckpointInvariantHolds, PTL DEF Spec, KeepsProgress
======================================================================================

----------------------------- MODULE CaseCache_proofs -----------------------------
(***************************************************************************)
(* Theorems about CompiledCache and CaseCache.                             *)
(*                                                                         *)
(* CompiledCache keeps every property of the source and the Case database  *)
(* it is composed with, and what it keeps and gives is exact.              *)
(*                                                                         *)
(* CaseCache keeps every property of both.  Its counters are exactly the   *)
(* sum of what is alive and charged to them, its cache stays within its    *)
(* limits, and a query answers from the publication it was asked about.    *)
(* The credit rests on sums over a finite set of which one term changes:   *)
(* of the payloads alive, one comes or goes; of the requests, one moves.   *)
(***************************************************************************)
EXTENDS CaseCache, SourcePublication_proofs, FiniteSetTheorems

-----------------------------------------------------------------------------
(* The compiled interpretations.                                           *)

Interpretations ==
    [identity : Identities, security : {"own", "default"}, outcome : {"none", "whole", "cut"}]
Phases == {"idle", "looking", "waiting", "rechecking", "building", "built", "over"}

\* The types of what the cache keeps of its requests.
CompilersOK ==
    /\ compiled \in Seq(Interpretations)
    /\ compiling \in Compilers \cup {NoRequest}
    /\ phase \in [Compilers -> Phases]
    /\ wanted \in [Compilers -> Interpretations]
    /\ given \in [Compilers -> Interpretations \cup {NoAnswer, Refused}]
    /\ stopped \subseteq Compilers

\* What is kept is whole, one of each identity, no more than fit.
Keeps ==
    /\ \A n \in 1..Len(compiled) : compiled[n].outcome = "whole"
    /\ \A m, n \in 1..Len(compiled) : compiled[m].identity = compiled[n].identity => m = n
    /\ Len(compiled) <= MaxCompiled

\* Of one request: who builds holds the builder's lock and has found nothing; what
\* was cut is never given, because the request stays cancelled; what was given is exact.
Compiles(q) ==
    /\ phase[q] \in {"rechecking", "building", "built"} => compiling = q
    /\ phase[q] \in {"building", "built"} =>
           \A n \in 1..Len(compiled) : compiled[n].identity # wanted[q].identity
    /\ phase[q] = "built" => wanted[q].outcome = "whole" \/ q \in stopped
    /\ phase[q] # "over" => given[q] = NoAnswer
    /\ given[q] \notin {NoAnswer, Refused} =>
           given[q].outcome = "whole" /\ given[q].identity = wanted[q].identity

\* The inductive invariant, beside that of the source.
CInv == CompilersOK /\ Keeps /\ \A q \in Compilers : Compiles(q)

-----------------------------------------------------------------------------
(* Lemmas about the sequence kept.                                         *)

\* Find finds the entry of an identity, if there is one.
LEMMA FindExact ==
    ASSUME NEW S, NEW s \in Seq(S), NEW identity
    PROVE  \/ /\ Find(s, identity) = 0
              /\ \A i \in 1..Len(s) : s[i].identity # identity
           \/ /\ Find(s, identity) \in 1..Len(s)
              /\ s[Find(s, identity)].identity = identity
<1> DEFINE I == {i \in 1..Len(s) : s[i].identity = identity}
<1>1. Find(s, identity) = IF I # {} THEN Min(I) ELSE 0
  BY Zenon DEF SelectInSeq, Find
<1>2. I \in SUBSET Nat
  OBVIOUS
<1> QED
  BY <1>1, <1>2, Least

\* An entry moved to the end.
LEMMA MovedLast ==
    ASSUME NEW S, NEW s \in Seq(S), NEW i \in 1..Len(s)
    PROVE  /\ Append(RemoveAt(s, i), s[i]) \in Seq(S)
           /\ Len(Append(RemoveAt(s, i), s[i])) = Len(s)
           /\ \A n \in 1..Len(s) :
                  Append(RemoveAt(s, i), s[i])[n] = s[IF n < i THEN n ELSE IF n < Len(s) THEN n + 1 ELSE i]
<1> DEFINE front == SubSeq(s, 1, i - 1)
           back == SubSeq(s, i + 1, Len(s))
<1>1. /\ front \in Seq(S) /\ Len(front) = i - 1 /\ \A n \in 1..(i - 1) : front[n] = s[n]
  BY SubSeqProperties
<1>2. /\ back \in Seq(S) /\ Len(back) = Len(s) - i /\ \A n \in 1..(Len(s) - i) : back[n] = s[i + n]
  BY SubSeqProperties
<1> HIDE DEF front, back
<1> DEFINE rest == front \o back
<1>3. rest \in Seq(S) /\ Len(rest) = Len(s) - 1
  <2>1. rest \in Seq(S) /\ Len(rest) = Len(front) + Len(back)
    BY <1>1, <1>2, ConcatProperties
  <2>2. Len(s) \in Nat
    OBVIOUS
  <2> QED
    BY <1>1, <1>2, <2>1, <2>2
<1>4. \A n \in 1..(Len(s) - 1) : rest[n] = IF n < i THEN s[n] ELSE s[n + 1]
  <2> TAKE n \in 1..(Len(s) - 1)
  <2>1. rest[n] = IF n <= Len(front) THEN front[n] ELSE back[n - Len(front)]
    BY <1>1, <1>2, ConcatProperties
  <2> QED
    BY <1>1, <1>2, <2>1
<1>5. RemoveAt(s, i) = rest
  BY DEF RemoveAt, front, back
<1> HIDE DEF rest
<1>6. s[i] \in S
  OBVIOUS
<1> DEFINE whole == Append(rest, s[i])
<1>7. /\ whole \in Seq(S) /\ Len(whole) = Len(s) /\ whole[Len(s)] = s[i]
      /\ \A n \in 1..(Len(s) - 1) : whole[n] = rest[n]
  BY <1>3, <1>6
<1> HIDE DEF whole
<1>8. \A n \in 1..Len(s) : whole[n] = s[IF n < i THEN n ELSE IF n < Len(s) THEN n + 1 ELSE i]
  BY <1>4, <1>7
<1> QED
  BY <1>5, <1>7, <1>8 DEF whole

\* The oldest entries leave, and one comes last.
LEMMA KeptLast ==
    ASSUME NEW S, NEW s \in Seq(S), NEW n \in 0..Len(s), NEW e \in S
    PROVE  /\ Append(SubSeq(s, n + 1, Len(s)), e) \in Seq(S)
           /\ Len(Append(SubSeq(s, n + 1, Len(s)), e)) = Len(s) - n + 1
           /\ \A m \in 1..(Len(s) - n) : Append(SubSeq(s, n + 1, Len(s)), e)[m] = s[m + n]
           /\ Append(SubSeq(s, n + 1, Len(s)), e)[Len(s) - n + 1] = e
<1> DEFINE back == SubSeq(s, n + 1, Len(s))
<1>1. /\ back \in Seq(S) /\ Len(back) = Len(s) - n /\ \A m \in 1..(Len(s) - n) : back[m] = s[m + n]
  BY SubSeqProperties
<1> HIDE DEF back
<1> QED
  BY <1>1 DEF back

-----------------------------------------------------------------------------
(* Every step keeps the invariant.                                         *)

\* What is not a step of one of them leaves the others as they are.
SameCompiler(p) == phase'[p] = phase[p] /\ wanted'[p] = wanted[p] /\ given'[p] = given[p]

\* A step that keeps the identities which are kept, and lets nobody into the
\* builder's lock, keeps what is said of the requests that did not move.
LEMMA OthersCompile ==
    ASSUME CInv, NEW q \in Compilers, CompilersOK',
           \A p \in Compilers \ {q} : SameCompiler(p),
           stopped \subseteq stopped',
           compiling' = compiling \/ compiling \in {q, NoRequest},
           \/ \A n \in 1..Len(compiled') : \E m \in 1..Len(compiled) :
                 compiled'[n].identity = compiled[m].identity
           \/ compiling = q
    PROVE  \A p \in Compilers \ {q} : Compiles(p)'
<1> TAKE p \in Compilers \ {q}
<1>1. Compiles(p) /\ CompilersOK
  BY DEF CInv
<1>2. phase[p] \in {"rechecking", "building", "built"} => compiling' = p /\ compiling # q
  BY <1>1, CompilersAssumption DEF Compiles
<1> QED
  BY <1>1, <1>2 DEF Compiles, SameCompiler

\* Reading an entry makes it the last; what is given is the entry.
LEMMA HitKeeps == ASSUME CInv, NEW q \in Compilers, Hit(q) PROVE CInv'
<1> DEFINE i == Index(q)
<1>1. CompilersOK /\ Keeps /\ Compiles(q)
  BY DEF CInv
<1>2. i \in 1..Len(compiled) /\ compiled[i].identity = wanted[q].identity
  BY <1>1, FindExact DEF Hit, Index, CompilersOK
<1>3. compiled[i].outcome = "whole" /\ compiled[i] \in Interpretations
  BY <1>1, <1>2 DEF Keeps, CompilersOK
<1>4. /\ compiled' = Append(RemoveAt(compiled, i), compiled[i])
      /\ phase' = [phase EXCEPT ![q] = "over"] /\ given' = [given EXCEPT ![q] = compiled[i]]
      /\ compiling' = IF compiling = q THEN NoRequest ELSE compiling
      /\ UNCHANGED <<wanted, stopped>>
  BY DEF Hit, Yields
<1> HIDE DEF i
<1>5. /\ compiled' \in Seq(Interpretations) /\ Len(compiled') = Len(compiled)
      /\ \A n \in 1..Len(compiled) :
             compiled'[n] = compiled[IF n < i THEN n ELSE IF n < Len(compiled) THEN n + 1 ELSE i]
  BY <1>1, <1>2, <1>4, MovedLast DEF CompilersOK
<1>6. CompilersOK'
  BY <1>1, <1>3, <1>4, <1>5 DEF CompilersOK, Phases
<1>7. \A n \in 1..Len(compiled) :
          (IF n < i THEN n ELSE IF n < Len(compiled) THEN n + 1 ELSE i) \in 1..Len(compiled)
  BY <1>1, <1>2 DEF CompilersOK
<1>8. Keeps'
  <2>1. \A n \in 1..Len(compiled') : compiled'[n].outcome = "whole"
    BY <1>1, <1>5, <1>7 DEF Keeps
  <2>2. ASSUME NEW m \in 1..Len(compiled'), NEW n \in 1..Len(compiled'),
               compiled'[m].identity = compiled'[n].identity
        PROVE  m = n
    <3>1. (IF m < i THEN m ELSE IF m < Len(compiled) THEN m + 1 ELSE i)
            = (IF n < i THEN n ELSE IF n < Len(compiled) THEN n + 1 ELSE i)
      BY <1>1, <1>5, <1>7, <2>2 DEF Keeps
    <3>2. m \in 1..Len(compiled) /\ n \in 1..Len(compiled) /\ Len(compiled) \in Nat
      BY <1>1, <1>5 DEF CompilersOK
    <3> QED
      BY <1>2, <3>1, <3>2
  <2> QED
    BY <1>1, <1>5, <2>1, <2>2 DEF Keeps
<1>9. Compiles(q)'
  BY <1>1, <1>2, <1>3, <1>4 DEF Compiles, CompilersOK
<1>10. \A p \in Compilers \ {q} : Compiles(p)'
  <2>1. \A p \in Compilers \ {q} : SameCompiler(p)
    BY <1>1, <1>4 DEF SameCompiler, CompilersOK
  <2>2. \A n \in 1..Len(compiled') : \E m \in 1..Len(compiled) :
            compiled'[n].identity = compiled[m].identity
    BY <1>5, <1>7
  <2> QED
    BY <1>4, <1>6, <2>1, <2>2, OthersCompile
<1> QED
  BY <1>6, <1>8, <1>9, <1>10 DEF CInv

\* What was built and not cancelled is whole and new, and is kept as the last.
LEMMA KeepKeeps == ASSUME CInv, NEW q \in Compilers, Keep(q) PROVE CInv'
<1>1. CompilersOK /\ Keeps /\ Compiles(q)
  BY DEF CInv
<1>2. /\ phase[q] = "built" /\ compiling = q /\ wanted[q].outcome = "whole"
      /\ \A n \in 1..Len(compiled) : compiled[n].identity # wanted[q].identity
      /\ wanted[q] \in Interpretations
  BY <1>1 DEF Keep, Compiles, CompilersOK
<1>3. Index(q) = 0
  BY <1>1, <1>2, FindExact DEF Index, CompilersOK
<1>4. PICK n \in 0..Len(compiled) :
          /\ Len(compiled) - n < MaxCompiled
          /\ compiled' = Append(SubSeq(compiled, n + 1, Len(compiled)), wanted[q])
  BY <1>3 DEF Keep, Insert
<1>5. /\ phase' = [phase EXCEPT ![q] = "over"] /\ given' = [given EXCEPT ![q] = wanted[q]]
      /\ compiling' = NoRequest /\ UNCHANGED <<wanted, stopped>>
  BY <1>2, <1>3 DEF Keep, Insert, Yields
<1>6. /\ compiled' \in Seq(Interpretations) /\ Len(compiled') = Len(compiled) - n + 1
      /\ \A m \in 1..(Len(compiled) - n) : compiled'[m] = compiled[m + n] /\ m + n \in 1..Len(compiled)
      /\ compiled'[Len(compiled) - n + 1] = wanted[q]
      /\ Len(compiled) \in Nat
  BY <1>1, <1>2, <1>4, KeptLast DEF CompilersOK
<1>7. CompilersOK'
  BY <1>1, <1>2, <1>5, <1>6 DEF CompilersOK, Phases
<1>8. \A m \in 1..Len(compiled') : m \in 1..(Len(compiled) - n) \/ m = Len(compiled) - n + 1
  BY <1>6
<1>9. Keeps'
  <2>1. \A m \in 1..Len(compiled') : compiled'[m].outcome = "whole"
    BY <1>1, <1>2, <1>6, <1>8 DEF Keeps
  <2>2. ASSUME NEW l \in 1..Len(compiled'), NEW m \in 1..Len(compiled'),
               compiled'[l].identity = compiled'[m].identity
        PROVE  l = m
    <3>1. CASE l \in 1..(Len(compiled) - n) /\ m \in 1..(Len(compiled) - n)
      <4>0. /\ l + n \in 1..Len(compiled) /\ m + n \in 1..Len(compiled)
            /\ compiled'[l] = compiled[l + n] /\ compiled'[m] = compiled[m + n]
        BY <1>6, <3>1, Zenon
      <4>1. l + n = m + n
        <5> DEFINE x == l + n
                   y == m + n
        <5>1. x \in 1..Len(compiled) /\ y \in 1..Len(compiled) /\ compiled[x].identity = compiled[y].identity
          BY <2>2, <4>0, Zenon
        <5> HIDE DEF x, y
        <5>2. x = y
          BY <1>1, <5>1, Zenon DEF Keeps
        <5> QED
          BY <5>2 DEF x, y
      <4> QED
        BY <3>1, <4>1, <1>6
    <3>2. CASE l \notin 1..(Len(compiled) - n) \/ m \notin 1..(Len(compiled) - n)
      BY <1>2, <1>6, <1>8, <2>2, <3>2
    <3> QED
      BY <3>1, <3>2
  <2>3. Len(compiled') <= MaxCompiled
    BY <1>4, <1>6, CompilersAssumption
  <2> QED
    BY <2>1, <2>2, <2>3 DEF Keeps
<1>10. Compiles(q)'
  BY <1>1, <1>2, <1>5 DEF Compiles, CompilersOK
<1>11. \A p \in Compilers \ {q} : Compiles(p)'
  <2>1. \A p \in Compilers \ {q} : SameCompiler(p)
    BY <1>1, <1>5 DEF SameCompiler, CompilersOK
  <2> QED
    BY <1>2, <1>5, <1>7, <2>1, OthersCompile
<1> QED
  BY <1>7, <1>9, <1>10, <1>11 DEF CInv

\* The other steps of a request, which leave what is kept.
LEMMA OtherStepsKeep ==
    ASSUME CInv, IInv, NEW q \in Compilers,
           \/ \E c \in Cases, security \in {"own", "default"} : WantCompiled(q, c, security)
           \/ Miss(q) \/ EnterBuilder(q) \/ MissAgain(q) \/ Build(q) \/ GiveUp(q) \/ CancelCompiling(q)
    PROVE  CInv'
<1>1. CompilersOK /\ Keeps /\ Compiles(q)
  BY DEF CInv
<1>2. /\ compiled' = compiled /\ stopped \subseteq stopped' /\ stopped' \subseteq Compilers
      /\ compiling' = compiling \/ compiling \in {q, NoRequest}
      /\ compiling' \in Compilers \cup {NoRequest}
  BY <1>1 DEF WantCompiled, Miss, EnterBuilder, MissAgain, Build, GiveUp, CancelCompiling, Yields, CompilersOK
<1>3. /\ phase' \in [Compilers -> Phases] /\ \A p \in Compilers \ {q} : phase'[p] = phase[p]
      /\ given' \in [Compilers -> Interpretations \cup {NoAnswer, Refused}]
      /\ \A p \in Compilers \ {q} : given'[p] = given[p]
  BY <1>1 DEF WantCompiled, Miss, EnterBuilder, MissAgain, Build, GiveUp, CancelCompiling, Yields, Proceeds,
     CompilersOK, Phases
<1>4. /\ wanted' \in [Compilers -> Interpretations] /\ \A p \in Compilers \ {q} : wanted'[p] = wanted[p]
  <2>1. CASE UNCHANGED wanted
    BY <1>1, <2>1 DEF CompilersOK
  <2>2. ASSUME NEW c \in Cases, NEW security \in {"own", "default"}, WantCompiled(q, c, security)
        PROVE  <1>4!:
    <3>1. IdentityOf(c) \in Identities
      BY Parted, NoCaseAssumption DEF IdentityOf, Identities, StoresOK
    <3>2. [identity |-> IdentityOf(c), security |-> security, outcome |-> "none"] \in Interpretations
      BY <3>1 DEF Interpretations
    <3> QED
      BY <1>1, <2>2, <3>2 DEF WantCompiled, CompilersOK
  <2>3. CASE Build(q)
    BY <1>1, <2>3 DEF Build, CompilersOK, Interpretations
  <2> QED
    BY <2>1, <2>2, <2>3 DEF Miss, EnterBuilder, MissAgain, GiveUp, CancelCompiling
<1>5. CompilersOK'
  BY <1>1, <1>2, <1>3, <1>4 DEF CompilersOK
<1>6. \A p \in Compilers \ {q} : Compiles(p)'
  <2>1. \A p \in Compilers \ {q} : SameCompiler(p)
    BY <1>3, <1>4 DEF SameCompiler
  <2>2. \A n \in 1..Len(compiled') : \E m \in 1..Len(compiled) :
            compiled'[n].identity = compiled[m].identity
    BY <1>2
  <2> QED
    BY <1>2, <1>5, <2>1, <2>2, OthersCompile
<1>7. Keeps'
  BY <1>1, <1>2 DEF Keeps
<1>8. Compiles(q)'
  <2>1. ASSUME NEW c \in Cases, NEW security \in {"own", "default"}, WantCompiled(q, c, security)
        PROVE  Compiles(q)'
    BY <1>1, <2>1, NoCaseAssumption DEF WantCompiled, Proceeds, Compiles, CompilersOK
  <2>2. CASE Miss(q)
    BY <1>1, <2>2 DEF Miss, Proceeds, Compiles, CompilersOK
  <2>3. CASE EnterBuilder(q)
    BY <1>1, <2>3 DEF EnterBuilder, Proceeds, Compiles, CompilersOK
  <2>4. CASE MissAgain(q)
    <3>1. \A n \in 1..Len(compiled) : compiled[n].identity # wanted[q].identity
      BY <1>1, <2>4, FindExact DEF MissAgain, Index, CompilersOK
    <3> QED
      BY <1>1, <2>4, <3>1 DEF MissAgain, Proceeds, Compiles, CompilersOK
  <2>5. CASE Build(q)
    <3>1. /\ wanted'[q].identity = wanted[q].identity
          /\ wanted'[q].outcome = "whole" \/ q \in stopped
      BY <1>1, <2>5 DEF Build, CompilersOK, Interpretations
    <3> QED
      BY <1>1, <2>5, <3>1 DEF Build, Proceeds, Compiles, CompilersOK
  <2>6. CASE GiveUp(q)
    BY <1>1, <2>6 DEF GiveUp, Yields, Compiles, CompilersOK
  <2>7. CASE CancelCompiling(q)
    BY <1>1, <2>7 DEF CancelCompiling, Compiles, CompilersOK
  <2> QED
    BY <2>1, <2>2, <2>3, <2>4, <2>5, <2>6, <2>7
<1> QED
  BY <1>5, <1>6, <1>7, <1>8 DEF CInv

-----------------------------------------------------------------------------
(* The theorems.                                                           *)

\* The cache only reads the Case database and the source, so they keep all that is
\* proved of them.
THEOREM CompiledImplementsSource == CompiledSpec => Spec
<1>1. CompiledInit => Init
  BY DEF CompiledInit
<1>2. [CompiledNext]_compiledVars => [Next]_vars
  BY DEF CompiledNext, compiledVars
<1> QED
  BY <1>1, <1>2, PTL DEF CompiledSpec, Spec

\* The invariant of the cache holds in every state, beside that of the source.
THEOREM CompiledInvariantHolds == CompiledSpec => [](IInv /\ CInv)
<1>1. CompiledInit => CInv
  <2> SUFFICES ASSUME CompiledInit PROVE CInv
    OBVIOUS
  <2>1. NoCompiled \in Interpretations
    BY ConstantTypes DEF NoCompiled, Interpretations
  <2>2. CompilersOK
    BY <2>1 DEF CompiledInit, CompilersOK, Phases
  <2>3. Keeps /\ Len(compiled) = 0
    BY CompilersAssumption DEF CompiledInit, Keeps
  <2>4. \A q \in Compilers : Compiles(q)
    BY <2>3 DEF CompiledInit, Compiles
  <2> QED
    BY <2>2, <2>3, <2>4 DEF CInv
<1>2. IInv /\ CInv /\ [CompiledNext]_compiledVars => CInv'
  <2> SUFFICES ASSUME IInv, CInv, [CompiledNext]_compiledVars PROVE CInv'
    OBVIOUS
  <2>1. CASE UNCHANGED compileWork
    BY <2>1 DEF compileWork, CInv, CompilersOK, Keeps, Compiles
  <2>2. ASSUME NEW q \in Compilers, CompileStep(q) PROVE CInv'
    BY <2>2, HitKeeps, KeepKeeps, OtherStepsKeep DEF CompileStep
  <2> QED
    BY <2>1, <2>2 DEF CompiledNext, compiledVars
<1> QED
  BY <1>1, <1>2, CompiledImplementsSource, SourceInvariantHolds, PTL DEF CompiledSpec

\* What is kept, and what a request got, is a whole interpretation of the very
\* identity, each built once and by one request at a time, no more than fit, whatever
\* was cancelled or edited meanwhile.
THEOREM CompiledAlwaysExact == CompiledSpec => []CompiledExact
<1>1. CInv => CompiledExact
  <2> SUFFICES ASSUME CInv PROVE CompiledExact
    OBVIOUS
  <2>1. DOMAIN compiled = 1..Len(compiled)
    BY DEF CInv, CompilersOK
  <2>2. BuildsOnce
    <3> SUFFICES ASSUME NEW q \in Compilers, phase[q] \in {"building", "built"}
                 PROVE  compiling = q /\ Index(q) = 0
      BY DEF BuildsOnce
    <3>1. compiling = q /\ \A n \in 1..Len(compiled) : compiled[n].identity # wanted[q].identity
      BY DEF CInv, Compiles
    <3> QED
      BY <3>1, FindExact DEF Index, CInv, CompilersOK
  <2> QED
    BY <2>1, <2>2 DEF CInv, Keeps, Compiles, CompiledExact
<1> QED
  BY <1>1, CompiledInvariantHolds, PTL

-----------------------------------------------------------------------------
(* Sums of numbers over a finite set.                                      *)

\* What a finite set has if every subset that has it for its own subsets has it.
LEMMA BySubsets ==
    ASSUME NEW T, IsFiniteSet(T), NEW G,
           \A s \in SUBSET T : (\A r \in SUBSET s : r # s => r \in G) => s \in G
    PROVE  \A s \in SUBSET T : s \in G
<1> DEFINE B == {s \in SUBSET T : s \notin G}
           N == {Cardinality(s) : s \in B}
<1>1. SUFFICES ASSUME B # {} PROVE FALSE
  OBVIOUS
<1>2. \A s \in SUBSET T : IsFiniteSet(s) /\ Cardinality(s) \in Nat
  BY FS_Subset, FS_CardinalityType
<1>3. N \in SUBSET Nat /\ N # {}
  BY <1>1, <1>2
<1> HIDE DEF N
<1>4. PICK n \in N : \A m \in N : n <= m
  BY <1>3, Least
<1>5. PICK s \in B : n = Cardinality(s)
  BY <1>4 DEF N
<1>6. ASSUME NEW r \in SUBSET s, r # s PROVE r \in G
  <2>1. /\ Cardinality(r) < Cardinality(s) /\ Cardinality(r) \in Nat /\ Cardinality(s) \in Nat
    BY <1>2, <1>5, <1>6, FS_Subset
  <2>2. r \in B => Cardinality(r) \in N
    BY DEF N
  <2> QED
    BY <1>4, <1>5, <2>1, <2>2
<1> QED
  BY <1>5, <1>6

\* What SumFunctionOnSet computes, whatever the order.
LEMMA SumStep ==
    ASSUME NEW f, NEW S, IsFiniteSet(S), \A x \in S : f[x] \in Nat
    PROVE  /\ SumFunctionOnSet(f, {}) = 0
           /\ SumFunctionOnSet(f, S) \in Nat
           /\ \A x \in S : SumFunctionOnSet(f, S) = f[x] + SumFunctionOnSet(f, S \ {x})
<1> DEFINE One(s) == CHOOSE x \in s : TRUE
           Iter(g, T) == [s \in SUBSET T |-> IF s = {} THEN 0 ELSE f[One(s)] + g[s \ {One(s)}]]
           iter(T) == CHOOSE g : g = Iter(g, T)
           Sum(T) == iter(T)[T]
<1>1. \A T : SumFunctionOnSet(f, T) = Sum(T)
  BY DEF SumFunctionOnSet, FoldFunctionOnSet, MapThenFoldSet
<1>2. \A s : s # {} => One(s) \in s
  OBVIOUS
<1> HIDE DEF One
\* Two of these functions agree where both are defined.
<1>3. ASSUME NEW T \in SUBSET S, NEW U \in SUBSET S, NEW g, NEW h, g = Iter(g, T), h = Iter(h, U)
      PROVE  \A s \in SUBSET T : s \in SUBSET U => g[s] = h[s]
  <2> DEFINE G == {s \in SUBSET S : s \in SUBSET T /\ s \in SUBSET U => g[s] = h[s]}
  <2>1. ASSUME NEW s \in SUBSET S, \A r \in SUBSET s : r # s => r \in G PROVE s \in G
    <3>1. SUFFICES ASSUME s \in SUBSET T, s \in SUBSET U PROVE g[s] = h[s]
      OBVIOUS
    <3>2. /\ g[s] = IF s = {} THEN 0 ELSE f[One(s)] + g[s \ {One(s)}]
          /\ h[s] = IF s = {} THEN 0 ELSE f[One(s)] + h[s \ {One(s)}]
      BY <1>3, <3>1
    <3>3. CASE s # {}
      <4>1. s \ {One(s)} \in SUBSET s /\ s \ {One(s)} # s
        BY <1>2, <3>3
      <4>2. g[s \ {One(s)}] = h[s \ {One(s)}]
        BY <2>1, <3>1, <4>1
      <4> QED
        BY <3>2, <4>2
    <3> QED
      BY <3>2, <3>3
  <2> HIDE DEF G
  <2>2. \A s \in SUBSET S : s \in G
    BY <2>1, BySubsets
  <2> QED
    BY <2>2 DEF G
<1>4. \A T \in SUBSET S : iter(T) = Iter(iter(T), T)
  <2> DEFINE G == {s \in SUBSET S : \E g : g = Iter(g, s)}
  <2>1. ASSUME NEW s \in SUBSET S, \A r \in SUBSET s : r # s => r \in G PROVE s \in G
    <3> DEFINE g == [r \in SUBSET s |-> IF r # s THEN Sum(r)
                                        ELSE IF s = {} THEN 0 ELSE f[One(s)] + Sum(s \ {One(s)})]
    <3>1. \A r \in SUBSET s : r # s => iter(r) = Iter(iter(r), r)
      BY <2>1
    <3> HIDE DEF iter
    <3>2. ASSUME NEW r \in SUBSET s
          PROVE  g[r] = IF r = {} THEN 0 ELSE f[One(r)] + g[r \ {One(r)}]
      <4>1. CASE r = {}
        <5>1. CASE r = s
          BY <4>1, <5>1
        <5>2. CASE r # s
          <6>1. Sum(r) = 0
            BY <3>1, <4>1, <5>2
          <6> QED
            BY <4>1, <5>2, <6>1
        <5> QED
          BY <5>1, <5>2
      <4>2. CASE r # {}
        <5> DEFINE q == r \ {One(r)}
        <5>1. q \in SUBSET r /\ q # r /\ q \in SUBSET s /\ q # s
          BY <1>2, <4>2
        <5>2. g[q] = Sum(q)
          BY <5>1
        <5>3. CASE r = s
          BY <4>2, <5>2, <5>3
        <5>4. CASE r # s
          <6>1. iter(r) = Iter(iter(r), r) /\ iter(q) = Iter(iter(q), q)
            BY <3>1, <5>1, <5>4
          <6>2. iter(q)[q] = iter(r)[q]
            <7>1. q \in SUBSET S /\ r \in SUBSET S /\ q \in SUBSET q /\ q \in SUBSET r
              BY <5>1
            <7> HIDE DEF Iter, q
            <7>2. \A s0 \in SUBSET q : s0 \in SUBSET r => iter(q)[s0] = iter(r)[s0]
              BY <1>3, <6>1, <7>1
            <7> QED
              BY <7>1, <7>2
          <6>3. Sum(r) = f[One(r)] + iter(r)[q]
            BY <4>2, <6>1
          <6> QED
            BY <4>2, <5>2, <5>4, <6>2, <6>3
        <5> QED
          BY <5>3, <5>4
      <4> QED
        BY <4>1, <4>2
    <3>3. g = Iter(g, s)
      BY <3>2
    <3> HIDE DEF g, Iter
    <3> QED
      BY <3>3
  <2> HIDE DEF G
  <2>2. \A s \in SUBSET S : s \in G
    BY <2>1, BySubsets
  <2> HIDE DEF Iter
  <2> QED
    BY <2>2 DEF G
<1> HIDE DEF iter
<1>5. ASSUME NEW T \in SUBSET S
      PROVE  Sum(T) = IF T = {} THEN 0 ELSE f[One(T)] + Sum(T \ {One(T)})
  <2>1. Sum(T) = IF T = {} THEN 0 ELSE f[One(T)] + iter(T)[T \ {One(T)}]
    BY <1>4
  <2>2. iter(T)[T \ {One(T)}] = Sum(T \ {One(T)})
    <3> DEFINE q == T \ {One(T)}
    <3>1. q \in SUBSET S /\ q \in SUBSET q /\ q \in SUBSET T
      OBVIOUS
    <3> HIDE DEF Iter, q
    <3>2. iter(q)[q] = iter(T)[q]
      BY <1>3, <1>4, <3>1
    <3> QED
      BY <3>2 DEF q
  <2> QED
    BY <2>1, <2>2
<1> HIDE DEF Sum
<1>6. \A T \in SUBSET S : Sum(T) \in Nat /\ \A x \in T : Sum(T) = f[x] + Sum(T \ {x})
  <2> DEFINE G == {T \in SUBSET S : Sum(T) \in Nat /\ \A x \in T : Sum(T) = f[x] + Sum(T \ {x})}
  <2>1. ASSUME NEW T \in SUBSET S, \A r \in SUBSET T : r # T => r \in G PROVE T \in G
    <3>1. CASE T = {}
      BY <1>5, <3>1
    <3>2. CASE T # {}
      <4> DEFINE p == One(T)
      <4>1. p \in T /\ T \ {p} \in SUBSET T /\ T \ {p} # T
        BY <1>2, <3>2
      <4>2. Sum(T) = f[p] + Sum(T \ {p}) /\ Sum(T \ {p}) \in Nat /\ f[p] \in Nat
        BY <1>5, <2>1, <3>2, <4>1
      <4> HIDE DEF p
      <4>3. ASSUME NEW x \in T PROVE Sum(T) = f[x] + Sum(T \ {x})
        <5>1. CASE x = p
          BY <4>2, <5>1
        <5>2. CASE x # p
          <6>1. /\ x \in T \ {p} /\ p \in T \ {x} /\ T \ {x} \in SUBSET T /\ T \ {x} # T
                /\ (T \ {p}) \ {x} = (T \ {x}) \ {p} /\ (T \ {x}) \ {p} \in SUBSET T
                /\ (T \ {x}) \ {p} # T
            BY <4>1, <5>2
          <6>2. /\ Sum(T \ {p}) = f[x] + Sum((T \ {x}) \ {p})
                /\ Sum(T \ {x}) = f[p] + Sum((T \ {x}) \ {p})
                /\ Sum((T \ {x}) \ {p}) \in Nat
            BY <2>1, <4>1, <6>1
          <6>3. f[x] \in Nat
            OBVIOUS
          <6> QED
            BY <4>2, <6>2, <6>3
        <5> QED
          BY <5>1, <5>2
      <4>4. Sum(T) \in Nat
        BY <4>2
      <4> QED
        BY <4>3, <4>4
    <3> QED
      BY <3>1, <3>2
  <2> HIDE DEF G
  <2>2. \A T \in SUBSET S : T \in G
    BY <2>1, BySubsets
  <2> QED
    BY <2>2 DEF G
<1>7. Sum({}) = 0
  BY <1>5
<1>8. Sum(S) \in Nat /\ \A x \in S : Sum(S) = f[x] + Sum(S \ {x})
  BY <1>6
<1> QED
  BY <1>1, <1>7, <1>8

\* Functions that agree have the same sum.
LEMMA SumAgrees ==
    ASSUME NEW f, NEW g, NEW S, IsFiniteSet(S), \A x \in S : f[x] \in Nat /\ g[x] = f[x]
    PROVE  SumFunctionOnSet(f, S) = SumFunctionOnSet(g, S)
<1> DEFINE G == {T \in SUBSET S : SumFunctionOnSet(f, T) = SumFunctionOnSet(g, T)}
<1>1. ASSUME NEW T \in SUBSET S, \A r \in SUBSET T : r # T => r \in G PROVE T \in G
  <2>1. IsFiniteSet(T) /\ (\A x \in T : f[x] \in Nat /\ g[x] \in Nat)
    BY FS_Subset
  <2>2. CASE T = {}
    BY <2>1, <2>2, SumStep
  <2>3. CASE T # {}
    <3>1. PICK x \in T : TRUE
      BY <2>3
    <3>2. /\ SumFunctionOnSet(f, T) = f[x] + SumFunctionOnSet(f, T \ {x})
          /\ SumFunctionOnSet(g, T) = g[x] + SumFunctionOnSet(g, T \ {x})
      BY <2>1, <3>1, SumStep
    <3>3. SumFunctionOnSet(f, T \ {x}) = SumFunctionOnSet(g, T \ {x})
      BY <1>1, <3>1
    <3> QED
      BY <3>1, <3>2, <3>3
  <2> QED
    BY <2>2, <2>3
<1> HIDE DEF G
<1>2. \A T \in SUBSET S : T \in G
  BY <1>1, BySubsets
<1> QED
  BY <1>2 DEF G

Without(w, x) == [y \in DOMAIN w \ {x} |-> w[y]]

\* A sum is one of its terms and the sum without it.
LEMMA SumWithout ==
    ASSUME NEW S, IsFiniteSet(S), NEW w \in [S -> Nat]
    PROVE  /\ SumFunction(w) \in Nat
           /\ \A x \in S : SumFunction(w) = w[x] + SumFunction(Without(w, x))
<1>1. DOMAIN w = S /\ SumFunction(w) = SumFunctionOnSet(w, S)
  BY DEF SumFunction
<1>2. ASSUME NEW x \in S PROVE SumFunction(w) = w[x] + SumFunction(Without(w, x))
  <2> DEFINE v == [y \in S \ {x} |-> w[y]]
  <2>0. Without(w, x) = v
    BY DEF Without
  <2>1. SumFunction(v) = SumFunctionOnSet(v, S \ {x})
    BY DEF SumFunction
  <2>2. IsFiniteSet(S \ {x}) /\ \A y \in S \ {x} : w[y] \in Nat /\ v[y] = w[y]
    BY FS_Subset
  <2>3. SumFunctionOnSet(w, S \ {x}) = SumFunctionOnSet(v, S \ {x})
    <3> HIDE DEF v
    <3> QED
      BY <2>2, SumAgrees
  <2>4. SumFunctionOnSet(w, S) = w[x] + SumFunctionOnSet(w, S \ {x})
    BY SumStep
  <2> QED
    BY <1>1, <2>0, <2>1, <2>3, <2>4
<1>3. SumFunction(w) \in Nat
  BY <1>1, SumStep
<1> QED
  BY <1>2, <1>3

\* A sum with one term changed.
LEMMA SumChanged ==
    ASSUME NEW S, IsFiniteSet(S), NEW v \in [S -> Nat], NEW w \in [S -> Nat], NEW x \in S,
           \A y \in S \ {x} : v[y] = w[y]
    PROVE  SumFunction(v) + w[x] = SumFunction(w) + v[x]
<1>1. Without(v, x) = Without(w, x)
  BY DEF Without
<1>2. Without(w, x) \in [S \ {x} -> Nat] /\ IsFiniteSet(S \ {x})
  BY FS_Subset DEF Without
<1>3. SumFunction(Without(w, x)) \in Nat
  BY <1>2, SumWithout
<1>4. SumFunction(v) = v[x] + SumFunction(Without(v, x)) /\ SumFunction(w) = w[x] + SumFunction(Without(w, x))
  BY SumWithout
<1>5. v[x] \in Nat /\ w[x] \in Nat
  OBVIOUS
<1> QED
  BY <1>1, <1>3, <1>4, <1>5

\* Fewer terms have no greater sum.
LEMMA SumLess ==
    ASSUME NEW S, IsFiniteSet(S), NEW w \in [S -> Nat], NEW T \in SUBSET S
    PROVE  SumFunction([y \in T |-> w[y]]) <= SumFunction(w)
<1> DEFINE part(R) == [y \in R |-> w[y]]
           G == {R \in SUBSET S : \A Q \in SUBSET R : SumFunction(part(Q)) <= SumFunction(part(R))}
<1>0. \A R \in SUBSET S : IsFiniteSet(R) /\ part(R) \in [R -> Nat]
  BY FS_Subset
<1>1. \A R \in SUBSET S : SumFunction(part(R)) \in Nat
  <2> HIDE DEF part
  <2> QED
    BY <1>0, SumWithout
<1>2. \A R \in SUBSET S : \A x \in R : SumFunction(part(R)) = w[x] + SumFunction(part(R \ {x}))
  <2> TAKE R \in SUBSET S
  <2> TAKE x \in R
  <2>1. SumFunction(part(R)) = part(R)[x] + SumFunction(Without(part(R), x))
    <3> HIDE DEF part
    <3> QED
      BY <1>0, SumWithout
  <2>2. part(R)[x] = w[x] /\ Without(part(R), x) = part(R \ {x})
    BY DEF Without
  <2> QED
    BY <2>1, <2>2
<1> HIDE DEF part
<1>3. ASSUME NEW R \in SUBSET S, \A r \in SUBSET R : r # R => r \in G PROVE R \in G
  <2>1. SUFFICES ASSUME NEW Q \in SUBSET R, Q # R
                 PROVE  SumFunction(part(Q)) <= SumFunction(part(R))
    BY <1>1
  <2>2. PICK x \in R : x \notin Q
    BY <2>1
  <2>3. R \ {x} \in G /\ Q \in SUBSET (R \ {x})
    BY <1>3, <2>1, <2>2
  <2>4. SumFunction(part(Q)) <= SumFunction(part(R \ {x}))
    BY <2>3
  <2>5. w[x] \in Nat /\ SumFunction(part(R \ {x})) \in Nat /\ SumFunction(part(Q)) \in Nat
    BY <1>1, <2>1
  <2> QED
    BY <1>2, <2>2, <2>4, <2>5
<1> HIDE DEF G
<1>4. S \in G
  BY <1>3, BySubsets
<1>5. part(S) = w
  BY DEF part
<1> QED
  BY <1>4, <1>5 DEF G, part

-----------------------------------------------------------------------------
(* The invariant of the publications and of the requests about them.       *)

Leases   == [pool : Pools, bytes : Sizes]
Payloads == [owner : {Owner(id) : id \in Identities}, key : Keys, size : Sizes, pool : Pools]
Stages   == {"idle", "opening", "sizing", "reserving", "storing", "repinning", "resolving", "checking",
             "taking", "captured", "confirming", "agreeing", "working", "pressed", "owner", "aggregate",
             "again", "done"}
Jobs     == [kind : {"none", "sync", "copy", "share"}, identity : Identities, key : Keys, size : Nat,
             pool : Pools \cup {<<>>}, pinned : Nat, held : Nat, token : Nat,
             own : Leases \cup {<<>>}, trimmed : SUBSET {"owner", "aggregate"}]
Claims   == [pool : Pools \cup {<<>>}, bytes : Nat, level : 0..3, up : BOOLEAN]

\* A query's answer is about the publication it was asked about.
Answers ==
    /\ DOMAIN result = CaseRequests
    /\ \A r \in CaseRequests : result[r] \notin {NoAnswer, Refused} => result[r].token = result[r].pinned

\* The types of the publications and of the requests about them.
CaseTypes ==
    /\ payloads \in Seq(Payloads)
    /\ \A t \in 1..Len(payloads) : payloads[t].owner = OwnerOf(payloads[t].pool)
    /\ entries \subseteq 1..Len(payloads)
    /\ used \in [DOMAIN used -> Nat]
    /\ stage \in [CaseRequests -> Stages]
    /\ job \in [CaseRequests -> Jobs]
    /\ claim \in [CaseRequests -> Claims]
    /\ shed \in [CaseRequests -> SUBSET (1..Len(payloads))]
    /\ \A r \in CaseRequests : job[r].held <= Len(payloads)
    /\ Answers

\* The places of a request that waits for a reservation.
Queued == {"reserving", "pressed", "owner", "aggregate", "again"}

\* What a request has at each place.
Proper(r) ==
    /\ stage[r] = "idle" => job[r] = NoJob
    /\ stage[r] = "done" => job[r] = [NoJob EXCEPT !.own = job[r].own]
    /\ job[r].own # <<>> => stage[r] \in {"storing", "captured", "confirming", "agreeing", "working", "done"}
    /\ claim[r].up => stage[r] = "reserving"
    /\ claim[r] # NoClaim => claim[r].pool \in Pools /\ claim[r].bytes \in Sizes
    /\ stage[r] = "reserving" => /\ claim[r] # NoClaim
                                 /\ claim[r].pool = job[r].pool /\ claim[r].bytes = job[r].size
    /\ stage[r] \in {"reserving", "pressed"} => shed[r] = {}
    /\ stage[r] = "pressed" => claim[r] = NoClaim
    /\ stage[r] \notin {"idle", "opening", "repinning", "done"} =>
           job[r].pool \in Pools /\ OwnerOf(job[r].pool) = Mine(r)
    /\ stage[r] \notin {"idle", "done"} => job[r].kind # "none"
    /\ job[r].kind = "sync" =>
           /\ stage[r] \in {"opening", "sizing", "storing"} \cup Queued
           /\ job[r].held = 0 /\ job[r].size \in Sizes
           /\ stage[r] \in {"storing"} \cup Queued => job[r].size <= Materialized(job[r].pool)
    /\ stage[r] \in {"sizing", "storing"} => job[r].kind = "sync"
    /\ stage[r] = "storing" => job[r].own = Lease(job[r].pool, job[r].size)
    /\ stage[r] \in Queued => job[r].size \in Sizes
    /\ stage[r] \in {"opening", "repinning", "resolving"} => job[r].held = 0
    /\ stage[r] \in {"checking", "taking"} => job[r].held # 0 /\ job[r].kind # "sync"

\* What is to be given back is nobody's any more.
Apart(r) ==
    \A t \in shed[r] : /\ t \notin entries
                       /\ \A q \in CaseRequests : job[q].held # t
                       /\ \A q \in CaseRequests \ {r} : t \notin shed[q]

\* A query has resolved its key once it is past these places.
Resolved(r) == job[r].kind # "sync" /\ stage[r] \in Queued \cup {"checking", "taking", "captured"}

\* What was pinned is a publication under the query's key.  A publication that left
\* never comes back, so that if the pinned one is in the cache it was there all the time,
\* and it is what the query resolved.
Pinned(r) ==
    /\ job[r].kind \notin {"none", "sync"} =>
           /\ job[r].pinned \in 1..Len(payloads)
           /\ payloads[job[r].pinned].owner = Mine(r)
           /\ payloads[job[r].pinned].key = job[r].key
    /\ Resolved(r) /\ job[r].pinned \in entries => job[r].token = job[r].pinned
    /\ stage[r] \in {"confirming", "agreeing", "working"} => job[r].token = job[r].pinned

\* The limits of what is kept.
Cached ==
    /\ \A m, n \in entries :
           payloads[m].owner = payloads[n].owner /\ payloads[m].key = payloads[n].key => m = n
    /\ Cardinality(entries) <= MaxEntries
    /\ SumFunction([t \in entries |-> payloads[t].size]) <= Retained

KInv == /\ CaseTypes /\ Cached /\ Load(Application) <= Live
        /\ \A r \in CaseRequests : Proper(r) /\ Apart(r) /\ Pinned(r)

\* Every counter, of whatever is or is not an account.
CreditRight == \A account : Load(account) = Charged(account)

-----------------------------------------------------------------------------
(* What is charged.                                                        *)

Well == CaseTypes /\ \A r \in CaseRequests : Proper(r)

\* A pool's three accounts are different, so a lease is charged level by level.
LEMMA Sharing ==
    ASSUME NEW lease, lease.pool \in Pools, lease.bytes \in Nat, NEW account
    PROVE  /\ Share(account, lease, 0) = 0
           /\ \A n \in 0..3 : Share(account, lease, n) \in Nat
           /\ \A n \in 0..2 : Share(account, lease, n + 1)
                 = Share(account, lease, n)
                   + IF Accounts(lease.pool)[n + 1] = account THEN lease.bytes ELSE 0
<1>1. PICK a, b, q, r : lease.pool = <<a, b, q, r>>
  BY DEF Pools
<1> DEFINE A == Accounts(lease.pool)
<1>2. A[1] = <<a, b>> /\ A[2] = <<>> /\ A[3] = <<a, b, q, r>>
  BY <1>1 DEF Accounts, OwnerOf, Application
<1>3. A[1] # A[2] /\ A[2] # A[3] /\ A[1] # A[3]
  <2>1. Len(<<a, b>>) = 2 /\ Len(<<>>) = 0 /\ Len(<<a, b, q, r>>) = 4
    OBVIOUS
  <2> QED
    BY <1>2, <2>1
<1> HIDE DEF A
<1>4. \A n \in 0..3 : Share(account, lease, n) = IF \E m \in 1..n : A[m] = account THEN lease.bytes ELSE 0
  BY DEF Share, A
<1>5. /\ Share(account, lease, 0) = 0
      /\ Share(account, lease, 1) = IF A[1] = account THEN lease.bytes ELSE 0
      /\ Share(account, lease, 2) = IF A[1] = account \/ A[2] = account THEN lease.bytes ELSE 0
      /\ Share(account, lease, 3) = IF A[1] = account \/ A[2] = account \/ A[3] = account
                                    THEN lease.bytes ELSE 0
  <2>1. 1..0 = {} /\ 1..1 = {1} /\ 1..2 = {1, 2} /\ 1..3 = {1, 2, 3}
    OBVIOUS
  <2> QED
    BY <1>4, <2>1
<1>6. \A n \in 0..2 : Share(account, lease, n + 1)
         = Share(account, lease, n) + IF A[n + 1] = account THEN lease.bytes ELSE 0
  <2> TAKE n \in 0..2
  <2>1. n = 0 \/ n = 1 \/ n = 2
    OBVIOUS
  <2> QED
    BY <1>3, <1>5, <2>1
<1>7. \A n \in 0..3 : Share(account, lease, n) \in Nat
  BY <1>4
<1> QED
  BY <1>5, <1>6, <1>7 DEF A

\* A counter goes up...
LEMMA Charging ==
    ASSUME used \in [DOMAIN used -> Nat], NEW account, NEW n \in Nat,
           used' = used (+) [x \in {account} |-> n]
    PROVE  /\ used' \in [DOMAIN used' -> Nat]
           /\ \A x : Load(x)' = Load(x) + IF x = account THEN n ELSE 0
<1>1. used' = [x \in DOMAIN used \cup {account} |->
                 (IF x \in DOMAIN used THEN used[x] ELSE 0) + IF x = account THEN n ELSE 0]
  BY DEF (+)
<1> QED
  BY <1>1 DEF Load

\* ... and down.
LEMMA Releasing ==
    ASSUME used \in [DOMAIN used -> Nat], NEW account, NEW n \in Nat, n <= Load(account),
           used' = used (-) [x \in {account} |-> n]
    PROVE  /\ used' \in [DOMAIN used' -> Nat]
           /\ \A x : Load(x)' + (IF x = account THEN n ELSE 0) = Load(x)
<1> DEFINE less(x) == IF x = account THEN used[x] - n ELSE used[x]
<1>1. used' = [x \in {y \in DOMAIN used : less(y) > 0} |-> less(x)]
  BY DEF (-)
<1>2. \A x \in DOMAIN used : less(x) \in Nat
  BY DEF Load
<1>3. DOMAIN used' = {y \in DOMAIN used : less(y) > 0}
  BY <1>1
<1>4. used' \in [DOMAIN used' -> Nat]
  <2> HIDE DEF less
  <2> QED
    BY <1>1, <1>2, <1>3
<1>5. ASSUME NEW x PROVE Load(x)' + (IF x = account THEN n ELSE 0) = Load(x)
  <2>1. CASE x \notin DOMAIN used
    BY <1>3, <2>1 DEF Load
  <2>2. CASE x \in DOMAIN used
    <3>1. Load(x)' = less(x)
      <4>1. CASE less(x) > 0
        BY <1>1, <1>3, <2>2, <4>1 DEF Load
      <4>2. CASE ~(less(x) > 0)
        BY <1>2, <1>3, <2>2, <4>2 DEF Load
      <4> QED
        BY <4>1, <4>2
    <3> QED
      BY <2>2, <3>1 DEF Load
  <2> QED
    BY <2>1, <2>2
<1> QED
  BY <1>4, <1>5

\* What is charged is a number, for every payload and every request.
Countable ==
    /\ IsFiniteSet(Alive) /\ Alive \subseteq 1..Len(payloads)
    /\ \A t \in 1..Len(payloads) : \A account : Share(account, CreditOf(t), 3) \in Nat
    /\ \A r \in CaseRequests : \A account : ChargedBy(r, account) \in Nat

\* It is so in every state with the types...
LEMMA Numbers == Well => Countable
<1> SUFFICES ASSUME Well PROVE Countable
  OBVIOUS
<1>0. CaseTypes /\ Sizes \subseteq Nat /\ Len(payloads) \in Nat
  BY CacheAssumption DEF Well, CaseTypes
<1>1. Alive \subseteq 1..Len(payloads)
  <2>1. \A r \in CaseRequests : job[r].held \in 0..Len(payloads) /\ shed[r] \subseteq 1..Len(payloads)
    BY <1>0 DEF CaseTypes, Jobs
  <2>2. entries \subseteq 1..Len(payloads)
    BY <1>0 DEF CaseTypes
  <2>3. \A r \in CaseRequests : job[r].held # 0 => job[r].held \in 1..Len(payloads)
    BY <1>0, <2>1
  <2> QED
    BY <2>1, <2>2, <2>3 DEF Alive
<1>2. IsFiniteSet(Alive)
  <2>1. IsFiniteSet(1..Len(payloads))
    BY <1>0, FS_Interval
  <2> QED
    BY <1>1, <2>1, FS_Subset
<1>3. ASSUME NEW t \in 1..Len(payloads), NEW account PROVE Share(account, CreditOf(t), 3) \in Nat
  <2>0. payloads[t] \in Payloads
    BY <1>0 DEF CaseTypes
  <2>1. payloads[t].pool \in Pools /\ payloads[t].size \in Nat
    BY <1>0, <2>0 DEF Payloads
  <2>2. CreditOf(t).pool \in Pools /\ CreditOf(t).bytes \in Nat
    BY <2>1 DEF CreditOf, Lease
  <2> QED
    BY <2>2, Sharing
<1>4. ASSUME NEW r \in CaseRequests, NEW account PROVE ChargedBy(r, account) \in Nat
  <2>1. job[r].own # <<>> => job[r].own.pool \in Pools /\ job[r].own.bytes \in Nat
    BY <1>0 DEF CaseTypes, Jobs, Leases
  <2>2. claim[r] # NoClaim => claim[r].pool \in Pools /\ claim[r].bytes \in Nat /\ claim[r].level \in 0..3
    BY <1>0 DEF Well, Proper, CaseTypes, Claims
  <2>3. job[r].own # <<>> => Share(account, job[r].own, 3) \in Nat
    BY <2>1, Sharing
  <2>4. claim[r] # NoClaim => Share(account, claim[r], claim[r].level) \in Nat
    BY <2>2, Sharing
  <2> QED
    BY <2>3, <2>4 DEF ChargedBy
<1> QED
  BY <1>1, <1>2, <1>3, <1>4 DEF Countable

\* ... the next one too.
LEMMA NumbersAfter == Well' => Countable'
BY Numbers, PTL

Tokens(account) == [t \in Alive |-> Share(account, CreditOf(t), 3)]
Charges(account) == [r \in CaseRequests |-> ChargedBy(r, account)]

\* The counters stay exact when one request charges what its own charge grows by.
LEMMA ChargeChanges ==
    ASSUME CreditRight, Well, Well', NEW r \in CaseRequests, Alive' = Alive,
           \A t \in Alive : CreditOf(t)' = CreditOf(t),
           \A q \in CaseRequests \ {r} : \A account : ChargedBy(q, account)' = ChargedBy(q, account),
           \A account : Load(account)' + ChargedBy(r, account) = Load(account) + ChargedBy(r, account)'
    PROVE  CreditRight'
<1> SUFFICES ASSUME NEW account PROVE Load(account)' = Charged(account)'
  BY DEF CreditRight
<1> DEFINE v == Charges(account)'
           w == Charges(account)
<1>1. Tokens(account)' = Tokens(account)
  BY DEF Tokens
<1>2. /\ v \in [CaseRequests -> Nat] /\ w \in [CaseRequests -> Nat]
      /\ v[r] = ChargedBy(r, account)' /\ w[r] = ChargedBy(r, account)
      /\ \A q \in CaseRequests \ {r} : v[q] = w[q]
  BY Numbers, NumbersAfter DEF Charges, Countable
<1>3. SumFunction(v) + w[r] = SumFunction(w) + v[r]
  <2> HIDE DEF v, w
  <2> QED
    BY <1>2, SumChanged, CacheAssumption
<1>4. /\ Charged(account) = SumFunction(Tokens(account)) + SumFunction(w)
      /\ Charged(account)' = SumFunction(Tokens(account)') + SumFunction(v)
  BY DEF Charged, Tokens, Charges
<1>5. SumFunction(v) \in Nat /\ SumFunction(w) \in Nat /\ SumFunction(Tokens(account)) \in Nat
  <2>1. Tokens(account) \in [Alive -> Nat] /\ IsFiniteSet(Alive)
    BY Numbers DEF Tokens, Countable
  <2> HIDE DEF v, w
  <2> QED
    BY <1>2, <2>1, SumWithout, CacheAssumption
<1>6. Load(account) = Charged(account)
  BY DEF CreditRight
<1>7. v[r] \in Nat /\ w[r] \in Nat
  BY <1>2
<1>8. Load(account)' + w[r] = Load(account) + v[r]
  BY <1>2
<1> HIDE DEF v, w
<1>9. Load(account) \in Nat
  BY <1>4, <1>5, <1>6
<1>10. Load(account)' \in Nat
  BY DEF Well, CaseTypes, Load
<1> QED
  BY <1>1, <1>3, <1>4, <1>5, <1>6, <1>7, <1>8, <1>9, <1>10

\* They stay exact when a payload's credit passes to a request...
LEMMA TokenLeaves ==
    ASSUME CreditRight, Well, Well', NEW r \in CaseRequests, NEW t \in Alive, Alive' = Alive \ {t},
           used' = used, \A s \in Alive : CreditOf(s)' = CreditOf(s),
           \A q \in CaseRequests \ {r} : \A account : ChargedBy(q, account)' = ChargedBy(q, account),
           \A account : ChargedBy(r, account)' = ChargedBy(r, account) + Share(account, CreditOf(t), 3)
    PROVE  CreditRight'
<1> SUFFICES ASSUME NEW account PROVE Load(account)' = Charged(account)'
  BY DEF CreditRight
<1> DEFINE v == Charges(account)'
           w == Charges(account)
           x == Tokens(account)
<1>1. /\ x \in [Alive -> Nat] /\ IsFiniteSet(Alive) /\ x[t] = Share(account, CreditOf(t), 3)
      /\ Tokens(account)' = Without(x, t) /\ Without(x, t) \in [Alive \ {t} -> Nat]
  BY Numbers DEF Tokens, Countable, Without
<1>2. /\ v \in [CaseRequests -> Nat] /\ w \in [CaseRequests -> Nat]
      /\ v[r] = w[r] + x[t]
      /\ \A q \in CaseRequests \ {r} : v[q] = w[q]
  BY <1>1, Numbers, NumbersAfter DEF Charges, Countable
<1>3. /\ Load(account)' = Load(account) /\ Load(account) = Charged(account)
      /\ Charged(account) = SumFunction(x) + SumFunction(w)
      /\ Charged(account)' = SumFunction(Tokens(account)') + SumFunction(v)
  BY DEF CreditRight, Load, Charged, Tokens, Charges
<1> HIDE DEF v, w, x
<1>4. SumFunction(v) + w[r] = SumFunction(w) + v[r]
  BY <1>2, SumChanged, CacheAssumption
<1>5. SumFunction(x) = x[t] + SumFunction(Tokens(account)')
  <2>1. SumFunction(x) = x[t] + SumFunction(Without(x, t))
    BY <1>1, SumWithout
  <2> QED
    BY <1>1, <2>1
<1>6. SumFunction(v) \in Nat /\ SumFunction(w) \in Nat /\ SumFunction(x) \in Nat
  BY <1>1, <1>2, SumWithout, CacheAssumption
<1>7. SumFunction(Tokens(account)') \in Nat
  <2>1. IsFiniteSet(Alive \ {t})
    BY <1>1, FS_Subset
  <2> QED
    BY <1>1, <2>1, SumWithout
<1>8. v[r] \in Nat /\ w[r] \in Nat /\ x[t] \in Nat
  BY <1>1, <1>2
<1> QED
  BY <1>2, <1>3, <1>4, <1>5, <1>6, <1>7, <1>8

\* ... and when a request's lease becomes a payload's.
LEMMA TokenComes ==
    ASSUME CreditRight, Well, Well', NEW r \in CaseRequests, NEW t, t \notin Alive, Alive' = Alive \cup {t},
           used' = used, \A s \in Alive : CreditOf(s)' = CreditOf(s),
           \A q \in CaseRequests \ {r} : \A account : ChargedBy(q, account)' = ChargedBy(q, account),
           \A account : ChargedBy(r, account) = ChargedBy(r, account)' + Share(account, CreditOf(t)', 3)
    PROVE  CreditRight'
<1> SUFFICES ASSUME NEW account PROVE Load(account)' = Charged(account)'
  BY DEF CreditRight
<1> DEFINE v == Charges(account)'
           w == Charges(account)
           x == Tokens(account)'
<1>1. /\ x \in [Alive' -> Nat] /\ IsFiniteSet(Alive') /\ x[t] = Share(account, CreditOf(t)', 3)
      /\ Tokens(account) = Without(x, t) /\ Without(x, t) \in [Alive' \ {t} -> Nat]
  <2>1. x \in [Alive' -> Nat] /\ IsFiniteSet(Alive') /\ x[t] = Share(account, CreditOf(t)', 3)
    BY NumbersAfter DEF Tokens, Countable
  <2>2. Alive' \ {t} = Alive /\ \A s \in Alive : x[s] = Share(account, CreditOf(s), 3)
    BY DEF Tokens
  <2> HIDE DEF x
  <2>3. Tokens(account) = Without(x, t) /\ Without(x, t) \in [Alive' \ {t} -> Nat]
    BY <2>1, <2>2 DEF Tokens, Without
  <2> QED
    BY <2>1, <2>3
<1>2. /\ v \in [CaseRequests -> Nat] /\ w \in [CaseRequests -> Nat]
      /\ w[r] = v[r] + x[t]
      /\ \A q \in CaseRequests \ {r} : v[q] = w[q]
  BY <1>1, Numbers, NumbersAfter DEF Charges, Countable
<1>3. /\ Load(account)' = Load(account) /\ Load(account) = Charged(account)
      /\ Charged(account) = SumFunction(Tokens(account)) + SumFunction(w)
      /\ Charged(account)' = SumFunction(x) + SumFunction(v)
  BY DEF CreditRight, Load, Charged, Tokens, Charges
<1> HIDE DEF v, w, x
<1>4. SumFunction(v) + w[r] = SumFunction(w) + v[r]
  BY <1>2, SumChanged, CacheAssumption
<1>5. SumFunction(x) = x[t] + SumFunction(Tokens(account))
  <2>1. t \in Alive'
    OBVIOUS
  <2>2. SumFunction(x) = x[t] + SumFunction(Without(x, t))
    BY <1>1, <2>1, SumWithout
  <2> QED
    BY <1>1, <2>2
<1>6. SumFunction(v) \in Nat /\ SumFunction(w) \in Nat /\ SumFunction(x) \in Nat
  BY <1>1, <1>2, SumWithout, CacheAssumption
<1>7. SumFunction(Tokens(account)) \in Nat
  <2>1. IsFiniteSet(Alive' \ {t})
    BY <1>1, FS_Subset
  <2> QED
    BY <1>1, <2>1, SumWithout
<1>8. v[r] \in Nat /\ w[r] \in Nat /\ x[t] \in Nat
  BY <1>1, <1>2
<1> QED
  BY <1>2, <1>3, <1>4, <1>5, <1>6, <1>7, <1>8

-----------------------------------------------------------------------------
(* What a request's step leaves of the others and of the cache.            *)

SameCase(q) == /\ stage'[q] = stage[q] /\ job'[q] = job[q]
               /\ claim'[q] = claim[q] /\ shed'[q] = shed[q]

\* Where a request's payloads come from.
FromHere(r) == /\ job'[r].held \in {0, job[r].held} \cup entries
               /\ shed'[r] \subseteq (shed[r] \cup entries \cup {job[r].held}) \ {0}

\* What was published stays as it was, and what left the cache stays outside.
Older == /\ Len(payloads) <= Len(payloads')
         /\ \A t \in 1..Len(payloads) : payloads'[t] = payloads[t] /\ (t \in entries' => t \in entries)

\* A step of one request says nothing of another's, which lost at most what was in the
\* cache and nobody's.
LEMMA OthersStay ==
    ASSUME KInv, NEW r \in CaseRequests, \A q \in CaseRequests \ {r} : SameCase(q),
           Older, Len(payloads') \in Nat, FromHere(r)
    PROVE  \A q \in CaseRequests \ {r} : Proper(q)' /\ Apart(q)' /\ Pinned(q)'
<1> TAKE q \in CaseRequests \ {r}
<1>1. SameCase(q) /\ Proper(q) /\ Apart(q) /\ Pinned(q)
  BY DEF KInv
<1>2. Proper(q)'
  BY <1>1 DEF SameCase, Proper, Mine, Materialized
<1>3. Pinned(q)'
  <2>1. Len(payloads) \in Nat
    BY DEF KInv, CaseTypes
  <2>2. \A t \in 1..Len(payloads) : t \in 1..Len(payloads') /\ payloads'[t] = payloads[t] /\ (t \in entries' => t \in entries)
    BY <2>1 DEF Older
  <2>3. job'[q] = job[q] /\ stage'[q] = stage[q]
    BY <1>1 DEF SameCase
  <2>4. job[q].kind \in {"none", "sync"} => ~Resolved(q)'
    BY <1>1, <2>3 DEF Proper, Resolved, Queued
  <2>5. Resolved(q)' => Resolved(q)
    BY <2>3 DEF Resolved
  <2> QED
    BY <1>1, <2>2, <2>3, <2>4, <2>5 DEF Pinned, Mine
<1>4. Apart(q)'
  <2> SUFFICES ASSUME NEW t \in shed[q]
               PROVE  /\ t \notin entries'
                      /\ \A p \in CaseRequests : job'[p].held # t
                      /\ \A p \in CaseRequests \ {q} : t \notin shed'[p]
    BY <1>1 DEF SameCase, Apart
  <2>1. /\ t \in 1..Len(payloads) /\ t \notin entries /\ t # 0
        /\ \A p \in CaseRequests : job[p].held # t
        /\ \A p \in CaseRequests \ {q} : t \notin shed[p]
    BY <1>1 DEF Apart, KInv, CaseTypes
  <2>2. job'[r].held # t /\ t \notin shed'[r] /\ t \notin entries'
    BY <2>1 DEF FromHere, Older
  <2>3. \A p \in CaseRequests \ {r} : job'[p].held = job[p].held /\ shed'[p] = shed[p]
    BY DEF SameCase
  <2> QED
    BY <2>1, <2>2, <2>3
<1> QED
  BY <1>2, <1>3, <1>4

\* The cache is within its limits when something leaves it.
LEMMA FewerCached ==
    ASSUME KInv, payloads' = payloads, entries' \subseteq entries
    PROVE  Cached'
<1>0. Cached /\ IsFiniteSet(entries) /\ Cardinality(entries) \in Nat
  <2>1. entries \subseteq 1..Len(payloads) /\ Len(payloads) \in Nat
    BY DEF KInv, CaseTypes
  <2>2. IsFiniteSet(1..Len(payloads))
    BY <2>1, FS_Interval
  <2> QED
    BY <2>1, <2>2, FS_Subset, FS_CardinalityType DEF KInv
<1>1. Cardinality(entries') <= MaxEntries
  <2>1. Cardinality(entries') \in Nat /\ Cardinality(entries') <= Cardinality(entries)
    BY <1>0, FS_Subset, FS_CardinalityType
  <2> QED
    BY <1>0, <2>1, CacheAssumption DEF Cached
<1>2. SumFunction([t \in entries' |-> payloads'[t].size]) <= Retained
  <2> DEFINE w == [t \in entries |-> payloads[t].size]
             v == [t \in entries' |-> w[t]]
  <2>1. w \in [entries -> Nat]
    <3>1. \A t \in entries : payloads[t] \in Payloads
      BY DEF KInv, CaseTypes
    <3> QED
      BY <3>1, CacheAssumption DEF Payloads
  <2>2. v = [t \in entries' |-> payloads'[t].size]
    OBVIOUS
  <2>3. v \in [entries' -> Nat] /\ IsFiniteSet(entries')
    BY <1>0, <2>1, FS_Subset
  <2>4. SumFunction(w) <= Retained
    BY <1>0 DEF Cached
  <2>5. SumFunction(v) <= SumFunction(w)
    <3> HIDE DEF w
    <3> QED
      BY <1>0, <2>1, SumLess
  <2> HIDE DEF v, w
  <2>6. SumFunction(v) \in Nat /\ SumFunction(w) \in Nat
    BY <1>0, <2>1, <2>3, SumWithout
  <2> QED
    BY <2>2, <2>4, <2>5, <2>6, QuotaAssumption
<1>3. \A m, n \in entries' :
          payloads'[m].owner = payloads'[n].owner /\ payloads'[m].key = payloads'[n].key => m = n
  BY <1>0 DEF Cached
<1> QED
  BY <1>1, <1>2, <1>3 DEF Cached

\* What a request moves between the cache, its hands and what it gives back stays alive.
LEMMA AliveStays ==
    ASSUME KInv, NEW r \in CaseRequests, \A q \in CaseRequests \ {r} : SameCase(q), FromHere(r),
           entries' \subseteq entries,
           entries \cup shed[r] \cup ({job[r].held} \ {0})
             \subseteq entries' \cup shed'[r] \cup {job'[r].held}
                       \cup {job[q].held : q \in CaseRequests \ {r}}
    PROVE  Alive' = Alive
<1>1. \A q \in CaseRequests \ {r} : job'[q].held = job[q].held /\ shed'[q] = shed[q]
  BY DEF SameCase
<1>2. Alive' = entries' \cup ({job'[q].held : q \in CaseRequests} \ {0}) \cup UNION {shed'[q] : q \in CaseRequests}
  BY DEF Alive
<1>3. 0 \notin entries /\ 0 \notin shed[r]
  BY DEF KInv, CaseTypes
<1>4. ASSUME NEW t \in Alive PROVE t \in Alive'
  <2>1. CASE t \in entries \cup shed[r] \cup ({job[r].held} \ {0})
    BY <1>1, <1>2, <1>3, <2>1
  <2>2. ASSUME NEW q \in CaseRequests \ {r}, t \in ({job[q].held} \ {0}) \cup shed[q] PROVE t \in Alive'
    BY <1>1, <1>2, <2>2
  <2> QED
    BY <2>1, <2>2 DEF Alive
<1>5. ASSUME NEW t \in Alive' PROVE t \in Alive
  <2>1. CASE t \in entries'
    BY <2>1 DEF Alive
  <2>2. CASE t \in shed'[r] \cup ({job'[r].held} \ {0})
    <3>1. t \in shed[r] \/ t \in entries \/ t \in {job[r].held} \ {0}
      BY <2>2 DEF FromHere
    <3> QED
      BY <3>1 DEF Alive
  <2>3. ASSUME NEW q \in CaseRequests \ {r}, t \in ({job'[q].held} \ {0}) \cup shed'[q] PROVE t \in Alive
    BY <1>1, <2>3 DEF Alive
  <2> QED
    BY <1>2, <2>1, <2>2, <2>3
<1> QED
  BY <1>4, <1>5

-----------------------------------------------------------------------------
(* A request's step, as what it makes of the request.                      *)

Becomes(r, s, j, c, d) ==
    /\ stage' = [stage EXCEPT ![r] = s] /\ job' = [job EXCEPT ![r] = j]
    /\ claim' = [claim EXCEPT ![r] = c] /\ shed' = [shed EXCEPT ![r] = d]

Typed(s, j, c, d) == /\ s \in Stages /\ j \in Jobs /\ j.held <= Len(payloads)
                     /\ c \in Claims /\ d \in SUBSET (1..Len(payloads))

\* A request that has nothing.
LEMMA Nothing ==
    /\ NoJob \in Jobs /\ NoJob.kind = "none" /\ NoJob.held = 0 /\ NoJob.own = <<>>
    /\ NoClaim \in Claims /\ ~NoClaim.up /\ NoClaim.level = 0
    /\ \A p \in Pools : p # <<>> /\ p # NoClaim.pool
    /\ \A l \in Leases : l # <<>>
<1>1. Nobody \in Identities /\ \E k \in Keys : TRUE
  BY ConstantTypes, CacheAssumption
<1>2. (CHOOSE k \in Keys : TRUE) \in Keys
  BY <1>1
<1>3. NoJob \in Jobs /\ NoJob.kind = "none" /\ NoJob.held = 0 /\ NoJob.own = <<>>
  BY <1>1, <1>2 DEF NoJob, Jobs
<1>4. NoClaim \in Claims /\ ~NoClaim.up /\ NoClaim.level = 0 /\ NoClaim.pool = <<>>
  BY DEF NoClaim, Claims
<1>5. ASSUME NEW p \in Pools PROVE p # <<>>
  <2>1. PICK a, b, q, r : p = <<a, b, q, r>>
    BY DEF Pools
  <2>2. Len(<<a, b, q, r>>) = 4 /\ Len(<<>>) = 0
    OBVIOUS
  <2> QED
    BY <2>1, <2>2
<1>6. ASSUME NEW l \in Leases PROVE l # <<>>
  <2>1. DOMAIN l = {"pool", "bytes"} /\ DOMAIN <<>> = {}
    BY DEF Leases
  <2> QED
    BY <2>1
<1> QED
  BY <1>3, <1>4, <1>5, <1>6

\* The lease that pays for a payload.
LEMMA CreditTypes ==
    ASSUME CaseTypes, NEW t \in 1..Len(payloads)
    PROVE  /\ CreditOf(t) \in Leases /\ CreditOf(t).pool = payloads[t].pool
           /\ CreditOf(t).bytes = payloads[t].size
           /\ payloads[t].pool \in Pools /\ payloads[t].size \in Sizes
<1>1. payloads[t] \in Payloads
  BY DEF CaseTypes
<1> QED
  BY <1>1 DEF Payloads, Leases, CreditOf, Lease

\* A charge, from its parts.
LEMMA ChargeTypes ==
    ASSUME NEW p \in Pools, NEW b \in Nat, NEW l \in 0..3, NEW u \in BOOLEAN, NEW c,
           c = [pool |-> p, bytes |-> b, level |-> l, up |-> u]
    PROVE  /\ c \in Claims /\ c.pool = p /\ c.bytes = b /\ c.level = l /\ c.up = u
           /\ c # NoClaim
<1>1. c \in Claims /\ c.pool = p /\ c.bytes = b /\ c.level = l /\ c.up = u
  BY DEF Claims
<1>2. p # NoClaim.pool
  BY Nothing
<1> QED
  BY <1>1, <1>2

\* A lease to be taken back.
LEMMA GivenUp ==
    ASSUME NEW p \in Pools, NEW b \in Nat, NEW c,
           c = [pool |-> p, bytes |-> b, level |-> 3, up |-> FALSE]
    PROVE  /\ c \in Claims /\ c.pool = p /\ c.bytes = b /\ c.level = 3 /\ ~c.up
           /\ c # NoClaim
<1>1. c \in Claims /\ c.pool = p /\ c.bytes = b /\ c.level = 3 /\ ~c.up
  BY DEF Claims
<1>2. p # NoClaim.pool
  BY Nothing
<1> QED
  BY <1>1, <1>2

\* What of a request's own lease is charged to an account.
LEMMA OwnShare ==
    ASSUME NEW j \in Jobs, NEW account
    PROVE  j.own # <<>> => Share(account, j.own, 3) \in Nat
<1>1. j.own \in Leases \cup {<<>>}
  BY DEF Jobs
<1>2. ASSUME j.own # <<>> PROVE Share(account, j.own, 3) \in Nat
  <2>1. j.own.pool \in Pools /\ j.own.bytes \in Sizes
    BY <1>1, <1>2 DEF Leases
  <2>2. j.own.bytes \in Nat
    BY <2>1, CacheAssumption
  <2> QED
    BY <2>1, <2>2, Sharing
<1> QED
  BY <1>2

\* The others are as they were.
LEMMA Stepped ==
    ASSUME CaseTypes, NEW r \in CaseRequests, NEW s, NEW j, NEW c, NEW d, Becomes(r, s, j, c, d)
    PROVE  /\ stage'[r] = s /\ job'[r] = j /\ claim'[r] = c /\ shed'[r] = d
           /\ \A q \in CaseRequests \ {r} : SameCase(q)
BY DEF CaseTypes, Becomes, SameCase

\* A step that publishes nothing keeps the invariant if it keeps what is said of its own
\* request and of the application's limit.
LEMMA RequestKeeps ==
    ASSUME KInv, NEW r \in CaseRequests, NEW s, NEW j, NEW c, NEW d,
           Becomes(r, s, j, c, d), Typed(s, j, c, d), FromHere(r), Answers',
           payloads' = payloads, entries' \subseteq entries, used' \in [DOMAIN used' -> Nat],
           Load(Application)' <= Live, Proper(r)', Apart(r)', Pinned(r)'
    PROVE  KInv'
<1>1. CaseTypes /\ Len(payloads) \in Nat
  BY DEF KInv, CaseTypes
<1>2. \A q \in CaseRequests \ {r} : SameCase(q)
  BY <1>1, Stepped
<1>3. Older
  BY <1>1 DEF Older
<1>4. \A q \in CaseRequests \ {r} : Proper(q)' /\ Apart(q)' /\ Pinned(q)'
  BY <1>1, <1>2, <1>3, OthersStay
<1>5. Cached'
  BY FewerCached
<1>6. /\ stage' \in [CaseRequests -> Stages] /\ job' \in [CaseRequests -> Jobs]
      /\ claim' \in [CaseRequests -> Claims] /\ shed' \in [CaseRequests -> SUBSET (1..Len(payloads'))]
  BY <1>1 DEF Becomes, Typed, CaseTypes
<1>7. \A q \in CaseRequests : job'[q].held <= Len(payloads')
  BY <1>1 DEF Becomes, Typed, CaseTypes
<1>8. CaseTypes'
  BY <1>1, <1>6, <1>7 DEF CaseTypes
<1>9. \A q \in CaseRequests : Proper(q)' /\ Apart(q)' /\ Pinned(q)'
  BY <1>4
<1>10. (Load(Application) <= Live)'
  OBVIOUS
<1>11. (\A q \in CaseRequests : Proper(q) /\ Apart(q) /\ Pinned(q))'
  BY <1>9
<1> QED
  BY <1>5, <1>8, <1>10, <1>11 DEF KInv

\* Nothing that is not the request's own charge changes, so that exactly what it charges
\* may be counted.
LEMMA StepCharges ==
    ASSUME KInv, KInv', CreditRight, NEW r \in CaseRequests, NEW s, NEW j, NEW c, NEW d,
           Becomes(r, s, j, c, d), FromHere(r), payloads' = payloads, entries' \subseteq entries,
           entries \cup shed[r] \cup ({job[r].held} \ {0})
             \subseteq entries' \cup shed'[r] \cup {job'[r].held}
                       \cup {job[q].held : q \in CaseRequests \ {r}},
           \A account : Load(account)' + ChargedBy(r, account) = Load(account) + ChargedBy(r, account)'
    PROVE  CreditRight'
<1>1. Well /\ Well'
  BY DEF KInv, Well
<1>2. \A q \in CaseRequests \ {r} : SameCase(q)
  BY Stepped DEF KInv
<1>3. Alive' = Alive
  BY <1>2, AliveStays
<1>4. \A t \in Alive : CreditOf(t)' = CreditOf(t)
  BY DEF CreditOf
<1>5. \A q \in CaseRequests \ {r} : \A account : ChargedBy(q, account)' = ChargedBy(q, account)
  BY <1>2 DEF SameCase, ChargedBy, Share
<1> QED
  BY <1>1, <1>3, <1>4, <1>5, ChargeChanges

\* A step that moves no credit.
LEMMA QuietKeeps ==
    ASSUME KInv, CreditRight, NEW r \in CaseRequests, NEW s \in Stages, NEW j \in Jobs,
           Ready(r), stage' = [stage EXCEPT ![r] = s], job' = [job EXCEPT ![r] = j], Quietly,
           j.held = job[r].held \/ (job[r].held = 0 /\ j.held \in entries),
           j.own = job[r].own, Proper(r)', Pinned(r)'
    PROVE  KInv' /\ CreditRight'
<1>1. CaseTypes /\ Len(payloads) \in Nat
  BY DEF KInv, CaseTypes
<1>2. /\ payloads' = payloads /\ entries' = entries /\ used' = used /\ result' = result
      /\ claim' = claim /\ shed' = shed
  BY DEF Quietly, credit
<1>3. Becomes(r, s, j, claim[r], shed[r])
  BY <1>1, <1>2 DEF Becomes, CaseTypes
<1>4. Typed(s, j, claim[r], shed[r])
  <2>1. job[r] \in Jobs /\ job[r].held <= Len(payloads) /\ entries \subseteq 1..Len(payloads)
    BY <1>1 DEF CaseTypes
  <2>2. j.held <= Len(payloads)
    <3>1. \A t \in entries : t <= Len(payloads)
      BY <1>1, <2>1
    <3> QED
      BY <2>1, <3>1
  <2> QED
    BY <1>1, <2>2 DEF Typed, CaseTypes
<1>5. job'[r] = j /\ claim'[r] = claim[r] /\ shed'[r] = shed[r] /\ shed[r] = {}
  BY <1>1, <1>3, Stepped DEF Ready
<1>6. FromHere(r)
  BY <1>5 DEF FromHere
<1>7. Apart(r)'
  BY <1>5 DEF Apart
<1>8. Load(Application)' <= Live /\ used' \in [DOMAIN used' -> Nat] /\ Answers'
  BY <1>1, <1>2 DEF KInv, CaseTypes, Load, Answers
<1>9. KInv'
  <2>1. payloads' = payloads /\ entries' \subseteq entries
    BY <1>2
  <2> QED
    BY <2>1, <1>3, <1>4, <1>6, <1>7, <1>8, RequestKeeps
<1>10. entries \cup shed[r] \cup ({job[r].held} \ {0})
         \subseteq entries' \cup shed'[r] \cup {job'[r].held}
                   \cup {job[q].held : q \in CaseRequests \ {r}}
  BY <1>2, <1>5
<1>11. ASSUME NEW account PROVE Load(account)' + ChargedBy(r, account) = Load(account) + ChargedBy(r, account)'
  <2>1. Load(account)' = Load(account) /\ ChargedBy(r, account)' = ChargedBy(r, account)
    BY <1>2, <1>5 DEF Load, ChargedBy, Share
  <2> QED
    BY <2>1
<1> QED
  BY <1>2, <1>3, <1>6, <1>9, <1>10, <1>11, StepCharges

\* The place a step without credit leaves.
LEMMA QuietMoves ==
    ASSUME KInv, CreditRight, NEW r \in CaseRequests, NEW from, NEW s \in Stages, NEW j \in Jobs,
           Moves(r, from, s), job' = [job EXCEPT ![r] = j], Quietly,
           j.held = job[r].held \/ (job[r].held = 0 /\ j.held \in entries),
           j.own = job[r].own,
           stage'[r] = s /\ job'[r] = j /\ claim'[r] = NoClaim /\ shed'[r] = {} /\ payloads' = payloads
             /\ entries' = entries /\ stage[r] = from
           => Proper(r)' /\ Pinned(r)'
    PROVE  KInv' /\ CreditRight'
<1>1. CaseTypes
  BY DEF KInv
<1>2. /\ stage' = [stage EXCEPT ![r] = s] /\ Ready(r) /\ stage[r] = from
      /\ payloads' = payloads /\ entries' = entries /\ claim' = claim /\ shed' = shed
  BY DEF Moves, Quietly, credit
<1>3. stage'[r] = s /\ job'[r] = j /\ claim'[r] = NoClaim /\ shed'[r] = {}
  BY <1>1, <1>2 DEF CaseTypes, Ready
<1> QED
  BY <1>2, <1>3, QuietKeeps

-----------------------------------------------------------------------------
(* The steps that move no credit.                                          *)

\* The publication under a key.
LEMMA EntryExact ==
    ASSUME NEW o, NEW k, Entry(o, k) # 0
    PROVE  /\ Entry(o, k) \in entries
           /\ payloads[Entry(o, k)].owner = o /\ payloads[Entry(o, k)].key = k
<1> DEFINE under == {t \in entries : payloads[t].owner = o /\ payloads[t].key = k}
<1>1. under # {} /\ Entry(o, k) = CHOOSE t \in under : TRUE
  BY DEF Entry
<1>2. Entry(o, k) \in under
  BY <1>1
<1> QED
  BY <1>2

\* There is only one.
LEMMA EntryOnly ==
    ASSUME Cached, 0 \notin entries, NEW t \in entries
    PROVE  Entry(payloads[t].owner, payloads[t].key) = t
<1> DEFINE o == payloads[t].owner
           k == payloads[t].key
           under == {n \in entries : payloads[n].owner = o /\ payloads[n].key = k}
<1>1. under = {t}
  BY DEF Cached
<1> QED
  BY <1>1 DEF Entry

\* The policy of a request is its Case's.
LEMMA PolicyTypes ==
    ASSUME CaseTypes, NEW r \in CaseRequests
    PROVE  PolicyOf(r) \in Pools /\ OwnerOf(PolicyOf(r)) = Mine(r)
<1> DEFINE id == job[r].identity
           quota == Quota[id.revision]
           same == {p \in {job[q].pool : q \in CaseRequests} \ {<<>>} :
                       OwnerOf(p) = Owner(id) /\ QuotaOf(p) = quota}
<1>1. id \in Identities
  BY DEF CaseTypes, Jobs
<1>2. \A p \in same : p \in Pools /\ OwnerOf(p) = Mine(r)
  BY DEF CaseTypes, Jobs, Mine
<1>3. <<id.case, id.analysis, quota, r>> \in Pools
  BY <1>1 DEF Pools
<1>4. OwnerOf(<<id.case, id.analysis, quota, r>>) = Owner(id)
  BY DEF OwnerOf, Owner
<1>5. PolicyOf(r) = IF same = {} THEN <<id.case, id.analysis, quota, r>> ELSE CHOOSE p \in same : TRUE
  BY DEF PolicyOf
<1> HIDE DEF same
<1> QED
  BY <1>2, <1>3, <1>4, <1>5 DEF Mine

\* The page publishes.
LEMMA SyncKeeps ==
    ASSUME KInv, CreditRight, IInv, NEW r \in CaseRequests, NEW c \in Cases, NEW k \in Keys, NEW n \in Sizes,
           Sync(r, c, k, n)
    PROVE  KInv' /\ CreditRight'
<1> DEFINE j == [job[r] EXCEPT !.kind = "sync", !.identity = IdentityOf(c), !.key = k, !.size = n]
<1>1. stage[r] = "idle" /\ Proper(r) /\ job[r] \in Jobs /\ n \in Nat
  BY CacheAssumption DEF Sync, Moves, KInv, CaseTypes
<1>2. job[r] = NoJob
  BY <1>1 DEF Proper
<1>3. IdentityOf(c) \in Identities
  BY Parted, NoCaseAssumption DEF IdentityOf, Identities, StoresOK
<1>4. /\ j \in Jobs /\ j.kind = "sync" /\ j.held = 0 /\ j.own = <<>> /\ j.size = n
      /\ job[r].held = 0 /\ job[r].own = <<>>
  BY <1>1, <1>2, <1>3, Nothing DEF Jobs
<1>5. job' = [job EXCEPT ![r] = j] /\ Moves(r, "idle", "opening") /\ Quietly
  BY DEF Sync
<1> HIDE DEF j
<1>6. ASSUME stage'[r] = "opening", job'[r] = j, claim'[r] = NoClaim, shed'[r] = {} PROVE Proper(r)' /\ Pinned(r)'
  <2>1. Proper(r)'
    BY <1>4, <1>6, Nothing DEF Proper, Queued
  <2>2. Pinned(r)'
    BY <1>4, <1>6 DEF Pinned, Resolved
  <2> QED
    BY <2>1, <2>2
<1> QED
  BY <1>4, <1>5, <1>6, QuietMoves DEF Stages

\* A query notes the publication it is about.
LEMMA PinCaseKeeps ==
    ASSUME KInv, CreditRight, IInv, NEW r \in CaseRequests, NEW c \in Cases, NEW k \in Keys,
           NEW kind \in {"copy", "share"}, PinCase(r, c, k, kind)
    PROVE  KInv' /\ CreditRight'
<1> DEFINE o == Owner(IdentityOf(c))
           t == Entry(o, k)
           j == [job[r] EXCEPT !.kind = kind, !.identity = IdentityOf(c), !.key = k, !.pinned = t]
<1>1. stage[r] = "idle" /\ Proper(r) /\ job[r] \in Jobs /\ entries \subseteq 1..Len(payloads) /\ Len(payloads) \in Nat
  BY DEF PinCase, Moves, KInv, CaseTypes
<1>2. job[r] = NoJob
  BY <1>1 DEF Proper
<1>3. IdentityOf(c) \in Identities
  BY Parted, NoCaseAssumption DEF IdentityOf, Identities, StoresOK
<1>4. /\ t \in 1..Len(payloads) /\ payloads[t].owner = o /\ payloads[t].key = k
  BY <1>1, EntryExact DEF PinCase
<1>5. job' = [job EXCEPT ![r] = j] /\ Moves(r, "idle", "repinning") /\ Quietly
  BY DEF PinCase
<1> HIDE DEF t
<1>6. /\ j \in Jobs /\ j.kind = kind /\ j.held = 0 /\ j.own = <<>> /\ j.pinned = t /\ j.key = k
      /\ j.identity = IdentityOf(c) /\ job[r].held = 0 /\ job[r].own = <<>>
  <2>1. job[r].held = 0 /\ job[r].own = <<>> /\ t \in Nat
    BY <1>1, <1>2, <1>4, Nothing
  <2>2. /\ j.kind = kind /\ j.held = job[r].held /\ j.own = job[r].own /\ j.pinned = t /\ j.key = k
        /\ j.identity = IdentityOf(c) /\ j \in Jobs
    BY <1>1, <1>3, <2>1 DEF Jobs
  <2> QED
    BY <2>1, <2>2
<1> HIDE DEF j
<1>7. ASSUME stage'[r] = "repinning", job'[r] = j, claim'[r] = NoClaim, shed'[r] = {}, payloads' = payloads
      PROVE Proper(r)' /\ Pinned(r)'
  <2>1. Proper(r)'
    BY <1>6, <1>7, Nothing DEF Proper, Queued
  <2>2. Pinned(r)'
    BY <1>4, <1>6, <1>7 DEF Pinned, Resolved, Mine, Queued
  <2> QED
    BY <2>1, <2>2
<1> QED
  BY <1>5, <1>6, <1>7, QuietMoves DEF Stages

\* The policy that the work is charged to.
LEMMA OpenKeeps ==
    ASSUME KInv, CreditRight, NEW r \in CaseRequests, Open(r)
    PROVE  KInv' /\ CreditRight'
<1> DEFINE j == [job[r] EXCEPT !.pool = PolicyOf(r)]
           to == IF job[r].kind = "sync" THEN "sizing" ELSE "resolving"
<1>1. CaseTypes /\ Proper(r) /\ Pinned(r) /\ job[r] \in Jobs
  BY DEF KInv, CaseTypes
<1>2. stage[r] = "opening" /\ Moves(r, "opening", to) /\ Quietly /\ job' = [job EXCEPT ![r] = j]
  BY DEF Open, Moves
<1>3. PolicyOf(r) \in Pools /\ OwnerOf(PolicyOf(r)) = Mine(r)
  BY <1>1, PolicyTypes
<1>4. /\ j \in Jobs /\ j.kind = job[r].kind /\ j.held = job[r].held /\ j.own = job[r].own /\ j.size = job[r].size
      /\ j.pinned = job[r].pinned /\ j.key = job[r].key /\ j.identity = job[r].identity /\ j.pool = PolicyOf(r)
      /\ j.token = job[r].token
  BY <1>1, <1>3 DEF Jobs
<1>5. /\ job[r].kind # "none" /\ job[r].held = 0 /\ job[r].own = <<>>
      /\ job[r].kind = "sync" => job[r].size \in Sizes
  BY <1>1, <1>2 DEF Proper
<1> HIDE DEF j
<1>6. ASSUME stage'[r] = to, job'[r] = j, claim'[r] = NoClaim, shed'[r] = {}, payloads' = payloads, entries' = entries
      PROVE Proper(r)' /\ Pinned(r)'
  <2>1. Proper(r)'
    BY <1>3, <1>4, <1>5, <1>6, Nothing DEF Proper, Queued, Mine
  <2>2. Pinned(r)'
    BY <1>1, <1>2, <1>4, <1>5, <1>6 DEF Pinned, Resolved, Mine, Queued
  <2> QED
    BY <2>1, <2>2
<1>7. to \in Stages
  BY DEF Stages
<1> HIDE DEF to
<1> QED
  BY <1>2, <1>4, <1>6, <1>7, QuietMoves

\* The publication is looked up once more: what was pinned, if it is there.
LEMMA RepinCaseKeeps ==
    ASSUME KInv, CreditRight, NEW r \in CaseRequests, RepinCase(r)
    PROVE  KInv' /\ CreditRight'
<1>1. /\ CaseTypes /\ Proper(r) /\ Pinned(r) /\ job[r] \in Jobs /\ Len(payloads) \in Nat
      /\ job' = [job EXCEPT ![r] = job[r]] /\ Quietly /\ Found(r) = job[r].pinned
  BY DEF KInv, CaseTypes, RepinCase
<1>2. CASE Moves(r, "repinning", "opening")
  <2>1. stage[r] = "repinning"
    BY <1>2 DEF Moves
  <2>2. ASSUME stage'[r] = "opening", job'[r] = job[r], claim'[r] = NoClaim, shed'[r] = {}, payloads' = payloads,
               entries' = entries
        PROVE  Proper(r)' /\ Pinned(r)'
    <3>1. Proper(r)'
      BY <1>1, <2>1, <2>2, Nothing DEF Proper, Queued, Mine
    <3>2. Pinned(r)'
      BY <1>1, <2>1, <2>2 DEF Pinned, Resolved, Mine, Queued
    <3> QED
      BY <3>1, <3>2
  <2> QED
    BY <1>1, <1>2, <2>2, QuietMoves DEF Stages
<1>3. CASE Moves(r, "captured", "confirming")
  <2>1. stage[r] = "captured"
    BY <1>3 DEF Moves
  <2>2. job[r].kind \notin {"none", "sync"}
    BY <1>1, <2>1 DEF Proper, Queued
  <2>3. job[r].pinned # 0
    BY <1>1, <2>2 DEF Pinned
  <2>4. job[r].pinned \in entries
    BY <1>1, <2>3, EntryExact DEF Found
  <2>5. job[r].token = job[r].pinned
    BY <1>1, <2>1, <2>2, <2>4 DEF Pinned, Resolved
  <2>6. ASSUME stage'[r] = "confirming", job'[r] = job[r], claim'[r] = NoClaim, shed'[r] = {}, payloads' = payloads,
               entries' = entries
        PROVE  Proper(r)' /\ Pinned(r)'
    <3>1. Proper(r)'
      BY <1>1, <2>1, <2>2, <2>6, Nothing DEF Proper, Queued, Mine
    <3>2. Pinned(r)'
      BY <1>1, <2>1, <2>5, <2>6 DEF Pinned, Resolved, Mine, Queued
    <3> QED
      BY <3>1, <3>2
  <2> QED
    BY <1>1, <1>3, <2>6, QuietMoves DEF Stages
<1> QED
  BY <1>2, <1>3 DEF RepinCase

\* The payload of the key: if the pinned one is still there, it is that.
LEMMA ResolveKeeps ==
    ASSUME KInv, CreditRight, NEW r \in CaseRequests, Resolve(r)
    PROVE  KInv' /\ CreditRight'
<1> DEFINE t == Found(r)
           j == [job[r] EXCEPT !.held = t, !.token = t]
<1>1. /\ CaseTypes /\ Proper(r) /\ Pinned(r) /\ job[r] \in Jobs /\ entries \subseteq 1..Len(payloads)
      /\ Len(payloads) \in Nat /\ Cached
  BY DEF KInv, CaseTypes
<1>2. stage[r] = "resolving" /\ Moves(r, "resolving", "checking") /\ Quietly /\ job' = [job EXCEPT ![r] = j] /\ t # 0
  BY DEF Resolve, Moves
<1>3. t \in entries /\ t \in 1..Len(payloads)
  BY <1>1, <1>2, EntryExact DEF Found
<1>4. job[r].kind \notin {"none", "sync"} /\ job[r].held = 0 /\ job[r].own = <<>>
  BY <1>1, <1>2 DEF Proper, Queued
<1>5. job[r].pinned \in entries => t = job[r].pinned
  BY <1>1, <1>4, EntryOnly DEF Pinned, Found
<1> HIDE DEF t
<1>6. /\ j \in Jobs /\ j.kind = job[r].kind /\ j.held = t /\ j.own = job[r].own /\ j.size = job[r].size
      /\ j.pinned = job[r].pinned /\ j.key = job[r].key /\ j.identity = job[r].identity /\ j.pool = job[r].pool
      /\ j.token = t
  <2>1. t \in Nat
    BY <1>1, <1>3
  <2> QED
    BY <1>1, <2>1 DEF Jobs
<1> HIDE DEF j
<1>7. ASSUME stage'[r] = "checking", job'[r] = j, claim'[r] = NoClaim, shed'[r] = {}, payloads' = payloads,
             entries' = entries
      PROVE  Proper(r)' /\ Pinned(r)'
  <2>1. Proper(r)'
    BY <1>1, <1>2, <1>4, <1>6, <1>7, Nothing DEF Proper, Queued, Mine
  <2>2. Pinned(r)'
    BY <1>1, <1>5, <1>6, <1>7 DEF Pinned, Resolved, Mine, Queued
  <2> QED
    BY <2>1, <2>2
<1> QED
  BY <1>2, <1>3, <1>4, <1>6, <1>7, QuietMoves DEF Stages

\* The checks of a query that keep all it has.
LEMMA CheckKeeps ==
    ASSUME KInv, CreditRight, NEW r \in CaseRequests, CheckToken(r) \/ ConfirmToken(r) \/ ConfirmCase(r)
    PROVE  KInv' /\ CreditRight'
<1>1. /\ CaseTypes /\ Proper(r) /\ Pinned(r) /\ job[r] \in Jobs
      /\ job' = [job EXCEPT ![r] = job[r]] /\ Quietly
  BY DEF KInv, CaseTypes, CheckToken, ConfirmToken, ConfirmCase
<1>2. PICK from \in {"checking", "confirming", "agreeing"}, to \in {"captured", "taking", "agreeing", "working"} :
         /\ Moves(r, from, to)
         /\ from = "checking" => to \in {"captured", "taking"}
         /\ from # "checking" => to \in {"agreeing", "working"}
  BY DEF CheckToken, ConfirmToken, ConfirmCase
<1>3. stage[r] = from
  BY <1>2 DEF Moves
<1>4. job[r].kind \notin {"none", "sync"} /\ (from = "checking" => job[r].held # 0 /\ job[r].own = <<>>)
  BY <1>1, <1>3 DEF Proper, Queued
<1>5. ASSUME stage'[r] = to, job'[r] = job[r], claim'[r] = NoClaim, shed'[r] = {}, payloads' = payloads,
             entries' = entries
      PROVE  Proper(r)' /\ Pinned(r)'
  <2>1. Proper(r)'
    BY <1>1, <1>2, <1>3, <1>4, <1>5, Nothing DEF Proper, Queued, Mine
  <2>2. Pinned(r)'
    BY <1>1, <1>2, <1>3, <1>5 DEF Pinned, Resolved, Mine, Queued
  <2> QED
    BY <2>1, <2>2
<1> QED
  BY <1>1, <1>2, <1>5, QuietMoves DEF Stages

-----------------------------------------------------------------------------
(* The steps that move credit.                                             *)

\* What is dropped with a request was its alone, and nothing else is lost.
LEMMA LeftApart ==
    ASSUME KInv, NEW r \in CaseRequests, \A q \in CaseRequests \ {r} : SameCase(q), entries' = entries,
           job'[r].held = 0, shed'[r] = Left(r), shed[r] = {}
    PROVE  /\ Apart(r)' /\ FromHere(r) /\ Left(r) \in SUBSET (1..Len(payloads))
           /\ entries \cup shed[r] \cup ({job[r].held} \ {0})
                \subseteq entries' \cup shed'[r] \cup {job'[r].held} \cup {job[q].held : q \in CaseRequests \ {r}}
<1> DEFINE h == job[r].held
<1>1. h \in 0..Len(payloads) /\ Len(payloads) \in Nat
  BY DEF KInv, CaseTypes, Jobs
<1>2. \A t \in Left(r) : t = h /\ t # 0 /\ t \notin entries /\ Holders(t) = {r}
  BY DEF Left
<1>3. FromHere(r) /\ Left(r) \in SUBSET (1..Len(payloads))
  BY <1>1, <1>2 DEF FromHere
<1>4. Apart(r)'
  <2> SUFFICES ASSUME NEW t \in Left(r)
               PROVE  /\ t \notin entries'
                      /\ \A q \in CaseRequests : job'[q].held # t
                      /\ \A q \in CaseRequests \ {r} : t \notin shed'[q]
    BY DEF Apart
  <2>1. \A q \in CaseRequests \ {r} : job'[q].held # t
    BY <1>2 DEF SameCase, Holders
  <2>2. \A q \in CaseRequests \ {r} : t \notin shed'[q]
    BY <1>2 DEF SameCase, KInv, Apart
  <2> QED
    BY <1>2, <2>1, <2>2
<1>5. h # 0 /\ h \notin entries /\ h \notin Left(r) => \E q \in CaseRequests \ {r} : job[q].held = h
  BY DEF Left, Holders
<1> QED
  BY <1>3, <1>4, <1>5

\* The request ends, and drops the payload if nobody else has it.
LEMMA ClosesKeeps ==
    ASSUME KInv, CreditRight, NEW r \in CaseRequests, NEW what, Closes(r, what), claim[r] = NoClaim, shed[r] = {},
           UNCHANGED <<entries, payloads, used, claim>>,
           what \notin {NoAnswer, Refused} => what.token = what.pinned
    PROVE  KInv' /\ CreditRight'
<1> DEFINE j == [NoJob EXCEPT !.own = job[r].own]
<1>1. CaseTypes /\ Proper(r) /\ Len(payloads) \in Nat /\ job[r] \in Jobs
  BY DEF KInv, CaseTypes, Jobs
<1>2. j \in Jobs /\ j.own = job[r].own /\ j.held = 0 /\ j.kind = "none"
  BY <1>1, Nothing DEF Jobs
<1>3. Becomes(r, "done", j, NoClaim, Left(r))
  BY <1>1 DEF Closes, Becomes, CaseTypes
<1>4. /\ stage'[r] = "done" /\ job'[r] = j /\ claim'[r] = NoClaim /\ shed'[r] = Left(r)
      /\ \A q \in CaseRequests \ {r} : SameCase(q)
  BY <1>1, <1>3, Stepped
<1> HIDE DEF j
<1>5. /\ Apart(r)' /\ FromHere(r) /\ Left(r) \in SUBSET (1..Len(payloads))
      /\ entries \cup shed[r] \cup ({job[r].held} \ {0})
           \subseteq entries' \cup shed'[r] \cup {job'[r].held} \cup {job[q].held : q \in CaseRequests \ {r}}
  BY <1>2, <1>4, LeftApart
<1>6. Typed("done", j, NoClaim, Left(r))
  BY <1>1, <1>2, <1>5, Nothing DEF Typed, Stages
<1>7. Proper(r)'
  <2>1. j = [NoJob EXCEPT !.own = j.own]
    BY <1>2 DEF j
  <2> QED
    BY <1>2, <1>4, <2>1, Nothing DEF Proper, Queued
<1>8. Pinned(r)'
  BY <1>2, <1>4 DEF Pinned, Resolved, Queued
<1>9. Answers'
  BY <1>1 DEF CaseTypes, Answers, Closes
<1>10. Load(Application)' <= Live /\ used' \in [DOMAIN used' -> Nat]
  BY <1>1 DEF KInv, CaseTypes, Load
<1>11. KInv'
  BY <1>3, <1>5, <1>6, <1>7, <1>8, <1>9, <1>10, RequestKeeps
<1>12. ASSUME NEW account PROVE Load(account)' + ChargedBy(r, account) = Load(account) + ChargedBy(r, account)'
  <2>1. Load(account)' = Load(account) /\ ChargedBy(r, account)' = ChargedBy(r, account)
    BY <1>1, <1>2, <1>4 DEF Load, ChargedBy, Share
  <2> QED
    BY <2>1
<1> QED
  BY <1>3, <1>5, <1>11, <1>12, StepCharges

\* All the ways it ends.
LEMMA EndsKeep ==
    ASSUME KInv, CreditRight, NEW r \in CaseRequests, AnswersCase(r) \/ RefusesCase(r)
    PROVE  KInv' /\ CreditRight'
<1>1. Pinned(r)
  BY DEF KInv
<1>2. CASE AnswersCase(r)
  <2> DEFINE what == [token |-> job[r].token, pinned |-> job[r].pinned]
  <2>1. what.token = what.pinned
    BY <1>1, <1>2 DEF AnswersCase, Pinned
  <2> QED
    BY <1>2, <2>1, ClosesKeeps DEF AnswersCase, Ready
<1>3. CASE RefusesCase(r)
  BY <1>3, ClosesKeeps DEF RefusesCase, Ready
<1> QED
  BY <1>2, <1>3

\* Nothing has been charged: a charge begins, at its first counter.
LEMMA ReserveKeeps ==
    ASSUME KInv, CreditRight, NEW r \in CaseRequests, NEW j \in Jobs, NEW c \in Claims, Ready(r),
           stage' = [stage EXCEPT ![r] = "reserving"], job' = [job EXCEPT ![r] = j], claim' = [claim EXCEPT ![r] = c],
           UNCHANGED <<entries, payloads, used, shed, result>>,
           c.pool \in Pools, c.bytes \in Sizes, c.level = 0, j.held = job[r].held, j.own = <<>>, job[r].own = <<>>,
           Proper(r)', Pinned(r)'
    PROVE  KInv' /\ CreditRight'
<1>1. CaseTypes /\ Len(payloads) \in Nat /\ job[r] \in Jobs /\ job[r].held <= Len(payloads)
      /\ claim[r] = NoClaim /\ shed[r] = {}
  BY DEF KInv, CaseTypes, Ready
<1>2. Becomes(r, "reserving", j, c, {})
  BY <1>1 DEF Becomes, CaseTypes
<1>3. Typed("reserving", j, c, {})
  BY <1>1 DEF Typed, Stages
<1>4. job'[r] = j /\ claim'[r] = c /\ shed'[r] = {}
  BY <1>1, <1>2, Stepped
<1>5. FromHere(r) /\ Apart(r)'
  BY <1>4 DEF FromHere, Apart
<1>6. Load(Application)' <= Live /\ used' \in [DOMAIN used' -> Nat] /\ Answers'
  BY <1>1 DEF KInv, CaseTypes, Load, Answers
<1>7. KInv'
  BY <1>2, <1>3, <1>5, <1>6, RequestKeeps
<1>8. entries \cup shed[r] \cup ({job[r].held} \ {0})
         \subseteq entries' \cup shed'[r] \cup {job'[r].held} \cup {job[q].held : q \in CaseRequests \ {r}}
  BY <1>1, <1>4
<1>9. ASSUME NEW account PROVE Load(account)' + ChargedBy(r, account) = Load(account) + ChargedBy(r, account)'
  <2>1. ChargedBy(r, account) = 0
    BY <1>1 DEF ChargedBy
  <2>2. c.bytes \in Nat
    BY CacheAssumption
  <2>3. Share(account, c, 0) = 0
    BY <2>2, Sharing
  <2>4. ChargedBy(r, account)' = 0
    BY <1>4, <2>3 DEF ChargedBy, Share
  <2> QED
    BY <2>1, <2>4 DEF Load
<1> QED
  BY <1>2, <1>5, <1>7, <1>8, <1>9, StepCharges

\* The page's publication is charged, and once more after something was given back.
LEMMA SizeKeeps ==
    ASSUME KInv, CreditRight, NEW r \in CaseRequests, Size(r) \/ Again(r)
    PROVE  KInv' /\ CreditRight'
<1> DEFINE c == [pool |-> job[r].pool, bytes |-> job[r].size, level |-> 0, up |-> TRUE]
<1>1. /\ CaseTypes /\ Proper(r) /\ Pinned(r) /\ job[r] \in Jobs
      /\ Ready(r) /\ stage' = [stage EXCEPT ![r] = "reserving"] /\ claim' = [claim EXCEPT ![r] = c]
      /\ UNCHANGED <<entries, payloads, used, shed, result, job>>
  BY DEF KInv, CaseTypes, Size, Again, Reserve, Moves
<1>2. /\ stage[r] \in {"sizing", "again"}
      /\ stage[r] = "sizing" => job[r].size <= Materialized(job[r].pool)
  BY DEF Size, Again, Moves
<1>3. job[r].own = <<>> /\ job[r].pool \in Pools /\ OwnerOf(job[r].pool) = Mine(r) /\ job[r].size \in Sizes
  BY <1>1, <1>2 DEF Proper, Queued
<1>4. job[r].kind = "sync" => job[r].size <= Materialized(job[r].pool)
  BY <1>1, <1>2 DEF Proper, Queued
<1>5. /\ c \in Claims /\ c.pool = job[r].pool /\ c.bytes = job[r].size /\ c.level = 0 /\ c.up
      /\ c # NoClaim
  BY <1>3, CacheAssumption, Nothing DEF Claims, NoClaim
<1> HIDE DEF c
<1>6. stage'[r] = "reserving" /\ job'[r] = job[r] /\ claim'[r] = c /\ shed'[r] = {} /\ job' = [job EXCEPT ![r] = job[r]]
  BY <1>1 DEF CaseTypes, Ready
<1>7. Proper(r)'
  BY <1>1, <1>2, <1>3, <1>4, <1>5, <1>6 DEF Proper, Queued, Mine, Materialized
<1>8. Pinned(r)'
  <2>1. job[r].kind = "sync" \/ stage[r] = "again"
    BY <1>1, <1>2 DEF Proper
  <2> QED
    BY <1>1, <1>6, <2>1 DEF Pinned, Resolved, Mine, Queued
<1> QED
  BY <1>1, <1>3, <1>5, <1>6, <1>7, <1>8, ReserveKeeps

\* A copy is charged.
LEMMA CopyKeeps ==
    ASSUME KInv, CreditRight, NEW r \in CaseRequests, Copy(r)
    PROVE  KInv' /\ CreditRight'
<1> DEFINE n == payloads[job[r].held].size
           j == [job[r] EXCEPT !.size = n]
           c == [pool |-> job[r].pool, bytes |-> n, level |-> 0, up |-> TRUE]
<1>1. /\ CaseTypes /\ Proper(r) /\ Pinned(r) /\ job[r] \in Jobs
      /\ Ready(r) /\ stage' = [stage EXCEPT ![r] = "reserving"] /\ claim' = [claim EXCEPT ![r] = c]
      /\ job' = [job EXCEPT ![r] = j] /\ stage[r] = "taking"
      /\ UNCHANGED <<entries, payloads, used, shed, result>>
  BY DEF KInv, CaseTypes, Copy, Moves
<1>2. /\ job[r].own = <<>> /\ job[r].pool \in Pools /\ OwnerOf(job[r].pool) = Mine(r) /\ job[r].kind \notin {"none", "sync"}
      /\ job[r].held # 0
  BY <1>1 DEF Proper, Queued
<1>3. job[r].held \in 1..Len(payloads)
  BY <1>1, <1>2 DEF CaseTypes, Jobs
<1>4. n \in Sizes /\ n \in Nat
  BY <1>1, <1>3, CreditTypes, CacheAssumption
<1> HIDE DEF n
<1>5. /\ j \in Jobs /\ j.kind = job[r].kind /\ j.held = job[r].held /\ j.own = job[r].own /\ j.size = n
      /\ j.pinned = job[r].pinned /\ j.key = job[r].key /\ j.identity = job[r].identity /\ j.pool = job[r].pool
      /\ j.token = job[r].token
  BY <1>1, <1>4 DEF Jobs
<1>6. c \in Claims /\ c.pool = job[r].pool /\ c.bytes = n /\ c.level = 0 /\ c.up /\ c # NoClaim
  BY <1>2, <1>4, Nothing DEF Claims, NoClaim
<1> HIDE DEF c, j
<1>7. stage'[r] = "reserving" /\ job'[r] = j /\ claim'[r] = c /\ shed'[r] = {}
  BY <1>1 DEF CaseTypes, Ready
<1>8. Proper(r)'
  BY <1>2, <1>4, <1>5, <1>6, <1>7 DEF Proper, Queued, Mine
<1>9. Pinned(r)'
  BY <1>1, <1>5, <1>7 DEF Pinned, Resolved, Mine, Queued
<1> QED
  BY <1>1, <1>2, <1>4, <1>5, <1>6, <1>8, <1>9, ReserveKeeps

\* A lease is charged by its pool and its bytes.
LEMMA ShareSame ==
    ASSUME NEW x, NEW y, x.pool = y.pool, x.bytes = y.bytes, NEW account, NEW n
    PROVE  Share(account, x, n) = Share(account, y, n)
BY DEF Share

\* Refused, the request asks what was in its way.
LEMMA PressesOwnerKeeps ==
    ASSUME KInv, CreditRight, NEW r \in CaseRequests, PressesOwner(r)
    PROVE  KInv' /\ CreditRight'
<1>1. /\ CaseTypes /\ Proper(r) /\ Pinned(r) /\ job[r] \in Jobs /\ job[r].held <= Len(payloads)
      /\ stage[r] = "reserving" /\ ~claim[r].up /\ claim[r].level = 0 /\ claim[r] # NoClaim
      /\ claim' = [claim EXCEPT ![r] = NoClaim]
      /\ UNCHANGED <<entries, payloads, used, shed, job, result>>
  BY DEF KInv, CaseTypes, PressesOwner, Rejected
<1>2. PICK s \in {"pressed", "owner"} : stage' = [stage EXCEPT ![r] = s]
  BY DEF PressesOwner
<1>3. /\ shed[r] = {} /\ claim[r].pool \in Pools /\ claim[r].bytes \in Sizes
      /\ job[r].pool \in Pools /\ OwnerOf(job[r].pool) = Mine(r) /\ job[r].size \in Sizes /\ job[r].kind # "none"
      /\ job[r].own = <<>>
  BY <1>1 DEF Proper, Queued
<1>4. Becomes(r, s, job[r], NoClaim, {}) /\ Typed(s, job[r], NoClaim, {})
  BY <1>1, <1>2, <1>3, Nothing DEF Becomes, Typed, CaseTypes, Stages
<1>5. stage'[r] = s /\ job'[r] = job[r] /\ claim'[r] = NoClaim /\ shed'[r] = {}
  BY <1>1, <1>4, Stepped
<1>6. FromHere(r) /\ Apart(r)'
  BY <1>5 DEF FromHere, Apart
<1>7. Load(Application)' <= Live /\ used' \in [DOMAIN used' -> Nat] /\ Answers'
  BY <1>1 DEF KInv, CaseTypes, Load, Answers
<1>8. Proper(r)'
  BY <1>1, <1>3, <1>5, Nothing DEF Proper, Queued, Mine, Materialized
<1>9. Pinned(r)'
  BY <1>1, <1>3, <1>5 DEF Pinned, Resolved, Mine, Queued
<1>10. KInv'
  BY <1>1, <1>4, <1>6, <1>7, <1>8, <1>9, RequestKeeps
<1>11. entries \cup shed[r] \cup ({job[r].held} \ {0})
         \subseteq entries' \cup shed'[r] \cup {job'[r].held} \cup {job[q].held : q \in CaseRequests \ {r}}
  BY <1>1, <1>3, <1>5
<1>12. ASSUME NEW account PROVE Load(account)' + ChargedBy(r, account) = Load(account) + ChargedBy(r, account)'
  <2>1. Share(account, claim[r], 0) = 0
    BY <1>3, Sharing, CacheAssumption
  <2>2. ChargedBy(r, account) = 0 /\ ChargedBy(r, account)' = 0
    BY <1>1, <1>3, <1>5, <2>1 DEF ChargedBy
  <2> QED
    BY <1>1, <2>2 DEF Load
<1> QED
  BY <1>1, <1>4, <1>6, <1>10, <1>11, <1>12, StepCharges

\* It gives up, or frees what it can.
LEMMA PressesRootKeeps ==
    ASSUME KInv, CreditRight, NEW r \in CaseRequests, PressesRoot(r)
    PROVE  KInv' /\ CreditRight'
<1>1. /\ CaseTypes /\ Proper(r) /\ Pinned(r) /\ job[r] \in Jobs /\ stage[r] = "pressed"
      /\ UNCHANGED <<entries, payloads, used, claim>>
  BY DEF KInv, CaseTypes, PressesRoot
<1>2. claim[r] = NoClaim /\ shed[r] = {}
  BY <1>1 DEF Proper
<1>3. CASE Closes(r, Refused)
  BY <1>1, <1>2, <1>3, ClosesKeeps
<1>4. CASE stage' = [stage EXCEPT ![r] = "aggregate"] /\ UNCHANGED <<shed, job, result>>
  <2>1. /\ stage'[r] = "aggregate" /\ job'[r] = job[r] /\ claim'[r] = NoClaim /\ shed'[r] = {}
        /\ job' = [job EXCEPT ![r] = job[r]]
    BY <1>1, <1>2, <1>4 DEF CaseTypes
  <2>2. Proper(r)'
    BY <1>1, <1>4, <2>1, Nothing DEF Proper, Queued, Mine, Materialized
  <2>3. Pinned(r)'
    BY <1>1, <1>4, <2>1 DEF Pinned, Resolved, Mine, Queued
  <2>4. Ready(r) /\ Quietly
    BY <1>1, <1>2, <1>4 DEF Ready, Quietly, credit
  <2> QED
    BY <1>1, <1>4, <2>1, <2>2, <2>3, <2>4, QuietKeeps DEF Stages
<1> QED
  BY <1>3, <1>4 DEF PressesRoot

\* It trims, or gives up.
LEMMA TrimKeeps ==
    ASSUME KInv, CreditRight, NEW r \in CaseRequests, Trim(r)
    PROVE  KInv' /\ CreditRight'
<1>1. /\ CaseTypes /\ Proper(r) /\ Pinned(r) /\ job[r] \in Jobs /\ stage[r] \in {"owner", "aggregate"} /\ Ready(r)
      /\ UNCHANGED <<entries, payloads, used, claim>>
  BY DEF KInv, CaseTypes, Trim, Under
<1>2. CASE Closes(r, Refused)
  BY <1>1, <1>2, ClosesKeeps DEF Ready
<1>3. CASE /\ stage' = [stage EXCEPT ![r] = "again"]
           /\ job' = [job EXCEPT ![r].trimmed = @ \cup {stage[r]}] /\ UNCHANGED <<shed, result>>
  <2> DEFINE j == [job[r] EXCEPT !.trimmed = @ \cup {stage[r]}]
  <2>1. /\ j \in Jobs /\ j.kind = job[r].kind /\ j.held = job[r].held /\ j.own = job[r].own /\ j.size = job[r].size
        /\ j.pinned = job[r].pinned /\ j.key = job[r].key /\ j.identity = job[r].identity /\ j.pool = job[r].pool
        /\ j.token = job[r].token
    BY <1>1 DEF Jobs
  <2>2. job' = [job EXCEPT ![r] = j]
    BY <1>3
  <2> HIDE DEF j
  <2>3. /\ stage'[r] = "again" /\ job'[r] = j /\ claim'[r] = NoClaim /\ shed'[r] = {}
    BY <1>1, <1>3, <2>2 DEF CaseTypes, Ready
  <2>4. Proper(r)'
    BY <1>1, <1>3, <2>1, <2>3, Nothing DEF Proper, Queued, Mine, Materialized
  <2>5. Pinned(r)'
    BY <1>1, <1>3, <2>1, <2>3 DEF Pinned, Resolved, Mine, Queued
  <2>6. Quietly
    BY <1>1, <1>3 DEF Quietly, credit
  <2> QED
    BY <1>1, <1>3, <2>1, <2>2, <2>4, <2>5, <2>6, QuietKeeps DEF Stages
<1> QED
  BY <1>2, <1>3 DEF Trim

\* What was charged becomes the request's lease.
LEMMA GrantedKeeps ==
    ASSUME KInv, CreditRight, NEW r \in CaseRequests, Granted(r)
    PROVE  KInv' /\ CreditRight'
<1> DEFINE own == Lease(job[r].pool, job[r].size)
           j == [job[r] EXCEPT !.own = own, !.held = 0]
           s == IF job[r].kind = "sync" THEN "storing" ELSE "captured"
<1>1. /\ CaseTypes /\ Proper(r) /\ Pinned(r) /\ job[r] \in Jobs /\ Len(payloads) \in Nat
      /\ stage[r] = "reserving" /\ claim[r].level = 3
      /\ claim' = [claim EXCEPT ![r] = NoClaim] /\ stage' = [stage EXCEPT ![r] = s]
      /\ job' = [job EXCEPT ![r] = j] /\ shed' = [shed EXCEPT ![r] = Left(r)]
      /\ UNCHANGED <<entries, payloads, used, result>>
  <2>1. CaseTypes /\ Proper(r) /\ Pinned(r) /\ job[r] \in Jobs /\ Len(payloads) \in Nat
    BY DEF KInv, CaseTypes
  <2>2. job' = [job EXCEPT ![r] = j]
    BY <2>1 DEF Granted, CaseTypes
  <2> QED
    BY <2>1, <2>2 DEF Granted
<1>2. /\ shed[r] = {} /\ job[r].pool \in Pools /\ OwnerOf(job[r].pool) = Mine(r) /\ job[r].size \in Sizes
      /\ job[r].own = <<>> /\ job[r].kind # "none" /\ claim[r] # NoClaim
      /\ claim[r].pool = job[r].pool /\ claim[r].bytes = job[r].size
      /\ job[r].kind = "sync" => job[r].size <= Materialized(job[r].pool)
  BY <1>1 DEF Proper, Queued
<1>3. own \in Leases /\ own # <<>> /\ own.pool = job[r].pool /\ own.bytes = job[r].size
  BY <1>2, Nothing DEF Leases, Lease
<1>4. /\ j \in Jobs /\ j.kind = job[r].kind /\ j.held = 0 /\ j.own = own /\ j.size = job[r].size
      /\ j.pinned = job[r].pinned /\ j.key = job[r].key /\ j.identity = job[r].identity /\ j.pool = job[r].pool
      /\ j.token = job[r].token
  BY <1>1, <1>3 DEF Jobs
<1> HIDE DEF j
<1>5. Becomes(r, s, j, NoClaim, Left(r))
  BY <1>1 DEF Becomes
<1>6. /\ stage'[r] = s /\ job'[r] = j /\ claim'[r] = NoClaim /\ shed'[r] = Left(r)
      /\ \A q \in CaseRequests \ {r} : SameCase(q)
  BY <1>1, <1>5, Stepped
<1>7. /\ Apart(r)' /\ FromHere(r) /\ Left(r) \in SUBSET (1..Len(payloads))
      /\ entries \cup shed[r] \cup ({job[r].held} \ {0})
           \subseteq entries' \cup shed'[r] \cup {job'[r].held} \cup {job[q].held : q \in CaseRequests \ {r}}
  BY <1>1, <1>2, <1>4, <1>6, LeftApart
<1>8. Typed(s, j, NoClaim, Left(r))
  BY <1>1, <1>4, <1>7, Nothing DEF Typed, Stages
<1>9. Load(Application)' <= Live /\ used' \in [DOMAIN used' -> Nat] /\ Answers'
  BY <1>1 DEF KInv, CaseTypes, Load, Answers
<1>10. Proper(r)'
  BY <1>2, <1>3, <1>4, <1>6, Nothing DEF Proper, Queued, Mine, Materialized
<1>11. Pinned(r)'
  BY <1>1, <1>2, <1>4, <1>6 DEF Pinned, Resolved, Mine, Queued
<1>12. KInv'
  BY <1>1, <1>5, <1>7, <1>8, <1>9, <1>10, <1>11, RequestKeeps
<1>13. ASSUME NEW account PROVE Load(account)' + ChargedBy(r, account) = Load(account) + ChargedBy(r, account)'
  <2>1. Share(account, own, 3) = Share(account, claim[r], 3)
    BY <1>2, <1>3, ShareSame
  <2>2. own.bytes \in Nat
    BY <1>2, <1>3, CacheAssumption
  <2>3. Share(account, own, 3) \in Nat
    BY <1>2, <1>3, <2>2, Sharing
  <2>4. ChargedBy(r, account) = 0 + Share(account, claim[r], 3)
    BY <1>1, <1>2 DEF ChargedBy
  <2>5. ChargedBy(r, account)' = Share(account, own, 3) + 0
    BY <1>3, <1>4, <1>6 DEF ChargedBy, Share
  <2> QED
    BY <1>1, <2>1, <2>3, <2>4, <2>5 DEF Load
<1> QED
  BY <1>1, <1>5, <1>7, <1>12, <1>13, StepCharges

\* A lease begins to be taken back.
LEMMA DropOwnKeeps ==
    ASSUME KInv, CreditRight, NEW r \in CaseRequests, DropOwn(r)
    PROVE  KInv' /\ CreditRight'
<1> DEFINE own == job[r].own
           c == [pool |-> own.pool, bytes |-> own.bytes, level |-> 3, up |-> FALSE]
<1>1. /\ CaseTypes /\ Proper(r) /\ Apart(r) /\ job[r] \in Jobs /\ Len(payloads) \in Nat
      /\ stage[r] = "done" /\ own # <<>> /\ claim[r] = NoClaim
      /\ claim' = [claim EXCEPT ![r] = c] /\ job' = [job EXCEPT ![r] = NoJob]
      /\ UNCHANGED <<entries, payloads, used, stage, result, shed>>
  BY DEF KInv, CaseTypes, DropOwn, GivesUp
<1>2. job[r].held = 0 /\ own \in Leases
  BY <1>1, Nothing DEF Proper, Jobs
<1>3. c \in Claims /\ c # NoClaim /\ c.pool = own.pool /\ c.bytes = own.bytes /\ c.level = 3 /\ ~c.up
      /\ own.pool \in Pools /\ own.bytes \in Sizes /\ own.bytes \in Nat
  <2>1. own.pool \in Pools /\ own.bytes \in Sizes
    BY <1>2 DEF Leases
  <2>2. own.bytes \in Nat
    BY <2>1, CacheAssumption
  <2>3. c = [pool |-> own.pool, bytes |-> own.bytes, level |-> 3, up |-> FALSE]
    OBVIOUS
  <2> HIDE DEF own, c
  <2>4. c \in Claims /\ c # NoClaim /\ c.pool = own.pool /\ c.bytes = own.bytes /\ c.level = 3 /\ ~c.up
    BY <2>1, <2>2, <2>3, GivenUp
  <2> QED
    BY <2>1, <2>2, <2>4
<1> HIDE DEF c
<1>4. Becomes(r, "done", NoJob, c, shed[r]) /\ Typed("done", NoJob, c, shed[r])
  BY <1>1, <1>3, Nothing DEF Becomes, Typed, CaseTypes, Stages
<1>5. /\ stage'[r] = "done" /\ job'[r] = NoJob /\ claim'[r] = c /\ shed'[r] = shed[r]
      /\ \A q \in CaseRequests \ {r} : SameCase(q)
  BY <1>1, <1>4, Stepped
<1>6. FromHere(r)
  <2>1. 0 \notin shed[r]
    BY <1>1 DEF CaseTypes
  <2> QED
    BY <1>5, <2>1, Nothing DEF FromHere
<1>7. Apart(r)'
  <2>1. \A q \in CaseRequests : job'[q].held = job[q].held
    BY <1>2, <1>5, Nothing DEF SameCase
  <2>2. \A q \in CaseRequests : shed'[q] = shed[q]
    BY <1>1
  <2> QED
    BY <1>1, <2>1, <2>2 DEF Apart
<1>8. Load(Application)' <= Live /\ used' \in [DOMAIN used' -> Nat] /\ Answers'
  BY <1>1 DEF KInv, CaseTypes, Load, Answers
<1>9. Proper(r)'
  <2>1. NoJob = [NoJob EXCEPT !.own = NoJob.own]
    BY DEF NoJob
  <2> QED
    BY <1>3, <1>5, <2>1, Nothing DEF Proper, Queued
<1>10. Pinned(r)'
  BY <1>5, Nothing DEF Pinned, Resolved, Queued
<1>11. KInv'
  BY <1>1, <1>4, <1>6, <1>7, <1>8, <1>9, <1>10, RequestKeeps
<1>12. entries \cup shed[r] \cup ({job[r].held} \ {0})
         \subseteq entries' \cup shed'[r] \cup {job'[r].held} \cup {job[q].held : q \in CaseRequests \ {r}}
  BY <1>1, <1>2, <1>5
<1>13. ASSUME NEW account PROVE Load(account)' + ChargedBy(r, account) = Load(account) + ChargedBy(r, account)'
  <2>1. Share(account, own, 3) = Share(account, c, 3) /\ Share(account, own, 3) \in Nat
    BY <1>3, ShareSame, Sharing
  <2>2. ChargedBy(r, account) = Share(account, own, 3) + 0
    BY <1>1 DEF ChargedBy
  <2>3. ChargedBy(r, account)' = 0 + Share(account, c, 3)
    BY <1>3, <1>5, Nothing DEF ChargedBy, Share
  <2> QED
    BY <1>1, <2>1, <2>2, <2>3 DEF Load
<1> QED
  BY <1>1, <1>4, <1>6, <1>11, <1>12, <1>13, StepCharges

\* The credit of a payload that left begins to be taken back.
LEMMA DropPayloadKeeps ==
    ASSUME KInv, CreditRight, NEW r \in CaseRequests, DropPayload(r)
    PROVE  KInv' /\ CreditRight'
<1> DEFINE t == Min(shed[r])
           c == [pool |-> CreditOf(t).pool, bytes |-> CreditOf(t).bytes, level |-> 3, up |-> FALSE]
<1>1. /\ CaseTypes /\ Proper(r) /\ Pinned(r) /\ Apart(r) /\ job[r] \in Jobs /\ job[r].held <= Len(payloads)
      /\ shed[r] \in SUBSET (1..Len(payloads)) /\ shed[r] # {} /\ Len(payloads) \in Nat
      /\ claim[r] = NoClaim
      /\ claim' = [claim EXCEPT ![r] = c] /\ shed' = [shed EXCEPT ![r] = @ \ {t}]
      /\ UNCHANGED <<entries, payloads, used, stage, result, job>>
  BY DEF KInv, CaseTypes, DropPayload, GivesUp
<1>2. t \in shed[r] /\ t \in 1..Len(payloads)
  <2>1. shed[r] \in SUBSET Nat
    BY <1>1
  <2> QED
    BY <1>1, <2>1, Least
<1>3. /\ c \in Claims /\ c.pool = CreditOf(t).pool /\ c.bytes = CreditOf(t).bytes /\ c.level = 3 /\ ~c.up
      /\ c # NoClaim /\ c.pool \in Pools /\ c.bytes \in Sizes /\ c.bytes \in Nat
  <2>1. CreditOf(t).pool \in Pools /\ CreditOf(t).bytes \in Sizes
    BY <1>1, <1>2, CreditTypes DEF Leases
  <2>2. CreditOf(t).bytes \in Nat
    BY <2>1, CacheAssumption
  <2>3. c = [pool |-> CreditOf(t).pool, bytes |-> CreditOf(t).bytes, level |-> 3, up |-> FALSE]
    OBVIOUS
  <2> HIDE DEF t, c
  <2>4. /\ c \in Claims /\ c # NoClaim /\ c.pool = CreditOf(t).pool /\ c.bytes = CreditOf(t).bytes
        /\ c.level = 3 /\ ~c.up
    BY <2>1, <2>2, <2>3, GivenUp
  <2> QED
    BY <2>1, <2>2, <2>4
<1> HIDE DEF c, t
<1>4. Becomes(r, stage[r], job[r], c, shed[r] \ {t}) /\ Typed(stage[r], job[r], c, shed[r] \ {t})
  BY <1>1, <1>3 DEF Becomes, Typed, CaseTypes
<1>5. /\ stage'[r] = stage[r] /\ job'[r] = job[r] /\ claim'[r] = c /\ shed'[r] = shed[r] \ {t}
      /\ \A q \in CaseRequests \ {r} : SameCase(q)
  BY <1>1, <1>4, Stepped
<1>6. FromHere(r)
  <2>1. 0 \notin shed[r]
    BY <1>1
  <2> QED
    BY <1>5, <2>1 DEF FromHere
<1>7. Apart(r)'
  <2>1. \A q \in CaseRequests : job'[q].held = job[q].held
    BY <1>1
  <2>2. \A q \in CaseRequests \ {r} : shed'[q] = shed[q]
    BY <1>5 DEF SameCase
  <2> QED
    BY <1>1, <1>5, <2>1, <2>2 DEF Apart
<1>8. Load(Application)' <= Live /\ used' \in [DOMAIN used' -> Nat] /\ Answers'
  BY <1>1 DEF KInv, CaseTypes, Load, Answers
<1>9. Proper(r)'
  <2>1. stage[r] \notin {"reserving", "pressed"}
    BY <1>1 DEF Proper
  <2> QED
    BY <1>1, <1>3, <1>5, <2>1 DEF Proper, Queued, Mine, Materialized
<1>10. Pinned(r)'
  BY <1>1, <1>5 DEF Pinned, Resolved, Queued, Mine
<1>11. KInv'
  BY <1>1, <1>4, <1>6, <1>7, <1>8, <1>9, <1>10, RequestKeeps
<1>12. t \in Alive /\ Alive' = Alive \ {t}
  <2>1. /\ t \notin entries /\ t # 0
        /\ \A q \in CaseRequests : job[q].held # t
        /\ \A q \in CaseRequests \ {r} : t \notin shed[q]
    BY <1>1, <1>2 DEF Apart
  <2>2. \A q \in CaseRequests \ {r} : shed'[q] = shed[q]
    BY <1>5 DEF SameCase
  <2>3. UNION {shed'[q] : q \in CaseRequests} = (UNION {shed[q] : q \in CaseRequests}) \ {t}
    <3>1. ASSUME NEW x \in UNION {shed'[q] : q \in CaseRequests}
          PROVE  x \in (UNION {shed[q] : q \in CaseRequests}) \ {t}
      BY <1>5, <2>1, <2>2
    <3>2. ASSUME NEW x \in (UNION {shed[q] : q \in CaseRequests}) \ {t}
          PROVE  x \in UNION {shed'[q] : q \in CaseRequests}
      <4>1. PICK q \in CaseRequests : x \in shed[q] /\ x # t
        OBVIOUS
      <4>2. x \in shed'[q]
        BY <1>5, <2>2, <4>1
      <4> QED
        BY <4>2
    <3> QED
      BY <3>1, <3>2
  <2>4. Alive' = entries \cup ({job[q].held : q \in CaseRequests} \ {0}) \cup UNION {shed'[q] : q \in CaseRequests}
    BY <1>1 DEF Alive
  <2>5. t \notin {job[q].held : q \in CaseRequests}
    BY <2>1
  <2> QED
    BY <1>2, <2>1, <2>3, <2>4, <2>5 DEF Alive
<1>13. \A s \in Alive : CreditOf(s)' = CreditOf(s)
  BY <1>1 DEF CreditOf
<1>14. \A q \in CaseRequests \ {r} : \A account : ChargedBy(q, account)' = ChargedBy(q, account)
  BY <1>5 DEF SameCase, ChargedBy, Share
<1>15. ASSUME NEW account PROVE ChargedBy(r, account)' = ChargedBy(r, account) + Share(account, CreditOf(t), 3)
  <2>1. Share(account, CreditOf(t), 3) = Share(account, c, 3)
    BY <1>3, ShareSame
  <2>2. ChargedBy(r, account) \in Nat
    BY Numbers DEF KInv, Well, Countable
  <2>3. ChargedBy(r, account) = (IF job[r].own = <<>> THEN 0 ELSE Share(account, job[r].own, 3)) + 0
    BY <1>1 DEF ChargedBy
  <2>4. ChargedBy(r, account)' = (IF job[r].own = <<>> THEN 0 ELSE Share(account, job[r].own, 3)) + Share(account, c, 3)
    BY <1>3, <1>5 DEF ChargedBy, Share
  <2>5. job[r].own # <<>> => Share(account, job[r].own, 3) \in Nat
    BY <1>1, OwnShare
  <2>6. Share(account, c, 3) \in Nat
    BY <1>3, Sharing
  <2> QED
    BY <2>1, <2>3, <2>4, <2>5, <2>6
<1>16. Well /\ Well'
  BY <1>11 DEF KInv, Well
<1> QED
  BY <1>1, <1>11, <1>12, <1>13, <1>14, <1>15, <1>16, TokenLeaves

\* The payload's credit is the request's from now on.
LEMMA TakePayloadKeeps ==
    ASSUME KInv, CreditRight, NEW r \in CaseRequests, TakePayload(r)
    PROVE  KInv' /\ CreditRight'
<1> DEFINE t == job[r].held
           j == [job[r] EXCEPT !.own = CreditOf(t), !.held = 0]
<1>1. /\ CaseTypes /\ Proper(r) /\ Pinned(r) /\ job[r] \in Jobs /\ Len(payloads) \in Nat
      /\ stage[r] = "taking" /\ Ready(r) /\ Sole(r)
      /\ stage' = [stage EXCEPT ![r] = "captured"] /\ job' = [job EXCEPT ![r] = j]
      /\ UNCHANGED <<entries, payloads, used, claim, shed, result>>
  <2>1. CaseTypes /\ Proper(r) /\ Pinned(r) /\ job[r] \in Jobs /\ Len(payloads) \in Nat
    BY DEF KInv, CaseTypes
  <2>2. job' = [job EXCEPT ![r] = j]
    BY <2>1 DEF TakePayload, CaseTypes
  <2> QED
    BY <2>1, <2>2 DEF TakePayload, Moves, Quietly, credit
<1>2. /\ job[r].own = <<>> /\ job[r].kind \notin {"none", "sync"} /\ t # 0
      /\ job[r].pool \in Pools /\ OwnerOf(job[r].pool) = Mine(r)
  BY <1>1 DEF Proper, Queued
<1>3. t \in 1..Len(payloads)
  BY <1>1, <1>2 DEF CaseTypes, Jobs
<1>4. /\ CreditOf(t) \in Leases /\ CreditOf(t) # <<>> /\ CreditOf(t).pool \in Pools /\ CreditOf(t).bytes \in Nat
  BY <1>1, <1>3, CreditTypes, Nothing, CacheAssumption
<1>5. /\ j \in Jobs /\ j.kind = job[r].kind /\ j.held = 0 /\ j.own = CreditOf(t) /\ j.size = job[r].size
      /\ j.pinned = job[r].pinned /\ j.key = job[r].key /\ j.identity = job[r].identity /\ j.pool = job[r].pool
      /\ j.token = job[r].token
  BY <1>1, <1>4 DEF Jobs
<1> HIDE DEF j
<1>6. claim[r] = NoClaim /\ shed[r] = {}
  BY <1>1 DEF Ready
<1>7. Becomes(r, "captured", j, NoClaim, {}) /\ Typed("captured", j, NoClaim, {})
  BY <1>1, <1>5, <1>6, Nothing DEF Becomes, Typed, CaseTypes, Stages
<1>8. /\ stage'[r] = "captured" /\ job'[r] = j /\ claim'[r] = NoClaim /\ shed'[r] = {}
      /\ \A q \in CaseRequests \ {r} : SameCase(q)
  BY <1>1, <1>7, Stepped
<1>9. FromHere(r) /\ Apart(r)'
  BY <1>5, <1>8 DEF FromHere, Apart
<1>10. Load(Application)' <= Live /\ used' \in [DOMAIN used' -> Nat] /\ Answers'
  BY <1>1 DEF KInv, CaseTypes, Load, Answers
<1>11. Proper(r)'
  BY <1>2, <1>5, <1>8, Nothing DEF Proper, Queued, Mine
<1>12. Pinned(r)'
  BY <1>1, <1>2, <1>5, <1>8 DEF Pinned, Resolved, Queued, Mine
<1>13. KInv'
  BY <1>1, <1>7, <1>9, <1>10, <1>11, <1>12, RequestKeeps
<1>14. t \in Alive /\ Alive' = Alive \ {t}
  <2>1. t \notin entries /\ \A q \in CaseRequests \ {r} : job[q].held # t
    BY <1>1 DEF Sole, Holders
  <2>2. \A q \in CaseRequests : t \notin shed[q]
    BY DEF KInv, Apart
  <2>3. \A q \in CaseRequests \ {r} : job'[q].held = job[q].held
    BY <1>8 DEF SameCase
  <2>4. {job'[q].held : q \in CaseRequests} \ {0} = ({job[q].held : q \in CaseRequests} \ {0}) \ {t}
    <3>1. ASSUME NEW x \in {job'[q].held : q \in CaseRequests} \ {0}
          PROVE  x \in ({job[q].held : q \in CaseRequests} \ {0}) \ {t}
      <4>1. PICK q \in CaseRequests : x = job'[q].held /\ x # 0
        OBVIOUS
      <4>2. q # r
        BY <1>5, <1>8, <4>1
      <4> QED
        BY <2>1, <2>3, <4>1, <4>2
    <3>2. ASSUME NEW x \in ({job[q].held : q \in CaseRequests} \ {0}) \ {t}
          PROVE  x \in {job'[q].held : q \in CaseRequests} \ {0}
      <4>1. PICK q \in CaseRequests : x = job[q].held /\ x # 0 /\ x # t
        OBVIOUS
      <4> QED
        BY <2>3, <4>1
    <3> QED
      BY <3>1, <3>2
  <2>5. Alive' = entries \cup ({job'[q].held : q \in CaseRequests} \ {0}) \cup UNION {shed[q] : q \in CaseRequests}
    BY <1>1 DEF Alive
  <2>6. t \notin UNION {shed[q] : q \in CaseRequests}
    BY <2>2
  <2>7. t \in {job[q].held : q \in CaseRequests} \ {0}
    BY <1>2
  <2> HIDE DEF t
  <2> QED
    BY <2>1, <2>4, <2>5, <2>6, <2>7 DEF Alive
<1>15. \A s \in Alive : CreditOf(s)' = CreditOf(s)
  BY <1>1 DEF CreditOf
<1>16. \A q \in CaseRequests \ {r} : \A account : ChargedBy(q, account)' = ChargedBy(q, account)
  BY <1>8 DEF SameCase, ChargedBy, Share
<1>17. ASSUME NEW account PROVE ChargedBy(r, account)' = ChargedBy(r, account) + Share(account, CreditOf(t), 3)
  <2>1. ChargedBy(r, account) = 0
    BY <1>2, <1>6 DEF ChargedBy
  <2>2. ChargedBy(r, account)' = Share(account, CreditOf(t), 3) + 0
    BY <1>4, <1>5, <1>8 DEF ChargedBy, Share
  <2>3. Share(account, CreditOf(t), 3) \in Nat
    BY <1>4, Sharing
  <2> QED
    BY <2>1, <2>2, <2>3
<1>18. Well /\ Well'
  BY <1>13 DEF KInv, Well
<1> HIDE DEF t
<1> QED
  BY <1>1, <1>13, <1>14, <1>15, <1>16, <1>17, <1>18, TokenLeaves

\* A publication that nobody uses leaves the cache for the request's hands.
LEMMA EvictKeeps ==
    ASSUME KInv, CreditRight, NEW r \in CaseRequests, Evict(r)
    PROVE  KInv' /\ CreditRight'
<1> DEFINE t == Min(Evictable(r))
<1>1. /\ CaseTypes /\ Proper(r) /\ Pinned(r) /\ job[r] \in Jobs /\ job[r].held <= Len(payloads) /\ Len(payloads) \in Nat
      /\ entries \subseteq 1..Len(payloads) /\ stage[r] \in {"owner", "aggregate"} /\ Evictable(r) # {}
      /\ claim[r] = NoClaim /\ shed[r] = {}
      /\ entries' = entries \ {t} /\ shed' = [shed EXCEPT ![r] = {t}] /\ stage' = [stage EXCEPT ![r] = "again"]
      /\ UNCHANGED <<payloads, used, claim, job, result>>
  BY DEF KInv, CaseTypes, Evict, Under, Ready
<1>2. t \in entries /\ Inactive(t) /\ t \in 1..Len(payloads)
  <2>1. Evictable(r) \in SUBSET Nat
    <3>1. \A s \in entries : s \in Nat
      BY <1>1
    <3> QED
      BY <3>1 DEF Evictable
  <2>2. t \in Evictable(r)
    BY <1>1, <2>1, Least
  <2> QED
    BY <1>1, <2>2 DEF Evictable
<1> HIDE DEF t
<1>3. Becomes(r, "again", job[r], NoClaim, {t}) /\ Typed("again", job[r], NoClaim, {t})
  BY <1>1, <1>2, Nothing DEF Becomes, Typed, CaseTypes, Stages
<1>4. /\ stage'[r] = "again" /\ job'[r] = job[r] /\ claim'[r] = NoClaim /\ shed'[r] = {t}
      /\ \A q \in CaseRequests \ {r} : SameCase(q)
  BY <1>1, <1>3, Stepped
<1>5. FromHere(r)
  BY <1>2, <1>4 DEF FromHere
<1>6. Apart(r)'
  <2>1. \A q \in CaseRequests : job'[q].held # t
    BY <1>1, <1>2 DEF Inactive, Holders
  <2>2. \A q \in CaseRequests \ {r} : t \notin shed'[q]
    BY <1>2, <1>4 DEF SameCase, KInv, Apart
  <2> QED
    BY <1>1, <1>4, <2>1, <2>2 DEF Apart
<1>7. Load(Application)' <= Live /\ used' \in [DOMAIN used' -> Nat] /\ Answers'
  BY <1>1 DEF KInv, CaseTypes, Load, Answers
<1>8. Proper(r)'
  BY <1>1, <1>4, Nothing DEF Proper, Queued, Mine, Materialized
<1>9. Pinned(r)'
  BY <1>1, <1>4 DEF Pinned, Resolved, Queued, Mine
<1>10. KInv'
  BY <1>1, <1>3, <1>5, <1>6, <1>7, <1>8, <1>9, RequestKeeps
<1>11. entries \cup shed[r] \cup ({job[r].held} \ {0})
         \subseteq entries' \cup shed'[r] \cup {job'[r].held} \cup {job[q].held : q \in CaseRequests \ {r}}
  BY <1>1, <1>4
<1>12. ASSUME NEW account PROVE Load(account)' + ChargedBy(r, account) = Load(account) + ChargedBy(r, account)'
  <2>1. ChargedBy(r, account)' = ChargedBy(r, account) /\ Load(account)' = Load(account)
    BY <1>1, <1>4 DEF ChargedBy, Share, Load
  <2> QED
    BY <2>1
<1> QED
  BY <1>1, <1>3, <1>5, <1>10, <1>11, <1>12, StepCharges

\* What a step makes of the claim of its request, and of nothing else.
LEMMA ClaimKeeps ==
    ASSUME KInv, CreditRight, NEW r \in CaseRequests, NEW c \in Claims,
           claim' = [claim EXCEPT ![r] = c], UNCHANGED <<entries, payloads, shed, stage, job, result>>,
           claim[r] # NoClaim, ~c.up \/ claim[r].up,
           \/ c = NoClaim /\ stage[r] # "reserving"
           \/ c # NoClaim /\ c.pool = claim[r].pool /\ c.bytes = claim[r].bytes,
           used' \in [DOMAIN used' -> Nat], Load(Application)' <= Live,
           \A account : Load(account)' + ChargedBy(r, account) = Load(account) + ChargedBy(r, account)'
    PROVE  KInv' /\ CreditRight'
<1>1. /\ CaseTypes /\ Proper(r) /\ Pinned(r) /\ Apart(r) /\ job[r] \in Jobs /\ job[r].held <= Len(payloads)
      /\ shed[r] \in SUBSET (1..Len(payloads)) /\ Len(payloads) \in Nat
  BY DEF KInv, CaseTypes
<1>2. Becomes(r, stage[r], job[r], c, shed[r]) /\ Typed(stage[r], job[r], c, shed[r])
  BY <1>1 DEF Becomes, Typed, CaseTypes
<1>3. stage'[r] = stage[r] /\ job'[r] = job[r] /\ claim'[r] = c /\ shed'[r] = shed[r]
  BY <1>1, <1>2, Stepped
<1>4. FromHere(r)
  <2>1. 0 \notin shed[r]
    BY <1>1
  <2> QED
    BY <1>3, <2>1 DEF FromHere
<1>5. Apart(r)'
  BY <1>1 DEF Apart
<1>6. Answers'
  BY <1>1 DEF CaseTypes, Answers
<1>7. Proper(r)'
  BY <1>1, <1>3, Nothing DEF Proper, Queued, Mine, Materialized
<1>8. Pinned(r)'
  BY <1>1, <1>3 DEF Pinned, Resolved, Queued, Mine
<1>9. KInv'
  BY <1>2, <1>4, <1>5, <1>6, <1>7, <1>8, RequestKeeps
<1>10. entries \cup shed[r] \cup ({job[r].held} \ {0})
         \subseteq entries' \cup shed'[r] \cup {job'[r].held} \cup {job[q].held : q \in CaseRequests \ {r}}
  BY <1>3
<1> QED
  BY <1>2, <1>4, <1>9, <1>10, StepCharges

\* The second of a pool's accounts is the application's, and no other is.
LEMMA TheApplication ==
    ASSUME NEW p \in Pools, NEW n \in 1..3
    PROVE  Accounts(p)[n] = Application <=> n = 2
<1>1. PICK a, b, q, r : p = <<a, b, q, r>>
  BY DEF Pools
<1>2. Accounts(p)[1] = <<a, b>> /\ Accounts(p)[2] = <<>> /\ Accounts(p)[3] = <<a, b, q, r>>
  BY <1>1 DEF Accounts, OwnerOf, Application
<1>3. Len(<<a, b>>) = 2 /\ Len(<<>>) = 0 /\ Len(<<a, b, q, r>>) = 4
  OBVIOUS
<1>4. n = 1 \/ n = 2 \/ n = 3
  OBVIOUS
<1> QED
  BY <1>2, <1>3, <1>4 DEF Application

\* One counter is charged, if its limit allows it.
LEMMA AddKeeps ==
    ASSUME KInv, CreditRight, NEW r \in CaseRequests, Add(r)
    PROVE  KInv' /\ CreditRight'
<1> DEFINE p == claim[r].pool
           b == claim[r].bytes
           m == claim[r].level
           n == m + 1
           account == Accounts(p)[n]
           fits == Fits(account, b, LimitOf(p, n))
           c == [claim[r] EXCEPT !.level = IF fits THEN n ELSE @, !.up = fits]
<1>1. /\ CaseTypes /\ Proper(r) /\ claim[r] \in Claims /\ claim[r].up /\ m < 3
      /\ used' = IF fits THEN used (+) [x \in {account} |-> b] ELSE used
      /\ claim' = [claim EXCEPT ![r] = c]
      /\ UNCHANGED <<entries, payloads, shed, stage, job, result>>
  BY DEF KInv, CaseTypes, Add
<1>2. m \in 0..2 /\ n \in 1..3 /\ p \in Pools /\ b \in Nat /\ claim[r] # NoClaim
  BY <1>1, Nothing, CacheAssumption DEF Proper, Claims
<1>3. fits \in BOOLEAN
  BY DEF Fits
<1>4. /\ c \in Claims /\ c.pool = p /\ c.bytes = b /\ c.level = (IF fits THEN n ELSE m) /\ c.up = fits
  <2>1. (IF fits THEN n ELSE m) \in 0..3
    BY <1>2
  <2> DEFINE l == IF fits THEN n ELSE m
  <2>3. c = [pool |-> p, bytes |-> b, level |-> l, up |-> fits]
    <3>1. c = [claim[r] EXCEPT !.level = l, !.up = fits]
      OBVIOUS
    <3> HIDE DEF fits, c, l
    <3> QED
      BY <1>1, <3>1 DEF Claims
  <2> HIDE DEF fits, c, p, b, l
  <2> QED
    BY <1>2, <1>3, <2>1, <2>3, ChargeTypes DEF l
<1>5. c # NoClaim
  BY <1>2, <1>4, Nothing
<1>6. used \in [DOMAIN used -> Nat] /\ Load(Application) <= Live
  BY <1>1 DEF CaseTypes, KInv
<1>7. /\ used' \in [DOMAIN used' -> Nat]
      /\ \A x : Load(x)' = Load(x) + IF fits /\ x = account THEN b ELSE 0
  <2>1. CASE fits
    <3> HIDE DEF account
    <3>1. used' = used (+) [x \in {account} |-> b]
      BY <1>1, <2>1
    <3> QED
      BY <1>2, <1>6, <2>1, <3>1, Charging
  <2>2. CASE ~fits
    <3>1. used' = used
      BY <1>1, <2>2
    <3>2. \A x : Load(x) \in Nat
      BY <1>6 DEF Load
    <3>3. \A x : Load(x)' = Load(x)
      BY <3>1 DEF Load
    <3> QED
      BY <1>6, <2>2, <3>1, <3>2, <3>3
  <2> QED
    BY <2>1, <2>2
<1>8. Load(Application)' <= Live
  <2>1. account = Application /\ fits => Load(Application) + b <= Live
    <3>1. account = Application => n = 2
      BY <1>2, TheApplication
    <3>2. n = 2 => LimitOf(p, n) = Live
      BY DEF LimitOf
    <3> QED
      BY <3>1, <3>2 DEF Fits
  <2>2. Load(Application) \in Nat
    BY <1>6 DEF Load
  <2>3. Load(Application)' = Load(Application) + IF fits /\ Application = account THEN b ELSE 0
    BY <1>7
  <2> HIDE DEF account, fits
  <2> QED
    BY <1>2, <1>6, <2>1, <2>2, <2>3
<1>9. ASSUME NEW x PROVE Load(x)' + ChargedBy(r, x) = Load(x) + ChargedBy(r, x)'
  <2>1. /\ Share(x, claim[r], m + 1) = Share(x, claim[r], m) + IF Accounts(p)[m + 1] = x THEN b ELSE 0
        /\ Share(x, claim[r], m) \in Nat
    BY <1>2, Sharing
  <2>2. Share(x, c, c.level) = Share(x, claim[r], c.level)
    <3> HIDE DEF c
    <3> QED
      BY <1>4, ShareSame
  <2>3. Share(x, c, c.level) = Share(x, claim[r], m) + IF fits /\ x = account THEN b ELSE 0
    <3> HIDE DEF c, fits
    <3> QED
      BY <1>2, <1>3, <1>4, <2>1, <2>2
  <2> DEFINE o == IF job[r].own = <<>> THEN 0 ELSE Share(x, job[r].own, 3)
  <2>4. o \in Nat
    <3>1. job[r] \in Jobs
      BY <1>1 DEF CaseTypes
    <3> QED
      BY <3>1, OwnShare
  <2>5. ChargedBy(r, x) = o + Share(x, claim[r], m)
    BY <1>2 DEF ChargedBy
  <2>6. claim'[r] = c /\ job'[r] = job[r]
    BY <1>1 DEF CaseTypes
  <2>7. ChargedBy(r, x)' = o + Share(x, c, c.level)
    <3> HIDE DEF c
    <3> QED
      BY <1>5, <2>6 DEF ChargedBy, Share
  <2>8. Load(x)' = Load(x) + IF fits /\ x = account THEN b ELSE 0
    BY <1>7
  <2>9. Load(x) \in Nat
    BY <1>6 DEF Load
  <2> HIDE DEF o, c, fits, account
  <2> QED
    BY <1>2, <2>1, <2>3, <2>4, <2>5, <2>7, <2>8, <2>9
<1> HIDE DEF c
<1> QED
  BY <1>1, <1>2, <1>4, <1>5, <1>7, <1>8, <1>9, ClaimKeeps

\* The leases of requests.
LEMMA LeaseTypes ==
    ASSUME Well, NEW r \in CaseRequests
    PROVE  /\ job[r].own # <<>> => job[r].own.pool \in Pools /\ job[r].own.bytes \in Nat
           /\ claim[r] # NoClaim => claim[r].pool \in Pools /\ claim[r].bytes \in Nat
           /\ claim[r].level \in 0..3 /\ (claim[r] = NoClaim => claim[r].level = 0)
<1>1. CaseTypes /\ Sizes \subseteq Nat /\ Proper(r)
  BY CacheAssumption DEF Well
<1>2. job[r] \in Jobs /\ claim[r] \in Claims
  BY <1>1 DEF CaseTypes
<1>3. job[r].own # <<>> => job[r].own.pool \in Pools /\ job[r].own.bytes \in Nat
  BY <1>1, <1>2 DEF Jobs, Leases
<1>4. claim[r] # NoClaim => claim[r].pool \in Pools /\ claim[r].bytes \in Nat
  BY <1>1, <1>2 DEF Proper
<1> QED
  BY <1>2, <1>3, <1>4, Nothing DEF Claims

\* A counter has what a claim charged to it.
LEMMA Covered ==
    ASSUME Well, CreditRight, NEW r \in CaseRequests, claim[r].level \in 1..3
    PROVE  claim[r].bytes <= Load(Accounts(claim[r].pool)[claim[r].level])
<1> DEFINE p == claim[r].pool
           b == claim[r].bytes
           m == claim[r].level - 1
           account == Accounts(p)[claim[r].level]
           own == IF job[r].own = <<>> THEN 0 ELSE Share(account, job[r].own, 3)
           w == Charges(account)
           v == Tokens(account)
<1>1. /\ claim[r] # NoClaim /\ p \in Pools /\ b \in Nat
      /\ m \in 0..2 /\ claim[r].level = m + 1
      /\ job[r].own # <<>> => job[r].own.pool \in Pools /\ job[r].own.bytes \in Nat
  BY LeaseTypes, Nothing
<1>2. /\ Share(account, claim[r], m + 1) = Share(account, claim[r], m) + b
      /\ Share(account, claim[r], m) \in Nat
  BY <1>1, Sharing
<1>3. own \in Nat
  BY <1>1, Sharing
<1>4. ChargedBy(r, account) = own + Share(account, claim[r], m + 1)
  BY <1>1 DEF ChargedBy
<1>5. w \in [CaseRequests -> Nat] /\ IsFiniteSet(CaseRequests) /\ w[r] = ChargedBy(r, account)
      /\ v \in [Alive -> Nat] /\ IsFiniteSet(Alive)
  BY Numbers, CacheAssumption DEF Charges, Tokens, Countable
<1>6. Load(account) = SumFunction(v) + SumFunction(w)
  BY DEF CreditRight, Charged, Charges, Tokens
<1> HIDE DEF w, v, own
<1>7. SumFunction(w) = w[r] + SumFunction(Without(w, r)) /\ SumFunction(v) \in Nat
  BY <1>5, SumWithout
<1>8. SumFunction(Without(w, r)) \in Nat
  <2>1. Without(w, r) \in [CaseRequests \ {r} -> Nat] /\ IsFiniteSet(CaseRequests \ {r})
    BY <1>5, FS_Subset DEF Without
  <2> QED
    BY <2>1, SumWithout
<1>9. ChargedBy(r, account) \in Nat /\ b <= ChargedBy(r, account)
  BY <1>1, <1>2, <1>3, <1>4
<1> QED
  BY <1>1, <1>5, <1>6, <1>7, <1>8, <1>9

\* One counter is given back what it was charged.
LEMMA GiveBackKeeps ==
    ASSUME KInv, CreditRight, NEW r \in CaseRequests, GiveBack(r)
    PROVE  KInv' /\ CreditRight'
<1> DEFINE p == claim[r].pool
           b == claim[r].bytes
           m == claim[r].level - 1
           account == Accounts(p)[m + 1]
           c == IF claim[r].level = 1 /\ stage[r] # "reserving" THEN NoClaim
                ELSE [claim[r] EXCEPT !.level = @ - 1]
<1>1. /\ CaseTypes /\ Proper(r) /\ claim[r] \in Claims /\ ~claim[r].up /\ claim[r].level > 0
      /\ used' = used (-) [x \in {Accounts(p)[claim[r].level]} |-> b]
      /\ claim' = [claim EXCEPT ![r] = c]
      /\ UNCHANGED <<entries, payloads, shed, stage, job, result>>
  <2>1. CaseTypes /\ Proper(r) /\ claim[r] \in Claims
    BY DEF KInv, CaseTypes
  <2>2. claim' = [claim EXCEPT ![r] = c]
    BY DEF GiveBack
  <2> QED
    BY <2>1, <2>2 DEF GiveBack
<1>2. claim[r] # NoClaim /\ claim[r].level = m + 1 /\ m \in 0..2
  BY <1>1, Nothing DEF Claims
<1>3. p \in Pools /\ b \in Nat
  BY <1>1, <1>2, CacheAssumption DEF Proper
<1>4. \/ c = NoClaim /\ stage[r] # "reserving" /\ m = 0
      \/ /\ c \in Claims /\ c # NoClaim /\ c.pool = p /\ c.bytes = b /\ c.level = m /\ ~c.up
  <2>1. CASE claim[r].level = 1 /\ stage[r] # "reserving"
    BY <1>2, <2>1
  <2>2. CASE ~(claim[r].level = 1 /\ stage[r] # "reserving")
    <3>1. c = [claim[r] EXCEPT !.level = @ - 1]
      BY <2>2
    <3>2. /\ c \in Claims /\ c.pool = p /\ c.bytes = b /\ c.level = m /\ ~c.up
      BY <1>1, <1>2, <3>1 DEF Claims
    <3> QED
      BY <1>3, <3>2, Nothing
  <2> QED
    BY <2>1, <2>2
<1> HIDE DEF c
<1>5. used \in [DOMAIN used -> Nat] /\ Load(Application) <= Live /\ \A x : Load(x) \in Nat
  BY <1>1 DEF CaseTypes, KInv, Load
<1> DEFINE o(x) == IF job[r].own = <<>> THEN 0 ELSE Share(x, job[r].own, 3)
<1>6. ASSUME NEW x
      PROVE  /\ Share(x, claim[r], m + 1) = Share(x, claim[r], m) + IF Accounts(p)[m + 1] = x THEN b ELSE 0
             /\ Share(x, claim[r], m) \in Nat /\ o(x) \in Nat
             /\ ChargedBy(r, x) = o(x) + Share(x, claim[r], m + 1)
  <2>1. /\ Share(x, claim[r], m + 1) = Share(x, claim[r], m) + IF Accounts(p)[m + 1] = x THEN b ELSE 0
        /\ Share(x, claim[r], m) \in Nat
    BY <1>2, <1>3, Sharing
  <2>2. o(x) \in Nat
    <3>1. job[r] \in Jobs
      BY <1>1 DEF CaseTypes
    <3> QED
      BY <3>1, OwnShare
  <2>3. ChargedBy(r, x) = o(x) + Share(x, claim[r], m + 1)
    BY <1>2 DEF ChargedBy
  <2> QED
    BY <2>1, <2>2, <2>3
<1>7. b <= Load(account)
  BY <1>1, <1>2, Covered DEF KInv, Well
<1>8. /\ used' \in [DOMAIN used' -> Nat]
      /\ \A x : Load(x)' + (IF x = account THEN b ELSE 0) = Load(x)
  <2>1. used' = used (-) [x \in {account} |-> b]
    BY <1>1, <1>2
  <2> HIDE DEF account
  <2> QED
    BY <1>3, <1>5, <1>7, <2>1, Releasing
<1>9. \A x : Load(x)' \in Nat
  BY <1>8 DEF Load
<1>10. Load(Application)' <= Live
  <2>1. Load(Application)' + (IF Application = account THEN b ELSE 0) = Load(Application)
    BY <1>8
  <2>2. Load(Application)' \in Nat /\ Live \in Nat
    BY <1>9, QuotaAssumption
  <2> HIDE DEF account
  <2> QED
    BY <1>3, <1>5, <2>1, <2>2
<1>11. ASSUME NEW x PROVE Load(x)' + ChargedBy(r, x) = Load(x) + ChargedBy(r, x)'
  <2>1. claim'[r] = c /\ job'[r] = job[r]
    BY <1>1 DEF CaseTypes
  <2>2. ChargedBy(r, x)' = o(x) + Share(x, claim[r], m)
    <3>1. CASE c = NoClaim /\ m = 0
      <4>1. Share(x, claim[r], 0) = 0
        BY <1>3, Sharing
      <4>2. ChargedBy(r, x)' = o(x) + 0
        BY <2>1, <3>1 DEF ChargedBy, Share
      <4> QED
        BY <3>1, <4>1, <4>2
    <3>2. CASE c # NoClaim /\ c.pool = p /\ c.bytes = b /\ c.level = m
      <4>1. Share(x, c, m) = Share(x, claim[r], m)
        BY <3>2, ShareSame
      <4>2. ChargedBy(r, x)' = o(x) + Share(x, c, m)
        BY <2>1, <3>2 DEF ChargedBy, Share
      <4> QED
        BY <4>1, <4>2
    <3> QED
      BY <1>4, <3>1, <3>2
  <2>3. Load(x)' + (IF x = account THEN b ELSE 0) = Load(x) /\ Load(x) \in Nat /\ Load(x)' \in Nat
    BY <1>5, <1>8, <1>9
  <2> HIDE DEF o
  <2>4. /\ Share(x, claim[r], m + 1) = Share(x, claim[r], m) + IF account = x THEN b ELSE 0
        /\ Share(x, claim[r], m) \in Nat /\ o(x) \in Nat
        /\ ChargedBy(r, x) = o(x) + Share(x, claim[r], m + 1)
    BY <1>6
  <2> HIDE DEF account, p, m, b
  <2> QED
    BY <1>3, <2>2, <2>3, <2>4
<1>12. c \in Claims /\ ~c.up
  BY <1>4, Nothing
<1> QED
  BY <1>1, <1>2, <1>4, <1>8, <1>10, <1>11, <1>12, ClaimKeeps

-----------------------------------------------------------------------------
(* A publication.                                                          *)

\* What stays beside a new publication: publications of the cache under other keys, as many
\* and of as many bytes as fit with it.
LEMMA FittedExact ==
    ASSUME CaseTypes, NEW token, token = Len(payloads) + 1, Len(payloads') = token,
           payloads'[token].size \in Nat, payloads'[token].size <= Retained, NEW limit
    PROVE  LET kept == Fitted(token, limit)
           IN  /\ kept \subseteq entries
               /\ \A t \in kept : /\ payloads[t].owner = payloads'[token].owner
                                  => payloads[t].key # payloads'[token].key
               /\ SumFunction([t \in kept \cup {token} |-> payloads'[t].size]) <= Retained
               /\ Cardinality(kept) < MaxEntries
<1> DEFINE owner == payloads'[token].owner
           others == {t \in entries : payloads[t].owner = owner => payloads[t].key # payloads'[token].key}
           Own(n) == {t \in others : payloads[t].owner = owner /\ t >= n}
           first == Min({n \in 1..token : SumOf(Own(n) \cup {token}) <= limit})
           fit == {t \in others : payloads[t].owner = owner => t >= first}
           Newest(n) == {t \in fit : t >= n}
           able == {n \in 1..token : /\ SumOf(Newest(n) \cup {token}) <= Retained
                                     /\ Cardinality(Newest(n)) < MaxEntries}
           oldest == Min(able)
<1>1. entries \subseteq 1..Len(payloads) /\ Len(payloads) \in Nat
  BY DEF CaseTypes
<1>2. Newest(token) = {} /\ token \in 1..token
  <2>1. \A t \in entries : ~(t >= token)
    BY <1>1
  <2> HIDE DEF first
  <2>2. token \in 1..token
    BY <1>1
  <2> QED
    BY <2>1, <2>2
<1>3. SumOf({token}) = payloads'[token].size
  <2> DEFINE w == [t \in {token} |-> payloads'[t].size]
  <2>1. w \in [{token} -> Nat] /\ IsFiniteSet({token}) /\ w[token] = payloads'[token].size
    BY FS_Singleton
  <2>2. Without(w, token) \in [{} -> Nat] /\ DOMAIN Without(w, token) = {}
    BY DEF Without
  <2> HIDE DEF w
  <2>3. SumFunction(w) = w[token] + SumFunction(Without(w, token))
    BY <2>1, SumWithout
  <2>4. SumFunction(Without(w, token)) = 0
    <3>1. SumFunction(Without(w, token)) = SumFunctionOnSet(Without(w, token), {})
      BY <2>2 DEF SumFunction
    <3> QED
      BY <3>1, SumStep, FS_EmptySet
  <2>5. SumOf({token}) = SumFunction(w)
    BY DEF SumOf, w
  <2> QED
    BY <2>1, <2>3, <2>4, <2>5
<1>4. token \in able
  <2>1. Newest(token) \cup {token} = {token}
    BY <1>2
  <2>2. Cardinality(Newest(token)) = 0
    BY <1>2, FS_EmptySet
  <2> HIDE DEF Newest
  <2>3. SumOf(Newest(token) \cup {token}) <= Retained
    BY <1>3, <2>1
  <2>4. Cardinality(Newest(token)) < MaxEntries
    BY <2>2, CacheAssumption
  <2> QED
    BY <1>2, <2>3, <2>4
<1>5. able \in SUBSET Nat
  OBVIOUS
<1>6. oldest \in able
  <2> HIDE DEF able
  <2> QED
    BY <1>4, <1>5, Least
<1>7. Fitted(token, limit) = Newest(oldest)
  BY DEF Fitted
<1>8. /\ SumOf(Newest(oldest) \cup {token}) <= Retained
      /\ Cardinality(Newest(oldest)) < MaxEntries
  <2> HIDE DEF oldest, Newest
  <2> QED
    BY <1>6
<1>9. Newest(oldest) \subseteq others
  <2> HIDE DEF others, first, oldest
  <2> QED
    OBVIOUS
<1> HIDE DEF Newest, oldest
<1> QED
  BY <1>7, <1>8, <1>9 DEF SumOf

\* What is published is in the cache, within the limits; what leaves it and is used by
\* nobody is the request's to give back.
LEMMA StoreKeeps ==
    ASSUME KInv, CreditRight, NEW r \in CaseRequests, Store(r)
    PROVE  KInv' /\ CreditRight'
<1>0. PICK token, kept : token = Len(payloads') /\ kept = Fitted(token, Materialized(job[r].own.pool))
  OBVIOUS
<1> DEFINE p == [owner |-> Mine(r), key |-> job[r].key, size |-> job[r].size, pool |-> job[r].own.pool]
           gone == {t \in entries \ kept : Inactive(t)}
           reply == [token |-> token, pinned |-> token]
<1>1. /\ CaseTypes /\ Cached /\ Proper(r) /\ job[r] \in Jobs /\ Len(payloads) \in Nat /\ entries \subseteq 1..Len(payloads)
      /\ stage[r] = "storing" /\ claim[r] = NoClaim /\ shed[r] = {}
      /\ payloads' = Append(payloads, p) /\ entries' = kept \cup {token}
      /\ shed' = [shed EXCEPT ![r] = gone] /\ result' = [result EXCEPT ![r] = reply]
      /\ stage' = [stage EXCEPT ![r] = "done"] /\ job' = [job EXCEPT ![r] = NoJob]
      /\ UNCHANGED <<used, claim>>
  BY <1>0 DEF KInv, CaseTypes, Store, Ready
<1>2. /\ job[r].pool \in Pools /\ OwnerOf(job[r].pool) = Mine(r) /\ job[r].kind = "sync" /\ job[r].held = 0
      /\ job[r].size \in Sizes /\ job[r].size <= Materialized(job[r].pool)
      /\ job[r].own = Lease(job[r].pool, job[r].size)
  BY <1>1 DEF Proper
<1>3. /\ job[r].own.pool = job[r].pool /\ job[r].own.bytes = job[r].size /\ job[r].own # <<>>
      /\ job[r].own \in Leases /\ job[r].size \in Nat
  <2>1. job[r].own.pool = job[r].pool /\ job[r].own.bytes = job[r].size /\ job[r].own \in Leases
    BY <1>2 DEF Lease, Leases
  <2>2. job[r].size \in Nat
    BY <1>2, CacheAssumption
  <2> QED
    BY <2>1, <2>2, Nothing
<1>4. p \in Payloads /\ p.owner = OwnerOf(p.pool) /\ p.size = job[r].size /\ p.pool = job[r].own.pool
      /\ p.owner = Mine(r) /\ p.key = job[r].key
  BY <1>1, <1>2, <1>3 DEF Payloads, Jobs, Mine
<1> HIDE DEF p
<1>5. /\ payloads' \in Seq(Payloads) /\ token = Len(payloads) + 1 /\ payloads'[token] = p
      /\ \A t \in 1..Len(payloads) : payloads'[t] = payloads[t]
  <2>1. payloads \in Seq(Payloads)
    BY <1>1 DEF CaseTypes
  <2> QED
    BY <1>0, <1>1, <1>4, <2>1
<1>6. p.size <= Retained
  <2>1. QuotaOf(job[r].pool) \in Nat
    <3>1. PICK id \in Identities, q \in CaseRequests \cup {NoRequest} :
              job[r].pool = <<id.case, id.analysis, Quota[id.revision], q>>
      BY <1>2 DEF Pools
    <3>2. QuotaOf(job[r].pool) = Quota[id.revision]
      BY <3>1 DEF QuotaOf
    <3>3. id.revision \in 0..MaxRevision
      BY DEF Identities
    <3> QED
      BY <3>2, <3>3, QuotaAssumption
  <2>2. Materialized(job[r].pool) <= Retained
    BY <2>1, QuotaAssumption DEF Materialized, Smaller
  <2>3. Materialized(job[r].pool) \in Nat
    BY <2>1, QuotaAssumption DEF Materialized, Smaller
  <2> QED
    BY <1>2, <1>3, <1>4, <2>2, <2>3, QuotaAssumption
<1>7. /\ kept \subseteq entries
      /\ \A t \in kept : payloads[t].owner = p.owner => payloads[t].key # p.key
      /\ SumFunction([t \in kept \cup {token} |-> payloads'[t].size]) <= Retained
      /\ Cardinality(kept) < MaxEntries
  <2> DEFINE limit == Materialized(job[r].own.pool)
  <2>1. payloads'[token].size \in Nat /\ payloads'[token].size <= Retained
    BY <1>3, <1>4, <1>5, <1>6
  <2> HIDE DEF limit
  <2>2. kept = Fitted(token, limit)
    BY <1>0 DEF limit
  <2>3. LET k == Fitted(token, limit)
        IN  /\ k \subseteq entries
            /\ \A t \in k : /\ payloads[t].owner = payloads'[token].owner
                            => payloads[t].key # payloads'[token].key
            /\ SumFunction([t \in k \cup {token} |-> payloads'[t].size]) <= Retained
            /\ Cardinality(k) < MaxEntries
    BY <1>0, <1>1, <1>5, <2>1, FittedExact
  <2> QED
    BY <1>5, <2>2, <2>3
<1>8. token \notin entries /\ token \in 1..Len(payloads') /\ Len(payloads') = Len(payloads) + 1
      /\ entries' \subseteq 1..Len(payloads')
  <2>1. Len(payloads') = Len(payloads) + 1
    BY <1>0, <1>5
  <2>2. token \notin entries /\ token \in 1..Len(payloads')
    BY <1>1, <1>5, <2>1
  <2>3. entries \subseteq 1..Len(payloads')
    BY <1>1, <2>1
  <2> QED
    BY <1>1, <1>7, <2>1, <2>2, <2>3
<1>9. Cached'
  <2>1. ASSUME NEW m \in entries', NEW n \in entries',
               payloads'[m].owner = payloads'[n].owner, payloads'[m].key = payloads'[n].key
        PROVE  m = n
    <3>1. \A t \in kept : t \in 1..Len(payloads) /\ payloads'[t] = payloads[t]
      BY <1>1, <1>5, <1>7
    <3>2. CASE m \in kept /\ n \in kept
      BY <1>1, <1>7, <2>1, <3>1, <3>2 DEF Cached
    <3>3. CASE m = token \/ n = token
      BY <1>1, <1>5, <1>7, <2>1, <3>1, <3>3
    <3> QED
      BY <1>1, <3>2, <3>3
  <2>2. Cardinality(entries') <= MaxEntries
    <3>1. IsFiniteSet(kept)
      <4>1. IsFiniteSet(1..Len(payloads))
        BY <1>1, FS_Interval
      <4> QED
        BY <1>1, <1>7, <4>1, FS_Subset
    <3>2. /\ Cardinality(kept) \in Nat
          /\ Cardinality(kept \cup {token}) = Cardinality(kept) + 1
      BY <1>7, <1>8, <3>1, FS_AddElement, FS_CardinalityType
    <3> QED
      BY <1>1, <1>7, <3>2, CacheAssumption
  <2>3. SumFunction([t \in entries' |-> payloads'[t].size]) <= Retained
    BY <1>1, <1>7
  <2> QED
    BY <2>1, <2>2, <2>3 DEF Cached
<1>10. gone \subseteq entries /\ gone \subseteq 1..Len(payloads') /\ \A t \in gone : t \notin kept /\ Holders(t) = {}
  <2>1. entries \subseteq 1..Len(payloads')
    BY <1>1, <1>8
  <2> QED
    BY <2>1 DEF Inactive
<1>11. Becomes(r, "done", NoJob, NoClaim, gone)
  BY <1>1 DEF Becomes, CaseTypes
<1>12. /\ stage'[r] = "done" /\ job'[r] = NoJob /\ claim'[r] = NoClaim /\ shed'[r] = gone
       /\ \A q \in CaseRequests \ {r} : SameCase(q)
  BY <1>1, <1>11, Stepped
<1> HIDE DEF gone
<1>13. CaseTypes'
  <2>1. stage' \in [CaseRequests -> Stages] /\ job' \in [CaseRequests -> Jobs] /\ claim' \in [CaseRequests -> Claims]
    BY <1>1, Nothing DEF CaseTypes, Stages
  <2>2. shed' \in [CaseRequests -> SUBSET (1..Len(payloads'))]
    <3>1. shed \in [CaseRequests -> SUBSET (1..Len(payloads'))]
      BY <1>1, <1>8 DEF CaseTypes
    <3> QED
      BY <1>1, <1>10, <3>1
  <2>3. \A q \in CaseRequests : job'[q].held <= Len(payloads')
    <3>1. \A q \in CaseRequests : job[q].held <= Len(payloads) /\ job[q].held \in Nat
      BY <1>1 DEF CaseTypes, Jobs
    <3> QED
      BY <1>1, <1>8, <1>12, <3>1, Nothing DEF SameCase
  <2>4. \A t \in 1..Len(payloads') : payloads'[t].owner = OwnerOf(payloads'[t].pool)
    <3>1. \A t \in 1..Len(payloads') : t \in 1..Len(payloads) \/ t = token
      BY <1>1, <1>5, <1>8
    <3> QED
      BY <1>1, <1>4, <1>5, <3>1 DEF CaseTypes
  <2>5. Answers'
    BY <1>1 DEF CaseTypes, Answers
  <2>6. used' \in [DOMAIN used' -> Nat]
    BY <1>1 DEF CaseTypes
  <2> QED
    BY <1>5, <1>8, <2>1, <2>2, <2>3, <2>4, <2>5, <2>6 DEF CaseTypes
<1>14. Older
  <2>1. \A t \in 1..Len(payloads) : t # token
    BY <1>1, <1>5
  <2> QED
    BY <1>1, <1>5, <1>7, <1>8, <2>1 DEF Older
<1>15. FromHere(r)
  <2>1. 0 \notin gone
    BY <1>1, <1>10
  <2> QED
    BY <1>10, <1>12, <2>1, Nothing DEF FromHere
<1>16. \A q \in CaseRequests \ {r} : Proper(q)' /\ Apart(q)' /\ Pinned(q)'
  <2>1. Len(payloads') \in Nat
    BY <1>1, <1>8
  <2> QED
    BY <1>12, <1>14, <1>15, <2>1, OthersStay
<1>17. Proper(r)' /\ Pinned(r)'
  <2>1. NoJob = [NoJob EXCEPT !.own = NoJob.own]
    BY DEF NoJob
  <2>2. Proper(r)'
    BY <1>12, <2>1, Nothing DEF Proper, Queued
  <2>3. Pinned(r)'
    BY <1>12, Nothing DEF Pinned, Resolved, Queued
  <2> QED
    BY <2>2, <2>3
<1>18. \A t \in gone : t \notin entries' /\ \A q \in CaseRequests : job'[q].held # t
  <2> TAKE t \in gone
  <2>1. t \notin entries' /\ t # 0
    BY <1>1, <1>8, <1>10
  <2>2. \A q \in CaseRequests \ {r} : job'[q].held # t
    BY <1>10, <1>12 DEF SameCase, Holders
  <2> QED
    BY <1>12, <2>1, <2>2, Nothing
<1>19. Apart(r)'
  <2>1. \A t \in gone : \A q \in CaseRequests \ {r} : t \notin shed'[q]
    BY <1>10, <1>12 DEF SameCase, KInv, Apart
  <2> QED
    BY <1>12, <1>18, <2>1 DEF Apart
<1>20. KInv'
  <2>1. Load(Application)' <= Live
    BY <1>1 DEF KInv, Load
  <2> QED
    BY <1>9, <1>13, <1>16, <1>17, <1>19, <2>1 DEF KInv
<1>21. Well /\ Well'
  BY <1>20 DEF KInv, Well
<1>22. Alive \subseteq 1..Len(payloads) /\ token \notin Alive
  BY <1>1, <1>5, <1>21, Numbers DEF Countable
<1>23. Alive' = Alive \cup {token}
  <2>1. \A q \in CaseRequests \ {r} : job'[q].held = job[q].held /\ shed'[q] = shed[q]
    BY <1>12 DEF SameCase
  <2>2. Alive' = kept \cup {token} \cup ({job'[q].held : q \in CaseRequests} \ {0})
                 \cup UNION {shed'[q] : q \in CaseRequests}
    BY <1>1 DEF Alive
  <2>3. ASSUME NEW t \in Alive PROVE t \in Alive'
    <3>1. CASE t \in entries
      <4>1. CASE t \in kept
        BY <2>2, <4>1
      <4>2. CASE t \notin kept /\ Inactive(t)
        <5>1. t \in gone
          BY <3>1, <4>2 DEF gone
        <5> QED
          BY <1>12, <2>2, <5>1
      <4>3. CASE ~Inactive(t)
        <5>1. PICK q \in CaseRequests : job[q].held = t
          BY <4>3 DEF Inactive, Holders
        <5>2. q # r /\ t # 0
          BY <1>1, <1>2, <3>1, <5>1
        <5> QED
          BY <2>1, <2>2, <5>1, <5>2
      <4> QED
        BY <4>1, <4>2, <4>3
    <3>2. ASSUME NEW q \in CaseRequests, t = job[q].held, t # 0 PROVE t \in Alive'
      <4>1. q # r
        BY <1>2, <3>2
      <4> QED
        BY <2>1, <2>2, <3>2, <4>1
    <3>3. ASSUME NEW q \in CaseRequests, t \in shed[q] PROVE t \in Alive'
      <4>1. q # r
        BY <1>1, <3>3
      <4> QED
        BY <2>1, <2>2, <3>3, <4>1
    <3> QED
      BY <3>1, <3>2, <3>3 DEF Alive
  <2>4. ASSUME NEW t \in Alive' PROVE t \in Alive \cup {token}
    <3>1. CASE t \in kept \cup {token}
      BY <1>7, <3>1 DEF Alive
    <3>2. ASSUME NEW q \in CaseRequests, t = job'[q].held, t # 0 PROVE t \in Alive
      <4>1. q # r
        BY <1>12, <3>2, Nothing
      <4> QED
        BY <2>1, <3>2, <4>1 DEF Alive
    <3>3. ASSUME NEW q \in CaseRequests, t \in shed'[q] PROVE t \in Alive
      <4>1. CASE q = r
        BY <1>10, <1>12, <3>3, <4>1 DEF Alive
      <4>2. CASE q # r
        BY <2>1, <3>3, <4>2 DEF Alive
      <4> QED
        BY <4>1, <4>2
    <3> QED
      BY <2>2, <3>1, <3>2, <3>3
  <2>5. token \in Alive'
    BY <2>2
  <2> QED
    BY <2>3, <2>4, <2>5
<1>24. \A s \in Alive : CreditOf(s)' = CreditOf(s)
  BY <1>5, <1>22 DEF CreditOf
<1>25. \A q \in CaseRequests \ {r} : \A account : ChargedBy(q, account)' = ChargedBy(q, account)
  BY <1>12 DEF SameCase, ChargedBy, Share
<1>26. CreditOf(token)' = job[r].own
  <2>1. CreditOf(token)' = Lease(payloads'[token].pool, payloads'[token].size)
    BY DEF CreditOf
  <2> QED
    BY <1>2, <1>3, <1>4, <1>5, <2>1
<1>27. ASSUME NEW account
       PROVE  ChargedBy(r, account) = ChargedBy(r, account)' + Share(account, job[r].own, 3)
  <2>1. ChargedBy(r, account) = Share(account, job[r].own, 3) + 0
    BY <1>1, <1>3 DEF ChargedBy
  <2>2. ChargedBy(r, account)' = 0
    BY <1>12, Nothing DEF ChargedBy
  <2>3. Share(account, job[r].own, 3) \in Nat
    BY <1>2, <1>3, Sharing
  <2> QED
    BY <2>1, <2>2, <2>3
<1>28. \A account : ChargedBy(r, account) = ChargedBy(r, account)' + Share(account, CreditOf(token)', 3)
  BY <1>26, <1>27
<1>29. CreditRight'
  BY <1>1, <1>21, <1>22, <1>23, <1>24, <1>25, <1>28, TokenComes
<1> QED
  BY <1>20, <1>29

-----------------------------------------------------------------------------
(* Every step, and the first state.                                        *)

CaseInv == KInv /\ CreditRight

\* A sum of nothings.
LEMMA SumNothing ==
    ASSUME NEW S, IsFiniteSet(S), NEW w \in [S -> Nat], \A x \in S : w[x] = 0
    PROVE  SumFunction(w) = 0
<1> DEFINE G == {T \in SUBSET S : SumFunctionOnSet(w, T) = 0}
<1>1. ASSUME NEW T \in SUBSET S, \A R \in SUBSET T : R # T => R \in G PROVE T \in G
  <2>1. IsFiniteSet(T) /\ \A x \in T : w[x] \in Nat /\ w[x] = 0
    BY FS_Subset
  <2>2. CASE T = {}
    BY <2>1, <2>2, SumStep
  <2>3. CASE T # {}
    <3>1. PICK x \in T : TRUE
      BY <2>3
    <3>2. SumFunctionOnSet(w, T) = w[x] + SumFunctionOnSet(w, T \ {x})
      BY <2>1, SumStep
    <3>3. SumFunctionOnSet(w, T \ {x}) = 0
      <4>1. T \ {x} \in SUBSET T /\ T \ {x} # T
        OBVIOUS
      <4> QED
        BY <1>1, <4>1
    <3> QED
      BY <2>1, <3>2, <3>3
  <2> QED
    BY <2>2, <2>3
<1> HIDE DEF G
<1>2. \A T \in SUBSET S : T \in G
  BY <1>1, BySubsets
<1>3. SumFunctionOnSet(w, S) = 0
  BY <1>2 DEF G
<1> QED
  BY <1>3 DEF SumFunction

\* What was kept before is charged.
LEMMA CaseBegins == CaseInit => CaseInv
<1> SUFFICES ASSUME CaseInit PROVE CaseInv
  OBVIOUS
<1> DEFINE T == DOMAIN payloads
<1>1. /\ T = 1..Len(payloads) /\ Len(payloads) \in Nat /\ Len(payloads) <= 2 /\ payloads \in Seq(Payloads)
      /\ \A t \in T : payloads[t] \in {Kept(c, k, n) : c \in Cases, k \in Keys, n \in Sizes}
  <2>1. \A c \in Cases, k \in Keys, n \in Sizes : Kept(c, k, n) \in Payloads
    <3> TAKE c \in Cases, k \in Keys, n \in Sizes
    <3>1. [case |-> c, analysis |-> 0, revision |-> 0] \in Identities
      BY LimitAssumption DEF Identities
    <3>2. Owner([case |-> c, analysis |-> 0, revision |-> 0]) = <<c, 0>>
      BY DEF Owner
    <3>3. <<c, 0, Quota[0], NoRequest>> \in Pools
      BY <3>1 DEF Pools
    <3> QED
      BY <3>1, <3>2, <3>3 DEF Kept, Payloads
  <2>2. CASE payloads = <<>>
    BY <2>2
  <2>3. ASSUME NEW c \in Cases, NEW k \in Keys, NEW n \in Sizes, payloads = <<Kept(c, k, n)>> PROVE <1>1!:
    BY <2>1, <2>3
  <2>4. ASSUME NEW c \in Cases, NEW d \in Cases, NEW k \in Keys, NEW m \in Sizes, NEW n \in Sizes,
               payloads = <<Kept(c, k, m), Kept(d, k, n)>>
        PROVE  <1>1!:
    BY <2>1, <2>4
  <2> QED
    BY <2>2, <2>3, <2>4 DEF CaseInit
<1>2. \A t \in T : payloads[t].owner = OwnerOf(payloads[t].pool)
  BY <1>1 DEF Kept, OwnerOf
<1>3. /\ entries = T /\ \A m, n \in T : m # n => payloads[m].owner # payloads[n].owner
      /\ Len(payloads) <= MaxEntries
      /\ SumFunction([t \in T |-> payloads[t].size]) <= Smaller(Live, Retained)
      /\ used = [account \in UNION {ToSet(Accounts(payloads[t].pool)) : t \in T} |->
                    SumFunction([t \in T |-> Share(account, CreditOf(t), 3)])]
      /\ stage = [r \in CaseRequests |-> "idle"] /\ job = [r \in CaseRequests |-> NoJob]
      /\ result = [r \in CaseRequests |-> NoAnswer]
      /\ claim = [r \in CaseRequests |-> NoClaim] /\ shed = [r \in CaseRequests |-> {}]
  BY DEF CaseInit
<1>4. IsFiniteSet(T) /\ Cardinality(T) = Len(payloads)
  <2>1. IsFiniteSet(1..Len(payloads)) /\ Cardinality(1..Len(payloads)) = Len(payloads)
    <3> DEFINE n == Len(payloads)
    <3>1. n \in Nat /\ 1 \in Int /\ n \in Int
      BY <1>1
    <3> HIDE DEF n
    <3>2. IsFiniteSet(1..n) /\ Cardinality(1..n) = IF 1 > n THEN 0 ELSE n - 1 + 1
      BY <3>1, FS_Interval
    <3>3. Cardinality(1..n) = n
      BY <3>1, <3>2
    <3> QED
      BY <3>2, <3>3 DEF n
  <2> QED
    BY <1>1, <2>1
<1>5. \A t \in T : /\ CreditOf(t).pool \in Pools /\ CreditOf(t).bytes = payloads[t].size
                   /\ payloads[t].size \in Nat
  <2>1. \A t \in T : payloads[t] \in Payloads
    BY <1>1
  <2>2. \A t \in T : payloads[t].pool \in Pools /\ payloads[t].size \in Nat
    BY <2>1, CacheAssumption DEF Payloads
  <2> QED
    BY <2>2 DEF CreditOf, Lease
<1>6. \A account : [t \in T |-> Share(account, CreditOf(t), 3)] \in [T -> Nat]
  <2>1. \A account : \A t \in T : Share(account, CreditOf(t), 3) \in Nat
    BY <1>5, Sharing
  <2> QED
    BY <2>1
<1>7. used \in [DOMAIN used -> Nat]
  <2>1. \A account : SumFunction([t \in T |-> Share(account, CreditOf(t), 3)]) \in Nat
    BY <1>4, <1>6, SumWithout
  <2> QED
    BY <1>3, <2>1
<1>8. Cached
  <2>1. SumFunction([t \in T |-> payloads[t].size]) \in Nat
    <3>1. [t \in T |-> payloads[t].size] \in [T -> Nat]
      BY <1>5
    <3> QED
      BY <1>4, <3>1, SumWithout
  <2>2. SumFunction([t \in T |-> payloads[t].size]) <= Retained
    BY <1>3, <2>1, QuotaAssumption DEF Smaller
  <2> QED
    BY <1>3, <1>4, <2>2 DEF Cached
<1>9. \A r \in CaseRequests : Proper(r) /\ Apart(r) /\ Pinned(r)
  BY <1>3, Nothing DEF Proper, Apart, Pinned, Resolved, Queued
<1>10. Answers
  BY <1>3 DEF Answers
<1>11. CaseTypes
  <2>1. /\ stage \in [CaseRequests -> Stages] /\ job \in [CaseRequests -> Jobs] /\ claim \in [CaseRequests -> Claims]
        /\ shed \in [CaseRequests -> SUBSET (1..Len(payloads))]
        /\ \A r \in CaseRequests : job[r].held <= Len(payloads)
    BY <1>1, <1>3, Nothing DEF Stages
  <2>2. payloads \in Seq(Payloads) /\ entries \subseteq 1..Len(payloads)
    BY <1>1, <1>3
  <2>3. \A t \in 1..Len(payloads) : payloads[t].owner = OwnerOf(payloads[t].pool)
    BY <1>1, <1>2
  <2> HIDE DEF T
  <2> QED
    BY <1>7, <1>10, <2>1, <2>2, <2>3 DEF CaseTypes
<1>12. Well
  BY <1>9, <1>11 DEF Well
<1>13. Alive = T
  BY <1>3, Nothing DEF Alive
<1>14. ASSUME NEW account PROVE Load(account) = Charged(account)
  <2> DEFINE w == [t \in T |-> Share(account, CreditOf(t), 3)]
             v == [r \in CaseRequests |-> ChargedBy(r, account)]
  <2>1. v \in [CaseRequests -> Nat] /\ \A r \in CaseRequests : v[r] = 0
    BY <1>3, Nothing DEF ChargedBy
  <2>2. SumFunction(v) = 0
    <3> HIDE DEF v
    <3> QED
      BY <2>1, SumNothing, CacheAssumption
  <2>3. Charged(account) = SumFunction(w) + SumFunction(v)
    BY <1>13 DEF Charged
  <2>4. w \in [T -> Nat]
    BY <1>6
  <2>5. SumFunction(w) \in Nat
    <3> HIDE DEF w
    <3> QED
      BY <1>4, <2>4, SumWithout
  <2>6. CASE account \in DOMAIN used
    BY <1>3, <2>2, <2>3, <2>5, <2>6 DEF Load
  <2>7. CASE account \notin DOMAIN used
    <3>1. \A t \in T : Share(account, CreditOf(t), 3) = 0
      <4> TAKE t \in T
      <4>1. \A n \in 1..3 : Accounts(payloads[t].pool)[n] \in ToSet(Accounts(payloads[t].pool))
        BY DEF Accounts, ToSet
      <4>2. \A n \in 1..3 : Accounts(payloads[t].pool)[n] # account
        BY <1>3, <2>7, <4>1
      <4> QED
        BY <4>2 DEF Share, CreditOf, Lease
    <3>2. SumFunction(w) = 0
      <4>1. \A t \in T : w[t] = 0
        BY <3>1
      <4> HIDE DEF w
      <4> QED
        BY <1>4, <2>4, <4>1, SumNothing
    <3> QED
      BY <2>2, <2>3, <2>7, <3>2 DEF Load
  <2> QED
    BY <2>6, <2>7
<1>15. Load(Application) <= Live
  <2>1. \A t \in T : Share(Application, CreditOf(t), 3) = payloads[t].size
    <3> TAKE t \in T
    <3>1. Accounts(CreditOf(t).pool)[2] = Application /\ 2 \in 1..3
      BY DEF Accounts
    <3> QED
      BY <1>5, <3>1 DEF Share
  <2>2. [t \in T |-> Share(Application, CreditOf(t), 3)] = [t \in T |-> payloads[t].size]
    BY <2>1
  <2>3. Application \in DOMAIN used => Load(Application) = SumFunction([t \in T |-> payloads[t].size])
    BY <1>3, <2>2 DEF Load
  <2>4. Application \notin DOMAIN used => Load(Application) = 0
    BY DEF Load
  <2>5. SumFunction([t \in T |-> payloads[t].size]) \in Nat
    <3>1. [t \in T |-> payloads[t].size] \in [T -> Nat]
      BY <1>5
    <3> QED
      BY <1>4, <3>1, SumWithout
  <2>6. SumFunction([t \in T |-> payloads[t].size]) <= Live
    BY <1>3, <2>5, QuotaAssumption DEF Smaller
  <2> QED
    BY <2>3, <2>4, <2>6, QuotaAssumption
<1> QED
  BY <1>8, <1>9, <1>11, <1>14, <1>15 DEF CaseInv, KInv, CreditRight

\* Every step of a request keeps the invariant.
LEMMA CaseStepKeeps ==
    ASSUME CaseInv, IInv, NEW r \in CaseRequests, CaseArrives(r) \/ CaseStep(r)
    PROVE  CaseInv'
<1>0. KInv /\ CreditRight
  BY DEF CaseInv
<1>1. CASE CaseArrives(r)
  BY <1>0, <1>1, SyncKeeps, PinCaseKeeps DEF CaseArrives, CaseInv
<1>2. CASE Add(r) \/ GiveBack(r)
  BY <1>0, <1>2, AddKeeps, GiveBackKeeps DEF CaseInv
<1>3. CASE DropOwn(r) \/ DropPayload(r) \/ TakePayload(r)
  BY <1>0, <1>3, DropOwnKeeps, DropPayloadKeeps, TakePayloadKeeps DEF CaseInv
<1>4. CASE Size(r) \/ Again(r) \/ Copy(r)
  BY <1>0, <1>4, SizeKeeps, CopyKeeps DEF CaseInv
<1>5. CASE Granted(r) \/ PressesOwner(r) \/ PressesRoot(r)
  BY <1>0, <1>5, GrantedKeeps, PressesOwnerKeeps, PressesRootKeeps DEF CaseInv
<1>6. CASE Evict(r) \/ Trim(r) \/ Store(r)
  BY <1>0, <1>6, EvictKeeps, TrimKeeps, StoreKeeps DEF CaseInv
<1>7. CASE Open(r) \/ RepinCase(r) \/ Resolve(r)
  BY <1>0, <1>7, OpenKeeps, RepinCaseKeeps, ResolveKeeps DEF CaseInv
<1>8. CASE CheckToken(r) \/ ConfirmToken(r) \/ ConfirmCase(r)
  BY <1>0, <1>8, CheckKeeps DEF CaseInv
<1>9. CASE AnswersCase(r) \/ RefusesCase(r)
  BY <1>0, <1>9, EndsKeep DEF CaseInv
<1> QED
  BY <1>1, <1>2, <1>3, <1>4, <1>5, <1>6, <1>7, <1>8, <1>9 DEF CaseStep

\* A step of the source or of the interpretations says nothing of it.
LEMMA CaseRests == ASSUME CaseInv, UNCHANGED caseWork PROVE CaseInv'
<1>1. /\ entries' = entries /\ payloads' = payloads /\ used' = used /\ claim' = claim /\ shed' = shed
      /\ stage' = stage /\ job' = job /\ result' = result
  BY DEF caseWork, credit
<1>2. CaseTypes' /\ Cached' /\ Load(Application)' <= Live
  BY <1>1 DEF CaseInv, KInv, CaseTypes, Cached, Load, Answers
<1>3. \A r \in CaseRequests : Proper(r)' /\ Apart(r)' /\ Pinned(r)'
  BY <1>1 DEF CaseInv, KInv, Proper, Apart, Pinned, Resolved, Mine
<1>4. ASSUME NEW account PROVE Load(account)' = Charged(account)'
  <2>1. Alive' = Alive
    BY <1>1 DEF Alive
  <2>2. \A t : Share(account, CreditOf(t), 3)' = Share(account, CreditOf(t), 3)
    BY <1>1 DEF Share, CreditOf
  <2>3. \A r \in CaseRequests : ChargedBy(r, account)' = ChargedBy(r, account)
    BY <1>1 DEF ChargedBy, Share
  <2>4. Charged(account)' = Charged(account)
    BY <2>1, <2>2, <2>3 DEF Charged
  <2>5. Load(account)' = Load(account)
    BY <1>1 DEF Load
  <2> QED
    BY <2>4, <2>5 DEF CaseInv, CreditRight
<1> QED
  BY <1>2, <1>3, <1>4 DEF CaseInv, KInv, CreditRight

-----------------------------------------------------------------------------
(* More of sums: of two functions, of a part, and by rows and columns.     *)

\* A sum of nothing but zeros.
LEMMA SumZero ==
    ASSUME NEW f, NEW S, IsFiniteSet(S), \A x \in S : f[x] = 0
    PROVE  SumFunctionOnSet(f, S) = 0
<1> DEFINE G == {T \in SUBSET S : SumFunctionOnSet(f, T) = 0}
<1>1. ASSUME NEW T \in SUBSET S, \A r \in SUBSET T : r # T => r \in G PROVE T \in G
  <2>1. IsFiniteSet(T) /\ \A x \in T : f[x] \in Nat
    BY FS_Subset
  <2>2. CASE T = {}
    BY <2>1, <2>2, SumStep
  <2>3. CASE T # {}
    <3>1. PICK x \in T : TRUE
      BY <2>3
    <3>2. SumFunctionOnSet(f, T) = f[x] + SumFunctionOnSet(f, T \ {x})
      BY <2>1, <3>1, SumStep
    <3>3. SumFunctionOnSet(f, T \ {x}) = 0 /\ f[x] = 0
      BY <1>1, <3>1
    <3> QED
      BY <3>2, <3>3
  <2> QED
    BY <2>2, <2>3
<1> HIDE DEF G
<1>2. \A T \in SUBSET S : T \in G
  BY <1>1, BySubsets
<1> QED
  BY <1>2 DEF G

\* A sum of which one term counts.
LEMMA SumOne ==
    ASSUME NEW f, NEW S, IsFiniteSet(S), NEW x \in S, f[x] \in Nat, \A y \in S \ {x} : f[y] = 0
    PROVE  SumFunctionOnSet(f, S) = f[x]
<1>1. IsFiniteSet(S \ {x}) /\ \A y \in S : f[y] \in Nat
  BY FS_Subset
<1>2. SumFunctionOnSet(f, S) = f[x] + SumFunctionOnSet(f, S \ {x})
  BY <1>1, SumStep
<1>3. SumFunctionOnSet(f, S \ {x}) = 0
  BY <1>1, SumZero
<1> QED
  BY <1>2, <1>3

\* Greater terms have a greater sum.
LEMMA SumAtMost ==
    ASSUME NEW f, NEW g, NEW S, IsFiniteSet(S),
           \A x \in S : f[x] \in Nat /\ g[x] \in Nat /\ f[x] <= g[x]
    PROVE  SumFunctionOnSet(f, S) <= SumFunctionOnSet(g, S)
<1> DEFINE G == {T \in SUBSET S : SumFunctionOnSet(f, T) <= SumFunctionOnSet(g, T)}
<1>1. ASSUME NEW T \in SUBSET S, \A r \in SUBSET T : r # T => r \in G PROVE T \in G
  <2>1. IsFiniteSet(T) /\ \A x \in T : f[x] \in Nat /\ g[x] \in Nat
    BY FS_Subset
  <2>2. CASE T = {}
    BY <2>1, <2>2, SumStep
  <2>3. CASE T # {}
    <3>1. PICK x \in T : TRUE
      BY <2>3
    <3>2. /\ SumFunctionOnSet(f, T) = f[x] + SumFunctionOnSet(f, T \ {x})
          /\ SumFunctionOnSet(g, T) = g[x] + SumFunctionOnSet(g, T \ {x})
      BY <2>1, <3>1, SumStep
    <3>3. IsFiniteSet(T \ {x}) /\ \A y \in T \ {x} : f[y] \in Nat /\ g[y] \in Nat
      BY <2>1, FS_Subset
    <3>4. SumFunctionOnSet(f, T \ {x}) \in Nat /\ SumFunctionOnSet(g, T \ {x}) \in Nat
      BY <3>3, SumStep
    <3>5. SumFunctionOnSet(f, T \ {x}) <= SumFunctionOnSet(g, T \ {x})
      BY <1>1, <3>1
    <3>6. f[x] \in Nat /\ g[x] \in Nat /\ f[x] <= g[x]
      BY <3>1
    <3> QED
      BY <3>2, <3>4, <3>5, <3>6
  <2> QED
    BY <2>2, <2>3
<1> HIDE DEF G
<1>2. \A T \in SUBSET S : T \in G
  BY <1>1, BySubsets
<1> QED
  BY <1>2 DEF G

\* Two functions added term by term.
LEMMA SumAdds ==
    ASSUME NEW f, NEW g, NEW h, NEW S, IsFiniteSet(S),
           \A x \in S : f[x] \in Nat /\ g[x] \in Nat /\ h[x] = f[x] + g[x]
    PROVE  SumFunctionOnSet(h, S) = SumFunctionOnSet(f, S) + SumFunctionOnSet(g, S)
<1> DEFINE G == {T \in SUBSET S :
                   SumFunctionOnSet(h, T) = SumFunctionOnSet(f, T) + SumFunctionOnSet(g, T)}
<1>1. ASSUME NEW T \in SUBSET S, \A r \in SUBSET T : r # T => r \in G PROVE T \in G
  <2>1. IsFiniteSet(T) /\ \A x \in T : f[x] \in Nat /\ g[x] \in Nat /\ h[x] \in Nat
    BY FS_Subset
  <2>2. CASE T = {}
    <3>1. SumFunctionOnSet(f, {}) = 0 /\ SumFunctionOnSet(g, {}) = 0
      BY <2>1, SumStep
    <3>2. SumFunctionOnSet(h, {}) = 0
      BY <2>1, SumStep
    <3> QED
      BY <2>2, <3>1, <3>2
  <2>3. CASE T # {}
    <3>1. PICK x \in T : TRUE
      BY <2>3
    <3>2. /\ SumFunctionOnSet(f, T) = f[x] + SumFunctionOnSet(f, T \ {x})
          /\ SumFunctionOnSet(g, T) = g[x] + SumFunctionOnSet(g, T \ {x})
      BY <2>1, <3>1, SumStep
    <3>7. SumFunctionOnSet(h, T) = h[x] + SumFunctionOnSet(h, T \ {x})
      BY <2>1, <3>1, SumStep
    <3>3. IsFiniteSet(T \ {x}) /\ \A y \in T \ {x} : f[y] \in Nat /\ g[y] \in Nat
      BY <2>1, FS_Subset
    <3>4. SumFunctionOnSet(f, T \ {x}) \in Nat /\ SumFunctionOnSet(g, T \ {x}) \in Nat
      BY <3>3, SumStep
    <3>5. SumFunctionOnSet(h, T \ {x}) = SumFunctionOnSet(f, T \ {x}) + SumFunctionOnSet(g, T \ {x})
      BY <1>1, <3>1
    <3>6. f[x] \in Nat /\ g[x] \in Nat /\ h[x] = f[x] + g[x]
      BY <3>1
    <3> QED
      BY <3>2, <3>4, <3>5, <3>6, <3>7
  <2> QED
    BY <2>2, <2>3
<1> HIDE DEF G
<1>2. \A T \in SUBSET S : T \in G
  BY <1>1, BySubsets
<1> QED
  BY <1>2 DEF G

\* A part of the terms.
LEMMA SumPart ==
    ASSUME NEW f, NEW g, NEW S, IsFiniteSet(S), NEW P \in SUBSET S,
           \A x \in S : f[x] \in Nat /\ g[x] = IF x \in P THEN f[x] ELSE 0
    PROVE  SumFunctionOnSet(g, S) = SumFunctionOnSet(f, P)
<1> DEFINE G == {T \in SUBSET S : SumFunctionOnSet(g, T) = SumFunctionOnSet(f, T \cap P)}
<1>1. ASSUME NEW T \in SUBSET S, \A r \in SUBSET T : r # T => r \in G PROVE T \in G
  <2>1. IsFiniteSet(T) /\ IsFiniteSet(T \cap P) /\ \A x \in T : f[x] \in Nat /\ g[x] \in Nat
    BY FS_Subset
  <2>2. CASE T = {}
    <3>1. SumFunctionOnSet(f, {}) = 0 /\ SumFunctionOnSet(g, {}) = 0 /\ T \cap P = {}
      BY <2>1, <2>2, SumStep
    <3> QED
      BY <2>2, <3>1
  <2>3. CASE T # {}
    <3>1. PICK x \in T : TRUE
      BY <2>3
    <3>2. SumFunctionOnSet(g, T) = g[x] + SumFunctionOnSet(g, T \ {x})
      BY <2>1, <3>1, SumStep
    <3>3. SumFunctionOnSet(g, T \ {x}) = SumFunctionOnSet(f, (T \ {x}) \cap P)
      BY <1>1, <3>1
    <3>4. CASE x \in P
      <4>0. x \in T \cap P /\ \A y \in T \cap P : f[y] \in Nat
        BY <2>1, <3>1, <3>4
      <4>1. SumFunctionOnSet(f, T \cap P) = f[x] + SumFunctionOnSet(f, (T \cap P) \ {x})
        BY <2>1, <4>0, SumStep
      <4>2. (T \cap P) \ {x} = (T \ {x}) \cap P /\ g[x] = f[x]
        BY <3>1, <3>4
      <4> QED
        BY <3>2, <3>3, <4>1, <4>2
    <3>5. CASE x \notin P
      <4>1. (T \ {x}) \cap P = T \cap P /\ g[x] = 0
        BY <3>1, <3>5
      <4>2. SumFunctionOnSet(f, T \cap P) \in Nat
        BY <2>1, SumStep
      <4> QED
        BY <3>2, <3>3, <4>1, <4>2
    <3> QED
      BY <3>4, <3>5
  <2> QED
    BY <2>2, <2>3
<1> HIDE DEF G
<1>2. \A T \in SUBSET S : T \in G
  BY <1>1, BySubsets
<1>3. S \cap P = P
  OBVIOUS
<1> QED
  BY <1>2, <1>3 DEF G

\* The sum of each row of a table.
Rows(m, S, T) == [s \in S |-> SumFunctionOnSet(m[s], T)]

\* By rows or by columns, a table has the same sum.
LEMMA SumSwap ==
    ASSUME NEW m, NEW k, NEW S, NEW T, IsFiniteSet(S), IsFiniteSet(T),
           \A s \in S : \A t \in T : m[s][t] \in Nat /\ k[t][s] = m[s][t]
    PROVE  SumFunctionOnSet(Rows(m, S, T), S) = SumFunctionOnSet(Rows(k, T, S), T)
<1> DEFINE f == Rows(m, S, T)
           g == Rows(k, T, S)
           col(t) == k[t]
           sum(R) == [t \in T |-> SumFunctionOnSet(col(t), R)]
           G == {R \in SUBSET S : SumFunctionOnSet(f, R) = SumFunctionOnSet(sum(R), T)}
<1>1. ASSUME NEW R \in SUBSET S, \A r \in SUBSET R : r # R => r \in G PROVE R \in G
  <2>1. /\ IsFiniteSet(R) /\ \A t \in T : \A s \in R : col(t)[s] \in Nat /\ col(t)[s] = m[s][t]
    BY FS_Subset
  <2>2. \A s \in S : f[s] \in Nat
    <3> TAKE s \in S
    <3>1. \A t \in T : m[s][t] \in Nat
      OBVIOUS
    <3>2. SumFunctionOnSet(m[s], T) \in Nat
      BY <3>1, SumStep
    <3> QED
      BY <3>2 DEF Rows
  <2>5. \A s \in S : f[s] = SumFunctionOnSet(m[s], T)
    BY DEF Rows
  <2> HIDE DEF f
  <2> HIDE DEF col
  <2>3. CASE R = {}
    <3>1. \A t \in T : sum(R)[t] = 0
      BY <2>1, <2>3, SumStep
    <3>2. SumFunctionOnSet(sum(R), T) = 0
      <4> HIDE DEF sum
      <4> QED
        BY <3>1, SumZero
    <3>3. SumFunctionOnSet(f, R) = 0
      BY <2>1, <2>2, <2>3, SumStep
    <3> QED
      BY <3>2, <3>3
  <2>4. CASE R # {}
    <3>1. PICK x \in R : TRUE
      BY <2>4
    <3>2. SumFunctionOnSet(f, R) = f[x] + SumFunctionOnSet(f, R \ {x})
      BY <2>1, <2>2, <3>1, SumStep
    <3>3. SumFunctionOnSet(f, R \ {x}) = SumFunctionOnSet(sum(R \ {x}), T)
      BY <1>1, <3>1
    <3>4. ASSUME NEW t \in T
          PROVE  /\ sum(R)[t] = m[x][t] + sum(R \ {x})[t]
                 /\ m[x][t] \in Nat /\ sum(R \ {x})[t] \in Nat
      <4>0. \A s \in R : col(t)[s] \in Nat
        BY <2>1
      <4>1. SumFunctionOnSet(col(t), R) = col(t)[x] + SumFunctionOnSet(col(t), R \ {x})
        BY <2>1, <3>1, <4>0, SumStep
      <4>2. SumFunctionOnSet(col(t), R \ {x}) \in Nat
        <5>1. IsFiniteSet(R \ {x}) /\ \A s \in R \ {x} : col(t)[s] \in Nat
          BY <2>1, FS_Subset
        <5> QED
          BY <5>1, SumStep
      <4> QED
        BY <2>1, <3>1, <4>1, <4>2
    <3>5. SumFunctionOnSet(sum(R), T) = SumFunctionOnSet(m[x], T) + SumFunctionOnSet(sum(R \ {x}), T)
      <4> DEFINE row == m[x]
                 u == sum(R)
                 v == sum(R \ {x})
      <4>1. \A t \in T : row[t] \in Nat /\ v[t] \in Nat /\ u[t] = row[t] + v[t]
        BY <3>4
      <4> HIDE DEF sum, row, u, v
      <4>2. SumFunctionOnSet(u, T) = SumFunctionOnSet(row, T) + SumFunctionOnSet(v, T)
        BY <4>1, SumAdds
      <4> QED
        BY <4>2 DEF row, u, v
    <3> QED
      BY <2>5, <3>1, <3>2, <3>3, <3>5
  <2> QED
    BY <2>3, <2>4
<1> HIDE DEF G
<1>2. S \in G
  <2>1. \A R \in SUBSET S : R \in G
    BY <1>1, BySubsets
  <2> QED
    BY <2>1
<1>3. \A t \in T : sum(S)[t] = g[t] /\ g[t] \in Nat
  <2> TAKE t \in T
  <2>1. sum(S)[t] = SumFunctionOnSet(col(t), S) /\ g[t] = SumFunctionOnSet(col(t), S)
    BY DEF Rows
  <2>2. \A s \in S : col(t)[s] \in Nat
    OBVIOUS
  <2> HIDE DEF col, sum, g
  <2> QED
    BY <2>1, <2>2, SumStep
<1>4. SumFunctionOnSet(sum(S), T) = SumFunctionOnSet(g, T)
  <2> HIDE DEF sum, g
  <2>1. \A t \in T : sum(S)[t] \in Nat /\ g[t] = sum(S)[t]
    BY <1>3
  <2> QED
    BY <2>1, SumAgrees
<1> QED
  BY <1>2, <1>4 DEF G

\* The values of a function on a finite set.
LEMMA ImageFinite ==
    ASSUME NEW S, IsFiniteSet(S), NEW f, f = [x \in S |-> f[x]]
    PROVE  IsFiniteSet({f[x] : x \in S})
<1> DEFINE T == {f[x] : x \in S}
<1>1. f \in [S -> T]
  BY f = [x \in S |-> f[x]]
<1>2. f \in Surjection(S, T)
  BY <1>1 DEF Surjection
<1> HIDE DEF T
<1> QED
  BY <1>2, FS_Surjection DEF T

\* The greatest of finitely many numbers.
LEMMA Greatest ==
    ASSUME NEW S \in SUBSET Nat, IsFiniteSet(S), S # {}
    PROVE  Max(S) \in S /\ \A x \in S : x <= Max(S)
<1> DEFINE G == {T \in SUBSET S : T = {} \/ \E x \in T : \A y \in T : x >= y}
<1>1. ASSUME NEW T \in SUBSET S, \A r \in SUBSET T : r # T => r \in G PROVE T \in G
  <2>1. CASE T = {}
    BY <2>1
  <2>2. CASE T # {}
    <3>1. PICK x \in T : TRUE
      BY <2>2
    <3>2. T \ {x} \in G
      BY <1>1, <3>1
    <3>3. CASE T \ {x} = {}
      BY <3>1, <3>3
    <3>4. ASSUME NEW z \in T \ {x}, \A y \in T \ {x} : z >= y PROVE T \in G
      BY <3>1, <3>4
    <3> QED
      BY <3>2, <3>3, <3>4
  <2> QED
    BY <2>1, <2>2
<1> HIDE DEF G
<1>2. S \in G
  <2>1. \A T \in SUBSET S : T \in G
    BY <1>1, BySubsets
  <2> QED
    BY <2>1
<1>3. \E x \in S : \A y \in S : x >= y
  BY <1>2 DEF G
<1> QED
  BY <1>3 DEF Max

-----------------------------------------------------------------------------
(* What an owner's quotas leave to the others.                             *)

Owners == {OwnerOf(p) : p \in Pools}

\* What of a lease is charged to a pool, an owner and the application.
LEMMA Accounted ==
    ASSUME NEW lease, lease.pool \in Pools, lease.bytes \in Nat, NEW n \in 0..3
    PROVE  /\ \A p \in Pools : Share(p, lease, n) = IF n = 3 /\ lease.pool = p THEN lease.bytes ELSE 0
           /\ \A o \in Owners : Share(o, lease, n) = IF n >= 1 /\ OwnerOf(lease.pool) = o
                                                     THEN lease.bytes ELSE 0
           /\ Share(Application, lease, n) = IF n >= 2 THEN lease.bytes ELSE 0
           /\ \A o \in Owners, p \in Pools : o # p
<1>1. PICK a, b, q, r : lease.pool = <<a, b, q, r>>
  BY DEF Pools
<1> DEFINE A == Accounts(lease.pool)
<1>2. A[1] = <<a, b>> /\ A[2] = <<>> /\ A[3] = <<a, b, q, r>>
  BY <1>1 DEF Accounts, OwnerOf, Application
<1>3. \A p \in Pools : Len(p) = 4
  BY DEF Pools
<1>4. \A o \in Owners : Len(o) = 2
  BY DEF Owners, OwnerOf
<1>6. A[1] = OwnerOf(lease.pool) /\ A[3] = lease.pool /\ A[2] = Application
  BY DEF Accounts
<1>7. \A account : Share(account, lease, n) = IF \E m \in 1..n : A[m] = account THEN lease.bytes ELSE 0
  BY DEF Share
<1> HIDE DEF A
<1>8. \A account : (\E m \in 1..n : A[m] = account)
         <=> (n >= 1 /\ A[1] = account) \/ (n >= 2 /\ A[2] = account) \/ (n = 3 /\ A[3] = account)
  <2>1. n = 0 \/ n = 1 \/ n = 2 \/ n = 3
    OBVIOUS
  <2>2. 1..0 = {} /\ 1..1 = {1} /\ 1..2 = {1, 2} /\ 1..3 = {1, 2, 3}
    OBVIOUS
  <2> QED
    BY <2>1, <2>2
<1>9. \A p \in Pools : Share(p, lease, n) = IF n = 3 /\ lease.pool = p THEN lease.bytes ELSE 0
  <2> TAKE p \in Pools
  <2>0. PICK c, d, e, f : p = <<c, d, e, f>>
    BY DEF Pools
  <2>2. Len(<<a, b>>) = 2 /\ Len(<<>>) = 0 /\ Len(<<c, d, e, f>>) = 4
    OBVIOUS
  <2>1. A[1] # p /\ A[2] # p
    BY <1>2, <2>0, <2>2
  <2> QED
    BY <1>6, <1>7, <1>8, <2>1
<1>10. \A o \in Owners : Share(o, lease, n) = IF n >= 1 /\ OwnerOf(lease.pool) = o THEN lease.bytes ELSE 0
  <2> TAKE o \in Owners
  <2>0. PICK c, d : o = <<c, d>>
    BY DEF Owners, OwnerOf
  <2>2. Len(<<c, d>>) = 2 /\ Len(<<>>) = 0 /\ Len(<<a, b, q, r>>) = 4
    OBVIOUS
  <2>1. A[2] # o /\ A[3] # o
    BY <1>2, <2>0, <2>2
  <2> QED
    BY <1>6, <1>7, <1>8, <2>1
<1>11. Share(Application, lease, n) = IF n >= 2 THEN lease.bytes ELSE 0
  <2>0. Len(<<a, b>>) = 2 /\ Len(<<>>) = 0 /\ Len(<<a, b, q, r>>) = 4
    OBVIOUS
  <2>1. A[1] # Application /\ A[3] # Application
    BY <1>2, <2>0 DEF Application
  <2> QED
    BY <1>6, <1>7, <1>8, <2>1
<1>12. \A o \in Owners, p \in Pools : o # p
  BY <1>3, <1>4
<1> QED
  BY <1>9, <1>10, <1>11, <1>12

\* An owner's pools whose limit is at most a quota: one for every revision and every
\* request that may have made it.
Family(o, q) ==
    {p \in {<<o[1], o[2], Quota[n], r>> : n \in 0..MaxRevision, r \in CaseRequests \cup {NoRequest}} :
        QuotaOf(p) <= q}

\* They are finitely many.
LEMMA FamilyFinite ==
    ASSUME NEW o \in Owners, NEW q \in Nat
    PROVE  /\ IsFiniteSet(Family(o, q)) /\ Family(o, q) \subseteq Pools
           /\ \A p \in Pools : p \in Family(o, q) <=> OwnerOf(p) = o /\ QuotaOf(p) <= q
           /\ \A p \in Pools : QuotaOf(p) \in Nat /\ OwnerOf(p) \in Owners
<1>1. PICK id \in Identities : o = <<id.case, id.analysis>>
  <2>1. PICK p \in Pools : o = OwnerOf(p)
    BY DEF Owners
  <2>2. PICK id \in Identities, r \in CaseRequests \cup {NoRequest} :
            p = <<id.case, id.analysis, Quota[id.revision], r>>
    BY DEF Pools
  <2> QED
    BY <2>1, <2>2 DEF OwnerOf
<1> DEFINE S == (0..MaxRevision) \X (CaseRequests \cup {NoRequest})
           f == [x \in S |-> <<o[1], o[2], Quota[x[1]], x[2]>>]
           T == {<<o[1], o[2], Quota[n], r>> : n \in 0..MaxRevision, r \in CaseRequests \cup {NoRequest}}
<1>2. IsFiniteSet(S)
  <2>1. MaxRevision \in Nat
    BY LimitAssumption
  <2>2. IsFiniteSet(0..MaxRevision)
    BY <2>1, FS_Interval
  <2>3. IsFiniteSet(CaseRequests \cup {NoRequest})
    BY CacheAssumption, FS_AddElement
  <2> QED
    BY <2>2, <2>3, FS_Product
<1>3. IsFiniteSet(T)
  <2>1. T = {f[x] : x \in S}
    <3>1. \A x \in S : f[x] \in T
      OBVIOUS
    <3>2. ASSUME NEW n \in 0..MaxRevision, NEW r \in CaseRequests \cup {NoRequest}
          PROVE  <<n, r>> \in S /\ f[<<n, r>>] = <<o[1], o[2], Quota[n], r>>
      OBVIOUS
    <3>3. ASSUME NEW y \in T PROVE \E x \in S : y = f[x]
      <4>1. PICK n \in 0..MaxRevision, r \in CaseRequests \cup {NoRequest} : y = <<o[1], o[2], Quota[n], r>>
        OBVIOUS
      <4>2. <<n, r>> \in S /\ f[<<n, r>>] = y
        BY <3>2, <4>1
      <4> HIDE DEF S, f
      <4> QED
        BY <4>2
    <3> HIDE DEF S, f, T
    <3> QED
      BY <3>1, <3>3
  <2>2. f = [x \in S |-> f[x]]
    OBVIOUS
  <2> HIDE DEF S, f, T
  <2>3. IsFiniteSet({f[x] : x \in S})
    BY <1>2, <2>2, ImageFinite
  <2> QED
    BY <2>1, <2>3
<1>4. Family(o, q) \subseteq T
  BY DEF Family
<1>5. IsFiniteSet(Family(o, q))
  <2> HIDE DEF T
  <2> QED
    BY <1>3, <1>4, FS_Subset
<1>6. T \subseteq Pools
  <2> SUFFICES ASSUME NEW n \in 0..MaxRevision, NEW r \in CaseRequests \cup {NoRequest}
               PROVE  <<o[1], o[2], Quota[n], r>> \in Pools
    OBVIOUS
  <2> DEFINE id2 == [case |-> id.case, analysis |-> id.analysis, revision |-> n]
  <2>1. id2 \in Identities
    BY DEF Identities
  <2>2. o[1] = id2.case /\ o[2] = id2.analysis /\ n = id2.revision
    BY <1>1
  <2> HIDE DEF id2
  <2> QED
    BY <2>1, <2>2 DEF Pools
<1>7. ASSUME NEW p \in Pools PROVE p \in T <=> OwnerOf(p) = o
  <2>1. PICK jd \in Identities, r \in CaseRequests \cup {NoRequest} :
            p = <<jd.case, jd.analysis, Quota[jd.revision], r>>
    BY DEF Pools
  <2>2. jd.revision \in 0..MaxRevision
    BY DEF Identities
  <2>3. p \in T => OwnerOf(p) = o
    BY <1>1 DEF OwnerOf
  <2>4. OwnerOf(p) = o => p \in T
    BY <1>1, <2>1, <2>2 DEF OwnerOf
  <2> QED
    BY <2>3, <2>4
<1>8. ASSUME NEW p \in Pools PROVE QuotaOf(p) \in Nat /\ OwnerOf(p) \in Owners
  <2>1. PICK jd \in Identities, r \in CaseRequests \cup {NoRequest} :
            p = <<jd.case, jd.analysis, Quota[jd.revision], r>>
    BY DEF Pools
  <2>2. jd.revision \in 0..MaxRevision
    BY DEF Identities
  <2> QED
    BY <2>1, <2>2, QuotaAssumption DEF QuotaOf, Owners
<1>9. Family(o, q) = {p \in T : QuotaOf(p) <= q}
  BY DEF Family
<1> HIDE DEF T
<1> QED
  BY <1>4, <1>5, <1>6, <1>7, <1>8, <1>9

\* What of one lease the pools of a family, or a set of owners, are charged in all.
LEMMA PoolsShare ==
    ASSUME NEW lease, lease.pool \in Pools, lease.bytes \in Nat, NEW n \in 0..3,
           NEW F, F \subseteq Pools, IsFiniteSet(F)
    PROVE  SumFunctionOnSet([p \in F |-> Share(p, lease, n)], F)
             = IF n = 3 /\ lease.pool \in F THEN lease.bytes ELSE 0
<1> DEFINE f == [p \in F |-> Share(p, lease, n)]
<1>1. \A p \in F : f[p] = IF n = 3 /\ lease.pool = p THEN lease.bytes ELSE 0
  BY Accounted
<1> HIDE DEF f
<1>2. CASE n = 3 /\ lease.pool \in F
  <2>1. f[lease.pool] \in Nat /\ f[lease.pool] = lease.bytes /\ \A p \in F \ {lease.pool} : f[p] = 0
    BY <1>1, <1>2
  <2>2. SumFunctionOnSet(f, F) = f[lease.pool]
    BY <1>2, <2>1, SumOne
  <2> QED
    BY <1>2, <2>1, <2>2 DEF f
<1>3. CASE ~(n = 3 /\ lease.pool \in F)
  <2>1. \A p \in F : f[p] = 0
    BY <1>1, <1>3
  <2>2. SumFunctionOnSet(f, F) = 0
    BY <2>1, SumZero
  <2> QED
    BY <1>3, <2>2 DEF f
<1> QED
  BY <1>2, <1>3

\* The same of owners.
LEMMA OwnersShare ==
    ASSUME NEW lease, lease.pool \in Pools, lease.bytes \in Nat, NEW n \in 0..3,
           NEW F, F \subseteq Owners, IsFiniteSet(F)
    PROVE  SumFunctionOnSet([o \in F |-> Share(o, lease, n)], F)
             = IF n >= 1 /\ OwnerOf(lease.pool) \in F THEN lease.bytes ELSE 0
<1> DEFINE f == [o \in F |-> Share(o, lease, n)]
<1>0. PICK x : x = OwnerOf(lease.pool)
  OBVIOUS
<1>1. \A o \in F : f[o] = IF n >= 1 /\ x = o THEN lease.bytes ELSE 0
  BY <1>0, Accounted
<1> HIDE DEF f
<1>2. CASE n >= 1 /\ x \in F
  <2>1. f[x] \in Nat /\ f[x] = lease.bytes /\ \A p \in F \ {x} : f[p] = 0
    BY <1>1, <1>2
  <2>2. SumFunctionOnSet(f, F) = f[x]
    BY <1>2, <2>1, SumOne
  <2> QED
    BY <1>0, <1>2, <2>1, <2>2 DEF f
<1>3. CASE ~(n >= 1 /\ x \in F)
  <2>1. \A p \in F : f[p] = 0
    BY <1>1, <1>3
  <2>2. SumFunctionOnSet(f, F) = 0
    BY <2>1, SumZero
  <2> QED
    BY <1>0, <1>3, <2>2 DEF f
<1> QED
  BY <1>0, <1>2, <1>3

-----------------------------------------------------------------------------
\* What a request charges to accounts, in all.
ChargedIn(r, F) ==
    (IF job[r].own = <<>> THEN 0 ELSE SumFunctionOnSet([a \in F |-> Share(a, job[r].own, 3)], F))
    + (IF claim[r] = NoClaim THEN 0 ELSE SumFunctionOnSet([a \in F |-> Share(a, claim[r], claim[r].level)], F))

\* The counters of some accounts together: by payload and by request.
LEMMA Together ==
    ASSUME CaseInv, NEW F, IsFiniteSet(F)
    PROVE  /\ SumFunctionOnSet([a \in F |-> Load(a)], F)
                = SumFunctionOnSet([t \in Alive |-> SumFunctionOnSet([a \in F |-> Share(a, CreditOf(t), 3)], F)], Alive)
                  + SumFunctionOnSet([r \in CaseRequests |-> ChargedIn(r, F)], CaseRequests)
           /\ \A t \in Alive : SumFunctionOnSet([a \in F |-> Share(a, CreditOf(t), 3)], F) \in Nat
           /\ \A r \in CaseRequests : ChargedIn(r, F) \in Nat
<1>0. Well /\ CreditRight
  BY DEF CaseInv, KInv, Well
<1>1. Countable
  BY <1>0, Numbers
<1>2. IsFiniteSet(Alive) /\ IsFiniteSet(CaseRequests)
  BY <1>1, CacheAssumption DEF Countable
<1> DEFINE tok == [t \in Alive |-> [a \in F |-> Share(a, CreditOf(t), 3)]]
           req == [r \in CaseRequests |-> [a \in F |-> ChargedBy(r, a)]]
           byT == [t \in Alive |-> SumFunctionOnSet([a \in F |-> Share(a, CreditOf(t), 3)], F)]
           byR == [r \in CaseRequests |-> ChargedIn(r, F)]
           ofT == [a \in F |-> SumFunctionOnSet(Tokens(a), Alive)]
           ofR == [a \in F |-> SumFunctionOnSet(Charges(a), CaseRequests)]
           all == [a \in F |-> Load(a)]
<1>3. \A t \in Alive : \A a \in F : tok[t][a] \in Nat
  BY <1>1 DEF Countable
<1>4. \A r \in CaseRequests : \A a \in F : req[r][a] \in Nat
  BY <1>1 DEF Countable
<1>5. \A a \in F : /\ ofT[a] \in Nat /\ ofR[a] \in Nat /\ all[a] = ofT[a] + ofR[a]
  <2> TAKE a \in F
  <2>1. /\ \A t \in Alive : Tokens(a)[t] \in Nat
        /\ \A r \in CaseRequests : Charges(a)[r] \in Nat
    BY <1>1 DEF Countable, Tokens, Charges
  <2>2. ofT[a] \in Nat /\ ofR[a] \in Nat
    BY <1>2, <2>1, SumStep
  <2>3. Load(a) = Charged(a)
    BY <1>0 DEF CreditRight
  <2>4. Charged(a) = SumFunction(Tokens(a)) + SumFunction(Charges(a))
    BY DEF Charged, Tokens, Charges
  <2>5. DOMAIN Tokens(a) = Alive /\ DOMAIN Charges(a) = CaseRequests
    BY DEF Tokens, Charges
  <2>6. Charged(a) = SumFunctionOnSet(Tokens(a), Alive) + SumFunctionOnSet(Charges(a), CaseRequests)
    BY <2>4, <2>5 DEF SumFunction
  <2> QED
    BY <2>2, <2>3, <2>6
<1>6. SumFunctionOnSet(all, F) = SumFunctionOnSet(ofT, F) + SumFunctionOnSet(ofR, F)
  <2> HIDE DEF all, ofT, ofR
  <2> QED
    BY <1>5, SumAdds
<1>7. SumFunctionOnSet(byT, Alive) = SumFunctionOnSet(ofT, F)
  <2> DEFINE col == [a \in F |-> Tokens(a)]
  <2>1. byT = Rows(tok, Alive, F)
    BY DEF Rows
  <2>2. ofT = Rows(col, F, Alive)
    BY DEF Rows
  <2>3. \A t \in Alive : \A a \in F : tok[t][a] \in Nat /\ col[a][t] = tok[t][a]
    BY <1>3 DEF Tokens
  <2> HIDE DEF tok, byT, ofT, col
  <2> QED
    BY <1>2, <2>1, <2>2, <2>3, SumSwap
<1>8. \A r \in CaseRequests : byR[r] = SumFunctionOnSet(req[r], F)
  <2> TAKE r \in CaseRequests
  <2> DEFINE f == [a \in F |-> IF job[r].own = <<>> THEN 0 ELSE Share(a, job[r].own, 3)]
             g == [a \in F |-> IF claim[r] = NoClaim THEN 0 ELSE Share(a, claim[r], claim[r].level)]
             h == [a \in F |-> ChargedBy(r, a)]
  <2>1. \A a \in F : f[a] \in Nat /\ g[a] \in Nat /\ h[a] = f[a] + g[a]
    <3>1. \A a : job[r].own # <<>> => Share(a, job[r].own, 3) \in Nat
      BY <1>0, LeaseTypes, Sharing
    <3>2. \A a : claim[r] # NoClaim => Share(a, claim[r], claim[r].level) \in Nat
      BY <1>0, LeaseTypes, Sharing
    <3> QED
      BY <3>1, <3>2 DEF ChargedBy
  <2>2. SumFunctionOnSet(f, F) = IF job[r].own = <<>> THEN 0
                                 ELSE SumFunctionOnSet([a \in F |-> Share(a, job[r].own, 3)], F)
    <3>1. CASE job[r].own = <<>>
      <4>1. \A a \in F : f[a] = 0
        BY <3>1
      <4> HIDE DEF f
      <4> QED
        BY <3>1, <4>1, SumZero
    <3>2. CASE job[r].own # <<>>
      BY <3>2
    <3> QED
      BY <3>1, <3>2
  <2>3. SumFunctionOnSet(g, F) = IF claim[r] = NoClaim THEN 0
                                 ELSE SumFunctionOnSet([a \in F |-> Share(a, claim[r], claim[r].level)], F)
    <3>1. CASE claim[r] = NoClaim
      <4>1. \A a \in F : g[a] = 0
        BY <3>1
      <4> HIDE DEF g
      <4> QED
        BY <3>1, <4>1, SumZero
    <3>2. CASE claim[r] # NoClaim
      BY <3>2
    <3> QED
      BY <3>1, <3>2
  <2>4. byR[r] = SumFunctionOnSet(f, F) + SumFunctionOnSet(g, F)
    BY <2>2, <2>3 DEF ChargedIn
  <2>5. req[r] = h
    OBVIOUS
  <2> HIDE DEF f, g, h, byR, req
  <2>6. SumFunctionOnSet(h, F) = SumFunctionOnSet(f, F) + SumFunctionOnSet(g, F)
    BY <2>1, SumAdds
  <2> QED
    BY <2>4, <2>5, <2>6
<1>9. SumFunctionOnSet(byR, CaseRequests) = SumFunctionOnSet(ofR, F)
  <2> DEFINE col == [a \in F |-> Charges(a)]
  <2>1. ofR = Rows(col, F, CaseRequests)
    BY DEF Rows
  <2>3. byR = Rows(req, CaseRequests, F)
    BY <1>8 DEF Rows
  <2>2. \A r \in CaseRequests : \A a \in F : req[r][a] \in Nat /\ col[a][r] = req[r][a]
    BY <1>4 DEF Charges
  <2> HIDE DEF req, byR, ofR, col
  <2> QED
    BY <1>2, <2>1, <2>2, <2>3, SumSwap
<1>10. \A t \in Alive : byT[t] \in Nat
  <2> TAKE t \in Alive
  <2>1. byT[t] = SumFunctionOnSet(tok[t], F)
    OBVIOUS
  <2>2. \A a \in F : tok[t][a] \in Nat
    BY <1>3
  <2> HIDE DEF tok, byT
  <2> QED
    BY <2>1, <2>2, SumStep
<1>11. \A r \in CaseRequests : byR[r] \in Nat
  <2> TAKE r \in CaseRequests
  <2>1. \A a \in F : req[r][a] \in Nat
    BY <1>4
  <2> HIDE DEF req, byR
  <2> QED
    BY <1>8, <2>1, SumStep
<1> QED
  BY <1>6, <1>7, <1>9, <1>10, <1>11

-----------------------------------------------------------------------------
\* What a reservation that has not charged its pool yet has charged to the owner.
InHand(r, o, q) ==
    IF claim[r].level \in {1, 2} /\ claim[r].pool \in Family(o, q) THEN claim[r].bytes ELSE 0

\* What an owner's pools of at most a quota have, and take.
Taken(o, q) ==
    SumFunctionOnSet([p \in Family(o, q) |-> Load(p)], Family(o, q))
    + SumFunctionOnSet([r \in CaseRequests |-> InHand(r, o, q)], CaseRequests)

\* It never exceeds the quota: another pool of the owner may have a greater one, and the
\* owner's counter be above this one's.
QuotaKept == \A o \in Owners, q \in Nat : Taken(o, q) <= q

\* What of one lease the pools of a family are charged, and take, is at most what the owner is
\* charged; it is that when the lease's pool is of the family, or of another owner.
LEMMA FamilyShare ==
    ASSUME NEW o \in Owners, NEW q \in Nat, NEW lease, lease.pool \in Pools, lease.bytes \in Nat, NEW n \in 0..3
    PROVE  LET part == SumFunctionOnSet([p \in Family(o, q) |-> Share(p, lease, n)], Family(o, q))
               hand == IF n \in {1, 2} /\ lease.pool \in Family(o, q) THEN lease.bytes ELSE 0
           IN  /\ part \in Nat /\ hand \in Nat /\ (n = 3 => hand = 0)
               /\ part + hand <= Share(o, lease, n)
               /\ (OwnerOf(lease.pool) = o => QuotaOf(lease.pool) <= q) => part + hand = Share(o, lease, n)
<1> DEFINE F == Family(o, q)
           part == SumFunctionOnSet([p \in F |-> Share(p, lease, n)], F)
           hand == IF n \in {1, 2} /\ lease.pool \in F THEN lease.bytes ELSE 0
<1>1. /\ IsFiniteSet(F) /\ F \subseteq Pools
      /\ lease.pool \in F <=> OwnerOf(lease.pool) = o /\ QuotaOf(lease.pool) <= q
  BY FamilyFinite
<1>2. Share(o, lease, n) = IF n >= 1 /\ OwnerOf(lease.pool) = o THEN lease.bytes ELSE 0
  BY Accounted
<1> HIDE DEF F
<1>3. part = IF n = 3 /\ lease.pool \in F THEN lease.bytes ELSE 0
  BY <1>1, PoolsShare
<1> HIDE DEF part
<1>4. /\ part \in Nat /\ hand \in Nat /\ (n = 3 => hand = 0)
      /\ part + hand <= Share(o, lease, n)
      /\ (OwnerOf(lease.pool) = o => QuotaOf(lease.pool) <= q) => part + hand = Share(o, lease, n)
  <2>1. n = 0 \/ n = 1 \/ n = 2 \/ n = 3
    OBVIOUS
  <2> QED
    BY <1>1, <1>2, <1>3, <2>1
<1> QED
  BY <1>4 DEF F, part

\* The same of a request's lease and claim together.
LEMMA FamilyCharged ==
    ASSUME Well, NEW r \in CaseRequests, NEW o \in Owners, NEW q \in Nat
    PROVE  /\ InHand(r, o, q) \in Nat
           /\ ChargedIn(r, Family(o, q)) + InHand(r, o, q) <= ChargedBy(r, o)
           /\ /\ job[r].own # <<>> => (OwnerOf(job[r].own.pool) = o => QuotaOf(job[r].own.pool) <= q)
              /\ claim[r] # NoClaim => (OwnerOf(claim[r].pool) = o => QuotaOf(claim[r].pool) <= q)
              => ChargedIn(r, Family(o, q)) + InHand(r, o, q) = ChargedBy(r, o)
<1> DEFINE F == Family(o, q)
           own == IF job[r].own = <<>> THEN 0 ELSE SumFunctionOnSet([p \in F |-> Share(p, job[r].own, 3)], F)
           cla == IF claim[r] = NoClaim THEN 0
                  ELSE SumFunctionOnSet([p \in F |-> Share(p, claim[r], claim[r].level)], F)
           own2 == IF job[r].own = <<>> THEN 0 ELSE Share(o, job[r].own, 3)
           cla2 == IF claim[r] = NoClaim THEN 0 ELSE Share(o, claim[r], claim[r].level)
           hand == InHand(r, o, q)
           ownFits == job[r].own # <<>> => (OwnerOf(job[r].own.pool) = o => QuotaOf(job[r].own.pool) <= q)
           claFits == claim[r] # NoClaim => (OwnerOf(claim[r].pool) = o => QuotaOf(claim[r].pool) <= q)
<1>1. ChargedIn(r, F) = own + cla /\ ChargedBy(r, o) = own2 + cla2
  BY DEF ChargedIn, ChargedBy
<1>2. own \in Nat /\ own2 \in Nat /\ own <= own2 /\ (ownFits => own = own2)
  <2>1. CASE job[r].own = <<>>
    BY <2>1
  <2>2. CASE job[r].own # <<>>
    <3>1. job[r].own.pool \in Pools /\ job[r].own.bytes \in Nat
      BY <2>2, LeaseTypes
    <3> DEFINE lease == job[r].own
               n == 3
               part == SumFunctionOnSet([p \in Family(o, q) |-> Share(p, lease, n)], Family(o, q))
    <3>2. /\ part \in Nat /\ part + 0 <= Share(o, lease, 3)
          /\ (OwnerOf(lease.pool) = o => QuotaOf(lease.pool) <= q) => part + 0 = Share(o, lease, 3)
      <4>0. lease.pool \in Pools /\ lease.bytes \in Nat /\ n \in 0..3
        BY <3>1
      <4>1. lease.pool \in Pools /\ lease.bytes \in Nat /\ n \in 0..3 /\ n = 3
        BY <3>1
      <4> DEFINE some == IF n \in {1, 2} /\ lease.pool \in Family(o, q) THEN lease.bytes ELSE 0
      <4> HIDE DEF lease, n
      <4>2. /\ part \in Nat /\ some \in Nat /\ (n = 3 => some = 0) /\ part + some <= Share(o, lease, n)
            /\ (OwnerOf(lease.pool) = o => QuotaOf(lease.pool) <= q) => part + some = Share(o, lease, n)
        BY <4>0, FamilyShare
      <4> HIDE DEF part, some
      <4>3. /\ part \in Nat /\ part + 0 <= Share(o, lease, n)
            /\ (OwnerOf(lease.pool) = o => QuotaOf(lease.pool) <= q) => part + 0 = Share(o, lease, n)
        BY <4>1, <4>2
      <4> QED
        BY <4>1, <4>3 DEF part
    <3>3. Share(o, lease, 3) \in Nat
      BY <3>1, Sharing
    <3>4. own = part /\ own2 = Share(o, lease, 3) /\ (ownFits <=> (OwnerOf(lease.pool) = o => QuotaOf(lease.pool) <= q))
      BY <2>2
    <3> HIDE DEF part, own, own2, ownFits, lease
    <3> QED
      BY <3>2, <3>3, <3>4
  <2> QED
    BY <2>1, <2>2
<1>3. cla \in Nat /\ cla2 \in Nat /\ hand \in Nat /\ cla + hand <= cla2 /\ (claFits => cla + hand = cla2)
  <2>1. CASE claim[r] = NoClaim
    <3>1. claim[r].level = 0
      BY <2>1, Nothing
    <3>2. hand = 0
      BY <3>1 DEF InHand
    <3> HIDE DEF hand
    <3> QED
      BY <2>1, <3>2
  <2>2. CASE claim[r] # NoClaim
    <3>1. claim[r].pool \in Pools /\ claim[r].bytes \in Nat /\ claim[r].level \in 0..3
      BY <2>2, LeaseTypes
    <3> DEFINE lease == claim[r]
               n == claim[r].level
               part == SumFunctionOnSet([p \in Family(o, q) |-> Share(p, lease, n)], Family(o, q))
               some == IF n \in {1, 2} /\ lease.pool \in Family(o, q) THEN lease.bytes ELSE 0
    <3>2. /\ part \in Nat /\ some \in Nat /\ part + some <= Share(o, lease, n)
          /\ (OwnerOf(lease.pool) = o => QuotaOf(lease.pool) <= q) => part + some = Share(o, lease, n)
      <4>1. lease.pool \in Pools /\ lease.bytes \in Nat /\ n \in 0..3
        BY <3>1
      <4> HIDE DEF lease, n
      <4> QED
        BY <4>1, FamilyShare
    <3>3. Share(o, lease, n) \in Nat
      BY <3>1, Sharing
    <3>4. /\ cla = part /\ cla2 = Share(o, lease, n) /\ hand = some
          /\ (claFits <=> (OwnerOf(lease.pool) = o => QuotaOf(lease.pool) <= q))
      BY <2>2 DEF InHand
    <3> HIDE DEF part, some, cla, cla2, claFits, lease, n, hand
    <3> QED
      BY <3>2, <3>3, <3>4
  <2> QED
    BY <2>1, <2>2
<1> HIDE DEF own, own2, cla, cla2, hand
<1>4. hand \in Nat /\ own + cla + hand <= own2 + cla2 /\ (ownFits /\ claFits => own + cla + hand = own2 + cla2)
  BY <1>2, <1>3
<1> QED
  BY <1>1, <1>4 DEF hand

\* What an owner's pools of at most a quota have is at most the owner's counter, and is all of it
\* when no pool of the owner that is in use has a greater one.
LEMMA TakenExact ==
    ASSUME CaseInv, NEW o \in Owners, NEW q \in Nat
    PROVE  /\ Taken(o, q) \in Nat /\ Load(o) \in Nat /\ Taken(o, q) <= Load(o)
           /\ (\A p \in PoolsInUse : OwnerOf(p) = o => QuotaOf(p) <= q) => Load(o) = Taken(o, q)
<1>0. Well /\ CreditRight
  BY DEF CaseInv, KInv, Well
<1>1. Countable /\ IsFiniteSet(Alive) /\ IsFiniteSet(CaseRequests) /\ Alive \subseteq 1..Len(payloads)
  BY <1>0, Numbers, CacheAssumption DEF Countable
<1> DEFINE F == Family(o, q)
           tF == [t \in Alive |-> SumFunctionOnSet([p \in F |-> Share(p, CreditOf(t), 3)], F)]
           rF == [r \in CaseRequests |-> ChargedIn(r, F)]
           hF == [r \in CaseRequests |-> InHand(r, o, q)]
           sF == [r \in CaseRequests |-> ChargedIn(r, F) + InHand(r, o, q)]
           tO == Tokens(o)
           rO == Charges(o)
           fits == \A p \in PoolsInUse : OwnerOf(p) = o => QuotaOf(p) <= q
<1>2. IsFiniteSet(F) /\ F \subseteq Pools
  BY FamilyFinite
<1>3. /\ SumFunctionOnSet([p \in F |-> Load(p)], F) = SumFunctionOnSet(tF, Alive) + SumFunctionOnSet(rF, CaseRequests)
      /\ \A t \in Alive : tF[t] \in Nat
      /\ \A r \in CaseRequests : rF[r] \in Nat
  <2> HIDE DEF F
  <2> QED
    BY <1>2, Together
<1>4. Load(o) = SumFunctionOnSet(tO, Alive) + SumFunctionOnSet(rO, CaseRequests)
  <2>1. Load(o) = SumFunction(tO) + SumFunction(rO)
    BY <1>0 DEF CreditRight, Charged, Tokens, Charges
  <2>2. DOMAIN tO = Alive /\ DOMAIN rO = CaseRequests
    BY DEF Tokens, Charges
  <2> HIDE DEF tO, rO
  <2> QED
    BY <2>1, <2>2 DEF SumFunction
<1>5. \A t \in Alive : tO[t] \in Nat /\ tF[t] <= tO[t] /\ (fits => tF[t] = tO[t])
  <2> SUFFICES ASSUME NEW t \in Alive PROVE tO[t] \in Nat /\ tF[t] <= tO[t] /\ (fits => tF[t] = tO[t])
    OBVIOUS
  <2> DEFINE lease == CreditOf(t)
             n == 3
             part == SumFunctionOnSet([p \in Family(o, q) |-> Share(p, lease, n)], Family(o, q))
  <2>1. /\ lease \in Leases /\ lease.pool = payloads[t].pool /\ lease.bytes = payloads[t].size
        /\ payloads[t].pool \in Pools /\ payloads[t].size \in Sizes
    BY <1>0, <1>1, CreditTypes DEF Well
  <2>2. lease.pool \in Pools /\ lease.bytes \in Nat
    BY <2>1, CacheAssumption
  <2>3. /\ part \in Nat /\ part + 0 <= Share(o, lease, 3)
        /\ (OwnerOf(lease.pool) = o => QuotaOf(lease.pool) <= q) => part + 0 = Share(o, lease, 3)
    <3>0. n \in 0..3
      OBVIOUS
    <3>1. n \in 0..3 /\ n = 3
      OBVIOUS
    <3> DEFINE some == IF n \in {1, 2} /\ lease.pool \in Family(o, q) THEN lease.bytes ELSE 0
    <3> HIDE DEF lease, n
    <3>2. /\ part \in Nat /\ some \in Nat /\ (n = 3 => some = 0) /\ part + some <= Share(o, lease, n)
          /\ (OwnerOf(lease.pool) = o => QuotaOf(lease.pool) <= q) => part + some = Share(o, lease, n)
      BY <2>2, <3>0, FamilyShare
    <3> HIDE DEF part, some
    <3>3. /\ part \in Nat /\ part + 0 <= Share(o, lease, n)
          /\ (OwnerOf(lease.pool) = o => QuotaOf(lease.pool) <= q) => part + 0 = Share(o, lease, n)
      BY <3>1, <3>2
    <3> QED
      BY <3>1, <3>3 DEF part
  <2>4. tO[t] = Share(o, lease, 3) /\ tF[t] = part
    BY DEF Tokens
  <2>5. Share(o, lease, 3) \in Nat
    BY <2>2, Sharing
  <2>6. lease.pool \in PoolsInUse
    BY <2>1 DEF PoolsInUse
  <2> HIDE DEF part, lease, tO, tF
  <2> QED
    BY <2>3, <2>4, <2>5, <2>6
<1>6. \A r \in CaseRequests : /\ hF[r] \in Nat /\ rO[r] \in Nat /\ sF[r] = rF[r] + hF[r]
                              /\ sF[r] <= rO[r] /\ (fits => sF[r] = rO[r])
  <2> SUFFICES ASSUME NEW r \in CaseRequests
               PROVE  /\ hF[r] \in Nat /\ rO[r] \in Nat /\ sF[r] = rF[r] + hF[r]
                      /\ sF[r] <= rO[r] /\ (fits => sF[r] = rO[r])
    OBVIOUS
  <2>1. rO[r] = ChargedBy(r, o) /\ ChargedBy(r, o) \in Nat
    BY <1>1 DEF Charges, Countable
  <2>2. job[r].own # <<>> => job[r].own.pool \in PoolsInUse
    BY DEF PoolsInUse
  <2>3. claim[r] # NoClaim => claim[r].pool \in PoolsInUse
    <3>1. claim[r] # NoClaim => claim[r].pool # <<>>
      BY <1>0, LeaseTypes, Nothing
    <3> QED
      BY <3>1 DEF PoolsInUse
  <2>4. /\ InHand(r, o, q) \in Nat
        /\ ChargedIn(r, Family(o, q)) + InHand(r, o, q) <= ChargedBy(r, o)
        /\ /\ job[r].own # <<>> => (OwnerOf(job[r].own.pool) = o => QuotaOf(job[r].own.pool) <= q)
           /\ claim[r] # NoClaim => (OwnerOf(claim[r].pool) = o => QuotaOf(claim[r].pool) <= q)
           => ChargedIn(r, Family(o, q)) + InHand(r, o, q) = ChargedBy(r, o)
    BY <1>0, FamilyCharged
  <2>5. fits => /\ job[r].own # <<>> => (OwnerOf(job[r].own.pool) = o => QuotaOf(job[r].own.pool) <= q)
                /\ claim[r] # NoClaim => (OwnerOf(claim[r].pool) = o => QuotaOf(claim[r].pool) <= q)
    BY <2>2, <2>3
  <2> HIDE DEF fits
  <2> QED
    BY <2>1, <2>4, <2>5
<1> HIDE DEF tF, rF, hF, sF, tO, rO
<1>7. SumFunctionOnSet(sF, CaseRequests) = SumFunctionOnSet(rF, CaseRequests) + SumFunctionOnSet(hF, CaseRequests)
  BY <1>1, <1>3, <1>6, SumAdds
<1>8. \A r \in CaseRequests : sF[r] \in Nat
  BY <1>3, <1>6
<1>9. /\ SumFunctionOnSet(tF, Alive) \in Nat /\ SumFunctionOnSet(tO, Alive) \in Nat
      /\ SumFunctionOnSet(tF, Alive) <= SumFunctionOnSet(tO, Alive)
  <2>1. SumFunctionOnSet(tF, Alive) \in Nat
    BY <1>1, <1>3, SumStep
  <2>2. SumFunctionOnSet(tO, Alive) \in Nat
    BY <1>1, <1>5, SumStep
  <2>3. \A t \in Alive : tF[t] \in Nat /\ tO[t] \in Nat /\ tF[t] <= tO[t]
    BY <1>3, <1>5
  <2> QED
    BY <1>1, <2>1, <2>2, <2>3, SumAtMost
<1>10. /\ SumFunctionOnSet(sF, CaseRequests) \in Nat /\ SumFunctionOnSet(rO, CaseRequests) \in Nat
       /\ SumFunctionOnSet(sF, CaseRequests) <= SumFunctionOnSet(rO, CaseRequests)
       /\ SumFunctionOnSet(rF, CaseRequests) \in Nat /\ SumFunctionOnSet(hF, CaseRequests) \in Nat
  <2>1. SumFunctionOnSet(sF, CaseRequests) \in Nat
    BY <1>1, <1>8, SumStep
  <2>2. SumFunctionOnSet(rO, CaseRequests) \in Nat
    BY <1>1, <1>6, SumStep
  <2>3. \A r \in CaseRequests : sF[r] \in Nat /\ rO[r] \in Nat /\ sF[r] <= rO[r]
    BY <1>6, <1>8
  <2>4. SumFunctionOnSet(rF, CaseRequests) \in Nat
    BY <1>1, <1>3, SumStep
  <2>5. SumFunctionOnSet(hF, CaseRequests) \in Nat
    BY <1>1, <1>6, SumStep
  <2> QED
    BY <1>1, <2>1, <2>2, <2>3, <2>4, <2>5, SumAtMost
<1>11. Taken(o, q) = SumFunctionOnSet(tF, Alive) + SumFunctionOnSet(sF, CaseRequests)
  <2>1. Taken(o, q) = SumFunctionOnSet([p \in F |-> Load(p)], F) + SumFunctionOnSet(hF, CaseRequests)
    BY DEF Taken, hF
  <2> HIDE DEF F
  <2> QED
    BY <1>3, <1>7, <1>9, <1>10, <2>1
<1>12. ASSUME fits PROVE /\ SumFunctionOnSet(tF, Alive) = SumFunctionOnSet(tO, Alive)
                         /\ SumFunctionOnSet(sF, CaseRequests) = SumFunctionOnSet(rO, CaseRequests)
  <2>1. \A t \in Alive : tF[t] \in Nat /\ tO[t] = tF[t]
    BY <1>3, <1>5, <1>12
  <2>2. \A r \in CaseRequests : sF[r] \in Nat /\ rO[r] = sF[r]
    BY <1>6, <1>8, <1>12
  <2>3. SumFunctionOnSet(tF, Alive) = SumFunctionOnSet(tO, Alive)
    BY <1>1, <2>1, SumAgrees
  <2>4. SumFunctionOnSet(sF, CaseRequests) = SumFunctionOnSet(rO, CaseRequests)
    BY <1>1, <2>2, SumAgrees
  <2> QED
    BY <2>3, <2>4
<1> HIDE DEF fits
<1>13. Taken(o, q) \in Nat /\ Load(o) \in Nat /\ Taken(o, q) <= Load(o) /\ (fits => Load(o) = Taken(o, q))
  BY <1>4, <1>9, <1>10, <1>11, <1>12
<1> QED
  BY <1>13 DEF fits

\* The accounts of a pool, and which of them is a pool.
LEMMA PoolAccounts ==
    ASSUME NEW p \in Pools, NEW n \in 1..3
    PROVE  /\ \A x \in Pools : Accounts(p)[n] = x <=> n = 3 /\ x = p
           /\ Accounts(p)[1] = OwnerOf(p) /\ Accounts(p)[3] = p
           /\ OwnerOf(p) \in Owners
<1>1. Accounts(p)[1] = OwnerOf(p) /\ Accounts(p)[2] = Application /\ Accounts(p)[3] = p
  BY DEF Accounts
<1>2. OwnerOf(p) \in Owners
  BY DEF Owners
<1>3. ASSUME NEW x \in Pools PROVE Accounts(p)[n] = x <=> n = 3 /\ x = p
  <2>1. OwnerOf(p) # x
    <3>1. PICK a, b, c, d : x = <<a, b, c, d>>
      BY DEF Pools
    <3>2. Len(<<a, b, c, d>>) = 4 /\ Len(<<p[1], p[2]>>) = 2
      OBVIOUS
    <3> QED
      BY <3>1, <3>2 DEF OwnerOf
  <2>2. Application # x
    <3>1. Accounts(x)[3] = x
      BY DEF Accounts
    <3>2. 3 \in 1..3
      OBVIOUS
    <3> QED
      BY <3>1, <3>2, TheApplication
  <2>3. n = 1 \/ n = 2 \/ n = 3
    OBVIOUS
  <2> HIDE DEF Pools
  <2> QED
    BY <1>1, <2>1, <2>2, <2>3
<1> QED
  BY <1>1, <1>2, <1>3

\* A sum of which one term moves.
LEMMA SumMoves ==
    ASSUME NEW f, NEW g, NEW S, IsFiniteSet(S), \A y \in S : f[y] \in Nat /\ g[y] \in Nat,
           NEW x, \A y \in S \ {x} : f[y] = g[y]
    PROVE  SumFunctionOnSet(f, S) + (IF x \in S THEN g[x] ELSE 0)
             = SumFunctionOnSet(g, S) + (IF x \in S THEN f[x] ELSE 0)
<1>0. IsFiniteSet(S \ {x})
  BY FS_Subset
<1>1. \A y \in S \ {x} : f[y] \in Nat /\ g[y] = f[y]
  OBVIOUS
<1>2. SumFunctionOnSet(f, S \ {x}) = SumFunctionOnSet(g, S \ {x})
  BY <1>0, <1>1, SumAgrees
<1>3. SumFunctionOnSet(f, S \ {x}) \in Nat
  BY <1>0, <1>1, SumStep
<1>4. CASE x \in S
  <2>1. SumFunctionOnSet(f, S) = f[x] + SumFunctionOnSet(f, S \ {x})
    BY <1>4, SumStep
  <2>2. SumFunctionOnSet(g, S) = g[x] + SumFunctionOnSet(g, S \ {x})
    BY <1>4, SumStep
  <2> QED
    BY <1>2, <1>3, <1>4, <2>1, <2>2
<1>5. CASE x \notin S
  <2>1. S \ {x} = S
    BY <1>5
  <2> QED
    BY <1>2, <1>3, <1>5, <2>1
<1> QED
  BY <1>4, <1>5

\* What is in hand is a number.
LEMMA HandTypes == Well => \A r \in CaseRequests : \A o, q : InHand(r, o, q) \in Nat
<1> SUFFICES ASSUME Well, NEW r \in CaseRequests, NEW o, NEW q PROVE InHand(r, o, q) \in Nat
  OBVIOUS
<1>1. claim[r] # NoClaim => claim[r].bytes \in Nat
  BY LeaseTypes
<1>2. claim[r] = NoClaim => claim[r].level = 0
  BY Nothing
<1> QED
  BY <1>1, <1>2 DEF InHand

\* The next state's too.
LEMMA HandTypesAfter == Well' => \A r \in CaseRequests : \A o, q : InHand(r, o, q)' \in Nat
<1>1. Well' => (\A r \in CaseRequests : \A o, q : InHand(r, o, q) \in Nat)'
  BY HandTypes, PTL
<1> QED
  BY <1>1

\* What an owner's pools take when one request's charge and one pool's counter move.
LEMMA TakenMoves ==
    ASSUME Well, Well', NEW r \in CaseRequests, NEW o \in Owners, NEW q \in Nat, NEW x \in Pools,
           \A p \in Pools \ {x} : Load(p)' = Load(p),
           \A s \in CaseRequests \ {r} : claim'[s] = claim[s]
    PROVE  /\ Taken(o, q)' + (IF x \in Family(o, q) THEN Load(x) ELSE 0) + InHand(r, o, q)
                = Taken(o, q) + (IF x \in Family(o, q) THEN Load(x)' ELSE 0) + InHand(r, o, q)'
           /\ Taken(o, q) \in Nat /\ Taken(o, q)' \in Nat
<1> DEFINE F == Family(o, q)
           f == [p \in F |-> Load(p)]
           g == [p \in F |-> Load(p)']
           u == [s \in CaseRequests |-> InHand(s, o, q)]
           v == [s \in CaseRequests |-> InHand(s, o, q)']
<1>1. IsFiniteSet(F) /\ F \subseteq Pools /\ IsFiniteSet(CaseRequests)
  BY FamilyFinite, CacheAssumption
<1>2. \A a : Load(a) \in Nat /\ Load(a)' \in Nat
  BY DEF Well, CaseTypes, Load
<1>3. \A p \in F : f[p] \in Nat /\ g[p] \in Nat
  BY <1>2
<1>4. \A p \in F \ {x} : f[p] = g[p]
  BY <1>1
<1>5. \A s \in CaseRequests : u[s] \in Nat /\ v[s] \in Nat
  BY HandTypes, HandTypesAfter
<1>6. \A s \in CaseRequests \ {r} : u[s] = v[s]
  BY DEF InHand
<1>7. Taken(o, q) = SumFunctionOnSet(f, F) + SumFunctionOnSet(u, CaseRequests)
  BY DEF Taken
<1>8. Taken(o, q)' = SumFunctionOnSet(g, F) + SumFunctionOnSet(v, CaseRequests)
  BY DEF Taken, Family
<1>9. /\ x \in F => f[x] = Load(x) /\ g[x] = Load(x)'
      /\ u[r] = InHand(r, o, q) /\ v[r] = InHand(r, o, q)'
  OBVIOUS
<1>20. Load(x) \in Nat /\ Load(x)' \in Nat
  BY <1>2
<1> HIDE DEF F, f, g, u, v
<1>10. SumFunctionOnSet(f, F) + (IF x \in F THEN g[x] ELSE 0) = SumFunctionOnSet(g, F) + (IF x \in F THEN f[x] ELSE 0)
  BY <1>1, <1>3, <1>4, SumMoves
<1>11. SumFunctionOnSet(u, CaseRequests) + v[r] = SumFunctionOnSet(v, CaseRequests) + u[r]
  <2>1. SumFunctionOnSet(u, CaseRequests) + (IF r \in CaseRequests THEN v[r] ELSE 0)
          = SumFunctionOnSet(v, CaseRequests) + (IF r \in CaseRequests THEN u[r] ELSE 0)
    BY <1>1, <1>5, <1>6, SumMoves
  <2> QED
    BY <2>1
<1>12. /\ SumFunctionOnSet(f, F) \in Nat /\ SumFunctionOnSet(g, F) \in Nat
       /\ SumFunctionOnSet(u, CaseRequests) \in Nat /\ SumFunctionOnSet(v, CaseRequests) \in Nat
  <2>1. SumFunctionOnSet(f, F) \in Nat
    BY <1>1, <1>3, SumStep
  <2>2. SumFunctionOnSet(g, F) \in Nat
    BY <1>1, <1>3, SumStep
  <2>3. SumFunctionOnSet(u, CaseRequests) \in Nat
    BY <1>1, <1>5, SumStep
  <2>4. SumFunctionOnSet(v, CaseRequests) \in Nat
    BY <1>1, <1>5, SumStep
  <2> QED
    BY <2>1, <2>2, <2>3, <2>4
<1>13. u[r] \in Nat /\ v[r] \in Nat
  BY <1>5
<1>14. /\ Taken(o, q)' + (IF x \in F THEN Load(x) ELSE 0) + InHand(r, o, q)
             = Taken(o, q) + (IF x \in F THEN Load(x)' ELSE 0) + InHand(r, o, q)'
       /\ Taken(o, q) \in Nat /\ Taken(o, q)' \in Nat
  BY <1>7, <1>8, <1>9, <1>10, <1>11, <1>12, <1>13, <1>20
<1> QED
  BY <1>14 DEF F

\* A reservation that charges its owner finds the owner's counter below its own limit, and so
\* all that the owner's pools of this limit or less have.
LEMMA AddKeepsQuota ==
    ASSUME CaseInv, CaseInv', QuotaKept, NEW r \in CaseRequests, Add(r)
    PROVE  QuotaKept'
<1> SUFFICES ASSUME NEW o \in Owners, NEW q \in Nat PROVE Taken(o, q)' <= q
  BY DEF QuotaKept
<1>1. Well /\ Well'
  BY DEF CaseInv, KInv, Well
<1>2. PICK x, b, m, fits : x = claim[r].pool /\ b = claim[r].bytes /\ m = claim[r].level
                           /\ fits = Fits(Accounts(x)[m + 1], b, LimitOf(x, m + 1))
  OBVIOUS
<1>3. /\ claim[r] \in Claims /\ x \in Pools /\ b \in Nat /\ m \in 0..2 /\ m + 1 \in 1..3
      /\ fits \in BOOLEAN
  <2>1. claim[r] \in Claims /\ claim[r].up /\ m < 3 /\ claim[r] # NoClaim
    BY <1>1, <1>2, Nothing DEF Well, CaseTypes, Add
  <2>2. claim[r].pool \in Pools /\ claim[r].bytes \in Nat /\ claim[r].level \in 0..3
    BY <1>1, <2>1, LeaseTypes
  <2> QED
    BY <1>2, <2>1, <2>2 DEF Fits
<1>4. /\ claim'[r].pool = x /\ claim'[r].bytes = b /\ claim'[r].level = IF fits THEN m + 1 ELSE m
      /\ \A s \in CaseRequests \ {r} : claim'[s] = claim[s]
      /\ used' = IF fits THEN used (+) [y \in {Accounts(x)[m + 1]} |-> b] ELSE used
  <2>1. claim \in [CaseRequests -> Claims]
    BY <1>1 DEF Well, CaseTypes
  <2> QED
    BY <1>2, <2>1 DEF Add, Claims
<1>5. \A a : Load(a) \in Nat
  BY <1>1 DEF Well, CaseTypes, Load
<1>6. \A a : Load(a)' = Load(a) + IF fits /\ a = Accounts(x)[m + 1] THEN b ELSE 0
  <2>1. CASE fits
    <3>1. used \in [DOMAIN used -> Nat]
      BY <1>1 DEF Well, CaseTypes
    <3>2. PICK account : account = Accounts(x)[m + 1]
      OBVIOUS
    <3>3. used' = used (+) [y \in {account} |-> b]
      BY <1>4, <2>1, <3>2
    <3> QED
      BY <1>3, <2>1, <3>1, <3>2, <3>3, Charging
  <2>2. CASE ~fits
    BY <1>4, <1>5, <2>2 DEF Load
  <2> QED
    BY <1>3, <2>1, <2>2
<1>7. \A p \in Pools : Load(p)' = Load(p) + IF fits /\ m = 2 /\ p = x THEN b ELSE 0
  <2>1. \A p \in Pools : Accounts(x)[m + 1] = p <=> m + 1 = 3 /\ p = x
    BY <1>3, PoolAccounts
  <2> QED
    BY <1>3, <1>6, <2>1
<1>8. \A p \in Pools \ {x} : Load(p)' = Load(p)
  BY <1>5, <1>7
<1> DEFINE F == Family(o, q)
<1>9. /\ Taken(o, q)' + (IF x \in F THEN Load(x) ELSE 0) + InHand(r, o, q)
            = Taken(o, q) + (IF x \in F THEN Load(x)' ELSE 0) + InHand(r, o, q)'
      /\ Taken(o, q) \in Nat /\ Taken(o, q)' \in Nat
  BY <1>1, <1>3, <1>4, <1>8, TakenMoves
<1>10. /\ InHand(r, o, q) = IF m \in {1, 2} /\ x \in F THEN b ELSE 0
       /\ InHand(r, o, q)' = IF (IF fits THEN m + 1 ELSE m) \in {1, 2} /\ x \in F THEN b ELSE 0
  <2>1. Family(o, q)' = F
    BY DEF Family
  <2> HIDE DEF F
  <2> QED
    BY <1>2, <1>4, <2>1 DEF InHand, F
<1>11. Load(x)' = Load(x) + IF fits /\ m = 2 THEN b ELSE 0
  BY <1>3, <1>7
<1>12. Taken(o, q) <= q
  BY DEF QuotaKept
<1>13. CASE m = 0 /\ fits /\ x \in F
  <2>1. o = OwnerOf(x) /\ QuotaOf(x) <= q /\ QuotaOf(x) \in Nat
    BY <1>3, <1>13, FamilyFinite
  <2>2. Load(o) + b <= QuotaOf(x)
    <3>1. Accounts(x)[1] = o /\ LimitOf(x, 1) = QuotaOf(x) /\ m + 1 = 1
      BY <1>3, <1>13, <2>1, PoolAccounts DEF LimitOf
    <3> QED
      BY <1>2, <1>13, <3>1 DEF Fits
  <2>3. Taken(o, q) <= Load(o) /\ Load(o) \in Nat
    BY TakenExact
  <2>4. Taken(o, q)' = Taken(o, q) + b
    <3> HIDE DEF F
    <3> QED
      BY <1>3, <1>5, <1>9, <1>10, <1>11, <1>13
  <2> QED
    BY <1>3, <1>9, <2>1, <2>2, <2>3, <2>4
<1>14. CASE ~(m = 0 /\ fits /\ x \in F)
  <2> HIDE DEF F
  <2>1. m = 0 \/ m = 1 \/ m = 2
    BY <1>3
  <2>2. Load(x) \in Nat
    BY <1>5
  <2>3. Taken(o, q)' = Taken(o, q)
    BY <1>3, <1>9, <1>10, <1>11, <1>14, <2>1, <2>2
  <2> QED
    BY <1>12, <2>3
<1> QED
  BY <1>13, <1>14

\* Giving back takes nothing more.
LEMMA GiveBackKeepsQuota ==
    ASSUME CaseInv, CaseInv', QuotaKept, NEW r \in CaseRequests, GiveBack(r)
    PROVE  QuotaKept'
<1> SUFFICES ASSUME NEW o \in Owners, NEW q \in Nat PROVE Taken(o, q)' <= q
  BY DEF QuotaKept
<1>1. Well /\ Well' /\ CreditRight
  BY DEF CaseInv, KInv, Well
<1>2. PICK x, b, l : x = claim[r].pool /\ b = claim[r].bytes /\ l = claim[r].level
  OBVIOUS
<1>3. claim[r] \in Claims /\ x \in Pools /\ b \in Nat /\ l \in 1..3
  <2>1. claim[r] \in Claims /\ claim[r].level > 0 /\ claim[r] # NoClaim
    BY <1>1, Nothing DEF Well, CaseTypes, GiveBack
  <2>2. claim[r].pool \in Pools /\ claim[r].bytes \in Nat /\ claim[r].level \in 0..3
    BY <1>1, <2>1, LeaseTypes
  <2> QED
    BY <1>2, <2>1, <2>2
<1>4. /\ \/ claim'[r] = NoClaim /\ l = 1
         \/ claim'[r].pool = x /\ claim'[r].bytes = b /\ claim'[r].level = l - 1
      /\ \A s \in CaseRequests \ {r} : claim'[s] = claim[s]
      /\ used' = used (-) [y \in {Accounts(x)[l]} |-> b]
  <2>1. claim \in [CaseRequests -> Claims]
    BY <1>1 DEF Well, CaseTypes
  <2> QED
    BY <1>2, <2>1 DEF GiveBack, Claims
<1>5. \A a : Load(a) \in Nat /\ Load(a)' \in Nat
  BY <1>1 DEF Well, CaseTypes, Load
<1>6. \A a : Load(a)' + (IF a = Accounts(x)[l] THEN b ELSE 0) = Load(a)
  <2>1. used \in [DOMAIN used -> Nat]
    BY <1>1 DEF Well, CaseTypes
  <2>2. PICK account : account = Accounts(x)[l]
    OBVIOUS
  <2>3. b <= Load(account)
    BY <1>1, <1>2, <1>3, <2>2, Covered
  <2>4. used' = used (-) [y \in {account} |-> b]
    BY <1>4, <2>2
  <2> QED
    BY <1>3, <2>1, <2>2, <2>3, <2>4, Releasing
<1>7. \A p \in Pools : Load(p)' + (IF l = 3 /\ p = x THEN b ELSE 0) = Load(p)
  <2>1. \A p \in Pools : Accounts(x)[l] = p <=> l = 3 /\ p = x
    BY <1>3, PoolAccounts
  <2> QED
    BY <1>6, <2>1
<1>8. \A p \in Pools \ {x} : Load(p)' = Load(p)
  BY <1>5, <1>7
<1> DEFINE F == Family(o, q)
<1>9. /\ Taken(o, q)' + (IF x \in F THEN Load(x) ELSE 0) + InHand(r, o, q)
            = Taken(o, q) + (IF x \in F THEN Load(x)' ELSE 0) + InHand(r, o, q)'
      /\ Taken(o, q) \in Nat /\ Taken(o, q)' \in Nat
  BY <1>1, <1>3, <1>4, <1>8, TakenMoves
<1>10. /\ InHand(r, o, q) = IF l \in {1, 2} /\ x \in F THEN b ELSE 0
       /\ InHand(r, o, q)' = IF l - 1 \in {1, 2} /\ x \in F THEN b ELSE 0
  <2>1. Family(o, q)' = F
    BY DEF Family
  <2>2. InHand(r, o, q)' = IF claim'[r].level \in {1, 2} /\ claim'[r].pool \in F THEN claim'[r].bytes ELSE 0
    BY <2>1 DEF InHand
  <2>3. InHand(r, o, q) = IF l \in {1, 2} /\ x \in F THEN b ELSE 0
    BY <1>2 DEF InHand
  <2> HIDE DEF F
  <2>4. CASE claim'[r] = NoClaim /\ l = 1
    BY <2>2, <2>3, <2>4, Nothing
  <2>5. CASE claim'[r].pool = x /\ claim'[r].bytes = b /\ claim'[r].level = l - 1
    BY <2>2, <2>3, <2>5
  <2> QED
    BY <1>4, <2>4, <2>5
<1>11. Load(x)' + (IF l = 3 THEN b ELSE 0) = Load(x)
  BY <1>3, <1>7
<1>12. Taken(o, q) <= q
  BY DEF QuotaKept
<1>13. Load(x) \in Nat /\ Load(x)' \in Nat
  BY <1>5
<1>14. l = 1 \/ l = 2 \/ l = 3
  BY <1>3
<1> HIDE DEF F
<1>15. Taken(o, q)' <= Taken(o, q)
  BY <1>3, <1>9, <1>10, <1>11, <1>13, <1>14
<1> QED
  BY <1>9, <1>12, <1>15

\* A step that charges and gives back nothing: its claim, if it changes, was not in the middle and is
\* not now.
LEMMA OthersKeepQuota ==
    ASSUME CaseInv, CaseInv', QuotaKept, NEW r \in CaseRequests, used' = used,
           \A s \in CaseRequests \ {r} : claim'[s] = claim[s],
           claim'[r] = claim[r] \/ (claim[r].level \in {0, 3} /\ claim'[r].level \in {0, 3})
    PROVE  QuotaKept'
<1> SUFFICES ASSUME NEW o \in Owners, NEW q \in Nat PROVE Taken(o, q)' <= q
  BY DEF QuotaKept
<1>1. Well /\ Well'
  BY DEF CaseInv, KInv, Well
<1>2. InHand(r, o, q)' = InHand(r, o, q) /\ InHand(r, o, q) \in Nat
  <2>1. CASE claim'[r] = claim[r]
    BY <1>1, <2>1, HandTypes DEF InHand, Family
  <2>2. CASE claim[r].level \in {0, 3} /\ claim'[r].level \in {0, 3}
    BY <2>2 DEF InHand
  <2> QED
    BY <2>1, <2>2
<1>3. \A a : Load(a)' = Load(a) /\ Load(a) \in Nat
  BY <1>1 DEF Well, CaseTypes, Load
<1>4. PICK x : x \in Pools
  BY DEF Owners
<1>5. /\ Taken(o, q)' + (IF x \in Family(o, q) THEN Load(x) ELSE 0) + InHand(r, o, q)
            = Taken(o, q) + (IF x \in Family(o, q) THEN Load(x)' ELSE 0) + InHand(r, o, q)'
      /\ Taken(o, q) \in Nat /\ Taken(o, q)' \in Nat
  BY <1>1, <1>3, <1>4, TakenMoves
<1>6. Load(x)' = Load(x) /\ Load(x) \in Nat
  BY <1>3
<1>7. Taken(o, q)' = Taken(o, q)
  BY <1>2, <1>5, <1>6
<1> QED
  BY <1>7 DEF QuotaKept

\* The claims of the other steps.
LEMMA OtherClaims ==
    ASSUME CaseInv, NEW r \in CaseRequests, CaseArrives(r) \/ CaseStep(r), ~Add(r), ~GiveBack(r)
    PROVE  /\ used' = used /\ \A s \in CaseRequests \ {r} : claim'[s] = claim[s]
           /\ claim'[r] = claim[r] \/ (claim[r].level \in {0, 3} /\ claim'[r].level \in {0, 3})
<1>1. claim \in [CaseRequests -> Claims] /\ stage \in [CaseRequests -> Stages]
  BY DEF CaseInv, KInv, CaseTypes
<1> DEFINE goal == /\ used' = used /\ \A s \in CaseRequests \ {r} : claim'[s] = claim[s]
                   /\ claim'[r] = claim[r] \/ (claim[r].level \in {0, 3} /\ claim'[r].level \in {0, 3})
<1>2. ASSUME UNCHANGED <<used, claim>> PROVE goal
  BY <1>2
<1>3. ASSUME NEW c \in Claims, claim' = [claim EXCEPT ![r] = c], used' = used,
             claim[r].level \in {0, 3}, c.level \in {0, 3}
      PROVE  goal
  BY <1>1, <1>3
<1>4. NoClaim \in Claims /\ NoClaim.level = 0
  BY Nothing
<1>5. CASE CaseArrives(r)
  BY <1>2, <1>5 DEF CaseArrives, Sync, PinCase, Quietly, credit
<1>6. CASE Open(r) \/ RepinCase(r) \/ Resolve(r) \/ CheckToken(r) \/ TakePayload(r) \/ ConfirmToken(r) \/ ConfirmCase(r)
  BY <1>2, <1>6 DEF Open, RepinCase, Resolve, CheckToken, TakePayload, ConfirmToken, ConfirmCase, Quietly, credit
<1>7. CASE PressesRoot(r) \/ Evict(r) \/ Trim(r) \/ Store(r) \/ AnswersCase(r) \/ RefusesCase(r)
  BY <1>2, <1>7 DEF PressesRoot, Evict, Trim, Store, AnswersCase, RefusesCase
<1>8. CASE Granted(r)
  BY <1>3, <1>4, <1>8 DEF Granted
<1>9. CASE PressesOwner(r)
  BY <1>3, <1>4, <1>9 DEF PressesOwner, Rejected
<1>10. CASE Size(r) \/ Again(r)
  <2>1. claim' = [claim EXCEPT ![r] = [pool |-> job[r].pool, bytes |-> job[r].size, level |-> 0, up |-> TRUE]]
        /\ used' = used /\ claim[r] = NoClaim
    BY <1>10 DEF Size, Again, Moves, Ready, Reserve
  <2> QED
    BY <1>1, <1>4, <2>1
<1>11. CASE Copy(r)
  <2>1. claim' = [claim EXCEPT ![r] = [pool |-> job[r].pool, bytes |-> payloads[job[r].held].size,
                                       level |-> 0, up |-> TRUE]]
        /\ used' = used /\ claim[r] = NoClaim
    BY <1>11 DEF Copy, Moves, Ready
  <2> QED
    BY <1>1, <1>4, <2>1
<1>12. ASSUME NEW lease, GivesUp(r, lease) PROVE goal
  <2>1. claim' = [claim EXCEPT ![r] = [pool |-> lease.pool, bytes |-> lease.bytes, level |-> 3, up |-> FALSE]]
        /\ used' = used /\ claim[r] = NoClaim
    BY <1>12 DEF GivesUp
  <2> QED
    BY <1>1, <1>4, <2>1
<1>13. CASE DropOwn(r) \/ DropPayload(r)
  <2>1. GivesUp(r, job[r].own) \/ GivesUp(r, CreditOf(Min(shed[r])))
    BY <1>13 DEF DropOwn, DropPayload
  <2> HIDE DEF goal
  <2>2. goal
    BY <1>12, <2>1
  <2> QED
    BY <2>2 DEF goal
<1> QED
  BY <1>5, <1>6, <1>7, <1>8, <1>9, <1>10, <1>11, <1>13 DEF CaseStep

\* What was kept before is within its Case's quota, one publication of each owner.
LEMMA QuotaBegins == CaseInit => QuotaKept
<1> SUFFICES ASSUME CaseInit, NEW o \in Owners, NEW q \in Nat PROVE Taken(o, q) <= q
  BY DEF QuotaKept
<1>1. CaseInv
  BY CaseBegins
<1>2. /\ CaseTypes /\ Well /\ CreditRight /\ Countable
      /\ claim = [r \in CaseRequests |-> NoClaim] /\ job = [r \in CaseRequests |-> NoJob]
      /\ shed = [r \in CaseRequests |-> {}] /\ entries = DOMAIN payloads
      /\ \A t \in DOMAIN payloads : payloads[t].size <= Quota[0]
      /\ \A m, n \in DOMAIN payloads : m # n => payloads[m].owner # payloads[n].owner
  <2>1. CaseTypes /\ Well /\ CreditRight
    BY <1>1 DEF CaseInv, KInv, Well
  <2> QED
    BY <2>1, Numbers DEF CaseInit
<1>3. Alive = DOMAIN payloads /\ DOMAIN payloads = 1..Len(payloads)
  <2>1. \A r \in CaseRequests : job[r].held = 0 /\ shed[r] = {}
    BY <1>2, Nothing
  <2>2. Alive = entries
    BY <2>1 DEF Alive
  <2>3. payloads \in Seq(Payloads)
    BY <1>2 DEF CaseTypes
  <2> QED
    BY <1>2, <2>2, <2>3
<1>4. \A t \in DOMAIN payloads : /\ payloads[t].pool \in Pools /\ payloads[t].size \in Nat
                                 /\ payloads[t].owner = OwnerOf(payloads[t].pool)
                                 /\ QuotaOf(payloads[t].pool) = Quota[0]
  <2> TAKE t \in DOMAIN payloads
  <2>1. payloads[t].pool \in Pools /\ payloads[t].size \in Nat /\ payloads[t].owner = OwnerOf(payloads[t].pool)
    BY <1>2, <1>3, CreditTypes, CacheAssumption DEF CaseTypes
  <2>2. \E c \in Cases, k \in Keys, n \in Sizes : payloads[t] = Kept(c, k, n)
    <3>1. CASE payloads = <<>>
      BY <3>1
    <3>2. ASSUME NEW c \in Cases, NEW k \in Keys, NEW n \in Sizes, payloads = <<Kept(c, k, n)>> PROVE <2>2
      BY <3>2
    <3>3. ASSUME NEW c \in Cases, NEW d \in Cases, NEW k \in Keys, NEW m \in Sizes, NEW n \in Sizes,
                 payloads = <<Kept(c, k, m), Kept(d, k, n)>>
          PROVE  <2>2
      BY <3>3
    <3> QED
      BY <3>1, <3>2, <3>3 DEF CaseInit
  <2>3. QuotaOf(payloads[t].pool) = Quota[0]
    BY <2>2 DEF Kept, QuotaOf
  <2> QED
    BY <2>1, <2>3
<1> DEFINE F == Family(o, q)
           f == [p \in F |-> Load(p)]
           h == [r \in CaseRequests |-> InHand(r, o, q)]
           byT == [t \in Alive |-> SumFunctionOnSet([p \in F |-> Share(p, CreditOf(t), 3)], F)]
           byR == [r \in CaseRequests |-> ChargedIn(r, F)]
<1>5. IsFiniteSet(F) /\ F \subseteq Pools /\ \A p \in Pools : p \in F <=> OwnerOf(p) = o /\ QuotaOf(p) <= q
  BY FamilyFinite
<1>6. SumFunctionOnSet(h, CaseRequests) = 0
  <2>1. \A r \in CaseRequests : h[r] = 0
    BY <1>2, Nothing DEF InHand
  <2> HIDE DEF h
  <2> QED
    BY <2>1, SumZero, CacheAssumption
<1>7. SumFunctionOnSet(byR, CaseRequests) = 0
  <2>1. \A r \in CaseRequests : byR[r] = 0
    BY <1>2, Nothing DEF ChargedIn
  <2> HIDE DEF byR
  <2> QED
    BY <2>1, SumZero, CacheAssumption
<1>8. SumFunctionOnSet(f, F) = SumFunctionOnSet(byT, Alive) + SumFunctionOnSet(byR, CaseRequests)
  <2> HIDE DEF F
  <2> QED
    BY <1>1, <1>5, Together
<1>9. \A t \in Alive : byT[t] = IF payloads[t].owner = o /\ Quota[0] <= q THEN payloads[t].size ELSE 0
  <2> TAKE t \in Alive
  <2> DEFINE lease == CreditOf(t)
             n == 3
  <2>1. lease.pool = payloads[t].pool /\ lease.bytes = payloads[t].size
    BY <1>2, <1>3, CreditTypes
  <2>2. lease.pool \in Pools /\ lease.bytes \in Nat /\ n \in 0..3 /\ n = 3
    BY <1>3, <1>4, <2>1
  <2>3. byT[t] = SumFunctionOnSet([p \in F |-> Share(p, lease, n)], F)
    OBVIOUS
  <2> HIDE DEF lease, n, F, byT
  <2>4. byT[t] = IF n = 3 /\ lease.pool \in F THEN lease.bytes ELSE 0
    BY <1>5, <2>2, <2>3, PoolsShare
  <2>5. lease.pool \in F <=> payloads[t].owner = o /\ Quota[0] <= q
    BY <1>3, <1>4, <1>5, <2>1, <2>2
  <2> QED
    BY <2>1, <2>2, <2>4, <2>5
<1>10. Taken(o, q) = SumFunctionOnSet(f, F) + SumFunctionOnSet(h, CaseRequests)
  BY DEF Taken
<1>11. IsFiniteSet(Alive)
  BY <1>2 DEF Countable
<1> HIDE DEF F, f, h, byT, byR
<1>12. SumFunctionOnSet(byT, Alive) \in Nat /\ SumFunctionOnSet(byT, Alive) <= q
  <2>1. CASE \A t \in Alive : byT[t] = 0
    BY <1>11, <2>1, SumZero
  <2>2. ASSUME NEW t \in Alive, byT[t] # 0 PROVE <1>12
    <3>1. payloads[t].owner = o /\ Quota[0] <= q /\ byT[t] = payloads[t].size
      BY <1>9, <2>2
    <3>2. \A s \in Alive \ {t} : byT[s] = 0
      BY <1>2, <1>3, <1>9, <3>1
    <3>3. byT[t] \in Nat
      BY <1>3, <1>4, <3>1
    <3>4. SumFunctionOnSet(byT, Alive) = byT[t]
      BY <1>11, <3>2, <3>3, SumOne
    <3>5. payloads[t].size <= Quota[0] /\ Quota[0] \in Nat
      <4>1. 0 \in 0..MaxRevision
        BY LimitAssumption
      <4> QED
        BY <1>2, <1>3, <4>1, QuotaAssumption
    <3> QED
      BY <3>1, <3>3, <3>4, <3>5
  <2> QED
    BY <2>1, <2>2
<1> QED
  BY <1>6, <1>7, <1>8, <1>10, <1>12

-----------------------------------------------------------------------------
\* A part of the terms has no greater sum.
LEMMA SumWithin ==
    ASSUME NEW f, NEW S, IsFiniteSet(S), \A x \in S : f[x] \in Nat, NEW P \in SUBSET S
    PROVE  SumFunctionOnSet(f, P) <= SumFunctionOnSet(f, S)
<1> DEFINE g == [x \in S |-> IF x \in P THEN f[x] ELSE 0]
<1>1. \A x \in S : g[x] \in Nat /\ g[x] <= f[x] /\ g[x] = IF x \in P THEN f[x] ELSE 0
  OBVIOUS
<1> HIDE DEF g
<1>2. SumFunctionOnSet(g, S) = SumFunctionOnSet(f, P)
  BY <1>1, SumPart
<1>3. SumFunctionOnSet(g, S) <= SumFunctionOnSet(f, S)
  BY <1>1, SumAtMost
<1> QED
  BY <1>2, <1>3

OwnersInUse == {OwnerOf(p) : p \in PoolsInUse}

\* The pools in use, their owners, and the most that an owner asks for.
LEMMA InUse ==
    ASSUME CaseInv
    PROVE  /\ PoolsInUse \subseteq Pools /\ IsFiniteSet(PoolsInUse)
           /\ OwnersInUse \subseteq Owners /\ IsFiniteSet(OwnersInUse)
           /\ \A o \in Owners : QuotaInUse(o) \in Nat
           /\ \A p \in PoolsInUse : QuotaOf(p) <= QuotaInUse(OwnerOf(p))
<1>1. Well /\ CaseTypes
  BY DEF CaseInv, KInv, Well
<1>2. Alive \subseteq 1..Len(payloads) /\ IsFiniteSet(Alive) /\ IsFiniteSet(CaseRequests)
  BY <1>1, Numbers, CacheAssumption DEF Countable
<1> DEFINE A == {payloads[t].pool : t \in Alive}
           R == {q \in CaseRequests : job[q].own # <<>>}
           B == {job[r].own.pool : r \in R}
           J == {job[r].pool : r \in CaseRequests}
           C == {claim[r].pool : r \in CaseRequests}
<1>3. PoolsInUse \subseteq Pools
  <2>1. \A t \in Alive : payloads[t].pool \in Pools
    BY <1>1, <1>2, CreditTypes
  <2>2. \A r \in CaseRequests : job[r].own # <<>> => job[r].own.pool \in Pools
    BY <1>1, LeaseTypes
  <2>3. \A r \in CaseRequests : job[r].pool \in Pools \cup {<<>>} /\ claim[r].pool \in Pools \cup {<<>>}
    BY <1>1 DEF CaseTypes, Jobs, Claims
  <2> QED
    BY <2>1, <2>2, <2>3 DEF PoolsInUse
<1>4. PoolsInUse \subseteq A \cup B \cup J \cup C
  BY DEF PoolsInUse
<1>5. IsFiniteSet(A \cup B \cup J \cup C)
  <2>1. IsFiniteSet(A)
    <3> DEFINE f == [t \in Alive |-> payloads[t].pool]
    <3>1. f = [t \in Alive |-> f[t]] /\ A = {f[t] : t \in Alive}
      OBVIOUS
    <3> HIDE DEF f, A
    <3> QED
      BY <1>2, <3>1, ImageFinite
  <2>2. IsFiniteSet(B)
    <3> DEFINE f == [r \in R |-> job[r].own.pool]
    <3>1. f = [r \in R |-> f[r]] /\ B = {f[r] : r \in R}
      OBVIOUS
    <3>2. IsFiniteSet(R)
      BY <1>2, FS_Subset
    <3> HIDE DEF f, B, R
    <3> QED
      BY <3>1, <3>2, ImageFinite
  <2>3. IsFiniteSet(J)
    <3> DEFINE f == [r \in CaseRequests |-> job[r].pool]
    <3>1. f = [r \in CaseRequests |-> f[r]] /\ J = {f[r] : r \in CaseRequests}
      OBVIOUS
    <3> HIDE DEF f, J
    <3> QED
      BY <1>2, <3>1, ImageFinite
  <2>4. IsFiniteSet(C)
    <3> DEFINE f == [r \in CaseRequests |-> claim[r].pool]
    <3>1. f = [r \in CaseRequests |-> f[r]] /\ C = {f[r] : r \in CaseRequests}
      OBVIOUS
    <3> HIDE DEF f, C
    <3> QED
      BY <1>2, <3>1, ImageFinite
  <2> HIDE DEF A, B, J, C
  <2>5. IsFiniteSet(A \cup B)
    BY <2>1, <2>2, FS_Union
  <2>6. IsFiniteSet((A \cup B) \cup J)
    BY <2>3, <2>5, FS_Union
  <2> QED
    BY <2>4, <2>6, FS_Union
<1>6. IsFiniteSet(PoolsInUse)
  <2> HIDE DEF A, B, J, C
  <2> QED
    BY <1>4, <1>5, FS_Subset
<1> HIDE DEF A, B, J, C
<1>7. OwnersInUse \subseteq Owners
  BY <1>3 DEF OwnersInUse, Owners
<1>8. IsFiniteSet(OwnersInUse)
  <2> DEFINE f == [p \in PoolsInUse |-> OwnerOf(p)]
  <2>1. f = [p \in PoolsInUse |-> f[p]] /\ OwnersInUse = {f[p] : p \in PoolsInUse}
    BY DEF OwnersInUse
  <2> HIDE DEF f
  <2> QED
    BY <1>6, <2>1, ImageFinite
<1>9. ASSUME NEW o \in Owners
      PROVE  /\ QuotaInUse(o) \in Nat
             /\ \A p \in PoolsInUse : OwnerOf(p) = o => QuotaOf(p) <= QuotaInUse(o)
  <2> DEFINE P == {q \in PoolsInUse : OwnerOf(q) = o}
             f == [p \in P |-> QuotaOf(p)]
             Q == {f[p] : p \in P}
  <2>1. IsFiniteSet(P)
    BY <1>6, FS_Subset
  <2>2. f = [p \in P |-> f[p]]
    OBVIOUS
  <2>3. IsFiniteSet(Q)
    <3> HIDE DEF f, P
    <3> QED
      BY <2>1, <2>2, ImageFinite
  <2>4. \A p \in Pools : QuotaOf(p) \in Nat
    BY FamilyFinite, 0 \in Nat
  <2>5. Q \subseteq Nat
    BY <1>3, <2>4
  <2>6. QuotaInUse(o) = Max({0} \cup Q)
    BY DEF QuotaInUse
  <2>7. \A p \in PoolsInUse : OwnerOf(p) = o => QuotaOf(p) \in Q
    <3> TAKE p \in PoolsInUse
    <3>1. OwnerOf(p) = o => p \in P /\ QuotaOf(p) = f[p]
      OBVIOUS
    <3> HIDE DEF P, f
    <3> QED
      BY <3>1
  <2> HIDE DEF Q
  <2>8. IsFiniteSet({0} \cup Q) /\ {0} \cup Q \in SUBSET Nat /\ {0} \cup Q # {}
    <3>1. IsFiniteSet({0})
      BY FS_Singleton
    <3>2. IsFiniteSet({0} \cup Q)
      BY <2>3, <3>1, FS_Union
    <3>3. {0} \cup Q \in SUBSET Nat /\ {0} \cup Q # {}
      BY <2>5
    <3> QED
      BY <3>2, <3>3
  <2>9. PICK S : S = {0} \cup Q
    OBVIOUS
  <2>10. Max(S) \in S /\ \A x \in S : x <= Max(S)
    BY <2>8, <2>9, Greatest
  <2>11. QuotaInUse(o) = Max(S)
    BY <2>6, <2>9
  <2>12. S \subseteq Nat /\ Q \subseteq S
    BY <2>8, <2>9
  <2> QED
    BY <2>7, <2>10, <2>11, <2>12
<1>10. \A p \in PoolsInUse : QuotaOf(p) <= QuotaInUse(OwnerOf(p))
  BY <1>3, <1>9 DEF Owners
<1> QED
  BY <1>3, <1>6, <1>7, <1>8, <1>9, <1>10

\* Where the quotas in use fit the limits, what stays within each owner's fits them too.
LEMMA Abundant ==
    ASSUME CaseInv, ~Scarce, NEW f, \A o \in OwnersInUse : f[o] \in Nat /\ f[o] <= QuotaInUse(o)
    PROVE  /\ SumFunctionOnSet(f, OwnersInUse) \in Nat
           /\ SumFunctionOnSet(f, OwnersInUse) <= Live /\ SumFunctionOnSet(f, OwnersInUse) <= Retained
<1> DEFINE g == [o \in OwnersInUse |-> QuotaInUse(o)]
<1>1. IsFiniteSet(OwnersInUse) /\ \A o \in OwnersInUse : g[o] \in Nat /\ g[o] = QuotaInUse(o)
  BY InUse
<1>2. ~(SumFunction(g) > Smaller(Live, Retained))
  BY DEF Scarce, OwnersInUse
<1>3. SumFunction(g) = SumFunctionOnSet(g, OwnersInUse)
  BY DEF SumFunction
<1> HIDE DEF g
<1>4. SumFunctionOnSet(g, OwnersInUse) \in Nat
  BY <1>1, SumStep
<1>5. SumFunctionOnSet(f, OwnersInUse) \in Nat
  BY <1>1, SumStep
<1>6. SumFunctionOnSet(f, OwnersInUse) <= SumFunctionOnSet(g, OwnersInUse)
  BY <1>1, SumAtMost
<1>7. Smaller(Live, Retained) \in Nat /\ Smaller(Live, Retained) <= Live /\ Smaller(Live, Retained) <= Retained
  BY QuotaAssumption DEF Smaller
<1>8. Live \in Nat /\ Retained \in Nat
  BY QuotaAssumption
<1> QED
  BY <1>2, <1>3, <1>4, <1>5, <1>6, <1>7, <1>8

\* No owner has more than the greatest quota it has in use.
LEMMA WithinQuota ==
    ASSUME CaseInv, QuotaKept, NEW o \in Owners
    PROVE  Load(o) \in Nat /\ Load(o) <= QuotaInUse(o)
<1> DEFINE q == QuotaInUse(o)
<1>1. q \in Nat /\ \A p \in PoolsInUse : OwnerOf(p) = o => QuotaOf(p) <= q
  BY InUse
<1> HIDE DEF q
<1>2. /\ Taken(o, q) \in Nat /\ Load(o) \in Nat
      /\ (\A p \in PoolsInUse : OwnerOf(p) = o => QuotaOf(p) <= q) => Load(o) = Taken(o, q)
  BY <1>1, TakenExact
<1>3. Taken(o, q) <= q
  BY <1>1 DEF QuotaKept
<1> QED
  BY <1>1, <1>2, <1>3 DEF q

\* All the application's work is some owner's.
LEMMA AllOwned ==
    ASSUME CaseInv
    PROVE  /\ Load(Application) \in Nat
           /\ Load(Application) <= SumFunctionOnSet([o \in OwnersInUse |-> Load(o)], OwnersInUse)
<1>0. Well /\ CreditRight
  BY DEF CaseInv, KInv, Well
<1>1. IsFiniteSet(Alive) /\ IsFiniteSet(CaseRequests) /\ Alive \subseteq 1..Len(payloads) /\ Countable
  BY <1>0, Numbers, CacheAssumption DEF Countable
<1>2. OwnersInUse \subseteq Owners /\ IsFiniteSet(OwnersInUse) /\ PoolsInUse \subseteq Pools
  BY InUse
<1> DEFINE F == OwnersInUse
           tF == [t \in Alive |-> SumFunctionOnSet([o \in F |-> Share(o, CreditOf(t), 3)], F)]
           rF == [r \in CaseRequests |-> ChargedIn(r, F)]
           tA == Tokens(Application)
           rA == Charges(Application)
<1>3. /\ SumFunctionOnSet([o \in F |-> Load(o)], F) = SumFunctionOnSet(tF, Alive) + SumFunctionOnSet(rF, CaseRequests)
      /\ \A t \in Alive : tF[t] \in Nat
      /\ \A r \in CaseRequests : rF[r] \in Nat
  <2> HIDE DEF F
  <2>1. IsFiniteSet(F)
    BY <1>2 DEF F
  <2> QED
    BY <2>1, Together
<1>4. Load(Application) = SumFunctionOnSet(tA, Alive) + SumFunctionOnSet(rA, CaseRequests)
  <2>1. Load(Application) = SumFunction(tA) + SumFunction(rA)
    BY <1>0 DEF CreditRight, Charged, Tokens, Charges
  <2>2. DOMAIN tA = Alive /\ DOMAIN rA = CaseRequests
    BY DEF Tokens, Charges
  <2> HIDE DEF tA, rA
  <2> QED
    BY <2>1, <2>2 DEF SumFunction
<1>5. \A t \in Alive : tA[t] \in Nat /\ tA[t] <= tF[t]
  <2> SUFFICES ASSUME NEW t \in Alive PROVE tA[t] \in Nat /\ tA[t] <= tF[t]
    OBVIOUS
  <2> DEFINE lease == CreditOf(t)
             n == 3
  <2>1. lease.pool = payloads[t].pool /\ lease.pool \in Pools /\ lease.bytes \in Nat /\ n \in 0..3 /\ n = 3
    <3>1. CaseTypes /\ t \in 1..Len(payloads)
      BY <1>0, <1>1 DEF Well
    <3>2. /\ CreditOf(t).pool = payloads[t].pool /\ CreditOf(t).bytes = payloads[t].size
          /\ payloads[t].pool \in Pools /\ payloads[t].size \in Sizes
      BY <3>1, CreditTypes
    <3>3. payloads[t].size \in Nat
      BY <3>2, CacheAssumption
    <3>4. lease.pool = payloads[t].pool /\ lease.pool \in Pools /\ lease.bytes \in Nat
      BY <3>2, <3>3
    <3>5. n \in 0..3 /\ n = 3
      OBVIOUS
    <3> HIDE DEF lease, n
    <3> QED
      BY <3>4, <3>5
  <2>2. OwnerOf(lease.pool) \in F
    <3>1. payloads[t].pool \in PoolsInUse
      BY DEF PoolsInUse
    <3> QED
      BY <2>1, <3>1 DEF OwnersInUse
  <2>3. tF[t] = SumFunctionOnSet([o \in F |-> Share(o, lease, n)], F) /\ tA[t] = Share(Application, lease, n)
    BY DEF Tokens
  <2>4. F \subseteq Owners /\ IsFiniteSet(F)
    BY <1>2
  <2> HIDE DEF lease, n, F, tF, tA
  <2>5. tF[t] = IF n >= 1 /\ OwnerOf(lease.pool) \in F THEN lease.bytes ELSE 0
    BY <2>1, <2>3, <2>4, OwnersShare
  <2>6. tA[t] = IF n >= 2 THEN lease.bytes ELSE 0
    BY <2>1, <2>3, Accounted
  <2> QED
    BY <2>1, <2>2, <2>5, <2>6
<1>6. \A r \in CaseRequests : rA[r] \in Nat /\ rA[r] <= rF[r]
  <2> SUFFICES ASSUME NEW r \in CaseRequests PROVE rA[r] \in Nat /\ rA[r] <= rF[r]
    OBVIOUS
  <2>1. /\ job[r].own # <<>> => job[r].own.pool \in Pools /\ job[r].own.bytes \in Nat
        /\ claim[r] # NoClaim => claim[r].pool \in Pools /\ claim[r].bytes \in Nat
        /\ claim[r].level \in 0..3
    BY <1>0, LeaseTypes
  <2>2. ASSUME NEW lease, lease.pool \in Pools, lease.bytes \in Nat, NEW n \in 0..3, OwnerOf(lease.pool) \in F
        PROVE  /\ Share(Application, lease, n) \in Nat
               /\ SumFunctionOnSet([o \in F |-> Share(o, lease, n)], F) \in Nat
               /\ Share(Application, lease, n) <= SumFunctionOnSet([o \in F |-> Share(o, lease, n)], F)
    <3>0. F \subseteq Owners /\ IsFiniteSet(F)
      BY <1>2
    <3> HIDE DEF F
    <3>1. SumFunctionOnSet([o \in F |-> Share(o, lease, n)], F)
            = IF n >= 1 /\ OwnerOf(lease.pool) \in F THEN lease.bytes ELSE 0
      BY <2>2, <3>0, OwnersShare
    <3>2. Share(Application, lease, n) = IF n >= 2 THEN lease.bytes ELSE 0
      BY <2>2, Accounted
    <3> QED
      BY <2>2, <3>1, <3>2
  <2>3. job[r].own # <<>> => OwnerOf(job[r].own.pool) \in F
    BY DEF PoolsInUse, OwnersInUse
  <2>4. claim[r] # NoClaim => OwnerOf(claim[r].pool) \in F
    <3>1. claim[r] # NoClaim => claim[r].pool # <<>>
      BY <2>1, Nothing
    <3> QED
      BY <3>1 DEF PoolsInUse, OwnersInUse
  <2> DEFINE own == IF job[r].own = <<>> THEN 0 ELSE Share(Application, job[r].own, 3)
             cla == IF claim[r] = NoClaim THEN 0 ELSE Share(Application, claim[r], claim[r].level)
             own2 == IF job[r].own = <<>> THEN 0
                     ELSE SumFunctionOnSet([a \in F |-> Share(a, job[r].own, 3)], F)
             cla2 == IF claim[r] = NoClaim THEN 0
                     ELSE SumFunctionOnSet([a \in F |-> Share(a, claim[r], claim[r].level)], F)
  <2>5. own \in Nat /\ own2 \in Nat /\ own <= own2
    <3>1. CASE job[r].own = <<>>
      BY <3>1
    <3>2. CASE job[r].own # <<>>
      <4> DEFINE lease == job[r].own
                 n == 3
      <4>1. lease.pool \in Pools /\ lease.bytes \in Nat /\ n \in 0..3 /\ OwnerOf(lease.pool) \in F
        BY <2>1, <2>3, <3>2
      <4>2. own = Share(Application, lease, n) /\ own2 = SumFunctionOnSet([a \in F |-> Share(a, lease, n)], F)
        BY <3>2
      <4> HIDE DEF lease, n, own, own2, F
      <4> QED
        BY <2>2, <4>1, <4>2
    <3> QED
      BY <3>1, <3>2
  <2>6. cla \in Nat /\ cla2 \in Nat /\ cla <= cla2
    <3>1. CASE claim[r] = NoClaim
      BY <3>1
    <3>2. CASE claim[r] # NoClaim
      <4> DEFINE lease == claim[r]
                 n == claim[r].level
      <4>1. lease.pool \in Pools /\ lease.bytes \in Nat /\ n \in 0..3 /\ OwnerOf(lease.pool) \in F
        BY <2>1, <2>4, <3>2
      <4>2. cla = Share(Application, lease, n) /\ cla2 = SumFunctionOnSet([a \in F |-> Share(a, lease, n)], F)
        BY <3>2
      <4> HIDE DEF lease, n, cla, cla2, F
      <4> QED
        BY <2>2, <4>1, <4>2
    <3> QED
      BY <3>1, <3>2
  <2>7. rA[r] = own + cla /\ rF[r] = own2 + cla2
    BY DEF Charges, ChargedBy, ChargedIn
  <2> HIDE DEF own, cla, own2, cla2, rA, rF
  <2> QED
    BY <2>5, <2>6, <2>7
<1> HIDE DEF tF, rF, tA, rA
<1>7. /\ SumFunctionOnSet(tA, Alive) <= SumFunctionOnSet(tF, Alive)
      /\ SumFunctionOnSet(rA, CaseRequests) <= SumFunctionOnSet(rF, CaseRequests)
  <2>1. \A t \in Alive : tA[t] \in Nat /\ tF[t] \in Nat /\ tA[t] <= tF[t]
    BY <1>3, <1>5
  <2>2. \A r \in CaseRequests : rA[r] \in Nat /\ rF[r] \in Nat /\ rA[r] <= rF[r]
    BY <1>3, <1>6
  <2>3. SumFunctionOnSet(tA, Alive) <= SumFunctionOnSet(tF, Alive)
    BY <1>1, <2>1, SumAtMost
  <2>4. SumFunctionOnSet(rA, CaseRequests) <= SumFunctionOnSet(rF, CaseRequests)
    BY <1>1, <2>2, SumAtMost
  <2> QED
    BY <2>3, <2>4
<1>8. /\ SumFunctionOnSet(tA, Alive) \in Nat /\ SumFunctionOnSet(rA, CaseRequests) \in Nat
      /\ SumFunctionOnSet(tF, Alive) \in Nat /\ SumFunctionOnSet(rF, CaseRequests) \in Nat
  <2>1. SumFunctionOnSet(tA, Alive) \in Nat
    BY <1>1, <1>5, SumStep
  <2>2. SumFunctionOnSet(rA, CaseRequests) \in Nat
    BY <1>1, <1>6, SumStep
  <2>3. SumFunctionOnSet(tF, Alive) \in Nat
    BY <1>1, <1>3, SumStep
  <2>4. SumFunctionOnSet(rF, CaseRequests) \in Nat
    BY <1>1, <1>3, SumStep
  <2> QED
    BY <2>1, <2>2, <2>3, <2>4
<1>9. PICK whole : whole = SumFunctionOnSet([o \in OwnersInUse |-> Load(o)], OwnersInUse)
  OBVIOUS
<1>10. whole = SumFunctionOnSet(tF, Alive) + SumFunctionOnSet(rF, CaseRequests)
  BY <1>3, <1>9
<1>11. Load(Application) \in Nat /\ Load(Application) <= whole
  BY <1>4, <1>7, <1>8, <1>10
<1> QED
  BY <1>9, <1>11

\* When an owner's counter would let a request in, so does the application's.
LEMMA RoomForOne ==
    ASSUME CaseInv, QuotaKept, ~Scarce, NEW p \in PoolsInUse, NEW n \in Nat,
           Load(OwnerOf(p)) + n <= QuotaOf(p)
    PROVE  Load(Application) + n <= Live
<1> DEFINE x == OwnerOf(p)
           f == [o \in OwnersInUse |-> Load(o)]
           g == [o \in OwnersInUse |-> IF o = x THEN Load(o) + n ELSE Load(o)]
<1>1. /\ x \in OwnersInUse /\ x \in Owners /\ QuotaOf(p) \in Nat /\ QuotaOf(p) <= QuotaInUse(x)
      /\ QuotaInUse(x) \in Nat /\ OwnersInUse \subseteq Owners /\ IsFiniteSet(OwnersInUse)
  <2>1. x \in OwnersInUse /\ p \in Pools
    BY InUse DEF OwnersInUse
  <2>2. x \in Owners
    BY <2>1 DEF Owners
  <2> HIDE DEF x
  <2>3. QuotaOf(p) \in Nat
    BY <2>1, <2>2, FamilyFinite, 0 \in Nat
  <2>4. QuotaOf(p) <= QuotaInUse(x)
    BY InUse DEF x
  <2> QED
    BY <2>1, <2>2, <2>3, <2>4, InUse
<1>2. \A o \in OwnersInUse : Load(o) \in Nat /\ Load(o) <= QuotaInUse(o) /\ QuotaInUse(o) \in Nat
  BY <1>1, WithinQuota, InUse
<1>3. Load(x) + n <= QuotaInUse(x)
  <2> HIDE DEF x
  <2>1. Load(x) + n <= QuotaOf(p) /\ Load(x) \in Nat
    BY <1>1, <1>2 DEF x
  <2> QED
    BY <1>1, <2>1
<1>4. \A o \in OwnersInUse : g[o] \in Nat /\ f[o] \in Nat /\ g[o] <= QuotaInUse(o)
  <2> HIDE DEF x
  <2> QED
    BY <1>2, <1>3
<1>5. \A o \in OwnersInUse \ {x} : g[o] = f[o]
  OBVIOUS
<1>6. g[x] = f[x] + n /\ f[x] \in Nat
  <2> HIDE DEF x
  <2> QED
    BY <1>1, <1>2
<1>7. PICK whole : whole = SumFunctionOnSet(f, OwnersInUse)
  OBVIOUS
<1>8. Load(Application) \in Nat /\ Load(Application) <= whole
  BY <1>7, AllOwned
<1> HIDE DEF f, g, x
<1>9. SumFunctionOnSet(g, OwnersInUse) \in Nat /\ SumFunctionOnSet(g, OwnersInUse) <= Live
  BY <1>4, Abundant
<1>10. SumFunctionOnSet(g, OwnersInUse) + f[x] = SumFunctionOnSet(f, OwnersInUse) + g[x]
  <2>1. SumFunctionOnSet(g, OwnersInUse) + (IF x \in OwnersInUse THEN f[x] ELSE 0)
          = SumFunctionOnSet(f, OwnersInUse) + (IF x \in OwnersInUse THEN g[x] ELSE 0)
    BY <1>1, <1>4, <1>5, SumMoves
  <2> QED
    BY <1>1, <2>1
<1>11. whole \in Nat
  BY <1>1, <1>4, <1>7, SumStep
<1> QED
  BY <1>6, <1>7, <1>8, <1>9, <1>10, <1>11, QuotaAssumption

\* A publication of another owner leaves the cache only where it is full or the quotas in use do
\* not fit: within its own quota the one that comes is its own business.
LEMMA StoreKeepsOthers ==
    ASSUME CaseInv, QuotaKept, ~Scarce, NEW r \in CaseRequests, Store(r), Cardinality(entries) < MaxEntries,
           NEW t \in entries \ entries'
    PROVE  payloads[t].owner = Mine(r)
<1>1. Well /\ CaseTypes /\ CreditRight /\ Proper(r) /\ Len(payloads) \in Nat /\ entries \subseteq 1..Len(payloads)
  BY DEF CaseInv, KInv, Well, CaseTypes
<1>2. PICK token, p, limit : token = Len(payloads') /\ p = job[r].own.pool /\ limit = Materialized(p)
  OBVIOUS
<1>3. /\ payloads' = Append(payloads, [owner |-> Mine(r), key |-> job[r].key, size |-> job[r].size, pool |-> p])
      /\ entries' = Fitted(token, limit) \cup {token}
      /\ stage[r] = "storing"
  BY <1>2 DEF Store
<1>4. /\ p \in Pools /\ OwnerOf(p) = Mine(r) /\ p \in PoolsInUse /\ job[r].size \in Nat
      /\ job[r].size <= limit
  <2>1. /\ job[r].pool \in Pools /\ OwnerOf(job[r].pool) = Mine(r) /\ job[r].own = Lease(job[r].pool, job[r].size)
        /\ job[r].size \in Sizes /\ job[r].size <= Materialized(job[r].pool)
    BY <1>1, <1>3 DEF Proper
  <2>2. job[r].own.pool = job[r].pool
    BY <2>1 DEF Lease
  <2>3. job[r].pool \in PoolsInUse
    BY <2>1, Nothing DEF PoolsInUse
  <2> QED
    BY <1>2, <2>1, <2>2, <2>3, CacheAssumption
<1>5. /\ token = Len(payloads) + 1 /\ payloads'[token].owner = Mine(r) /\ payloads'[token].size = job[r].size
      /\ \A s \in 1..Len(payloads) : payloads'[s] = payloads[s]
  <2>1. payloads \in Seq(Payloads)
    BY <1>1 DEF CaseTypes
  <2> QED
    BY <1>2, <1>3, <2>1
<1> DEFINE owner == payloads'[token].owner
           others == {s \in entries : payloads[s].owner = owner => payloads[s].key # payloads'[token].key}
           Own(n) == {s \in others : payloads[s].owner = owner /\ s >= n}
           room == {n \in 1..token : SumOf(Own(n) \cup {token}) <= limit}
           first == Min(room)
           fit == {s \in others : payloads[s].owner = owner => s >= first}
           Newest(n) == {s \in fit : s >= n}
           able == {n \in 1..token : /\ SumOf(Newest(n) \cup {token}) <= Retained
                                     /\ Cardinality(Newest(n)) < MaxEntries}
           oldest == Min(able)
<1>6. Fitted(token, limit) = Newest(oldest)
  BY DEF Fitted
<1>7. SUFFICES ASSUME payloads[t].owner # Mine(r) PROVE FALSE
  OBVIOUS
<1>8. t \in fit /\ t \notin Newest(oldest) /\ t >= 1
  <2>1. t \in others
    BY <1>5, <1>7
  <2>2. t \in fit
    BY <1>5, <1>7, <2>1
  <2>3. t \notin Newest(oldest)
    BY <1>3, <1>6
  <2> QED
    BY <1>1, <2>2, <2>3
<1>9. fit \subseteq entries /\ IsFiniteSet(entries) /\ IsFiniteSet(fit) /\ token \notin entries
  <2>1. fit \subseteq entries
    OBVIOUS
  <2>2. IsFiniteSet(entries)
    <3>1. IsFiniteSet(1..Len(payloads))
      BY <1>1, FS_Interval
    <3> QED
      BY <1>1, <3>1, FS_Subset
  <2>3. token \notin entries
    BY <1>1, <1>5
  <2> HIDE DEF fit
  <2> QED
    BY <2>1, <2>2, <2>3, FS_Subset
\* What the owner keeps of its own fits.
<1>10. first \in room
  <2>1. token \in room
    <3>1. Own(token) \cup {token} = {token}
      <4>1. \A s \in entries : ~(s >= token)
        BY <1>1, <1>5
      <4>2. Own(token) = {}
        BY <4>1
      <4> QED
        BY <4>2
    <3>2. SumOf({token}) = job[r].size
      <4> DEFINE w == [s \in {token} |-> payloads'[s].size]
      <4>1. IsFiniteSet({token}) /\ w[token] = job[r].size /\ token \in {token}
        BY <1>5, FS_Singleton
      <4>2. \A s \in {token} \ {token} : w[s] = 0
        OBVIOUS
      <4>3. DOMAIN w = {token}
        OBVIOUS
      <4>4. SumOf({token}) = SumFunction(w)
        BY DEF SumOf
      <4> HIDE DEF w
      <4>5. SumFunctionOnSet(w, {token}) = w[token]
        BY <1>4, <4>1, <4>2, SumOne
      <4> QED
        BY <4>1, <4>3, <4>4, <4>5 DEF SumFunction
    <3>3. token \in 1..token
      BY <1>1, <1>5
    <3> HIDE DEF Own
    <3> QED
      BY <1>4, <3>1, <3>2, <3>3
  <2>2. room \in SUBSET Nat
    OBVIOUS
  <2> HIDE DEF room
  <2> QED
    BY <2>1, <2>2, Least
<1> DEFINE K == fit \cup {token}
           w == [s \in K |-> payloads'[s].size]
           m == [o \in OwnersInUse |-> [s \in K |-> IF payloads'[s].owner = o THEN payloads'[s].size ELSE 0]]
           k == [s \in K |-> [o \in OwnersInUse |-> IF payloads'[s].owner = o THEN payloads'[s].size ELSE 0]]
           f == Rows(m, OwnersInUse, K)
<1>11. /\ IsFiniteSet(K) /\ IsFiniteSet(OwnersInUse) /\ OwnersInUse \subseteq Owners
       /\ \A s \in K : payloads'[s].size \in Nat /\ payloads'[s].owner \in OwnersInUse
       /\ \A s \in fit : /\ s \in Alive /\ payloads'[s] = payloads[s] /\ s \in 1..Len(payloads)
                         /\ payloads[s].owner = OwnerOf(payloads[s].pool)
                         /\ CreditOf(s).pool = payloads[s].pool /\ CreditOf(s).bytes = payloads[s].size
                         /\ payloads[s].pool \in Pools /\ payloads[s].size \in Nat
  <2>1. IsFiniteSet(OwnersInUse) /\ OwnersInUse \subseteq Owners
    BY InUse
  <2> HIDE DEF fit
  <2>2. IsFiniteSet(K)
    BY <1>9, FS_AddElement
  <2>3. ASSUME NEW s \in fit
        PROVE  /\ s \in Alive /\ payloads'[s] = payloads[s] /\ s \in 1..Len(payloads)
               /\ payloads[s].owner = OwnerOf(payloads[s].pool)
               /\ CreditOf(s).pool = payloads[s].pool /\ CreditOf(s).bytes = payloads[s].size
               /\ payloads[s].pool \in Pools /\ payloads[s].size \in Nat
    <3>1. s \in 1..Len(payloads) /\ s \in Alive
      BY <1>1, <1>9 DEF Alive
    <3>2. /\ CreditOf(s).pool = payloads[s].pool /\ CreditOf(s).bytes = payloads[s].size
          /\ payloads[s].pool \in Pools /\ payloads[s].size \in Sizes
      BY <1>1, <3>1, CreditTypes
    <3> QED
      BY <1>1, <1>5, <3>1, <3>2, CacheAssumption DEF CaseTypes
  <2>4. ASSUME NEW s \in K PROVE payloads'[s].size \in Nat /\ payloads'[s].owner \in OwnersInUse
    <3>1. CASE s = token
      BY <1>4, <1>5, <3>1 DEF OwnersInUse
    <3>2. CASE s \in fit
      <4>1. payloads[s].pool \in PoolsInUse
        BY <2>3, <3>2 DEF PoolsInUse
      <4> QED
        BY <2>3, <3>2, <4>1 DEF OwnersInUse
    <3> QED
      BY <3>1, <3>2
  <2> QED
    BY <2>1, <2>2, <2>3, <2>4
<1> HIDE DEF first
<1>12. ASSUME NEW o \in OwnersInUse, o # Mine(r) PROVE f[o] \in Nat /\ f[o] <= QuotaInUse(o)
  <2> DEFINE P == {s \in fit : payloads[s].owner = o}
             tO == Tokens(o)
  <2>1. P \in SUBSET K /\ P \in SUBSET Alive /\ o \in Owners /\ IsFiniteSet(Alive)
    BY <1>1, <1>11, Numbers DEF Countable
  <2>2. \A s \in P : tO[s] = w[s]
    <3> TAKE s \in P
    <3>1. s \in fit /\ payloads[s].owner = o /\ s \in K
      OBVIOUS
    <3>2. Share(o, CreditOf(s), 3) = payloads[s].size
      <4> DEFINE lease == CreditOf(s)
                 n == 3
      <4>1. lease.pool \in Pools /\ lease.bytes \in Nat /\ n \in 0..3 /\ n >= 1 /\ OwnerOf(lease.pool) = o
            /\ lease.bytes = payloads[s].size
        BY <1>11, <3>1
      <4> HIDE DEF lease, n
      <4>2. Share(o, lease, n) = IF n >= 1 /\ OwnerOf(lease.pool) = o THEN lease.bytes ELSE 0
        BY <2>1, <4>1, Accounted
      <4>3. Share(o, lease, n) = payloads[s].size
        BY <4>1, <4>2
      <4> QED
        BY <4>3 DEF lease, n
    <3>3. tO[s] = Share(o, CreditOf(s), 3)
      BY <2>1 DEF Tokens
    <3>4. w[s] = payloads[s].size
      BY <1>11, <3>1
    <3> QED
      BY <3>2, <3>3, <3>4
  <2>3. \A s \in Alive : tO[s] \in Nat
    BY <1>1, Numbers DEF Countable, Tokens
  <2>4. \A s \in K : w[s] \in Nat /\ m[o][s] = IF s \in P THEN w[s] ELSE 0
    <3> TAKE s \in K
    <3>1. w[s] = payloads'[s].size /\ w[s] \in Nat
      BY <1>11
    <3>2. m[o][s] = IF payloads'[s].owner = o THEN w[s] ELSE 0
      OBVIOUS
    <3>3. payloads'[s].owner = o <=> s \in P
      <4>1. CASE s = token
        BY <1>5, <1>9, <1>12, <4>1
      <4>2. CASE s \in fit
        BY <1>11, <4>2
      <4> QED
        BY <4>1, <4>2
    <3> HIDE DEF w, m, P
    <3> QED
      BY <3>1, <3>2, <3>3
  <2>5. f[o] = SumFunctionOnSet(m[o], K)
    BY DEF Rows
  <2> HIDE DEF P, K, w, m, f, tO
  <2>6. SumFunctionOnSet(m[o], K) = SumFunctionOnSet(w, P)
    <3> DEFINE row == m[o]
    <3>1. \A s \in K : w[s] \in Nat /\ row[s] = IF s \in P THEN w[s] ELSE 0
      BY <2>4
    <3> HIDE DEF row
    <3>2. SumFunctionOnSet(row, K) = SumFunctionOnSet(w, P)
      BY <1>11, <2>1, <3>1, SumPart
    <3> QED
      BY <3>2 DEF row
  <2>7. IsFiniteSet(P)
    BY <2>1, FS_Subset
  <2>8. SumFunctionOnSet(tO, P) = SumFunctionOnSet(w, P) /\ SumFunctionOnSet(w, P) \in Nat
    <3>1. \A s \in P : w[s] \in Nat /\ tO[s] = w[s]
      BY <2>1, <2>2, <2>4
    <3>2. SumFunctionOnSet(w, P) \in Nat
      BY <2>7, <3>1, SumStep
    <3>3. SumFunctionOnSet(w, P) = SumFunctionOnSet(tO, P)
      BY <2>7, <3>1, SumAgrees
    <3> QED
      BY <3>2, <3>3
  <2>9. SumFunctionOnSet(tO, P) <= SumFunctionOnSet(tO, Alive)
    BY <2>1, <2>3, SumWithin
  <2>10. SumFunctionOnSet(tO, Alive) \in Nat /\ SumFunctionOnSet(tO, Alive) <= Load(o)
    <3> DEFINE c == Charges(o)
    <3>1. Load(o) = SumFunction(Tokens(o)) + SumFunction(c)
      BY <1>1 DEF CreditRight, Charged, Tokens, Charges
    <3>2. DOMAIN Tokens(o) = Alive /\ DOMAIN c = CaseRequests /\ \A s \in CaseRequests : c[s] \in Nat
      BY <1>1, Numbers DEF Tokens, Charges, Countable
    <3> HIDE DEF c
    <3>3. SumFunctionOnSet(c, CaseRequests) \in Nat
      BY <3>2, CacheAssumption, SumStep
    <3>4. SumFunctionOnSet(tO, Alive) \in Nat
      BY <2>1, <2>3, SumStep
    <3>5. Load(o) = SumFunctionOnSet(tO, Alive) + SumFunctionOnSet(c, CaseRequests)
      BY <3>1, <3>2 DEF SumFunction, tO
    <3> QED
      BY <3>3, <3>4, <3>5
  <2>11. Load(o) \in Nat /\ Load(o) <= QuotaInUse(o) /\ QuotaInUse(o) \in Nat
    BY <2>1, WithinQuota, InUse
  <2> QED
    BY <2>5, <2>6, <2>8, <2>9, <2>10, <2>11
<1>13. f[Mine(r)] \in Nat /\ f[Mine(r)] <= QuotaInUse(Mine(r))
  <2> DEFINE P == Own(first) \cup {token}
             v == [s \in P |-> payloads'[s].size]
  <2>1. Mine(r) \in OwnersInUse /\ P \in SUBSET K
    BY <1>4, <1>5 DEF OwnersInUse
  <2>2. \A s \in K : w[s] \in Nat /\ m[Mine(r)][s] = IF s \in P THEN w[s] ELSE 0
    <3> TAKE s \in K
    <3>1. w[s] = payloads'[s].size /\ w[s] \in Nat
      BY <1>11
    <3>2. m[Mine(r)][s] = IF payloads'[s].owner = Mine(r) THEN w[s] ELSE 0
      BY <2>1
    <3>3. payloads'[s].owner = Mine(r) <=> s \in P
      <4>1. CASE s = token
        BY <1>5, <4>1
      <4>2. CASE s \in fit
        BY <1>5, <1>9, <1>11, <4>2
      <4> QED
        BY <4>1, <4>2
    <3> HIDE DEF w, m, P
    <3> QED
      BY <3>1, <3>2, <3>3
  <2>3. f[Mine(r)] = SumFunctionOnSet(m[Mine(r)], K)
    BY <2>1 DEF Rows
  <2>4. SumOf(P) <= limit
    BY <1>10
  <2>5. SumOf(P) = SumFunctionOnSet(v, P)
    BY DEF SumOf, SumFunction
  <2>6. \A s \in P : w[s] = v[s]
    BY <2>1
  <2> HIDE DEF P, K, w, m, f, v
  <2>7. SumFunctionOnSet(m[Mine(r)], K) = SumFunctionOnSet(w, P)
    <3> DEFINE row == m[Mine(r)]
    <3>1. \A s \in K : w[s] \in Nat /\ row[s] = IF s \in P THEN w[s] ELSE 0
      BY <2>2
    <3> HIDE DEF row
    <3>2. SumFunctionOnSet(row, K) = SumFunctionOnSet(w, P)
      BY <1>11, <2>1, <3>1, SumPart
    <3> QED
      BY <3>2 DEF row
  <2>8. IsFiniteSet(P)
    BY <1>11, <2>1, FS_Subset
  <2>9. \A s \in P : w[s] \in Nat /\ v[s] = w[s]
    BY <2>1, <2>2, <2>6
  <2>10. SumFunctionOnSet(w, P) = SumFunctionOnSet(v, P) /\ SumFunctionOnSet(w, P) \in Nat
    <3>1. SumFunctionOnSet(w, P) = SumFunctionOnSet(v, P)
      BY <2>8, <2>9, SumAgrees
    <3>2. SumFunctionOnSet(w, P) \in Nat
      BY <2>8, <2>9, SumStep
    <3> QED
      BY <3>1, <3>2
  <2>11. limit \in Nat /\ limit <= QuotaInUse(Mine(r)) /\ QuotaInUse(Mine(r)) \in Nat
    <3>1. Mine(r) \in Owners
      BY <1>11, <2>1
    <3>2. QuotaOf(p) \in Nat
      BY <1>4, <3>1, FamilyFinite, 0 \in Nat
    <3>3. QuotaOf(p) <= QuotaInUse(Mine(r)) /\ QuotaInUse(Mine(r)) \in Nat
      BY <1>4, <3>1, InUse
    <3> QED
      BY <1>2, <3>2, <3>3, QuotaAssumption DEF Materialized, Smaller
  <2> QED
    BY <2>3, <2>4, <2>5, <2>7, <2>10, <2>11
<1>14. SumFunctionOnSet(f, OwnersInUse) \in Nat /\ SumFunctionOnSet(f, OwnersInUse) <= Retained
  <2>1. \A o \in OwnersInUse : f[o] \in Nat /\ f[o] <= QuotaInUse(o)
    BY <1>12, <1>13
  <2> HIDE DEF f
  <2> QED
    BY <2>1, Abundant
\* Owner by owner or one by one, the sum is the same.
<1>15. SumFunctionOnSet(w, K) = SumFunctionOnSet(f, OwnersInUse)
  <2> DEFINE g == Rows(k, K, OwnersInUse)
  <2>1. \A s \in K : g[s] = w[s] /\ w[s] \in Nat
    <3> TAKE s \in K
    <3> DEFINE row == k[s]
               x == payloads'[s].owner
    <3>1. x \in OwnersInUse /\ w[s] = payloads'[s].size /\ w[s] \in Nat /\ row[x] = w[s]
          /\ \A o \in OwnersInUse \ {x} : row[o] = 0
      BY <1>11
    <3>2. g[s] = SumFunctionOnSet(row, OwnersInUse)
      BY DEF Rows
    <3> HIDE DEF row, x, g, w
    <3>3. SumFunctionOnSet(row, OwnersInUse) = row[x]
      BY <1>11, <3>1, SumOne
    <3> QED
      BY <3>1, <3>2, <3>3
  <2>2. \A o \in OwnersInUse : \A s \in K : m[o][s] \in Nat /\ k[s][o] = m[o][s]
    BY <1>11
  <2> HIDE DEF w, m, k, K
  <2>3. SumFunctionOnSet(f, OwnersInUse) = SumFunctionOnSet(g, K)
    BY <1>11, <2>2, SumSwap
  <2> HIDE DEF g
  <2>4. SumFunctionOnSet(w, K) = SumFunctionOnSet(g, K)
    BY <1>11, <2>1, SumAgrees
  <2> QED
    BY <2>3, <2>4
<1>16. Newest(1) = fit
  <2>1. \A s \in fit : s >= 1
    BY <1>1, <1>9
  <2> HIDE DEF fit
  <2> QED
    BY <2>1
<1>17. 1 \in able
  <2>1. SumOf(K) = SumFunctionOnSet(w, K)
    BY DEF SumOf, SumFunction
  <2> HIDE DEF K, w, f
  <2>2. SumOf(K) <= Retained
    BY <1>14, <1>15, <2>1
  <2>3. SumOf(Newest(1) \cup {token}) <= Retained
    BY <1>16, <2>2 DEF K
  <2> HIDE DEF Newest, fit
  <2>4. Cardinality(Newest(1)) < MaxEntries
    <3>1. Cardinality(fit) <= Cardinality(entries)
      BY <1>9, FS_Subset
    <3>2. Cardinality(fit) \in Nat /\ Cardinality(entries) \in Nat
      BY <1>9, FS_CardinalityType
    <3> QED
      BY <1>16, <3>1, <3>2, CacheAssumption
  <2>5. 1 \in 1..token
    BY <1>1, <1>5
  <2> QED
    BY <2>3, <2>4, <2>5
<1>18. oldest \in able /\ oldest <= 1
  <2>1. able \in SUBSET Nat
    OBVIOUS
  <2> HIDE DEF able
  <2> QED
    BY <1>17, <2>1, Least
<1>19. oldest = 1
  <2>1. oldest \in 1..token
    BY <1>18
  <2> HIDE DEF oldest
  <2> QED
    BY <1>1, <1>5, <1>18, <2>1
<1> HIDE DEF Newest, fit, oldest
<1> QED
  BY <1>8, <1>16, <1>19

-----------------------------------------------------------------------------
\* A request moves alone, comes to the application's pressure by finding it, and takes entries
\* from the cache by evicting one or by publishing.
LEMMA Places ==
    ASSUME CaseInv, NEW r \in CaseRequests, CaseArrives(r) \/ CaseStep(r)
    PROVE  /\ \A q \in CaseRequests \ {r} : stage'[q] = stage[q]
           /\ stage'[r] = "aggregate" /\ stage[r] # "aggregate" => PressesRoot(r)
           /\ entries' = entries \/ Evict(r) \/ Store(r)
<1>1. stage \in [CaseRequests -> Stages]
  BY DEF CaseInv, KInv, CaseTypes
<1> DEFINE goal == /\ \A q \in CaseRequests \ {r} : stage'[q] = stage[q]
                   /\ stage'[r] = "aggregate" /\ stage[r] # "aggregate" => PressesRoot(r)
                   /\ entries' = entries \/ Evict(r) \/ Store(r)
<1>2. ASSUME NEW s \in Stages \ {"aggregate"}, stage' = [stage EXCEPT ![r] = s],
             entries' = entries \/ Evict(r) \/ Store(r)
      PROVE  goal
  BY <1>1, <1>2
<1>3. ASSUME stage' = stage, entries' = entries PROVE goal
  BY <1>3
<1>4. Stages \ {"aggregate"} =
          {"idle", "opening", "sizing", "reserving", "storing", "repinning", "resolving", "checking", "taking",
           "captured", "confirming", "agreeing", "working", "pressed", "owner", "again", "done"}
  BY DEF Stages
<1> SUFFICES goal
  OBVIOUS
<1> HIDE DEF goal
<1>5. CASE CaseArrives(r)
  <2>1. PICK s \in Stages \ {"aggregate"} : stage' = [stage EXCEPT ![r] = s]
    BY <1>4, <1>5 DEF CaseArrives, Sync, PinCase, Moves
  <2> QED
    BY <1>2, <1>5, <2>1 DEF CaseArrives, Sync, PinCase, Quietly
<1>6. CASE Open(r) \/ RepinCase(r) \/ Resolve(r) \/ CheckToken(r)
  <2>1. PICK s \in Stages \ {"aggregate"} : stage' = [stage EXCEPT ![r] = s]
    BY <1>4, <1>6 DEF Open, RepinCase, Resolve, CheckToken, Moves
  <2> QED
    BY <1>2, <1>6, <2>1 DEF Open, RepinCase, Resolve, CheckToken, Quietly
<1>7. CASE TakePayload(r) \/ ConfirmToken(r) \/ ConfirmCase(r) \/ Copy(r)
  <2>1. PICK s \in Stages \ {"aggregate"} : stage' = [stage EXCEPT ![r] = s]
    BY <1>4, <1>7 DEF TakePayload, ConfirmToken, ConfirmCase, Copy, Moves
  <2> QED
    BY <1>2, <1>7, <2>1 DEF TakePayload, ConfirmToken, ConfirmCase, Copy, Quietly
<1>8. CASE Size(r) \/ Again(r)
  <2>1. PICK s \in Stages \ {"aggregate"} : stage' = [stage EXCEPT ![r] = s]
    BY <1>4, <1>8 DEF Size, Again, Moves
  <2> QED
    BY <1>2, <1>8, <2>1 DEF Size, Again, Reserve
<1>9. CASE Granted(r) \/ PressesOwner(r)
  <2>1. PICK s \in Stages \ {"aggregate"} : stage' = [stage EXCEPT ![r] = s]
    BY <1>4, <1>9 DEF Granted, PressesOwner
  <2> QED
    BY <1>2, <1>9, <2>1 DEF Granted, PressesOwner
<1>10. CASE AnswersCase(r) \/ RefusesCase(r) \/ Trim(r)
  <2>1. PICK s \in Stages \ {"aggregate"} : stage' = [stage EXCEPT ![r] = s]
    BY <1>4, <1>10 DEF AnswersCase, RefusesCase, Trim, Closes
  <2> QED
    BY <1>2, <1>10, <2>1 DEF AnswersCase, RefusesCase, Trim
<1>11. CASE Evict(r) \/ Store(r)
  <2>1. PICK s \in Stages \ {"aggregate"} : stage' = [stage EXCEPT ![r] = s]
    BY <1>4, <1>11 DEF Evict, Store
  <2> QED
    BY <1>2, <1>11, <2>1
<1>12. CASE PressesRoot(r)
  <2>1. entries' = entries /\ \A q \in CaseRequests \ {r} : stage'[q] = stage[q]
    BY <1>1, <1>12 DEF PressesRoot, Closes
  <2> QED
    BY <1>12, <2>1 DEF goal
<1>13. CASE Add(r) \/ GiveBack(r) \/ DropOwn(r) \/ DropPayload(r)
  BY <1>3, <1>13 DEF Add, GiveBack, DropOwn, DropPayload, GivesUp
<1> QED
  BY <1>5, <1>6, <1>7, <1>8, <1>9, <1>10, <1>11, <1>12, <1>13 DEF CaseStep

\* Every step keeps each owner's pools within their quotas.
LEMMA StepKeepsQuota ==
    ASSUME CaseInv, CaseInv', QuotaKept, NEW r \in CaseRequests, CaseArrives(r) \/ CaseStep(r)
    PROVE  QuotaKept'
<1>1. CASE Add(r)
  BY <1>1, AddKeepsQuota
<1>2. CASE GiveBack(r)
  BY <1>2, GiveBackKeepsQuota
<1>3. CASE ~Add(r) /\ ~GiveBack(r)
  <2>1. /\ used' = used /\ \A s \in CaseRequests \ {r} : claim'[s] = claim[s]
        /\ claim'[r] = claim[r] \/ (claim[r].level \in {0, 3} /\ claim'[r].level \in {0, 3})
    BY <1>3, OtherClaims
  <2> QED
    BY <2>1, OthersKeepQuota
<1> QED
  BY <1>1, <1>2, <1>3

\* So does a step of the source or of the interpretations.
LEMMA RestKeepsQuota == ASSUME QuotaKept, UNCHANGED caseWork PROVE QuotaKept'
<1>1. used' = used /\ claim' = claim
  BY DEF caseWork, credit
<1> QED
  BY <1>1 DEF QuotaKept, Taken, InHand, Load, Family

\* What a request's step owes to the others.
LEMMA StepKeepsOthers ==
    ASSUME CaseInv, QuotaKept, NEW s \in CaseRequests, CaseArrives(s) \/ CaseStep(s), NEW r \in CaseRequests
    PROVE  /\ stage'[r] = "aggregate" /\ stage[r] # "aggregate" /\ ~Scarce =>
                  ~Fits(Mine(r), job[r].size, QuotaOf(job[r].pool))
           /\ stage'[r] # stage[r] =>
                  \A t \in entries \ entries' :
                      \/ payloads[t].owner = Mine(r)
                      \/ IF stage[r] = "storing" THEN Cardinality(entries) >= MaxEntries \/ Scarce
                         ELSE stage[r] = "aggregate"
<1>1. CASE stage'[r] = stage[r]
  BY <1>1
<1>2. CASE stage'[r] # stage[r]
  <2>1. s = r
    BY <1>2, Places
  <2>2. /\ stage'[r] = "aggregate" /\ stage[r] # "aggregate" => PressesRoot(r)
        /\ entries' = entries \/ Evict(r) \/ Store(r)
    BY <2>1, Places
  <2>3. Proper(r)
    BY DEF CaseInv, KInv
  <2>4. ASSUME PressesRoot(r), stage'[r] = "aggregate", ~Scarce
        PROVE  ~Fits(Mine(r), job[r].size, QuotaOf(job[r].pool))
    <3>1. stage \in [CaseRequests -> Stages] /\ stage[r] = "pressed"
      BY <2>4 DEF CaseInv, KInv, CaseTypes, PressesRoot
    <3>2. ~Fits(Application, job[r].size, Live)
      BY <2>4, <3>1 DEF PressesRoot, Closes
    <3>3. job[r].pool \in Pools /\ OwnerOf(job[r].pool) = Mine(r) /\ job[r].size \in Nat
      BY <2>3, <3>1, CacheAssumption DEF Proper, Queued
    <3>4. job[r].pool \in PoolsInUse
      BY <3>3, Nothing DEF PoolsInUse
    <3> DEFINE p == job[r].pool
               n == job[r].size
    <3>5. p \in PoolsInUse /\ n \in Nat /\ OwnerOf(p) = Mine(r)
      BY <3>3, <3>4
    <3> HIDE DEF p, n
    <3>6. Load(OwnerOf(p)) + n <= QuotaOf(p) => Load(Application) + n <= Live
      BY <2>4, <3>5, RoomForOne
    <3> QED
      BY <3>2, <3>5, <3>6 DEF Fits, p, n
  <2>5. ASSUME NEW t \in entries \ entries', Evict(r) PROVE payloads[t].owner = Mine(r) \/ stage[r] = "aggregate"
    <3> DEFINE E == Evictable(r)
    <3>1. E # {} /\ entries' = entries \ {Min(E)}
      BY <2>5 DEF Evict
    <3>2. E \in SUBSET Nat
      BY DEF CaseInv, KInv, CaseTypes, Evictable
    <3>3. Min(E) \in E
      <4> HIDE DEF E
      <4> QED
        BY <3>1, <3>2, Least
    <3>4. t = Min(E)
      BY <3>1
    <3> QED
      BY <3>3, <3>4 DEF Evictable, Relieves
  <2>6. ASSUME NEW t \in entries \ entries', Store(r), ~(Cardinality(entries) >= MaxEntries), ~Scarce
        PROVE  payloads[t].owner = Mine(r)
    <3>1. IsFiniteSet(entries)
      <4>1. entries \subseteq 1..Len(payloads) /\ Len(payloads) \in Nat
        BY DEF CaseInv, KInv, CaseTypes
      <4>2. IsFiniteSet(1..Len(payloads))
        BY <4>1, FS_Interval
      <4> QED
        BY <4>1, <4>2, FS_Subset
    <3>2. Cardinality(entries) \in Nat
      BY <3>1, FS_CardinalityType
    <3>3. Cardinality(entries) < MaxEntries
      BY <2>6, <3>2, CacheAssumption
    <3> QED
      BY <2>6, <3>3, StoreKeepsOthers
  <2>7. Evict(r) => stage[r] # "storing"
    BY DEF Evict, Under
  <2>8. Store(r) => stage[r] = "storing"
    BY DEF Store
  <2>9. stage'[r] = "aggregate" /\ stage[r] # "aggregate" /\ ~Scarce => ~Fits(Mine(r), job[r].size, QuotaOf(job[r].pool))
    BY <2>2, <2>4
  <2>10. ASSUME NEW t \in entries \ entries'
         PROVE  \/ payloads[t].owner = Mine(r)
                \/ IF stage[r] = "storing" THEN Cardinality(entries) >= MaxEntries \/ Scarce
                   ELSE stage[r] = "aggregate"
    <3>1. CASE Evict(r)
      BY <2>5, <2>7, <3>1
    <3>2. CASE Store(r)
      BY <2>6, <2>8, <3>2
    <3> QED
      BY <2>2, <2>10, <3>1, <3>2
  <2> QED
    BY <2>9, <2>10
<1> QED
  BY <1>1, <1>2

-----------------------------------------------------------------------------
(* The theorems.                                                           *)

\* The publications only read the Case database, so that everything proved of the source
\* and of the compiled interpretations holds of this specification too.
THEOREM CaseImplementsCompiled == CaseSpec => CompiledSpec
<1>1. CaseInit => CompiledInit
  BY DEF CaseInit
<1>2. [CaseNext]_caseVars => [CompiledNext]_compiledVars
  BY DEF CaseNext, caseVars
<1> QED
  BY <1>1, <1>2, PTL DEF CaseSpec, CompiledSpec

\* The invariant of the cache and of its credit holds in every state.
THEOREM CaseInvariantHolds == CaseSpec => []CaseInv
<1>1. CaseInv /\ IInv /\ [CaseNext]_caseVars => CaseInv'
  <2> SUFFICES ASSUME CaseInv, IInv, [CaseNext]_caseVars PROVE CaseInv'
    OBVIOUS
  <2>1. CASE UNCHANGED caseWork
    BY <2>1, CaseRests
  <2>2. ASSUME NEW r \in CaseRequests, CaseArrives(r) \/ CaseStep(r) PROVE CaseInv'
    BY <2>2, CaseStepKeeps
  <2> QED
    BY <2>1, <2>2 DEF CaseNext, caseVars
<1> QED
  BY <1>1, CaseBegins, CaseImplementsCompiled, CompiledInvariantHolds, PTL DEF CaseSpec

\* No publication, request or counter leaves its type, the cache never holds more than its
\* limits or two publications under a key, and the application's work stays within its own.
THEOREM CaseAlwaysTyped == CaseSpec => []CaseTypeOK
<1>1. CaseInv /\ TypeOK => CaseTypeOK
  <2> SUFFICES ASSUME CaseInv, TypeOK PROVE CaseTypeOK
    OBVIOUS
  <2>1. CaseTypes /\ Cached /\ Load(Application) <= Live
    BY DEF CaseInv, KInv
  <2>2. DOMAIN payloads = 1..Len(payloads)
    BY <2>1 DEF CaseTypes
  <2>3. \A t \in 1..Len(payloads) : /\ payloads[t].pool \in Pools /\ payloads[t].size \in Sizes
                                    /\ payloads[t].owner = OwnerOf(payloads[t].pool)
    BY <2>1, CreditTypes DEF CaseTypes
  <2>4. \A r \in CaseRequests : claim[r].level \in 0..3 /\ (job[r].own # <<>> => job[r].own.bytes \in Sizes)
    <3> TAKE r \in CaseRequests
    <3>1. claim[r] \in Claims /\ job[r] \in Jobs
      BY <2>1 DEF CaseTypes
    <3> QED
      BY <3>1 DEF Claims, Jobs, Leases
  <2> QED
    BY <2>1, <2>2, <2>3, <2>4 DEF CaseTypeOK, CaseTypes, Cached
<1> QED
  BY <1>1, CaseInvariantHolds, CaseImplementsCompiled, CompiledImplementsSource, SourceTypeCorrect, PTL

\* Every counter of credit is exactly the sum of what is alive and charged to it, in the
\* middle of a reservation, of its refusal and of what is being given back too.
THEOREM CreditAlwaysExact == CaseSpec => []CreditExact
<1>1. CaseInv => CreditExact
  BY DEF CaseInv, CreditRight, CreditExact
<1> QED
  BY <1>1, CaseInvariantHolds, PTL

\* A query over a Case's evidence answers from the publication it was asked about.
THEOREM PinnedAlwaysAnswered == CaseSpec => []PinnedAnswered
<1>1. CaseInv => PinnedAnswered
  BY DEF CaseInv, KInv, CaseTypes, Answers, PinnedAnswered
<1> QED
  BY <1>1, CaseInvariantHolds, PTL

\* Whatever quotas an owner's pools have, those of at most q never have more than q, with what
\* a reservation has charged to the owner and not yet to its pool.
THEOREM QuotaAlwaysKept == CaseSpec => []QuotaKept
<1>1. CaseInv /\ CaseInv' /\ QuotaKept /\ [CaseNext]_caseVars => QuotaKept'
  <2> SUFFICES ASSUME CaseInv, CaseInv', QuotaKept, [CaseNext]_caseVars PROVE QuotaKept'
    OBVIOUS
  <2>1. CASE UNCHANGED caseWork
    BY <2>1, RestKeepsQuota
  <2>2. ASSUME NEW r \in CaseRequests, CaseArrives(r) \/ CaseStep(r) PROVE QuotaKept'
    BY <2>2, StepKeepsQuota
  <2> QED
    BY <2>1, <2>2 DEF CaseNext, caseVars
<1> QED
  BY <1>1, QuotaBegins, CaseInvariantHolds, PTL DEF CaseSpec

\* A Case's own lower quota does not evict another Case's publication: where the quotas in use fit
\* the application's limits, its pressure is met only by a request whose own owner is full, and a
\* publication leaves another owner's alone while the cache has a place.
THEOREM OthersAlwaysKept == CaseSpec => OthersKept
<1> DEFINE step == \A r \in CaseRequests :
               /\ stage'[r] = "aggregate" /\ stage[r] # "aggregate" /\ ~Scarce =>
                      ~Fits(Mine(r), job[r].size, QuotaOf(job[r].pool))
               /\ stage'[r] # stage[r] =>
                      \A t \in entries \ entries' :
                          \/ payloads[t].owner = Mine(r)
                          \/ IF stage[r] = "storing" THEN Cardinality(entries) >= MaxEntries \/ Scarce
                             ELSE stage[r] = "aggregate"
<1>1. CaseInv /\ QuotaKept /\ [CaseNext]_caseVars => [step]_caseVars
  <2> SUFFICES ASSUME CaseInv, QuotaKept, [CaseNext]_caseVars PROVE [step]_caseVars
    OBVIOUS
  <2>1. CASE UNCHANGED caseWork
    BY <2>1 DEF caseWork
  <2>2. ASSUME NEW s \in CaseRequests, CaseArrives(s) \/ CaseStep(s) PROVE step
    BY <2>2, StepKeepsOthers
  <2> HIDE DEF step
  <2> QED
    BY <2>1, <2>2 DEF CaseNext, caseVars
<1> QED
  BY <1>1, CaseInvariantHolds, QuotaAlwaysKept, PTL DEF CaseSpec, OthersKept
===================================================================================

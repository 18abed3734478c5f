------------------------------ MODULE CompiledCache ------------------------------
(***************************************************************************)
(* The compiled interpretations of Cases (compile of                       *)
(* src-tauri/src/analysis_runtime.rs), kept by identity and built by one   *)
(* request at a time, over the Case database of SourcePublication.  An     *)
(* interpretation is compiled for a query, under the Case's own security   *)
(* settings, or for a look at the Case (with_diagnostics), which sets none.*)
(***************************************************************************)
EXTENDS SourcePublication

CONSTANTS
    Compilers,    \* requests that need an interpretation
    MaxCompiled   \* four, in the code

ASSUME CompilersAssumption == NoRequest \notin Compilers /\ MaxCompiled \in Nat

VARIABLES
    compiled,    \* COMPILED: the interpretations kept, the least used first
    compiling,   \* who holds COMPILING
    phase, wanted, given,
    stopped      \* those cancelled: a token stays so

compileWork  == <<compiled, compiling, phase, wanted, given, stopped>>
compiledVars == <<vars, compileWork>>

NoCompiled == [identity |-> Nobody, security |-> "default", outcome |-> "none"]

CompiledInit ==
    /\ Init
    /\ compiled = <<>>
    /\ compiling = NoRequest
    /\ phase = [q \in Compilers |-> "idle"]
    /\ wanted = [q \in Compilers |-> NoCompiled]
    /\ given = [q \in Compilers |-> NoAnswer]
    /\ stopped = {}

Find(kept, identity) == SelectInSeq(kept, LAMBDA entry : entry.identity = identity)
Index(q) == Find(compiled, wanted[q].identity)

Proceeds(q, from, to) ==
    /\ phase[q] = from
    /\ phase' = [phase EXCEPT ![q] = to]

\* compile returns, and drops COMPILING if it holds it.
Yields(q, what) ==
    /\ phase' = [phase EXCEPT ![q] = "over"]
    /\ given' = [given EXCEPT ![q] = what]
    /\ compiling' = IF compiling = q THEN NoRequest ELSE compiling

\* The snapshot was read, and for a query found to be the one asked about.
WantCompiled(q, c, security) ==
    /\ Proceeds(q, "idle", "looking")
    /\ wanted' = [wanted EXCEPT ![q] = [identity |-> IdentityOf(c), security |-> security,
                                        outcome |-> "none"]]
    /\ UNCHANGED <<compiled, compiling, given, stopped>>

\* Found, before the wait for the builder's lock or once more after it.
Hit(q) ==
    /\ phase[q] \in {"looking", "rechecking"}
    /\ Index(q) # 0
    /\ compiled' = Append(RemoveAt(compiled, Index(q)), compiled[Index(q)])
    /\ Yields(q, compiled[Index(q)])
    /\ UNCHANGED <<wanted, stopped>>

Miss(q) ==
    /\ Proceeds(q, "looking", "waiting")
    /\ Index(q) = 0
    /\ UNCHANGED <<compiled, compiling, wanted, given, stopped>>

EnterBuilder(q) ==
    /\ Proceeds(q, "waiting", "rechecking")
    /\ compiling = NoRequest
    /\ compiling' = q
    /\ UNCHANGED <<compiled, wanted, given, stopped>>

MissAgain(q) ==
    /\ Proceeds(q, "rechecking", "building")
    /\ Index(q) = 0
    /\ UNCHANGED <<compiled, compiling, wanted, given, stopped>>

\* compile_uncached: a cancellation is an error like that of a definition.
Build(q) ==
    /\ Proceeds(q, "building", "built")
    /\ \E outcome \in {"whole"} \cup (IF q \in stopped THEN {"cut"} ELSE {}) :
           wanted' = [wanted EXCEPT ![q].outcome = outcome]
    /\ UNCHANGED <<compiled, compiling, given, stopped>>

\* What is left of COMPILED: the oldest leave while it is full or too large.
Insert(q) ==
    IF Index(q) # 0
    THEN Hit(q)
    ELSE /\ \E n \in 0..Len(compiled) :
               /\ Len(compiled) - n < MaxCompiled
               /\ compiled' = Append(SubSeq(compiled, n + 1, Len(compiled)), wanted[q])
         /\ Yields(q, wanted[q])
         /\ UNCHANGED <<wanted, stopped>>

KeepFault(q) == phase[q] = "built" /\ Insert(q)   \* no check after the building

Keep(q) == phase[q] = "built" /\ q \notin stopped /\ Insert(q)

\* The checks: on entry, while waiting, after the building.
GiveUp(q) ==
    /\ phase[q] \in {"looking", "waiting", "built"} /\ q \in stopped
    /\ Yields(q, Refused)
    /\ UNCHANGED <<compiled, wanted, stopped>>

CancelCompiling(q) ==
    /\ phase[q] \notin {"idle", "over"}
    /\ stopped' = stopped \cup {q}
    /\ UNCHANGED <<compiled, compiling, phase, wanted, given>>

CompileStep(q) ==
    \/ \E c \in Cases, security \in {"own", "default"} : WantCompiled(q, c, security)
    \/ Hit(q) \/ Miss(q) \/ EnterBuilder(q) \/ MissAgain(q) \/ Build(q) \/ Keep(q)
    \/ GiveUp(q) \/ CancelCompiling(q)

CompiledNext ==
    \/ Next /\ UNCHANGED compileWork
    \/ (\E q \in Compilers : CompileStep(q)) /\ UNCHANGED vars

CompiledSpec == CompiledInit /\ [][CompiledNext]_compiledVars

-----------------------------------------------------------------------------
(* What must hold.                                                          *)

\* Nothing is built twice: who builds does it alone, and nobody has what he builds
\* (analysis_runtime.rs:223).  The last look of Insert never finds a winner.
BuildsOnce ==
    \A q \in Compilers : phase[q] \in {"building", "built"} => compiling = q /\ Index(q) = 0

\* What is kept, and what a request got, is a whole interpretation of the very
\* identity: a cancellation is not an invalid definition and must not leave a
\* successful empty one (analysis_runtime.rs:272), nor an edit an older one.  One
\* for an identity, no more than fit, and each built once.
CompiledExact ==
    /\ BuildsOnce
    /\ \A m, n \in DOMAIN compiled :
           compiled[m].identity = compiled[n].identity => m = n
    /\ \A n \in DOMAIN compiled : compiled[n].outcome = "whole"
    /\ Len(compiled) <= MaxCompiled
    /\ \A q \in Compilers : given[q] \notin {NoAnswer, Refused} =>
           given[q].outcome = "whole" /\ given[q].identity = wanted[q].identity
=============================================================================

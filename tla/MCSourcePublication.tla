--------------------------- MODULE MCSourcePublication ---------------------------
(* A small instance of SourcePublication, CompiledCache and CaseCache for    *)
(* TLC.  A behaviour is of one of three: requests about the source, with one *)
(* Case; those about the evidence of the Case a, which may be edited, or     *)
(* deleted and imported again as another owner, beside a publication of the  *)
(* Case b; or those that compile interpretations of a.                       *)
EXTENDS CaseCache, TLC

CONSTANTS r1, r2, q1, q2, k1, k2, a, b, log, key

Alike == Permutations({r1, r2}) \cup Permutations({q1, q2})

Quotas == [n \in 0..MaxRevision |-> n + 1]

Sourced == (\E r \in Requests : at[r] # "idle") \/ source # <<>>
Cased == (\E r \in CaseRequests : stage[r] # "idle") \/ payloads # <<>>
Compiling == \E q \in Compilers : phase[q] # "idle"
\* Of two requests about the source at a time one publishes and one names a
\* Case; the Case changes once in the time of both.
Paired == \A r \in Requests : at[r] # "idle"
Meets == /\ store[a].analysis + store[a].revision <= 1
         /\ \E r \in Requests : at[r] = "done" \/ task[r].kind \in {"load", "merge", "stamp"}
         /\ \E r \in Requests : at[r] = "done" \/ Id(r).case # NoCase
OneSide ==
    /\ Paired => Meets
    /\ ~(Sourced /\ (Cased \/ Compiling)) /\ ~(Cased /\ Compiling)
    /\ Cased \/ Compiling => active = NoCase
    /\ Compiling => store[a].analysis = 0
    /\ active # b /\ store[b].revision = 0 /\ store[b].analysis = 0
    /\ \A r \in Requests : task[r].identity.case # b
    /\ \A r \in CaseRequests : job[r].identity.case # b
    /\ \A q \in Compilers : wanted[q].identity.case # b

\* What was kept before is of b, then perhaps of a: b's is the oldest.
MCInit == CaseInit /\ OneSide /\ (payloads # <<>> => payloads[1].owner = <<b, 0>>)

\* CaseNext, of one of the three.
MCNext ==
    \/ Next /\ UNCHANGED <<compileWork, caseWork>>
    \/ ~Sourced /\ ~Cased /\ (\E q \in Compilers : CompileStep(q)) /\ UNCHANGED <<vars, caseWork>>
    \/ ~Sourced /\ ~Compiling /\ (\E r \in CaseRequests : CaseArrives(r) \/ CaseStep(r))
       /\ UNCHANGED compiledVars

MCSpec == MCInit /\ [][MCNext /\ OneSide']_caseVars

=============================================================================

------------------------------- MODULE SourceRegister -------------------------------
(***************************************************************************)
(* What the source published by the application promises its requests: a   *)
(* versioned register.  A request begins at one version; a write is a      *)
(* compare-and-swap on that version; a read answers that version, whole,   *)
(* whatever was published meanwhile; a look answers the last version.      *)
(* A refused request changes nothing.                                      *)
(***************************************************************************)
EXTENDS Integers, Sequences

CONSTANTS Requests, NoAnswer, Refused, Published

VARIABLES
    log,      \* every value published; log[1] is generation 0
    began,    \* the generation a request began at; -1 while it has none
    outcome   \* what the request answered

vars == <<log, began, outcome>>

Last == log[Len(log)]
LastGeneration == Len(log) - 1

Init == /\ Len(log) >= 1
        /\ began = [r \in Requests |-> -1]
        /\ outcome = [r \in Requests |-> NoAnswer]

Begin(r) == /\ began[r] = -1 /\ outcome[r] = NoAnswer
            /\ began' = [began EXCEPT ![r] = LastGeneration]
            /\ UNCHANGED <<log, outcome>>

Ends(r, what) == /\ outcome[r] = NoAnswer
                 /\ outcome' = [outcome EXCEPT ![r] = what]
                 /\ began' = [began EXCEPT ![r] = -1]

Write(r) == /\ began[r] = LastGeneration
            /\ Len(log') = Len(log) + 1
            /\ SubSeq(log', 1, Len(log)) = log
            /\ Ends(r, Published)

Read(r) == /\ began[r] >= 0
           /\ Ends(r, [generation |-> began[r], value |-> log[began[r] + 1]])
           /\ UNCHANGED log

Look(r) == /\ Ends(r, [generation |-> LastGeneration, value |-> Last])
           /\ UNCHANGED log

Refuse(r) == Ends(r, Refused) /\ UNCHANGED log

Next == \E r \in Requests : Begin(r) \/ Write(r) \/ Read(r) \/ Look(r) \/ Refuse(r)

Spec == Init /\ [][Next]_vars
=============================================================================

------------------------------- MODULE DurableProgress -------------------------------
(***************************************************************************)
(* What the checkpoints of one index promise: how far an opener would find *)
(* it never goes back while somebody works, or when somebody is stopped;   *)
(* what was reported preserved survives a loss of power; and only an index *)
(* not written since the cutoff is forgotten.                              *)
(***************************************************************************)
EXTENDS Naturals

VARIABLES
    found,     \* how far an opener would resume now
    promised,  \* how far the last checkpoint reported preserved goes
    recent     \* whether it was written since the cutoff of the last clean-up

vars == <<found, promised, recent>>

Init == found = 0 /\ promised = 0 /\ recent = FALSE

Save    == /\ found' >= found
           /\ recent' \in {recent, TRUE}
           /\ UNCHANGED promised

Promise == promised' = found /\ UNCHANGED <<found, recent>>

Lose    == found' >= promised /\ UNCHANGED <<promised, recent>>

Age     == recent' = FALSE /\ UNCHANGED <<found, promised>>

Forget  == ~recent /\ found' = 0 /\ promised' = 0 /\ UNCHANGED recent

\* lost: the step is a loss of power.
Next(lost) == Save \/ Promise \/ (lost /\ Lose) \/ Age \/ Forget
=============================================================================

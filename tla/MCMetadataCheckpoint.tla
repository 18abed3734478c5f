---------------------------- MODULE MCMetadataCheckpoint ----------------------------
(* Small instances of MetadataCheckpoint. *)
EXTENDS MetadataCheckpoint, TLC

\* A record over two lines that a chunk or a checkpoint may cut, and a log that
\* begins with a blank line in the middle of a record.
SomeLogs == {<<"start", "more", "start">>, <<"blank", "more", "more">>}
Alike == Permutations(Openers)

\* An opener that parses without a journal shares nothing until it is mapped:
\* beside it the other is only at the lock and at what it finds there.
Unsaving(p) == at[p] \in {"scanning", "discovering", "closing"} /\ ~work[p].journal
Near == \A p, q \in Openers :
            p # q /\ Unsaving(p) => at[q] \in {"idle", "waiting", "restoring", "mapped"}

\* The second log differs in its records only: one opener at a time, and no
\* clean-up, since what it removes begins again.
Framed == log[1] = "blank" => ~looked /\ \E p \in Openers : at[p] = "idle"

MCSpec == Init /\ [][Next /\ (Near /\ Framed)']_vars

=============================================================================

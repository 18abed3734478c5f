---------------------------- MODULE MCLowspaceSplit ----------------------------
(* Small instances of LowspaceSplit for TLC: every decision of the filter over *)
(* a file of a few bytes, every chunk size up to MaxChunk.                     *)
EXTENDS LowspaceSplit, TLC

\* What lies where the outputs go is there for both, or for neither, and the
\* file begins with a byte of the matched output: without a mark, the outputs
\* play the same part.
ReturnsInit == Init /\ out[TRUE] = out[FALSE] /\ side[1]
ReturnsSpec == ReturnsInit /\ FairSpec

=============================================================================

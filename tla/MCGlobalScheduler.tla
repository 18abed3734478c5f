-------------------------- MODULE MCGlobalScheduler --------------------------
(* Small instances of GlobalScheduler for TLC. *)
EXTENDS GlobalScheduler, TLC

CONSTANTS build, analysis, page, fetch

\* Safety: a background builder, a page that streams and fans out under a read
\* guard, and an import that waits for a device.
MixedOps == {build, page, fetch}
MixedPriority == build :> Background @@ page :> Interactive @@ fetch :> Normal
MixedDoes == build :> {"wave", "lend"} @@ page :> {"read", "stream", "wave"}
             @@ fetch :> {"io"}

\* Progress on one slot: an analysis that streams under a read guard, a page
\* that publishes under the write guard, and the builder between its batches.
OneSlotOps == {build, analysis, page}
OneSlotPriority == build :> Background @@ analysis :> Normal @@ page :> Interactive
OneSlotDoes == build :> {"wave", "lend"} @@ analysis :> {"read", "stream", "wave"}
               @@ page :> {"write"}

\* The race of two lenders with an operation that takes slots.
LendDoes == build :> {"lend", "wave"} @@ analysis :> {"lend"} @@ page :> {}

\* Two operations of one priority behind a builder; one waits for a device,
\* alone or while its child shares the reservation.
PeersOps == {build, page, fetch}
PeersPriority == build :> Background @@ page :> Normal @@ fetch :> Normal
PeersDoes == build :> {} @@ page :> {} @@ fetch :> {"io", "stream"}

=============================================================================

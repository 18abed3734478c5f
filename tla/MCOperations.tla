----------------------------- MODULE MCOperations -----------------------------
(* A small instance of Operations, EngineBuilds and Updates for TLC: a query *)
(* of the page, which may ask the background worker, a load that captures    *)
(* first and then publishes, and an MCP request that publishes and builds    *)
(* both ways; the base of one source, alone or with its derived fields, and  *)
(* the base of another.                                                      *)
EXTENDS Updates, TLC

CONSTANTS query, load, mcp, base, derived, other

AllOps == {query, load, mcp}
NamedOps == {query, load}
CapturingOps == {load}
PublishingOps == {load, mcp}
SchedulingOps == {query, mcp}
PreparingOps == {mcp}

AllKeys == {"plain", "enriched", "another"}
KeyParts == "plain" :> <<base>> @@ "enriched" :> <<base, derived>> @@ "another" :> <<other>>
KeySource == "plain" :> "first" @@ "enriched" :> "first" @@ "another" :> "second"

\* At most three actors take part in a behaviour.  A request is one, an update
\* that is being installed is one, the builders are two (one, with an update)
\* and the rest of the update dialogue is all three.  An attempt to cancel all
\* or to update is one beside the requests; a job that supersedes another and a
\* second attempt do not meet.  The second source is there for the queue: without
\* a cancel-all, an update or a build of a request's own.
Requested == Cardinality({o \in Ops : pc[o] # "unsent"})
Built == revision > 0 \/ wanted \cup failed \cup store # {}
Installs == updater # "off" \/ phase = "Installing" \/ failing > 0
Talks == phase \notin {"Ready", "Installing"} \/ tasks # {} \/ downloads > 1 \/ closes > 0
Elsewhere == other \in wanted \cup failed \cup store
FewActors ==
    /\ Requested + (IF Built THEN 2 ELSE 0) <= 3
    /\ Requested + (IF Installs THEN 1 ELSE 0) <= 3
    /\ Requested + generation <= 3
    /\ revision > 1 => generation < 2
    /\ Elsewhere => generation = 0 /\ \A o \in Ops : work[o] = None
    /\ Talks => Requested = 0 /\ ~Built

=============================================================================

----------------------------- MODULE Stabilized -----------------------------
(***************************************************************************)
(* Engine with what the stabilizer has done so far, which decides what may *)
(* be relied on: a section that is resolved leaves the counters of its     *)
(* subscribers alone and opens every gate, and a section that is queued is *)
(* work no gate was closed for.                                            *)
(***************************************************************************)
EXTENDS Engine

VARIABLE stabilizer     \* "unused", or a section was "queued", or "resolved"

\* A section takes a value: no other step of an engine that neither starts to
\* drain, nor drains, nor creates a node changes one.
Resolves == value' # value /\ pc' = pc /\ pc # "drain" /\ UNCHANGED idx

Traces ==
  stabilizer' = IF stabilizer = "resolved" \/ Resolves THEN "resolved"
                ELSE IF sections' # <<>> THEN "queued" ELSE stabilizer

TracedSpec ==
  /\ Init /\ stabilizer = "unused"
  /\ [][Next /\ Traces]_<<vars, stabilizer>>

-----------------------------------------------------------------------------
\* Until a section is resolved, the counters and the slots are exact, on any
\* graph, in the middle of a drain too, and whatever is written.
ReadsUntilResolved == stabilizer # "resolved" => DepsReadExactly

\* Until a section is queued, the gates bound the work of every drain that has
\* demanded nothing, whatever the modes of the nodes.
WorkUntilQueued == stabilizer = "unused" /\ demanded = {} => WorkBounded
=============================================================================

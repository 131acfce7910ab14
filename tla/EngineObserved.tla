--------------------------- MODULE EngineObserved ---------------------------
(***************************************************************************)
(* Engine with what its caller sees: apply takes the engine by exclusive   *)
(* reference, so values are read between calls only.  `settled` holds the  *)
(* values of the last time the engine was at rest.                         *)
(***************************************************************************)
EXTENDS Engine

VARIABLE settled        \* value, when the engine was last quiescent

ObservedInit == Init /\ settled = value

ObservedNext == Next /\ settled' = IF Quiescent' THEN value' ELSE settled

ObservedSpec == ObservedInit /\ [][ObservedNext]_<<vars, settled>>

\* On a graph whose paths between two nodes are equally long, with Eager
\* derived nodes and inputs written by the callers, a call is a single step of
\* the synchronous dataflow: the queue, the gates, the counters, the slots and
\* the order of the pushes are not visible in any value a caller reads.
Wave == INSTANCE Dataflow WITH out <- settled

Synchronous == Wave!Spec
=============================================================================

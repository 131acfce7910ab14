------------------------------- MODULE MCHint -------------------------------
(***************************************************************************)
(* A compilation hint that shows: one input, one MvNeg node, and a region  *)
(* that consists of that node.                                             *)
(***************************************************************************)
EXTENDS MCEngine, EngineObserved, Regions

HintTopology == TheTopology({<<1, 2>>}, <<"Input", "MvNeg">>, <<"Eager", "Eager">>)
HintCalls == SetValues({1}, {"Neg", "Pos"})
HintRegions == {[op |-> "RegionDeclare", root |-> 2,
                 boundary |-> [how |-> "ExplicitSet", nodes |-> <<2>>],
                 stability |-> "EpochTracked", compile |-> "Eager"]}
None == {}

HintSpec ==
  /\ TierInit /\ settled = value
  /\ [][TierNext /\ settled' = IF Quiescent' THEN value' ELSE settled]_<<tierVars, settled>>
  /\ WF_tierVars(TierWork)

\* "The hint carries no semantic effect on node values or quiescent state: two
\* engines that apply the same stream, one respecting the hint and one ignoring
\* it, MUST converge to the same observable state" (spec/abi.md:346-349).  An
\* engine without regions shows its callers the synchronous dataflow on this
\* graph (run families); the engine that compiles the region should too.
HintIsNeutral == Synchronous
=============================================================================

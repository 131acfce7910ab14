----------------------------- MODULE MCFamilies -----------------------------
(***************************************************************************)
(* Four families of engines, each with the topologies and the calls that   *)
(* make its questions interesting; an engine stays in its family.          *)
(*                                                                         *)
(*   any       every graph on three nodes, cyclic ones included, all nodes *)
(*             Eager, with writes to any node                              *)
(*   demands   the graphs on four nodes whose edges all ascend or all      *)
(*             descend, with Lazy nodes and inputs that never conflict     *)
(*   sections  every graph on three nodes, with Eager and Stabilizing      *)
(*             nodes and the stabilizer, and two on four nodes, whose      *)
(*             sections may exceed the budget                              *)
(*   levelled  every graph on four nodes in which all paths between two    *)
(*             nodes are equally long, all nodes Eager                     *)
(***************************************************************************)
EXTENDS MCEngine, Stabilized, EngineObserved

VARIABLE family

familyVars == <<vars, stabilizer, settled, family>>

Three == 1 .. 3

AllPairs == {p \in Uid \X Uid : p[1] # p[2]}

AnyGraphs == SUBSET {p \in AllPairs : {p[1], p[2]} \subseteq Three}

MonotoneGraphs == SUBSET {p \in AllPairs : p[1] < p[2]}
                    \cup SUBSET {p \in AllPairs : p[1] > p[2]}

\* A chain of four nodes, and a ring behind an input.
LongGraphs == {{<<1, 2>>, <<2, 3>>, <<3, 4>>},
               {<<1, 2>>, <<2, 3>>, <<3, 4>>, <<4, 2>>}}

\* The graphs whose edges lead from each level to the next.
LevelledGraphs == UNION {SUBSET {p \in AllPairs : level[p[2]] = level[p[1]] + 1} :
                           level \in [Uid -> 0 .. 3]}

AnyTopologies == TopologiesOver(AnyGraphs, {"JoinAny", "Identity"}, {"Eager"})
DemandTopologies == TopologiesOver(MonotoneGraphs, {"MeetAll", "BochvarFold"}, {"Lazy"})
\* The mode of an input, which is never pushed on account of another node,
\* makes no difference.
SectionTopologies ==
  {t \in TopologiesOver(AnyGraphs, {"MeetAll", "BochvarFold"}, {"Eager", "Stabilizing"}) :
     \A n \in Uid : t.kind[n] = "Input" => t.mode[n] = "Eager"} \cup TopologiesOver(LongGraphs, {"MeetAll"}, {"Eager"})
LevelledTopologies == TopologiesOver(LevelledGraphs, {"MeetAll", "MvNeg"}, {"Eager"})

AllTopologies ==
  AnyTopologies \cup DemandTopologies \cup SectionTopologies \cup LevelledTopologies

TopologiesOf == [any      |-> AnyTopologies,     demands  |-> DemandTopologies,
                 sections |-> SectionTopologies, levelled |-> LevelledTopologies]

CallsOf ==
  [any      |-> SetValues(Three, T) \cup OnNodes("Reflect", Three)
                  \cup OnNodes("Propagate", Three),
   demands  |-> SetValues(Uid, {"Neg", "Pos"}) \cup OnNodes("Demand", Uid),
   sections |-> SetValues(Three, {"Zero", "Pos"}) \cup OnNodes("Propagate", {2, 3})
                  \cup {[op |-> "Stabilize", region |-> {2}], [op |-> "StabilizeAll"]},
   levelled |-> SetValues(Uid, T) \cup OnNodes("Propagate", Uid)]

AllCalls == UNION {CallsOf[f] : f \in DOMAIN CallsOf}

\* Outside the first family, callers write Input nodes only, and only those
\* that feed a node.
Allowed(c) == c.op = "SetValue" /\ family # "any" =>
                kind[c.node] = "Input" /\ Subs(c.node) # {}

\* Rest is observed in the last family, the one that is compared with waves.
Observed == settled' = IF family = "levelled" /\ Quiescent' THEN value' ELSE settled

FamiliesInit ==
  /\ Fresh
  /\ family \in DOMAIN TopologiesOf
  /\ \E t \in TopologiesOf[family] : InitTopology(t)
  /\ stabilizer = "unused" /\ settled = value

FamiliesNext ==
  /\ \/ pc = "idle" /\ \E c \in CallsOf[family] : Allowed(c) /\ Apply(c)
     \/ Work
  /\ Traces
  /\ Observed
  /\ UNCHANGED family

FamiliesSpec == FamiliesInit /\ [][FamiliesNext]_familyVars /\ WF_vars(Work)

\* A served demand has computed every node on its way, on acyclic graphs.
DemandsServed == [][family = "demands" => ServesDemands]_vars

\* On a graph whose paths are equally long, an engine at rest is Settled: every
\* derived node shows what its rule makes of its dependencies.
WavesSettle == family = "levelled" => Settled
=============================================================================

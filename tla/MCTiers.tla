------------------------------- MODULE MCTiers -------------------------------
(***************************************************************************)
(* Four families of engines with both tiers and the authority gate; an     *)
(* engine stays in its family.                                             *)
(*                                                                         *)
(*   build      four nodes that are wired, rewired, deleted and created    *)
(*              anew, with drains that hit the step limit                  *)
(*   authority  a diamond whose partition, labels and mode change          *)
(*   regions    two inputs and two derived nodes, compiled as a whole, in  *)
(*              part, through their partition or not at all, and rewired   *)
(*   sections   a conflict that is stabilized beside a compiled node       *)
(***************************************************************************)
EXTENDS MCEngine, TiersObserved

VARIABLE family

TheParts == {"p"}
TheBits == {"b"}

\* Nodes 1 and 2 are inputs; a graph and the rules of 3 and 4.
Circuit(G, third, fourth, mode) ==
  TheTopology(G, <<"Input", "Input", third, fourth>>, <<"Eager", "Eager", mode, "Eager">>)

TopologiesOf ==
  [build     |-> TheTopology({}, <<"Input", "MeetAll", "JoinAny", "Input">>,
                             [n \in Uid |-> "Eager"]),
   authority |-> TheTopology({<<1, 2>>, <<1, 3>>, <<2, 4>>, <<3, 4>>},
                             <<"Input", "MeetAll", "MvNeg", "JoinAny">>,
                             [n \in Uid |-> "Eager"]),
   regions   |-> Circuit({<<1, 3>>, <<2, 4>>, <<3, 4>>}, "MvNeg", "MvMul", "Eager"),
   rewired   |-> Circuit({<<1, 3>>, <<2, 3>>, <<3, 4>>}, "MeetAll", "JoinAny", "Eager"),
   sections  |-> Circuit({<<1, 3>>, <<2, 4>>}, "MeetAll", "MvNeg", "Stabilizing")]

AllTopologies == UNION {TopologiesOf[f] : f \in DOMAIN TopologiesOf}

CallsOf ==
  [build     |-> Creates(<<"Input", "MeetAll", "JoinAny">>)
                   \cup Connects({Wire(1, 2, 1, "Signal"), Wire(2, 3, 1, "Flow"),
                                  Wire(1, 3, 2, "Effort")})
                   \cup {[op |-> "Subscribe", src |-> 1, sub |-> 3]}
                   \cup DelEdges({<<2, 1>>, <<3, 1>>}) \cup OnNodes("DelNode", Uid3)
                   \cup SetValues({1}, T) \cup OnNodes("Demand", {3})
                   \cup SetModes({2}, {"Lazy"}) \cup OnNodes("Reflect", {1, 2}),
   authority |-> SetValues({1}, T) \cup OnNodes("Propagate", {2}),
   regions   |-> SetValues({1, 2}, T) \cup OnNodes("Reflect", {1}),
   rewired   |-> SetValues({1}, {"Neg", "Pos"}) \cup SetValues({2}, {"Pos"})
                   \cup Connects({Wire(2, 4, 2, "Signal")})
                   \cup DelEdges({<<3, 1>>}) \cup OnNodes("DelNode", {2}),
   sections  |-> SetValues({1, 2}, {"Zero", "Pos"}) \cup OnNodes("Propagate", {3})
                   \cup {[op |-> "StabilizeAll"]}]

Decl(bits) == [class |-> bits, domain |-> bits]

AuthCallsOf ==
  [build     |-> {},
   authority |-> {[op |-> "PartitionCreate", partition |-> "p", decl |-> Decl(TheBits)],
                  [op |-> "SetPartitionAuthority", partition |-> "p", decl |-> Decl({})],
                  [op |-> "PartitionBind", node |-> 2, partition |-> "p"],
                  [op |-> "PartitionBind", node |-> 3, partition |-> "p"],
                  [op |-> "SetEdgeLabel", src |-> 2, tgt |-> 4,
                   label |-> [capability |-> {}, class |-> TheBits, scope |-> TheBits]],
                  [op |-> "Annotate"]}
                   \cup [op : {"SetAuthorityMode"}, mode : AuthorityMode]
                   \cup [op : {"SetPolicy"}, policy : {"AuditOnly"}],
   regions   |-> {[op |-> "PartitionBind", node |-> 3, partition |-> "p"]},
   rewired   |-> {},
   sections  |-> {}]

Region(root, boundary, stability, policy) ==
  [op |-> "RegionDeclare", root |-> root, boundary |-> boundary,
   stability |-> stability, compile |-> policy]
Explicit(nodes) == [how |-> "ExplicitSet", nodes |-> nodes]

RegionCallsOf ==
  [build     |-> {},
   authority |-> {},
   regions   |-> {Region(4, Explicit(<<4, 3>>), "Pinned", "Eager"),
                  Region(4, Explicit(<<3, 3>>), "Pinned", "Eager"),
                  Region(4, [how |-> "DepClosure", max_depth |-> 1], "EpochTracked", "Eager"),
                  Region(4, [how |-> "PartitionScoped", partition |-> "p"],
                         "EpochTracked", "Eager")},
   rewired   |-> {Region(4, Explicit(<<3, 4>>), "EpochTracked", "Eager"),
                  Region(3, Explicit(<<3>>), "Pinned", "Eager"),
                  Region(4, Explicit(<<4>>), "EpochTracked", "Eager"),
                  Region(4, Explicit(<<3, 4>>), "EpochTracked", "Lazy")},
   sections  |-> {Region(4, Explicit(<<4>>), "Pinned", "Eager")}]

AllCalls == UNION {CallsOf[f] : f \in DOMAIN CallsOf}
AllAuthCalls == UNION {AuthCallsOf[f] : f \in DOMAIN AuthCallsOf}
AllRegionCalls == UNION {RegionCallsOf[f] : f \in DOMAIN RegionCallsOf}

-----------------------------------------------------------------------------
TiersInit ==
  /\ Fresh
  /\ family \in DOMAIN TopologiesOf
  /\ \E t \in TopologiesOf[family] : InitTopology(t)
  /\ AuthInit /\ RegionInit /\ WatchInit

TiersNext ==
  /\ \/ Calling(CallsOf[family], AuthCallsOf[family], RegionCallsOf[family])
     \/ TierWork
  /\ Watch
  /\ UNCHANGED family

TiersSpec == TiersInit /\ [][TiersNext]_<<tierVars, notes, family>>
=============================================================================

---------------------------- MODULE MCDivergence ----------------------------
(* Instances on which the engine departs from what its documentation says. *)
EXTENDS MCEngine

\* Two paths of different length from node 1 to node 2, which feeds node 4:
\* by ascending id, node 2 is pushed before node 3 on the longer path.
UnevenTopology ==
  TheTopology({<<1, 2>>, <<1, 3>>, <<3, 2>>, <<2, 4>>},
              [n \in Uid |-> IF n = 1 THEN "Input" ELSE "MeetAll"],
              [n \in Uid |-> "Eager"])
UnevenCalls == SetValues({1}, {"Zero", "Pos"})

\* A chain, whose middle node is stabilized after its dependency was deleted.
ChainTopology ==
  TheTopology({<<1, 2>>, <<2, 3>>},
              [n \in Uid |-> IF n = 1 THEN "Input" ELSE "MeetAll"],
              [n \in Uid |-> "Eager"])
ChainCalls == SetValues({1}, {"Zero", "Pos"}) \cup DelEdges({<<2, 1>>})
                \cup {[op |-> "Stabilize", region |-> {2}]}
=============================================================================

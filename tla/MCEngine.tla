------------------------------ MODULE MCEngine ------------------------------
(***************************************************************************)
(* What the MC modules of Engine share: sets of operations, and topologies *)
(* given by graphs.  Each MC module names the constants of one family of   *)
(* runs.                                                                   *)
(***************************************************************************)
EXTENDS Engine

SetValues(S, V) == {[op |-> "SetValue", node |-> n, val |-> v] : n \in S, v \in V}
OnNodes(name, S) == {[op |-> name, node |-> n] : n \in S}
SetModes(S, M) == {[op |-> "SetMode", node |-> n, mode |-> m] : n \in S, m \in M}
Creates(kinds) ==
  {[op |-> "NodeCreate", node |-> n, kind |-> kinds[n]] : n \in DOMAIN kinds}

Wire(src, tgt, i, port) == [id |-> <<tgt, i>>, src |-> src, tgt |-> tgt,
                            port |-> port, remote |-> FALSE]
Connects(E) == {[op |-> "EdgeConnect", edge |-> e] : e \in E}
DelEdges(I) == {[op |-> "DelEdge", id |-> i] : i \in I}

\* A graph is a set of <<src, tgt>>; dependencies are connected by ascending id.
WiringOf(G) ==
  [n \in Uid |-> CHOOSE q \in InOrder({d \in Uid : <<d, n>> \in G}, <) : TRUE]

\* Nodes without dependencies are inputs; the others take a rule each.
Kinds(G, rules) ==
  {k \in [Uid -> rules \cup {"Input"}] :
     \A n \in Uid : k[n] = "Input" <=> \A d \in Uid : <<d, n>> \notin G}

TopologiesOver(Gs, rules, ms) ==
  UNION {{[kind |-> k, mode |-> m, wiring |-> WiringOf(G)] :
            k \in Kinds(G, rules), m \in [Uid -> ms]} : G \in Gs}

\* One graph, with the kinds and modes given.
TheTopology(G, k, m) == {[kind |-> k, mode |-> m, wiring |-> WiringOf(G)]}

\* A new engine.
NoOrder == <<>>
NoTopology == TheTopology({}, [n \in Uid |-> "Input"], [n \in Uid |-> "Eager"])

Uid2 == 1 .. 2
Uid3 == 1 .. 3
Uid4 == 1 .. 4
Order2 == <<1, 2>>
Order3 == <<1, 2, 3>>
Order4 == <<1, 2, 3, 4>>
=============================================================================

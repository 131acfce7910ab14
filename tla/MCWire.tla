------------------------------- MODULE MCWire -------------------------------
(***************************************************************************)
(* Operations with each of their fields at each of its interesting values: *)
(* ids and numbers beside and beyond what their fields hold, empty lists,  *)
(* maps of several entries, every kind of every choice.                    *)
(***************************************************************************)
EXTENDS Wire

Sizes == [u8 |-> 16, u16 |-> 32, u32 |-> 64, u64 |-> 128]

SomeIds == {1, 2, 129}
SomeTexts == {"", "a", "dep", "flow"}
SomeFloats == {"one", "quiet NaN", "signalling NaN"}

\* An operation with one field changed to one of a set.
Vary(o, field, values) == {[o EXCEPT ![field] = v] : v \in values}

Vals == {[bool |-> b] : b \in BOOLEAN} \cup {[int |-> n] : n \in {0, 7}}
          \cup {[float |-> f] : f \in SomeFloats}
          \cup {[text |-> s] : s \in SomeTexts} \cup {[ternary |-> t] : t \in T}

AttrMaps == {[k \in {} |-> 0]} \cup [{1} -> Vals] \cup [{1, 2} -> Vals]

Node == [op |-> "NodeCreate", node |-> 1, typ |-> "a", rule |-> "Input", attrs |-> [k \in {} |-> 0]]
NodeCreates ==
  Vary(Node, "node", SomeIds) \cup Vary(Node, "typ", SomeTexts)
    \cup Vary(Node, "rule", DOMAIN rule_byte) \cup Vary(Node, "attrs", AttrMaps)

Scopes == [bits : {0, 5}, root : {0, 2}]

RemoteDep ==
  [kind |-> "Remote", port_kind |-> "Effort", source_partition |-> 1, source_uid |-> 2,
   source_version |-> 3, zero |-> "None", frontier |-> [p \in {} |-> 0], authority |-> 1,
   class |-> 4, capability |-> 5, scope |-> [bits |-> 6, root |-> 0]]

RemoteDeps ==
  Vary(RemoteDep, "source_uid", SomeIds) \cup Vary(RemoteDep, "port_kind", DOMAIN port_byte)
    \cup Vary(RemoteDep, "zero", {"None"} \cup DOMAIN zero_byte)
    \cup Vary(RemoteDep, "frontier", UNION {[S -> {0, 9}] : S \in SUBSET {1, 2, 130}})
    \cup Vary(RemoteDep, "capability", {0, 15, 16}) \cup Vary(RemoteDep, "scope", Scopes)

LocalDeps ==
  {[kind |-> "Local", port |-> p] :
     p \in {<<>>} \cup {<<[name |-> s, kind |-> k]>> : s \in SomeTexts, k \in DOMAIN port_byte}}

EdgeConnects ==
  [op : {"EdgeConnect"}, edge : {1}, src : {1, 129}, tgt : {2}, typ : {"dep", "flow"},
   dep : LocalDeps \cup RemoteDeps]

OnNodes ==
  [op : {"Propagate", "DelNode", "DelEdge", "Demand", "Reflect"}, node : SomeIds]
    \cup [op : {"SetValue"}, node : {1}, val : T]
    \cup [op : {"SetMode"}, node : {1}, mode : DOMAIN mode_byte]
    \cup [op : {"Subscribe"}, src : SomeIds, sub : SomeIds]
    \cup [op : {"PartitionBind"}, node : SomeIds, partition : SomeIds]

Stabilizes == [op : {"Stabilize"}, all : {FALSE}, ids : {<<>>, <<1>>, <<2, 1>>, <<129>>}]
                \cup [op : {"Stabilize"}, all : {TRUE}, ids : {<<>>}]

Authorities ==
  [op : {"PartitionCreate"}, partition : {1, 2, 129}, root : {1, 3}, class : {0, 3}, domain : Scopes]
    \cup [op : {"SetPartitionAuthority"}, partition : {1}, class : {0, 3}, domain : Scopes]
    \cup [op : {"SetEdgeLabel"}, src : {1}, tgt : {2},
          label : [class : {0, 3}, capability : {0, 15, 16}, mask : {"wildcard", "attribute_only"},
                   scope : Scopes]]

Config == [op : {"SetStabilizationConfig"}, node : {1},
           strategy : {[kind |-> "FullL3", mask |-> 0]} \cup [kind : {"Restricted"}, mask : {0, 1, 15, 16}],
           domain : {"LocalOnly", "Federated", "Inherit"}, max_iterations : {3, 63, 64},
           convergence : {"Canonical", "Witness", "BudgetExhausted"}]

ExecutionPolicy ==
  [op : {"SetExecutionPolicy"}, node : {1}, priority : {"Normal", "High", "Low"},
   retry : {[kind |-> "Fail", attempts |-> 0], [kind |-> "Retry", attempts |-> 3],
            [kind |-> "Retry", attempts |-> 5]}]

RegionDeclares ==
  [op : {"RegionDeclare"}, root : {1},
   boundary : [how : {"DepClosure"}, max_depth : {0, 63, 64}]
                \cup [how : {"ExplicitSet"}, nodes : {<<>>, <<1>>, <<2, 129>>}]
                \cup [how : {"PartitionScoped"}, partition : {1}],
   stability : {"Pinned", "EpochTracked"}, compile : {"Eager", "Lazy", "Never"}]

Operations ==
  NodeCreates \cup EdgeConnects \cup OnNodes \cup Stabilizes \cup Authorities
    \cup Config \cup ExecutionPolicy \cup RegionDeclares
=============================================================================

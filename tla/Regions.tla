------------------------------ MODULE Regions ------------------------------
(***************************************************************************)
(* The engine with both of its evaluation tiers and the authority gate:    *)
(* RegionDeclare compiles a set of nodes into a circuit over ValueStore    *)
(* slots (core-rs/src/region.rs); a write to one of its inputs runs the    *)
(* circuit before the warm drain, which then skips the pushes of its       *)
(* members (engine.rs, drain_and_stabilize).                               *)
(*                                                                         *)
(* The inverted index and the bit planes that speed up the circuit are     *)
(* left out: they only find the rows that read a slot.                     *)
(***************************************************************************)
EXTENDS Authority

CONSTANT RegionCalls    \* the RegionDeclare operations callers may apply

VARIABLES
  regions,              \* compiled artifacts by root
  contracts,            \* the stability contract by root
  reads,                \* input_to_regions: <<slot, root>>
  dirty,                \* roots whose inputs were written
  dirtySlots,           \* slots written in this call
  handled               \* compiled_handled: slots whose pushes are skipped

regionVars == <<regions, contracts, reads, dirty, dirtySlots, handled>>
tierVars == <<vars, authVars, regionVars>>

Boundary == [how : {"ExplicitSet"}, nodes : Seq(Uid)]
              \cup [how : {"DepClosure"}, max_depth : Nat]
              \cup [how : {"PartitionScoped"}, partition : Partition]
StabilityContract == {"Pinned", "EpochTracked"}
CompilePolicy == {"Eager", "Lazy", "Never"}

RegionOp == [op : {"RegionDeclare"}, root : Uid, boundary : Boundary,
             stability : StabilityContract, compile : CompilePolicy]

ASSUME RegionAssumption == RegionCalls \subseteq RegionOp

RegionInit ==
  /\ regions = [r \in {} |-> {}] /\ contracts = [r \in {} |-> {}]
  /\ reads = {} /\ dirty = {} /\ dirtySlots = {} /\ handled = {}

-----------------------------------------------------------------------------
(* Compilation *)

\* bfs_dep_closure: the root and its dependencies, up to `depth` hops away.
DepClosure(root, depth) ==
  LET hops[k \in 0 .. depth] ==
        IF k = 0 THEN {root} ELSE hops[k - 1] \cup UNION {Deps(n) : n \in hops[k - 1]}
  IN  hops[depth]

RegionMembers(root, b) ==
  CASE b.how = "ExplicitSet"     -> ToSet(b.nodes)
    [] b.how = "DepClosure"      -> DepClosure(root, b.max_depth)
    [] b.how = "PartitionScoped" -> {n \in DOMAIN bound : bound[n] = b.partition}

\* An explicit list that repeats a node is not compiled.
Repeats(b) == b.how = "ExplicitSet" /\ ~IsInjective(b.nodes)

\* Dependencies before subscribers; there is no such order on a cycle.
TopoOrders(M) ==
  {o \in InOrder(M, LAMBDA a, b : a # b) :
     \A i, j \in DOMAIN o : <<o[i], o[j]>> \in pairs => i < j}

\* The slots recorded for the dependencies of n, or their present slots in
\* any order if none was recorded.
Rows(n) ==
  IF indices[n] # <<>> THEN {indices[n]}
  ELSE {[i \in DOMAIN o |-> idx[o[i]]] : o \in InOrder(Deps(n), LAMBDA a, b : a # b)}

\* Members that are missing or Input pass on their one dependency.
RuleOf(n) == IF kind[n] \in Rules THEN kind[n] ELSE "Identity"

\* The circuits compile_region may build, none if it gives up.
Circuits(M) ==
  {c \in [members : TopoOrders(M), rows : [1 .. Cardinality(M) -> UNION {Rows(n) : n \in M}]] :
     \A i \in DOMAIN c.members : /\ c.rows[i] \in Rows(c.members[i])
                                 /\ idx[c.members[i]] # 0 /\ 0 \notin ToSet(c.rows[i])}

\* A slot is an input if no row up to the first that reads it computes it.
InputsOf(rows, outputs) ==
  {s \in UNION {ToSet(rows[i]) : i \in DOMAIN rows} :
     \E i \in DOMAIN rows : /\ s \in ToSet(rows[i])
                            /\ \A j \in 1 .. i : s # outputs[j]
                            /\ \A j \in 1 .. i - 1 : s \notin ToSet(rows[j])}

CompiledRegion(c) ==
  LET outputs == [i \in DOMAIN c.members |-> idx[c.members[i]]] IN
  [members |-> c.members, rows |-> c.rows, outputs |-> outputs,
   rules   |-> [i \in DOMAIN c.members |-> RuleOf(c.members[i])],
   inputs  |-> InputsOf(c.rows, outputs)]

\* The contract is recorded whatever is compiled.  An artifact that replaces
\* another leaves the other's inputs in the reverse map.
RegionDeclare(root, b, stability, policy) ==
  LET M == RegionMembers(root, b)
      compiles == policy = "Eager" /\ ~Repeats(b) /\ Circuits(M) # {} IN
  /\ contracts' = Entered(contracts, root, stability)
  /\ \/ /\ compiles
        /\ \E c \in Circuits(M) : regions' = Entered(regions, root, CompiledRegion(c))
        /\ reads' = reads \cup (regions'[root].inputs \X {root})
     \/ ~compiles /\ UNCHANGED <<regions, reads>>
  /\ Tick
  /\ violations' = {}
  /\ UNCHANGED <<graphVars, storeVars, pairs, ordered, indices, modes, counters,
                 propVars, control, amode, unbound, decls, bound, labels,
                 dirty, dirtySlots, handled>>

-----------------------------------------------------------------------------
(* Invalidation and dirtiness *)

\* invalidate_for_node, for each node of `nodes`.
Evict(nodes) ==
  LET gone == {r \in DOMAIN regions : /\ contracts[r] = "EpochTracked"
                                      /\ ToSet(regions[r].members) \cap nodes # {}} IN
  /\ regions' = [r \in DOMAIN regions \ gone |-> regions[r]]
  /\ reads' = {e \in reads : ~(e[2] \in gone /\ e[1] \in regions[e[2]].inputs)}
  /\ dirty' = dirty \ gone
  /\ UNCHANGED <<contracts, dirtySlots, handled>>

\* Mutant: the slots stay dirty when no region reads them.
MarkDirty_for_good(n) ==
  /\ dirty' = {r \in Uid : <<idx[n], r>> \in reads}
  /\ dirtySlots' = {idx[n]}
  /\ UNCHANGED <<regions, contracts, reads, handled>>

\* SetValue and Reflect; the drain that follows clears the slots at once when
\* no region is to run.
MarkDirty(n) ==
  /\ dirty' = {r \in Uid : <<idx[n], r>> \in reads}
  /\ dirtySlots' = IF dirty' = {} THEN {} ELSE {idx[n]}
  /\ UNCHANGED <<regions, contracts, reads, handled>>

-----------------------------------------------------------------------------
(* Execution *)

Gathered(row, store) == [k \in DOMAIN row |-> store[row[k]]]

\* Mutant: a row is evaluated for the slots that were dirty at the start.
RunRow_inputs_only(r, i, st) ==
  LET new == Eval(r.rules[i], Gathered(r.rows[i], st.store))
      out == r.outputs[i] IN
  IF /\ ToSet(r.rows[i]) \cap dirtySlots # {}
     /\ Len(r.rows[i]) >= Arity[r.rules[i]] /\ new # st.store[out]
    THEN [store |-> [st.store EXCEPT ![out] = new], touched |-> st.touched \cup {out}]
    ELSE st

\* Row i of region r in state st: evaluated if a slot it reads was touched.
RunRow(r, i, st) ==
  LET new == Eval(r.rules[i], Gathered(r.rows[i], st.store))
      out == r.outputs[i] IN
  IF /\ ToSet(r.rows[i]) \cap st.touched # {}
     /\ Len(r.rows[i]) >= Arity[r.rules[i]] /\ new # st.store[out]
    THEN [store |-> [st.store EXCEPT ![out] = new], touched |-> st.touched \cup {out}]
    ELSE st

\* run_compiled_region: the rows in topological order.
RunRows(r) ==
  LET run[i \in 0 .. Len(r.members)] ==
        IF i = 0 THEN [store |-> cache, touched |-> dirtySlots] ELSE RunRow(r, i, run[i - 1])
  IN  run[Len(r.members)]

\* The rows that changed.
ChangedRows(r, store) == {i \in DOMAIN r.outputs : store[r.outputs[i]] # cache[r.outputs[i]]}

\* The counters `told`, after the subscribers of member i outside the region
\* are told what has become of its value.
Told(r, i, store, told) ==
  [s \in Uid |-> IF s \in Subs(r.members[i]) \ ToSet(r.members)
                   THEN CounterUpdate(told[s], cache[r.outputs[i]], store[r.outputs[i]])
                   ELSE told[s]]

\* Mutant: the circuit writes and counts nothing.
RecountOutside_forgotten(r, rows, store) == counters

\* The counters of subscribers outside the region; those of members are left.
RecountOutside(r, rows, store) ==
  LET told[i \in 0 .. Len(r.members)] ==
        IF i = 0 THEN counters
        ELSE IF i \in rows THEN Told(r, i, store, told[i - 1]) ELSE told[i - 1]
  IN  told[Len(r.members)]

\* One dirty root, in any order.  Every member is then handled, whether its
\* row was evaluated or not.  Pushes out of the region ask no authority.
RunRegion(root) ==
  LET r == regions[root]
      after == RunRows(r)
      rows == ChangedRows(r, after.store)
      open == {e \in rows \X Uid :
                 /\ <<r.members[e[1]], e[2]>> \in pairs \ seen
                 /\ e[2] \notin ToSet(r.members) /\ modes[e[2]] = "Eager"}
      lex(a, b) == a[1] < b[1] \/ (a[1] = b[1] /\ a[2] < b[2])
  IN  /\ pc = "drain" /\ root \in dirty /\ root \in DOMAIN regions
      /\ cache' = after.store
      /\ value' = [n \in Uid |->
                     IF n \in Live /\ \E i \in rows : r.members[i] = n
                       THEN after.store[r.outputs[CHOOSE i \in rows : r.members[i] = n]]
                       ELSE value[n]]
      /\ counters' = RecountOutside(r, rows, after.store)
      /\ \E order \in InOrder(open, lex) :
           queue' = queue \o [k \in DOMAIN order |-> PushItem(order[k][2])]
      /\ seen' = seen \cup {<<r.members[e[1]], e[2]>> : e \in open}
      /\ dirty' = dirty \ {root}
      /\ dirtySlots' = IF dirty' = {} THEN {} ELSE after.touched
      /\ handled' = handled \cup {idx[m] : m \in ToSet(r.members)}
      /\ UNCHANGED <<kind, edges, idx, pairs, ordered, indices, modes, demanded,
                     sections, steps, control, authVars, regions, contracts, reads>>

\* A root whose artifact is gone.
SkipRegion(root) ==
  /\ pc = "drain" /\ root \in dirty /\ root \notin DOMAIN regions
  /\ dirty' = dirty \ {root}
  /\ dirtySlots' = IF dirty' = {} THEN {} ELSE dirtySlots
  /\ UNCHANGED <<vars, authVars, regions, contracts, reads, handled>>

-----------------------------------------------------------------------------
(* The operations of module Engine, with what they do to the tables here *)

Announce(connected) == violations' = {} /\ LabelsFollow(connected)

\* Bound: the counters of former members, which the circuit did not keep up to
\* date, drift by one whenever the tiers take turns in writing a dependency.
CountersShort == \A n \in Uid : Total(counters[n]) <= MaxDeps

EngineCall(c) ==
  /\ CountersShort
  /\ Apply(c)
  /\ CASE c.op = "EdgeConnect" -> /\ Evict({c.edge.src, c.edge.tgt})
                                  /\ Announce({<<c.edge.src, c.edge.tgt>>})
       [] c.op = "Subscribe" -> Announce({<<c.src, c.sub>>}) /\ UNCHANGED regionVars
       [] c.op = "DelEdge" -> /\ Evict(UNION {{e.src, e.tgt} : e \in edges \ edges'})
                              /\ Announce({})
       [] c.op \in {"SetValue", "Reflect"} ->
            /\ IF value' = value THEN UNCHANGED regionVars ELSE MarkDirty(c.node)
            /\ Announce({})
       [] OTHER -> Announce({}) /\ UNCHANGED regionVars

DeleteStep ==
  \/ DropEdge /\ LabelsFollow({}) /\ UNCHANGED <<violations, regionVars>>
  \/ /\ DropNode /\ Evict(victim)
     /\ LabelsFollow({}) /\ UNCHANGED violations

Skips == Head(queue).op = "Push" /\ idx[Head(queue).node] \in handled

\* A push to a handled member is dropped.
SkipHandled ==
  /\ Step("Push") /\ Skips
  /\ queue' = Tail(queue)
  /\ UNCHANGED <<value, cache, counters, seen, demanded, sections, authVars>>

\* The handled bits survive a drain that fails.
WarmStep ==
  /\ dirty = {}
  /\ \/ SkipHandled
     \/ TakesItem /\ ~Skips /\ (GatedReady \/ GatedConflicted)
     \/ TakesItem /\ ~Skips /\ PushIdle /\ UNCHANGED authVars
     \/ (StepDemand \/ StepStabilize \/ StepLimit) /\ UNCHANGED authVars
     \/ (StabilizeSection \/ DrainAgain) /\ UNCHANGED authVars
  /\ UNCHANGED regionVars

DrainEnd ==
  /\ dirty = {} /\ DrainEnds
  /\ handled' = IF sections = <<>> THEN {} ELSE handled
  /\ UNCHANGED <<authVars, regions, contracts, reads, dirty, dirtySlots>>

RegionStep == \E root \in dirty : RunRegion(root) \/ SkipRegion(root)

\* One operation out of three sets of them.
Calling(calls, authCalls, regionCalls) ==
  /\ pc = "idle"
  /\ \/ \E c \in calls : EngineCall(c)
     \/ \E c \in authCalls : (Declare(c) \/ Configure(c)) /\ UNCHANGED regionVars
     \/ \E c \in regionCalls : RegionDeclare(c.root, c.boundary, c.stability, c.compile)

TierCall == Calling(Calls, AuthCalls, RegionCalls)

TierWork == DeleteStep \/ RegionStep \/ WarmStep \/ DrainEnd

TierInit == Init /\ AuthInit /\ RegionInit

TierNext == TierCall \/ TierWork

TierSpec == TierInit /\ [][TierNext]_tierVars

FairTierSpec == TierSpec /\ WF_tierVars(TierWork)

-----------------------------------------------------------------------------
Artifact ==
  [members : Seq(Uid), rules : Seq(Rules), rows : Seq(Seq(Nat)), outputs : Seq(Nat),
   inputs : SUBSET Nat]

\* Every variable has its type; artifacts refer to slots that exist, the
\* dirty slots and roots are gone when the engine is idle.
RegionTypeOK ==
  /\ DOMAIN regions \subseteq DOMAIN contracts /\ DOMAIN contracts \subseteq Uid
  /\ \A r \in DOMAIN regions : /\ regions[r] \in Artifact
                               /\ ToSet(regions[r].outputs) \cup regions[r].inputs
                                    \subseteq DOMAIN cache
  /\ reads \subseteq (DOMAIN cache) \X (DOMAIN contracts)
  /\ dirty \subseteq DOMAIN contracts
  /\ dirtySlots \cup handled \subseteq DOMAIN cache
  /\ pc = "idle" => dirty = {} /\ dirtySlots = {}

\* The tables of partitions, labels and artifacts have their types.
TablesTypeOK == AuthTypeOK /\ RegionTypeOK
=============================================================================

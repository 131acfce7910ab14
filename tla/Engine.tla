------------------------------- MODULE Engine -------------------------------
(***************************************************************************)
(* The execution engine: Engine::apply and drain_and_stabilize             *)
(* (core-rs/src/engine.rs), the push, demand and drain steps they run      *)
(* (core-rs/src/propagate.rs) and the section stabilizer                   *)
(* (core-rs/src/egraph.rs), over the graph, the ValueStore and the         *)
(* DepRegistry.                                                            *)
(*                                                                         *)
(* The environment applies one ISA operation at a time, when the engine is *)
(* idle.  An operation that propagates leaves the engine in "drain", where *)
(* each step takes the work item at the head of the queue; sections queued *)
(* by the drain are then stabilized one by one and the drain runs again.   *)
(* DelNode removes the incident edges one by one before the node.          *)
(*                                                                         *)
(* Modelled: the warm tier in Advisory mode, with default edge labels and  *)
(* no compiled region.  Events, statistics, history, attributes, versions  *)
(* and adjacency epochs influence no value and are left out.               *)
(***************************************************************************)
EXTENDS Integers, Sequences, FiniteSets, Ternary, ValueStore, DepRegistry

CONSTANTS
  Calls,                \* the ISA operations the environment may apply
  Created,              \* ids created before the run, in order of creation
  Topologies,           \* what the nodes of Created may look like (Topology)
  Disciplined,          \* whether callers keep to fresh ids and pairs, and
                        \* write Input nodes only (nothing enforces either)
  MaxSteps,             \* Engine::max_steps
  MaxMembers,           \* budget of a section's members: 64 in the code
  MaxSlots, MaxDeps     \* bounds: slots ever allocated, dependencies counted

VARIABLES
  kind,                 \* graph.nodes: [Uid -> Kind], or Absent
  value,                \* graph.nodes: [Uid -> T], Neg when Absent
  edges,                \* graph.edges: set of edge records, one per id
  queue,                \* PropEngine::queue
  demanded,             \* PropEngine::demanded
  sections,             \* StabilizeQueued events not yet handled
  steps,                \* steps of the current drain
  pc,                   \* "idle", "drain", "stabilize" or "delete"
  victim                \* {n} while DelNode deletes n, else {}

graphVars == <<kind, value, edges>>
propVars == <<queue, demanded, sections, steps>>
control == <<pc, victim>>
vars == <<graphVars, storeVars, depVars, propVars, control>>

-----------------------------------------------------------------------------
Kind == Rules \cup {"Input"}
Absent == "Absent"
EdgeId == Uid \X Nat
PortKind == {"Signal", "Effort", "Flow", "Bond"}
Edge == [id: EdgeId, src: Uid, tgt: Uid, port: PortKind, remote: BOOLEAN]

WorkItem == [op: {"Push", "Demand"}, node: Uid]
              \cup [op: {"Stabilize"}, region: SUBSET Uid]

\* The ISA operations modelled here; a region None of Stabilize is the op
\* "StabilizeAll".
IsaOp == [op: {"NodeCreate"}, node: Uid, kind: Kind]
           \cup [op: {"EdgeConnect"}, edge: Edge]
           \cup [op: {"Subscribe"}, src: Uid, sub: Uid]
           \cup [op: {"SetValue"}, node: Uid, val: T]
           \cup [op: {"DelEdge"}, id: EdgeId]
           \cup [op: {"SetMode"}, node: Uid, mode: ExecMode]
           \cup [op: {"Propagate", "Demand", "DelNode", "Reflect"}, node: Uid]
           \cup [op: {"Stabilize"}, region: SUBSET Uid]
           \cup [op: {"StabilizeAll"}]

\* The engine starts after NodeCreate of each id of Created and EdgeConnect of
\* each dependency of `wiring`, in order; with Created = <<>> it is new.
Topology == [kind: [Uid -> Kind], mode: [Uid -> ExecMode], wiring: [Uid -> Seq(Uid)]]

ASSUME EngineAssumption ==
  /\ Uid \subseteq Nat /\ IsFiniteSet(Uid)
  /\ Calls \subseteq IsaOp
  /\ Created \in Seq(Uid)
  /\ \A i, j \in DOMAIN Created : Created[i] = Created[j] => i = j
  /\ Topologies \subseteq Topology
  /\ \A t \in Topologies, n \in Uid : \A i \in DOMAIN t.wiring[n] :
        {n, t.wiring[n][i]} \subseteq ToSet(Created)
  /\ Disciplined \in BOOLEAN
  /\ MaxSteps \in Nat /\ MaxMembers \in Nat /\ MaxSlots \in Nat /\ MaxDeps \in Nat

PushItem(n) == [op |-> "Push", node |-> n]
DemandItem(n) == [op |-> "Demand", node |-> n]
StabilizeItem(R) == [op |-> "Stabilize", region |-> R]

Live == {n \in Uid : kind[n] # Absent}

\* The clock advances: every gate opens again.
Tick == seen' = {}

\* A node takes a value: graph, cache and the counters of its subscribers.
Write(n, v) ==
  /\ value' = [value EXCEPT ![n] = v]
  /\ cache' = Stored(n, v)
  /\ counters' = Recount(n, value[n], v)

\* The subscribers S of n are queued behind q by ascending id, and the gates
\* of those pairs close; `shut` are the gates that were closed before.
PushSubs(n, S, q, shut) ==
  \E subs \in InOrder(S, <) :
    /\ queue' = q \o [i \in DOMAIN subs |-> PushItem(subs[i])]
    /\ seen' = shut \cup {<<n, s>> : s \in S}

StartDrain == pc' = "drain" /\ steps' = 0

-----------------------------------------------------------------------------
(* Operations on nodes and edges. *)

NodeCreate(n, k) ==
  /\ Len(cache) < MaxSlots
  /\ Disciplined => n \notin Live
  /\ kind' = [kind EXCEPT ![n] = k]
  /\ value' = [value EXCEPT ![n] = "Neg"]
  /\ modes' = [modes EXCEPT ![n] = "Eager"]
  /\ Alloc(n)
  /\ Tick
  /\ UNCHANGED <<edges, pairs, ordered, indices, counters, propVars, control>>

HasRoom(n) == Len(ordered[n]) < MaxDeps /\ Total(counters[n]) < MaxDeps

\* Port::preferred_mode; a Signal port has no preference.
Preferred(port) == CASE port = "Effort" -> {"Lazy"}
                     [] port = "Flow"   -> {"Eager"}
                     [] port = "Bond"   -> {"Stabilizing"}
                     [] port = "Signal" -> {}

EdgeConnect(e) ==
  /\ {e.src, e.tgt} \subseteq Live
  /\ HasRoom(e.tgt)
  /\ Disciplined => /\ <<e.src, e.tgt>> \notin pairs
                 /\ \A f \in edges : f.id # e.id
  /\ IF modes[e.tgt] = "Eager" /\ Preferred(e.port) # {}
       THEN \E m \in Preferred(e.port) : modes' = [modes EXCEPT ![e.tgt] = m]
       ELSE UNCHANGED modes
  /\ edges' = {f \in edges : f.id # e.id} \cup {e}
  /\ Subscribe(e.src, e.tgt, idx[e.src], StoreGet(e.src))
  /\ Tick
  /\ UNCHANGED <<kind, value, storeVars, propVars, control>>

\* The Subscribe operation asks for no node to exist.
SubscribeOp(src, sub) ==
  /\ HasRoom(sub)
  /\ Disciplined => {src, sub} \subseteq Live /\ <<src, sub>> \notin pairs
  /\ Subscribe(src, sub, idx[src], StoreGet(src))
  /\ Tick
  /\ UNCHANGED <<graphVars, storeVars, modes, propVars, control>>

\* One edge leaves the graph and its pair the registry.
RemoveEdge(e) ==
  /\ edges' = edges \ {e}
  /\ Unsubscribe(e.src, e.tgt, StoreGet(e.src))

DelEdge(id) ==
  /\ \E e \in edges : e.id = id /\ ~e.remote /\ RemoveEdge(e)
  /\ Tick
  /\ UNCHANGED <<kind, value, storeVars, modes, propVars, control>>

dangling_edges(n) == {e \in edges : n \in {e.src, e.tgt}}

\* A node with a remote edge is not deleted.
DelNode(n) ==
  /\ \A e \in dangling_edges(n) : ~e.remote
  /\ pc' = "delete" /\ victim' = {n}
  /\ UNCHANGED <<graphVars, storeVars, depVars, propVars>>

\* The code removes the incident edges by ascending id; the removals commute.
DropEdge ==
  /\ pc = "delete"
  /\ \E n \in victim : \E e \in dangling_edges(n) : RemoveEdge(e)
  /\ UNCHANGED <<kind, value, storeVars, modes, seen, propVars, control>>

DropNode ==
  /\ pc = "delete"
  /\ \E n \in victim :
       /\ dangling_edges(n) = {}
       /\ kind' = [kind EXCEPT ![n] = Absent]
       /\ value' = [value EXCEPT ![n] = "Neg"]
       /\ RemoveNode(n)
       /\ Dealloc(n)
  /\ Tick
  /\ pc' = "idle" /\ victim' = {}
  /\ UNCHANGED <<edges, propVars>>

SetMode(n, m) ==
  /\ n \in Live
  /\ modes' = [modes EXCEPT ![n] = m]
  /\ Tick
  /\ UNCHANGED <<graphVars, storeVars, pairs, ordered, indices, counters,
                 propVars, control>>

-----------------------------------------------------------------------------
(* Operations that write a value or queue work, and then drain. *)

\* Mutant: a write pushes every subscriber.
EagerSubs_all(n) == Subs(n)

EagerSubs(n) == {s \in Subs(n) : modes[s] = "Eager"}

\* SetValue and Reflect: the clock has just advanced, so every gate is open.
WriteAndPush(n, v) ==
  /\ n \in Live
  /\ Disciplined => kind[n] = "Input"
  /\ Write(n, v)
  /\ PushSubs(n, EagerSubs(n), queue, {})
  /\ StartDrain
  /\ UNCHANGED <<kind, edges, idx, pairs, ordered, indices, modes,
                 demanded, sections, victim>>

\* Writing the value a node already has returns before the clock advances.
SetValue(n, v) == v # value[n] /\ WriteAndPush(n, v)

Reflect(n) == WriteAndPush(n, mv_neg(value[n]))

\* The clock advances before the node is found to be missing.
ReflectMissing(n) ==
  /\ n \notin Live
  /\ Tick
  /\ UNCHANGED <<graphVars, storeVars, pairs, ordered, indices, modes,
                 counters, propVars, control>>

\* Propagate and Demand: one work item, queued behind what is there.
Request(item) ==
  /\ queue' = Append(queue, item)
  /\ Tick
  /\ StartDrain
  /\ UNCHANGED <<graphVars, storeVars, pairs, ordered, indices, modes,
                 counters, demanded, sections, victim>>

-----------------------------------------------------------------------------
(* run_stabilize *)

\* S holds the seeds of N and, with a node, its Zero dependencies of N.
ClosedIn(N, S, seeds) ==
  /\ seeds \cap N \subseteq S
  /\ \A m \in S : \A d \in Deps(m) \cap N : value[d] = "Zero" => d \in S

\* What an expansion from the seeds reaches that stays within N.
Reach(N, seeds) ==
  {m \in N : \A S \in SUBSET N : ClosedIn(N, S, seeds) => m \in S}

\* Mutant: the section is not extended to the Zero dependencies.
SectionRegions_seeds_only(seeds) == {seeds \cap Live}

\* build_section_region: the members a section may have.  The expansion
\* breaks off when a further node would exceed the budget; the seeds come
\* first.  (In which order it takes the seeds and the dependencies, and so
\* which ones a section that is cut off keeps, is left open.)
SectionRegions(seeds) ==
  {M \in SUBSET Live :
     /\ M = Reach(M, seeds)
     /\ M \subseteq seeds \/ seeds \cap Live \subseteq M
     /\ Cardinality(M) <= MaxMembers
     /\ Cardinality(M) < MaxMembers => M = Reach(Live, seeds)}

\* The e-graph accepts v for the section M only if every member's expression
\* is the constant v.  That of an Input is its value, and that of a rule with
\* nothing connected is the rule over Neg literals.  A dependency outside M,
\* Zero or not, is a pin: a symbol without a value.  Which other expressions
\* reduce to a constant, with pins in them too, is left to the external e-graph.
MayResolve(M, v) ==
  /\ M # {}
  /\ v \in {"Neg", "Pos"}
  /\ \A m \in M :
       /\ kind[m] = "Input" => v = value[m]
       /\ kind[m] # "Input" /\ ordered[m] = <<>> =>
            v = Eval(kind[m], <<"Neg", "Neg", "Neg">>)

\* Bound: a section is resolved while the counters of its subscribers are short.
CounterRoom(S) == \A p \in pairs : p[1] \in S => Total(counters[p[2]]) <= MaxDeps

\* Every Zero member takes v and its open Eager subscribers are queued; the
\* counters of the subscribers are not touched, so that a later write of the
\* member may add to their total for good.  The clock advances last.
Resolve(M, v) ==
  LET zero == {m \in M : value[m] = "Zero"}
      open == {p \in pairs \ seen : p[1] \in zero /\ modes[p[2]] = "Eager"}
      lex(p, q) == p[1] < q[1] \/ (p[1] = q[1] /\ p[2] < q[2])
  IN  /\ MayResolve(M, v)
      /\ CounterRoom(zero)
      /\ value' = [n \in Uid |-> IF n \in zero THEN v ELSE value[n]]
      /\ cache' = StoredAll(zero, v)
      /\ \E order \in InOrder(open, lex) :
           queue' = queue \o [i \in DOMAIN order |-> PushItem(order[i][2])]
      /\ Tick

\* A refused section changes nothing (no code path produces the Informational
\* refusal, on which the dependencies would be demanded).
Unresolved == UNCHANGED <<value, cache, queue>>

\* The operation stabilizes and ticks, and does not drain.
Stabilize(seeds) ==
  /\ \/ \E M \in SectionRegions(seeds), v \in T : Resolve(M, v)
     \/ Unresolved /\ Tick
  /\ UNCHANGED <<kind, edges, idx, pairs, ordered, indices, modes, counters,
                 demanded, sections, steps, control>>

ZeroNodes == {n \in Live : value[n] = "Zero"}

-----------------------------------------------------------------------------
(* One operation of the environment; a call the code rejects, or that it   *)
(* finds nothing to do for, changes nothing and has no step.               *)
Apply(c) ==
  \/ c.op = "NodeCreate" /\ NodeCreate(c.node, c.kind)
  \/ c.op = "EdgeConnect" /\ EdgeConnect(c.edge)
  \/ c.op = "Subscribe" /\ SubscribeOp(c.src, c.sub)
  \/ c.op = "SetValue" /\ SetValue(c.node, c.val)
  \/ c.op = "Propagate" /\ Request(PushItem(c.node))
  \/ c.op = "DelNode" /\ DelNode(c.node)
  \/ c.op = "DelEdge" /\ DelEdge(c.id)
  \/ c.op = "Demand" /\ Request(DemandItem(c.node))
  \/ c.op = "SetMode" /\ SetMode(c.node, c.mode)
  \/ c.op = "Reflect" /\ (Reflect(c.node) \/ ReflectMissing(c.node))
  \/ c.op = "Stabilize" /\ Stabilize(c.region)
  \/ c.op = "StabilizeAll" /\ Stabilize(ZeroNodes)

-----------------------------------------------------------------------------
(* One step of the drain: the item at the head of the queue. *)

DepCount(n) == IF indices[n] # <<>> THEN Len(indices[n]) ELSE Len(ordered[n])

\* The counters answer for an aggregate rule when they count every dependency.
FastPath(n) ==
  /\ kind[n] \in {"MeetAll", "JoinAny"} /\ modes[n] # "Stabilizing"
  /\ DepCount(n) > 0 /\ Total(counters[n]) = DepCount(n)

\* Otherwise the dependencies are read: by slot, or through the graph when no
\* slot was recorded for any of them.
DepVals(n) == IF indices[n] # <<>>
                THEN [i \in DOMAIN indices[n] |-> cache[indices[n][i]]]
                ELSE [i \in DOMAIN ordered[n] |-> value[ordered[n][i]]]

\* Mutant: a node with a pending dependency waits, conflict or not.
DepState_waits(n) ==
  IF Occurs("Neg", DepVals(n)) THEN "Pending" ELSE propagation_state(DepVals(n))

DepState(n) ==
  IF FastPath(n)
    THEN CASE EvalAggregate(counters[n]) = "Zero" -> "Conflicted"
           [] EvalAggregate(counters[n]) = "Neg"  -> "Pending"
           [] EvalAggregate(counters[n]) = "Pos"  -> "Ready"
    ELSE propagation_state(DepVals(n))

ReadyValue(n) == IF FastPath(n) THEN "Pos" ELSE Eval(kind[n], DepVals(n))

TakesItem == pc = "drain" /\ queue # <<>> /\ steps < MaxSteps

Step(op) == /\ TakesItem /\ Head(queue).op = op
            /\ steps' = steps + 1
            /\ UNCHANGED <<kind, edges, idx, pairs, ordered, indices, modes,
                           control>>

Computes(n) == n \in Live /\ kind[n] # "Input"

\* Missing and Input nodes, and nodes whose dependencies are Pending.
PushIdle ==
  /\ Step("Push")
  /\ LET n == Head(queue).node IN Computes(n) => DepState(n) = "Pending"
  /\ queue' = Tail(queue)
  /\ UNCHANGED <<value, cache, counters, seen, demanded, sections>>

\* All dependencies Pos: the rule's value is pushed on if it is new.  Nothing
\* is pushed over a pair of `refused` (none in Advisory mode).
PushReadyTo(refused) ==
  /\ Step("Push")
  /\ LET n == Head(queue).node
         subs == {s \in OpenSubs(n, demanded) : <<n, s>> \notin refused} IN
       /\ Computes(n) /\ DepState(n) = "Ready"
       /\ \/ /\ ReadyValue(n) = value[n]
             /\ queue' = Tail(queue)
             /\ UNCHANGED <<value, cache, counters, seen>>
          \/ /\ ReadyValue(n) # value[n]
             /\ Write(n, ReadyValue(n))
             /\ PushSubs(n, subs, Tail(queue), seen)
  /\ UNCHANGED <<demanded, sections>>

\* Some dependency Zero: the node becomes Zero.  An Eager node infects its
\* subscribers even when it was Zero already; a Stabilizing one queues its
\* section twice, as a work item and as an event.
PushConflictedTo(refused) ==
  /\ Step("Push")
  /\ LET n == Head(queue).node
         subs == {s \in OpenSubs(n, demanded) : <<n, s>> \notin refused}
         section == ToSet(ordered[n]) \cup {n} IN
       /\ Computes(n) /\ DepState(n) = "Conflicted"
       /\ IF value[n] = "Zero" THEN UNCHANGED <<value, cache, counters>>
                               ELSE Write(n, "Zero")
       /\ \/ /\ modes[n] = "Eager"
             /\ PushSubs(n, subs, Tail(queue), seen)
             /\ UNCHANGED sections
          \/ /\ modes[n] = "Lazy"
             /\ queue' = Tail(queue)
             /\ UNCHANGED <<seen, sections>>
          \/ /\ modes[n] = "Stabilizing"
             /\ queue' = Append(Tail(queue), StabilizeItem(section))
             /\ sections' = Append(sections, section)
             /\ UNCHANGED seen
  /\ UNCHANGED demanded

PushReady == PushReadyTo({})

PushConflicted == PushConflictedTo({})

\* step_demand: the Neg dependencies are demanded first, each put before the
\* previous one at the front of the queue; the node is pushed at the back.
StepDemand ==
  /\ Step("Demand")
  /\ LET n == Head(queue).node
         pending == {d \in Deps(n) : value[d] = "Neg"} IN
       /\ \E front \in InOrder(pending, >) :
            queue' = [i \in DOMAIN front |-> DemandItem(front[i])]
                       \o Append(Tail(queue), PushItem(n))
       /\ demanded' = demanded \cup {n}
  /\ UNCHANGED <<value, cache, counters, seen, sections>>

StepStabilize ==
  /\ Step("Stabilize")
  /\ queue' = Tail(queue)
  /\ sections' = Append(sections, Head(queue).region)
  /\ UNCHANGED <<value, cache, counters, seen, demanded>>

\* StepLimitExceeded: the item taken is lost, the rest of the queue and the
\* demanded set stay for the next operation.
StepLimit ==
  /\ pc = "drain" /\ queue # <<>> /\ steps >= MaxSteps
  /\ queue' = Tail(queue)
  /\ sections' = <<>>
  /\ steps' = 0 /\ pc' = "idle"
  /\ UNCHANGED <<graphVars, storeVars, depVars, demanded, victim>>

DrainEnds ==
  /\ pc = "drain" /\ queue = <<>>
  /\ demanded' = {}
  /\ steps' = 0
  /\ pc' = IF sections = <<>> THEN "idle" ELSE "stabilize"
  /\ UNCHANGED <<graphVars, storeVars, depVars, queue, sections, victim>>

\* Mutant: a handled section stays queued.
StabilizeSection_again ==
  /\ pc = "stabilize" /\ sections # <<>>
  /\ \/ \E M \in SectionRegions(Head(sections)), v \in T : Resolve(M, v)
     \/ Unresolved /\ UNCHANGED seen
  /\ UNCHANGED <<kind, edges, idx, pairs, ordered, indices, modes, counters,
                 demanded, sections, steps, control>>

\* Each queued section in turn; a resolved one ticks the clock.
StabilizeSection ==
  /\ pc = "stabilize" /\ sections # <<>>
  /\ \/ \E M \in SectionRegions(Head(sections)), v \in T : Resolve(M, v)
     \/ Unresolved /\ UNCHANGED seen
  /\ sections' = Tail(sections)
  /\ UNCHANGED <<kind, edges, idx, pairs, ordered, indices, modes, counters,
                 demanded, steps, control>>

\* The loop of drain_and_stabilize starts over.
DrainAgain ==
  /\ pc = "stabilize" /\ sections = <<>>
  /\ pc' = "drain"
  /\ UNCHANGED <<graphVars, storeVars, depVars, propVars, victim>>

-----------------------------------------------------------------------------
\* Created[i] was given slot i.
SlotOf(n) == IF n \in ToSet(Created) THEN CHOOSE i \in DOMAIN Created : Created[i] = n
             ELSE 0

InitTopology(t) ==
  /\ kind = [n \in Uid |-> IF n \in ToSet(Created) THEN t.kind[n] ELSE Absent]
  /\ edges = UNION {{[id |-> <<n, i>>, src |-> t.wiring[n][i], tgt |-> n,
                      port |-> "Signal", remote |-> FALSE] :
                        i \in DOMAIN t.wiring[n]} : n \in Uid}
  /\ pairs = {p \in Uid \X Uid : p[1] \in ToSet(t.wiring[p[2]])}
  /\ ordered = t.wiring
  /\ indices = [n \in Uid |->
       [i \in DOMAIN t.wiring[n] |-> SlotOf(t.wiring[n][i])]]
  /\ modes = t.mode
  /\ counters = [n \in Uid |-> [NoDeps EXCEPT !["Neg"] = Len(t.wiring[n])]]

\* Nothing has been written, and the engine is idle.
Fresh ==
  /\ value = [n \in Uid |-> "Neg"]
  /\ cache = [i \in DOMAIN Created |-> "Neg"]
  /\ idx = [n \in Uid |-> SlotOf(n)]
  /\ seen = {}
  /\ queue = <<>> /\ demanded = {} /\ sections = <<>> /\ steps = 0
  /\ pc = "idle" /\ victim = {}

Init == Fresh /\ \E t \in Topologies : InitTopology(t)

Call == pc = "idle" /\ \E c \in Calls : Apply(c)

\* The work apply does before it returns.
Work == \/ DropEdge \/ DropNode
        \/ PushIdle \/ PushReady \/ PushConflicted \/ StepDemand \/ StepStabilize
        \/ StepLimit \/ DrainEnds \/ StabilizeSection \/ DrainAgain

Next == Call \/ Work

Spec == Init /\ [][Next]_vars

\* apply runs to completion in the caller's thread.
FairSpec == Spec /\ WF_vars(Work)

-----------------------------------------------------------------------------
(* Properties *)

\* Every variable has its type; slots that are referred to exist.
TypeOK ==
  /\ kind \in [Uid -> Kind \cup {Absent}]
  /\ value \in [Uid -> T]
  /\ edges \subseteq Edge
  /\ cache \in Seq(T)
  /\ idx \in [Uid -> 0 .. Len(cache)]
  /\ pairs \subseteq Uid \X Uid
  /\ ordered \in [Uid -> Seq(Uid)]
  /\ indices \in [Uid -> Seq(1 .. Len(cache))]
  /\ modes \in [Uid -> ExecMode]
  /\ counters \in [Uid -> [T -> Nat]]
  /\ seen \subseteq Uid \X Uid
  /\ queue \in Seq(WorkItem)
  /\ demanded \subseteq Uid
  /\ sections \in Seq(SUBSET Uid)
  /\ steps \in 0 .. MaxSteps
  /\ pc \in {"idle", "drain", "stabilize", "delete"}
  /\ victim \subseteq Uid

\* "ValueStore::cache[idx] and Graph::node(id).value are always identical for
\* live nodes" (value_store.rs): no write, creation, deletion or re-creation
\* of a node, in any order, separates the two copies of its value.
CacheCoherent == \A n \in Live : idx[n] # 0 /\ cache[idx[n]] = value[n]

GraphDepVals(n) == [i \in DOMAIN ordered[n] |-> value[ordered[n][i]]]

\* What a push step is told about the dependencies of a node, by the counters
\* or by the slots, is what the graph says of them (propagate.rs: the counter
\* shortcut "is exact under this engine's propagation model").
DepsReadExactly ==
  \A n \in Live : kind[n] # "Input" =>
    DepState(n) = propagation_state(GraphDepVals(n))

\* Each recorded slot is the current slot of the dependency at its position
\* (deps.rs: the list is "parallel to ordered_deps").
IndicesParallel ==
  \A n \in Live : indices[n] = [i \in DOMAIN ordered[n] |-> idx[ordered[n][i]]]

\* A live dependency list refers only to slots of live nodes: "no live dep
\* list will ever reference a tombstone slot" (value_store.rs).
NoTombstoneRead ==
  \A n \in Live : \A i \in DOMAIN indices[n] :
    \E m \in Live : idx[m] = indices[n][i]

Quiescent == pc = "idle" /\ queue = <<>>

Consistent(n) ==
  LET vals == GraphDepVals(n) IN
  CASE propagation_state(vals) = "Ready"      -> value[n] = Eval(kind[n], vals)
    [] propagation_state(vals) = "Conflicted" -> value[n] = "Zero"
    [] propagation_state(vals) = "Pending"    -> TRUE

Derived(n) == n \in Live /\ kind[n] # "Input" /\ ordered[n] # <<>>

\* At quiescence every Eager derived node shows what its rule makes of its
\* dependencies: conflicts have infected it, a conflict that was lifted has
\* left it, and the rule has fired if every dependency is Pos (abi.md,
\* "Conflict infection", "Pending suspension", "Rule firing").
Settled ==
  Quiescent => \A n \in Uid : Derived(n) /\ modes[n] = "Eager" => Consistent(n)

\* The gates, not the step limit ("safety against cycles"), end a propagation:
\* every item but a requested one stands for a gate closed since the clock
\* last advanced, so a drain takes no more steps than there are pairs, plus
\* one, on any graph.
WorkBounded ==
  pc = "drain" => steps + Len(queue) <= Cardinality(seen \cap pairs) + 1

\* When a demand has been served, every node demanded on the way is the value
\* of its rule over its dependencies, or still Pending.
ServesDemands == DrainEnds => \A n \in demanded : Derived(n) => Consistent(n)

\* A Lazy node is not recomputed in a drain that did not demand it.
LazyWaitsForDemand ==
  [][\A n \in Uid : modes[n] = "Lazy" /\ (PushReady \/ PushConflicted)
       /\ value'[n] # value[n] => n \in demanded]_vars

\* The seeds of the section a step stabilizes, if it stabilizes one: those of
\* the event at the head, or of a call.
Sought == IF pc = "stabilize" THEN {Head(sections)}
          ELSE {ZeroNodes} \cup {c.region : c \in {d \in Calls : d.op = "Stabilize"}}

\* The stabilizer (a step that neither drains, nor starts to, nor deletes)
\* never clears a conflict that still has its cause: a node it resolves is left
\* without a Zero dependency (egraph.rs, stabilize_section: a section is
\* accepted as a whole or not at all), unless what the seeds reach is beyond
\* the budget, where the section is cut off and its cause may be a pin.
ClearsWholeConflicts ==
  [][\A n \in Uid : value[n] = "Zero" /\ value'[n] # "Zero" /\ pc' # "drain"
       /\ kind'[n] \in Rules /\ pc # "delete" =>
         \/ \A d \in Deps(n) \cap Live : value'[d] # "Zero"
         \/ \E seeds \in Sought : Cardinality(Reach(Live, seeds)) > MaxMembers]_vars

\* apply returns.
Returns == pc # "idle" ~> pc = "idle"
=============================================================================

# Verification of pgress

pgress is a reactive dataflow engine over a ternary domain (`Neg` absent or
pending, `Zero` conflicted, `Pos` confirmed). `src/core-rs` is the engine:
callers apply ISA operations that build a graph of nodes and write values, and
the engine propagates the values, infects what depends on a conflict, and tries
to resolve conflicts with an e-graph. `src/session-rs` is the session layer in
front of pools of engines: wire decoding, sessions and paths, authority,
admission, placement on shards, health gossip. The rest of the repository is
Python bindings, a demo, benchmarks and hardware descriptions.

This directory holds TLA+ modules translated from that code, TLC instances that
check them, and TLAPS proofs about the engine, its two tiers and its authority
gate, the pure operators, the dispatcher, the session runtime and the simulated
cluster.

## 1. Inventory

State, operations and correctness of every component; the file names are
relative to `src/core-rs/src` and `src/session-rs/src`.

### The engine (core-rs)

| Component | State | Operations | What makes it correct |
|---|---|---|---|
| Ternary domain (`ternary.rs`), compute rules (`node.rs`) | none | tables, folds over dependency lists, `propagation_state`, `ComputeRule::eval` | tables are the clamped arithmetic of their comments; folds with early exits and unrolled arms equal the iterated operation; the state test agrees with every rule |
| Graph (`graph.rs`, `node.rs`) | nodes with kind, value and version; edges; an index of the edges at each node | add and remove nodes and edges, `dangling_edges` | no edge at a node that is gone |
| ValueStore (`value_store.rs`) | dense `cache`, bit planes, id -> slot map | `alloc`, `get`, `set`, `dealloc` | every live node's slot holds the node's value; no live list refers to a tombstone |
| DepRegistry (`deps.rs`) | upstream and downstream sets, ordered lists with parallel slot lists, `DepMeta` per pair, modes, counters per subscriber | `subscribe*`, `unsubscribe`, `remove_node`, counter updates, the gate `should_propagate` | lists stay parallel; counters are the distribution of the dependency values; a pair is pushed once per tick |
| Propagation (`propagate.rs`) | work queue, demanded set, events | `step_push`, `step_demand`, `drain` | values at rest are those of the rules; drains terminate; Lazy nodes wait for demands |
| Engine (`engine.rs`, `isa.rs`) | all of the above, causal clock, history, compiled tier | `apply` of one `IsaOp`, `drain_and_stabilize` | every write reaches graph, cache, counters and subscribers; a failed drain leaves the engine usable |
| Section stabilizer (`egraph.rs`) | port histories | `build_section_region`, `stabilize_section` (external `egg` library) | a conflict is not cleared while its cause stays |
| Compiled regions (`region.rs`) | compiled circuits by root, contracts, the map from input slots to roots, dirty roots and slots, handled members | `compile_region`, `mark_input_dirty`, `run_compiled_region`, `invalidate_for_node` | a circuit follows its inputs; what is outside it still reads exactly; the hint changes no value (it does, see Findings) |
| Partitions, labels, masks (`partition.rs`, `delta.rs`, `mask.rs`) | partition declarations, node bindings, compiled edge labels, mode and policy | declare, bind, label, configure, gate pushes (Advisory, Audit, Enforced) | Enforced lets no unauthorised push pass; the other modes change nothing |
| Causal time (`time.rs`, `delta.rs`) | a clock of five dimensions, `last_seen` and projection per pair | `advance`, `join`, `meet`, dominance, frontiers, `should_propagate` | a gate is open exactly when something it observes is new; frontiers forget nothing |
| Streams, sensitivity (`stream.rs`, `sensitivity.rs`) | lists of remote deltas, triggers | pure operators | what a sensitivity reacts to; the engine calls neither |
| Attributes, ids (`attr.rs`, `uid.rs`) | plain data | constructors | none |

### The session layer (session-rs)

| Component | State | Operations | What makes it correct |
|---|---|---|---|
| Sessions and paths (`session.rs`) | sessions with active and draining path, replay floor, activity, quiescence counter; path states | create, terminate, `migrate_path`, `retire_draining_path`, `ack_seq`, `reap` | at most the path a session names is active; replays below the floor are refused; live sessions are not reaped |
| Decoder, encoder (`decode.rs`, `encode.rs`, `opcode.rs`, `parse_payload` in `dispatch.rs`) | last sequence number per session, epoch floor | frame, validate, write and read payloads | what is written is what is read; a relay changes nothing more; a payload cut short is refused |
| Runtime (`runtime.rs`, `admission.rs`, `telemetry.rs`, `recovery.rs`) | the tables, pressure per shard, telemetry ring | `route_record`, `update_pressure`, quiescence notices, reaper | active sessions outlive the reaper; the ring tells one story and counts its gaps |
| Authority (`auth.rs`, `profile.rs`, `domain.rs`) | authority rows, trust store, tenants, domains | gate, verify profiles, effective policy | the gates hold for a session what it was granted in its present life, under the ceiling of its tenant |
| Dispatcher (`dispatch.rs`, `topology.rs`) | engine pool, partition placement, shard health | `ingest`, placement, feedback of control operations | a partition's records reach the shard that holds it |
| Cluster simulation (`sim/`) | one runtime per simulated shard, lossy delayed network, faults | tick, deliver, crash, heal, partition | health views converge; a crash is noticed |

### Other parts

Python bindings (`src/py`), the demo (`src/demo`) and benchmarks pass operations
through. `src/rtl` and the assembly kernels are separate implementations of the
region circuits and are not linked to the engine.

### How the components interact

A caller holds the engine by exclusive reference: `apply` runs one operation to
completion in the caller's thread, so nothing interleaves *between* callers.
Inside a call everything is data-driven interleaving: the queue order, the
gates, the counters and the slots together decide which nodes are recomputed
and what they read. `apply` calls DepRegistry, ValueStore and Graph directly;
`drain_and_stabilize` loops over `PropEngine::drain` and the stabilizer. A
failing drain (`StepLimitExceeded`) returns in the middle of all that and the
next call resumes on the state it left. The session layer calls `Engine::apply`
per record and feeds queue statistics back into admission; simulated shards
exchange health messages over an unreliable network.

The hard behaviours, with the line at which each bites, are the `hazards` of
`PROJECT.json`.

## 2. Modules

| Module | Models | Notes |
|---|---|---|
| `Ternary` | `ternary.rs`, rules of `node.rs` | pure operators, folds in closed form |
| `ValueStore` | `value_store.rs` | `cache`, `idx` (slots from 1; 0 is "no slot") |
| `DepRegistry` | `deps.rs` | `pairs`, `ordered`, `indices`, `modes`, `counters`, `seen` |
| `Engine` | `engine.rs`, `propagate.rs`, `graph.rs`, `egraph.rs` | EXTENDS the three above; the warm tier as a state machine |
| `Dataflow` | what the engine promises about values (`spec/abi.md`, propagation semantics) | abstract specification: a write is one synchronous wave |
| `EngineObserved` | what a caller of `Engine::value_of` sees | `Engine` with the auxiliary variable `settled`; refines `Dataflow` |
| `Stabilized` | what the stabilizer has done so far | `Engine` with a history variable, on which the promises of `families` and `tiers` depend |
| `Authority` | `partition.rs`, `try_auth`, the authority operations | EXTENDS `Engine`; the gate a push passes |
| `Regions` | `region.rs`, both tiers of `drain_and_stabilize` | EXTENDS `Authority`; the whole engine |
| `TiersObserved` | where queued work came from, what was ever compiled, what followed its inputs | `Regions` with the notes its properties are about |
| `Causality` | `time.rs`, `delta.rs`, `sensitivity.rs`, `stream.rs` | pure operators: times, clocks, frontiers, projections |
| `CausalGate` | the gates of `deps.rs` in product time | why one set `seen` is enough in `Engine` |
| `Topology` | `admission.rs`, `topology.rs` | pure operators: pressure, ternary health, admission, the nearest healthy shard |
| `Gossip` | `sim/` | the simulated cluster over `Topology`: its ticks and its driver |
| `Sessions` | `session.rs` | `sessions` and `paths`, the operations of both tables |
| `Dispatcher` | `dispatch.rs`, `runtime.rs`, `decode.rs`, `opcode.rs` | EXTENDS `Sessions` and `Topology`; the way of one record from the wire to the engine |
| `Policies` | `auth.rs`, `profile.rs`, `decode.rs` | pure operators: policies, rows, profiles |
| `SessionRuntime` | `runtime.rs`, `session.rs`, `domain.rs`, `telemetry.rs`, `dispatch.rs` | EXTENDS `Policies` and `Topology`; sessions through several lives |
| `Wire` | `write_payload` of `encode.rs`, `parse_payload` of `dispatch.rs` | payloads as fields with widths |
| `TernaryCheck` | | enumerates dependency lists and compares `Ternary` with reference definitions |
| `EngineProofs`, `WorkProofs`, `TierProofs`, `OperatorProofs`, `WireProofs`, `DispatcherProofs`, `RuntimeProofs`, `GossipProofs` | | theorems, section 5 |
| `MCEngine`, `MCFamilies`, `MCTiers`, `MCDivergence`, `MCHint`, `MCOperators`, `MCWire`, `MCDispatcher`, `MCRuntime`, `MCGossip` | | operations, topologies and bounds of the runs |

The two halves meet in `Dispatcher`: what the engine does with a record is there
only the queue depth it reaches, which is all that the session layer reads of it.
`Dispatcher` and `SessionRuntime` model the same records from two sides: the first
what happens to their paths, numbers and shards, the second the gates they pass,
the life of their session and the telemetry they leave.

### State and actions of `Engine`

* `kind`, `value`, `edges`: `Graph`. A node that does not exist has kind
  `Absent` and value `Neg`, which is what `unwrap_or(T::Neg)` reads.
* `cache`, `idx`: `ValueStore`; the bit planes mirror the cache and are left out.
* `pairs` is the one relation behind the upstream set, the downstream set and
  `DepMeta`, which the code updates together. `seen` holds the pairs whose gate
  is closed: with default labels `should_propagate` is false exactly when the
  pair was stamped after the last tick of the clock. Every operation ticks it
  (`Engine::log`), which empties `seen`. That this set says what the clock and
  `last_seen` say is a theorem about `CausalGate` (`ClosedGatesAreSeen`).
* `queue`, `demanded`: `PropEngine`; `sections`: the `StabilizeQueued` events of
  the drain; `steps`: its counter.
* `pc`, `victim`: where the running call is. `Apply(c)` is the part of
  `Engine::apply` before the drain; `PushIdle`, `PushReady`, `PushConflicted`,
  `StepDemand` and `StepStabilize` each take the item at the head of the queue
  (`drain`); `StepLimit` is the error exit; `DrainEnds`, `StabilizeSection` and
  `DrainAgain` are the loop of `drain_and_stabilize`; `DropEdge` and `DropNode`
  are the steps of `DelNode`.
* `PushReadyTo(refused)` and `PushConflictedTo(refused)` leave out the subscribers
  that the authority gate refuses; module `Engine` takes them with no refusal.

Choices the model leaves open, all over-approximations:

* `SectionRegions`: the members of a section. Its closure is taken while it has no more
  than `MaxMembers` members (64 in the code). Beyond that the code breaks its walk off;
  the order of the walk is left open here, so that any set of that many reached nodes
  that takes the seeds first may be the section. What is left out is a pin, Zero or not.
* `MayResolve`: which sections the external `egg` saturation reduces to one
  constant. The model only keeps what is certain (an Input is the constant of
  its value, a rule without dependencies is the rule over `Neg` literals).
* The order in which `DelNode` removes incident edges (the removals commute).

`Disciplined` is a constant of the model: with it, callers create fresh ids and
connect fresh pairs and write Input nodes only. Nothing in the code enforces
that, so the properties that need it say so by their run, and the others are
checked without it.

### State and actions of `Authority` and `Regions`

* `amode`, `unbound`: the mode and the policy for sources without a partition;
  `decls`, `bound`, `labels`: declarations, bindings and the compiled label of
  each pair; `violations`: the `AuthViolation` events of the call. Bit fields are
  sets of bits. `Declare` is one of the logged operations, `Configure` a setting of
  the host.
* `GatedReady` and `GatedConflicted` are the pushes of `Engine` minus what `Refused`
  says, which is `try_auth`: the gate is asked for a subscriber after its causal
  gate was found open and before it is closed and the subscriber queued.
* `regions`, `contracts`, `reads`: `RegionArtifactCache`. `RegionDeclare` compiles one
  of the `Circuits` its members have (any topological order, any order of unrecorded
  dependencies, since both come out of hash maps) or none. `Evict` is
  `invalidate_for_node`.
* `dirty`, `dirtySlots`: what a write marks; `RunRegion` is one compiled root of
  `drain_and_stabilize`, in any order; `handled`: the members whose pushes
  `SkipHandled` drops in the warm drain. `DrainEnd` clears it, `StepLimit` does not.

`TierNext` is the whole engine: the operations of `Engine` with what each does to
labels and artifacts (`EngineCall`), the operations above, and the work of a call.

### `Causality` and `CausalGate`

A time is a function from the five dimensions to numbers. `CausalGate` keeps the
clock and, per dependency, the label and `last_seen` of its `DepMeta`; `Write` is a
write that pushes without asking, `Push` a push through an open gate. `news` is a
history variable: the dimensions that ticked since the last push. Beside the gates
it has frontiers that take in times, join and meet, with `known`, the times they
should remember.

### State and actions of `Dispatcher`

* `stream`, `seen`: the decoder of the connection, that is the path of its
  preamble and the last sequence number it took. `Connect` is a new connection
  with a new decoder.
* `sessions`, `paths`: `SessionTable` and `PathTable` as functions on the ids
  they hold. The entry of a session keeps its active path, the path that drains
  and the replay floor.
* `partitions`, `pressure`, `peak`, `hosted`: the partitions the runtime has
  placed, the pressure it holds of each shard, the largest queue depth each
  engine has reached (which is what `pressure_snapshot` reports, since the
  statistics are never reset), and the partitions each engine was told of.
* `applied` counts how often a record of a session reached an engine. It is a
  history variable; it starts anew with the session.
* One action is one call of `process_record`, which holds the runtime
  exclusively: `HandleProfile` (a hello creates or migrates the session),
  `ApplyRecord` (admitted, applied, pressure reported), `EngineFails` (applied,
  and the call ends before anything is reported), `CreatePartition` (applied on
  the shard of the record's own partition, pressure reported, then placed) and
  `Discard`, a record that some gate refuses after the decoder took it. `Discard`
  stands for every refusal that depends on state this module leaves out
  (`SessionRuntime` has it), so it is always possible.
* `LocalBootstrap`, `Acknowledge`, `Retire`, `Terminate` and `UpdatePressure` are
  the calls of the host between records.

What is asked of the host and the peers, since the code checks none of it: a
path id belongs to one session (`Owner`); whoever terminates a session takes its
partitions and its paths out of the tables too (the comment on `terminate` leaves
the paths to the caller); the two session tables are bootstrapped together
(`spec/integration.md`).

A hello may come on any path of its session, on the active one too. Such a repeated
hello enters the path as Active again (`dispatch.rs:986-988`), but also makes it its own
predecessor, and `retire_draining_path` then closes the path in use: the session goes on
with an active path that is Closed, until the next hello. This is part of what is
checked: `OneActivePath` says what holds after any hellos, and `ActiveUntilRepeated`
that nothing but this sequence takes an Active path away from a live session.

### State and actions of `SessionRuntime`

* `sessions` (tenant, last active epoch, quiescence count), `tenants`, `domains`,
  `partitions`: `SessionTable` and `DomainRegistry`; `rows`: `PartitionAuthTable`;
  `pressure`; `ring`: the buffer and the count of dropped events, with `said`, all
  events since the last drain (history); `granted`: what a session was granted in
  its present life (history).
* `HelloAccepted` and `HelloRefused` are `handle_profile`: the session and its domain
  are opened before the profile is verified, and stay. A session whose domain is
  missing is refused.
* `Held` is what the gates of `route_record` and the check on disclosure go by: the
  claim of the session under the present ceiling of its tenant, and ALL for a session
  without a domain or without a registered tenant.
* A record is `RejectReplay`, `RejectByGate`, `ApplyRecord`, `CreatePartition` or
  `FailRecord`: the gates of `route_record` in their order, and what `handle_admitted`
  leaves behind. Refusals that leave nothing behind are not steps.
* `NotifyDomainQuiescent`, `Reap`, `UpdatePressure`, `Notify`, `Drain`, and the host's
  writes to its tables. `Terminate` leaves the domain, `Cleanup` is the host that
  follows `session.rs` and propagates the tombstone; it may come late or never.

Every connection brings a decoder of its own, so the epoch of a record is any
epoch: activity may arrive out of order.

### `Wire`

A payload is a sequence of fields, each with its width and its bits. `write_payload`
and `parse_payload` are written down separately, case by case, as in the code.
Widths are kept: a number is written modulo the size of its field, and the sizes are
scaled down (16, 32, 64 and 128 numbers) so that values beyond a field are among the
inputs. To read a field of one width where another was written is "Misframed", which
no property tolerates. `IsOperation` gives the operations with the types of their fields
(`isa.rs`); that ids are not bounded by their fields, but texts, lists and maps are by
the fields of their lengths, is all that is assumed of them.

### State and actions of `Gossip`

`pressure[d][s]` is what shard `d` holds of shard `s`; `pending[c][k]` are the messages
of pair `c` that are delivered at the `k`-th tick from now, in the order of sending;
`cut` holds the partitioned pairs. `TickOnce` is `tick_once`: deliver what is due, then
every pair that is alive and connected gossips, each message dropped or delayed
freely. The other actions are the driver's: crash, heal, inject, cut, mend, measure.

## 3. Runs

All bounds are constants named in the cfg. Ids are small integers because the
code orders pushes by id; symmetry is used in `dispatcher` only, on the ids of paths,
which the code does nothing with but compare. The topologies of `families` are not
samples: they are *every* graph of their class (and two longer ones, for sections beyond
the budget).
`families`, `tiers`, `operators` and `runtime` explore several families at once,
chosen in the initial state; each has the calls that make its question interesting.

| Run | Instance | Shows |
|---|---|---|
| `families` | `any`: every graph on 3 nodes, cycles included, writes to any node. `demands`: every ascending or descending graph on 4 nodes, all Lazy. `sections`: every graph on 3 nodes, Eager and Stabilizing nodes, and a chain and a ring on 4 nodes, with a budget of 3 members. `levelled`: every graph on 4 nodes whose paths between two nodes are equally long, rules MeetAll and MvNeg, any write of an input | the gates and not the step limit end a drain until a section is queued or a node demanded (`WorkUntilQueued`), reads stay exact in the middle of it until a section is resolved (`ReadsUntilResolved`), the two copies of a value agree (`CacheCoherent`); a served demand leaves the demanded nodes on the values of their rules (`DemandsServed`) and no other Lazy node moves (`LazyWaitsForDemand`); a conflict is only cleared with its cause, unless its section is beyond the budget (`ClearsWholeConflicts`); on levelled graphs a call is one step of `Dataflow` (`Synchronous`) and the engine rests on the values of the rules (`WavesSettle`); every call returns (`Returns`) |
| `tiers` | `build`: create, connect, subscribe, delete, re-create, write, demand, with a drain limit of 6 steps. `authority`: a diamond whose partition, labels and mode change. `regions`, `rewired`, `sections`: compiled regions of every boundary and contract, rewired, deleted, beside a stabilized conflict | the registries stay aligned, also after drains that failed (`IndicesParallel`, `NoTombstoneRead`); nodes outside every region read exactly, whichever tier wrote what they read (`OutsidersReadExactly`); nothing passes the gate unseen (`NothingUnauthorised`); a circuit that followed its inputs follows them for good (`RowsFollow`) |
| `operators` | `ternary`: every list of up to 5 values. `gates`: two dependencies, five labels, 3 ticks. `frontiers`: two frontiers on a grid of times. `wire`: every operation, with its fields at and beyond their edges | tables and folds (`TablesAreArithmetic`, `FoldsIterate`, `ReadyRulesConfirm`), gates (`GateTellsNews`), frontiers (`FrontierRemembers`), payloads (`RoundTrip`, `RelaysAgree`, `PrefixesRefused`) |
| `dispatcher` | 1 session on 2 paths, 2 partitions, 2 shards, 2 sequence numbers, each applied at most twice | at most the path a session names is Active, and it never drains (`OneActivePath`); it stays Active but for a retirement after a repeated hello (`ActiveUntilRepeated`); the replay floor holds (`AcknowledgedForGood`), partitions come to healthy shards (`PlacedOnHealthy`) |
| `runtime` | `authority`: one session id through its lives, six profiles, a tenant, rows. `expiry`: two sessions, their activity and quiescence, seven reaper policies. `telemetry`: two shards, four loads, a ring of two events | what the gates hold for a session of a registered tenant was granted in this life, under the ceiling of now (`AuthorityOfThisLife`); the reaper spares who just spoke (`ActiveSurvives`), does not depend on the order of the table (`ReapSettles`), and lag alone never takes the last session (`FrontierSurvives`); the ring holds the latest events and counts the others (`RingKeepsLatest`) and tells one story per shard (`HealthNewsChain`) |
| `gossip` | 2 shards, messages lost and delayed by up to 2 ticks, crashes, cuts | a crashed shard that its peers have noticed stays noticed (`CrashedStaysBuried`), connected shards come to agree (`Converges`) |
| `glitch`, `stabilized_counters`, `hint_neutral`, `duplicates`, `correct_shard`, `unregistered_tenant` | see Findings | the documented property that the code does not keep |

Why the bounds are enough. Four nodes hold a source, a fan-out, a reconvergence
and a node behind it, which is the smallest graph on which the gates can hide an
update (`glitch`), and three nodes hold every cycle shape a pair of gates can
see. `MaxSteps` is above the longest drain in `families` and
`hint_neutral`, and at six below it in `tiers`, where the failing drain is the
point. `MaxMembers` = 3 in `families` lets a chain of
four nodes exceed the budget of a section and be cut off at each place; it is the 64 of
the code elsewhere. `MaxSlots` lets one id be re-created, which is what moves a slot. `MaxDeps`
bounds the list lengths and the counters; in runs with a fixed topology it is
only a guard of the stabilizer (`CounterRoom`), which can otherwise raise the
counters for good, and of `CountersShort` in `tiers`, since the counters of members
drift whenever the tiers take turns. One bit per field of a label decides every
comparison of sets of bits. `MaxLen` = 5 is one more than the unrolled arms of the
folds and covers each arm, the loop and the early exits. `MaxTicks` = 3 lets a gate
close, a label change, and the gate be asked again about each dimension.

In `dispatcher` two paths suffice because a migration may go back to an older
path, which covers a third one; `MaxSeq` = 1 leaves one number to acknowledge and
one above it; `Depths` holds an idle queue and one at the shed threshold, which
also makes a shard unhealthy. `MaxApplied` = 2 lets a record be applied twice, so
that the floor, not the bound, keeps an acknowledged record out. In `runtime` the
epochs 0 to 2 hold a record from before, at and after a threshold of 1; `MaxQuiet` = 2
reaches the threshold of the frustration trigger; with `Capacity` = 2, `MaxSaid` = 4
events fill the ring twice between two drains. In `gossip` the pairs of shards do
not influence one another, so two shards show what more would; two ticks of delay
let a later message overtake an earlier one.

`CHECK_DEADLOCK FALSE` appears only in `Operators.cfg`: its enumerations end at
`MaxLen` and with the one operation that is sent.

Fairness of the engine is weak fairness of `Work` (`TierWork` with both tiers), the
steps `apply` does before it returns: the call runs in the caller's thread and
nothing can suspend it. Nothing is assumed of the environment, which may stop
calling. In `gossip` the cluster goes on ticking, and of the messages a pair sends
at every tick not all are dropped, since `drop_rate` is below one; the driver may
do what it likes or nothing. `dispatcher` and `runtime` state no liveness: each
call runs to completion in one step, and nobody is obliged to send.

## 4. Findings

Each is a run that TLC must refute.

* `glitch` (`Settled`): an edge is pushed at most once per tick. If a node is
  recomputed twice in one drain, its subscribers see only the first result. With
  1->2, 1->3, 3->2, 2->4 and writes Zero, Pos to node 1, node 2 ends Pos and node
  4 stays Zero, while `spec/abi.md:473-474` promises re-evaluation. On levelled
  graphs it cannot happen (`LevelledSettles`).
* `stabilized_counters` (`DepsReadExactly`): `run_stabilize` writes values
  without `update_dep_counter`, so a MeetAll or JoinAny subscriber takes the
  counter shortcut on the old value, against `propagate.rs:220-222`.
* `hint_neutral` (`HintIsNeutral`): a circuit evaluates its rules on whatever their
  dependencies hold, while the warm tier leaves a node pending on a `Neg` and
  infects it with a `Zero`. A region of one MvNeg node turns its `Neg` input into
  `Pos`. `spec/abi.md:346-349` says that the hint has no effect on values.
* `duplicates` (`DuplicatesSuppressed`): `is_seq_valid` refuses only what is below
  the floor, and the floor moves with acknowledgements alone. A record that was
  applied but not acknowledged is applied once more when the peer reconnects and
  repeats it, while `spec/abi.md:709-710` says that duplicates of a reconnect are
  suppressed before they reach the engine.
* `correct_shard` (`CorrectShard`): `PartitionCreate` is applied on the engine of the
  shard of the record's own partition and the new partition is then placed on the
  shard `pick_shard_for` chooses. If they differ, the engine its records go to was
  never told of the partition.
* `unregistered_tenant` (`BootstrapClips`): a hello whose tenant is not registered is
  granted NONE, and that claim is kept; but the gates ask `effective_policy`, which is
  `None` when the tenant is missing, and `route_record` then takes ALL
  (`runtime.rs:213-215`), the check on disclosure `u64::MAX`. The session passes every
  gate, while `decode.rs:56-57` and `spec/integration.md:133-134` say that its
  capabilities are clipped to NONE. A hello that is refused leaves the same tables, since
  `handle_profile` creates the session before the profile is verified
  (`spec/integration.md:145`: "The session is not created until verification succeeds"),
  and its session holds ALL in the same way. Once the tenant is registered both hold
  what they were granted, which is what `AuthorityOfThisLife` says.

Known, and without a run of their own, as a rule since no text of the repository says
otherwise or a property already names the limit:

* A pair both connected and subscribed keeps the slot of a deleted node in a live
  list, against `value_store.rs:19-22`; `NoTombstoneRead` is checked and proved for
  disciplined callers only.
* The gate decides a local push on the lattice class alone: what a value carries is
  the capability and scope of the very label it is checked against
  (`LocalGateIsLattice`). Pushes out of a compiled region ask no authority.
* Regions that read one another run in the order of a hash set, and both mark their
  members handled; `RowsFollow` therefore speaks of regions fed by Input nodes
  (`Fed`). A boundary input that is deleted evicts nothing.
* After a drain that hit the step limit, the members of the compiled regions it ran
  stay handled, and the next drain skips pushes to them.
* On the wire: `Stabilize` of an empty list is written as a count of zero and read as
  all; a `Restricted` strategy of mask 0 is read as `FullL3`, one of 256 and more
  loses its upper bits; every `Retry` is read with three attempts; a label's
  projection, the roots of scopes, the type of an edge and the kind of an unnamed
  port do not arrive. `RelaysAgree` says that nothing *more* is lost. The comment in
  `dispatch.rs` on `RemoteDepNotSupported` is older than the code, which reads
  remote dependencies.
* A message a shard sent before it crashed may be delivered after the crash and
  overwrite what its peers were told of it. `Buried` therefore asks that none of
  its messages is on the way.
* A second hello on the active path, followed by a retirement, closes the active
  path. The comment at `dispatch.rs:986-988` speaks of gap detection and of the entry at
  that moment, which is right. `session.rs:33` says that records from a Closed path are
  rejected; no code looks at the state of a path when a record comes, so the session
  goes on.
* A section whose closure exceeds 64 members is cut off. What is left out is pinned to
  its value, which may be the Zero that infected a member, and the member may be cleared
  all the same: `ClearsWholeConflicts` leaves such sections out, and is refuted in
  `families` when they are put in.
* A `PartitionCreate` of a registered id places it anew; its nodes stay where they
  were.
* The pressure of a shard is the deepest queue it ever had: a shard that once
  reached 5000 sheds pushes until the host reports another pressure.

## 5. Proofs

Every theorem holds for all values of the constants that its module's assumption
allows: any finite set of natural ids, any operations, topologies, sessions,
shards, capacities and bounds.

### The engine (`EngineProofs`)

* `TypeCorrect`: `Spec => []TypeOK`. The part a reader should look at is that
  every slot number held by `idx` or by a dependency list exists.
* `CacheIsCoherent`: `Spec => []CacheCoherent`, "`ValueStore::cache[idx]` and
  `Graph::node(id).value` are always identical for live nodes", also in the middle
  of a drain, after a failed drain and for callers without discipline.

Both follow from `Invariance`, the inductive invariant
`IInv == TypeOK /\ SlotsDistinct /\ CacheCoherent`. `CacheCoherent` alone is not
inductive: a write to one node could change the slot of another if two ids
shared a slot. `SlotsDistinct` rules that out, and is kept because `Alloc` always
appends and re-creation abandons the old slot. The proof has one step per action
and rests on lemmas about `Stored`, `StoredAll`, `Without` and `Subscribe`.

### The registries (`EngineProofs`)

From `Careful` (fresh ids and pairs, starts without repeated dependencies):
`RegistriesAgree`, with `SlotListsParallel` and `NoTombstones` as its consequences. The
invariant says that the ordered lists hold exactly the registered pairs
(`ListsArePairs`), each once (`ListedOnce`), that pairs join live nodes (`PairsLive`)
and that each slot list is the list of the slots (`SlotsParallel`). Each part needs
the others: a deletion finds a pair's place in both lists only while they are
parallel, and leaves no tombstone only if the pair was listed once.

`ReadsAreExact` adds that, where no call and no mode stabilizes (`Unstabilized`), what
a push step is told about dependencies is what the graph says. The counters of a node
count every dependency at least, with its present value (`Counted`); they may count
more, since a deleted dependency leaves its count behind. The shortcut is taken only
when the total equals the number of dependencies, and then each count is exact.
`Counted` needs `EdgesPaired` (an edge has a pair of its own, or a second removal
would count down a live dependency) and `NoSections` (a resolved section writes values
behind the counters; the run `stabilized_counters` shows what comes of it).
`ExactUntilResolved` drops `Unstabilized`: the reads are exact up to the first section
that is resolved, for any modes of the nodes, any sections queued and any refused.

### The work of a drain (`WorkProofs`)

`WorkIsMetered`, from a step limit above the number of pairs: until a section is queued,
a drain that has demanded nothing takes no more steps than there are pairs, and one.
The invariant `PaidFor` is the argument: every step taken and every item queued, but
the first, was paid for by the gate that was closed when it was queued,
`steps + Len(queue) <= Cardinality(seen) + 1`. `WorkBounded` alone is not inductive,
since it does not count what is still in the queue. Lazy and Stabilizing nodes only
take work away. `EagerWorkIsBounded` and `EagerDrainsEnd` are the same for an engine
of Eager nodes (`EagerOnly`), without the reservation.

* `ConflictsClearedWhole`: under `Disciplined`, a section that is resolved takes its
  whole conflict with it, unless what its seeds reach exceeds `MaxMembers`. A cleared
  member has no Zero dependency left because a section within the budget is closed under
  them, whatever the e-graph answers; a section that leaves one out was cut off
  (`CutOff`, from `ReachClosed` and `ReachMonotone`).
* `LazyNodesWait`, from `OnlyDemanded` (no `Propagate`, and no call that makes a node
  Lazy): every item in the queue pushes a node that is not Lazy, or a demanded one.

### Waves (`WorkProofs`)

From `LevelledEager` (the graph is wired before the first call, all paths between two
nodes are equally long, derived nodes are Eager and have dependencies, and callers
write inputs, propagate and reflect):

* `LevelledSettles`: `ObservedSpec => []Settled`.
* `EngineImplementsDataflow`: `ObservedSpec => Synchronous`, the refinement of
  `Dataflow` by `Engine`.

The inductive invariant is `Waves`. Its core is `WaveInv(lev)`, for some levels `lev`:
the queue goes up by the levels and spans two of them at most (`InWaves`); every node
has fired on the values its dependencies show, or is queued and untouched; and a node
that was written, or has closed a gate, lies behind the wave. So a node that changes
has closed no gate yet, all its subscribers are told, and none of them was written
before its dependencies were final. That each push step reads the right values is
`CountInv` and `RegInv` of the registries; that no step limit cuts a wave short is
`WorkInv`. Without levels the theorem is false: in the run `glitch` a node is
recomputed twice in a drain and its subscriber sees the first result only.

### Both tiers (`TierProofs`)

For the whole engine, in any interleaving of its tiers:

* `TiersTypeCorrect` and `TablesTypeCorrect`, unconditionally, from the inductive
  invariant `TierInv`: `BaseInv` of the warm tier (types, and a slot of its own for
  every node), the types of the gate's tables, and `RegionInv`. The last says that an
  artifact is `WiredTo` the slots there are: its rows, outputs and inputs are those
  compilation gave it (any order of the members, any order of unrecorded
  dependencies), and slots are never taken away. That a run of a circuit keeps it is
  an induction over its rows.
* `TierListsParallel`, from `Careful`: what regions do leaves the registries alone.
* `TiersCacheCoherent`: the two copies of every value agree, whichever tier wrote it,
  from `NoStale`: no call creates a node, or none declares a region, or callers are
  `Careful` and all regions `EpochTracked`. It is needed: a Pinned artifact outlives
  the deletion and re-creation of a member under another slot, and its next run
  would write the old slot and the new node. The invariant (`AlignInv`) is that a
  row that reads something writes the present slot of its member; a row of a deleted
  member reads nothing. Every family of `tiers` satisfies `NoStale`.
* `OutsidersToldExactly`, from `Careful` and `NoStale`: what a node that was never a member is told about
  its dependencies is exact until a section is resolved, though it may be the circuits
  that write them. `OutsideInv` is `Counted` for such nodes only; that a circuit
  recounts all rows that changed, and each subscriber once, is an induction over
  `RecountOutside`.
* `NothingPassesTheGate`, unconditionally: outside Advisory mode, whatever is queued in a
  drain was asked for by the caller, left a region or a section, was logged as a
  violation, or is reached from such a node over authorised pairs. The invariant
  (`GateInv`) is the same statement for the rounds of stabilizing between two drains
  too; each push step extends it by one authorised or logged pair.
* `CircuitsFollow`: a circuit whose rows followed when the engine was at rest follows
  what is written to its inputs (`RowsFollow`), from `Careful`, `NoStale` and
  `BareSources`: no topology and no call gives an `Input` node dependencies. The
  invariant has three parts. `BareInv`: what can be an `Input` has an empty dependency
  list. `FlowInv`: a row reads inputs and what earlier rows write (`Layered`, which
  compilation establishes by its topological order), a row that reads something
  writes no slot of an `Input` (`Spares`), and the reverse map names every input of an
  artifact. `FollowInv`: each row follows, or its region is dirty and the row reads a
  dirty slot. A run then brings every row up to date (`RunDone`, an induction over the
  rows), and the run of another region writes no input and forgets no dirty slot, so
  their order does not matter. `BareSources` is needed by `Spares`: a circuit that
  computes a wired `Input` would write the input of another region without making that
  one dirty. The families `regions`, `rewired` and `sections` of `tiers`, each taken
  by itself, satisfy all three; the other families declare no region.
* `EnforcedPushesAuthorised`, about single steps: in Enforced mode with its own policy, no
  warm step closes a gate over a pair whose push is not authorised.
  `AuthorityTypeCorrect`: the label table has exactly the pairs of the registry.
  `LocalGateIsLattice`.
* `AuditImplementsEngine`, the refinement: without compiled regions and until Enforced
  mode is set, the engine with the gate implements the engine without it, where a
  declaration is a bare tick of the clock (`Retick`).

### The operators (`OperatorProofs`)

* Causal time. `GateIsExact` (from the invariant that `news` are the dimensions in which
  the clock is ahead of `last_seen`), `ClosedGatesAreSeen` (with default labels every
  step of the gates is the step that `Engine` takes on `seen`), and the algebra:
  dominance is a partial order, join and meet are bounds, `MergeIsLeast`,
  `AdvanceIsExact`, `CoversIsComplete`, `NamedMasksObserve`, `SensitivitiesCompare`.
  `covers` is complete but not sound: it compares bit masks as numbers.
* Frontiers. `FrontiersAreALattice` and `FrontiersAreExact`: whatever is inserted in whatever
  order, a frontier dominates exactly what one of the inserted times dominates.
* Ternary. `TablesExact`, `FoldsExact`, `ReadyConfirms`, for dependency lists of any length.
  The folds of the code stop early; the reference iterates the operation over the
  whole list. A recursive function is got hold of by exhibiting its values
  (`IterationExists`), and its properties by the least index that fails them
  (`LeastNat`, from the well-foundedness of the numbers), which stands in for induction.

### The wire format (`WireProofs`)

For all operations of `IsOperation`, texts, floating-point numbers and sizes of the fields
that leave room for the codes (`WireAssumption`):

* `PayloadsRoundTrip`: `WireSpec => RoundTrip`. What the format has room for arrives as it
  was sent.
* `AllRelaysAgree`: `WireSpec => RelaysAgree`. Every operation is read as one the format
  has room for, so the next receiver reads the same.
* `PayloadsDelimited`: `WireSpec => PrefixesRefused`. A payload cut at any field is
  refused as truncated.

All three follow from one statement about an operation, `Carried`: there is an operation
`c` the format has room for, of the same kind, and equal to the one sent if that had
room, such that the payload is read as `c`, and as truncated when it is cut (`Delivers`).
It is shown by following the reader: `Reached` says that, up to some field of the
payload cut to `k` fields, either all fields were there, the reader stands behind them
and holds what was written, narrowed to their widths; or they were not, and it has
failed for want of them and for no other reason. Each kind of field has a lemma that
takes `Reached` one value further; lists, maps of attributes and frontiers are done by
`Upwards`, induction on the items read (`TookAll`, `TookMany`), and a map comes back
since its keys are written in order and each once (`SortedEnumerates`, `MapOfAll`).
A frontier is the exception that makes `RelaysAgree` worth stating: keys that
do not fit may fall together, and the entry written last is kept, so what is read is a
smaller frontier, which fits (`ClocksHeard`).

### The dispatcher (`DispatcherProofs`)

* `TypeCorrect`: `Spec => []TypeOK`.
* `OneActivePathHolds`: `Spec => []OneActivePath`, for any hellos. The inductive
  invariant is `TypeOK /\ PathInv`, where `PathInv` has three parts: the active path
  of a session is entered for it, does not drain, and is Closed only while there is no
  predecessor (`ActiveEntered`); every path in the table belongs to the live session that
  owns it, and is Active only as the active one of that session (`PathsOwned`); a
  predecessor is one path, owned by the session too (`PrevOwned`). `OneActivePath` alone
  is not inductive: nothing in it keeps a retirement from closing the path of another
  session, nor the paths of a terminated session from being left behind for the next
  session with its id.
* `ActiveKept`: `Spec => ActiveUntilRepeated`, a step property, from the same invariant:
  a retirement touches the active path only if that is its own predecessor.
* `AcknowledgedRecords`: `Spec => AcknowledgedForGood`, a step property, from
  `TypeOK`: a record that reaches an engine has passed `is_seq_valid`, every other
  step leaves `applied` alone or starts a session that was not live, and only
  `ack_seq` writes a floor of a live session.
* `PartitionsPlaced`: `Spec => PlacedOnHealthy`. It rests on the lemma
  `PickShardHealthy`: every answer of `pick_shard_for`, for any hint, is healthy in
  the map it is given, unless that map holds no healthy shard.

### The session runtime (`RuntimeProofs`)

`Invariance` holds types, grants and the ring together; `TypeCorrect`,
`AuthorityGranted` and `RingFaithful` follow from it. `AuthorityGranted` speaks of what
the gates hold: the claim on record is what was granted in this life
(`ClaimedAsGranted`, the inductive part, whatever the tenants), and for a registered tenant
`Held` is that claim under its ceiling. `ReapingSettles` and
`ActiveSessionsSurvive` are step properties about what a reaper run takes.
`HealthToldInOrder`: the health events of a shard form one story, each starting where
the last ended, and the last is what the table holds; a full ring drops the oldest
event, which is the beginning of some story, and no link of one.
`LagSparesTheFrontier`: a reaper that counts lag alone leaves a session whenever there
was one, since the session at the frontier lags by nothing.

### The cluster (`GossipProofs`)

`TypeCorrect`, and `CrashedShardsStayBuried`: a step property, from a lemma per action
about the messages of one shard that are on the way.

Only model-checked: `Returns` and `Converges` (liveness is outside the proof
system), and `DemandsServed`, whose proof would need the order in which a depth-first
demand visits a graph.
`Settled` and `DepsReadExactly` are proved for the graphs and callers named above; that
neither holds without those conditions is what `glitch` and `stabilized_counters` show.

## 6. Not modelled, and why

* Events other than `AuthViolation` and `StabilizeQueued`, statistics, history,
  attributes, node versions, the validity intervals of `DepMeta` and adjacency epochs
  influence no value and no scheduling.
* Prefetching, bit planes, the inverted index of a region and SIMD kernels are
  encodings; `rtl` and the assembly kernels are not linked to the engine.
* What equality saturation finds is a choice (`MayResolve`), and so is which members the
  budget of a section leaves out (`SectionRegions`).
* A telemetry ring of capacity 0 and a frustration threshold of 0 are assumed away: the
  first would keep one event all the same, the second would reap every session at once.
* Named masks (`MaskRegistry`) and the authority of remote values have no caller in
  the engine; streams and scopes of deltas are used by nobody.
* Quotas are stored and never enforced; `recovery.rs` is a table that nothing calls;
  signatures are a field of the profile.
* The header of a record: its layout is fixed and has no state. Strings are short
  enough for their u16 lengths; a longer one would be written with a wrong length.
* The workload generator and the session helpers of the simulation drive the
  runtimes from outside.
* Bindings and the demo pass operations through.

## 7. What is left

* Larger levelled graphs: five nodes are beyond the time a run should take.

----------------------------- MODULE Dispatcher -----------------------------
(***************************************************************************)
(* The way of a record through session-rs: StreamDecoder (decode.rs),      *)
(* SessionRuntime::route_record (runtime.rs), Dispatcher and EnginePool    *)
(* (dispatch.rs), over the tables of Sessions and the policies of          *)
(* Topology.                                                               *)
(*                                                                         *)
(* One action is one call of process_record, from the header to the        *)
(* feedback of the engine's outcome, or one call the host makes on the     *)
(* tables between records.  The engines are the queue depth they reach and *)
(* the partitions that were declared to them (module Engine models what    *)
(* else happens inside).  Tenants, authority rows, causal epochs, opcodes  *)
(* and payloads each may refuse a record: all that remains of them here is *)
(* that a record may be refused (Discard).                                 *)
(***************************************************************************)
EXTENDS Sessions, Topology

CONSTANTS
  Owner,        \* the session that uses a path; the host assigns path ids
  Partition,    \* wire partition ids
  Shard,        \* shard ids
  Distance,     \* hop distance of the pairs of shards that have an address
  Depths,       \* queue depths an engine may reach
  Reports,      \* pressures the host may report for a shard
  MaxApplied    \* bound: how often one record is applied

ASSUME DispatcherAssumption ==
  /\ Session # {} /\ MaxSeq \in Nat /\ MaxApplied \in Nat
  /\ Owner \in [Path -> Session]
  /\ 0 \in Shard /\ Shard \subseteq Nat
  /\ 0 \in Depths /\ Depths \subseteq Nat
  /\ Reports \subseteq Pressure

VARIABLES
  stream,       \* the preamble of the connection: its path, if there is one
  seen,         \* StreamDecoder::seq_trace of the connection's session
  partitions,   \* DomainRegistry::partitions
  pressure,     \* SessionRuntime::pressure, and TopologyPartition with it
  peak,         \* max_queue_depth of each shard's engine
  hosted,       \* the partitions declared to each shard's engine
  applied       \* how often each record of a session reached an engine

decoderVars == <<stream, seen>>
placementVars == <<partitions, pressure, peak, hosted>>
vars == <<stream, seen, sessions, paths, partitions, pressure, peak, hosted, applied>>

Nothing == -1       \* no record has been seen on the connection
Bootstrap == 0      \* ShardId(0)
PartitionDomain == [session : Session, shard : Shard]

Init ==
  /\ stream = {} /\ seen = Nothing
  /\ sessions = <<>> /\ paths = <<>>
  /\ partitions = <<>> /\ pressure = <<>>
  /\ peak = [d \in Shard |-> 0]
  /\ hosted = [d \in Shard |-> {}]
  /\ applied = [s \in Session |-> [n \in StreamSeq |-> 0]]

-----------------------------------------------------------------------------
(* The decoder *)

\* A connection brings a decoder of its own, which has seen nothing.
Connect(p) ==
  /\ stream' = {p} /\ seen' = Nothing
  /\ UNCHANGED <<sessions, paths, placementVars, applied>>

\* decode_record takes a record of the connection's session when its number
\* is above the last one, whatever becomes of it afterwards.
Decoded(s, n) ==
  /\ \E p \in stream : s = Owner[p]
  /\ n > seen /\ seen' = n
  /\ UNCHANGED stream

Discard(s, n) ==
  /\ Decoded(s, n)
  /\ UNCHANGED <<sessions, paths, placementVars, applied>>

\* Mutant: a hello starts the session anew.
HandleProfile_recreates(s, n) ==
  /\ Decoded(s, n)
  /\ \E p \in stream : CreateSession(s, p, n)
  /\ IF Live(s) THEN UNCHANGED applied
     ELSE applied' = [applied EXCEPT ![s] = [m \in StreamSeq |-> 0]]
  /\ UNCHANGED placementVars

\* handle_profile: both branches come before the profile is verified, and
\* stay when that fails.  The floor of a live session is kept.  A hello may
\* come again on the path that is active already.
HandleProfile(s, n) ==
  /\ Decoded(s, n)
  /\ \E p \in stream :
       \/ /\ ~Live(s)
          /\ CreateSession(s, p, n)
          /\ applied' = [applied EXCEPT ![s] = [m \in StreamSeq |-> 0]]
       \/ /\ Live(s)
          /\ MigratePath(s, p)
          /\ UNCHANGED applied
  /\ UNCHANGED placementVars

-----------------------------------------------------------------------------
(* Records for the engines *)

ShardOf(part) == IF part \in DOMAIN partitions THEN partitions[part].shard ELSE Bootstrap

PressureOf(d) == IF d \in DOMAIN pressure THEN pressure[d] ELSE Healthy

\* route_record, but for its gates on tenants and authority.
Admitted(s, n, class, part) ==
  /\ IsSeqValid(s, n)
  /\ part \notin DOMAIN partitions => class \in {"Control", "Subscribe"}
  /\ Decide(class, PressureOf(ShardOf(part))) = "Admit"

Routed(s, n, class, part) ==
  /\ Decoded(s, n)
  /\ Admitted(s, n, class, part)
  /\ applied[s][n] < MaxApplied
  /\ applied' = [applied EXCEPT ![s][n] = @ + 1]
  /\ UNCHANGED <<sessions, paths>>

\* The operations that drain the engine's queue (engine.rs).
Draining == {"SetValue", "Propagate", "Demand", "Data"}

\* Mutant: the depths of the drains add up.
Drained_sums(d, class, depth) ==
  peak' = IF class \in Draining THEN [peak EXCEPT ![d] = @ + depth] ELSE peak

\* depth is the largest queue depth of shard d so far: PropStats are never
\* reset, and only a drain can raise it.
Drained(d, class, depth) ==
  /\ depth >= peak[d]
  /\ class \notin Draining => depth = peak[d]
  /\ peak' = [peak EXCEPT ![d] = depth]

\* The pressure map after a record was applied on shard d, whose engine has
\* reached the given depth: pressure_snapshot reports no parked cursor.
Reported(d, depth) == Inserted(pressure, d, [queue_depth |-> depth, cursor_count |-> 0])

ApplyRecord(s, n, class, part) ==
  /\ Routed(s, n, class, part)
  /\ \E depth \in Depths : /\ Drained(ShardOf(part), class, depth)
                           /\ pressure' = Reported(ShardOf(part), depth)
  /\ UNCHANGED <<partitions, hosted>>

\* The engine fails, which ends process_record: no pressure is reported.
EngineFails(s, n, class, part) ==
  /\ Routed(s, n, class, part)
  /\ \E depth \in Depths : Drained(ShardOf(part), class, depth)
  /\ UNCHANGED <<partitions, pressure, hosted>>

\* any_healthy_shard, or the bootstrap shard if there is none.
AnyHealthy(known) ==
  IF HealthyShards(known) = {} THEN {Bootstrap} ELSE Lowest(HealthyShards(known))

\* Mutant: the shard of another partition of the session, healthy or not.
PickShard_stays(s, known) ==
  LET hints == {partitions[q].shard : q \in {r \in DOMAIN partitions : partitions[r].session = s}}
  IN  IF hints = {} THEN AnyHealthy(known) ELSE hints

\* pick_shard_for: the shards it may choose.  The hint is the shard of some
\* partition of the session, in the iteration order of a hash map.
PickShard(s, known) ==
  LET hints == {partitions[q].shard : q \in {r \in DOMAIN partitions : partitions[r].session = s}}
      From(h) == IF Nearest(h, known, Distance) = {} THEN AnyHealthy(known)
                 ELSE Nearest(h, known, Distance)
  IN  IF hints = {} THEN AnyHealthy(known) ELSE UNION {From(h) : h \in hints}

\* PartitionCreate of id, in a record of partition part: the engine that
\* holds part learns of it and does not drain; the new pressure of that shard
\* is reported; then the partition is placed.
CreatePartition(s, n, part, id) ==
  LET d == ShardOf(part)
  IN  /\ Routed(s, n, "Control", part)
      /\ hosted' = [hosted EXCEPT ![d] = @ \cup {id}]
      /\ pressure' = Reported(d, peak[d])
      /\ \E shard \in PickShard(s, pressure') :
           partitions' = Inserted(partitions, id, [session |-> s, shard |-> shard])
      /\ UNCHANGED peak

-----------------------------------------------------------------------------
(* The host *)

\* Local bootstrap (spec/integration.md): the host fills both tables.
LocalBootstrap(s, p) ==
  /\ ~Live(s) /\ Owner[p] = s
  /\ CreateSession(s, p, 0)
  /\ applied' = [applied EXCEPT ![s] = [m \in StreamSeq |-> 0]]
  /\ UNCHANGED <<decoderVars, placementVars>>

\* The host acknowledges a record that was applied.
Acknowledge(s, n) ==
  /\ Live(s) /\ applied[s][n] > 0
  /\ AckSeq(s, n)
  /\ UNCHANGED <<decoderVars, placementVars, applied>>

Retire(s) ==
  /\ Live(s)
  /\ RetireDrainingPath(s)
  /\ UNCHANGED <<decoderVars, placementVars, applied>>

\* terminate or a reaper run; the host removes the paths and partitions.
Terminate(s) ==
  /\ Live(s)
  /\ TerminateSession(s)
  /\ partitions' = Restrict(partitions, {q \in DOMAIN partitions : partitions[q].session # s})
  /\ UNCHANGED <<decoderVars, pressure, peak, hosted, applied>>

\* update_pressure: health news of a shard reach this runtime.
UpdatePressure(d, p) ==
  /\ pressure' = Inserted(pressure, d, p)
  /\ UNCHANGED <<decoderVars, sessions, paths, partitions, peak, hosted, applied>>

-----------------------------------------------------------------------------
ProcessRecord(s, n) ==
  \/ Discard(s, n)
  \/ HandleProfile(s, n)
  \/ \E part \in Partition :
       \/ \E class \in OpcodeClass : ApplyRecord(s, n, class, part)
       \/ \E class \in OpcodeClass : EngineFails(s, n, class, part)
       \/ \E id \in Partition : CreatePartition(s, n, part, id)

Host(s) ==
  \/ \E p \in Path : LocalBootstrap(s, p)
  \/ \E n \in StreamSeq : Acknowledge(s, n)
  \/ Retire(s)
  \/ Terminate(s)

Next ==
  \/ \E p \in Path : Connect(p)
  \/ \E s \in Session : (\E n \in StreamSeq : ProcessRecord(s, n)) \/ Host(s)
  \/ \E d \in Shard, p \in Reports : UpdatePressure(d, p)

Spec == Init /\ [][Next]_vars

-----------------------------------------------------------------------------
TypeOK ==
  /\ stream \subseteq Path /\ \A p, q \in stream : p = q
  /\ seen \in StreamSeq \cup {Nothing}
  /\ SessionsTypeOK
  /\ DOMAIN partitions \subseteq Partition
  /\ \A q \in DOMAIN partitions : partitions[q] \in PartitionDomain
  /\ DOMAIN pressure \subseteq Shard
  /\ \A d \in DOMAIN pressure : pressure[d] \in Pressure
  /\ peak \in [Shard -> Depths]
  /\ hosted \in [Shard -> SUBSET Partition]
  /\ applied \in [Session -> [StreamSeq -> 0..MaxApplied]]

\* Of the paths of a live session at most the active one is Active, and that
\* one is never Draining, through migrations, back to an older path and onto
\* the same path too (dispatch.rs: "simply re-marked Active"), retirements
\* and new lives in any order.  It is Closed only after a retirement that
\* left no predecessor (session.rs, PathState and retire_draining_path).
OneActivePath ==
  \A s \in DOMAIN sessions :
    LET active == sessions[s].active
    IN  /\ active \in DOMAIN paths /\ paths[active].session = s
        /\ \A p \in DOMAIN paths :
             paths[p].session = s /\ paths[p].state = "Active" => p = active
        /\ paths[active].state # "Draining"
        /\ paths[active].state = "Closed" => sessions[s].prev = {}

\* A live session on an Active path stays on one, whatever comes, but for one
\* case: the last hello came on the path that was active already, which made
\* that path its own predecessor, and the host retires the predecessor.
ActiveUntilRepeated ==
  [][\A s \in DOMAIN sessions \cap DOMAIN sessions' :
       paths[sessions[s].active].state = "Active" =>
         \/ paths'[sessions'[s].active].state = "Active"
         \/ sessions[s].prev = {sessions[s].active} /\ Retire(s)]_vars

\* What was acknowledged stays so for the life of the session, over
\* reconnects and migrations: the floor never sinks, and no record below it
\* reaches an engine (session.rs, stream_seq_floor; spec/abi.md, stream_seq).
AcknowledgedForGood ==
  [][\A s \in DOMAIN sessions \cap DOMAIN sessions' :
       /\ sessions'[s].floor >= sessions[s].floor
       /\ \A n \in StreamSeq : n < sessions[s].floor => applied'[s][n] = applied[s][n]]_vars

\* A partition is placed on a shard that is healthy in the light of the
\* record that created it, as long as there is such a shard (pick_shard_for).
PlacedOnHealthy ==
  [][\A q \in DOMAIN partitions' :
       /\ q \notin DOMAIN partitions \/ partitions'[q] # partitions[q]
       /\ HealthyShards(pressure') # {}
       => partitions'[q].shard \in HealthyShards(pressure')]_vars

\* "Duplicate stream_seq values (reconnect replay) MUST be suppressed by the
\* session manager before reaching the engine" (spec/abi.md).
DuplicatesSuppressed ==
  \A s \in DOMAIN sessions : \A n \in StreamSeq : applied[s][n] <= 1

\* "The session manager routes to the correct engine shard" (spec/abi.md):
\* the shard a partition's records go to is one that knows the partition.
CorrectShard == \A q \in DOMAIN partitions : q \in hosted[partitions[q].shard]
=============================================================================

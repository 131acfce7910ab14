------------------------------- MODULE Gossip -------------------------------
(***************************************************************************)
(* Health gossip between shards: SimCluster (session-rs/src/sim/mod.rs)    *)
(* with its message bus (sim/network.rs) and fault policy (sim/faults.rs), *)
(* over the pressure map each shard keeps of itself and of its peers       *)
(* (runtime.rs::update_pressure, topology.rs::update; module Topology).    *)
(*                                                                         *)
(* One tick delivers every message that is due, in the order the messages  *)
(* were sent, and then lets each shard that is alive send its own pressure *)
(* to the others that are alive; a message may be dropped or delayed.      *)
(* Between ticks the driver crashes, heals, cuts and mends.                *)
(*                                                                         *)
(* Messages of different pairs of shards touch different entries, so the   *)
(* one list of pending messages is kept here by pair and by the ticks left *)
(* until delivery, each part in the order of sending.  The telemetry event *)
(* of a health change is read by nothing and left out.                     *)
(***************************************************************************)
EXTENDS Naturals, Sequences, SequencesExt, Topology

CONSTANTS
  Shard,        \* the shards of the cluster
  Reports,      \* pressures a shard may measure of itself
  MaxDelay,     \* FaultPolicy::max_delay_ticks (1 also stands for 0)
  Lossy         \* whether FaultPolicy::drop_rate > 0

ASSUME DelayAssumption == MaxDelay \in Nat \ {0}
ASSUME LossAssumption == Lossy \in BOOLEAN

VARIABLES
  pressure,     \* shards[d].pressure: what d holds of s is pressure[d][s]
  lifecycle,    \* SimCluster::lifecycle (Recovering is never assigned)
  pending,      \* SimNetwork::pending: what pair c has pending for the k-th
                \* tick from now is pending[c][k]
  cut           \* FaultPolicy::partitioned: pairs as sets {a, b}

vars == <<pressure, lifecycle, pending, cut>>

Pair == {c \in Shard \X Shard : c[1] # c[2]}

\* deliver_at, less the ticks that have passed.
Delay == 1 .. MaxDelay

-----------------------------------------------------------------------------
Init ==
  /\ pressure = [d \in Shard |-> [s \in Shard |-> Healthy]]
  /\ lifecycle = [s \in Shard |-> "Alive"]
  /\ pending = [c \in Pair |-> [k \in Delay |-> <<>>]]
  /\ cut = {}

\* Mutant: only the receiver's lifecycle is looked at.
Routes_from_crashed ==
  {c \in Pair : lifecycle[c[2]] = "Alive" /\ {c[1], c[2]} \notin cut}

\* Pairs that gossip at this tick.
Routes ==
  {c \in Pair : /\ lifecycle[c[1]] = "Alive" /\ lifecycle[c[2]] = "Alive"
                /\ {c[1], c[2]} \notin cut}

\* Mutant: a message that is due is delivered and also kept.
Remaining_keeps_due(c, k) ==
  (IF k = 1 THEN pending[c][k] ELSE <<>>)
    \o IF k < MaxDelay THEN pending[c][k + 1] ELSE <<>>

\* network.rs::drain_due: what is delivered at this tick, and what stays.
Due(c) == pending[c][1]
Remaining(c, k) == IF k < MaxDelay THEN pending[c][k + 1] ELSE <<>>

\* Delivery asks nobody: a crashed receiver is updated as well.  Of several
\* messages the last one sent stays.
Delivered(d, s) ==
  IF s # d /\ Due(<<s, d>>) # <<>> THEN Last(Due(<<s, d>>))
  ELSE pressure[d][s]

\* Mutant: the pressure sent is the one the receiver holds of the sender.
Gossiped_of_receiver(c, k, kept, delay) ==
  IF c \in kept /\ delay[c] = k THEN <<pressure[c[2]][c[1]]>> ELSE <<>>

\* The message of the pair c at this tick, if it is kept and delayed by k.
Gossiped(c, k, kept, delay) ==
  IF c \in kept /\ delay[c] = k THEN <<pressure[c[1]][c[1]]>> ELSE <<>>

Tick(kept, delay) ==
  /\ pressure' = [d \in Shard |-> [s \in Shard |-> Delivered(d, s)]]
  /\ pending' = [c \in Pair |-> [k \in Delay |-> Remaining(c, k) \o Gossiped(c, k, kept, delay)]]
  /\ UNCHANGED <<lifecycle, cut>>

\* A tick at which at least the messages of must are not dropped.
TickKeeping(must) ==
  /\ must \subseteq Routes
  /\ \E kept \in SUBSET Routes :
       /\ must \subseteq kept
       /\ ~Lossy => kept = Routes
       /\ \E delay \in [kept -> Delay] : Tick(kept, delay)

TickOnce == TickKeeping({})

-----------------------------------------------------------------------------
(* The driver *)

\* p becomes what every shard holds of s.
Everywhere(s, p) ==
  pressure' = [d \in Shard |-> [pressure[d] EXCEPT ![s] = p]]

CrashShard(s) ==
  /\ lifecycle' = [lifecycle EXCEPT ![s] = "Crashed"]
  /\ Everywhere(s, NegPressure)
  /\ UNCHANGED <<pending, cut>>

InjectNegEverywhere(s) ==
  /\ Everywhere(s, NegPressure)
  /\ UNCHANGED <<lifecycle, pending, cut>>

HealShard(s) ==
  /\ lifecycle' = [lifecycle EXCEPT ![s] = "Alive"]
  /\ Everywhere(s, Healthy)
  /\ UNCHANGED <<pending, cut>>

\* A shard measures its own pressure (runtime.rs::update_pressure).
UpdatePressure(s, p) ==
  /\ pressure' = [pressure EXCEPT ![s][s] = p]
  /\ UNCHANGED <<lifecycle, pending, cut>>

AddPartition(a, b) ==
  /\ cut' = cut \cup {{a, b}}
  /\ UNCHANGED <<pressure, lifecycle, pending>>

RemovePartition(a, b) ==
  /\ cut' = cut \ {{a, b}}
  /\ UNCHANGED <<pressure, lifecycle, pending>>

Next ==
  \/ TickOnce
  \/ \E s \in Shard :
       \/ CrashShard(s)
       \/ InjectNegEverywhere(s)
       \/ HealShard(s)
       \/ \E p \in Reports : UpdatePressure(s, p)
  \/ \E c \in Pair : AddPartition(c[1], c[2]) \/ RemovePartition(c[1], c[2])

Spec == Init /\ [][Next]_vars

\* The cluster ticks on, and drop_rate < 1: of the messages that are sent for
\* a pair at every tick, not all are dropped.  The driver is not fair.
Fairness ==
  /\ WF_vars(TickOnce)
  /\ \A c \in Pair : WF_vars(TickKeeping({c}))

FairSpec == Spec /\ Fairness

-----------------------------------------------------------------------------
Report == {Healthy, NegPressure} \cup Reports

\* Every variable has its type; no message outlives its delay, so that no more
\* are due at a tick than were sent at the ticks it can come from.
TypeOK ==
  /\ pressure \in [Shard -> [Shard -> Report]]
  /\ lifecycle \in [Shard -> {"Alive", "Crashed"}]
  /\ pending \in [Pair -> [Delay -> Seq(Report)]]
  /\ \A c \in Pair : \A k \in Delay : Len(pending[c][k]) <= MaxDelay - k + 1
  /\ cut \subseteq {{c[1], c[2]} : c \in Pair}

\* s has crashed, its peers know, and none of its messages is on the way.
Buried(s) ==
  /\ lifecycle[s] = "Crashed"
  /\ \A d \in Shard \ {s} : /\ \A k \in Delay : pending[<<s, d>>][k] = <<>>
                            /\ Health(pressure[d][s]) # "Pos"

StaysBuried(s) == Buried(s) => Buried(s)' \/ lifecycle'[s] = "Alive"

\* From then on, whatever the crashed shard measures and however the network
\* behaves, no peer holds it as healthy again before it is healed
\* (tick_once: a shard that is not Alive does not gossip).
CrashedStaysBuried == [][\A s \in Shard : StaysBuried(s)]_vars

\* Two shards that are alive and connected from some time on agree about the
\* pressure of a shard that has settled, in spite of drops, of delays that
\* reorder messages, and of what they held before ("final observable
\* equivalence class", sim/mod.rs).
Converges ==
  \A c \in Pair : \A p \in Report :
    <>[](c \in Routes /\ pressure[c[1]][c[1]] = p) => <>[](pressure[c[2]][c[1]] = p)
=============================================================================

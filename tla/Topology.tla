------------------------------ MODULE Topology ------------------------------
(***************************************************************************)
(* What a shard's load says of it: the pressure counters of                *)
(* session-rs/src/admission.rs, the ternary health that                    *)
(* session-rs/src/topology.rs derives from them, the admission policy of   *)
(* admission.rs and the placement by health and distance of topology.rs.   *)
(***************************************************************************)
EXTENDS Naturals

\* budget_consumed is read by nothing and left out.
Pressure == [queue_depth : Nat, cursor_count : Nat]

Healthy == [queue_depth |-> 0, cursor_count |-> 0]       \* ShardPressure::default
NegPressure == [queue_depth |-> 0, cursor_count |-> 1]

CONGESTED_QUEUE_DEPTH == 500
HOT_CURSOR_COUNT == 1

\* health_from_pressure: a parked cursor outweighs the queue.
Health(p) ==
  IF p.cursor_count >= HOT_CURSOR_COUNT THEN "Neg"
  ELSE IF p.queue_depth >= CONGESTED_QUEUE_DEPTH THEN "Zero" ELSE "Pos"

-----------------------------------------------------------------------------
(* Admission: BackpressurePolicy::decide with the default thresholds *)

OpcodeClass == {"Control", "SetValue", "Propagate", "Subscribe", "Demand",
                "Stabilize", "Data"}

coalesce_threshold == 1000
shed_threshold == 5000

\* The decisions route_record turns into a rejection are Drop and Delay; the
\* others (ControlPlane, Prioritize, SlowLane, Coalesce, Allow) all admit.
Decide(class, p) ==
  CASE class = "Propagate" /\ p.queue_depth >= shed_threshold -> "Drop"
    [] class = "Data" /\ p.queue_depth >= coalesce_threshold  -> "Delay"
    [] OTHER -> "Admit"

-----------------------------------------------------------------------------
(* Placement over a topology map: known is the function from the shards    *)
(* that have reported to their pressure                                    *)

HealthyShards(known) == {s \in DOMAIN known : Health(known[s]) = "Pos"}

\* best_shard_for: the nearest healthy shard that has an address.  Shards at
\* the same distance are told apart by the iteration order of a hash map.
Nearest(from, known, distance) ==
  LET near == {s \in HealthyShards(known) : <<from, s>> \in DOMAIN distance}
  IN  {s \in near : \A t \in near : distance[<<from, s>>] <= distance[<<from, t>>]}

\* any_healthy_shard: the one with the lowest id, if there is one.
Lowest(shards) == {s \in shards : \A t \in shards : s <= t}
=============================================================================

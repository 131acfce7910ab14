----------------------------- MODULE MCRuntime -----------------------------
(***************************************************************************)
(* Two sides of a runtime, each explored with the calls that matter to it: *)
(*                                                                         *)
(*   authority   one session id through its lives, with tenants, rows,     *)
(*               profiles and reconnects                                   *)
(*   expiry      two sessions, their activity and their partitions'        *)
(*               quiescence, reaper runs at any time                       *)
(*   telemetry   the pressures of two shards and the ring                  *)
(***************************************************************************)
EXTENDS SessionRuntime

VARIABLE side

Policies3 == {NONE, READ_ONLY, ALL}

Advisory(s, masks, expiry) ==
  [version |-> 2, masks |-> masks, session |-> s, issuer |-> 0, trust |-> "Advisory",
   expiry |-> expiry, signed |-> FALSE]

\* Profiles for either session, of either kind, one that expires, one of the
\* old version, and one whose signature is not good.
Profiles ==
  {Advisory(1, ALL, Never), Advisory(1, READ_ONLY, 0), Advisory(2, ALL, Never)}
    \cup {[Advisory(1, READ_ONLY, Never) EXCEPT !.version = 1]}
    \cup {[Advisory(1, ALL, Never) EXCEPT !.trust = "Asserted", !.signed = b] : b \in BOOLEAN}

Reports == {Healthy, NegPressure, [queue_depth |-> 500, cursor_count |-> 0],
            [queue_depth |-> 5000, cursor_count |-> 0]}

Expiries == {p \in [inactivity : {Disabled, 1}, lag : {Disabled, 1}, frustration : {Disabled, 2}] :
               \E f \in DOMAIN p : p[f] # Disabled}

\* One session, its requests at epoch 0 and the rows of one opcode class.
AuthorityNext ==
  /\ \/ Hello(1) \/ HostSession(1)
     \/ \E t \in Tenant : Record(1, t, 0)
     \/ \E p \in Policy : RegisterTenant(0, p)
     \/ HostRow("SetValue")
     \/ HostNews
  /\ Len(ring'.said) <= 1
  /\ \A q \in DOMAIN partitions' : partitions'[q].shard = 0
  /\ \A d \in DOMAIN pressure' : pressure'[d] = Healthy
  /\ \A s \in DOMAIN sessions' : sessions'[s].quiescent = 0

\* Two sessions without authority, one tenant and one shard.
ExpiryNext ==
  /\ \/ \E s \in Session : \/ HelloRefused(s) \/ Terminate(s) \/ Cleanup(s)
                          \/ \E epoch \in Epoch : Record(s, 0, epoch)
     \/ HostNews
     \/ Reaper
  /\ Len(ring'.said) <= 1
  /\ \A q \in DOMAIN partitions' : partitions'[q].shard = 0
  /\ \A d \in DOMAIN pressure' : pressure'[d] = Healthy

\* One session and two shards, whose loads come and go.
TelemetryNext ==
  /\ \/ BareBootstrap(1, 0) \/ Record(1, 0, 0)
     \/ \E d \in Shard, p \in Loads : UpdatePressure(d, p)
     \/ HostNews
  /\ \A s \in DOMAIN sessions' : sessions'[s].quiescent = 0

SideInit == Init /\ side \in {"authority", "expiry", "telemetry"}

SideNext ==
  /\ \/ side = "authority" /\ AuthorityNext
     \/ side = "expiry" /\ ExpiryNext
     \/ side = "telemetry" /\ TelemetryNext
  /\ UNCHANGED side

SideSpec == SideInit /\ [][SideNext]_<<vars, side>>
=============================================================================

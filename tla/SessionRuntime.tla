--------------------------- MODULE SessionRuntime ---------------------------
(***************************************************************************)
(* One session-rs runtime over the life of its sessions: hellos that       *)
(* verify profiles (dispatch.rs, decode.rs), the gates of                  *)
(* SessionRuntime::route_record on tenants, authority and load             *)
(* (runtime.rs), the activity and quiescence that decide when the reaper   *)
(* takes a session (session.rs), and the telemetry ring that reports what  *)
(* happened (telemetry.rs).                                                *)
(*                                                                         *)
(* One action is one record or one call of the host.  Module Dispatcher    *)
(* models the same records for what happens to their paths, numbers and    *)
(* shards; here a sequence number either is a replay or is not, and the    *)
(* engine either applies a record or fails.  Every connection brings a     *)
(* decoder of its own, so that the epoch of a record is any epoch.         *)
(***************************************************************************)
EXTENDS Policies, Topology, Integers, Sequences

CONSTANTS
  Partition,    \* wire partition ids
  Shard,        \* shard ids
  Policy,       \* the policies that hosts and peers use
  Profile,      \* the profiles that peers present
  Trusted,      \* the issuers in the trust store
  Scopes,       \* the scopes that edges reveal
  Loads,        \* pressures that are reported
  ExpiryPolicy, \* the policies of the host's reaper runs
  Capacity,     \* of the telemetry ring
  MaxEpoch,     \* bound: the largest causal epoch
  MaxQuiet,     \* bound: quiescence notices in a row
  MaxSaid       \* bound: events between two drains of the ring

Epoch == 0..MaxEpoch

Disabled == -1          \* a trigger that is None

ASSUME RuntimeAssumption ==
  /\ 0 \in Tenant /\ 0 \in Shard
  /\ Policy \subseteq AuthorityPolicy /\ ALL \in Policy
  /\ Profile \subseteq SessionProfile
  /\ Scopes \subseteq SUBSET Bit
  /\ Loads \subseteq Pressure /\ Healthy \in Loads
  /\ ExpiryPolicy \subseteq [inactivity : Nat \cup {Disabled}, lag : Nat \cup {Disabled},
                             frustration : (Nat \ {0}) \cup {Disabled}]
  /\ Capacity \in Nat \ {0}
  /\ MaxEpoch \in Nat /\ MaxQuiet \in Nat /\ MaxSaid \in Nat

VARIABLES
  sessions,     \* SessionTable
  tenants,      \* DomainRegistry::tenants: the ceilings
  domains,      \* DomainRegistry::sessions
  partitions,   \* DomainRegistry::partitions
  rows,         \* PartitionAuthTable
  pressure,     \* SessionRuntime::pressure, and TopologyPartition with it
  ring,         \* TelemetryPartition, and all that was said since its drain
  granted       \* the policy each session was granted in its present life

registryVars == <<tenants, domains, partitions, rows>>
vars == <<sessions, tenants, domains, partitions, rows, pressure, ring, granted>>

SessionEntry == [tenant : Tenant, last_active : Epoch, quiescent : 0..MaxQuiet]
SessionDomain == [tenant : Tenant, claimed : AuthorityPolicy]
PartitionDomain == [session : Session, shard : Shard]

Rank == {"Pos", "Zero", "Neg"}
HealthNews == [shard : Shard, old : Rank, new : Rank]
Other == [event |-> "other"]    \* every event that tells no health
Event == HealthNews \cup {Other}

Live(s) == s \in DOMAIN sessions

\* HashMap::insert and HashMap::remove.
Inserted(table, id, entry) ==
  [x \in DOMAIN table \cup {id} |-> IF x = id THEN entry ELSE table[x]]
Removed(table, ids) == [x \in DOMAIN table \ ids |-> table[x]]

Init ==
  /\ sessions = <<>> /\ tenants = <<>> /\ domains = <<>>
  /\ partitions = <<>> /\ rows = <<>> /\ pressure = <<>>
  /\ ring = [buffer |-> <<>>, dropped |-> 0, said |-> <<>>]
  /\ granted = [s \in Session |-> NONE]

-----------------------------------------------------------------------------
(* Telemetry *)

\* Mutant: an event that is dropped is not counted.
Emitted_uncounted(r, event) ==
  LET full == Len(r.buffer) >= Capacity
  IN  [r EXCEPT !.buffer = Append(IF full THEN Tail(@) ELSE @, event),
                !.said = Append(@, event)]

\* TelemetryPartition::emit.
Emitted(r, event) ==
  LET full == Len(r.buffer) >= Capacity
  IN  [buffer  |-> Append(IF full THEN Tail(r.buffer) ELSE r.buffer, event),
       dropped |-> IF full THEN r.dropped + 1 ELSE r.dropped,
       said    |-> Append(r.said, event)]

Emit(event) ==
  /\ Len(ring.said) < MaxSaid
  /\ ring' = Emitted(ring, event)

\* TelemetryPartition::drain.
Drain ==
  /\ ring' = [buffer |-> <<>>, dropped |-> 0, said |-> <<>>]
  /\ UNCHANGED <<sessions, registryVars, pressure, granted>>

\* Mutant: a shard nothing was heard of has a rank of its own.
HealthOf_unknown(known, d) == IF d \in DOMAIN known THEN Health(known[d]) ELSE "Unknown"

\* TopologyPartition::health: a shard nothing was heard of counts as Neg.
HealthOf(known, d) == IF d \in DOMAIN known THEN Health(known[d]) ELSE "Neg"

\* Mutant: the old health is read after the pressure was stored.
Reported_late(r, d, p) ==
  IF HealthOf(pressure, d) = Health(p) THEN r
  ELSE Emitted(r, [shard |-> d, old |-> Health(p), new |-> Health(p)])

\* update_pressure: the ring r after pressure p of shard d was stored.
Reported(r, d, p) ==
  IF HealthOf(pressure, d) = Health(p) THEN r
  ELSE Emitted(r, [shard |-> d, old |-> HealthOf(pressure, d), new |-> Health(p)])

StorePressure(d, p) == pressure' = Inserted(pressure, d, p)

\* The host reports the pressure of a shard.
UpdatePressure(d, p) ==
  /\ Len(ring.said) < MaxSaid
  /\ StorePressure(d, p)
  /\ ring' = Reported(ring, d, p)
  /\ UNCHANGED <<sessions, registryVars, granted>>

\* The host tells of a cell, a region, an exhausted budget or the address of
\* a shard.
Notify ==
  /\ Emit(Other)
  /\ UNCHANGED <<sessions, registryVars, pressure, granted>>

-----------------------------------------------------------------------------
(* The host's tables *)

RegisterTenant(t, p) ==
  /\ tenants' = Inserted(tenants, t, p)
  /\ UNCHANGED <<sessions, domains, partitions, rows, pressure, ring, granted>>

InstallRow(part, class, required) ==
  /\ rows' = Inserted(rows, <<part, class>>, required)
  /\ UNCHANGED <<sessions, tenants, domains, partitions, pressure, ring, granted>>

RemoveRow(part, class) ==
  /\ <<part, class>> \in DOMAIN rows
  /\ rows' = Removed(rows, {<<part, class>>})
  /\ UNCHANGED <<sessions, tenants, domains, partitions, pressure, ring, granted>>

NewSession(t) == [tenant |-> t, last_active |-> 0, quiescent |-> 0]

\* A session that is in the SessionTable only: it passes every gate.
BareBootstrap(s, t) ==
  /\ ~Live(s) /\ s \notin DOMAIN domains
  /\ sessions' = Inserted(sessions, s, NewSession(t))
  /\ UNCHANGED <<registryVars, pressure, ring, granted>>

\* The host creates a session by itself, with a domain of the policy it sees
\* fit (sim/mod.rs, register_session_everywhere).
LocalBootstrap(s, t, p) ==
  /\ ~Live(s)
  /\ sessions' = Inserted(sessions, s, NewSession(t))
  /\ domains' = Inserted(domains, s, [tenant |-> t, claimed |-> p])
  /\ granted' = [granted EXCEPT ![s] = p]
  /\ UNCHANGED <<tenants, partitions, rows, pressure, ring>>

\* terminate; the domain of the session stays until the host removes it.
Terminate(s) ==
  /\ Live(s)
  /\ sessions' = Removed(sessions, {s})
  /\ granted' = [granted EXCEPT ![s] = NONE]
  /\ UNCHANGED <<registryVars, pressure, ring>>

\* "The caller should propagate tombstoned session IDs" (session.rs).
Cleanup(s) ==
  /\ ~Live(s)
  /\ domains' = Removed(domains, {s})
  /\ partitions' = Removed(partitions, {q \in DOMAIN partitions : partitions[q].session = s})
  /\ UNCHANGED <<sessions, tenants, rows, pressure, ring, granted>>

-----------------------------------------------------------------------------
(* Hellos *)

\* handle_profile creates what is missing before the profile is verified.
OpenedSessions(s) == IF Live(s) THEN sessions ELSE Inserted(sessions, s, NewSession(0))

\* Mutant: a domain left by a former life is kept.
OpenedDomains_kept(s) ==
  IF Live(s) \/ s \in DOMAIN domains THEN domains
  ELSE Inserted(domains, s, [tenant |-> 0, claimed |-> NONE])

OpenedDomains(s) ==
  IF Live(s) THEN domains ELSE Inserted(domains, s, [tenant |-> 0, claimed |-> NONE])

\* process_profile: the ceiling of the session's tenant.
Ceiling(s) ==
  LET t == OpenedDomains(s)[s].tenant IN IF t \in DOMAIN tenants THEN tenants[t] ELSE NONE

HelloAccepted(s, profile, epoch) ==
  /\ Live(s) => s \in DOMAIN domains
  /\ Verifies(profile, s, epoch, Trusted)
  /\ LET effective == Intersect(ClaimedPolicy(profile), Ceiling(s))
     IN  /\ sessions' = OpenedSessions(s)
         /\ domains' = [OpenedDomains(s) EXCEPT ![s].claimed = effective]
         /\ granted' = [granted EXCEPT ![s] = effective]
  /\ UNCHANGED <<tenants, partitions, rows, pressure, ring>>

\* A payload that does not parse, a profile that does not verify, or a live
\* session without a domain: what was created stays.
HelloRefused(s) ==
  /\ sessions' = OpenedSessions(s)
  /\ domains' = OpenedDomains(s)
  /\ UNCHANGED <<tenants, partitions, rows, pressure, ring, granted>>

-----------------------------------------------------------------------------
(* Records *)

\* effective_policy, with the fallback of route_record.
Held(s) ==
  IF s \in DOMAIN domains /\ domains[s].tenant \in DOMAIN tenants
  THEN Intersect(domains[s].claimed, tenants[domains[s].tenant])
  ELSE ALL

ShardOf(part) == IF part \in DOMAIN partitions THEN partitions[part].shard ELSE 0

PressureOf(d) == IF d \in DOMAIN pressure THEN pressure[d] ELSE Healthy

\* The first gates of route_record: the session and its tenant.
Known(s, t) == Live(s) /\ (t = 0 \/ t = sessions[s].tenant)

RejectReplay(s, t) ==
  /\ Known(s, t)
  /\ Emit(Other)
  /\ UNCHANGED <<sessions, registryVars, pressure, granted>>

RejectByGate(s, t, class, part) ==
  /\ Known(s, t)
  /\ ~Gate(rows, part, class, Held(s))
  /\ Emit(Other)
  /\ UNCHANGED <<sessions, registryVars, pressure, granted>>

\* Mutant: a record leaves the quiescence count alone.
RecordActivity_quiet(s, epoch) ==
  sessions' = [sessions EXCEPT ![s].last_active = IF epoch > @ THEN epoch ELSE @]

RecordActivity(s, epoch) ==
  sessions' = [sessions EXCEPT ![s].last_active = IF epoch > @ THEN epoch ELSE @,
                               ![s].quiescent = 0]

\* The rest of route_record, for a record that it admits.
Routed(s, t, epoch, class, part) ==
  /\ Known(s, t)
  /\ Gate(rows, part, class, Held(s))
  /\ part \in DOMAIN partitions \/ class \in {"Control", "Subscribe"}
  /\ Decide(class, PressureOf(ShardOf(part))) = "Admit"
  /\ RecordActivity(s, epoch)

\* handle_admitted after the engine applied the record on shard d: the
\* pressure of d is reported, and a fixed point for Stabilize.
Applied(d, class) ==
  /\ Len(ring.said) < MaxSaid
  /\ \E p \in Loads :
       /\ p.cursor_count = 0
       /\ StorePressure(d, p)
       /\ ring' = IF class = "Stabilize" THEN Emitted(Reported(ring, d, p), Other)
                  ELSE Reported(ring, d, p)

\* scope is what an EdgeConnect or a SetEdgeLabel reveals of other partitions.
ApplyRecord(s, t, epoch, class, part) ==
  /\ Routed(s, t, epoch, class, part)
  /\ \E scope \in Scopes : class = "Control" => Discloses(Held(s), scope)
  /\ Applied(ShardOf(part), class)
  /\ UNCHANGED <<registryVars, granted>>

\* The body does not parse, the scope is not held or the engine fails: only
\* the activity is on record.
FailRecord(s, t, epoch, class, part) ==
  /\ Routed(s, t, epoch, class, part)
  /\ UNCHANGED <<registryVars, pressure, ring, granted>>

\* PartitionCreate of id: its owner and its shard are replaced, and so are the
\* rows of all classes.  (Module Dispatcher says which shard it is.)
CreatePartition(s, t, epoch, part, id, shard) ==
  /\ Routed(s, t, epoch, "Control", part)
  /\ Applied(ShardOf(part), "Control")
  /\ partitions' = Inserted(partitions, id, [session |-> s, shard |-> shard])
  /\ rows' = [k \in DOMAIN rows \cup ({id} \X OpcodeClass) |->
               IF k \in {id} \X OpcodeClass THEN NONE ELSE rows[k]]
  /\ UNCHANGED <<tenants, domains, granted>>

-----------------------------------------------------------------------------
(* Quiescence and expiry *)

\* notify_domain_quiescent: one notice per partition counts for its owner.
NotifyDomainQuiescent(part) ==
  /\ Emit(Other)
  /\ LET owners == {s \in DOMAIN sessions : /\ part \in DOMAIN partitions
                                            /\ partitions[part].session = s}
     IN  /\ \A s \in owners : sessions[s].quiescent < MaxQuiet
         /\ sessions' = [s \in DOMAIN sessions |->
              IF s \in owners THEN [sessions[s] EXCEPT !.quiescent = @ + 1] ELSE sessions[s]]
  /\ UNCHANGED <<registryVars, pressure, granted>>

Behind(s, epoch, threshold) ==
  threshold # Disabled /\ epoch > sessions[s].last_active + threshold

\* Mutant: the frontier is the host's epoch.
Lags_behind_now(s, now, threshold) == Behind(s, now, threshold)

\* The frontier is the largest epoch of a live session, as the run begins.
Lags(s, now, threshold) == \E r \in DOMAIN sessions : Behind(s, sessions[r].last_active, threshold)

Frustrated(s, threshold) == threshold # Disabled /\ sessions[s].quiescent >= threshold

\* Mutant: the table is scanned up to the first session to take.
Reaped_first(policy, now) ==
  LET due == {s \in DOMAIN sessions : \/ Behind(s, now, policy.inactivity)
                                      \/ Lags(s, now, policy.lag)
                                      \/ Frustrated(s, policy.frustration)}
  IN  {s \in due : \A r \in due : s <= r}

\* SessionReaper::reap.
Reaped(policy, now) ==
  {s \in DOMAIN sessions : \/ Behind(s, now, policy.inactivity)
                           \/ Lags(s, now, policy.lag)
                           \/ Frustrated(s, policy.frustration)}

Reap(policy, now) ==
  /\ sessions' = Removed(sessions, Reaped(policy, now))
  /\ granted' = [s \in Session |-> IF s \in Reaped(policy, now) THEN NONE ELSE granted[s]]
  /\ UNCHANGED <<registryVars, pressure, ring>>

-----------------------------------------------------------------------------
Hello(s) ==
  \/ HelloRefused(s)
  \/ \E profile \in Profile, epoch \in Epoch : HelloAccepted(s, profile, epoch)

Record(s, t, epoch) ==
  \/ RejectReplay(s, t)
  \/ \E class \in OpcodeClass, part \in Partition :
       \/ RejectByGate(s, t, class, part)
       \/ ApplyRecord(s, t, epoch, class, part)
       \/ FailRecord(s, t, epoch, class, part)
  \/ \E part \in Partition, id \in Partition, shard \in Shard :
       CreatePartition(s, t, epoch, part, id, shard)

HostRow(class) ==
  \E part \in Partition : (\E p \in Policy : InstallRow(part, class, p)) \/ RemoveRow(part, class)

HostSession(s) ==
  \/ \E t \in Tenant : BareBootstrap(s, t) \/ \E p \in Policy : LocalBootstrap(s, t, p)
  \/ Terminate(s)
  \/ Cleanup(s)

Reaper == \E policy \in ExpiryPolicy, now \in Epoch : Reap(policy, now)

HostNews ==
  \/ \E part \in Partition : NotifyDomainQuiescent(part)
  \/ Notify
  \/ Drain

Next ==
  \/ \E s \in Session : \/ Hello(s)
                       \/ \E t \in Tenant, epoch \in Epoch : Record(s, t, epoch)
                       \/ HostSession(s)
  \/ \E t \in Tenant, p \in Policy : RegisterTenant(t, p)
  \/ \E class \in OpcodeClass : HostRow(class)
  \/ \E d \in Shard, p \in Loads : UpdatePressure(d, p)
  \/ HostNews
  \/ Reaper

Spec == Init /\ [][Next]_vars

-----------------------------------------------------------------------------
IsTable(table, ids, entries) ==
  /\ DOMAIN table \subseteq ids
  /\ \A id \in DOMAIN table : table[id] \in entries

Ring == [buffer : Seq(Event), dropped : Nat, said : Seq(Event)]

SessionsTyped ==
  /\ IsTable(sessions, Session, SessionEntry)
  /\ granted \in [Session -> AuthorityPolicy]

RegistryTyped ==
  /\ IsTable(tenants, Tenant, AuthorityPolicy)
  /\ IsTable(domains, Session, SessionDomain)
  /\ IsTable(partitions, Partition, PartitionDomain)
  /\ IsTable(rows, Partition \X OpcodeClass, AuthorityPolicy)

NewsTyped == IsTable(pressure, Shard, Pressure) /\ ring \in Ring

TypeOK == SessionsTyped /\ RegistryTyped /\ NewsTyped

\* What the gates hold for a live session with a domain is what it was granted
\* in this life, by the host or by the last profile of it that verified, under
\* the ceiling its tenant has now.  A session id that was in use before brings
\* nothing along (dispatch.rs: "Start with NONE (no authority)").  It is said
\* of sessions whose tenant is registered: for the others see BootstrapClips.
AuthorityOfThisLife ==
  \A s \in DOMAIN sessions \cap DOMAIN domains :
    domains[s].tenant \in DOMAIN tenants =>
      Held(s) = Intersect(granted[s], tenants[domains[s].tenant])

\* After a hello whose profile verified, the gates hold for its session no
\* more than the policy it was granted, which is NONE when the tenant is not
\* registered ("remote bootstrap silently clips capabilities to
\* AuthorityPolicy::NONE if the tenant is not registered", decode.rs; "all
\* four policy axes are silently clipped to NONE", spec/integration.md).
BootstrapClips ==
  [][\A s \in Session, profile \in Profile, epoch \in Epoch :
       HelloAccepted(s, profile, epoch) => IsBoundedBy(Held(s), granted[s])']_vars

\* A subscriber that drains the ring gets the latest events, in the order in
\* which they were emitted, and dropped counts exactly those it missed
\* (telemetry.rs: "Count of events dropped due to buffer overflow since last
\* drain").
RingKeepsLatest ==
  /\ Len(ring.buffer) <= Capacity
  /\ ring.dropped + Len(ring.buffer) = Len(ring.said)
  /\ ring.dropped > 0 => Len(ring.buffer) = Capacity
  /\ \A i \in 1..Len(ring.buffer) : ring.buffer[i] = ring.said[ring.dropped + i]

\* The places of the health news of shard d among the events of a buffer.
NewsOf(d, buffer) == {i \in DOMAIN buffer : buffer[i] # Other /\ buffer[i].shard = d}

\* The health news of a shard in the ring tell one story: each begins with
\* the health the one before ended with, and the last with the health the
\* shard has now (runtime.rs, update_pressure: an event "when the ternary
\* health value transitions").
HealthNewsChain ==
  \A d \in Shard :
    LET news == NewsOf(d, ring.buffer)
    IN  \A i \in news :
          /\ \A j \in news : i < j /\ (\A k \in news : k <= i \/ k >= j)
               => ring.buffer[i].new = ring.buffer[j].old
          /\ (\A j \in news : j <= i) => ring.buffer[i].new = HealthOf(pressure, d)

\* Record s admits at an epoch, whatever comes of it.
AdmitsAt(s, epoch) ==
  /\ RecordActivity(s, epoch)
  /\ \E t \in Tenant, part \in Partition :
      \/ \E class \in OpcodeClass : \/ ApplyRecord(s, t, epoch, class, part)
                                  \/ FailRecord(s, t, epoch, class, part)
      \/ \E id \in Partition, shard \in Shard : CreatePartition(s, t, epoch, part, id, shard)

\* Right after a record of s was admitted, a reaper run at any epoch up to
\* the latest at which s was heard takes it only if it lags behind another
\* session, whatever was said of its partitions' quiescence before and
\* however old the record itself is (runtime.rs: "An admitted record resets
\* the Zero-frustration counter and advances the last-active epoch").
ActiveSurvives ==
  [][\A s \in DOMAIN sessions, epoch \in Epoch : AdmitsAt(s, epoch) =>
       \A policy \in ExpiryPolicy, now \in Epoch :
         (now <= epoch \/ now <= sessions[s].last_active) /\ policy.lag = Disabled
           => s \notin Reaped(policy, now)']_vars

\* A reaper run leaves nothing behind that the same run would take: what it
\* takes does not depend on the order in which it goes through the table.
ReapSettles ==
  [][DOMAIN sessions' # DOMAIN sessions =>
       \A policy \in ExpiryPolicy, now \in Epoch :
         Reap(policy, now) => Reaped(policy, now)' = {}]_vars

\* The lag trigger compares live sessions with each other: alone, it never
\* takes the last one, however far the host's epoch is ahead (session.rs:
\* "falling behind the causal frontier").
FrontierSurvives ==
  [][DOMAIN sessions # {} /\ DOMAIN sessions' = {} =>
       \A policy \in ExpiryPolicy, now \in Epoch :
         policy.inactivity = Disabled /\ policy.frustration = Disabled => ~Reap(policy, now)]_vars
=============================================================================

--------------------------- MODULE RuntimeProofs ---------------------------
(***************************************************************************)
(* Proofs about SessionRuntime, for every set of sessions, tenants,        *)
(* partitions and shards, every ring and every policy of the host.         *)
(***************************************************************************)
EXTENDS SessionRuntime, WellFoundedInduction, TLAPS

\* A session that is not alive has been granted nothing.
NothingGranted == \A s \in Session : ~Live(s) => granted[s] = NONE

\* The policy on record for a live session is the one it was granted.
ClaimedAsGranted ==
  \A s \in DOMAIN sessions \cap DOMAIN domains : domains[s].claimed = granted[s]

IInv == TypeOK /\ NothingGranted /\ ClaimedAsGranted /\ RingKeepsLatest

-----------------------------------------------------------------------------
(* Tables *)

LEMMA InsertedTable ==
  ASSUME NEW ids, NEW entries, NEW table, IsTable(table, ids, entries),
         NEW id \in ids, NEW entry \in entries
  PROVE  IsTable(Inserted(table, id, entry), ids, entries)
  BY DEF IsTable, Inserted

LEMMA RemovedTable ==
  ASSUME NEW ids, NEW entries, NEW table, IsTable(table, ids, entries), NEW gone
  PROVE  IsTable(Removed(table, gone), ids, entries)
  BY DEF IsTable, Removed

LEMMA IntersectType ==
  ASSUME NEW p \in AuthorityPolicy, NEW q
  PROVE  Intersect(p, q) \in AuthorityPolicy
  BY DEF Intersect, AuthorityPolicy

LEMMA NoneType == NONE \in AuthorityPolicy
  BY DEF NONE, AuthorityPolicy

LEMMA ClaimedType ==
  ASSUME NEW profile \in Profile
  PROVE  ClaimedPolicy(profile) \in AuthorityPolicy
  BY RuntimeAssumption DEF SessionProfile, ClaimedPolicy, AuthorityPolicy, Axis

LEMMA NewSessionType ==
  ASSUME NEW t \in Tenant
  PROVE  NewSession(t) \in SessionEntry
  BY RuntimeAssumption DEF NewSession, SessionEntry, Epoch

-----------------------------------------------------------------------------
(* The ring *)

\* RingKeepsLatest, of any ring.
Keeps(r) ==
  /\ Len(r.buffer) <= Capacity
  /\ r.dropped + Len(r.buffer) = Len(r.said)
  /\ r.dropped > 0 => Len(r.buffer) = Capacity
  /\ \A i \in 1..Len(r.buffer) : r.buffer[i] = r.said[r.dropped + i]

LEMMA EmittedType ==
  ASSUME NEW r \in Ring, NEW e \in Event
  PROVE  Emitted(r, e) \in Ring
<1>1. Len(r.buffer) >= Capacity => Tail(r.buffer) \in Seq(Event)
  BY RuntimeAssumption DEF Ring
<1>2. QED  BY <1>1 DEF Emitted, Ring

LEMMA EmittedKeeps ==
  ASSUME NEW r \in Ring, NEW e \in Event, Keeps(r)
  PROVE  Keeps(Emitted(r, e))
<1> DEFINE full == Len(r.buffer) >= Capacity
           kept == IF full THEN Tail(r.buffer) ELSE r.buffer
           next == Emitted(r, e)
<1>1. /\ r.buffer \in Seq(Event) /\ r.said \in Seq(Event) /\ r.dropped \in Nat
      /\ Capacity \in Nat \ {0}
  BY RuntimeAssumption DEF Ring
<1>2. /\ kept \in Seq(Event)
      /\ Len(kept) = IF full THEN Len(r.buffer) - 1 ELSE Len(r.buffer)
      /\ \A i \in 1..Len(kept) : kept[i] = IF full THEN r.buffer[i + 1] ELSE r.buffer[i]
  BY <1>1
<1>3. /\ next.buffer = Append(kept, e) /\ next.said = Append(r.said, e)
      /\ next.dropped = IF full THEN r.dropped + 1 ELSE r.dropped
  BY DEF Emitted
<1>4. /\ Len(next.buffer) = Len(kept) + 1 /\ Len(next.said) = Len(r.said) + 1
      /\ next.buffer[Len(kept) + 1] = e /\ next.said[Len(r.said) + 1] = e
      /\ \A i \in 1..Len(kept) : next.buffer[i] = kept[i]
      /\ \A i \in 1..Len(r.said) : next.said[i] = r.said[i]
  BY <1>1, <1>2, <1>3
<1> DEFINE length == Len(r.buffer)
<1>l. /\ length \in Nat /\ length <= Capacity /\ Len(r.said) \in Nat /\ r.dropped \in Nat
      /\ r.dropped + length = Len(r.said)
      /\ r.dropped > 0 => length = Capacity
  BY <1>1 DEF Keeps
<1>m. Len(next.buffer) = IF full THEN length ELSE length + 1
  BY <1>1, <1>2, <1>4, <1>l
<1>5. next.dropped + Len(next.buffer) = Len(next.said)
  <2> HIDE DEF next, length, kept
  <2>1. CASE length >= Capacity
    <3>1. next.dropped = r.dropped + 1 /\ Len(next.said) = Len(r.said) + 1
      BY <1>3, <1>4, <2>1 DEF length
    <3>2. Len(next.buffer) = length
      BY <1>m, <2>1 DEF length
    <3>3. QED  BY <1>l, <3>1, <3>2
  <2>2. CASE ~(length >= Capacity)
    BY <1>1, <1>3, <1>4, <1>l, <1>m, <2>2 DEF length
  <2>3. QED  BY <2>1, <2>2
<1>6. /\ Len(next.buffer) <= Capacity
      /\ next.dropped > 0 => Len(next.buffer) = Capacity
  <2> HIDE DEF next, length, kept
  <2>1. CASE length >= Capacity
    BY <1>1, <1>l, <1>m, <2>1 DEF length
  <2>2. CASE ~(length >= Capacity)
    BY <1>1, <1>3, <1>l, <1>m, <2>2 DEF length
  <2>3. QED  BY <2>1, <2>2
<1>7. ASSUME NEW i \in 1..Len(next.buffer)
      PROVE  next.buffer[i] = next.said[next.dropped + i]
  <2>1. CASE i = Len(kept) + 1
    BY <1>1, <1>2, <1>3, <1>4, <1>5, <2>1
  <2>2. CASE i \in 1..Len(kept)
    <3>1. next.buffer[i] = r.said[next.dropped + i]
      <4>1. next.buffer[i] = IF full THEN r.buffer[i + 1] ELSE r.buffer[i]
        BY <1>2, <1>4, <2>2
      <4>2. CASE full
        <5>1. Len(kept) = Len(r.buffer) - 1 /\ next.dropped = r.dropped + 1
          BY <1>2, <1>3, <4>2
        <5> HIDE DEF next, kept
        <5>2. i + 1 \in 1..Len(r.buffer) /\ next.dropped + i = r.dropped + (i + 1)
          <6>1. i \in 1..(length - 1)
            BY <2>2, <5>1 DEF length
          <6> HIDE DEF length
          <6>2. i + 1 \in 1..length
            BY <1>l, <6>1
          <6>3. next.dropped + i = r.dropped + (i + 1)
            BY <1>l, <5>1, <6>1
          <6>4. QED  BY <6>2, <6>3 DEF length
        <5>3. QED  BY <4>1, <4>2, <5>2 DEF Keeps
      <4>3. CASE ~full
        <5>1. i \in 1..Len(r.buffer) /\ next.dropped = r.dropped
          BY <1>1, <1>2, <1>3, <2>2, <4>3
        <5>2. QED  BY <4>1, <4>3, <5>1 DEF Keeps
      <4>4. QED  BY <4>2, <4>3
    <3>2. next.dropped + i \in 1..Len(r.said)
      BY <1>1, <1>2, <1>3, <2>2 DEF Keeps
    <3>3. QED  BY <1>4, <3>1, <3>2
  <2>3. QED  BY <1>1, <1>2, <1>4, <2>1, <2>2
<1>8. QED  BY <1>5, <1>6, <1>7 DEF Keeps

LEMMA HealthRank == \A p \in Pressure : Health(p) \in Rank
  BY DEF Health, Rank

LEMMA ReportedRing ==
  ASSUME IsTable(pressure, Shard, Pressure), NEW d \in Shard, NEW p \in Pressure,
         NEW r \in Ring, Keeps(r)
  PROVE  Reported(r, d, p) \in Ring /\ Keeps(Reported(r, d, p))
<1>1. HealthOf(pressure, d) \in Rank /\ Health(p) \in Rank
  BY HealthRank DEF HealthOf, IsTable, Rank
<1>2. [shard |-> d, old |-> HealthOf(pressure, d), new |-> Health(p)] \in Event
  BY <1>1 DEF Event, HealthNews
<1>3. QED  BY <1>2, EmittedType, EmittedKeeps DEF Reported

LEMMA EmptyRing ==
  /\ [buffer |-> <<>>, dropped |-> 0, said |-> <<>>] \in Ring
  /\ Keeps([buffer |-> <<>>, dropped |-> 0, said |-> <<>>])
  BY RuntimeAssumption DEF Ring, Keeps

\* Every step leaves the pressures or stores one, and leaves the ring, empties
\* it, says something else, or reports the pressure and perhaps says more.
PressureStored == \E d \in Shard, p \in Pressure :
  /\ pressure' = Inserted(pressure, d, p)
  /\ ring' \in {Reported(ring, d, p), Emitted(Reported(ring, d, p), Other)}

LEMMA AppliedStores ==
  ASSUME RegistryTyped, NEW part, NEW class, Applied(ShardOf(part), class)
  PROVE  PressureStored
<1>1. ShardOf(part) \in Shard
  BY RuntimeAssumption DEF RegistryTyped, IsTable, PartitionDomain, ShardOf
<1>2. QED  BY <1>1, RuntimeAssumption DEF Applied, StorePressure, PressureStored

LEMMA NewsSteps ==
  ASSUME RegistryTyped, Next
  PROVE  \/ PressureStored
         \/ /\ pressure' = pressure
            /\ ring' \in {ring, [buffer |-> <<>>, dropped |-> 0, said |-> <<>>], Emitted(ring, Other)}
<1> DEFINE Quiet == pressure' = pressure /\ ring' = ring
           Said == pressure' = pressure /\ ring' = Emitted(ring, Other)
<1>1. ASSUME NEW s \in Session, Hello(s) PROVE Quiet
  BY <1>1 DEF Hello, HelloRefused, HelloAccepted
<1>2. ASSUME NEW s \in Session, NEW t \in Tenant, NEW epoch \in Epoch, Record(s, t, epoch)
      PROVE  PressureStored \/ Quiet \/ Said
  <2>1. CASE RejectReplay(s, t)
    BY <2>1 DEF RejectReplay, Emit
  <2>2. ASSUME NEW class \in OpcodeClass, NEW part \in Partition, RejectByGate(s, t, class, part)
        PROVE  Said
    BY <2>2 DEF RejectByGate, Emit
  <2>3. ASSUME NEW class \in OpcodeClass, NEW part \in Partition,
               ApplyRecord(s, t, epoch, class, part)
        PROVE  PressureStored
    BY <2>3, AppliedStores DEF ApplyRecord
  <2>4. ASSUME NEW class \in OpcodeClass, NEW part \in Partition,
               FailRecord(s, t, epoch, class, part)
        PROVE  Quiet
    BY <2>4 DEF FailRecord
  <2>5. ASSUME NEW part \in Partition, NEW id \in Partition, NEW shard \in Shard,
               CreatePartition(s, t, epoch, part, id, shard)
        PROVE  PressureStored
    BY <2>5, AppliedStores DEF CreatePartition
  <2>6. QED  BY <1>2, <2>1, <2>2, <2>3, <2>4, <2>5 DEF Record
<1>3. ASSUME NEW s \in Session, HostSession(s) PROVE Quiet
  BY <1>3 DEF HostSession, BareBootstrap, LocalBootstrap, Terminate, Cleanup
<1>4. ASSUME NEW t \in Tenant, NEW p \in Policy, RegisterTenant(t, p) PROVE Quiet
  BY <1>4 DEF RegisterTenant
<1>5. ASSUME NEW class \in OpcodeClass, HostRow(class) PROVE Quiet
  BY <1>5 DEF HostRow, InstallRow, RemoveRow
<1>6. ASSUME NEW d \in Shard, NEW p \in Loads, UpdatePressure(d, p) PROVE PressureStored
  BY <1>6, RuntimeAssumption DEF UpdatePressure, StorePressure, PressureStored
<1>7. ASSUME HostNews
      PROVE  \/ Said
             \/ pressure' = pressure /\ ring' = [buffer |-> <<>>, dropped |-> 0, said |-> <<>>]
  BY <1>7 DEF HostNews, NotifyDomainQuiescent, Notify, Drain, Emit
<1>8. ASSUME Reaper PROVE Quiet
  BY <1>8 DEF Reaper, Reap
<1>9. QED  BY <1>1, <1>2, <1>3, <1>4, <1>5, <1>6, <1>7, <1>8 DEF Next

LEMMA NewsTypedNext ==
  ASSUME RegistryTyped, NewsTyped, RingKeepsLatest, Next
  PROVE  NewsTyped' /\ RingKeepsLatest'
<1>1. Other \in Event /\ ring \in Ring /\ Keeps(ring) /\ IsTable(pressure, Shard, Pressure)
  BY DEF Event, NewsTyped, RingKeepsLatest, Keeps
<1>2. CASE PressureStored
  <2>1. PICK d \in Shard, p \in Pressure :
          /\ pressure' = Inserted(pressure, d, p)
          /\ ring' \in {Reported(ring, d, p), Emitted(Reported(ring, d, p), Other)}
    BY <1>2 DEF PressureStored
  <2>2. ring' \in Ring /\ Keeps(ring')
    BY <1>1, <2>1, ReportedRing, EmittedType, EmittedKeeps
  <2>3. IsTable(pressure', Shard, Pressure)
    BY <1>1, <2>1, InsertedTable
  <2>4. QED  BY <2>2, <2>3 DEF NewsTyped, RingKeepsLatest, Keeps
<1>3. CASE /\ pressure' = pressure
           /\ ring' \in {ring, [buffer |-> <<>>, dropped |-> 0, said |-> <<>>], Emitted(ring, Other)}
  <2>1. ring' \in Ring /\ Keeps(ring')
    BY <1>1, <1>3, EmptyRing, EmittedType, EmittedKeeps
  <2>2. QED  BY <1>1, <1>3, <2>1 DEF NewsTyped, RingKeepsLatest, Keeps
<1>4. QED  BY <1>2, <1>3, NewsSteps

-----------------------------------------------------------------------------
(* Sessions *)

LEMMA RecordActivityType ==
  ASSUME IsTable(sessions, Session, SessionEntry), NEW s \in DOMAIN sessions,
         NEW epoch \in Epoch, RecordActivity(s, epoch)
  PROVE  IsTable(sessions', Session, SessionEntry) /\ DOMAIN sessions' = DOMAIN sessions
<1> DEFINE latest == IF epoch > sessions[s].last_active THEN epoch ELSE sessions[s].last_active
           entry == [sessions[s] EXCEPT !.last_active = latest, !.quiescent = 0]
<1>1. sessions[s] \in SessionEntry
  BY DEF IsTable
<1>2. entry \in SessionEntry
  <2>1. latest \in Epoch /\ 0 \in 0..MaxQuiet
    BY <1>1, RuntimeAssumption DEF SessionEntry, Epoch
  <2> HIDE DEF latest
  <2>2. QED  BY <1>1, <2>1 DEF SessionEntry
<1>3. sessions' = [sessions EXCEPT ![s] = entry]
  BY DEF RecordActivity
<1> HIDE DEF entry
<1>4. QED  BY <1>2, <1>3 DEF IsTable

\* A record that is admitted is one of a live session.
LEMMA RoutedActivity ==
  ASSUME IsTable(sessions, Session, SessionEntry), NEW s \in Session, NEW t, NEW epoch \in Epoch,
         NEW class, NEW part, Routed(s, t, epoch, class, part)
  PROVE  IsTable(sessions', Session, SessionEntry) /\ DOMAIN sessions' = DOMAIN sessions
<1>1. s \in DOMAIN sessions /\ RecordActivity(s, epoch)
  BY DEF Routed, Known, Live
<1>2. QED  BY <1>1, RecordActivityType

\* What a record does to the tables of sessions, domains and grants.
LEMMA RecordKeeps ==
  ASSUME IsTable(sessions, Session, SessionEntry), NEW s \in Session, NEW t \in Tenant,
         NEW epoch \in Epoch, Record(s, t, epoch)
  PROVE  /\ IsTable(sessions', Session, SessionEntry) /\ DOMAIN sessions' = DOMAIN sessions
         /\ UNCHANGED <<tenants, domains, granted>>
<1>1. CASE RejectReplay(s, t)
  BY <1>1 DEF RejectReplay, registryVars
<1>2. ASSUME NEW class \in OpcodeClass, NEW part \in Partition,
             \/ RejectByGate(s, t, class, part)
             \/ ApplyRecord(s, t, epoch, class, part)
             \/ FailRecord(s, t, epoch, class, part)
      PROVE  /\ IsTable(sessions', Session, SessionEntry) /\ DOMAIN sessions' = DOMAIN sessions
             /\ UNCHANGED <<tenants, domains, granted>>
  <2>1. CASE RejectByGate(s, t, class, part)
    BY <2>1 DEF RejectByGate, registryVars
  <2>2. CASE ApplyRecord(s, t, epoch, class, part)
    BY <2>2, RoutedActivity DEF ApplyRecord, registryVars
  <2>3. CASE FailRecord(s, t, epoch, class, part)
    BY <2>3, RoutedActivity DEF FailRecord, registryVars
  <2>4. QED  BY <1>2, <2>1, <2>2, <2>3
<1>3. ASSUME NEW part \in Partition, NEW id \in Partition, NEW shard \in Shard,
             CreatePartition(s, t, epoch, part, id, shard)
      PROVE  /\ IsTable(sessions', Session, SessionEntry) /\ DOMAIN sessions' = DOMAIN sessions
             /\ UNCHANGED <<tenants, domains, granted>>
  BY <1>3, RoutedActivity DEF CreatePartition
<1>4. QED  BY <1>1, <1>2, <1>3 DEF Record

LEMMA NoticeType ==
  ASSUME IsTable(sessions, Session, SessionEntry), NEW part \in Partition, NotifyDomainQuiescent(part)
  PROVE  IsTable(sessions', Session, SessionEntry) /\ DOMAIN sessions' = DOMAIN sessions
<1> DEFINE owners == {s \in DOMAIN sessions : /\ part \in DOMAIN partitions
                                             /\ partitions[part].session = s}
           told == [s \in DOMAIN sessions |->
              IF s \in owners THEN [sessions[s] EXCEPT !.quiescent = @ + 1] ELSE sessions[s]]
<1>1. sessions' = told /\ \A s \in owners : sessions[s].quiescent < MaxQuiet
  BY DEF NotifyDomainQuiescent
<1>2. ASSUME NEW s \in DOMAIN sessions PROVE told[s] \in SessionEntry
  <2>1. sessions[s] \in SessionEntry
    BY DEF IsTable
  <2>2. CASE s \in owners
    <3>1. sessions[s].quiescent + 1 \in 0..MaxQuiet
      BY <1>1, <2>1, <2>2, RuntimeAssumption DEF SessionEntry
    <3>2. told[s] = [sessions[s] EXCEPT !.quiescent = sessions[s].quiescent + 1]
      BY <2>2
    <3>3. QED  BY <2>1, <3>1, <3>2 DEF SessionEntry
  <2>3. CASE s \notin owners
    BY <2>1, <2>3
  <2>4. QED  BY <2>2, <2>3
<1> HIDE DEF owners
<1>3. DOMAIN sessions' = DOMAIN sessions
  BY <1>1
<1>4. ASSUME NEW s \in DOMAIN sessions PROVE sessions'[s] \in SessionEntry
  BY <1>1, <1>2
<1> HIDE DEF told
<1>5. QED  BY <1>3, <1>4 DEF IsTable

\* A hello enters the session and its domain, and keeps those that are there.
LEMMA OpenedTables ==
  ASSUME SessionsTyped, RegistryTyped, NEW s \in Session
  PROVE  /\ IsTable(OpenedSessions(s), Session, SessionEntry)
         /\ IsTable(OpenedDomains(s), Session, SessionDomain)
         /\ DOMAIN OpenedSessions(s) = DOMAIN sessions \cup {s}
         /\ s \notin DOMAIN sessions => s \in DOMAIN OpenedDomains(s)
<1>1. NewSession(0) \in SessionEntry /\ [tenant |-> 0, claimed |-> NONE] \in SessionDomain
  BY NewSessionType, NoneType, RuntimeAssumption DEF SessionDomain
<1>2. /\ IsTable(OpenedSessions(s), Session, SessionEntry)
      /\ IsTable(OpenedDomains(s), Session, SessionDomain)
  BY <1>1, InsertedTable DEF OpenedSessions, OpenedDomains, SessionsTyped, RegistryTyped
<1>3. DOMAIN OpenedSessions(s) = DOMAIN sessions \cup {s}
  BY DEF OpenedSessions, Inserted, Live
<1>4. s \notin DOMAIN sessions => s \in DOMAIN OpenedDomains(s)
  BY DEF OpenedDomains, Inserted, Live
<1>5. QED  BY <1>2, <1>3, <1>4

LEMMA GrantType ==
  ASSUME granted \in [Session -> AuthorityPolicy], NEW s \in Session, NEW p \in AuthorityPolicy
  PROVE  [granted EXCEPT ![s] = p] \in [Session -> AuthorityPolicy]
  OBVIOUS

\* The tables, the domains and the grants that a step may lead to.
SessionsNext ==
  /\ SessionsTyped'
  /\ IsTable(domains, Session, SessionDomain)'
  /\ NothingGranted'
  /\ ClaimedAsGranted'

LEMMA HelloAcceptedNext ==
  ASSUME SessionsTyped, RegistryTyped, NothingGranted, ClaimedAsGranted,
         NEW s \in Session, NEW profile \in Profile, NEW epoch \in Epoch,
         HelloAccepted(s, profile, epoch)
  PROVE  SessionsNext
<1> DEFINE effective == Intersect(ClaimedPolicy(profile), Ceiling(s))
           opened == OpenedDomains(s)
<1>1. effective \in AuthorityPolicy
  BY ClaimedType, IntersectType
<1>2. /\ sessions' = OpenedSessions(s)
      /\ domains' = [opened EXCEPT ![s].claimed = effective]
      /\ granted' = [granted EXCEPT ![s] = effective]
  BY DEF HelloAccepted
<1>3. s \in DOMAIN opened
  BY OpenedTables DEF HelloAccepted, Live, OpenedDomains
<1>4. IsTable(opened, Session, SessionDomain) /\ opened[s] \in SessionDomain
  BY <1>3, OpenedTables DEF IsTable
<1>5. \A r \in DOMAIN sessions : r # s => (r \in DOMAIN opened <=> r \in DOMAIN domains)
        /\ (r \in DOMAIN domains => opened[r] = domains[r])
  BY DEF OpenedDomains, Inserted
<1> HIDE DEF effective, opened
<1>6. /\ DOMAIN domains' = DOMAIN opened
      /\ domains'[s] = [opened[s] EXCEPT !.claimed = effective]
      /\ \A r \in DOMAIN opened : r # s => domains'[r] = opened[r]
  BY <1>2, <1>3
<1>7. domains'[s] \in SessionDomain /\ domains'[s].claimed = effective
  BY <1>1, <1>4, <1>6 DEF SessionDomain
<1>8. IsTable(domains', Session, SessionDomain)
  BY <1>4, <1>6, <1>7 DEF IsTable
<1>9. SessionsTyped'
  BY <1>1, <1>2, OpenedTables, GrantType DEF SessionsTyped
<1>10. /\ granted'[s] = effective
       /\ \A r \in Session : r # s => granted'[r] = granted[r]
  BY <1>1, <1>2 DEF SessionsTyped
<1>11. DOMAIN sessions' = DOMAIN sessions \cup {s}
  BY <1>2, OpenedTables
<1>12. NothingGranted'
  BY <1>10, <1>11 DEF NothingGranted, Live
<1>13. ClaimedAsGranted'
  <2>1. ASSUME NEW r \in DOMAIN sessions' \cap DOMAIN domains', r # s
        PROVE  domains'[r].claimed = granted'[r]
    <3>1. r \in DOMAIN sessions \cap DOMAIN domains /\ domains'[r] = domains[r]
      BY <1>5, <1>6, <1>11, <2>1
    <3>2. granted'[r] = granted[r]
      BY <1>10, <2>1, <3>1 DEF SessionsTyped, IsTable
    <3>3. QED  BY <3>1, <3>2 DEF ClaimedAsGranted
  <2>2. QED  BY <1>7, <1>10, <2>1 DEF ClaimedAsGranted
<1>14. QED  BY <1>8, <1>9, <1>12, <1>13 DEF SessionsNext

LEMMA HelloRefusedNext ==
  ASSUME SessionsTyped, RegistryTyped, NothingGranted, ClaimedAsGranted,
         NEW s \in Session, HelloRefused(s)
  PROVE  SessionsNext
<1>1. sessions' = OpenedSessions(s) /\ domains' = OpenedDomains(s) /\ granted' = granted
  BY DEF HelloRefused
<1>2. SessionsTyped' /\ IsTable(domains', Session, SessionDomain)
  BY <1>1, OpenedTables DEF SessionsTyped
<1>3. DOMAIN sessions' = DOMAIN sessions \cup {s}
  BY <1>1, OpenedTables
<1>4. NothingGranted'
  BY <1>1, <1>3 DEF NothingGranted, Live
<1>5. ClaimedAsGranted'
  <2>1. CASE Live(s)
    BY <1>1, <2>1 DEF OpenedSessions, OpenedDomains, ClaimedAsGranted
  <2>2. CASE ~Live(s)
    <3>1. domains' = Inserted(domains, s, [tenant |-> 0, claimed |-> NONE])
      BY <1>1, <2>2 DEF OpenedDomains
    <3>2. domains'[s].claimed = NONE /\ granted'[s] = NONE
      BY <1>1, <2>2, <3>1 DEF Inserted, NothingGranted
    <3>3. \A r \in DOMAIN sessions : r # s /\ r \in DOMAIN domains'
            => r \in DOMAIN domains /\ domains'[r] = domains[r]
      BY <3>1 DEF Inserted
    <3>4. QED  BY <1>1, <1>3, <3>2, <3>3 DEF ClaimedAsGranted
  <2>3. QED  BY <2>1, <2>2
<1>6. QED  BY <1>2, <1>4, <1>5 DEF SessionsNext

LEMMA HostSessionNext ==
  ASSUME SessionsTyped, RegistryTyped, NothingGranted, ClaimedAsGranted,
         NEW s \in Session, HostSession(s)
  PROVE  SessionsNext
<1>1. IsTable(sessions, Session, SessionEntry) /\ IsTable(domains, Session, SessionDomain)
  BY DEF SessionsTyped, RegistryTyped
<1>2. ASSUME NEW t \in Tenant, BareBootstrap(s, t) PROVE SessionsNext
  <2>1. /\ sessions' = Inserted(sessions, s, NewSession(t)) /\ s \notin DOMAIN domains
        /\ domains' = domains /\ granted' = granted
    BY <1>2 DEF BareBootstrap, registryVars
  <2>2. SessionsTyped'
    BY <1>1, <2>1, NewSessionType, InsertedTable DEF SessionsTyped
  <2>3. NothingGranted' /\ ClaimedAsGranted'
    BY <2>1 DEF Inserted, NothingGranted, ClaimedAsGranted, Live
  <2>4. QED  BY <1>1, <2>1, <2>2, <2>3 DEF SessionsNext
<1>3. ASSUME NEW t \in Tenant, NEW p \in Policy, LocalBootstrap(s, t, p) PROVE SessionsNext
  <2>1. /\ sessions' = Inserted(sessions, s, NewSession(t))
        /\ domains' = Inserted(domains, s, [tenant |-> t, claimed |-> p])
        /\ granted' = [granted EXCEPT ![s] = p]
    BY <1>3 DEF LocalBootstrap
  <2>2. p \in AuthorityPolicy /\ [tenant |-> t, claimed |-> p] \in SessionDomain
    BY RuntimeAssumption DEF SessionDomain
  <2>3. SessionsTyped' /\ IsTable(domains', Session, SessionDomain)
    BY <1>1, <2>1, <2>2, NewSessionType, InsertedTable, GrantType DEF SessionsTyped
  <2>4. /\ granted'[s] = p
        /\ \A r \in Session : r # s => granted'[r] = granted[r]
    BY <2>1 DEF SessionsTyped
  <2>5. /\ DOMAIN sessions' = DOMAIN sessions \cup {s}
        /\ domains'[s].claimed = p
        /\ \A r \in DOMAIN domains' : r # s => r \in DOMAIN domains /\ domains'[r] = domains[r]
    BY <2>1 DEF Inserted
  <2>6. NothingGranted'
    BY <2>4, <2>5 DEF NothingGranted, Live
  <2>7. ClaimedAsGranted'
    BY <1>1, <2>4, <2>5 DEF ClaimedAsGranted, IsTable
  <2>8. QED  BY <2>3, <2>6, <2>7 DEF SessionsNext
<1>4. ASSUME Terminate(s) PROVE SessionsNext
  <2>1. /\ sessions' = Removed(sessions, {s}) /\ domains' = domains
        /\ granted' = [granted EXCEPT ![s] = NONE]
    BY <1>4 DEF Terminate, registryVars
  <2>2. SessionsTyped'
    BY <1>1, <2>1, RemovedTable, GrantType, NoneType DEF SessionsTyped
  <2>3. granted'[s] = NONE /\ \A r \in Session : r # s => granted'[r] = granted[r]
    BY <2>1 DEF SessionsTyped
  <2>4. DOMAIN sessions' = DOMAIN sessions \ {s}
    BY <2>1 DEF Removed
  <2>5. NothingGranted'
    BY <2>3, <2>4 DEF NothingGranted, Live
  <2>6. ClaimedAsGranted'
    BY <1>1, <2>1, <2>3, <2>4 DEF ClaimedAsGranted, IsTable
  <2>7. QED  BY <1>1, <2>1, <2>2, <2>5, <2>6 DEF SessionsNext
<1>5. ASSUME Cleanup(s) PROVE SessionsNext
  <2>1. sessions' = sessions /\ domains' = Removed(domains, {s}) /\ granted' = granted
    BY <1>5 DEF Cleanup
  <2>2. QED
    BY <1>1, <2>1, RemovedTable
    DEF SessionsNext, SessionsTyped, NothingGranted, ClaimedAsGranted, Removed, Live
<1>6. QED  BY <1>2, <1>3, <1>4, <1>5 DEF HostSession

LEMMA ReaperNext ==
  ASSUME SessionsTyped, RegistryTyped, NothingGranted, ClaimedAsGranted, Reaper
  PROVE  SessionsNext
<1>1. PICK policy \in ExpiryPolicy, now \in Epoch : Reap(policy, now)
  BY DEF Reaper
<1> DEFINE gone == Reaped(policy, now)
<1>2. /\ sessions' = Removed(sessions, gone) /\ domains' = domains
      /\ granted' = [s \in Session |-> IF s \in gone THEN NONE ELSE granted[s]]
  BY <1>1 DEF Reap, registryVars
<1> HIDE DEF gone
<1>3. SessionsTyped'
  BY <1>2, RemovedTable, NoneType DEF SessionsTyped
<1>4. DOMAIN sessions' = DOMAIN sessions \ gone
  BY <1>2 DEF Removed
<1>5. NothingGranted' /\ ClaimedAsGranted'
  BY <1>2, <1>4 DEF SessionsTyped, IsTable, NothingGranted, ClaimedAsGranted, Live
<1>6. QED  BY <1>2, <1>3, <1>5 DEF SessionsNext, RegistryTyped

LEMMA SameSessions ==
  ASSUME RegistryTyped, NothingGranted, ClaimedAsGranted, SessionsTyped,
         IsTable(sessions', Session, SessionEntry), DOMAIN sessions' = DOMAIN sessions,
         UNCHANGED <<domains, granted>>
  PROVE  SessionsNext
<1>1. SessionsTyped' /\ IsTable(domains', Session, SessionDomain)
  BY DEF SessionsTyped, RegistryTyped
<1>2. NothingGranted' /\ ClaimedAsGranted'
  BY DEF NothingGranted, ClaimedAsGranted, Live
<1>3. QED  BY <1>1, <1>2 DEF SessionsNext

LEMMA SessionSteps ==
  ASSUME SessionsTyped, RegistryTyped, NothingGranted, ClaimedAsGranted, Next
  PROVE  SessionsNext
<1>1. IsTable(sessions, Session, SessionEntry)
  BY DEF SessionsTyped
<1>2. ASSUME NEW s \in Session, Hello(s) PROVE SessionsNext
  BY <1>2, HelloAcceptedNext, HelloRefusedNext DEF Hello
<1>3. ASSUME NEW s \in Session, NEW t \in Tenant, NEW epoch \in Epoch, Record(s, t, epoch)
      PROVE  SessionsNext
  BY <1>1, <1>3, RecordKeeps, SameSessions
<1>4. ASSUME NEW s \in Session, HostSession(s) PROVE SessionsNext
  BY <1>4, HostSessionNext
<1>5. ASSUME NEW t \in Tenant, NEW p \in Policy, RegisterTenant(t, p) PROVE SessionsNext
  BY <1>1, <1>5, SameSessions DEF RegisterTenant
<1>6. ASSUME NEW class \in OpcodeClass, HostRow(class) PROVE SessionsNext
  <2>1. UNCHANGED <<sessions, domains, granted>>
    BY <1>6 DEF HostRow, InstallRow, RemoveRow
  <2>2. QED  BY <1>1, <2>1, SameSessions
<1>7. ASSUME NEW d \in Shard, NEW p \in Loads, UpdatePressure(d, p) PROVE SessionsNext
  BY <1>1, <1>7, SameSessions DEF UpdatePressure, registryVars
<1>8. ASSUME HostNews PROVE SessionsNext
  <2>1. ASSUME NEW part \in Partition, NotifyDomainQuiescent(part) PROVE SessionsNext
    <3>1. UNCHANGED <<domains, granted>>
      BY <2>1 DEF NotifyDomainQuiescent, registryVars
    <3>2. QED  BY <1>1, <2>1, <3>1, NoticeType, SameSessions
  <2>2. CASE Notify \/ Drain
    BY <1>1, <2>2, SameSessions DEF Notify, Drain, registryVars
  <2>3. QED  BY <1>8, <2>1, <2>2 DEF HostNews
<1>9. ASSUME Reaper PROVE SessionsNext
  BY <1>9, ReaperNext
<1>10. QED  BY <1>2, <1>3, <1>4, <1>5, <1>6, <1>7, <1>8, <1>9 DEF Next

-----------------------------------------------------------------------------
(* The host's tables *)

TablesTyped ==
  /\ IsTable(tenants, Tenant, AuthorityPolicy)
  /\ IsTable(partitions, Partition, PartitionDomain)
  /\ IsTable(rows, Partition \X OpcodeClass, AuthorityPolicy)

LEMMA CreatePartitionTables ==
  ASSUME TablesTyped, NEW s \in Session, NEW t, NEW epoch, NEW part, NEW id \in Partition,
         NEW shard \in Shard, CreatePartition(s, t, epoch, part, id, shard)
  PROVE  TablesTyped'
<1>1. [session |-> s, shard |-> shard] \in PartitionDomain
  BY DEF PartitionDomain
<1>2. IsTable(partitions', Partition, PartitionDomain)
  BY <1>1, InsertedTable DEF TablesTyped, CreatePartition
<1>3. IsTable(rows', Partition \X OpcodeClass, AuthorityPolicy)
  BY NoneType DEF TablesTyped, CreatePartition, IsTable
<1>4. QED  BY <1>2, <1>3 DEF TablesTyped, CreatePartition

LEMMA TableSteps ==
  ASSUME TablesTyped, Next
  PROVE  TablesTyped'
<1>1. ASSUME NEW s \in Session, Hello(s) \/ HostSession(s) PROVE TablesTyped'
  <2>1. /\ UNCHANGED <<tenants, rows>>
        /\ \/ partitions' = partitions
           \/ \E gone : partitions' = Removed(partitions, gone)
    BY <1>1 DEF Hello, HelloRefused, HelloAccepted, HostSession, BareBootstrap, LocalBootstrap,
                Terminate, Cleanup, registryVars
  <2>2. QED  BY <2>1, RemovedTable DEF TablesTyped
<1>2. ASSUME NEW s \in Session, NEW t \in Tenant, NEW epoch \in Epoch, Record(s, t, epoch)
      PROVE  TablesTyped'
  <2>1. ASSUME NEW part \in Partition, NEW id \in Partition, NEW shard \in Shard,
               CreatePartition(s, t, epoch, part, id, shard)
        PROVE  TablesTyped'
    BY <2>1, CreatePartitionTables
  <2>2. CASE \/ RejectReplay(s, t)
             \/ \E class \in OpcodeClass, part \in Partition :
                  \/ RejectByGate(s, t, class, part)
                  \/ ApplyRecord(s, t, epoch, class, part)
                  \/ FailRecord(s, t, epoch, class, part)
    <3>1. UNCHANGED registryVars
      BY <2>2 DEF RejectReplay, RejectByGate, ApplyRecord, FailRecord
    <3>2. QED  BY <3>1 DEF TablesTyped, registryVars
  <2>3. QED  BY <1>2, <2>1, <2>2 DEF Record
<1>3. ASSUME NEW t \in Tenant, NEW p \in Policy, RegisterTenant(t, p) PROVE TablesTyped'
  BY <1>3, RuntimeAssumption, InsertedTable DEF TablesTyped, RegisterTenant
<1>4. ASSUME NEW class \in OpcodeClass, HostRow(class) PROVE TablesTyped'
  <2>1. ASSUME NEW part \in Partition, NEW p \in Policy, InstallRow(part, class, p)
        PROVE  TablesTyped'
    <3>1. <<part, class>> \in Partition \X OpcodeClass /\ p \in AuthorityPolicy
      BY RuntimeAssumption
    <3>2. IsTable(rows', Partition \X OpcodeClass, AuthorityPolicy)
      BY <2>1, <3>1, InsertedTable DEF TablesTyped, InstallRow
    <3>3. QED  BY <2>1, <3>2 DEF TablesTyped, InstallRow
  <2>2. ASSUME NEW part \in Partition, RemoveRow(part, class) PROVE TablesTyped'
    BY <2>2, RemovedTable DEF TablesTyped, RemoveRow
  <2>3. QED  BY <1>4, <2>1, <2>2 DEF HostRow
<1>5. ASSUME \/ \E d \in Shard, p \in Loads : UpdatePressure(d, p)
             \/ HostNews
             \/ Reaper
      PROVE  TablesTyped'
  <2>1. UNCHANGED registryVars
    BY <1>5 DEF UpdatePressure, HostNews, NotifyDomainQuiescent, Notify, Drain, Reaper, Reap
  <2>2. QED  BY <2>1 DEF TablesTyped, registryVars
<1>6. QED  BY <1>1, <1>2, <1>3, <1>4, <1>5 DEF Next

-----------------------------------------------------------------------------
LEMMA InitInv == Init => IInv
<1> SUFFICES ASSUME Init PROVE IInv
  OBVIOUS
<1>1. TypeOK
  BY EmptyRing, NoneType DEF Init, TypeOK, SessionsTyped, RegistryTyped, NewsTyped, IsTable
<1>2. NothingGranted /\ ClaimedAsGranted
  BY DEF Init, NothingGranted, ClaimedAsGranted
<1>3. RingKeepsLatest
  BY EmptyRing DEF Init, RingKeepsLatest, Keeps
<1>4. QED  BY <1>1, <1>2, <1>3 DEF IInv

LEMMA NextInv == IInv /\ [Next]_vars => IInv'
<1> SUFFICES ASSUME IInv, [Next]_vars PROVE IInv'
  OBVIOUS
<1>1. CASE Next
  <2>1. /\ SessionsTyped /\ RegistryTyped /\ NewsTyped /\ RingKeepsLatest
        /\ NothingGranted /\ ClaimedAsGranted /\ TablesTyped
    BY DEF IInv, TypeOK, RegistryTyped, TablesTyped
  <2>2. NewsTyped' /\ RingKeepsLatest'
    BY <1>1, <2>1, NewsTypedNext
  <2>3. SessionsNext
    BY <1>1, <2>1, SessionSteps
  <2>4. TablesTyped'
    BY <1>1, <2>1, TableSteps
  <2>5. QED
    BY <2>2, <2>3, <2>4 DEF IInv, TypeOK, RegistryTyped, TablesTyped, SessionsNext
<1>2. CASE UNCHANGED vars
  <2>1. TypeOK'
    BY <1>2 DEF IInv, vars, TypeOK, SessionsTyped, RegistryTyped, NewsTyped
  <2>2. NothingGranted' /\ ClaimedAsGranted' /\ RingKeepsLatest'
    BY <1>2 DEF IInv, vars, NothingGranted, ClaimedAsGranted, RingKeepsLatest, Live
  <2>3. QED  BY <2>1, <2>2 DEF IInv
<1>3. QED  BY <1>1, <1>2

THEOREM Invariance == Spec => []IInv
  BY InitInv, NextInv, PTL DEF Spec

\* Sessions, domains, partitions, rows, pressures and the ring keep their
\* types.
THEOREM TypeCorrect == Spec => []TypeOK
  BY Invariance, PTL DEF IInv

\* What the gates hold for a live session whose tenant is registered was
\* granted in its present life, under the ceiling of now, through any hellos,
\* terminations, reaper runs and changes of ceilings (dispatch.rs,
\* handle_profile; runtime.rs, route_record).
THEOREM AuthorityGranted == Spec => []AuthorityOfThisLife
<1>1. ClaimedAsGranted => AuthorityOfThisLife
  BY DEF ClaimedAsGranted, AuthorityOfThisLife, Held
<1>2. QED  BY Invariance, <1>1, PTL DEF IInv

\* The ring holds the latest events and counts the rest, for any capacity of
\* at least one (telemetry.rs, emit).
THEOREM RingFaithful == Spec => []RingKeepsLatest
  BY Invariance, PTL DEF IInv

-----------------------------------------------------------------------------
(* What a reaper run takes *)

LEMMA ReapSettlesStep ==
  ASSUME NEW policy \in ExpiryPolicy, NEW now \in Epoch, Reap(policy, now)
  PROVE  Reaped(policy, now)' = {}
<1> DEFINE gone == Reaped(policy, now)
<1>1. sessions' = [s \in DOMAIN sessions \ gone |-> sessions[s]]
  BY DEF Reap, Removed
<1> HIDE DEF gone
<1>2. ASSUME NEW s \in DOMAIN sessions' PROVE s \notin Reaped(policy, now)'
  <2>1. s \in DOMAIN sessions /\ s \notin gone /\ sessions'[s] = sessions[s]
    BY <1>1
  <2>2. /\ ~Behind(s, now, policy.inactivity)
        /\ ~Lags(s, now, policy.lag)
        /\ ~Frustrated(s, policy.frustration)
    BY <2>1 DEF gone, Reaped
  <2>3. /\ ~Behind(s, now, policy.inactivity)'
        /\ ~Frustrated(s, policy.frustration)'
    BY <2>1, <2>2 DEF Behind, Frustrated
  <2>4. ~Lags(s, now, policy.lag)'
    <3>1. \A r \in DOMAIN sessions' : r \in DOMAIN sessions /\ sessions'[r] = sessions[r]
      BY <1>1
    <3>2. QED  BY <2>1, <2>2, <3>1 DEF Lags, Behind
  <2>5. QED  BY <2>3, <2>4 DEF Reaped
<1>3. QED  BY <1>2 DEF Reaped

\* A reaper run leaves nothing that the same run would take, whatever the
\* table and the policy (session.rs, reap).
THEOREM ReapingSettles == Spec => ReapSettles
<1>1. [Next]_vars =>
        [DOMAIN sessions' # DOMAIN sessions =>
           \A policy \in ExpiryPolicy, now \in Epoch :
             Reap(policy, now) => Reaped(policy, now)' = {}]_vars
  BY ReapSettlesStep
<1>2. QED  BY <1>1, PTL DEF Spec, ReapSettles

LEMMA ActiveSurvivesStep ==
  ASSUME SessionsTyped, NEW s \in DOMAIN sessions, NEW epoch \in Epoch, AdmitsAt(s, epoch),
         NEW policy \in ExpiryPolicy, NEW now \in Epoch,
         now <= epoch \/ now <= sessions[s].last_active, policy.lag = Disabled
  PROVE  s \notin Reaped(policy, now)'
<1> DEFINE latest == IF epoch > sessions[s].last_active THEN epoch ELSE sessions[s].last_active
<1>1. /\ sessions[s] \in SessionEntry
      /\ sessions' = [sessions EXCEPT ![s] =
           [sessions[s] EXCEPT !.last_active = latest, !.quiescent = 0]]
  BY DEF SessionsTyped, IsTable, AdmitsAt, RecordActivity
<1>2. /\ latest \in Epoch /\ now <= latest
      /\ sessions'[s].last_active = latest /\ sessions'[s].quiescent = 0
  <2>1. latest \in Epoch /\ now <= latest
    BY <1>1, RuntimeAssumption DEF SessionEntry, Epoch
  <2> HIDE DEF latest
  <2>2. QED  BY <1>1, <2>1 DEF SessionEntry
<1>3. /\ policy.inactivity \in Nat \cup {Disabled}
      /\ policy.frustration \in (Nat \ {0}) \cup {Disabled}
  BY RuntimeAssumption
<1> HIDE DEF latest
<1>4. ~Behind(s, now, policy.inactivity)'
  BY <1>2, <1>3, RuntimeAssumption DEF Behind, Epoch, Disabled
<1>5. ~Lags(s, now, policy.lag)'
  BY DEF Lags, Behind
<1>6. ~Frustrated(s, policy.frustration)'
  BY <1>2, <1>3 DEF Frustrated, Disabled
<1>7. QED  BY <1>4, <1>5, <1>6 DEF Reaped

\* A session that was just heard of outlives any reaper run that does not
\* compare it with others (runtime.rs, route_record).
THEOREM ActiveSessionsSurvive == Spec => ActiveSurvives
<1>1. TypeOK /\ [Next]_vars =>
        [\A s \in DOMAIN sessions, epoch \in Epoch : AdmitsAt(s, epoch) =>
           \A policy \in ExpiryPolicy, now \in Epoch :
             (now <= epoch \/ now <= sessions[s].last_active) /\ policy.lag = Disabled
               => s \notin Reaped(policy, now)']_vars
  BY ActiveSurvivesStep DEF TypeOK
<1>2. QED  BY <1>1, TypeCorrect, PTL DEF Spec, ActiveSurvives

-----------------------------------------------------------------------------
(* What the ring tells of a shard *)

\* HealthNewsChain, for shard d with health h, of any buffer.
Chain(d, buffer, h) ==
  \A i \in NewsOf(d, buffer) :
    /\ \A j \in NewsOf(d, buffer) : i < j /\ (\A k \in NewsOf(d, buffer) : k <= i \/ k >= j)
         => buffer[i].new = buffer[j].old
    /\ (\A j \in NewsOf(d, buffer) : j <= i) => buffer[i].new = h

\* Event e tells of the health of shard d.
About(d, e) == e # Other /\ e.shard = d

LEMMA NewsOfTail ==
  ASSUME NEW d, NEW buffer \in Seq(Event), Len(buffer) > 0
  PROVE  /\ \A i \in NewsOf(d, Tail(buffer)) :
              /\ i \in Nat /\ i + 1 \in NewsOf(d, buffer)
              /\ Tail(buffer)[i] = buffer[i + 1]
         /\ \A k \in NewsOf(d, buffer) : k = 1 \/ k - 1 \in NewsOf(d, Tail(buffer))
<1>1. /\ Tail(buffer) \in Seq(Event) /\ Len(Tail(buffer)) = Len(buffer) - 1
      /\ \A i \in 1..Len(Tail(buffer)) : Tail(buffer)[i] = buffer[i + 1]
      /\ DOMAIN buffer = 1..Len(buffer) /\ DOMAIN Tail(buffer) = 1..Len(Tail(buffer))
      /\ Len(buffer) \in Nat
  OBVIOUS
<1> DEFINE T == Tail(buffer)
<1> HIDE DEF T
<1>2. ASSUME NEW i \in NewsOf(d, T)
      PROVE  i \in Nat /\ i + 1 \in NewsOf(d, buffer) /\ T[i] = buffer[i + 1]
  <2>1. i \in 1..Len(T) /\ T[i] # Other /\ T[i].shard = d
    BY <1>1 DEF NewsOf, T
  <2>2. i \in Nat /\ i + 1 \in 1..Len(buffer) /\ T[i] = buffer[i + 1]
    BY <1>1, <2>1 DEF T
  <2>3. QED  BY <1>1, <2>1, <2>2 DEF NewsOf
<1>3. ASSUME NEW k \in NewsOf(d, buffer), k # 1
      PROVE  k - 1 \in NewsOf(d, T)
  <2>1. k \in 1..Len(buffer) /\ buffer[k] # Other /\ buffer[k].shard = d
    BY <1>1 DEF NewsOf
  <2>2. k - 1 \in 1..Len(T) /\ T[k - 1] = buffer[(k - 1) + 1] /\ (k - 1) + 1 = k
    BY <1>1, <1>3, <2>1 DEF T
  <2>3. QED  BY <1>1, <2>1, <2>2 DEF NewsOf, T
<1>4. QED  BY <1>2, <1>3 DEF T

LEMMA ChainTail ==
  ASSUME NEW d, NEW h, NEW buffer \in Seq(Event), Len(buffer) > 0, Chain(d, buffer, h)
  PROVE  Chain(d, Tail(buffer), h)
<1> DEFINE news == NewsOf(d, buffer)
           T == Tail(buffer)
           rest == NewsOf(d, T)
<1>1. /\ \A i \in rest : i \in Nat /\ i + 1 \in news /\ T[i] = buffer[i + 1]
      /\ \A k \in news : k = 1 \/ k - 1 \in rest
      /\ \A k \in news : k \in Nat \ {0}
  BY NewsOfTail DEF NewsOf
<1>2. \A i \in news :
        /\ \A j \in news : i < j /\ (\A k \in news : k <= i \/ k >= j)
             => buffer[i].new = buffer[j].old
        /\ (\A j \in news : j <= i) => buffer[i].new = h
  BY DEF Chain
<1> HIDE DEF news, rest, T
<1>3. ASSUME NEW i \in rest, NEW j \in rest, i < j, \A k \in rest : k <= i \/ k >= j
      PROVE  T[i].new = T[j].old
  <2>1. i + 1 \in news /\ j + 1 \in news /\ i + 1 < j + 1
    BY <1>1, <1>3
  <2>2. ASSUME NEW k \in news PROVE k <= i + 1 \/ k >= j + 1
    BY <1>1, <1>3
  <2>3. buffer[i + 1].new = buffer[j + 1].old
    BY <1>2, <2>1, <2>2
  <2>4. QED  BY <1>1, <2>3
<1>4. ASSUME NEW i \in rest, \A j \in rest : j <= i
      PROVE  T[i].new = h
  <2>1. i + 1 \in news
    BY <1>1
  <2>2. ASSUME NEW k \in news PROVE k <= i + 1
    BY <1>1, <1>4
  <2>3. QED  BY <1>1, <1>2, <2>1, <2>2
<1>5. QED  BY <1>3, <1>4 DEF Chain, rest, T

LEMMA ChainAppend ==
  ASSUME NEW d, NEW h, NEW buffer \in Seq(Event), NEW e \in Event, Chain(d, buffer, h),
         About(d, e) => e.old = h
  PROVE  Chain(d, Append(buffer, e), IF About(d, e) THEN e.new ELSE h)
<1> DEFINE news == NewsOf(d, buffer)
           B == Append(buffer, e)
           more == NewsOf(d, B)
           n == Len(buffer)
<1>1. /\ DOMAIN buffer = 1..n /\ DOMAIN B = 1..n + 1 /\ n \in Nat
      /\ \A i \in 1..n : B[i] = buffer[i]
      /\ B[n + 1] = e
  OBVIOUS
<1>2. \A i \in news :
        /\ \A j \in news : i < j /\ (\A k \in news : k <= i \/ k >= j)
             => buffer[i].new = buffer[j].old
        /\ (\A j \in news : j <= i) => buffer[i].new = h
  BY DEF Chain
<1>3. news = {i \in 1..n : About(d, buffer[i])} /\ more = {i \in 1..n + 1 : About(d, B[i])}
  BY <1>1 DEF NewsOf, About
<1> HIDE DEF news, B, more, n
<1>4. more = news \cup {i \in {n + 1} : About(d, e)}
  BY <1>1, <1>3
<1>5. \A i \in news : i \in 1..n /\ i < n + 1 /\ B[i] = buffer[i]
  BY <1>1, <1>3
<1>6. ASSUME NEW i \in more, NEW j \in more, i < j, \A k \in more : k <= i \/ k >= j
      PROVE  B[i].new = B[j].old
  <2>1. i \in news
    BY <1>1, <1>3, <1>4, <1>5, <1>6
  <2>2. CASE j \in news
    BY <1>2, <1>4, <1>5, <1>6, <2>1, <2>2
  <2>3. CASE j \notin news
    <3>1. j = n + 1 /\ About(d, e)
      BY <1>4, <2>3
    <3>2. \A k \in news : k <= i
      BY <1>1, <1>4, <1>5, <1>6, <3>1
    <3>3. QED  BY <1>1, <1>2, <1>5, <2>1, <3>1, <3>2
  <2>4. QED  BY <2>2, <2>3
<1>7. ASSUME NEW i \in more, \A j \in more : j <= i
      PROVE  B[i].new = IF About(d, e) THEN e.new ELSE h
  <2>1. CASE About(d, e)
    <3>1. i = n + 1
      BY <1>1, <1>4, <1>5, <1>7, <2>1
    <3>2. QED  BY <1>1, <2>1, <3>1
  <2>2. CASE ~About(d, e)
    <3>1. i \in news /\ \A j \in news : j <= i
      BY <1>4, <1>7, <2>2
    <3>2. buffer[i].new = h
      BY <1>2, <3>1
    <3>3. QED  BY <1>5, <2>2, <3>1, <3>2
  <2>3. QED  BY <2>1, <2>2
<1>8. QED  BY <1>6, <1>7 DEF Chain, B, more

\* Every shard's news in ring r make a chain up to what is known.
Chained(r, known) == \A d \in Shard : Chain(d, r.buffer, HealthOf(known, d))

LEMMA ChainEmitted ==
  ASSUME NEW r \in Ring, NEW e \in Event, NEW d, NEW h, Chain(d, r.buffer, h),
         About(d, e) => e.old = h
  PROVE  Chain(d, Emitted(r, e).buffer, IF About(d, e) THEN e.new ELSE h)
<1> DEFINE kept == IF Len(r.buffer) >= Capacity THEN Tail(r.buffer) ELSE r.buffer
<1>1. r.buffer \in Seq(Event) /\ Capacity \in Nat \ {0}
  BY RuntimeAssumption DEF Ring
<1>2. kept \in Seq(Event) /\ Chain(d, kept, h)
  <2>1. CASE Len(r.buffer) >= Capacity
    <3>1. Len(r.buffer) > 0
      BY <1>1, <2>1
    <3>2. Chain(d, Tail(r.buffer), h)
      BY <1>1, <3>1, ChainTail
    <3>3. Tail(r.buffer) \in Seq(Event)
      BY <1>1, <3>1
    <3>4. QED  BY <2>1, <3>2, <3>3
  <2>2. CASE ~(Len(r.buffer) >= Capacity)
    BY <1>1, <2>2
  <2>3. QED  BY <2>1, <2>2
<1>3. Emitted(r, e).buffer = Append(kept, e)
  BY DEF Emitted
<1> HIDE DEF kept
<1>4. QED  BY <1>2, <1>3, ChainAppend

LEMMA OtherChained ==
  ASSUME NEW r \in Ring, NEW known, Chained(r, known)
  PROVE  Chained(Emitted(r, Other), known)
<1>1. Other \in Event /\ \A d : ~About(d, Other)
  BY DEF Event, About
<1>2. ASSUME NEW d \in Shard PROVE Chain(d, Emitted(r, Other).buffer, HealthOf(known, d))
  BY <1>1, ChainEmitted DEF Chained
<1>3. QED  BY <1>2 DEF Chained

\* The pressure of a shard and what is said of it go together.
LEMMA ReportedChained ==
  ASSUME IsTable(pressure, Shard, Pressure), NEW d \in Shard, NEW p \in Pressure,
         Chained(ring, pressure), ring \in Ring
  PROVE  Chained(Reported(ring, d, p), Inserted(pressure, d, p))
<1> DEFINE known == Inserted(pressure, d, p)
           e == [shard |-> d, old |-> HealthOf(pressure, d), new |-> Health(p)]
<1>1. /\ HealthOf(known, d) = Health(p)
      /\ \A c \in Shard : c # d => HealthOf(known, c) = HealthOf(pressure, c)
  BY DEF Inserted, HealthOf
<1>2. HealthOf(pressure, d) \in Rank /\ Health(p) \in Rank
  BY HealthRank DEF HealthOf, IsTable, Rank
<1>3. e \in Event /\ e # Other
  BY <1>2 DEF Event, HealthNews, Other
<1> HIDE DEF known
<1>4. ASSUME NEW c \in Shard PROVE Chain(c, Reported(ring, d, p).buffer, HealthOf(known, c))
  <2>1. Chain(c, ring.buffer, HealthOf(pressure, c))
    BY DEF Chained
  <2>2. CASE HealthOf(pressure, d) = Health(p)
    BY <1>1, <2>1, <2>2 DEF Reported
  <2>3. CASE HealthOf(pressure, d) # Health(p)
    <3>1. Reported(ring, d, p) = Emitted(ring, e)
      BY <2>3 DEF Reported
    <3>2. /\ About(c, e) <=> c = d
          /\ About(c, e) => e.old = HealthOf(pressure, c)
          /\ HealthOf(known, c) = IF About(c, e) THEN e.new ELSE HealthOf(pressure, c)
      BY <1>1, <1>3 DEF About
    <3> HIDE DEF e
    <3>3. Chain(c, Emitted(ring, e).buffer, IF About(c, e) THEN e.new ELSE HealthOf(pressure, c))
      BY <1>3, <2>1, <3>2, ChainEmitted
    <3>4. QED  BY <3>1, <3>2, <3>3
  <2>4. QED  BY <2>2, <2>3
<1>5. QED  BY <1>4 DEF Chained, known

LEMMA ChainStep ==
  ASSUME RegistryTyped, NewsTyped, Chained(ring, pressure), Next
  PROVE  Chained(ring, pressure)'
<1>1. ring \in Ring /\ IsTable(pressure, Shard, Pressure)
  BY DEF NewsTyped
<1>2. CASE PressureStored
  <2>1. PICK d \in Shard, p \in Pressure :
          /\ pressure' = Inserted(pressure, d, p)
          /\ ring' \in {Reported(ring, d, p), Emitted(Reported(ring, d, p), Other)}
    BY <1>2 DEF PressureStored
  <2>2. Chained(Reported(ring, d, p), pressure')
    BY <1>1, <2>1, ReportedChained
  <2>3. Reported(ring, d, p) \in Ring
    <3>1. HealthOf(pressure, d) \in Rank /\ Health(p) \in Rank
      BY <1>1, HealthRank DEF HealthOf, IsTable, Rank
    <3>2. [shard |-> d, old |-> HealthOf(pressure, d), new |-> Health(p)] \in Event
      BY <3>1 DEF Event, HealthNews
    <3>3. QED  BY <1>1, <3>2, EmittedType DEF Reported
  <2>4. Chained(ring', pressure')
    BY <2>1, <2>2, <2>3, OtherChained
  <2>5. QED  BY <2>4 DEF Chained
<1>3. CASE /\ pressure' = pressure
           /\ ring' \in {ring, [buffer |-> <<>>, dropped |-> 0, said |-> <<>>], Emitted(ring, Other)}
  <2>1. Chained([buffer |-> <<>>, dropped |-> 0, said |-> <<>>], pressure)
    BY DEF Chained, Chain, NewsOf
  <2>2. Chained(ring', pressure')
    BY <1>1, <1>3, <2>1, OtherChained
  <2>3. QED  BY <2>2 DEF Chained
<1>4. QED  BY <1>2, <1>3, NewsSteps

LEMMA ChainedIsHealthNewsChain == Chained(ring, pressure) <=> HealthNewsChain
  BY DEF Chained, Chain, HealthNewsChain

\* What the ring tells of a shard's health is one story that ends with the
\* health it has, for any number of shards and any capacity (runtime.rs,
\* update_pressure).
THEOREM HealthToldInOrder == Spec => []HealthNewsChain
<1>1. Init => Chained(ring, pressure)
  BY DEF Init, Chained, Chain, NewsOf
<1>2. IInv /\ Chained(ring, pressure) /\ [Next]_vars => Chained(ring, pressure)'
  <2>1. ASSUME IInv, Chained(ring, pressure), Next PROVE Chained(ring, pressure)'
    BY <2>1, ChainStep DEF IInv, TypeOK
  <2>2. ASSUME Chained(ring, pressure), UNCHANGED vars PROVE Chained(ring, pressure)'
    BY <2>2 DEF vars, Chained
  <2>3. QED  BY <2>1, <2>2
<1>3. Spec => []Chained(ring, pressure)
  BY <1>1, <1>2, Invariance, PTL DEF Spec
<1>4. QED  BY <1>3, ChainedIsHealthNewsChain, PTL

-----------------------------------------------------------------------------
(* The frontier *)

LEMMA NatOrder ==
  \E R : /\ IsWellFoundedOn(R, Nat)
         /\ \A x, y \in Nat : <<x, y>> \in R <=> x < y
<1>1. \A x, y \in Nat : <<x, y>> \in OpToRel(<, Nat) <=> x < y
  BY DEF OpToRel
<1>2. QED  BY <1>1, NatLessThanWellFounded, Zenon

LEMMA LeastNat ==
  ASSUME NEW S \in SUBSET Nat, S # {}
  PROVE  \E m \in S : \A k \in S : m <= k
<1>1. PICK R : /\ IsWellFoundedOn(R, Nat)
               /\ \A x, y \in Nat : <<x, y>> \in R <=> x < y
  BY NatOrder
<1>2. IsWellFoundedOn(R, Nat) /\ S \subseteq Nat /\ S # {}
  BY <1>1
<1>3. \E x \in S : \A y \in S : ~ (<<y, x>> \in R)
  BY <1>2, WFMin, Zenon
<1>4. PICK x \in S : \A y \in S : ~ (<<y, x>> \in R)
  BY <1>3
<1>5. x \in Nat /\ \A y \in S : y \in Nat /\ ~(y < x)
  BY <1>1, <1>4
<1>6. \A y \in S : x <= y
  BY <1>5
<1>7. QED  BY <1>6

\* Of live sessions, one was heard of last.
LEMMA FrontierExists ==
  ASSUME IsTable(sessions, Session, SessionEntry), DOMAIN sessions # {}
  PROVE  \E s \in DOMAIN sessions :
           \A r \in DOMAIN sessions : sessions[r].last_active <= sessions[s].last_active
<1> DEFINE gaps == {MaxEpoch - sessions[s].last_active : s \in DOMAIN sessions}
<1>1. \A s \in DOMAIN sessions : sessions[s].last_active \in 0..MaxEpoch
  BY DEF IsTable, SessionEntry, Epoch
<1>2. gaps \in SUBSET Nat /\ gaps # {}
  BY <1>1, RuntimeAssumption
<1>3. PICK m \in gaps : \A k \in gaps : m <= k
  BY <1>2, LeastNat
<1>4. PICK s \in DOMAIN sessions : m = MaxEpoch - sessions[s].last_active
  BY <1>3
<1>5. ASSUME NEW r \in DOMAIN sessions
      PROVE  sessions[r].last_active <= sessions[s].last_active
  <2>1. MaxEpoch - sessions[s].last_active <= MaxEpoch - sessions[r].last_active
    BY <1>3, <1>4
  <2>2. QED  BY <1>1, <2>1, RuntimeAssumption
<1>6. QED  BY <1>5

LEMMA FrontierSurvivesStep ==
  ASSUME SessionsTyped, DOMAIN sessions # {}, DOMAIN sessions' = {},
         NEW policy \in ExpiryPolicy, NEW now \in Epoch,
         policy.inactivity = Disabled, policy.frustration = Disabled
  PROVE  ~Reap(policy, now)
<1> SUFFICES ASSUME Reap(policy, now) PROVE FALSE
  OBVIOUS
<1>1. IsTable(sessions, Session, SessionEntry)
  BY DEF SessionsTyped
<1>2. sessions' = [s \in DOMAIN sessions \ Reaped(policy, now) |-> sessions[s]]
  BY DEF Reap, Removed
<1>3. DOMAIN sessions \subseteq Reaped(policy, now)
  BY <1>2
<1>4. PICK s \in DOMAIN sessions :
        \A r \in DOMAIN sessions : sessions[r].last_active <= sessions[s].last_active
  BY <1>1, FrontierExists
<1>5. Lags(s, now, policy.lag)
  BY <1>3, <1>4 DEF Reaped, Behind, Frustrated
<1>6. PICK r \in DOMAIN sessions : Behind(s, sessions[r].last_active, policy.lag)
  BY <1>5 DEF Lags
<1>7. policy.lag \in Nat /\ sessions[r].last_active > sessions[s].last_active + policy.lag
  BY <1>6, RuntimeAssumption DEF Behind
<1>8. sessions[r].last_active \in Nat /\ sessions[s].last_active \in Nat
  BY <1>1, RuntimeAssumption DEF IsTable, SessionEntry, Epoch
<1>9. QED  BY <1>4, <1>7, <1>8

\* However many sessions there are, a run with the lag trigger alone spares
\* the one that was heard of last (session.rs, reap).
THEOREM LagSparesTheFrontier == Spec => FrontierSurvives
<1>1. TypeOK /\ [Next]_vars =>
        [DOMAIN sessions # {} /\ DOMAIN sessions' = {} =>
           \A policy \in ExpiryPolicy, now \in Epoch :
             policy.inactivity = Disabled /\ policy.frustration = Disabled
               => ~Reap(policy, now)]_vars
  BY FrontierSurvivesStep DEF TypeOK
<1>2. QED  BY <1>1, TypeCorrect, PTL DEF Spec, FrontierSurvives
=============================================================================

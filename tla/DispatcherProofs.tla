-------------------------- MODULE DispatcherProofs --------------------------
(***************************************************************************)
(* Proofs about Dispatcher, for every set of sessions, paths, partitions   *)
(* and shards, every distance and every bound.                             *)
(***************************************************************************)
EXTENDS Dispatcher, TLAPS

\* The active path of a session is entered for it and does not drain, and is
\* closed only while there is no predecessor; a predecessor is one path of the
\* session's own; a path belongs to the live session that owns it, and only
\* the active one of that session is Active.
Entered(s) ==
  /\ sessions[s].active \in DOMAIN paths
  /\ paths[sessions[s].active].session = s
  /\ paths[sessions[s].active].state # "Draining"
  /\ paths[sessions[s].active].state = "Closed" => sessions[s].prev = {}

ActiveEntered == \A s \in DOMAIN sessions : Entered(s)

PrevOwned ==
  \A s \in DOMAIN sessions :
    \A p, q \in sessions[s].prev : Owner[p] = s /\ p = q

PathsOwned ==
  \A p \in DOMAIN paths :
    /\ paths[p].session = Owner[p]
    /\ paths[p].session \in DOMAIN sessions
    /\ paths[p].state = "Active" => p = sessions[paths[p].session].active

PathInv == ActiveEntered /\ PathsOwned /\ PrevOwned

-----------------------------------------------------------------------------
(* Tables *)

LEMMA MarkedTable ==
  ASSUME NEW p, NEW st
  PROVE  /\ DOMAIN Marked(p, st) = DOMAIN paths
         /\ \A q \in DOMAIN paths : q # p => Marked(p, st)[q] = paths[q]
         /\ p \in DOMAIN paths => Marked(p, st)[p] = [paths[p] EXCEPT !.state = st]
  BY DEF Marked

-----------------------------------------------------------------------------
(* The operations on sessions and paths *)

LEMMA CreateSessionType ==
  ASSUME SessionsTypeOK, NEW s \in Session, NEW p \in Path, NEW n \in StreamSeq,
         MaxSeq \in Nat, CreateSession(s, p, n)
  PROVE  SessionsTypeOK'
<1>1. [active |-> p, prev |-> {}, floor |-> n] \in SessionEntry
  BY DEF SessionEntry, StreamSeq
<1>2. [session |-> s, state |-> "Active"] \in PathEntry
  BY DEF PathEntry
<1>3. DOMAIN sessions' \subseteq Session /\ DOMAIN paths' \subseteq Path
  BY DEF SessionsTypeOK, CreateSession, Inserted
<1>4. ASSUME NEW t \in DOMAIN sessions' PROVE sessions'[t] \in SessionEntry
  BY <1>1 DEF SessionsTypeOK, CreateSession, Inserted
<1>5. ASSUME NEW q \in DOMAIN paths' PROVE paths'[q] \in PathEntry
  BY <1>2 DEF SessionsTypeOK, CreateSession, Inserted
<1>6. QED  BY <1>3, <1>4, <1>5 DEF SessionsTypeOK

\* A new session finds none of its paths in the table.
LEMMA CreateSessionPaths ==
  ASSUME PathInv, NEW s \in Session, NEW p \in Path, NEW n,
         ~Live(s), Owner[p] = s, CreateSession(s, p, n)
  PROVE  PathInv'
<1> DEFINE entry == [active |-> p, prev |-> {}, floor |-> n]
           new == [session |-> s, state |-> "Active"]
<1>1. /\ sessions' = Inserted(sessions, s, entry)
      /\ paths' = Inserted(paths, p, new)
  BY DEF CreateSession
<1>2. s \notin DOMAIN sessions /\ p \notin DOMAIN paths
  BY DEF Live, PathInv, PathsOwned
<1>3. /\ DOMAIN sessions' = DOMAIN sessions \cup {s}
      /\ sessions'[s] = entry
      /\ \A t \in DOMAIN sessions : sessions'[t] = sessions[t]
  BY <1>1, <1>2 DEF Inserted
<1>4. /\ DOMAIN paths' = DOMAIN paths \cup {p}
      /\ paths'[p] = new
      /\ \A q \in DOMAIN paths : paths'[q] = paths[q]
  BY <1>1, <1>2 DEF Inserted
<1>5. ActiveEntered'
  <2>1. Entered(s)'
    BY <1>3, <1>4 DEF Entered
  <2>2. ASSUME NEW t \in DOMAIN sessions PROVE Entered(t)'
    BY <1>3, <1>4 DEF PathInv, ActiveEntered, Entered
  <2>3. QED  BY <1>3, <2>1, <2>2 DEF ActiveEntered
<1>6. PathsOwned'
  BY <1>2, <1>3, <1>4 DEF PathInv, PathsOwned
<1>7. PrevOwned'
  BY <1>3 DEF PathInv, PrevOwned
<1>8. QED  BY <1>5, <1>6, <1>7 DEF PathInv

LEMMA MigratePathType ==
  ASSUME SessionsTypeOK, NEW s \in Session, NEW p \in Path, Live(s), MigratePath(s, p)
  PROVE  SessionsTypeOK'
<1> DEFINE old == sessions[s].active
           new == [session |-> s, state |-> "Active"]
           marked == Marked(old, "Draining")
<1>1. sessions[s] \in SessionEntry
  BY DEF SessionsTypeOK, Live
<1>2. [sessions[s] EXCEPT !.active = p, !.prev = {old}] \in SessionEntry
  BY <1>1 DEF SessionEntry
<1>3. sessions' = [sessions EXCEPT ![s] = [sessions[s] EXCEPT !.active = p, !.prev = {old}]]
  BY DEF MigratePath
<1>4. /\ DOMAIN sessions' \subseteq Session
      /\ \A t \in DOMAIN sessions' : sessions'[t] \in SessionEntry
  BY <1>2, <1>3 DEF SessionsTypeOK
<1>5. DOMAIN marked = DOMAIN paths /\ \A q \in DOMAIN paths : marked[q] \in PathEntry
  <2>1. \A q \in DOMAIN paths : [paths[q] EXCEPT !.state = "Draining"] \in PathEntry
    BY DEF SessionsTypeOK, PathEntry
  <2>2. QED  BY <2>1 DEF SessionsTypeOK, Marked
<1>6. new \in PathEntry
  BY DEF PathEntry
<1>7. paths' = Inserted(marked, p, new)
  BY DEF MigratePath
<1>8. /\ DOMAIN paths' \subseteq Path
      /\ \A q \in DOMAIN paths' : paths'[q] \in PathEntry
  <2>1. DOMAIN paths' = DOMAIN paths \cup {p} /\ paths'[p] = new
    BY <1>5, <1>7 DEF Inserted
  <2>2. \A q \in DOMAIN paths : q # p => paths'[q] = marked[q]
    BY <1>5, <1>7 DEF Inserted
  <2>3. QED  BY <1>5, <1>6, <2>1, <2>2 DEF SessionsTypeOK
<1>9. QED  BY <1>4, <1>8 DEF SessionsTypeOK

\* The path in use until now drains unless it is the new one again, and the
\* other paths of the session were not Active.
LEMMA MigratePathPaths ==
  ASSUME SessionsTypeOK, PathInv, NEW s \in Session, NEW p \in Path,
         Live(s), Owner[p] = s, MigratePath(s, p)
  PROVE  PathInv'
<1> DEFINE old == sessions[s].active
           new == [session |-> s, state |-> "Active"]
           marked == Marked(old, "Draining")
<1>1. s \in DOMAIN sessions /\ sessions[s] \in SessionEntry
  BY DEF SessionsTypeOK, Live
<1>2. old \in DOMAIN paths /\ paths[old].session = s /\ paths[old] \in PathEntry
  BY <1>1 DEF PathInv, ActiveEntered, Entered, SessionsTypeOK
<1>3. /\ DOMAIN sessions' = DOMAIN sessions
      /\ sessions'[s].active = p /\ sessions'[s].prev = {old}
      /\ \A t \in DOMAIN sessions : t # s => sessions'[t] = sessions[t]
  BY <1>1 DEF MigratePath, SessionEntry
<1>4. paths' = Inserted(marked, p, new)
  BY DEF MigratePath
<1>5. /\ DOMAIN marked = DOMAIN paths
      /\ \A q \in DOMAIN paths : q # old => marked[q] = paths[q]
      /\ marked[old] = [paths[old] EXCEPT !.state = "Draining"]
  BY <1>2, MarkedTable
<1>6. /\ DOMAIN paths' = DOMAIN paths \cup {p} /\ paths'[p] = new
      /\ \A q \in DOMAIN paths : q # p => paths'[q] = marked[q]
  BY <1>4, <1>5 DEF Inserted
<1>7. old # p => paths'[old].session = s /\ paths'[old].state = "Draining"
  BY <1>2, <1>5, <1>6 DEF PathEntry
<1>8. \A q \in DOMAIN paths : q # p /\ q # old => paths'[q] = paths[q]
  BY <1>5, <1>6
<1>9. Owner[old] = s
  BY <1>2 DEF PathInv, PathsOwned
<1>10. ActiveEntered'
  <2>1. ASSUME NEW t \in DOMAIN sessions, t # s PROVE Entered(t)'
    <3>1. Entered(t)
      BY DEF PathInv, ActiveEntered
    <3>2. Owner[sessions[t].active] = t
      BY <3>1 DEF PathInv, PathsOwned, Entered
    <3>3. sessions[t].active # p /\ sessions[t].active # old
      BY <1>9, <2>1, <3>2
    <3>4. QED  BY <1>3, <1>6, <1>8, <2>1, <3>1, <3>3 DEF Entered
  <2>2. Entered(s)'
    BY <1>3, <1>6 DEF Entered
  <2>3. QED  BY <1>3, <2>1, <2>2 DEF ActiveEntered
<1>11. PathsOwned'
  <2>1. ASSUME NEW q \in DOMAIN paths, q # p, q # old, paths[q].session = s
        PROVE  paths[q].state # "Active"
    BY <2>1 DEF PathInv, PathsOwned
  <2>2. ASSUME NEW q \in DOMAIN paths'
        PROVE  /\ paths'[q].session = Owner[q]
               /\ paths'[q].session \in DOMAIN sessions'
               /\ paths'[q].state = "Active" => q = sessions'[paths'[q].session].active
    <3>1. CASE q = p
      BY <3>1, <1>1, <1>3, <1>6
    <3>2. CASE q = old /\ q # p
      BY <3>2, <1>1, <1>3, <1>7, <1>9
    <3>3. CASE q # p /\ q # old
      BY <3>3, <1>3, <1>6, <1>8, <2>1 DEF PathInv, PathsOwned
    <3>4. QED  BY <3>1, <3>2, <3>3
  <2>3. QED  BY <2>2 DEF PathsOwned
<1>12. PrevOwned'
  BY <1>3, <1>9 DEF PathInv, PrevOwned
<1>13. QED  BY <1>10, <1>11, <1>12 DEF PathInv

LEMMA RetireType ==
  ASSUME SessionsTypeOK, NEW s \in Session, Live(s), RetireDrainingPath(s)
  PROVE  SessionsTypeOK'
<1>1. \A q \in DOMAIN paths : [paths[q] EXCEPT !.state = "Closed"] \in PathEntry
  BY DEF SessionsTypeOK, PathEntry
<1>2. DOMAIN paths' \subseteq Path /\ \A q \in DOMAIN paths' : paths'[q] \in PathEntry
  BY <1>1 DEF SessionsTypeOK, RetireDrainingPath
<1>3. [sessions[s] EXCEPT !.prev = {}] \in SessionEntry
  BY DEF SessionsTypeOK, SessionEntry, Live
<1>4. /\ DOMAIN sessions' \subseteq Session
      /\ \A t \in DOMAIN sessions' : sessions'[t] \in SessionEntry
  BY <1>3 DEF SessionsTypeOK, RetireDrainingPath
<1>5. QED  BY <1>2, <1>4 DEF SessionsTypeOK

\* The path that is closed is the active one of no other session, which does
\* not own it; if it is the active one of this session, no predecessor is left.
LEMMA RetirePaths ==
  ASSUME SessionsTypeOK, PathInv, NEW s \in Session, Live(s), RetireDrainingPath(s)
  PROVE  PathInv'
<1>1. /\ DOMAIN sessions' = DOMAIN sessions
      /\ sessions'[s].prev = {}
      /\ \A t \in DOMAIN sessions : /\ sessions'[t].active = sessions[t].active
                                    /\ sessions'[t].prev \subseteq sessions[t].prev
  BY DEF RetireDrainingPath, SessionsTypeOK, SessionEntry, Live
<1>2. /\ DOMAIN paths' = DOMAIN paths
      /\ \A q \in DOMAIN paths \ sessions[s].prev : paths'[q] = paths[q]
      /\ \A q \in DOMAIN paths \cap sessions[s].prev :
           paths'[q].session = paths[q].session /\ paths'[q].state = "Closed"
  BY DEF RetireDrainingPath, SessionsTypeOK, PathEntry
<1>3. ActiveEntered'
  <2>1. ASSUME NEW t \in DOMAIN sessions PROVE Entered(t)'
    <3>1. Entered(t)
      BY DEF PathInv, ActiveEntered
    <3>2. CASE t = s
      BY <1>1, <1>2, <3>1, <3>2 DEF Entered
    <3>3. CASE t # s
      <4>1. Owner[sessions[t].active] = t
        BY <3>1 DEF PathInv, PathsOwned, Entered
      <4>2. sessions[t].active \notin sessions[s].prev
        BY <3>3, <4>1 DEF PathInv, PrevOwned, Live
      <4>3. QED  BY <1>1, <1>2, <3>1, <4>2 DEF Entered
    <3>4. QED  BY <3>2, <3>3
  <2>2. QED  BY <1>1, <2>1 DEF ActiveEntered
<1>4. PathsOwned'
  <2>1. ASSUME NEW q \in DOMAIN paths
        PROVE  /\ paths'[q].session = paths[q].session
               /\ paths'[q].state = "Active" => paths[q].state = "Active"
    BY <1>2
  <2>2. QED  BY <1>1, <1>2, <2>1 DEF PathInv, PathsOwned
<1>5. PrevOwned'
  BY <1>1 DEF PathInv, PrevOwned
<1>6. QED  BY <1>3, <1>4, <1>5 DEF PathInv

LEMMA TerminateType ==
  ASSUME SessionsTypeOK, NEW s \in Session, TerminateSession(s)
  PROVE  SessionsTypeOK'
  BY DEF SessionsTypeOK, TerminateSession, Restrict

LEMMA TerminatePaths ==
  ASSUME PathInv, NEW s \in Session, TerminateSession(s)
  PROVE  PathInv'
<1>1. /\ DOMAIN sessions' = DOMAIN sessions \ {s}
      /\ \A t \in DOMAIN sessions' : sessions'[t] = sessions[t]
  BY DEF TerminateSession, Restrict
<1>2. /\ DOMAIN paths' = {q \in DOMAIN paths : paths[q].session # s}
      /\ \A q \in DOMAIN paths' : paths'[q] = paths[q]
  BY DEF TerminateSession, Restrict
<1>3. ActiveEntered'
  <2>1. ASSUME NEW t \in DOMAIN sessions' PROVE Entered(t)'
    <3>1. Entered(t) /\ t # s
      BY <1>1 DEF PathInv, ActiveEntered
    <3>2. QED  BY <1>1, <1>2, <3>1 DEF Entered
  <2>2. QED  BY <2>1 DEF ActiveEntered
<1>4. PathsOwned'
  BY <1>1, <1>2 DEF PathInv, PathsOwned
<1>5. PrevOwned'
  BY <1>1 DEF PathInv, PrevOwned
<1>6. QED  BY <1>3, <1>4, <1>5 DEF PathInv

LEMMA AckType ==
  ASSUME SessionsTypeOK, NEW s \in Session, NEW n \in StreamSeq, MaxSeq \in Nat,
         Live(s), AckSeq(s, n)
  PROVE  SessionsTypeOK'
<1>1. n + 1 \in 0 .. MaxSeq + 1
  BY DEF StreamSeq
<1>2. \A k \in 0 .. MaxSeq + 1 : [sessions[s] EXCEPT !.floor = k] \in SessionEntry
  BY DEF SessionsTypeOK, SessionEntry, Live
<1>3. sessions[s].floor \in 0 .. MaxSeq + 1
  BY DEF SessionsTypeOK, SessionEntry, Live
<1>4. \A t \in DOMAIN sessions' : sessions'[t] \in SessionEntry
  BY <1>1, <1>2, <1>3 DEF SessionsTypeOK, AckSeq
<1>5. QED  BY <1>4 DEF SessionsTypeOK, AckSeq

LEMMA AckPaths ==
  ASSUME SessionsTypeOK, PathInv, NEW s \in Session, NEW n, Live(s), AckSeq(s, n)
  PROVE  PathInv'
<1>1. /\ DOMAIN sessions' = DOMAIN sessions
      /\ \A t \in DOMAIN sessions : /\ sessions'[t].active = sessions[t].active
                                    /\ sessions'[t].prev = sessions[t].prev
  BY DEF AckSeq, SessionsTypeOK, SessionEntry, Live
<1>2. QED  BY <1>1 DEF AckSeq, PathInv, ActiveEntered, Entered, PathsOwned, PrevOwned

-----------------------------------------------------------------------------
(* Shards *)

LEMMA ShardOfType ==
  ASSUME TypeOK, NEW part
  PROVE  ShardOf(part) \in Shard
BY DispatcherAssumption DEF TypeOK, ShardOf, PartitionDomain, Bootstrap

\* pick_shard_for answers a healthy shard while there is one, and the
\* bootstrap shard otherwise.
LEMMA PickShardHealthy ==
  ASSUME NEW s, NEW known, NEW shard \in PickShard(s, known)
  PROVE  /\ HealthyShards(known) # {} => shard \in HealthyShards(known)
         /\ HealthyShards(known) = {} => shard = Bootstrap
<1> DEFINE hints == {partitions[q].shard :
                       q \in {r \in DOMAIN partitions : partitions[r].session = s}}
           From(h) == IF Nearest(h, known, Distance) = {} THEN AnyHealthy(known)
                      ELSE Nearest(h, known, Distance)
<1>1. \A h : Nearest(h, known, Distance) \subseteq HealthyShards(known)
  BY DEF Nearest
<1>2. \A d \in AnyHealthy(known) : \/ d \in HealthyShards(known)
                                   \/ HealthyShards(known) = {} /\ d = Bootstrap
  BY DEF AnyHealthy, Lowest
<1>3. shard \in AnyHealthy(known) \/ \E h : shard \in From(h)
  <2>1. CASE hints = {}
    BY <2>1 DEF PickShard
  <2>2. CASE hints # {}
    <3>1. shard \in UNION {From(h) : h \in hints}
      BY <2>2 DEF PickShard
    <3>2. QED  BY <3>1
  <2>3. QED  BY <2>1, <2>2
<1>4. shard \in AnyHealthy(known) \/ \E h : shard \in Nearest(h, known, Distance)
  BY <1>3
<1>5. QED  BY <1>1, <1>2, <1>4

LEMMA PickShardType ==
  ASSUME NEW s, NEW known, DOMAIN known \subseteq Shard
  PROVE  PickShard(s, known) \subseteq Shard
<1>1. HealthyShards(known) \subseteq Shard
  BY DEF HealthyShards
<1>2. QED  BY <1>1, PickShardHealthy, DispatcherAssumption DEF Bootstrap

-----------------------------------------------------------------------------
(* Records *)

LEMMA DecodedType ==
  ASSUME TypeOK, NEW s, NEW n \in StreamSeq, Decoded(s, n)
  PROVE  /\ stream' \subseteq Path /\ \A p, q \in stream' : p = q
         /\ seen' \in StreamSeq \cup {Nothing}
BY DEF TypeOK, Decoded

LEMMA RoutedType ==
  ASSUME TypeOK, NEW s \in Session, NEW n \in StreamSeq, NEW class, NEW part,
         Routed(s, n, class, part)
  PROVE  /\ stream' \subseteq Path /\ \A p, q \in stream' : p = q
         /\ seen' \in StreamSeq \cup {Nothing}
         /\ SessionsTypeOK'
         /\ applied' \in [Session -> [StreamSeq -> 0..MaxApplied]]
<1>1. SessionsTypeOK'
  BY DEF TypeOK, SessionsTypeOK, Routed
<1>2. applied[s] \in [StreamSeq -> 0..MaxApplied] /\ applied[s][n] \in 0..MaxApplied
  BY DEF TypeOK
<1>3. applied[s][n] + 1 \in 0..MaxApplied
  BY <1>2, DispatcherAssumption DEF Routed
<1>4. [applied[s] EXCEPT ![n] = @ + 1] \in [StreamSeq -> 0..MaxApplied]
  BY <1>2, <1>3
<1>5. applied' = [applied EXCEPT ![s] = [applied[s] EXCEPT ![n] = @ + 1]]
  BY DEF Routed
<1>6. applied' \in [Session -> [StreamSeq -> 0..MaxApplied]]
  BY <1>4, <1>5 DEF TypeOK
<1>7. QED  BY <1>1, <1>6, DecodedType DEF Routed

\* What is reported of a shard is a pressure of it.
LEMMA ReportedType ==
  ASSUME TypeOK, NEW d \in Shard, NEW p \in Pressure
  PROVE  /\ DOMAIN Inserted(pressure, d, p) \subseteq Shard
         /\ \A e \in DOMAIN Inserted(pressure, d, p) : Inserted(pressure, d, p)[e] \in Pressure
BY DEF TypeOK, Inserted

LEMMA DepthPressure ==
  ASSUME NEW depth \in Depths
  PROVE  [queue_depth |-> depth, cursor_count |-> 0] \in Pressure
BY DispatcherAssumption DEF Pressure

LEMMA FreshApplied ==
  ASSUME TypeOK, NEW s \in Session
  PROVE  [applied EXCEPT ![s] = [m \in StreamSeq |-> 0]]
            \in [Session -> [StreamSeq -> 0..MaxApplied]]
<1>1. [m \in StreamSeq |-> 0] \in [StreamSeq -> 0..MaxApplied]
  BY DispatcherAssumption
<1>2. QED  BY <1>1 DEF TypeOK

-----------------------------------------------------------------------------
(* Type correctness *)

LEMMA TypeInit == Init => TypeOK
<1> SUFFICES ASSUME Init PROVE TypeOK
  OBVIOUS
<1>1. stream = {}
  BY DEF Init
<1>2. applied \in [Session -> [StreamSeq -> 0..MaxApplied]]
  BY DispatcherAssumption DEF Init
<1>3. peak \in [Shard -> Depths] /\ hosted \in [Shard -> SUBSET Partition]
  BY DispatcherAssumption DEF Init
<1>4. DOMAIN sessions = {} /\ DOMAIN paths = {} /\ DOMAIN partitions = {} /\ DOMAIN pressure = {}
  BY DEF Init
<1>5. QED  BY <1>1, <1>2, <1>3, <1>4 DEF Init, TypeOK, SessionsTypeOK

LEMMA ProfileType ==
  ASSUME TypeOK, NEW s \in Session, NEW n \in StreamSeq, HandleProfile(s, n)
  PROVE  TypeOK'
<1>1. PICK p \in stream :
        \/ /\ ~Live(s)
           /\ CreateSession(s, p, n)
           /\ applied' = [applied EXCEPT ![s] = [m \in StreamSeq |-> 0]]
        \/ /\ Live(s)
           /\ MigratePath(s, p)
           /\ UNCHANGED applied
  BY DEF HandleProfile
<1>2. p \in Path /\ SessionsTypeOK
  BY DEF TypeOK
<1>3. SessionsTypeOK'
  BY <1>1, <1>2, CreateSessionType, MigratePathType, DispatcherAssumption
<1>4. applied' \in [Session -> [StreamSeq -> 0..MaxApplied]]
  BY <1>1, FreshApplied DEF TypeOK
<1>5. QED  BY <1>3, <1>4, DecodedType DEF TypeOK, HandleProfile, placementVars

LEMMA ApplyType ==
  ASSUME TypeOK, NEW s \in Session, NEW n \in StreamSeq, NEW class, NEW part,
         ApplyRecord(s, n, class, part)
  PROVE  TypeOK'
<1> DEFINE d == ShardOf(part)
<1>1. PICK depth \in Depths : Drained(d, class, depth) /\ pressure' = Reported(d, depth)
  BY DEF ApplyRecord
<1>2. d \in Shard
  BY ShardOfType
<1>3. peak' \in [Shard -> Depths]
  BY <1>1 DEF Drained, TypeOK
<1>4. /\ DOMAIN pressure' \subseteq Shard
      /\ \A e \in DOMAIN pressure' : pressure'[e] \in Pressure
  BY <1>1, <1>2, DepthPressure, ReportedType DEF Reported
<1>5. QED  BY <1>3, <1>4, RoutedType DEF TypeOK, ApplyRecord

LEMMA FailType ==
  ASSUME TypeOK, NEW s \in Session, NEW n \in StreamSeq, NEW class, NEW part,
         EngineFails(s, n, class, part)
  PROVE  TypeOK'
<1>1. peak' \in [Shard -> Depths]
  BY DEF EngineFails, Drained, TypeOK
<1>2. QED  BY <1>1, RoutedType DEF TypeOK, EngineFails

LEMMA PlaceType ==
  ASSUME TypeOK, NEW s \in Session, NEW n \in StreamSeq, NEW part,
         NEW id \in Partition, CreatePartition(s, n, part, id)
  PROVE  TypeOK'
<1> DEFINE d == ShardOf(part)
<1>1. d \in Shard
  BY ShardOfType
<1>2. hosted' \in [Shard -> SUBSET Partition]
  BY <1>1 DEF CreatePartition, TypeOK
<1>3. peak[d] \in Depths
  BY <1>1 DEF TypeOK
<1>4. /\ DOMAIN pressure' \subseteq Shard
      /\ \A e \in DOMAIN pressure' : pressure'[e] \in Pressure
  BY <1>1, <1>3, DepthPressure, ReportedType DEF Reported, CreatePartition
<1>5. PICK shard \in PickShard(s, pressure') :
        partitions' = Inserted(partitions, id, [session |-> s, shard |-> shard])
  BY DEF CreatePartition
<1>6. shard \in Shard
  BY <1>4, PickShardType
<1>7. [session |-> s, shard |-> shard] \in PartitionDomain
  BY <1>6 DEF PartitionDomain
<1>8. /\ DOMAIN partitions' \subseteq Partition
      /\ \A q \in DOMAIN partitions' : partitions'[q] \in PartitionDomain
  BY <1>5, <1>7 DEF TypeOK, Inserted
<1>9. QED  BY <1>2, <1>4, <1>8, RoutedType DEF TypeOK, CreatePartition

LEMMA HostType ==
  ASSUME TypeOK, NEW s \in Session, Host(s)
  PROVE  TypeOK'
<1>1. CASE \E p \in Path : LocalBootstrap(s, p)
  <2>1. PICK p \in Path : LocalBootstrap(s, p)
    BY <1>1
  <2>2. 0 \in StreamSeq
    BY DispatcherAssumption DEF StreamSeq
  <2>3. SessionsTypeOK'
    BY <2>1, <2>2, CreateSessionType, DispatcherAssumption DEF LocalBootstrap, TypeOK
  <2>4. applied' \in [Session -> [StreamSeq -> 0..MaxApplied]]
    BY <2>1, FreshApplied DEF LocalBootstrap
  <2>5. QED  BY <2>1, <2>3, <2>4 DEF TypeOK, LocalBootstrap, decoderVars, placementVars
<1>2. CASE \E n \in StreamSeq : Acknowledge(s, n)
  <2>1. SessionsTypeOK'
    BY <1>2, AckType, DispatcherAssumption DEF Acknowledge, TypeOK
  <2>2. QED  BY <1>2, <2>1 DEF TypeOK, Acknowledge, decoderVars, placementVars
<1>3. CASE Retire(s)
  <2>1. SessionsTypeOK'
    BY <1>3, RetireType DEF Retire, TypeOK
  <2>2. QED  BY <1>3, <2>1 DEF TypeOK, Retire, decoderVars, placementVars
<1>4. CASE Terminate(s)
  <2>1. SessionsTypeOK'
    BY <1>4, TerminateType DEF Terminate, TypeOK
  <2>2. /\ DOMAIN partitions' \subseteq Partition
        /\ \A q \in DOMAIN partitions' : partitions'[q] \in PartitionDomain
    BY <1>4 DEF Terminate, Restrict, TypeOK
  <2>3. QED  BY <1>4, <2>1, <2>2 DEF TypeOK, Terminate, decoderVars
<1>5. QED  BY <1>1, <1>2, <1>3, <1>4 DEF Host

LEMMA TypeStep == TypeOK /\ [Next]_vars => TypeOK'
<1> SUFFICES ASSUME TypeOK, [Next]_vars PROVE TypeOK'
  OBVIOUS
<1>1. ASSUME NEW p \in Path, Connect(p) PROVE TypeOK'
  <2>1. stream' \subseteq Path /\ \A a, b \in stream' : a = b
    BY <1>1 DEF Connect
  <2>2. QED  BY <1>1, <2>1 DEF TypeOK, SessionsTypeOK, Connect, placementVars
<1>2. ASSUME NEW s \in Session, NEW n \in StreamSeq, ProcessRecord(s, n) PROVE TypeOK'
  <2>1. CASE Discard(s, n)
    BY <2>1, DecodedType DEF TypeOK, SessionsTypeOK, Discard, placementVars
  <2>2. QED  BY <1>2, <2>1, ProfileType, ApplyType, FailType, PlaceType DEF ProcessRecord
<1>3. ASSUME NEW d \in Shard, NEW p \in Reports, UpdatePressure(d, p) PROVE TypeOK'
  <2>1. p \in Pressure
    BY DispatcherAssumption
  <2>2. /\ DOMAIN pressure' \subseteq Shard
        /\ \A e \in DOMAIN pressure' : pressure'[e] \in Pressure
    BY <1>3, <2>1, ReportedType DEF UpdatePressure
  <2>3. QED  BY <1>3, <2>2 DEF TypeOK, SessionsTypeOK, UpdatePressure, decoderVars
<1>4. CASE UNCHANGED vars
  BY <1>4 DEF TypeOK, SessionsTypeOK, vars
<1>5. QED  BY <1>1, <1>2, <1>3, <1>4, HostType DEF Next

\* Every table of the runtime holds what its type says, through every order
\* of records and host calls: what is reported stays a pressure, what is
\* placed stays on a known shard, and a floor stays within the sequence
\* numbers.
THEOREM TypeCorrect == Spec => []TypeOK
<1>1. QED  BY TypeInit, TypeStep, PTL DEF Spec

-----------------------------------------------------------------------------
(* One active path *)

\* The steps that leave both tables alone.
LEMMA PathsUnchanged == PathInv /\ UNCHANGED <<sessions, paths>> => PathInv'
BY DEF PathInv, ActiveEntered, Entered, PathsOwned, PrevOwned

LEMMA ProfilePaths ==
  ASSUME TypeOK, PathInv, NEW s \in Session, NEW n \in StreamSeq, HandleProfile(s, n)
  PROVE  PathInv'
<1>1. PICK p \in stream :
        \/ ~Live(s) /\ CreateSession(s, p, n)
        \/ Live(s) /\ MigratePath(s, p)
  BY DEF HandleProfile
<1>2. p \in Path /\ SessionsTypeOK
  BY DEF TypeOK
<1>3. Owner[p] = s
  <2>1. PICK r \in stream : s = Owner[r]
    BY DEF HandleProfile, Decoded
  <2>2. QED  BY <2>1 DEF TypeOK
<1>4. QED  BY <1>1, <1>2, <1>3, CreateSessionPaths, MigratePathPaths

LEMMA HostPaths ==
  ASSUME TypeOK, PathInv, NEW s \in Session, Host(s)
  PROVE  PathInv'
<1>1. SessionsTypeOK
  BY DEF TypeOK
<1>2. CASE \E p \in Path : LocalBootstrap(s, p)
  BY <1>2, CreateSessionPaths DEF LocalBootstrap
<1>3. CASE \E n \in StreamSeq : Acknowledge(s, n)
  BY <1>1, <1>3, AckPaths DEF Acknowledge
<1>4. CASE Retire(s)
  BY <1>1, <1>4, RetirePaths DEF Retire
<1>5. CASE Terminate(s)
  BY <1>5, TerminatePaths DEF Terminate
<1>6. QED  BY <1>2, <1>3, <1>4, <1>5 DEF Host

LEMMA PathInit == Init => PathInv
<1> SUFFICES ASSUME Init PROVE PathInv
  OBVIOUS
<1>1. DOMAIN sessions = {} /\ DOMAIN paths = {}
  BY DEF Init
<1>2. QED  BY <1>1 DEF PathInv, ActiveEntered, PathsOwned, PrevOwned

LEMMA PathStep ==
  ASSUME TypeOK, PathInv, [Next]_vars
  PROVE  PathInv'
<1>1. ASSUME NEW p \in Path, Connect(p) PROVE PathInv'
  BY <1>1, PathsUnchanged DEF Connect
<1>2. ASSUME NEW s \in Session, NEW n \in StreamSeq, ProcessRecord(s, n) PROVE PathInv'
  <2>1. CASE Discard(s, n)
    BY <2>1, PathsUnchanged DEF Discard
  <2>2. CASE HandleProfile(s, n)
    BY <2>2, ProfilePaths
  <2>3. ASSUME NEW part \in Partition, NEW class \in OpcodeClass,
               \/ ApplyRecord(s, n, class, part)
               \/ EngineFails(s, n, class, part)
        PROVE  PathInv'
    BY <2>3, PathsUnchanged DEF ApplyRecord, EngineFails, Routed
  <2>4. ASSUME NEW part \in Partition, NEW id \in Partition,
               CreatePartition(s, n, part, id)
        PROVE  PathInv'
    BY <2>4, PathsUnchanged DEF CreatePartition, Routed
  <2>5. QED  BY <1>2, <2>1, <2>2, <2>3, <2>4 DEF ProcessRecord
<1>3. ASSUME NEW d \in Shard, NEW p \in Reports, UpdatePressure(d, p) PROVE PathInv'
  BY <1>3, PathsUnchanged DEF UpdatePressure
<1>4. CASE UNCHANGED vars
  BY <1>4, PathsUnchanged DEF vars
<1>5. QED  BY <1>1, <1>2, <1>3, <1>4, HostPaths DEF Next

LEMMA PathInvOneActive == PathInv => OneActivePath
<1> SUFFICES ASSUME PathInv, NEW s \in DOMAIN sessions
             PROVE  /\ Entered(s)
                    /\ \A p \in DOMAIN paths :
                         paths[p].session = s /\ paths[p].state = "Active"
                           => p = sessions[s].active
  BY DEF OneActivePath, Entered
<1>1. QED  BY DEF PathInv, ActiveEntered, PathsOwned

\* At most the active path of a live session is Active, it never drains, and
\* it is closed only while there is no predecessor: whatever hellos, repeated
\* ones too, retirements, terminations and new sessions on old paths come.
THEOREM OneActivePathHolds == Spec => []OneActivePath
<1>1. Init => TypeOK /\ PathInv
  BY TypeInit, PathInit
<1>2. (TypeOK /\ PathInv) /\ [Next]_vars => (TypeOK /\ PathInv)'
  BY TypeStep, PathStep
<1>3. QED  BY <1>1, <1>2, PathInvOneActive, PTL DEF Spec

StaysActive ==
  \A s \in DOMAIN sessions \cap DOMAIN sessions' :
    paths[sessions[s].active].state = "Active" =>
      \/ paths'[sessions'[s].active].state = "Active"
      \/ sessions[s].prev = {sessions[s].active} /\ Retire(s)

\* The sessions keep their active paths, and those their entries.
LEMMA ActiveUntouched ==
  ASSUME \A s \in DOMAIN sessions \cap DOMAIN sessions' :
           /\ sessions'[s].active = sessions[s].active
           /\ paths'[sessions[s].active] = paths[sessions[s].active]
  PROVE  StaysActive
BY DEF StaysActive

LEMMA CreateStaysActive ==
  ASSUME PathInv, NEW s \in Session, NEW p, NEW n, ~Live(s), Owner[p] = s, CreateSession(s, p, n)
  PROVE  StaysActive
<1>1. s \notin DOMAIN sessions /\ p \notin DOMAIN paths
  BY DEF Live, PathInv, PathsOwned
<1>2. \A t \in DOMAIN sessions : /\ sessions'[t] = sessions[t]
                                 /\ sessions[t].active \in DOMAIN paths
  BY <1>1 DEF CreateSession, Inserted, PathInv, ActiveEntered, Entered
<1>3. \A q \in DOMAIN paths : paths'[q] = paths[q]
  BY <1>1 DEF CreateSession, Inserted
<1>4. QED  BY <1>2, <1>3, ActiveUntouched

LEMMA MigrateStaysActive ==
  ASSUME SessionsTypeOK, PathInv, NEW s \in Session, NEW p \in Path,
         Live(s), Owner[p] = s, MigratePath(s, p)
  PROVE  StaysActive
<1> DEFINE old == sessions[s].active
           new == [session |-> s, state |-> "Active"]
           marked == Marked(old, "Draining")
<1>1. s \in DOMAIN sessions /\ sessions[s] \in SessionEntry
  BY DEF SessionsTypeOK, Live
<1>2. /\ sessions'[s].active = p
      /\ \A t \in DOMAIN sessions : t # s => sessions'[t] = sessions[t]
  BY <1>1 DEF MigratePath, SessionEntry
<1>3. paths' = Inserted(marked, p, new)
  BY DEF MigratePath
<1>4. /\ DOMAIN marked = DOMAIN paths
      /\ \A q \in DOMAIN paths : q # old => marked[q] = paths[q]
  BY DEF Marked
<1>5. /\ paths'[p] = new
      /\ \A q \in DOMAIN paths : q # p /\ q # old => paths'[q] = paths[q]
  BY <1>3, <1>4 DEF Inserted
<1>6. ASSUME NEW t \in DOMAIN sessions, t # s
      PROVE  sessions[t].active \in DOMAIN paths /\ Owner[sessions[t].active] = t
  BY DEF PathInv, ActiveEntered, PathsOwned, Entered
<1>7. Owner[old] = s
  BY <1>1 DEF PathInv, ActiveEntered, PathsOwned, Entered
<1>8. ASSUME NEW t \in DOMAIN sessions, t # s
      PROVE  paths'[sessions'[t].active] = paths[sessions[t].active]
  BY <1>2, <1>5, <1>6, <1>7, <1>8
<1>9. paths'[sessions'[s].active].state = "Active"
  BY <1>2, <1>5
<1>10. QED  BY <1>8, <1>9 DEF StaysActive

LEMMA RetireStaysActive ==
  ASSUME SessionsTypeOK, PathInv, NEW s \in Session, Retire(s)
  PROVE  StaysActive
<1>1. /\ Live(s) /\ RetireDrainingPath(s)
      /\ \A t \in DOMAIN sessions : sessions'[t].active = sessions[t].active
      /\ \A q \in DOMAIN paths \ sessions[s].prev : paths'[q] = paths[q]
  BY DEF Retire, RetireDrainingPath, SessionsTypeOK, SessionEntry, Live
<1>2. ASSUME NEW t \in DOMAIN sessions, sessions[t].active \in sessions[s].prev
      PROVE  t = s /\ sessions[s].prev = {sessions[s].active}
  <2>1. Owner[sessions[t].active] = t
    BY DEF PathInv, ActiveEntered, PathsOwned, Entered
  <2>2. t = s
    BY <1>1, <1>2, <2>1 DEF PathInv, PrevOwned, Live
  <2>3. QED  BY <1>1, <1>2, <2>2 DEF PathInv, PrevOwned, Live
<1>3. ASSUME NEW t \in DOMAIN sessions, sessions[t].active \notin sessions[s].prev
      PROVE  paths'[sessions'[t].active] = paths[sessions[t].active]
  BY <1>1, <1>3 DEF PathInv, ActiveEntered, Entered
<1>4. QED  BY <1>2, <1>3 DEF StaysActive

LEMMA TerminateStaysActive ==
  ASSUME PathInv, NEW s \in Session, TerminateSession(s)
  PROVE  StaysActive
<1>1. /\ DOMAIN sessions' = DOMAIN sessions \ {s}
      /\ \A t \in DOMAIN sessions' : sessions'[t] = sessions[t]
      /\ \A q \in DOMAIN paths : paths[q].session # s => paths'[q] = paths[q]
  BY DEF TerminateSession, Restrict
<1>2. \A t \in DOMAIN sessions : /\ sessions[t].active \in DOMAIN paths
                                 /\ paths[sessions[t].active].session = t
  BY DEF PathInv, ActiveEntered, Entered
<1>3. QED  BY <1>1, <1>2, ActiveUntouched

LEMMA StaysActiveStep ==
  ASSUME TypeOK, PathInv, [Next]_vars
  PROVE  StaysActive
<1>1. SessionsTypeOK
  BY DEF TypeOK
<1>2. ASSUME UNCHANGED <<sessions, paths>> PROVE StaysActive
  BY <1>2, ActiveUntouched
<1>3. ASSUME NEW s \in Session, NEW n \in StreamSeq, ProcessRecord(s, n) PROVE StaysActive
  <2>1. CASE HandleProfile(s, n)
    <3>1. PICK p \in stream : \/ ~Live(s) /\ CreateSession(s, p, n)
                              \/ Live(s) /\ MigratePath(s, p)
      BY <2>1 DEF HandleProfile
    <3>2. p \in Path
      BY DEF TypeOK
    <3>3. Owner[p] = s
      <4>1. PICK r \in stream : s = Owner[r]
        BY <2>1 DEF HandleProfile, Decoded
      <4>2. QED  BY <4>1 DEF TypeOK
    <3>4. QED  BY <1>1, <3>1, <3>2, <3>3, CreateStaysActive, MigrateStaysActive
  <2>2. CASE UNCHANGED <<sessions, paths>>
    BY <1>2, <2>2
  <2>3. QED
    BY <1>3, <2>1, <2>2
    DEF ProcessRecord, Discard, ApplyRecord, EngineFails, CreatePartition, Routed
<1>4. ASSUME NEW s \in Session, Host(s) PROVE StaysActive
  <2>1. CASE \E p \in Path : LocalBootstrap(s, p)
    BY <2>1, CreateStaysActive DEF LocalBootstrap
  <2>2. CASE \E n \in StreamSeq : Acknowledge(s, n)
    <3>1. /\ paths' = paths
          /\ \A t \in DOMAIN sessions : sessions'[t].active = sessions[t].active
      BY <1>1, <2>2 DEF Acknowledge, AckSeq, SessionsTypeOK, SessionEntry, Live
    <3>2. QED  BY <3>1, ActiveUntouched
  <2>3. CASE Retire(s)
    BY <1>1, <2>3, RetireStaysActive
  <2>4. CASE Terminate(s)
    BY <2>4, TerminateStaysActive DEF Terminate
  <2>5. QED  BY <1>4, <2>1, <2>2, <2>3, <2>4 DEF Host
<1>5. QED  BY <1>2, <1>3, <1>4 DEF Next, Connect, UpdatePressure, vars

\* A session leaves an Active path for a closed one only when the host retires
\* the predecessor after a hello was repeated on the path in use, whatever the
\* sessions and paths (dispatch.rs, handle_profile; session.rs,
\* retire_draining_path).
THEOREM ActiveKept == Spec => ActiveUntilRepeated
<1>1. Init => TypeOK /\ PathInv
  BY TypeInit, PathInit
<1>2. (TypeOK /\ PathInv) /\ [Next]_vars => (TypeOK /\ PathInv)'
  BY TypeStep, PathStep
<1>3. (TypeOK /\ PathInv) /\ [Next]_vars => [StaysActive]_vars
  BY StaysActiveStep
<1>4. QED  BY <1>1, <1>2, <1>3, PTL DEF Spec, ActiveUntilRepeated, StaysActive

-----------------------------------------------------------------------------
(* Acknowledged records *)

Acknowledged ==
  \A s \in DOMAIN sessions \cap DOMAIN sessions' :
    /\ sessions'[s].floor >= sessions[s].floor
    /\ \A n \in StreamSeq : n < sessions[s].floor => applied'[s][n] = applied[s][n]

\* Neither the floors nor the applications change.
LEMMA NothingAcknowledged ==
  ASSUME TypeOK, UNCHANGED <<sessions, applied>>
  PROVE  Acknowledged
BY DEF TypeOK, SessionsTypeOK, SessionEntry, Acknowledged

LEMMA RoutedAcknowledged ==
  ASSUME TypeOK, NEW s \in Session, NEW n \in StreamSeq, NEW class, NEW part,
         Routed(s, n, class, part)
  PROVE  Acknowledged
<1>1. n >= sessions[s].floor /\ s \in DOMAIN sessions
  BY DEF Routed, Admitted, IsSeqValid, Live
<1>2. applied' = [applied EXCEPT ![s][n] = @ + 1] /\ sessions' = sessions
  BY DEF Routed
<1>3. SUFFICES ASSUME NEW t \in DOMAIN sessions
               PROVE  /\ sessions[t].floor >= sessions[t].floor
                      /\ \A m \in StreamSeq : m < sessions[t].floor =>
                           applied'[t][m] = applied[t][m]
  BY <1>2 DEF Acknowledged
<1>4. t \in Session /\ sessions[t].floor \in Int /\ n \in Int
  BY DispatcherAssumption DEF TypeOK, SessionsTypeOK, SessionEntry, StreamSeq
<1>5. ASSUME NEW m \in StreamSeq, m < sessions[t].floor
      PROVE  applied'[t][m] = applied[t][m]
  <2>1. t # s \/ m # n
    BY <1>1, <1>4, <1>5
  <2>2. QED  BY <1>2, <1>4, <2>1 DEF TypeOK
<1>6. QED  BY <1>4, <1>5

LEMMA ProfileAcknowledged ==
  ASSUME TypeOK, NEW s \in Session, NEW n \in StreamSeq, HandleProfile(s, n)
  PROVE  Acknowledged
<1>1. PICK p \in stream :
        \/ /\ ~Live(s)
           /\ CreateSession(s, p, n)
           /\ applied' = [applied EXCEPT ![s] = [m \in StreamSeq |-> 0]]
        \/ /\ Live(s)
           /\ MigratePath(s, p)
           /\ UNCHANGED applied
  BY DEF HandleProfile
<1>2. ASSUME NEW t \in DOMAIN sessions \cap DOMAIN sessions'
      PROVE  sessions'[t].floor = sessions[t].floor /\ applied'[t] = applied[t]
  <2>1. t \in Session /\ sessions[t] \in SessionEntry
    BY DEF TypeOK, SessionsTypeOK
  <2>2. CASE ~Live(s)
    BY <1>1, <2>1, <2>2 DEF Live, CreateSession, Inserted, TypeOK
  <2>3. CASE Live(s)
    BY <1>1, <2>1, <2>3 DEF MigratePath, SessionEntry
  <2>4. QED  BY <2>2, <2>3
<1>3. \A t \in DOMAIN sessions : sessions[t].floor \in Int
  BY DispatcherAssumption DEF TypeOK, SessionsTypeOK, SessionEntry
<1>4. QED  BY <1>2, <1>3 DEF Acknowledged

LEMMA HostAcknowledged ==
  ASSUME TypeOK, NEW s \in Session, Host(s)
  PROVE  Acknowledged
<1>1. \A t \in DOMAIN sessions : /\ t \in Session
                                 /\ sessions[t] \in SessionEntry
                                 /\ sessions[t].floor \in Int
  BY DispatcherAssumption DEF TypeOK, SessionsTypeOK, SessionEntry
<1>2. CASE \E p \in Path : LocalBootstrap(s, p)
  <2>1. PICK p \in Path : LocalBootstrap(s, p)
    BY <1>2
  <2>2. \A t \in DOMAIN sessions : sessions'[t] = sessions[t] /\ applied'[t] = applied[t]
    BY <2>1, <1>1 DEF LocalBootstrap, Live, CreateSession, Inserted, TypeOK
  <2>3. QED  BY <1>1, <2>2 DEF Acknowledged
<1>3. CASE \E n \in StreamSeq : Acknowledge(s, n)
  <2>1. PICK n \in StreamSeq : Acknowledge(s, n)
    BY <1>3
  <2>2. \A t \in DOMAIN sessions : sessions'[t].floor >= sessions[t].floor
    <3>1. n + 1 \in Int
      BY DispatcherAssumption DEF StreamSeq
    <3>2. ASSUME NEW t \in DOMAIN sessions PROVE sessions'[t].floor >= sessions[t].floor
      <4>1. CASE t = s
        BY <1>1, <2>1, <3>1, <4>1 DEF Acknowledge, AckSeq, SessionEntry
      <4>2. CASE t # s
        BY <1>1, <2>1, <4>2 DEF Acknowledge, AckSeq
      <4>3. QED  BY <4>1, <4>2
    <3>3. QED  BY <3>2
  <2>3. QED  BY <2>1, <2>2 DEF Acknowledged, Acknowledge
<1>4. CASE Retire(s)
  <2>1. \A t \in DOMAIN sessions : sessions'[t].floor = sessions[t].floor
    BY <1>1, <1>4 DEF Retire, RetireDrainingPath, SessionEntry
  <2>2. QED  BY <1>1, <1>4, <2>1 DEF Acknowledged, Retire
<1>5. CASE Terminate(s)
  <2>1. \A t \in DOMAIN sessions' : sessions'[t] = sessions[t]
    BY <1>5 DEF Terminate, TerminateSession, Restrict
  <2>2. QED  BY <1>1, <1>5, <2>1 DEF Acknowledged, Terminate
<1>6. QED  BY <1>2, <1>3, <1>4, <1>5 DEF Host

\* Nothing takes an acknowledgement back while the session lives: no step,
\* a reconnection or a migration among them, lowers its floor, and no record
\* below the floor reaches an engine.
THEOREM AcknowledgedRecords == Spec => AcknowledgedForGood
<1>1. TypeOK /\ [Next]_vars => [Acknowledged]_vars
  <2> SUFFICES ASSUME TypeOK, Next PROVE Acknowledged
    OBVIOUS
  <2>1. ASSUME NEW p \in Path, Connect(p) PROVE Acknowledged
    BY <2>1, NothingAcknowledged DEF Connect
  <2>2. ASSUME NEW s \in Session, NEW n \in StreamSeq, ProcessRecord(s, n)
        PROVE  Acknowledged
    <3>1. CASE Discard(s, n)
      BY <3>1, NothingAcknowledged DEF Discard
    <3>2. CASE HandleProfile(s, n)
      BY <3>2, ProfileAcknowledged
    <3>3. ASSUME NEW part \in Partition, NEW class \in OpcodeClass,
                 \/ ApplyRecord(s, n, class, part)
                 \/ EngineFails(s, n, class, part)
          PROVE  Acknowledged
      BY <3>3, RoutedAcknowledged DEF ApplyRecord, EngineFails
    <3>4. ASSUME NEW part \in Partition, NEW id \in Partition,
                 CreatePartition(s, n, part, id)
          PROVE  Acknowledged
      BY <3>4, RoutedAcknowledged DEF CreatePartition
    <3>5. QED  BY <2>2, <3>1, <3>2, <3>3, <3>4 DEF ProcessRecord
  <2>3. ASSUME NEW d \in Shard, NEW p \in Reports, UpdatePressure(d, p)
        PROVE  Acknowledged
    BY <2>3, NothingAcknowledged DEF UpdatePressure
  <2>4. QED  BY <2>1, <2>2, <2>3, HostAcknowledged DEF Next
<1>2. QED  BY <1>1, TypeCorrect, PTL DEF Spec, AcknowledgedForGood, Acknowledged

-----------------------------------------------------------------------------
(* Placement *)

Placed ==
  \A q \in DOMAIN partitions' :
    /\ q \notin DOMAIN partitions \/ partitions'[q] # partitions[q]
    /\ HealthyShards(pressure') # {}
    => partitions'[q].shard \in HealthyShards(pressure')

\* A partition that is created while a shard is healthy, or moved by a second
\* creation, comes to a healthy shard: the pressure it is judged by is the
\* one its own record has just reported, not the one before.
THEOREM PartitionsPlaced == Spec => PlacedOnHealthy
<1>1. [Next]_vars => [Placed]_vars
  <2> SUFFICES ASSUME Next PROVE Placed
    OBVIOUS
  <2>1. CASE UNCHANGED partitions
    BY <2>1 DEF Placed
  <2>2. ASSUME NEW s \in Session, Terminate(s) PROVE Placed
    BY <2>2 DEF Terminate, Restrict, Placed
  <2>3. ASSUME NEW s \in Session, NEW n \in StreamSeq, NEW part \in Partition,
               NEW id \in Partition, CreatePartition(s, n, part, id)
        PROVE  Placed
    <3>1. PICK shard \in PickShard(s, pressure') :
            partitions' = Inserted(partitions, id, [session |-> s, shard |-> shard])
      BY <2>3 DEF CreatePartition
    <3>2. \A q \in DOMAIN partitions' :
            \/ q \in DOMAIN partitions /\ partitions'[q] = partitions[q]
            \/ partitions'[q].shard = shard
      BY <3>1 DEF Inserted
    <3>3. HealthyShards(pressure') # {} => shard \in HealthyShards(pressure')
      BY <3>1, PickShardHealthy
    <3>4. QED  BY <3>2, <3>3 DEF Placed
  <2>4. QED
    BY <2>1, <2>2, <2>3
    DEF Next, ProcessRecord, Host, Connect, Discard, HandleProfile, ApplyRecord,
        EngineFails, UpdatePressure, LocalBootstrap, Acknowledge, Retire, placementVars
<1>2. QED  BY <1>1, PTL DEF Spec, PlacedOnHealthy, Placed
=============================================================================

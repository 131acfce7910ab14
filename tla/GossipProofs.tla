---------------------------- MODULE GossipProofs ----------------------------
(***************************************************************************)
(* Proofs about Gossip, for every set of shards, every set of pressures    *)
(* and every longest delay, with and without losses.                       *)
(***************************************************************************)
EXTENDS Gossip, TLAPS

-----------------------------------------------------------------------------
(* Lists of one more or no element, as the network keeps them *)

LEMMA NoMessage == ASSUME NEW S PROVE <<>> \in Seq(S) /\ Len(<<>>) = 0
  OBVIOUS

LEMMA LastIsReport ==
  ASSUME NEW q \in Seq(Report), q # <<>>
  PROVE  Last(q) \in Report
  BY DEF Last

LEMMA Lengthened ==
  ASSUME NEW q \in Seq(Report), NEW r \in Seq(Report)
  PROVE  q \o r \in Seq(Report) /\ Len(q \o r) = Len(q) + Len(r)
  OBVIOUS

-----------------------------------------------------------------------------
(* The type invariant *)

LEMMA InitType == Init => TypeOK
<1> SUFFICES ASSUME Init PROVE TypeOK
  OBVIOUS
<1>1. pressure \in [Shard -> [Shard -> Report]]
  BY DEF Init, Report
<1>2. lifecycle \in [Shard -> {"Alive", "Crashed"}] /\ cut \subseteq {{c[1], c[2]} : c \in Pair}
  BY DEF Init
<1>3. pending \in [Pair -> [Delay -> Seq(Report)]]
  BY NoMessage DEF Init
<1>4. ASSUME NEW c \in Pair, NEW k \in Delay PROVE Len(pending[c][k]) <= MaxDelay - k + 1
  BY DelayAssumption, NoMessage DEF Init, Delay
<1>5. QED  BY <1>1, <1>2, <1>3, <1>4 DEF TypeOK

LEMMA DeliveredType ==
  ASSUME TypeOK, NEW d \in Shard, NEW s \in Shard
  PROVE  Delivered(d, s) \in Report
<1>1. CASE s # d /\ Due(<<s, d>>) # <<>>
  <2>1. <<s, d>> \in Pair /\ 1 \in Delay
    BY <1>1, DelayAssumption DEF Pair, Delay
  <2>2. Due(<<s, d>>) \in Seq(Report)
    BY <2>1 DEF TypeOK, Due
  <2>3. QED  BY <1>1, <2>2, LastIsReport DEF Delivered
<1>2. CASE ~(s # d /\ Due(<<s, d>>) # <<>>)
  BY <1>2 DEF Delivered, TypeOK
<1>3. QED  BY <1>1, <1>2

\* What stays of a pair's messages, one tick nearer, and the new one.
LEMMA BucketType ==
  ASSUME TypeOK, NEW c \in Pair, NEW k \in Delay, NEW kept, NEW delay
  PROVE  LET q == Remaining(c, k) \o Gossiped(c, k, kept, delay)
         IN  q \in Seq(Report) /\ Len(q) <= MaxDelay - k + 1
<1> DEFINE q == Remaining(c, k)
           r == Gossiped(c, k, kept, delay)
<1>1. c[1] \in Shard
  BY DEF Pair
<1>2. k \in Nat /\ MaxDelay \in Nat /\ 1 <= k /\ k <= MaxDelay
  BY DelayAssumption DEF Delay
<1>3. r \in Seq(Report) /\ Len(r) \in Nat /\ Len(r) <= 1
  BY <1>1 DEF Gossiped, TypeOK
<1>4. q \in Seq(Report) /\ Len(q) \in Nat /\ Len(q) <= MaxDelay - k
  <2>1. CASE k < MaxDelay
    <3>1. k + 1 \in Delay
      BY <2>1, <1>2 DEF Delay
    <3>2. pending[c][k + 1] \in Seq(Report) /\ Len(pending[c][k + 1]) <= MaxDelay - (k + 1) + 1
      BY <3>1 DEF TypeOK
    <3>3. QED  BY <2>1, <3>2, <1>2 DEF Remaining
  <2>2. CASE ~(k < MaxDelay)
    BY <2>2, <1>2, NoMessage DEF Remaining
  <2>3. QED  BY <2>1, <2>2
<1> HIDE DEF q, r
<1>5. q \o r \in Seq(Report) /\ Len(q \o r) = Len(q) + Len(r)
  BY <1>3, <1>4, Lengthened
<1>6. Len(q) + Len(r) <= MaxDelay - k + 1
  BY <1>2, <1>3, <1>4
<1>7. QED  BY <1>5, <1>6 DEF q, r

LEMMA TickType ==
  ASSUME TypeOK, NEW kept, NEW delay, Tick(kept, delay)
  PROVE  TypeOK'
<1>1. pressure' \in [Shard -> [Shard -> Report]]
  BY DeliveredType DEF Tick
<1>2. ASSUME NEW c \in Pair, NEW k \in Delay
      PROVE  pending'[c][k] \in Seq(Report) /\ Len(pending'[c][k]) <= MaxDelay - k + 1
  BY BucketType DEF Tick
<1>3. pending' \in [Pair -> [Delay -> Seq(Report)]]
  BY <1>2 DEF Tick
<1>4. QED  BY <1>1, <1>2, <1>3 DEF TypeOK, Tick

LEMMA EverywhereType ==
  ASSUME TypeOK, NEW s \in Shard, NEW p \in Report, Everywhere(s, p)
  PROVE  pressure' \in [Shard -> [Shard -> Report]]
  BY DEF TypeOK, Everywhere

LEMMA NextType == TypeOK /\ [Next]_vars => TypeOK'
<1> SUFFICES ASSUME TypeOK, [Next]_vars PROVE TypeOK'
  OBVIOUS
<1>0. Healthy \in Report /\ NegPressure \in Report
  BY DEF Report
<1>1. CASE TickOnce
  BY <1>1, TickType DEF TickOnce, TickKeeping
<1>2. ASSUME NEW s \in Shard, CrashShard(s) PROVE TypeOK'
  <2>1. pressure' \in [Shard -> [Shard -> Report]]
    BY <1>0, <1>2, EverywhereType DEF CrashShard
  <2>2. QED  BY <1>2, <2>1 DEF TypeOK, CrashShard
<1>3. ASSUME NEW s \in Shard, InjectNegEverywhere(s) PROVE TypeOK'
  <2>1. pressure' \in [Shard -> [Shard -> Report]]
    BY <1>0, <1>3, EverywhereType DEF InjectNegEverywhere
  <2>2. QED  BY <1>3, <2>1 DEF TypeOK, InjectNegEverywhere
<1>4. ASSUME NEW s \in Shard, HealShard(s) PROVE TypeOK'
  <2>1. pressure' \in [Shard -> [Shard -> Report]]
    BY <1>0, <1>4, EverywhereType DEF HealShard
  <2>2. QED  BY <1>4, <2>1 DEF TypeOK, HealShard
<1>5. ASSUME NEW s \in Shard, NEW p \in Reports, UpdatePressure(s, p) PROVE TypeOK'
  <2>1. pressure' \in [Shard -> [Shard -> Report]]
    BY <1>5 DEF TypeOK, UpdatePressure, Report
  <2>2. QED  BY <1>5, <2>1 DEF TypeOK, UpdatePressure
<1>6. ASSUME NEW c \in Pair, AddPartition(c[1], c[2]) PROVE TypeOK'
  BY <1>6 DEF TypeOK, AddPartition
<1>7. ASSUME NEW c \in Pair, RemovePartition(c[1], c[2]) PROVE TypeOK'
  BY <1>7 DEF TypeOK, RemovePartition
<1>8. CASE UNCHANGED vars
  BY <1>8 DEF vars, TypeOK
<1>9. QED  BY <1>1, <1>2, <1>3, <1>4, <1>5, <1>6, <1>7, <1>8 DEF Next

\* The views, lifecycles and messages of SimCluster keep their types, and no
\* message outlives its delay (SimNetwork::drain_due): at most MaxDelay
\* messages of a pair are due at the next tick, however long the run.
THEOREM TypeCorrect == Spec => []TypeOK
  BY InitType, NextType, PTL DEF Spec

-----------------------------------------------------------------------------
(* A crashed shard stays buried *)

LEMMA NegIsNotPos == Health(NegPressure) # "Pos"
  BY DEF Health, NegPressure, HOT_CURSOR_COUNT

\* A buried shard sends nothing, and nothing of it is delivered.
LEMMA TickBuried ==
  ASSUME TypeOK, NEW s \in Shard, Buried(s),
         NEW kept \in SUBSET Routes, NEW delay, Tick(kept, delay)
  PROVE  Buried(s)'
<1>1. lifecycle'[s] = "Crashed"
  BY DEF Buried, Tick
<1>2. ASSUME NEW d \in Shard \ {s} PROVE Health(pressure'[d][s]) # "Pos"
  <2>1. Due(<<s, d>>) = <<>>
    BY DelayAssumption DEF Buried, Due, Delay
  <2>2. pressure'[d][s] = pressure[d][s]
    BY <2>1 DEF Tick, Delivered
  <2>3. QED  BY <2>2 DEF Buried
<1>3. ASSUME NEW d \in Shard \ {s}, NEW k \in Delay PROVE pending'[<<s, d>>][k] = <<>>
  <2>1. <<s, d>> \in Pair
    BY DEF Pair
  <2>2. <<s, d>> \notin kept
    BY DEF Routes, Buried
  <2>3. Remaining(<<s, d>>, k) = <<>>
    <3>1. k < MaxDelay => k + 1 \in Delay
      BY DelayAssumption DEF Delay
    <3>2. QED  BY <3>1 DEF Remaining, Buried
  <2>4. Gossiped(<<s, d>>, k, kept, delay) = <<>>
    BY <2>2 DEF Gossiped
  <2>5. QED  BY <2>1, <2>3, <2>4 DEF Tick
<1>4. QED  BY <1>1, <1>2, <1>3 DEF Buried

LEMMA InjectBuried ==
  ASSUME TypeOK, NEW s \in Shard, Buried(s), NEW t \in Shard,
         Everywhere(t, NegPressure), UNCHANGED pending, lifecycle'[s] = "Crashed"
  PROVE  Buried(s)'
<1>1. ASSUME NEW d \in Shard \ {s} PROVE Health(pressure'[d][s]) # "Pos"
  BY NegIsNotPos DEF Everywhere, Buried, TypeOK
<1>2. QED  BY <1>1 DEF Buried

LEMMA StepBuried ==
  ASSUME TypeOK, [Next]_vars, NEW s \in Shard, Buried(s)
  PROVE  Buried(s)' \/ lifecycle'[s] = "Alive"
<1>0. s \in DOMAIN lifecycle /\ lifecycle[s] = "Crashed"
  BY DEF TypeOK, Buried
<1>1. CASE TickOnce
  BY <1>1, TickBuried DEF TickOnce, TickKeeping
<1>2. ASSUME NEW t \in Shard, CrashShard(t) PROVE Buried(s)'
  BY <1>0, <1>2, InjectBuried DEF CrashShard
<1>3. ASSUME NEW t \in Shard, InjectNegEverywhere(t) PROVE Buried(s)'
  BY <1>0, <1>3, InjectBuried DEF InjectNegEverywhere
<1>4. ASSUME NEW t \in Shard, HealShard(t) PROVE Buried(s)' \/ lifecycle'[s] = "Alive"
  <2>1. CASE t = s
    BY <1>0, <1>4, <2>1 DEF HealShard
  <2>2. CASE t # s
    BY <1>0, <1>4, <2>2 DEF HealShard, Everywhere, Buried, TypeOK
  <2>3. QED  BY <2>1, <2>2
<1>5. ASSUME NEW t \in Shard, NEW p \in Reports, UpdatePressure(t, p) PROVE Buried(s)'
  BY <1>5 DEF UpdatePressure, Buried, TypeOK
<1>6. ASSUME NEW c \in Pair, AddPartition(c[1], c[2]) \/ RemovePartition(c[1], c[2])
      PROVE  Buried(s)'
  BY <1>6 DEF AddPartition, RemovePartition, Buried
<1>7. CASE UNCHANGED vars
  BY <1>7 DEF vars, Buried
<1>8. QED  BY <1>1, <1>2, <1>3, <1>4, <1>5, <1>6, <1>7 DEF Next

\* Whatever is dropped, delayed, cut or measured, the peers of a crashed shard
\* none of whose messages is on the way do not hold it as healthy again before
\* heal_shard (SimCluster::tick_once, inject_neg_everywhere).
THEOREM CrashedShardsStayBuried == Spec => CrashedStaysBuried
<1>1. TypeOK /\ [Next]_vars => [\A s \in Shard : StaysBuried(s)]_vars
  BY StepBuried DEF StaysBuried
<1>2. QED  BY <1>1, TypeCorrect, PTL DEF Spec, CrashedStaysBuried
=============================================================================

----------------------------- MODULE WorkProofs -----------------------------
(***************************************************************************)
(* Proofs about drains (module Engine).  The gates alone end a drain: as   *)
(* long as all nodes are Eager, it takes at most one step more than there  *)
(* are pairs, on any graph, cyclic ones included.  The stabilizer clears a *)
(* conflict with all of its cause or not at all.  Lazy nodes wait for a    *)
(* demand.  And on graphs in which all paths between two nodes are equally *)
(* long, a call is one wave of the synchronous dataflow (Dataflow).        *)
(***************************************************************************)
EXTENDS EngineProofs, EngineObserved

\* What is asked of the callers: Eager nodes, and no operation that makes or
\* treats a node otherwise; and a step limit that is above the bound.
EagerOnly ==
  /\ \A t \in Topologies : \A n \in Uid : t.mode[n] = "Eager"
  /\ \A c \in Calls : c.op \notin {"Demand", "SetMode", "Stabilize", "StabilizeAll"}
  /\ \A c \in Calls : c.op = "EdgeConnect" => c.edge.port \in {"Signal", "Flow"}
  /\ MaxSteps > Cardinality(Uid \X Uid)

AllEager == \A n \in Uid : modes[n] = "Eager"
PushesOnly(q) == \A i \in DOMAIN q : q[i].op = "Push"

\* In a drain, every step and every queued item but the first is paid for by
\* the gate that was closed when it was queued.
PaidFor == /\ PushesOnly(queue)
           /\ seen \subseteq pairs
           /\ steps + Len(queue) <= Cardinality(seen) + 1

WorkInv ==
  /\ AllEager
  /\ sections = <<>>
  /\ pc \in {"idle", "delete", "drain"}
  /\ pc # "drain" => queue = <<>>
  /\ pc = "drain" => PaidFor

-----------------------------------------------------------------------------
(* Counting *)

LEMMA PairsFinite ==
  ASSUME NEW S \in SUBSET (Uid \X Uid)
  PROVE  /\ IsFiniteSet(S) /\ Cardinality(S) \in Nat
         /\ Cardinality(S) <= Cardinality(Uid \X Uid) /\ Cardinality(Uid \X Uid) \in Nat
<1>1. IsFiniteSet(Uid \X Uid)
  BY FS_Product, EngineAssumption DEF EngineAssumption
<1>2. QED  BY <1>1, FS_Subset, FS_CardinalityType

\* Pushes queued behind pushes.
LEMMA ConcatPushes ==
  ASSUME NEW q \in Seq(WorkItem), NEW r \in Seq(WorkItem), PushesOnly(q), PushesOnly(r)
  PROVE  Len(q \o r) = Len(q) + Len(r) /\ PushesOnly(q \o r)
<1>1. /\ Len(q) \in Nat /\ Len(r) \in Nat
      /\ DOMAIN q = 1 .. Len(q) /\ DOMAIN r = 1 .. Len(r)
  BY LenProperties
<1>2. /\ q \o r \in Seq(WorkItem) /\ Len(q \o r) = Len(q) + Len(r)
      /\ \A i \in 1 .. Len(q) + Len(r) :
           (q \o r)[i] = IF i <= Len(q) THEN q[i] ELSE r[i - Len(q)]
  BY ConcatProperties
<1>3. DOMAIN (q \o r) = 1 .. Len(q \o r)
  BY <1>2, LenProperties
<1>4. ASSUME NEW i \in 1 .. Len(q) + Len(r) PROVE (q \o r)[i].op = "Push"
  <2>1. CASE i <= Len(q)
    <3>1. i \in DOMAIN q /\ (q \o r)[i] = q[i]
      BY <1>1, <1>2, <2>1
    <3>2. QED  BY <3>1 DEF PushesOnly
  <2>2. CASE ~(i <= Len(q))
    <3>1. i - Len(q) \in DOMAIN r /\ (q \o r)[i] = r[i - Len(q)]
      BY <1>1, <1>2, <2>2
    <3>2. QED  BY <3>1 DEF PushesOnly
  <2>3. QED  BY <2>1, <2>2
<1>5. QED  BY <1>2, <1>3, <1>4 DEF PushesOnly

\* The gates of n to the subscribers S, none of them closed before.
LEMMA GatesCount ==
  ASSUME NEW n \in Uid, NEW S \in SUBSET Uid, NEW shut \in SUBSET (Uid \X Uid),
         \A s \in S : <<n, s>> \notin shut
  PROVE  /\ Cardinality(S) \in Nat
         /\ Cardinality(shut \cup {<<n, s>> : s \in S}) = Cardinality(shut) + Cardinality(S)
<1> DEFINE gates == {<<n, s>> : s \in S}
           f == [s \in S |-> <<n, s>>]
<1>1. IsFiniteSet(S) /\ Cardinality(S) \in Nat
  BY FS_Subset, FS_CardinalityType, EngineAssumption DEF EngineAssumption
<1>2. f \in Bijection(S, gates)
  BY DEF Bijection, Injection, Surjection, IsInjective
<1>3. IsFiniteSet(gates) /\ Cardinality(gates) = Cardinality(S)
  BY <1>1, <1>2, FS_Bijection DEF ExistsBijection
<1>4. shut \cap gates = {}
  OBVIOUS
<1>5. IsFiniteSet(shut) /\ Cardinality(shut) \in Nat
  BY PairsFinite
<1>6. Cardinality(shut \cup gates)
        = Cardinality(shut) + Cardinality(gates) - Cardinality(shut \cap gates)
  BY <1>3, <1>5, FS_Union
<1>7. Cardinality(shut \cap gates) = 0
  BY <1>4, FS_EmptySet
<1>8. QED  BY <1>1, <1>3, <1>5, <1>6, <1>7

\* Every subscriber that is queued closes one gate that was open.
LEMMA PushSubsCount ==
  ASSUME NEW n \in Uid, NEW S \in SUBSET Uid, NEW q \in Seq(WorkItem), PushesOnly(q),
         NEW shut \in SUBSET (Uid \X Uid), \A s \in S : <<n, s>> \notin shut,
         PushSubs(n, S, q, shut)
  PROVE  /\ Cardinality(S) \in Nat
         /\ Len(queue') = Len(q) + Cardinality(S)
         /\ Cardinality(seen') = Cardinality(shut) + Cardinality(S)
         /\ PushesOnly(queue')
         /\ seen' = shut \cup {<<n, s>> : s \in S}
<1>1. PICK subs \in InOrder(S, <) :
        /\ queue' = q \o [i \in DOMAIN subs |-> PushItem(subs[i])]
        /\ seen' = shut \cup {<<n, s>> : s \in S}
  BY DEF PushSubs
<1>2. /\ Cardinality(S) \in Nat
      /\ Cardinality(seen') = Cardinality(shut) + Cardinality(S)
  BY <1>1, GatesCount
<1>3. subs \in [1 .. Cardinality(S) -> S]
  BY <1>1 DEF InOrder
<1> DEFINE new == [i \in DOMAIN subs |-> PushItem(subs[i])]
<1>4. new \in Seq(WorkItem) /\ DOMAIN new = 1 .. Cardinality(S) /\ PushesOnly(new)
  <2>1. new \in Seq(WorkItem)
    BY <1>2, <1>3, PushItemsType
  <2>2. DOMAIN new = 1 .. Cardinality(S)
    BY <1>3
  <2>3. PushesOnly(new)
    BY DEF PushesOnly, PushItem
  <2>4. QED  BY <2>1, <2>2, <2>3
<1>5. queue' = q \o new
  BY <1>1
<1> HIDE DEF new
<1>6. Len(new) = Cardinality(S)
  BY <1>2, <1>4, LenOfDomain
<1>7. Len(queue') = Len(q) + Cardinality(S) /\ PushesOnly(queue')
  BY <1>4, <1>5, <1>6, ConcatPushes
<1>8. QED  BY <1>1, <1>2, <1>7

LEMMA TailCount ==
  ASSUME NEW q \in Seq(WorkItem), q # <<>>, PushesOnly(q)
  PROVE  /\ Tail(q) \in Seq(WorkItem) /\ Len(Tail(q)) = Len(q) - 1
         /\ PushesOnly(Tail(q)) /\ Head(q).op = "Push"
<1>1. /\ Tail(q) \in Seq(WorkItem) /\ Len(Tail(q)) = Len(q) - 1
      /\ \A i \in 1 .. Len(Tail(q)) : i + 1 \in 1 .. Len(q) /\ Tail(q)[i] = q[i + 1]
      /\ Head(q) = q[1] /\ Len(q) \in Nat /\ Len(q) # 0
  BY HeadTailProperties, EmptySeq, LenProperties
<1>2. DOMAIN q = 1 .. Len(q) /\ DOMAIN Tail(q) = 1 .. Len(Tail(q))
  BY <1>1, LenProperties
<1>3. QED  BY <1>1, <1>2 DEF PushesOnly

-----------------------------------------------------------------------------
(* Operations *)

\* A drain starts with the item or the pushes of its operation.
LEMMA WriteAndPushPaid ==
  ASSUME TypeOK, Len(queue) = 0, NEW n \in Uid, NEW v, WriteAndPush(n, v)
  PROVE  PaidFor'
<1>1. PushSubs(n, EagerSubs(n), queue, {})
  BY DEF WriteAndPush
<1>2. queue \in Seq(WorkItem) /\ PushesOnly(queue)
  BY LenProperties DEF TypeOK, PushesOnly
<1>3. EagerSubs(n) \in SUBSET Uid
  BY DEF EagerSubs, Subs
<1>4. /\ Cardinality(EagerSubs(n)) \in Nat
      /\ Len(queue') = Len(queue) + Cardinality(EagerSubs(n))
      /\ Cardinality(seen') = Cardinality({}) + Cardinality(EagerSubs(n))
      /\ PushesOnly(queue')
      /\ seen' = {} \cup {<<n, s>> : s \in EagerSubs(n)}
  <2>1. {} \in SUBSET (Uid \X Uid) /\ \A s \in EagerSubs(n) : <<n, s>> \notin {}
    OBVIOUS
  <2>2. PushSubs(n, EagerSubs(n), queue, {})
    BY <1>1
  <2>3. QED  BY <1>2, <1>3, <2>1, <2>2, PushSubsCount
<1>5. seen' \subseteq pairs
  BY <1>4 DEF EagerSubs, Subs
<1>6. steps' = 0 /\ pairs' = pairs
  BY DEF WriteAndPush, StartDrain
<1>7. steps' + Len(queue') <= Cardinality(seen') + 1
  BY <1>2, <1>4, <1>6, FS_EmptySet
<1>8. QED  BY <1>4, <1>5, <1>6, <1>7 DEF PaidFor

LEMMA RequestPaid ==
  ASSUME queue = <<>>, NEW n \in Uid, Request(PushItem(n))
  PROVE  PaidFor'
<1>1. queue' = Append(queue, PushItem(n)) /\ seen' = {}
  BY DEF Request, Tick
<1>2. queue' = <<PushItem(n)>>
  BY <1>1
<1>3. Len(queue') = 1 /\ PushesOnly(queue')
  BY <1>2 DEF PushesOnly, PushItem
<1>4. Cardinality(seen') = 0
  BY <1>1, FS_EmptySet
<1>5. steps' = 0 /\ pairs' = pairs
  BY DEF Request, StartDrain
<1>6. QED  BY <1>1, <1>3, <1>4, <1>5 DEF PaidFor

\* An operation that starts no drain leaves queue and modes alone, but for
\* nodes that become Eager.
LEMMA QuietPaid ==
  ASSUME WorkInv, pc # "drain", AllEager', UNCHANGED <<queue, sections>>,
         pc' \in {"idle", "delete"}
  PROVE  WorkInv'
  BY DEF WorkInv

LEMMA StartPaid ==
  ASSUME TypeOK, WorkInv, pc = "idle", NEW n \in Uid,
         (\E v : WriteAndPush(n, v)) \/ Request(PushItem(n))
  PROVE  WorkInv'
<1>1. queue = <<>>
  BY DEF WorkInv
<1>2. PaidFor'
  BY <1>1, WriteAndPushPaid, RequestPaid, EmptySeq
<1>3. pc' = "drain" /\ modes' = modes /\ sections' = sections
  BY DEF WriteAndPush, Request, StartDrain
<1>4. QED  BY <1>2, <1>3 DEF WorkInv, AllEager

LEMMA CallPaid ==
  ASSUME TypeOK, WorkInv, EagerOnly, Call
  PROVE  WorkInv'
<1>1. pc = "idle"
  BY DEF Call
<1>2. PICK c \in Calls : Apply(c)
  BY DEF Call
<1>3. c \in IsaOp
  BY <1>2, EngineAssumption DEF EngineAssumption
<1>4. /\ c.op \notin {"Demand", "SetMode", "Stabilize", "StabilizeAll"}
      /\ c.op = "EdgeConnect" => c.edge.port \in {"Signal", "Flow"}
  BY <1>2 DEF EagerOnly
<1>5. modes \in [Uid -> ExecMode] /\ AllEager
  BY DEF TypeOK, WorkInv
<1>6. CASE c.op = "NodeCreate" /\ NodeCreate(c.node, c.kind)
  BY <1>1, <1>5, <1>6, QuietPaid DEF NodeCreate, AllEager, propVars, control
<1>7. CASE c.op = "EdgeConnect" /\ EdgeConnect(c.edge)
  <2>1. Preferred(c.edge.port) \subseteq {"Eager"}
    BY <1>4, <1>7 DEF Preferred
  <2>2. AllEager'
    BY <1>5, <1>7, <2>1 DEF EdgeConnect, AllEager
  <2>3. QED  BY <1>1, <1>7, <2>2, QuietPaid DEF EdgeConnect, propVars, control
<1>8. CASE c.op = "Subscribe" /\ SubscribeOp(c.src, c.sub)
  BY <1>1, <1>5, <1>8, QuietPaid DEF SubscribeOp, AllEager, propVars, control
<1>9. CASE c.op = "SetValue" /\ SetValue(c.node, c.val)
  BY <1>1, <1>9, StartPaid DEF SetValue, WriteAndPush, Live
<1>10. CASE c.op = "Propagate" /\ Request(PushItem(c.node))
  <2>1. c.node \in Uid
    BY <1>3, <1>10 DEF IsaOp
  <2>2. QED  BY <1>1, <1>10, <2>1, StartPaid
<1>11. CASE c.op = "DelNode" /\ DelNode(c.node)
  BY <1>1, <1>5, <1>11, QuietPaid DEF DelNode, AllEager, depVars, propVars
<1>12. CASE c.op = "DelEdge" /\ DelEdge(c.id)
  BY <1>1, <1>5, <1>12, QuietPaid DEF DelEdge, AllEager, propVars, control
<1>13. CASE c.op = "Reflect" /\ Reflect(c.node)
  BY <1>1, <1>13, StartPaid DEF Reflect, WriteAndPush, Live
<1>14. CASE c.op = "Reflect" /\ ReflectMissing(c.node)
  BY <1>1, <1>5, <1>14, QuietPaid DEF ReflectMissing, AllEager, propVars, control
<1>15. QED
  BY <1>2, <1>4, <1>6, <1>7, <1>8, <1>9, <1>10, <1>11, <1>12, <1>13, <1>14 DEF Apply

-----------------------------------------------------------------------------
(* Steps of the drain *)

LEMMA HeadOfPushes ==
  ASSUME TypeOK, PushesOnly(queue), queue # <<>>
  PROVE  Head(queue).node \in Uid
<1>1. queue \in Seq(WorkItem)
  BY DEF TypeOK
<1>2. Head(queue) \in WorkItem /\ Head(queue).op = "Push"
  BY <1>1, HeadTailProperties, TailCount
<1>3. QED  BY <1>2 DEF WorkItem

LEMMA AppendNotEmpty ==
  ASSUME NEW X, NEW s \in Seq(X), NEW x
  PROVE  Append(s, x) # <<>>
<1>1. Append(s, x)[Len(s) + 1] = x /\ Len(s) \in Nat /\ Len(Append(s, x)) = Len(s) + 1
  BY LenProperties
<1>2. QED  BY <1>1

\* A step that pushes open subscribers pays one step and one gate for each.
LEMMA PushPaid ==
  ASSUME TypeOK, PaidFor, Step("Push"),
         NEW S \in SUBSET OpenSubs(Head(queue).node, demanded),
         PushSubs(Head(queue).node, S, Tail(queue), seen)
  PROVE  PaidFor'
<1> DEFINE n == Head(queue).node
<1>1. queue # <<>> /\ queue \in Seq(WorkItem)
  BY DEF Step, TakesItem, TypeOK
<1>2. /\ Tail(queue) \in Seq(WorkItem) /\ Len(Tail(queue)) = Len(queue) - 1
      /\ PushesOnly(Tail(queue)) /\ Head(queue).op = "Push"
  BY <1>1, TailCount DEF PaidFor
<1>3. n \in Uid
  <2>1. Head(queue) \in WorkItem
    BY <1>1, HeadTailProperties
  <2>2. QED  BY <1>2, <2>1 DEF WorkItem
<1>4. S \in SUBSET Uid /\ seen \in SUBSET (Uid \X Uid) /\ \A s \in S : <<n, s>> \notin seen
  BY DEF OpenSubs, Subs, TypeOK
<1>5. /\ Cardinality(S) \in Nat
      /\ Len(queue') = Len(Tail(queue)) + Cardinality(S)
      /\ Cardinality(seen') = Cardinality(seen) + Cardinality(S)
      /\ PushesOnly(queue')
      /\ seen' = seen \cup {<<n, s>> : s \in S}
  BY <1>2, <1>3, <1>4, PushSubsCount
<1>6. seen' \subseteq pairs
  BY <1>5 DEF OpenSubs, Subs, PaidFor
<1>7. steps' = steps + 1 /\ pairs' = pairs
  BY DEF Step
<1>8. steps \in Nat /\ Len(queue) \in Nat /\ Cardinality(seen) \in Nat
  BY <1>1, <1>4, PairsFinite, LenProperties, EngineAssumption DEF TypeOK, EngineAssumption
<1>9. steps' + Len(queue') <= Cardinality(seen') + 1
  BY <1>2, <1>5, <1>7, <1>8 DEF PaidFor
<1>10. QED  BY <1>5, <1>6, <1>7, <1>9 DEF PaidFor

\* A step that pushes nothing.
LEMMA TakePaid ==
  ASSUME TypeOK, PaidFor, Step("Push"), UNCHANGED seen, queue' = Tail(queue)
  PROVE  PaidFor'
<1>1. queue # <<>> /\ queue \in Seq(WorkItem)
  BY DEF Step, TakesItem, TypeOK
<1>2. Len(Tail(queue)) = Len(queue) - 1 /\ PushesOnly(Tail(queue))
  BY <1>1, TailCount DEF PaidFor
<1>3. steps' = steps + 1 /\ pairs' = pairs
  BY DEF Step
<1>4. steps \in Nat /\ Len(queue) \in Nat /\ Cardinality(seen) \in Nat
  BY <1>1, PairsFinite, LenProperties, EngineAssumption DEF TypeOK, EngineAssumption
<1>5. steps + Len(queue) <= Cardinality(seen) + 1 /\ seen \subseteq pairs
  BY DEF PaidFor
<1>6. Len(queue') = Len(queue) - 1 /\ PushesOnly(queue)' /\ seen' = seen
  BY <1>2 DEF PushesOnly
<1>7. (steps + 1) + (Len(queue) - 1) <= Cardinality(seen) + 1
  BY <1>4, <1>5
<1>8. QED  BY <1>3, <1>5, <1>6, <1>7 DEF PaidFor

\* Every push step is paid for, or queues a section.
LEMMA PushStepPaid ==
  ASSUME TypeOK, PaidFor, PushIdle \/ PushReady \/ PushConflicted
  PROVE  \/ PaidFor' /\ UNCHANGED sections
         \/ modes[Head(queue).node] = "Stabilizing" /\ sections' # <<>>
<1> DEFINE n == Head(queue).node
           subs == {s \in OpenSubs(n, demanded) : <<n, s>> \notin {}}
<1>1. Step("Push") /\ sections \in Seq(SUBSET Uid)
  BY DEF PushIdle, PushReady, PushReadyTo, PushConflicted, PushConflictedTo, TypeOK
<1>2. CASE queue' = Tail(queue) /\ UNCHANGED <<seen, sections>>
  BY <1>1, <1>2, TakePaid
<1>3. CASE PushSubs(n, subs, Tail(queue), seen) /\ UNCHANGED sections
  BY <1>1, <1>3, PushPaid
<1>4. CASE /\ modes[n] = "Stabilizing"
           /\ sections' = Append(sections, ToSet(ordered[n]) \cup {n})
  BY <1>1, <1>4, AppendNotEmpty
<1>5. CASE PushIdle
  BY <1>2, <1>5 DEF PushIdle
<1>6. CASE PushReady
  BY <1>2, <1>3, <1>6 DEF PushReady, PushReadyTo
<1>7. CASE PushConflicted
  BY <1>2, <1>3, <1>4, <1>7 DEF PushConflicted, PushConflictedTo
<1>8. QED  BY <1>5, <1>6, <1>7

\* The step limit is not reached: every step was paid for.
LEMMA LimitFar ==
  ASSUME TypeOK, PaidFor, MaxSteps > Cardinality(Uid \X Uid), queue # <<>>
  PROVE  steps < MaxSteps
<1>1. queue \in Seq(WorkItem)
  BY DEF TypeOK
<1>2. Len(queue) \in Nat /\ Len(queue) # 0
  BY <1>1, EmptySeq, LenProperties
<1>3. /\ Cardinality(seen) \in Nat /\ Cardinality(seen) <= Cardinality(Uid \X Uid)
      /\ Cardinality(Uid \X Uid) \in Nat
  BY PairsFinite DEF TypeOK
<1>4. steps \in Nat /\ MaxSteps \in Nat
  BY EngineAssumption DEF TypeOK, EngineAssumption
<1>5. steps + Len(queue) <= Cardinality(seen) + 1
  BY DEF PaidFor
<1>6. QED  BY <1>2, <1>3, <1>4, <1>5

\* A drain that is paid for holds pushes only.
LEMMA NoOtherWork ==
  ASSUME TypeOK, PaidFor, Step("Demand") \/ Step("Stabilize")
  PROVE  FALSE
<1>1. queue # <<>> /\ queue \in Seq(WorkItem)
  BY DEF Step, TakesItem, TypeOK
<1>2. Head(queue).op = "Push"
  BY <1>1, TailCount DEF PaidFor
<1>3. QED  BY <1>2 DEF Step

LEMMA WorkPaid ==
  ASSUME TypeOK, WorkInv, EagerOnly, Work
  PROVE  WorkInv'
<1>0. modes \in [Uid -> ExecMode] /\ AllEager
  BY DEF TypeOK, WorkInv
<1>1. CASE DropEdge
  BY <1>0, <1>1, QuietPaid DEF DropEdge, AllEager, propVars, control
<1>2. CASE DropNode
  <2>1. AllEager'
    BY <1>0, <1>2 DEF DropNode, RemoveNode, AllEager
  <2>2. QED  BY <1>2, <2>1, QuietPaid DEF DropNode, propVars
<1>3. CASE PushIdle \/ PushReady \/ PushConflicted
  <2>1. pc = "drain" /\ UNCHANGED <<pc, modes>>
    BY <1>3 DEF PushIdle, PushReady, PushReadyTo, PushConflicted, PushConflictedTo, Step, TakesItem,
                control
  <2>2. modes[Head(queue).node] # "Stabilizing"
    <3>1. Head(queue).node \in Uid
      BY <1>3, <2>1, HeadOfPushes DEF WorkInv, PaidFor, PushIdle, PushReady, PushReadyTo,
         PushConflicted, PushConflictedTo, Step, TakesItem
    <3>2. QED  BY <1>0, <3>1 DEF AllEager
  <2>3. PaidFor' /\ UNCHANGED sections
    BY <1>3, <2>1, <2>2, PushStepPaid DEF WorkInv
  <2>4. QED  BY <2>1, <2>3 DEF WorkInv, AllEager
<1>6. ASSUME Step("Demand") \/ Step("Stabilize") PROVE FALSE
  BY <1>6, NoOtherWork DEF Step, TakesItem, WorkInv
<1>7. CASE StepLimit
  <2>1. steps \in Nat /\ MaxSteps \in Nat
    BY EngineAssumption DEF TypeOK, EngineAssumption
  <2>2. QED  BY <1>7, <2>1, LimitFar DEF StepLimit, WorkInv, EagerOnly
<1>8. CASE DrainEnds
  BY <1>0, <1>8 DEF DrainEnds, WorkInv, AllEager, depVars
<1>9. CASE StabilizeSection \/ DrainAgain
  BY <1>9 DEF StabilizeSection, DrainAgain, WorkInv
<1>10. QED
  BY <1>1, <1>2, <1>3, <1>6, <1>7, <1>8, <1>9 DEF Work, StepDemand, StepStabilize

LEMMA InitPaid ==
  ASSUME Init, EagerOnly
  PROVE  WorkInv
<1>1. PICK t \in Topologies : InitTopology(t)
  BY DEF Init
<1>2. AllEager
  BY <1>1 DEF InitTopology, AllEager, EagerOnly
<1>3. QED  BY <1>2 DEF Init, Fresh, WorkInv

\* WorkInv holds throughout, while all nodes are Eager.
LEMMA WorkInvariance ==
  ASSUME EagerOnly
  PROVE  Spec => []WorkInv
<1>1. Init => WorkInv
  BY InitPaid
<1>2. TypeOK /\ WorkInv /\ [Next]_vars => WorkInv'
  <2>1. TypeOK /\ WorkInv /\ Next => WorkInv'
    BY CallPaid, WorkPaid DEF Next
  <2>2. WorkInv /\ UNCHANGED vars => WorkInv'
    BY DEF vars, depVars, propVars, control, WorkInv, PaidFor, PushesOnly, AllEager
  <2>3. QED  BY <2>1, <2>2
<1>3. QED  BY <1>1, <1>2, TypeCorrect, PTL DEF Spec

\* The gates, and not the step limit, end a propagation (PropEngine::drain):
\* while all nodes are Eager, a drain's steps and queued items never exceed
\* the pairs whose gates it has closed by more than one.
THEOREM EagerWorkIsBounded ==
  ASSUME EagerOnly
  PROVE  Spec => []WorkBounded
<1>1. WorkInv => WorkBounded
  <2>1. seen \subseteq pairs => seen \cap pairs = seen
    OBVIOUS
  <2>2. QED  BY <2>1 DEF WorkInv, PaidFor, WorkBounded
<1>2. QED  BY <1>1, WorkInvariance, PTL

\* StepLimitExceeded is unreachable then, on cyclic graphs too.
THEOREM EagerDrainsEnd ==
  ASSUME EagerOnly
  PROVE  Spec => [](pc = "drain" /\ queue # <<>> => steps < MaxSteps)
<1>1. TypeOK /\ WorkInv => (pc = "drain" /\ queue # <<>> => steps < MaxSteps)
  BY LimitFar DEF WorkInv, EagerOnly
<1>2. QED  BY <1>1, WorkInvariance, TypeCorrect, PTL

-----------------------------------------------------------------------------
(* Drains whatever the modes *)

\* Until a section is queued, the work of a drain that has demanded nothing is
\* paid for by its gates, or is the demand it starts with.
Metered ==
  /\ sections = <<>> /\ pc # "stabilize"
  /\ pc # "drain" /\ demanded = {} => queue = <<>>
  /\ pc = "drain" /\ demanded = {} =>
       PaidFor \/ (steps = 0 /\ \E n \in Uid : queue = <<DemandItem(n)>>)

MeterInv == stabilizer = "unused" => Metered

\* An operation that starts no drain.
LEMMA QuietMetered ==
  ASSUME Metered, pc # "drain", UNCHANGED <<queue, sections, demanded>>,
         pc' \in {"idle", "delete"}
  PROVE  Metered'
  BY DEF Metered

LEMMA StartMetered ==
  ASSUME TypeOK, Metered, pc = "idle", NEW n \in Uid,
         \/ \E v : WriteAndPush(n, v)
         \/ Request(PushItem(n))
         \/ Request(DemandItem(n))
  PROVE  Metered'
<1>1. pc' = "drain" /\ steps' = 0 /\ UNCHANGED <<sections, demanded>>
  BY DEF WriteAndPush, Request, StartDrain
<1>2. CASE demanded # {}
  BY <1>1, <1>2 DEF Metered
<1>3. CASE demanded = {}
  <2>1. queue = <<>>
    BY <1>3 DEF Metered
  <2>2. PaidFor' \/ Request(DemandItem(n))
    BY <2>1, WriteAndPushPaid, RequestPaid, EmptySeq
  <2>3. Request(DemandItem(n)) => queue' = <<DemandItem(n)>>
    BY <2>1 DEF Request
  <2>4. QED  BY <1>1, <2>2, <2>3 DEF Metered
<1>4. QED  BY <1>2, <1>3

LEMMA NothingQueued ==
  ASSUME NEW order \in [1 .. 0 -> {}]
  PROVE  <<>> \o [i \in DOMAIN order |-> PushItem(order[i][2])] = <<>>
<1> DEFINE new == [i \in DOMAIN order |-> PushItem(order[i][2])]
<1>1. new \in [1 .. 0 -> WorkItem] /\ DOMAIN new = 1 .. 0
  OBVIOUS
<1>2. new \in Seq(WorkItem)
  BY <1>1, FunctionIsSeq
<1> HIDE DEF new
<1>3. Len(new) = 0
  BY <1>1, <1>2, LenOfDomain
<1>4. <<>> \in Seq(WorkItem) /\ Len(<<>>) = 0
  BY EmptySeq
<1>5. <<>> \o new \in Seq(WorkItem) /\ Len(<<>> \o new) = 0
  BY <1>2, <1>3, <1>4, ConcatProperties
<1>6. QED  BY <1>5, EmptySeq DEF new

\* An operation that stabilizes queues nothing unless it resolves its section.
LEMMA StabilizeMetered ==
  ASSUME TypeOK, Metered, pc = "idle", NEW seeds, Stabilize(seeds), ~Resolves
  PROVE  Metered'
<1>1. UNCHANGED <<pc, value, sections, demanded>>
  BY StabilizesQuietly DEF Stabilize, control
<1>2. CASE Unresolved
  BY <1>1, <1>2, QuietMetered DEF Unresolved
<1>3. CASE demanded # {}
  BY <1>1, <1>3 DEF Metered
<1>4. ASSUME NEW M \in SectionRegions(seeds), NEW v \in T, Resolve(M, v), demanded = {}
      PROVE  Metered'
  <2> DEFINE zero == {m \in M : value[m] = "Zero"}
             open == {p \in pairs \ seen : p[1] \in zero /\ modes[p[2]] = "Eager"}
             lex(p, q) == p[1] < q[1] \/ (p[1] = q[1] /\ p[2] < q[2])
  <2>1. v # "Zero" /\ value' = [n \in Uid |-> IF n \in zero THEN v ELSE value[n]]
    BY <1>4 DEF Resolve, MayResolve
  <2>2. zero = {}
    BY <1>1, <2>1 DEF SectionRegions, Live
  <2>3. open = {}
    BY <2>2
  <2>4. PICK order \in InOrder(open, lex) :
           queue' = queue \o [i \in DOMAIN order |-> PushItem(order[i][2])]
    BY <1>4 DEF Resolve
  <2>5. order \in [1 .. 0 -> {}]
    <3>1. order \in [1 .. Cardinality(open) -> open]
      BY <2>4 DEF InOrder
    <3>2. QED  BY <2>3, <3>1, FS_EmptySet
  <2>6. queue = <<>>
    BY <1>4 DEF Metered
  <2>8. queue' = <<>>
    BY <2>4, <2>5, <2>6, NothingQueued
  <2>9. QED  BY <1>1, <2>8 DEF Metered
<1>5. QED  BY <1>2, <1>3, <1>4 DEF Stabilize

LEMMA CallMetered ==
  ASSUME TypeOK, Metered, Call, ~Resolves
  PROVE  Metered'
<1>1. pc = "idle"
  BY DEF Call
<1>2. PICK c \in Calls : Apply(c)
  BY DEF Call
<1>3. c \in IsaOp
  BY <1>2, EngineAssumption DEF EngineAssumption
<1>4. CASE \/ c.op = "NodeCreate" /\ NodeCreate(c.node, c.kind)
           \/ c.op = "EdgeConnect" /\ EdgeConnect(c.edge)
           \/ c.op = "Subscribe" /\ SubscribeOp(c.src, c.sub)
           \/ c.op = "DelEdge" /\ DelEdge(c.id)
           \/ c.op = "DelNode" /\ DelNode(c.node)
           \/ c.op = "SetMode" /\ SetMode(c.node, c.mode)
           \/ c.op = "Reflect" /\ ReflectMissing(c.node)
  <2>1. /\ UNCHANGED <<queue, sections, demanded>>
        /\ UNCHANGED pc \/ pc' = "delete"
    BY <1>4 DEF NodeCreate, EdgeConnect, SubscribeOp, DelEdge, DelNode, SetMode, ReflectMissing,
                propVars, control
  <2>2. QED  BY <1>1, <2>1, QuietMetered
<1>5. CASE \/ c.op = "SetValue" /\ SetValue(c.node, c.val)
           \/ c.op = "Reflect" /\ Reflect(c.node)
  BY <1>1, <1>5, StartMetered DEF SetValue, Reflect, WriteAndPush, Live
<1>6. CASE \/ c.op = "Propagate" /\ Request(PushItem(c.node))
           \/ c.op = "Demand" /\ Request(DemandItem(c.node))
  <2>1. c.node \in Uid
    BY <1>3, <1>6, OperandType
  <2>2. QED  BY <1>1, <1>6, <2>1, StartMetered
<1>7. CASE \/ c.op = "Stabilize" /\ Stabilize(c.region)
           \/ c.op = "StabilizeAll" /\ Stabilize(ZeroNodes)
  BY <1>1, <1>7, StabilizeMetered
<1>8. QED
  BY <1>2, <1>4, <1>5, <1>6, <1>7 DEF Apply

LEMMA WorkMetered ==
  ASSUME TypeOK, Metered, Work, MaxSteps > Cardinality(Uid \X Uid), sections' = <<>>
  PROVE  Metered'
<1>1. CASE DropEdge
  BY <1>1, QuietMetered DEF DropEdge, propVars, control
<1>2. CASE DropNode
  BY <1>2, QuietMetered DEF DropNode, propVars
<1>3. CASE PushIdle \/ PushReady \/ PushConflicted
  <2>1. pc = "drain" /\ UNCHANGED <<pc, demanded>> /\ Step("Push")
    BY <1>3 DEF PushIdle, PushReady, PushReadyTo, PushConflicted, PushConflictedTo, Step, TakesItem,
                control
  <2>2. CASE demanded # {}
    BY <2>1, <2>2 DEF Metered
  <2>3. CASE demanded = {}
    <3>1. PaidFor
      <4>1. ASSUME NEW n \in Uid, queue = <<DemandItem(n)>> PROVE FALSE
        BY <2>1, <4>1 DEF Step, DemandItem
      <4>2. QED  BY <2>1, <2>3, <4>1 DEF Metered
    <3>2. PaidFor'
      BY <1>3, <3>1, PushStepPaid
    <3>3. QED  BY <2>1, <3>2 DEF Metered
  <2>4. QED  BY <2>2, <2>3
<1>4. CASE StepDemand
  <2>1. pc' = "drain" /\ demanded' # {}
    BY <1>4 DEF StepDemand, Step, TakesItem, control
  <2>2. QED  BY <2>1 DEF Metered
<1>5. CASE StepStabilize
  <2>1. sections' = Append(sections, Head(queue).region) /\ sections \in Seq(SUBSET Uid)
    BY <1>5 DEF StepStabilize, TypeOK
  <2>2. QED  BY <2>1, AppendNotEmpty
<1>6. CASE StepLimit
  <2>1. pc = "drain" /\ queue # <<>> /\ ~(steps < MaxSteps) /\ pc' = "idle" /\ UNCHANGED demanded
    BY <1>6, EngineAssumption DEF StepLimit, TypeOK, EngineAssumption
  <2>2. demanded # {}
    <3>1. 0 < MaxSteps
      BY PairsFinite, EngineAssumption DEF EngineAssumption
    <3>2. QED  BY <2>1, <3>1, LimitFar DEF Metered
  <2>3. QED  BY <2>1, <2>2 DEF Metered
<1>7. CASE DrainEnds
  <2>1. pc' = "idle" /\ queue' = <<>>
    BY <1>7 DEF DrainEnds, Metered
  <2>2. QED  BY <2>1 DEF Metered
<1>8. CASE StabilizeSection \/ DrainAgain
  BY <1>8 DEF StabilizeSection, DrainAgain, Metered
<1>9. QED
  BY <1>1, <1>2, <1>3, <1>4, <1>5, <1>6, <1>7, <1>8 DEF Work

\* The gates bound a drain whatever the modes of the nodes, until a section is
\* queued or a node demanded (PropEngine::drain): Lazy nodes are left out of
\* the wave, and a refused one costs a step that was paid for.
THEOREM WorkIsMetered ==
  ASSUME MaxSteps > Cardinality(Uid \X Uid)
  PROVE  TracedSpec => []WorkUntilQueued
<1> DEFINE Inv == IInv /\ MeterInv
<1>1. Init => Inv
  <2>1. Init => Metered
    BY DEF Init, Fresh, Metered
  <2>2. QED  BY <2>1, InitHolds DEF MeterInv
<1>2. Inv /\ [Next /\ Traces]_<<vars, stabilizer>> => Inv'
  <2>1. ASSUME TypeOK, MeterInv, Next, Traces, stabilizer' = "unused" PROVE Metered'
    <3>1. stabilizer = "unused" /\ ~Resolves /\ sections' = <<>>
      BY <2>1 DEF Traces
    <3>2. QED  BY <2>1, <3>1, CallMetered, WorkMetered DEF Next, MeterInv
  <2>2. ASSUME MeterInv, UNCHANGED <<vars, stabilizer>> PROVE MeterInv'
    BY <2>2 DEF vars, depVars, propVars, control, MeterInv, Metered, PaidFor, PushesOnly
  <2>3. IInv /\ [Next /\ Traces]_<<vars, stabilizer>> => IInv'
    BY NextKeeps
  <2>4. QED  BY <2>1, <2>2, <2>3 DEF MeterInv, IInv
<1>3. Inv => WorkUntilQueued
  <2>1. ASSUME Inv, stabilizer = "unused", demanded = {}, pc = "drain" PROVE WorkBounded
    <3>1. CASE PaidFor
      <4>1. seen \cap pairs = seen
        BY <3>1 DEF PaidFor
      <4>2. QED  BY <3>1, <4>1 DEF PaidFor, WorkBounded
    <3>2. ASSUME NEW n \in Uid, steps = 0, queue = <<DemandItem(n)>> PROVE WorkBounded
      <4>1. Len(queue) = 1 /\ Cardinality(seen \cap pairs) \in Nat
        BY <2>1, <3>2, PairsFinite DEF IInv, TypeOK
      <4>2. QED  BY <3>2, <4>1 DEF WorkBounded
    <3>3. QED  BY <2>1, <3>1, <3>2 DEF MeterInv, Metered
  <2>2. QED  BY <2>1 DEF WorkUntilQueued, WorkBounded
<1>4. QED  BY <1>1, <1>2, <1>3, PTL DEF TracedSpec

-----------------------------------------------------------------------------
(* What the stabilizer clears *)

\* A deleted node, or one not created yet, shows Neg.
AbsentNeg == \A n \in Uid : kind[n] = Absent => value[n] = "Neg"

\* What the seeds reach holds, with a node, its Zero dependencies.
LEMMA ReachClosed ==
  ASSUME NEW N, NEW seeds, NEW n \in Reach(N, seeds), NEW d \in Deps(n) \cap N, value[d] = "Zero"
  PROVE  d \in Reach(N, seeds)
  BY DEF Reach, ClosedIn

\* What the seeds reach within fewer nodes, they reach.
LEMMA ReachMonotone ==
  ASSUME NEW N, NEW M \in SUBSET N, NEW seeds, M = Reach(M, seeds)
  PROVE  M \subseteq Reach(N, seeds)
<1> SUFFICES ASSUME NEW m \in M, NEW S \in SUBSET N, ClosedIn(N, S, seeds)
             PROVE  m \in S
  BY DEF Reach
<1>1. S \cap M \in SUBSET M /\ ClosedIn(M, S \cap M, seeds)
  BY DEF ClosedIn
<1>2. m \in Reach(M, seeds)
  OBVIOUS
<1>3. QED  BY <1>1, <1>2 DEF Reach

\* A section with a Zero dependency outside was cut off: the seeds reach more
\* nodes than it may have.
LEMMA CutOff ==
  ASSUME NEW seeds, NEW M \in SectionRegions(seeds), NEW n \in M,
         NEW d \in Deps(n) \cap Live, value[d] = "Zero", d \notin M
  PROVE  Cardinality(Reach(Live, seeds)) > MaxMembers
<1> DEFINE R == Reach(Live, seeds)
<1>1. M \subseteq R
  BY ReachMonotone DEF SectionRegions
<1>2. d \in R
  BY <1>1, ReachClosed
<1>3. IsFiniteSet(R) /\ R \subseteq Uid
  BY FS_Subset, EngineAssumption DEF EngineAssumption, Reach, Live
<1>4. IsFiniteSet(M) /\ Cardinality(M) \in Nat /\ Cardinality(R) \in Nat
  BY <1>1, <1>3, FS_Subset, FS_CardinalityType
<1>5. Cardinality(M) <= Cardinality(R) /\ (Cardinality(M) = Cardinality(R) => M = R)
  BY <1>1, <1>3, FS_Subset
<1>6. M # R
  BY <1>2
<1>7. ~(Cardinality(M) < MaxMembers)
  BY <1>6 DEF SectionRegions
<1> HIDE DEF R
<1>8. Cardinality(R) > MaxMembers
  BY <1>4, <1>5, <1>6, <1>7, EngineAssumption DEF EngineAssumption
<1>9. QED  BY <1>8 DEF R

\* A resolved section that was not cut off leaves no member with a Zero
\* dependency.
LEMMA ResolveClears ==
  ASSUME TypeOK, NEW seeds, NEW M \in SectionRegions(seeds), NEW v \in T, Resolve(M, v),
         Cardinality(Reach(Live, seeds)) <= MaxMembers,
         NEW n \in Uid, value[n] = "Zero", value'[n] # "Zero", NEW d \in Deps(n) \cap Live
  PROVE  value'[d] # "Zero"
<1> DEFINE zero == {m \in M : value[m] = "Zero"}
<1>1. value' = [m \in Uid |-> IF m \in zero THEN v ELSE value[m]] /\ v \in {"Neg", "Pos"}
  BY Zenon DEF Resolve, MayResolve
<1>2. n \in M
  BY <1>1
<1>3. d \in Uid
  BY DEF Deps
<1>4. CASE value[d] = "Zero"
  <2>0. Cardinality(Reach(Live, seeds)) \in Nat
    BY FS_Subset, FS_CardinalityType, EngineAssumption DEF EngineAssumption, Reach, Live
  <2>1. d \in zero
    BY <1>2, <1>4, <2>0, CutOff, EngineAssumption DEF EngineAssumption
  <2>2. QED  BY <1>1, <1>3, <2>1
<1>5. CASE value[d] # "Zero"
  BY <1>1, <1>3, <1>5
<1>6. QED  BY <1>4, <1>5

\* Only live nodes are written, created or resolved.
LEMMA NextAbsent ==
  ASSUME TypeOK, AbsentNeg, Next
  PROVE  AbsentNeg'
<1>0. kind \in [Uid -> Kind \cup {Absent}] /\ value \in [Uid -> T]
  BY DEF TypeOK
<1>1. ASSUME UNCHANGED <<kind, value>> PROVE AbsentNeg'
  BY <1>1 DEF AbsentNeg
<1>2. ASSUME NEW n \in Live, NEW v, Write(n, v), UNCHANGED kind PROVE AbsentNeg'
  BY <1>0, <1>2 DEF Write, AbsentNeg, Live
<1>3. ASSUME NEW seeds, NEW M \in SectionRegions(seeds), NEW v \in T, Resolve(M, v), UNCHANGED kind
      PROVE  AbsentNeg'
  <2> DEFINE zero == {m \in M : value[m] = "Zero"}
  <2>1. value' = [m \in Uid |-> IF m \in zero THEN v ELSE value[m]]
    BY <1>3, Zenon DEF Resolve
  <2>2. zero \subseteq Live
    BY DEF SectionRegions
  <2>3. QED  BY <1>3, <2>1, <2>2 DEF AbsentNeg, Live
<1>4. CASE Call
  <2>1. PICK c \in IsaOp : Apply(c)
    BY <1>4, EngineAssumption DEF Call, EngineAssumption
  <2>2. CASE c.op = "NodeCreate" /\ NodeCreate(c.node, c.kind)
    <3>1. /\ c.node \in Uid
          /\ kind' = [kind EXCEPT ![c.node] = c.kind]
          /\ value' = [value EXCEPT ![c.node] = "Neg"]
      BY <2>1, <2>2, OperandType DEF NodeCreate
    <3>2. QED  BY <1>0, <3>1 DEF AbsentNeg
  <2>3. CASE \/ c.op = "SetValue" /\ SetValue(c.node, c.val)
             \/ c.op = "Reflect" /\ Reflect(c.node)
    BY <1>2, <2>3 DEF SetValue, Reflect, WriteAndPush
  <2>4. ASSUME NEW seeds, Stabilize(seeds) PROVE AbsentNeg'
    BY <1>1, <1>3, <2>4 DEF Stabilize, Unresolved
  <2>5. CASE \/ c.op = "EdgeConnect" /\ EdgeConnect(c.edge)
             \/ c.op = "Subscribe" /\ SubscribeOp(c.src, c.sub)
             \/ c.op = "Propagate" /\ Request(PushItem(c.node))
             \/ c.op = "DelNode" /\ DelNode(c.node)
             \/ c.op = "DelEdge" /\ DelEdge(c.id)
             \/ c.op = "Demand" /\ Request(DemandItem(c.node))
             \/ c.op = "SetMode" /\ SetMode(c.node, c.mode)
             \/ c.op = "Reflect" /\ ReflectMissing(c.node)
    <3>1. UNCHANGED <<kind, value>>
      BY <2>5 DEF EdgeConnect, SubscribeOp, Request, DelNode, DelEdge, SetMode, ReflectMissing,
                  graphVars
    <3>2. QED  BY <1>1, <3>1
  <2>6. QED  BY <2>1, <2>2, <2>3, <2>4, <2>5 DEF Apply
<1>5. CASE DropNode
  <2>1. PICK n \in victim : /\ kind' = [kind EXCEPT ![n] = Absent]
                            /\ value' = [value EXCEPT ![n] = "Neg"]
    BY <1>5 DEF DropNode
  <2>2. QED  BY <1>0, <2>1 DEF AbsentNeg
<1>6. CASE PushReady \/ PushConflicted
  <2> DEFINE n == Head(queue).node
  <2>1. UNCHANGED kind
    BY <1>6 DEF PushReady, PushReadyTo, PushConflicted, PushConflictedTo, Step
  <2>2. UNCHANGED value \/ (n \in Live /\ \E v : Write(n, v))
    BY <1>6 DEF PushReady, PushReadyTo, PushConflicted, PushConflictedTo, Computes
  <2>3. QED  BY <1>1, <1>2, <2>1, <2>2
<1>7. CASE StabilizeSection
  BY <1>1, <1>3, <1>7 DEF StabilizeSection, Unresolved
<1>8. CASE \/ DropEdge \/ PushIdle \/ StepDemand \/ StepStabilize
           \/ StepLimit \/ DrainEnds \/ DrainAgain
  <2>1. UNCHANGED <<kind, value>>
    BY <1>8 DEF DropEdge, PushIdle, StepDemand, StepStabilize, Step, StepLimit, DrainEnds, DrainAgain,
                graphVars
  <2>2. QED  BY <1>1, <2>1
<1>9. QED  BY <1>4, <1>5, <1>6, <1>7, <1>8 DEF Next, Work

\* A step that clears a conflict outside drains and deletions resolves a section.
LEMMA ClearingResolves ==
  ASSUME TypeOK, AbsentNeg, Disciplined, Next, NEW n \in Uid, value[n] = "Zero", value'[n] # "Zero",
         pc' # "drain", pc # "delete"
  PROVE  \E seeds \in Sought : \E M \in SectionRegions(seeds), v \in T : Resolve(M, v)
<1>1. value' # value /\ value \in [Uid -> T]
  BY DEF TypeOK
<1>2. CASE Call
  <2>0. PICK c \in Calls : Apply(c)
    BY <1>2 DEF Call
  <2>1. c \in IsaOp /\ Apply(c)
    BY <2>0, EngineAssumption DEF EngineAssumption
  <2>2. ~(c.op = "NodeCreate" /\ NodeCreate(c.node, c.kind))
    <3> SUFFICES ASSUME c.op = "NodeCreate", NodeCreate(c.node, c.kind) PROVE FALSE
      OBVIOUS
    <3>1. c.node \notin Live /\ c.node \in Uid /\ value' = [value EXCEPT ![c.node] = "Neg"]
      BY <2>1, OperandType DEF NodeCreate
    <3>2. value[c.node] = "Neg"
      BY <3>1 DEF AbsentNeg, Live
    <3>3. QED  BY <1>1, <3>1, <3>2
  <2>3. \A node, v : ~WriteAndPush(node, v)
    BY DEF WriteAndPush, StartDrain
  <2>4. ~UNCHANGED value
    BY <1>1
  <2>5. ASSUME NEW seeds, Stabilize(seeds)
        PROVE  \E M \in SectionRegions(seeds), v \in T : Resolve(M, v)
    BY <2>4, <2>5 DEF Stabilize, Unresolved
  <2>6. ZeroNodes \in Sought /\ (c.op = "Stabilize" => c.region \in Sought)
    BY <1>2 DEF Call, Sought
  <2>7. QED
    BY <2>1, <2>2, <2>3, <2>4, <2>5, <2>6
    DEF Apply, EdgeConnect, SubscribeOp, SetValue, Reflect, ReflectMissing, Request, DelNode, DelEdge,
        SetMode, graphVars
<1>3. CASE StabilizeSection
  BY <1>1, <1>3 DEF StabilizeSection, Unresolved, Sought
<1>4. CASE \/ PushIdle \/ PushReady \/ PushConflicted \/ StepDemand \/ StepStabilize
  <2>1. pc = "drain" /\ UNCHANGED pc
    BY <1>4 DEF PushIdle, PushReady, PushReadyTo, PushConflicted, PushConflictedTo, StepDemand,
                StepStabilize, Step, TakesItem, control
  <2>2. QED  BY <2>1
<1>5. CASE DropEdge \/ DropNode
  BY <1>5 DEF DropEdge, DropNode
<1>6. CASE StepLimit \/ DrainEnds \/ DrainAgain
  BY <1>1, <1>6 DEF StepLimit, DrainEnds, DrainAgain, graphVars
<1>7. QED  BY <1>2, <1>3, <1>4, <1>5, <1>6 DEF Next, Work

\* The stabilizer takes a conflict away with all of its cause or not at all
\* (stabilize_section), on any graph, with any budget of members and for any
\* answer of the e-graph, unless what its seeds reach exceeds the budget; when
\* callers do not create over a live node.
THEOREM ConflictsClearedWhole ==
  ASSUME Disciplined
  PROVE  Spec => ClearsWholeConflicts
<1>1. Init => AbsentNeg
  BY DEF Init, Fresh, AbsentNeg
<1>2. TypeOK /\ AbsentNeg /\ [Next]_vars => AbsentNeg'
  <2>1. AbsentNeg /\ UNCHANGED vars => AbsentNeg'
    BY DEF AbsentNeg, vars, graphVars
  <2>2. QED  BY <2>1, NextAbsent
<1>3. Spec => []AbsentNeg
  BY <1>1, <1>2, TypeCorrect, PTL DEF Spec
<1> DEFINE Clears ==
      \A n \in Uid : value[n] = "Zero" /\ value'[n] # "Zero" /\ pc' # "drain"
       /\ kind'[n] \in Rules /\ pc # "delete" =>
         \/ \A d \in Deps(n) \cap Live : value'[d] # "Zero"
         \/ \E seeds \in Sought : Cardinality(Reach(Live, seeds)) > MaxMembers
<1>4. TypeOK /\ AbsentNeg /\ Next => Clears
  <2> SUFFICES ASSUME TypeOK, AbsentNeg, Next, NEW n \in Uid, value[n] = "Zero", value'[n] # "Zero",
                      pc' # "drain", pc # "delete", NEW d \in Deps(n) \cap Live,
                      \A seeds \in Sought : ~(Cardinality(Reach(Live, seeds)) > MaxMembers)
               PROVE  value'[d] # "Zero"
    OBVIOUS
  <2>1. PICK seeds \in Sought : \E M \in SectionRegions(seeds), v \in T : Resolve(M, v)
    BY ClearingResolves
  <2>2. PICK M \in SectionRegions(seeds), v \in T : Resolve(M, v)
    BY <2>1
  <2>3. Cardinality(Reach(Live, seeds)) \in Nat
    BY FS_Subset, FS_CardinalityType, EngineAssumption DEF EngineAssumption, Reach, Live
  <2>4. Cardinality(Reach(Live, seeds)) <= MaxMembers
    BY <2>1, <2>3, EngineAssumption DEF EngineAssumption
  <2>5. QED  BY <2>2, <2>4, ResolveClears
<1>5. TypeOK /\ AbsentNeg /\ [Next]_vars => [Clears]_vars
  BY <1>4
<1>6. ClearsWholeConflicts <=> [][Clears]_vars
  BY DEF ClearsWholeConflicts
<1>7. QED  BY <1>3, <1>5, <1>6, TypeCorrect, PTL DEF Spec

-----------------------------------------------------------------------------
(* What Lazy nodes wait for *)

\* Nothing but a demand asks for a node, and no call makes a node Lazy: it is
\* Lazy from the start.
OnlyDemanded ==
  \A c \in Calls : /\ c.op # "Propagate"
                   /\ c.op = "SetMode" => c.mode # "Lazy"
                   /\ c.op = "EdgeConnect" => c.edge.port # "Effort"

\* The items that push no Lazy node but a demanded one.
Wanted == {item \in WorkItem :
             item.op = "Push" /\ modes[item.node] = "Lazy" => item.node \in demanded}

LazyInv == queue \in Seq(Wanted)

\* Items stay wanted while no node becomes Lazy and no demand is dropped.
LEMMA WantedGrows ==
  ASSUME NEW q \in Seq(Wanted), demanded \subseteq demanded',
         \A n \in Uid : modes'[n] = "Lazy" => modes[n] = "Lazy"
  PROVE  q \in Seq(Wanted')
<1>1. ASSUME NEW item \in Wanted PROVE item \in Wanted'
  <2>1. item.op = "Push" => item.node \in Uid
    BY DEF Wanted, WorkItem
  <2>2. QED  BY <2>1 DEF Wanted
<1>2. Wanted \subseteq Wanted'
  BY <1>1
<1>3. QED  BY <1>2, SeqMonotonic

\* Subscribers that are Eager or demanded, in any order.
LEMMA WantedItems ==
  ASSUME NEW S \in SUBSET Uid, NEW k \in Nat, NEW q \in [1 .. k -> S],
         \A s \in S : modes[s] # "Lazy" \/ s \in demanded
  PROVE  [i \in DOMAIN q |-> PushItem(q[i])] \in Seq(Wanted)
<1>1. [i \in DOMAIN q |-> PushItem(q[i])] \in [1 .. k -> Wanted]
  BY DEF PushItem, WorkItem, Wanted
<1>2. QED  BY <1>1, FunctionIsSeq

LEMMA PushSubsWanted ==
  ASSUME NEW n, NEW S \in SUBSET Uid, NEW q \in Seq(Wanted), NEW shut, PushSubs(n, S, q, shut),
         \A s \in S : modes[s] # "Lazy" \/ s \in demanded
  PROVE  queue' \in Seq(Wanted)
<1>1. PICK subs \in [1 .. Cardinality(S) -> S] :
        queue' = q \o [i \in DOMAIN subs |-> PushItem(subs[i])]
  BY DEF PushSubs, InOrder
<1>2. Cardinality(S) \in Nat
  BY FS_Subset, FS_CardinalityType, EngineAssumption DEF EngineAssumption
<1>3. [i \in DOMAIN subs |-> PushItem(subs[i])] \in Seq(Wanted)
  BY <1>2, WantedItems
<1>4. QED  BY <1>1, <1>3, ConcatProperties

\* A resolved section queues Eager subscribers.
LEMMA ResolveWanted ==
  ASSUME TypeOK, LazyInv, NEW M, NEW v, Resolve(M, v)
  PROVE  queue' \in Seq(Wanted)
<1> DEFINE zero == {m \in M : value[m] = "Zero"}
           open == {p \in pairs \ seen : p[1] \in zero /\ modes[p[2]] = "Eager"}
<1>1. PICK order \in [1 .. Cardinality(open) -> open] :
        queue' = queue \o [i \in DOMAIN order |-> PushItem(order[i][2])]
  BY Zenon DEF Resolve, InOrder
<1>2. open \subseteq Uid \X Uid
  BY DEF TypeOK
<1>3. Cardinality(open) \in Nat
  <2>1. IsFiniteSet(Uid \X Uid)
    BY FS_Product, EngineAssumption DEF EngineAssumption
  <2>2. QED  BY <1>2, <2>1, FS_Subset, FS_CardinalityType
<1>4. \A p \in open : p[2] \in Uid /\ modes[p[2]] = "Eager"
  BY <1>2
<1>5. [i \in DOMAIN order |-> PushItem(order[i][2])] \in [1 .. Cardinality(open) -> Wanted]
  BY <1>4 DEF PushItem, WorkItem, Wanted
<1>6. [i \in DOMAIN order |-> PushItem(order[i][2])] \in Seq(Wanted)
  BY <1>3, <1>5, FunctionIsSeq
<1>7. QED  BY <1>1, <1>6, ConcatProperties DEF LazyInv

LEMMA CallWanted ==
  ASSUME TypeOK, LazyInv, OnlyDemanded, Call
  PROVE  LazyInv'
<1>0. modes \in [Uid -> ExecMode] /\ queue \in Seq(Wanted)
  BY DEF TypeOK, LazyInv
<1>1. PICK c \in Calls : Apply(c)
  BY DEF Call
<1>2. /\ c \in IsaOp /\ c.op # "Propagate"
      /\ c.op = "SetMode" => c.mode # "Lazy"
      /\ c.op = "EdgeConnect" => c.edge.port # "Effort"
  BY EngineAssumption DEF EngineAssumption, OnlyDemanded
<1>3. ASSUME queue' \in Seq(Wanted), UNCHANGED <<modes, demanded>> PROVE LazyInv'
  BY <1>3, WantedGrows DEF LazyInv
<1>4. ASSUME UNCHANGED <<queue, demanded>>, \A n \in Uid : modes'[n] = "Lazy" => modes[n] = "Lazy"
      PROVE  LazyInv'
  BY <1>0, <1>4, WantedGrows DEF LazyInv
<1>5. CASE c.op = "NodeCreate" /\ NodeCreate(c.node, c.kind)
  <2>1. modes' = [modes EXCEPT ![c.node] = "Eager"] /\ UNCHANGED <<queue, demanded>>
    BY <1>5 DEF NodeCreate, propVars
  <2>2. QED  BY <1>0, <1>4, <2>1
<1>6. CASE c.op = "EdgeConnect" /\ EdgeConnect(c.edge)
  <2>1. /\ UNCHANGED <<queue, demanded>>
        /\ modes' = modes \/ \E m \in Preferred(c.edge.port) : modes' = [modes EXCEPT ![c.edge.tgt] = m]
    BY <1>6 DEF EdgeConnect, propVars
  <2>2. "Lazy" \notin Preferred(c.edge.port)
    <3>1. c.edge.port \in {"Signal", "Flow", "Bond"}
      BY <1>2, <1>6, OperandType DEF Edge, PortKind
    <3>2. QED  BY <3>1 DEF Preferred
  <2>3. QED  BY <1>0, <1>4, <2>1, <2>2
<1>7. CASE c.op = "SetMode" /\ SetMode(c.node, c.mode)
  <2>1. modes' = [modes EXCEPT ![c.node] = c.mode] /\ UNCHANGED <<queue, demanded>>
    BY <1>7 DEF SetMode, propVars
  <2>2. QED  BY <1>0, <1>2, <1>4, <1>7, <2>1
<1>8. ASSUME NEW n, NEW v, WriteAndPush(n, v) PROVE LazyInv'
  <2>1. PushSubs(n, EagerSubs(n), queue, {}) /\ UNCHANGED <<modes, demanded>>
    BY <1>8 DEF WriteAndPush
  <2>2. EagerSubs(n) \subseteq Uid /\ \A s \in EagerSubs(n) : modes[s] # "Lazy"
    BY DEF EagerSubs, Subs
  <2>3. queue' \in Seq(Wanted)
    BY <1>0, <2>1, <2>2, PushSubsWanted
  <2>4. QED  BY <1>3, <2>1, <2>3
<1>9. CASE \/ c.op = "SetValue" /\ SetValue(c.node, c.val)
           \/ c.op = "Reflect" /\ Reflect(c.node)
  BY <1>8, <1>9 DEF SetValue, Reflect
<1>10. CASE c.op = "Demand" /\ Request(DemandItem(c.node))
  <2>1. DemandItem(c.node) \in Wanted
    BY <1>2, <1>10, OperandType DEF DemandItem, WorkItem, Wanted
  <2>2. queue' = Append(queue, DemandItem(c.node)) /\ UNCHANGED <<modes, demanded>>
    BY <1>10 DEF Request
  <2>3. QED  BY <1>0, <1>3, <2>1, <2>2, AppendProperties
<1>11. ASSUME NEW seeds, Stabilize(seeds) PROVE LazyInv'
  <2>1. /\ UNCHANGED <<modes, demanded>>
        /\ (UNCHANGED queue \/ \E M \in SectionRegions(seeds), v \in T : Resolve(M, v))
    BY <1>11 DEF Stabilize, Unresolved
  <2>2. queue' \in Seq(Wanted)
    BY <1>0, <2>1, ResolveWanted
  <2>3. QED  BY <1>3, <2>1, <2>2
<1>12. CASE \/ c.op = "Subscribe" /\ SubscribeOp(c.src, c.sub)
            \/ c.op = "DelNode" /\ DelNode(c.node)
            \/ c.op = "DelEdge" /\ DelEdge(c.id)
            \/ c.op = "Reflect" /\ ReflectMissing(c.node)
  <2>1. UNCHANGED <<queue, demanded, modes>>
    BY <1>12 DEF SubscribeOp, DelNode, DelEdge, ReflectMissing, propVars, depVars
  <2>2. QED  BY <1>4, <2>1
<1>13. CASE \/ c.op = "Stabilize" /\ Stabilize(c.region)
            \/ c.op = "StabilizeAll" /\ Stabilize(ZeroNodes)
  BY <1>11, <1>13
<1>14. QED
  BY <1>1, <1>2, <1>5, <1>6, <1>7, <1>9, <1>10, <1>12, <1>13 DEF Apply

LEMMA WorkWanted ==
  ASSUME TypeOK, LazyInv, Work
  PROVE  LazyInv'
<1> DEFINE n == Head(queue).node
<1>0. modes \in [Uid -> ExecMode] /\ queue \in Seq(Wanted)
  BY DEF TypeOK, LazyInv
<1>1. queue # <<>> => Tail(queue) \in Seq(Wanted) /\ Head(queue) \in Wanted
  BY <1>0, HeadTailProperties
<1>2. ASSUME queue' \in Seq(Wanted), UNCHANGED <<modes, demanded>> PROVE LazyInv'
  BY <1>2, WantedGrows DEF LazyInv
<1>3. CASE DropEdge \/ DropNode
  <2>1. UNCHANGED <<queue, demanded>>
    BY <1>3 DEF DropEdge, DropNode, propVars
  <2>2. UNCHANGED modes \/ \E m : modes' = [modes EXCEPT ![m] = "Eager"]
    BY <1>3 DEF DropEdge, DropNode, RemoveNode
  <2>3. \A m \in Uid : modes'[m] = "Lazy" => modes[m] = "Lazy"
    BY <1>0, <2>2
  <2>4. QED  BY <1>0, <2>1, <2>3, WantedGrows DEF LazyInv
<1>4. CASE PushIdle \/ PushReady \/ PushConflicted \/ StepStabilize
  <2> DEFINE subs == {s \in OpenSubs(n, demanded) : <<n, s>> \notin {}}
  <2>1. queue # <<>> /\ Head(queue).op \in {"Push", "Stabilize"} /\ UNCHANGED <<modes, demanded>>
    BY <1>4 DEF PushIdle, PushReady, PushReadyTo, PushConflicted, PushConflictedTo, StepStabilize,
                Step, TakesItem
  <2>2. \/ queue' = Tail(queue)
        \/ PushSubs(n, subs, Tail(queue), seen)
        \/ /\ Head(queue).op = "Push"
           /\ queue' = Append(Tail(queue), StabilizeItem(ToSet(ordered[n]) \cup {n}))
    BY <1>4 DEF PushIdle, PushReady, PushReadyTo, PushConflicted, PushConflictedTo, StepStabilize, Step
  <2>3. CASE queue' = Tail(queue)
    BY <1>1, <1>2, <2>1, <2>3
  <2>4. CASE PushSubs(n, subs, Tail(queue), seen)
    <3>1. subs \subseteq Uid /\ \A s \in subs : modes[s] # "Lazy" \/ s \in demanded
      BY DEF OpenSubs, Subs
    <3>2. queue' \in Seq(Wanted)
      BY <1>1, <2>1, <2>4, <3>1, PushSubsWanted
    <3>3. QED  BY <1>2, <2>1, <3>2
  <2>5. CASE /\ Head(queue).op = "Push"
             /\ queue' = Append(Tail(queue), StabilizeItem(ToSet(ordered[n]) \cup {n}))
    <3>1. n \in Uid /\ ordered[n] \in Seq(Uid)
      BY <1>1, <2>1, <2>5 DEF Wanted, WorkItem, TypeOK
    <3>2. ToSet(ordered[n]) \cup {n} \subseteq Uid
      BY <3>1, ElementOfSeq, LenProperties DEF ToSet
    <3>3. StabilizeItem(ToSet(ordered[n]) \cup {n}) \in Wanted
      BY <3>2 DEF StabilizeItem, WorkItem, Wanted
    <3>4. queue' \in Seq(Wanted)
      BY <1>1, <2>1, <2>5, <3>3, AppendProperties
    <3>5. QED  BY <1>2, <2>1, <3>4
  <2>6. QED  BY <2>2, <2>3, <2>4, <2>5
<1>5. CASE StepDemand
  <2> DEFINE pending == {d \in Deps(n) : value[d] = "Neg"}
  <2>1. queue # <<>> /\ Head(queue).op = "Demand" /\ UNCHANGED modes /\ demanded' = demanded \cup {n}
    BY <1>5 DEF StepDemand, Step, TakesItem
  <2>2. n \in Uid
    BY <1>1, <2>1 DEF Wanted, WorkItem
  <2>3. Tail(queue) \in Seq(Wanted')
    BY <1>1, <2>1, WantedGrows
  <2>4. PICK front \in [1 .. Cardinality(pending) -> pending] :
          queue' = [i \in DOMAIN front |-> DemandItem(front[i])]
                     \o Append(Tail(queue), PushItem(n))
    BY <1>5, Zenon DEF StepDemand, InOrder
  <2>5. pending \subseteq Uid
    BY DEF Deps
  <2>6. Cardinality(pending) \in Nat
    BY <2>5, FS_Subset, FS_CardinalityType, EngineAssumption DEF EngineAssumption
  <2>7. [i \in DOMAIN front |-> DemandItem(front[i])] \in Seq(Wanted')
    <3>1. [i \in DOMAIN front |-> DemandItem(front[i])] \in [1 .. Cardinality(pending) -> Wanted']
      BY <2>5 DEF DemandItem, WorkItem, Wanted
    <3>2. QED  BY <2>6, <3>1, FunctionIsSeq
  <2>8. PushItem(n) \in Wanted'
    BY <2>1, <2>2 DEF PushItem, WorkItem, Wanted
  <2>9. QED  BY <2>3, <2>4, <2>7, <2>8, AppendProperties, ConcatProperties DEF LazyInv
<1>6. CASE StepLimit
  BY <1>1, <1>2, <1>6 DEF StepLimit, depVars
<1>7. CASE DrainEnds
  BY <1>7, EmptySeq DEF DrainEnds, LazyInv
<1>8. CASE StabilizeSection
  <2>1. /\ UNCHANGED <<modes, demanded>>
        /\ UNCHANGED queue \/ \E M \in SectionRegions(Head(sections)), v \in T : Resolve(M, v)
    BY <1>8 DEF StabilizeSection, Unresolved
  <2>2. queue' \in Seq(Wanted)
    BY <1>0, <2>1, ResolveWanted
  <2>3. QED  BY <1>2, <2>1, <2>2
<1>9. CASE DrainAgain
  BY <1>0, <1>2, <1>9 DEF DrainAgain, depVars, propVars
<1>10. QED  BY <1>3, <1>4, <1>5, <1>6, <1>7, <1>8, <1>9 DEF Work

\* A node that is Lazy from the start is recomputed in a drain that demanded
\* it and in no other (propagate.rs: subs_lazy, step_demand), on any graph and
\* with nodes of the other modes around it, when callers demand and do not
\* propagate.
THEOREM LazyNodesWait ==
  ASSUME OnlyDemanded
  PROVE  Spec => LazyWaitsForDemand
<1>1. Init => LazyInv
  BY EmptySeq DEF Init, Fresh, LazyInv
<1>2. TypeOK /\ LazyInv /\ [Next]_vars => LazyInv'
  <2>1. ASSUME LazyInv, UNCHANGED vars PROVE LazyInv'
    BY <2>1, WantedGrows DEF LazyInv, vars, depVars, propVars
  <2>2. QED  BY <2>1, CallWanted, WorkWanted DEF Next
<1>3. Spec => []LazyInv
  BY <1>1, <1>2, TypeCorrect, PTL DEF Spec
<1> DEFINE Waits ==
      \A n \in Uid : modes[n] = "Lazy" /\ (PushReady \/ PushConflicted)
        /\ value'[n] # value[n] => n \in demanded
<1>4. TypeOK /\ LazyInv => Waits
  <2> SUFFICES ASSUME TypeOK, LazyInv, NEW n \in Uid, modes[n] = "Lazy",
                      PushReady \/ PushConflicted, value'[n] # value[n]
               PROVE  n \in demanded
    OBVIOUS
  <2> DEFINE m == Head(queue).node
  <2>1. /\ queue # <<>> /\ Head(queue).op = "Push"
        /\ UNCHANGED value \/ \E v : value' = [value EXCEPT ![m] = v]
    BY DEF PushReady, PushReadyTo, PushConflicted, PushConflictedTo, Step, TakesItem, Write
  <2>2. n = m
    BY <2>1 DEF TypeOK
  <2>3. Head(queue) \in Wanted
    BY <2>1, HeadTailProperties DEF LazyInv
  <2>4. QED  BY <2>1, <2>2, <2>3 DEF Wanted
<1>5. TypeOK /\ LazyInv => [Waits]_vars
  BY <1>4
<1>6. LazyWaitsForDemand <=> [][Waits]_vars
  BY DEF LazyWaitsForDemand
<1>7. QED  BY <1>3, <1>5, <1>6, TypeCorrect, PTL DEF Spec

-----------------------------------------------------------------------------
(* Waves *)

\* What a caller must keep to for a call to be one synchronous wave: the graph
\* is wired before the first call, derived nodes have dependencies, and all
\* paths between two nodes are equally long.
LevelledEager ==
  /\ Disciplined /\ Careful /\ EagerOnly
  /\ \A c \in Calls : c.op \in {"SetValue", "Propagate", "Reflect"}
  /\ \A t \in Topologies :
       /\ \E lev \in [Uid -> Nat] :
            \A n \in Uid : \A i \in DOMAIN t.wiring[n] : lev[n] = lev[t.wiring[n][i]] + 1
       /\ \A n \in ToSet(Created) : t.kind[n] # "Input" => t.wiring[n] # <<>>

Ruled == {n \in Uid : kind[n] \in Rules}
Reading(n) == propagation_state(GraphDepVals(n))

\* n shows what its rule makes of its dependencies, starting from `settled`.
Fired(n) ==
  /\ Reading(n) = "Conflicted" => value[n] = "Zero"
  /\ Reading(n) = "Pending" => value[n] = settled[n]
  /\ Reading(n) = "Ready" => value[n] = Eval(kind[n], GraphDepVals(n))

Queued(n) == \E i \in DOMAIN queue : queue[i].node = n

\* The wave has come as far as n: nothing below its level is queued.
Reached(lev, n) == \A i \in DOMAIN queue : lev[n] <= lev[queue[i].node]

\* A queue goes up by the levels and spans two of them at most.
InWaves(lev, q) ==
  \A i, j \in DOMAIN q : i < j => /\ lev[q[i].node] <= lev[q[j].node]
                                  /\ lev[q[j].node] <= lev[q[i].node] + 1

\* Every node has fired on the values its dependencies show, or is queued and
\* untouched.  A node that was written or whose gates are closed is behind the
\* wave: its dependencies have their final values.
WaveInv(lev) ==
  /\ \A p \in pairs : lev[p[2]] = lev[p[1]] + 1
  /\ \A n \in Ruled : ordered[n] # <<>>
  /\ pc \in {"idle", "drain"}
  /\ pc = "idle" => settled = value /\ queue = <<>>
  /\ InWaves(lev, queue)
  /\ \A n \in Ruled : Fired(n) \/ (Queued(n) /\ value[n] = settled[n])
  /\ \A n \in Ruled, s \in Uid : <<n, s>> \in seen => Fired(n) /\ Reached(lev, n)
  /\ \A n \in Ruled : value[n] # settled[n] => Reached(lev, n)
  /\ \/ \E x \in Uid : kind[x] = "Input" /\ \A n \in Uid \ Ruled : n # x => value[n] = settled[n]
     \/ value = settled /\ \A n \in Ruled : Fired(n)

LEMMA TailElements ==
  ASSUME NEW S, NEW q \in Seq(S), q # <<>>
  PROVE  /\ Len(q) \in Nat /\ Len(q) >= 1 /\ DOMAIN q = 1 .. Len(q) /\ Head(q) = q[1]
         /\ Tail(q) \in Seq(S) /\ Len(Tail(q)) = Len(q) - 1 /\ DOMAIN Tail(q) = 1 .. Len(q) - 1
         /\ \A i \in 1 .. Len(q) - 1 : Tail(q)[i] = q[i + 1]
<1>1. Len(q) \in Nat /\ DOMAIN q = 1 .. Len(q)
  BY LenProperties
<1>2. Len(q) >= 1
  BY <1>1, EmptySeq
<1>3. /\ Tail(q) \in Seq(S) /\ Len(Tail(q)) = Len(q) - 1
      /\ \A i \in 1 .. Len(q) - 1 : Tail(q)[i] = q[i + 1]
  BY HeadTailProperties
<1>4. DOMAIN Tail(q) = 1 .. Len(q) - 1
  BY <1>3, LenProperties
<1>5. QED  BY <1>1, <1>2, <1>3, <1>4

LEMMA ConcatElements ==
  ASSUME NEW S, NEW q \in Seq(S), NEW r \in Seq(S), NEW k \in Nat, Len(r) = k
  PROVE  /\ Len(q) \in Nat /\ DOMAIN q = 1 .. Len(q) /\ DOMAIN (q \o r) = 1 .. Len(q) + k
         /\ \A i \in 1 .. Len(q) : (q \o r)[i] = q[i]
         /\ \A i \in 1 .. k : Len(q) + i \in 1 .. Len(q) + k /\ (q \o r)[Len(q) + i] = r[i]
         /\ \A i \in 1 .. Len(q) + k :
              i > Len(q) => i - Len(q) \in 1 .. k /\ (q \o r)[i] = r[i - Len(q)]
<1>1. Len(q) \in Nat /\ DOMAIN q = 1 .. Len(q)
  BY LenProperties
<1>2. /\ q \o r \in Seq(S) /\ Len(q \o r) = Len(q) + k
      /\ \A i \in 1 .. Len(q) + k :
           (q \o r)[i] = IF i <= Len(q) THEN q[i] ELSE r[i - Len(q)]
  BY ConcatProperties
<1>3. DOMAIN (q \o r) = 1 .. Len(q) + k
  BY <1>2, LenProperties
<1>4. PICK j \in Nat : j = Len(q)
  BY <1>1
<1>5. \A i \in 1 .. j : i \in 1 .. j + k /\ i <= j
  OBVIOUS
<1>6. \A i \in 1 .. k : j + i \in 1 .. j + k /\ ~(j + i <= j) /\ (j + i) - j = i
  OBVIOUS
<1>7. \A i \in 1 .. j + k : i > j => i - j \in 1 .. k /\ ~(i <= j)
  OBVIOUS
<1>8. QED  BY <1>1, <1>2, <1>3, <1>4, <1>5, <1>6, <1>7

\* r is q with the nodes of S queued behind.
Behind(q, S, r) ==
  \E k \in Nat :
    /\ DOMAIN r = 1 .. Len(q) + k /\ Len(q) \in Nat
    /\ \A i \in 1 .. Len(q) : r[i] = q[i]
    /\ \A i \in 1 .. Len(q) + k : i > Len(q) => r[i].node \in S
    /\ \A s \in S : \E i \in 1 .. Len(q) + k : r[i].node = s

\* The subscribers are all queued, behind what was queued before.
LEMMA PushSubsQueue ==
  ASSUME NEW n, NEW S \in SUBSET Uid, NEW q \in Seq(WorkItem), NEW shut, PushSubs(n, S, q, shut)
  PROVE  /\ seen' = shut \cup {<<n, s>> : s \in S}
         /\ Behind(q, S, queue')
<1>1. PICK subs \in [1 .. Cardinality(S) -> S] :
        /\ \A i, j \in 1 .. Cardinality(S) : i < j => subs[i] < subs[j]
        /\ queue' = q \o [i \in DOMAIN subs |-> PushItem(subs[i])]
        /\ seen' = shut \cup {<<n, s>> : s \in S}
  BY DEF PushSubs, InOrder
<1>2. IsFiniteSet(S)
  BY UidsFinite
<1>3. PICK k \in Nat : k = Cardinality(S)
  BY UidsFinite
<1>4. subs \in [1 .. k -> S] /\ \A i, j \in 1 .. k : i < j => subs[i] < subs[j]
  BY <1>1, <1>3
<1> DEFINE r == [i \in DOMAIN subs |-> PushItem(subs[i])]
<1>5. r \in Seq(WorkItem) /\ Len(r) = k
  <2>1. r \in Seq(WorkItem)
    BY <1>4, PushItemsType
  <2>2. DOMAIN r = 1 .. k
    BY <1>4
  <2>3. QED  BY <2>1, <2>2, LenOfDomain
<1>6. \A i \in 1 .. k : r[i].node = subs[i] /\ subs[i] \in S
  BY <1>4 DEF PushItem
<1>7. queue' = q \o r
  BY <1>1
<1> HIDE DEF r
<1>8. /\ Len(q) \in Nat /\ DOMAIN queue' = 1 .. Len(q) + k
      /\ \A i \in 1 .. Len(q) : queue'[i] = q[i]
      /\ \A i \in 1 .. k : Len(q) + i \in 1 .. Len(q) + k /\ queue'[Len(q) + i] = r[i]
      /\ \A i \in 1 .. Len(q) + k :
           i > Len(q) => i - Len(q) \in 1 .. k /\ queue'[i] = r[i - Len(q)]
  <2>1. /\ Len(q) \in Nat /\ DOMAIN (q \o r) = 1 .. Len(q) + k
        /\ \A i \in 1 .. Len(q) : (q \o r)[i] = q[i]
        /\ \A i \in 1 .. k : Len(q) + i \in 1 .. Len(q) + k /\ (q \o r)[Len(q) + i] = r[i]
        /\ \A i \in 1 .. Len(q) + k :
             i > Len(q) => i - Len(q) \in 1 .. k /\ (q \o r)[i] = r[i - Len(q)]
    BY <1>3, <1>5, ConcatElements
  <2>2. QED  BY <1>7, <2>1
<1>9. \A i \in 1 .. Len(q) + k : i > Len(q) => queue'[i].node \in S
  BY <1>6, <1>8
<1>10. \A s \in S : \E i \in 1 .. k : subs[i] = s
  <2>1. \A i, j \in 1 .. k : subs[i] = subs[j] => i = j
    <3>1. \A i \in 1 .. k : subs[i] \in Nat
      BY <1>4, EngineAssumption DEF EngineAssumption
    <3>2. \A i, j \in 1 .. k : subs[i] = subs[j] => ~(i < j) /\ ~(j < i)
      BY <1>3, <1>4, <3>1
    <3>3. \A i, j \in 1 .. k : ~(i < j) /\ ~(j < i) => i = j
      BY <1>3
    <3>4. QED  BY <3>2, <3>3
  <2>2. subs \in Injection(1 .. k, S)
    BY <1>4, <2>1 DEF Injection, IsInjective
  <2>3. IsFiniteSet(1 .. k) /\ Cardinality(1 .. k) = Cardinality(S)
    BY <1>3, FS_Interval, FS_CardinalityType
  <2>4. subs \in Surjection(1 .. k, S)
    BY <1>2, <2>2, <2>3, FS_Injection
  <2>5. QED  BY <2>4 DEF Surjection
<1>11. \A s \in S : \E i \in 1 .. Len(q) + k : queue'[i].node = s
  <2> SUFFICES ASSUME NEW s \in S PROVE \E i \in 1 .. Len(q) + k : queue'[i].node = s
    OBVIOUS
  <2>1. PICK i \in 1 .. k : subs[i] = s
    BY <1>10
  <2>2. Len(q) + i \in 1 .. Len(q) + k /\ queue'[Len(q) + i] = r[i]
    BY <1>8, <2>1
  <2>3. QED  BY <1>6, <2>1, <2>2
<1>12. QED  BY <1>1, <1>3, <1>8, <1>9, <1>11 DEF Behind

\* The next level may be queued behind a queue that has reached this one.
LEMMA WavesGrow ==
  ASSUME NEW lev \in [Uid -> Nat], NEW h \in Nat, NEW j \in Nat, NEW k \in Nat,
         NEW q, NEW r, DOMAIN q = 1 .. j, DOMAIN r = 1 .. j + k, InWaves(lev, q),
         \A i \in 1 .. j : /\ r[i] = q[i] /\ q[i].node \in Uid
                           /\ h <= lev[q[i].node] /\ lev[q[i].node] <= h + 1,
         \A i \in 1 .. j + k : i > j => lev[r[i].node] = h + 1
  PROVE  InWaves(lev, r) /\ \A i \in DOMAIN r : h <= lev[r[i].node]
<1>1. \A i \in 1 .. j + k : i <= j => lev[r[i].node] = lev[q[i].node] /\ lev[r[i].node] \in Nat
  OBVIOUS
<1>2. \A i \in 1 .. j + k : /\ lev[r[i].node] \in Nat /\ h <= lev[r[i].node]
                            /\ lev[r[i].node] <= h + 1
  BY <1>1
<1>3. ASSUME NEW a \in 1 .. j + k, NEW b \in 1 .. j + k, a < b
      PROVE  /\ lev[r[a].node] <= lev[r[b].node]
             /\ lev[r[b].node] <= lev[r[a].node] + 1
  <2>1. CASE b <= j
    <3>1. a \in 1 .. j /\ b \in 1 .. j
      BY <1>3, <2>1
    <3>2. lev[q[a].node] <= lev[q[b].node] /\ lev[q[b].node] <= lev[q[a].node] + 1
      BY <1>3, <3>1 DEF InWaves
    <3>3. QED  BY <3>1, <3>2
  <2>2. CASE ~(b <= j)
    <3>1. lev[r[b].node] = h + 1
      BY <2>2
    <3>2. QED  BY <1>2, <3>1
  <2>3. QED  BY <2>1, <2>2
<1>4. QED  BY <1>2, <1>3 DEF InWaves

-----------------------------------------------------------------------------
(* Readings *)

\* A rule fires on what the graph shows, by the shortcut as by the slots.
LEMMA ReadyShows ==
  ASSUME IInv, RegInv, CountInv, NEW n \in Live, kind[n] \in Rules, ordered[n] # <<>>,
         DepState(n) = "Ready"
  PROVE  Reading(n) = "Ready" /\ ReadyValue(n) = Eval(kind[n], GraphDepVals(n))
<1> DEFINE vals == GraphDepVals(n)
<1>1. n \in Uid /\ kind[n] # "Input" /\ DepVals(n) = vals /\ vals \in Seq(T)
  BY SlotsReadGraph, DepValsType DEF Live, Rules, IInv
<1>2. Reading(n) = "Ready"
  BY <1>1, CountedExact DEF DepsReadExactly, Reading
<1>3. CASE ~FastPath(n)
  BY <1>1, <1>2, <1>3 DEF ReadyValue
<1>4. CASE FastPath(n)
  <2>1. ~Occurs("Zero", vals) /\ ~Occurs("Neg", vals)
    BY <1>2 DEF Reading, propagation_state
  <2>2. Len(ordered[n]) \in Nat /\ Len(ordered[n]) # 0 /\ DOMAIN vals = 1 .. Len(ordered[n])
    BY <1>1, EmptySeq, LenProperties DEF IInv, TypeOK, GraphDepVals
  <2>3. 1 \in DOMAIN vals
    BY <2>2
  <2>4. Occurs("Pos", vals)
    BY <1>1, <2>1, <2>3, ElementOfSeq, LenProperties DEF Occurs, T
  <2>5. Len(vals) \in Nat /\ ~(Len(vals) < 0)
    BY <1>1, LenProperties
  <2>6. kind[n] \in {"MeetAll", "JoinAny"} /\ Arity[kind[n]] = 0
    BY <1>4 DEF FastPath, Arity, Rules
  <2>7. Eval(kind[n], vals) = "Pos"
    BY <2>1, <2>4, <2>5, <2>6 DEF Eval, meet_all, join_any
  <2>8. QED  BY <1>2, <1>4, <2>7 DEF ReadyValue
<1>5. QED  BY <1>3, <1>4

\* A write is seen by the subscribers only.
LEMMA OthersRead ==
  ASSUME TypeOK, RegInv, NEW n \in Uid, NEW m \in Uid, NEW w, <<n, m>> \notin pairs,
         value' = [value EXCEPT ![n] = w], UNCHANGED ordered
  PROVE  GraphDepVals(m)' = GraphDepVals(m)
<1>1. ordered[m] \in Seq(Uid)
  BY DEF TypeOK
<1>2. \A i \in DOMAIN ordered[m] : ordered[m][i] \in Uid /\ ordered[m][i] # n
  BY <1>1, ElementOfSeq, LenProperties DEF RegInv, ListsArePairs, InList
<1>3. \A i \in DOMAIN ordered[m] : value'[ordered[m][i]] = value[ordered[m][i]]
  BY <1>2 DEF TypeOK
<1>4. QED  BY <1>3 DEF GraphDepVals

LEMMA OthersStayFired ==
  ASSUME TypeOK, RegInv, NEW n \in Uid, NEW m \in Uid, NEW w, <<n, m>> \notin pairs, m # n,
         value' = [value EXCEPT ![n] = w], UNCHANGED <<kind, ordered, settled>>, Fired(m)
  PROVE  Fired(m)'
<1>1. GraphDepVals(m)' = GraphDepVals(m)
  BY OthersRead
<1>2. value'[m] = value[m]
  BY DEF TypeOK
<1>3. QED  BY <1>1, <1>2 DEF Fired, Reading

-----------------------------------------------------------------------------
(* Steps of the drain *)

\* The front of the queue, n, shows w and leaves the queue; its subscribers S,
\* all of them if w is new, are queued.
LEMMA FrontMoves ==
  ASSUME IInv, RegInv, NEW lev \in [Uid -> Nat], WaveInv(lev), pc = "drain",
         NEW j \in Nat, DOMAIN queue = 1 .. j + 1, \A i \in 1 .. j + 1 : queue[i].node \in Uid,
         NEW n \in Uid, queue[1].node = n, NEW w \in T,
         value' = [value EXCEPT ![n] = w], w # value[n] => n \in Ruled /\ ~Fired(n),
         n \in Ruled => Fired(n)',
         UNCHANGED <<kind, ordered, pairs, settled, pc>>,
         NEW S \in SUBSET Subs(n), w # value[n] => S = Subs(n),
         seen' \subseteq seen \cup {<<n, s>> : s \in Uid},
         NEW k \in Nat, DOMAIN queue' = 1 .. j + k,
         \A i \in 1 .. j : queue'[i] = queue[i + 1],
         \A i \in 1 .. j + k : i > j => queue'[i].node \in S,
         \A s \in S : Queued(s)'
  PROVE  WaveInv(lev)'
<1> DEFINE h == lev[n]
<1>1. /\ h \in Nat
      /\ \A i \in 1 .. j + 1 : /\ lev[queue[i].node] \in Nat
                               /\ h <= lev[queue[i].node] /\ lev[queue[i].node] <= h + 1
  <2>1. h \in Nat /\ \A i \in 1 .. j + 1 : lev[queue[i].node] \in Nat
    OBVIOUS
  <2>2. 1 \in 1 .. j + 1 /\ \A i \in 1 .. j + 1 : i # 1 => 1 < i
    OBVIOUS
  <2>3. \A i \in 1 .. j + 1 :
          i # 1 => h <= lev[queue[i].node] /\ lev[queue[i].node] <= h + 1
    BY <2>2 DEF WaveInv, InWaves
  <2>4. h <= h /\ h <= h + 1
    BY <2>1
  <2>5. QED  BY <2>1, <2>3, <2>4
<1>2. \A s \in Subs(n) : s \in Uid /\ <<n, s>> \in pairs /\ lev[s] = h + 1 /\ s # n
  <2>1. \A s \in Subs(n) : s \in Uid /\ <<n, s>> \in pairs
    BY DEF Subs
  <2>2. \A s \in Subs(n) : lev[s] = h + 1
    BY <2>1 DEF WaveInv
  <2>3. QED  BY <1>1, <2>1, <2>2
<1>3. InWaves(lev, queue') /\ \A i \in DOMAIN queue' : h <= lev[queue'[i].node]
  <2> DEFINE q == [i \in 1 .. j |-> queue[i + 1]]
  <2>1. \A i \in 1 .. j : i + 1 \in 1 .. j + 1 /\ q[i] = queue[i + 1]
    OBVIOUS
  <2>2. InWaves(lev, q)
    <3>1. InWaves(lev, queue)
      BY DEF WaveInv
    <3>2. ASSUME NEW a \in 1 .. j, NEW b \in 1 .. j, a < b
          PROVE  /\ lev[q[a].node] <= lev[q[b].node]
                 /\ lev[q[b].node] <= lev[q[a].node] + 1
      <4>1. a + 1 \in DOMAIN queue /\ b + 1 \in DOMAIN queue /\ a + 1 < b + 1
        BY <3>2
      <4>2. QED  BY <2>1, <3>1, <4>1 DEF InWaves
    <3>3. QED  BY <3>2 DEF InWaves
  <2>3. \A i \in 1 .. j : /\ queue'[i] = q[i] /\ q[i].node \in Uid
                          /\ h <= lev[q[i].node] /\ lev[q[i].node] <= h + 1
    BY <1>1, <2>1
  <2>4. \A i \in 1 .. j + k : i > j => lev[queue'[i].node] = h + 1
    BY <1>2
  <2>5. DOMAIN q = 1 .. j
    OBVIOUS
  <2>6. h \in Nat
    BY <1>1
  <2> HIDE DEF q, h
  <2>7. QED  BY <2>2, <2>3, <2>4, <2>5, <2>6, WavesGrow
<1>4. \A m \in Uid : lev[m] <= h => Reached(lev, m)'
  <2> SUFFICES ASSUME NEW m \in Uid, lev[m] <= h, NEW i \in DOMAIN queue'
               PROVE  lev[m] <= lev[queue'[i].node]
    BY DEF Reached
  <2>1. queue'[i].node \in Uid
    <3>1. CASE i > j
      BY <1>2, <3>1
    <3>2. CASE ~(i > j)
      <4>1. i \in 1 .. j /\ i + 1 \in 1 .. j + 1
        BY <3>2
      <4>2. QED  BY <4>1
    <3>3. QED  BY <3>1, <3>2
  <2>2. lev[m] \in Nat /\ lev[queue'[i].node] \in Nat /\ h <= lev[queue'[i].node]
    BY <1>3, <2>1
  <2>3. QED  BY <1>1, <2>2
<1>5. \A m \in Uid : Reached(lev, m) => lev[m] <= h
  <2>1. 1 \in DOMAIN queue
    OBVIOUS
  <2>2. QED  BY <2>1 DEF Reached
<1>6. Ruled' = Ruled
  BY DEF Ruled
<1>7. \A m \in Uid : m # n => value'[m] = value[m]
  BY DEF IInv, TypeOK
<1>8. w = value[n] => value' = value
  BY DEF IInv, TypeOK
<1>9. ASSUME NEW m \in Ruled, m # n, Fired(m), w = value[n] \/ m \notin Subs(n)
      PROVE  Fired(m)'
  <2>1. CASE w = value[n]
    <3>1. UNCHANGED <<value, kind, ordered, settled>>
      BY <1>8, <2>1
    <3>2. QED  BY <1>9, <3>1 DEF Fired, Reading, GraphDepVals
  <2>2. CASE m \notin Subs(n)
    <3>1. m \in Uid /\ <<n, m>> \notin pairs
      BY <2>2 DEF Ruled, Subs
    <3>2. QED  BY <1>9, <3>1, OthersStayFired DEF IInv
  <2>3. QED  BY <1>9, <2>1, <2>2
<1>10. ASSUME NEW m \in Uid, m # n, Queued(m) PROVE Queued(m)'
  <2>1. PICK i \in 1 .. j + 1 : queue[i].node = m
    BY <1>10 DEF Queued
  <2>2. i # 1
    BY <1>10, <2>1
  <2>3. PICK a \in 1 .. j : i = a + 1
    <3>1. i - 1 \in 1 .. j /\ i = (i - 1) + 1
      BY <2>2
    <3>2. QED  BY <3>1
  <2>4. queue'[a].node = m /\ a \in DOMAIN queue'
    BY <2>1, <2>3
  <2>5. QED  BY <2>4 DEF Queued
<1>11. ASSUME NEW m \in Ruled PROVE Fired(m)' \/ (Queued(m)' /\ value'[m] = settled'[m])
  <2>1. m \in Uid /\ (Fired(m) \/ (Queued(m) /\ value[m] = settled[m]))
    BY DEF Ruled, WaveInv
  <2>2. CASE m = n
    BY <2>2
  <2>3. CASE m # n /\ w # value[n] /\ m \in Subs(n)
    <3>1. Queued(m)' /\ lev[m] = h + 1
      BY <1>2, <2>3
    <3>2. ~Reached(lev, m)
      BY <1>1, <1>5, <2>1, <3>1
    <3>3. value[m] = settled[m]
      BY <3>2 DEF WaveInv
    <3>4. QED  BY <1>7, <2>1, <2>3, <3>1, <3>3
  <2>4. CASE m # n /\ (w = value[n] \/ m \notin Subs(n))
    BY <1>7, <1>9, <1>10, <2>1, <2>4
  <2>5. QED  BY <2>2, <2>3, <2>4
<1>12. ASSUME NEW m \in Ruled, NEW s \in Uid, <<m, s>> \in seen'
       PROVE  Fired(m)' /\ Reached(lev, m)'
  <2>0. m \in Uid
    BY DEF Ruled
  <2>1. CASE m = n
    BY <1>1, <1>4, <2>1
  <2>2. CASE m # n
    <3>1. <<m, s>> \in seen
      BY <1>12, <2>2
    <3>2. Fired(m) /\ Reached(lev, m)
      BY <3>1 DEF WaveInv
    <3>3. lev[m] <= h
      BY <1>5, <2>0, <3>2
    <3>4. h \in Nat /\ ~(h + 1 <= h)
      BY <1>1
    <3>5. m \notin Subs(n)
      BY <1>2, <3>3, <3>4
    <3>6. QED  BY <1>4, <1>9, <2>0, <2>2, <3>2, <3>3, <3>5
  <2>3. QED  BY <2>1, <2>2
<1>13. ASSUME NEW m \in Ruled, value'[m] # settled'[m] PROVE Reached(lev, m)'
  <2>0. m \in Uid
    BY DEF Ruled
  <2>1. CASE m = n
    BY <1>1, <1>4, <2>1
  <2>2. CASE m # n
    <3>1. Reached(lev, m)
      BY <1>7, <1>13, <2>0, <2>2 DEF WaveInv
    <3>2. QED  BY <1>4, <1>5, <2>0, <3>1
  <2>3. QED  BY <2>1, <2>2
<1>14. \/ \E x \in Uid : kind'[x] = "Input" /\ \A m \in Uid \ Ruled : m # x => value'[m] = settled'[m]
       \/ value' = settled' /\ \A m \in Ruled : Fired(m)'
  <2>1. CASE \E x \in Uid : kind[x] = "Input" /\ \A m \in Uid \ Ruled : m # x => value[m] = settled[m]
    <3>1. PICK x \in Uid : kind[x] = "Input" /\ \A m \in Uid \ Ruled : m # x => value[m] = settled[m]
      BY <2>1
    <3>2. \A m \in Uid \ Ruled : value'[m] = value[m]
      BY <1>7, <1>8
    <3>3. QED  BY <3>1, <3>2
  <2>2. CASE value = settled /\ \A m \in Ruled : Fired(m)
    <3>1. w = value[n]
      BY <2>2
    <3>2. value' = settled'
      BY <1>8, <2>2, <3>1
    <3>3. QED  BY <1>9, <2>2, <3>1, <3>2
  <2>3. QED  BY <2>1, <2>2 DEF WaveInv
<1>15. QED
  BY <1>3, <1>6, <1>11, <1>12, <1>13, <1>14 DEF WaveInv

\* The queue of a drain holds pushes.
LEMMA QueueShape ==
  ASSUME TypeOK, WorkInv, pc = "drain", queue # <<>>
  PROVE  /\ Head(queue) = queue[1] /\ Tail(queue) \in Seq(WorkItem)
         /\ \E j \in Nat :
              /\ DOMAIN queue = 1 .. j + 1 /\ \A i \in 1 .. j + 1 : queue[i].node \in Uid
              /\ Len(Tail(queue)) = j /\ DOMAIN Tail(queue) = 1 .. j
              /\ \A i \in 1 .. j : Tail(queue)[i] = queue[i + 1]
<1>1. /\ queue \in Seq(WorkItem) /\ PushesOnly(queue)
  BY DEF TypeOK, WorkInv, PaidFor
<1>2. /\ Len(queue) \in Nat /\ Len(queue) >= 1 /\ DOMAIN queue = 1 .. Len(queue)
      /\ Head(queue) = queue[1]
      /\ Tail(queue) \in Seq(WorkItem) /\ Len(Tail(queue)) = Len(queue) - 1
      /\ DOMAIN Tail(queue) = 1 .. Len(queue) - 1
      /\ \A i \in 1 .. Len(queue) - 1 : Tail(queue)[i] = queue[i + 1]
  BY <1>1, TailElements
<1>3. PICK j \in Nat : Len(queue) = j + 1
  <2>1. Len(queue) - 1 \in Nat /\ Len(queue) = (Len(queue) - 1) + 1
    BY <1>2
  <2>2. QED  BY <2>1
<1>4. Len(queue) - 1 = j
  BY <1>3
<1>5. \A i \in 1 .. Len(queue) : queue[i].node \in Uid
  <2>1. \A i \in 1 .. Len(queue) : queue[i] \in WorkItem /\ queue[i].op = "Push"
    BY <1>1, <1>2, ElementOfSeq DEF PushesOnly
  <2>2. QED  BY <2>1 DEF WorkItem
<1>6. QED  BY <1>2, <1>3, <1>4, <1>5

\* The front leaves the queue and nothing else happens.
LEMMA FrontLeaves ==
  ASSUME IInv, RegInv, WorkInv, NEW lev \in [Uid -> Nat], WaveInv(lev), pc = "drain", queue # <<>>,
         UNCHANGED <<kind, value, ordered, pairs, seen, settled, pc>>, queue' = Tail(queue),
         Head(queue).node \in Ruled => Fired(Head(queue).node)
  PROVE  WaveInv(lev)'
<1>1. PICK j \in Nat : /\ DOMAIN queue = 1 .. j + 1 /\ \A i \in 1 .. j + 1 : queue[i].node \in Uid
                       /\ DOMAIN queue' = 1 .. j
                       /\ \A i \in 1 .. j : queue'[i] = queue[i + 1]
  BY QueueShape DEF IInv
<1>2. PICK n \in Uid : n = queue[1].node /\ n = Head(queue).node
  <2>1. 1 \in 1 .. j + 1
    BY <1>1
  <2>2. QED  BY <1>1, <2>1, QueueShape DEF IInv
<1>3. PICK w \in T : w = value[n] /\ value' = [value EXCEPT ![n] = w]
  BY DEF IInv, TypeOK
<1>4. n \in Ruled => Fired(n)'
  BY <1>2 DEF Fired, Reading, GraphDepVals
<1>5. PICK S \in SUBSET Subs(n) : S = {}
  OBVIOUS
<1>6. PICK k \in Nat : DOMAIN queue' = 1 .. j + k /\ \A i \in 1 .. j + k : ~(i > j)
  <2>1. DOMAIN queue' = 1 .. j + 0 /\ \A i \in 1 .. j + 0 : ~(i > j)
    BY <1>1
  <2>2. QED  BY <2>1
<1>7. seen' \subseteq seen \cup {<<n, s>> : s \in Uid}
  OBVIOUS
<1>8. /\ w # value[n] => n \in Ruled /\ ~Fired(n)
      /\ w # value[n] => S = Subs(n)
      /\ \A i \in 1 .. j + k : i > j => queue'[i].node \in S
      /\ \A s \in S : Queued(s)'
      /\ queue[1].node = n
  BY <1>2, <1>3, <1>5, <1>6
<1>9. QED  BY <1>1, <1>2, <1>3, <1>4, <1>6, <1>7, <1>8, FrontMoves

\* A node that has not fired has closed no gate: all its subscribers are told.
LEMMA FrontPushes ==
  ASSUME IInv, RegInv, WorkInv, NEW lev \in [Uid -> Nat], WaveInv(lev), pc = "drain", queue # <<>>,
         NEW n \in Ruled, queue[1].node = n, NEW w \in T,
         value' = [value EXCEPT ![n] = w], w # value[n] => ~Fired(n), Fired(n)',
         UNCHANGED <<kind, ordered, pairs, settled, pc>>,
         NEW S, S = {s \in OpenSubs(n, demanded) : <<n, s>> \notin {}},
         PushSubs(n, S, Tail(queue), seen)
  PROVE  WaveInv(lev)'
<1>0. n \in Uid
  BY DEF Ruled
<1>1. S \in SUBSET Uid /\ S \in SUBSET Subs(n)
  BY DEF OpenSubs, Subs
<1>2. w # value[n] => S = Subs(n)
  <2>1. \A s \in Subs(n) : s \in Uid /\ modes[s] = "Eager"
    BY DEF Subs, WorkInv, AllEager
  <2>2. ~Fired(n) => \A s \in Uid : <<n, s>> \notin seen
    BY DEF WaveInv
  <2>3. QED  BY <2>1, <2>2 DEF OpenSubs
<1>3. PICK j \in Nat : /\ DOMAIN queue = 1 .. j + 1 /\ \A i \in 1 .. j + 1 : queue[i].node \in Uid
                       /\ Len(Tail(queue)) = j
                       /\ \A i \in 1 .. j : Tail(queue)[i] = queue[i + 1]
  BY QueueShape DEF IInv
<1>4. PushSubs(n, S, Tail(queue), seen) /\ Tail(queue) \in Seq(WorkItem) /\ queue[1].node = n
  BY QueueShape DEF IInv
<1>5. seen' = seen \cup {<<n, s>> : s \in S} /\ Behind(Tail(queue), S, queue')
  BY <1>1, <1>4, PushSubsQueue
<1>6. PICK k \in Nat :
           /\ DOMAIN queue' = 1 .. j + k
           /\ \A i \in 1 .. j : queue'[i] = Tail(queue)[i]
           /\ \A i \in 1 .. j + k : i > j => queue'[i].node \in S
           /\ \A s \in S : \E i \in 1 .. j + k : queue'[i].node = s
  BY <1>3, <1>5 DEF Behind
<1>7. /\ seen' \subseteq seen \cup {<<n, s>> : s \in Uid}
      /\ \A i \in 1 .. j : queue'[i] = queue[i + 1]
      /\ \A s \in S : Queued(s)'
  BY <1>1, <1>3, <1>5, <1>6 DEF Queued
<1>8. /\ n \in Uid /\ queue[1].node = n
      /\ n \in Ruled => Fired(n)'
      /\ w # value[n] => n \in Ruled /\ ~Fired(n)
  BY <1>0, <1>4
<1>9. /\ S \in SUBSET Subs(n) /\ (w # value[n] => S = Subs(n))
      /\ DOMAIN queue = 1 .. j + 1 /\ \A i \in 1 .. j + 1 : queue[i].node \in Uid
      /\ seen' \subseteq seen \cup {<<n, s>> : s \in Uid}
      /\ DOMAIN queue' = 1 .. j + k
      /\ \A i \in 1 .. j : queue'[i] = queue[i + 1]
      /\ \A i \in 1 .. j + k : i > j => queue'[i].node \in S
      /\ \A s \in S : Queued(s)'
  BY <1>1, <1>2, <1>3, <1>6, <1>7
<1>10. QED  BY <1>8, <1>9, FrontMoves

\* A step that computes n reads what the graph shows.
LEMMA FrontReads ==
  ASSUME IInv, RegInv, CountInv, NEW lev, WaveInv(lev), NEW n, Computes(n)
  PROVE  /\ n \in Ruled /\ DepState(n) = Reading(n)
         /\ DepState(n) = "Ready" => ReadyValue(n) = Eval(kind[n], GraphDepVals(n))
<1>1. n \in Live /\ n \in Uid /\ kind[n] # "Input" /\ kind[n] \in Rules
  BY DEF Computes, Live, IInv, TypeOK, Kind
<1>2. n \in Ruled /\ ordered[n] # <<>>
  BY <1>1 DEF Ruled, WaveInv
<1>3. DepState(n) = Reading(n)
  BY <1>1, CountedExact DEF DepsReadExactly, Reading
<1>4. QED  BY <1>1, <1>2, <1>3, ReadyShows

LEMMA PushIdleWave ==
  ASSUME IInv, RegInv, CountInv, WorkInv, NEW lev \in [Uid -> Nat], WaveInv(lev), PushIdle,
         UNCHANGED settled
  PROVE  WaveInv(lev)'
<1> DEFINE n == Head(queue).node
<1>1. /\ pc = "drain" /\ queue # <<>> /\ queue' = Tail(queue)
      /\ UNCHANGED <<kind, value, ordered, pairs, seen, settled, pc>>
  BY DEF PushIdle, Step, TakesItem, control
<1>2. n \in Ruled => Fired(n)
  <2> HAVE n \in Ruled
  <2>1. Computes(n)
    <3>1. "Input" \notin Rules /\ Absent \notin Rules
      BY DEF Rules, Absent
    <3>2. QED  BY <3>1 DEF Ruled, Computes, Live
  <2>2. Reading(n) = "Pending"
    BY <2>1, FrontReads DEF PushIdle
  <2>3. Fired(n) \/ value[n] = settled[n]
    BY DEF WaveInv
  <2>4. QED  BY <2>2, <2>3 DEF Fired
<1>3. QED  BY <1>1, <1>2, FrontLeaves

\* A node that is written shows what it should, and reads what it read before.
LEMMA FiresNow ==
  ASSUME TypeOK, RegInv, NEW lev \in [Uid -> Nat], WaveInv(lev), NEW n \in Ruled, NEW w \in T,
         value' = [value EXCEPT ![n] = w], UNCHANGED <<kind, ordered, settled>>,
         \/ Reading(n) = "Ready" /\ w = Eval(kind[n], GraphDepVals(n))
         \/ Reading(n) = "Conflicted" /\ w = "Zero"
  PROVE  Fired(n)' /\ (w # value[n] => ~Fired(n))
<1>1. n \in Uid /\ value'[n] = w
  BY DEF Ruled, TypeOK
<1>2. <<n, n>> \notin pairs
  <2>1. lev[n] \in Nat /\ lev[n] # lev[n] + 1
    BY <1>1
  <2>2. QED  BY <2>1 DEF WaveInv
<1>3. GraphDepVals(n)' = GraphDepVals(n)
  BY <1>1, <1>2, OthersRead
<1>4. QED  BY <1>1, <1>3 DEF Fired, Reading

\* The front computes w from its dependencies, and tells its subscribers.
LEMMA FrontComputes ==
  ASSUME IInv, RegInv, WorkInv, NEW lev \in [Uid -> Nat], WaveInv(lev), pc = "drain", queue # <<>>,
         NEW n \in Ruled, queue[1].node = n, NEW w \in T, value' = [value EXCEPT ![n] = w],
         \/ Reading(n) = "Ready" /\ w = Eval(kind[n], GraphDepVals(n))
         \/ Reading(n) = "Conflicted" /\ w = "Zero",
         UNCHANGED <<kind, ordered, pairs, settled, pc>>,
         NEW S, S = {s \in OpenSubs(n, demanded) : <<n, s>> \notin {}},
         PushSubs(n, S, Tail(queue), seen)
  PROVE  WaveInv(lev)'
<1>1. Fired(n)' /\ (w # value[n] => ~Fired(n))
  BY FiresNow DEF IInv
<1>2. QED  BY <1>1, FrontPushes

LEMMA PushReadyWave ==
  ASSUME IInv, RegInv, CountInv, WorkInv, NEW lev \in [Uid -> Nat], WaveInv(lev), PushReady,
         UNCHANGED settled
  PROVE  WaveInv(lev)'
<1>1. /\ pc = "drain" /\ queue # <<>> /\ UNCHANGED <<kind, ordered, pairs, settled, pc>>
      /\ Computes(Head(queue).node) /\ DepState(Head(queue).node) = "Ready"
  BY DEF PushReady, PushReadyTo, Step, TakesItem, control
<1>2. PICK n \in Ruled : n = Head(queue).node
  BY <1>1, FrontReads
<1>3. PICK w \in T : w = ReadyValue(n)
  BY <1>1, <1>2, ReadyValueType DEF IInv, Computes, Live
<1>4. Reading(n) = "Ready" /\ w = Eval(kind[n], GraphDepVals(n))
  BY <1>1, <1>2, <1>3, FrontReads
<1>5. CASE w = value[n]
  <2>1. queue' = Tail(queue) /\ UNCHANGED <<value, seen>>
    BY <1>2, <1>3, <1>5 DEF PushReady, PushReadyTo
  <2>2. Fired(Head(queue).node)
    BY <1>2, <1>4, <1>5 DEF Fired
  <2>3. QED  BY <1>1, <2>1, <2>2, FrontLeaves
<1>6. CASE w # value[n]
  <2>1. PICK S : S = {s \in OpenSubs(n, demanded) : <<n, s>> \notin {}}
    OBVIOUS
  <2>2. /\ value' = [value EXCEPT ![n] = w]
        /\ PushSubs(n, S, Tail(queue), seen)
    BY <1>2, <1>3, <1>6, <2>1 DEF PushReady, PushReadyTo, Write
  <2>3. queue[1].node = n
    BY <1>1, <1>2, QueueShape DEF IInv
  <2>4. QED  BY <1>1, <1>4, <2>1, <2>2, <2>3, FrontComputes
<1>7. QED  BY <1>5, <1>6

LEMMA PushConflictedWave ==
  ASSUME IInv, RegInv, CountInv, WorkInv, NEW lev \in [Uid -> Nat], WaveInv(lev), PushConflicted,
         UNCHANGED settled
  PROVE  WaveInv(lev)'
<1>1. /\ pc = "drain" /\ queue # <<>> /\ UNCHANGED <<kind, ordered, pairs, settled, pc>>
      /\ Computes(Head(queue).node) /\ DepState(Head(queue).node) = "Conflicted"
  BY DEF PushConflicted, PushConflictedTo, Step, TakesItem, control
<1>2. PICK n \in Ruled : n = Head(queue).node
  BY <1>1, FrontReads
<1>3. PICK w \in T : w = "Zero"
  BY DEF T
<1>4. n \in Uid /\ Reading(n) = "Conflicted"
  BY <1>1, <1>2, FrontReads DEF Ruled
<1>5. modes[n] = "Eager"
  BY <1>4 DEF WorkInv, AllEager
<1>6. PICK S : S = {s \in OpenSubs(n, demanded) : <<n, s>> \notin {}}
  OBVIOUS
<1>7. PushSubs(n, S, Tail(queue), seen)
  BY <1>2, <1>5, <1>6 DEF PushConflicted, PushConflictedTo
<1>8. value' = [value EXCEPT ![n] = w]
  <2>1. IF value[n] = "Zero" THEN UNCHANGED value ELSE value' = [value EXCEPT ![n] = "Zero"]
    BY <1>2 DEF PushConflicted, PushConflictedTo, Write
  <2>2. value \in [Uid -> T]
    BY DEF IInv, TypeOK
  <2>3. QED  BY <1>3, <1>4, <2>1, <2>2
<1>9. queue[1].node = n
  BY <1>1, <1>2, QueueShape DEF IInv
<1>10. QED  BY <1>1, <1>3, <1>4, <1>6, <1>7, <1>8, <1>9, FrontComputes

-----------------------------------------------------------------------------
(* Operations *)

\* At rest, every node has fired.
LEMMA RestFired ==
  ASSUME NEW lev, WaveInv(lev), queue = <<>>
  PROVE  \A m \in Ruled : Fired(m)
<1>1. DOMAIN queue = {}
  OBVIOUS
<1>2. QED  BY <1>1 DEF WaveInv, Queued

\* A write starts a wave at its node.
LEMMA WriteAndPushWave ==
  ASSUME IInv, RegInv, WorkInv, Disciplined, NEW lev \in [Uid -> Nat], WaveInv(lev), pc = "idle",
         NEW n \in Uid, NEW v \in T, WriteAndPush(n, v), UNCHANGED settled
  PROVE  WaveInv(lev)'
<1>1. /\ settled = value /\ queue = <<>> /\ \A m \in Ruled : Fired(m)
  BY RestFired DEF WaveInv
<1>2. /\ kind[n] = "Input" /\ pc' = "drain" /\ value' = [value EXCEPT ![n] = v]
      /\ UNCHANGED <<kind, ordered, pairs>>
      /\ PushSubs(n, EagerSubs(n), queue, {})
  BY DEF WriteAndPush, Write, StartDrain
<1>3. EagerSubs(n) = Subs(n) /\ Subs(n) \in SUBSET Uid
  BY DEF EagerSubs, Subs, WorkInv, AllEager
<1>4. queue \in Seq(WorkItem) /\ Len(queue) = 0
  BY <1>1 DEF IInv, TypeOK
<1>5. seen' = {} \cup {<<n, s>> : s \in Subs(n)} /\ Behind(queue, Subs(n), queue')
  BY <1>2, <1>3, <1>4, PushSubsQueue
<1>6. PICK k \in Nat : /\ DOMAIN queue' = 1 .. k
                       /\ \A i \in 1 .. k : queue'[i].node \in Subs(n)
                       /\ \A s \in Subs(n) : \E i \in 1 .. k : queue'[i].node = s
  <2>1. PICK k \in Nat : /\ DOMAIN queue' = 1 .. 0 + k
                         /\ \A i \in 1 .. 0 + k : i > 0 => queue'[i].node \in Subs(n)
                         /\ \A s \in Subs(n) : \E i \in 1 .. 0 + k : queue'[i].node = s
    BY <1>4, <1>5 DEF Behind
  <2>2. 1 .. 0 + k = 1 .. k /\ \A i \in 1 .. k : i > 0
    OBVIOUS
  <2>3. QED  BY <2>1, <2>2
<1>7. n \notin Ruled /\ Ruled' = Ruled /\ Ruled \subseteq Uid
  BY <1>2 DEF Ruled, Rules
<1>8. \A m \in Uid : m # n => value'[m] = value[m]
  BY <1>2 DEF IInv, TypeOK
<1>9. InWaves(lev, queue')
  <2>1. lev[n] \in Nat /\ \A s \in Subs(n) : lev[s] = lev[n] + 1
    BY DEF WaveInv, Subs
  <2>2. \A i \in 1 .. k : lev[queue'[i].node] = lev[n] + 1
    BY <1>6, <2>1
  <2>3. lev[n] + 1 <= lev[n] + 1 /\ lev[n] + 1 <= (lev[n] + 1) + 1
    BY <2>1
  <2>4. QED  BY <1>6, <2>2, <2>3 DEF InWaves
<1>10. ASSUME NEW m \in Ruled PROVE Fired(m)' \/ (Queued(m)' /\ value'[m] = settled'[m])
  <2>1. m \in Uid /\ m # n
    BY <1>7
  <2>2. CASE m \in Subs(n)
    BY <1>1, <1>6, <1>8, <2>1, <2>2 DEF Queued
  <2>3. CASE m \notin Subs(n)
    BY <1>1, <1>2, <2>1, <2>3, OthersStayFired DEF Subs, IInv
  <2>4. QED  BY <2>2, <2>3
<1>11. \A m \in Ruled : value'[m] = settled'[m] /\ \A s \in Uid : <<m, s>> \notin seen'
  BY <1>1, <1>5, <1>7, <1>8
<1>12. \E x \in Uid : kind'[x] = "Input" /\ \A m \in Uid \ Ruled : m # x => value'[m] = settled'[m]
  BY <1>1, <1>2, <1>8
<1>13. QED
  BY <1>2, <1>7, <1>9, <1>10, <1>11, <1>12 DEF WaveInv

LEMMA RequestWave ==
  ASSUME NEW lev, WaveInv(lev), pc = "idle", NEW n, Request(PushItem(n)), UNCHANGED settled
  PROVE  WaveInv(lev)'
<1>1. settled = value /\ queue = <<>> /\ \A m \in Ruled : Fired(m)
  BY RestFired DEF WaveInv
<1>2. /\ queue' = Append(queue, PushItem(n)) /\ seen' = {} /\ pc' = "drain"
      /\ UNCHANGED <<kind, value, ordered, pairs, settled>>
  BY DEF Request, Tick, StartDrain, graphVars
<1>3. queue' = <<PushItem(n)>>
  BY <1>1, <1>2
<1>4. \A i, j \in DOMAIN queue' : ~(i < j)
  BY <1>3
<1>5. InWaves(lev, queue')
  BY <1>4 DEF InWaves
<1>6. Ruled' = Ruled /\ \A m \in Ruled : Fired(m)'
  BY <1>1, <1>2 DEF Ruled, Fired, Reading, GraphDepVals
<1>7. QED  BY <1>1, <1>2, <1>5, <1>6 DEF WaveInv

\* Nothing happens at rest, or a drain has come to its end: what is shown then
\* is what was settled.
LEMMA RestWave ==
  ASSUME NEW lev, WaveInv(lev), queue = <<>>, UNCHANGED <<kind, value, ordered, pairs, queue>>,
         pc' = "idle", settled' = value
  PROVE  WaveInv(lev)'
<1>1. DOMAIN queue' = {}
  OBVIOUS
<1>2. Ruled' = Ruled /\ \A m \in Ruled : Fired(m)'
  BY RestFired DEF Ruled, Fired, Reading, GraphDepVals
<1>3. \A m \in Uid : Reached(lev, m)'
  BY <1>1 DEF Reached
<1>4. InWaves(lev, queue')
  BY <1>1 DEF InWaves
<1>5. QED  BY <1>2, <1>3, <1>4 DEF WaveInv, Ruled

LEMMA WaveUnchanged ==
  ASSUME NEW lev, WaveInv(lev), UNCHANGED <<kind, value, ordered, pairs, queue, seen, pc, settled>>
  PROVE  WaveInv(lev)'
<1>1. Ruled' = Ruled /\ \A m \in Uid : /\ Fired(m)' = Fired(m) /\ Queued(m)' = Queued(m)
                                       /\ Reached(lev, m)' = Reached(lev, m)
  BY DEF Ruled, Fired, Reading, GraphDepVals, Queued, Reached
<1>2. \A m \in Ruled : m \in Uid
  BY DEF Ruled
<1>3. QED  BY <1>1, <1>2 DEF WaveInv

-----------------------------------------------------------------------------
(* The observed engine *)

\* What the steps of such an engine are.
LEMMA WaveSteps ==
  ASSUME LevelledEager, IInv, WorkInv, NEW lev, WaveInv(lev), ObservedNext
  PROVE  \/ /\ pc = "idle" /\ UNCHANGED settled
            /\ \E n \in Uid : (\E v \in T : WriteAndPush(n, v)) \/ Request(PushItem(n))
         \/ (PushIdle \/ PushReady \/ PushConflicted) /\ UNCHANGED settled
         \/ /\ queue = <<>> /\ UNCHANGED <<kind, value, ordered, pairs, queue>>
            /\ pc' = "idle" /\ settled' = value
            /\ pc = "idle" \/ DrainEnds
<1>0. settled' = IF pc' = "idle" /\ queue' = <<>> THEN value' ELSE settled
  BY DEF ObservedNext, Quiescent
<1>1. CASE Call
  <2>1. pc = "idle" /\ queue = <<>>
    BY <1>1 DEF Call, WaveInv
  <2>2. PICK c \in Calls : Apply(c)
    BY <1>1 DEF Call
  <2>3. c \in IsaOp /\ c.op \in {"SetValue", "Propagate", "Reflect"}
    BY <2>2, EngineAssumption DEF EngineAssumption, LevelledEager
  <2>4. c.node \in Uid /\ (c.op = "SetValue" => c.val \in T)
    BY <2>3, OperandType
  <2>5. CASE c.op = "SetValue" /\ SetValue(c.node, c.val)
    BY <1>0, <2>1, <2>4, <2>5 DEF SetValue, WriteAndPush, StartDrain
  <2>6. CASE c.op = "Propagate" /\ Request(PushItem(c.node))
    BY <1>0, <2>1, <2>4, <2>6 DEF Request, StartDrain
  <2>7. CASE c.op = "Reflect" /\ Reflect(c.node)
    <3>1. mv_neg(value[c.node]) \in T
      BY <2>4, TernaryType DEF IInv, TypeOK, mv_neg, T
    <3>2. QED  BY <1>0, <2>1, <2>4, <2>7, <3>1 DEF Reflect, WriteAndPush, StartDrain
  <2>8. CASE c.op = "Reflect" /\ ReflectMissing(c.node)
    BY <1>0, <2>1, <2>8 DEF ReflectMissing, graphVars, propVars, control
  <2>9. QED  BY <2>2, <2>3, <2>5, <2>6, <2>7, <2>8 DEF Apply
<1>2. CASE PushIdle \/ PushReady \/ PushConflicted
  <2>1. pc' = "drain"
    BY <1>2 DEF PushIdle, PushReady, PushReadyTo, PushConflicted, PushConflictedTo, Step, TakesItem,
                control
  <2>2. QED  BY <1>0, <1>2, <2>1
<1>3. CASE StepDemand \/ StepStabilize
  BY <1>3, NoOtherWork DEF StepDemand, StepStabilize, Step, TakesItem, WorkInv, IInv
<1>4. CASE StepLimit
  <2>1. steps \in Nat /\ MaxSteps \in Nat
    BY EngineAssumption DEF IInv, TypeOK, EngineAssumption
  <2>2. QED  BY <1>4, <2>1, LimitFar DEF StepLimit, WorkInv, LevelledEager, EagerOnly, IInv
<1>5. CASE DrainEnds
  BY <1>0, <1>5 DEF DrainEnds, WorkInv, graphVars, depVars
<1>6. CASE StabilizeSection \/ DrainAgain \/ DropEdge \/ DropNode
  BY <1>6 DEF StabilizeSection, DrainAgain, DropEdge, DropNode, WaveInv
<1>7. QED  BY <1>1, <1>2, <1>3, <1>4, <1>5, <1>6 DEF ObservedNext, Next, Work

LEMMA ObservedWave ==
  ASSUME LevelledEager, IInv, RegInv, CountInv, WorkInv, NEW lev \in [Uid -> Nat], WaveInv(lev),
         ObservedNext
  PROVE  WaveInv(lev)'
<1>1. Disciplined
  BY DEF LevelledEager, Careful
<1>2. CASE /\ pc = "idle" /\ UNCHANGED settled
           /\ \E n \in Uid : (\E v \in T : WriteAndPush(n, v)) \/ Request(PushItem(n))
  BY <1>1, <1>2, WriteAndPushWave, RequestWave
<1>3. CASE (PushIdle \/ PushReady \/ PushConflicted) /\ UNCHANGED settled
  BY <1>3, PushIdleWave, PushReadyWave, PushConflictedWave
<1>4. CASE /\ queue = <<>> /\ UNCHANGED <<kind, value, ordered, pairs, queue>>
           /\ pc' = "idle" /\ settled' = value
  BY <1>4, RestWave
<1>5. QED  BY <1>2, <1>3, <1>4, WaveSteps

LEMMA InitWave ==
  ASSUME LevelledEager, Init, settled = value
  PROVE  \E lev \in [Uid -> Nat] : WaveInv(lev)
<1>1. PICK t \in Topologies : InitTopology(t)
  BY DEF Init
<1>2. t.wiring \in [Uid -> Seq(Uid)]
  BY EngineAssumption DEF EngineAssumption, Topology
<1>3. PICK lev \in [Uid -> Nat] :
        \A n \in Uid : \A i \in DOMAIN t.wiring[n] : lev[n] = lev[t.wiring[n][i]] + 1
  BY DEF LevelledEager
<1>4. /\ value = [n \in Uid |-> "Neg"] /\ queue = <<>> /\ seen = {} /\ pc = "idle"
      /\ ordered = t.wiring
      /\ kind = [n \in Uid |-> IF n \in ToSet(Created) THEN t.kind[n] ELSE Absent]
      /\ pairs = {p \in Uid \X Uid : p[1] \in ToSet(t.wiring[p[2]])}
  BY <1>1 DEF Init, Fresh, InitTopology
<1>5. \A p \in pairs : lev[p[2]] = lev[p[1]] + 1
  BY <1>3, <1>4 DEF ToSet
<1>6. \A n \in Ruled : n \in Uid /\ ordered[n] # <<>>
  <2> SUFFICES ASSUME NEW n \in Ruled PROVE n \in Uid /\ ordered[n] # <<>>
    OBVIOUS
  <2>1. n \in Uid /\ kind[n] \in Rules
    BY DEF Ruled
  <2>2. "Input" \notin Rules /\ Absent \notin Rules
    BY DEF Rules, Absent
  <2>3. n \in ToSet(Created) /\ t.kind[n] # "Input"
    BY <1>4, <2>1, <2>2
  <2>4. QED  BY <1>4, <2>1, <2>3 DEF LevelledEager
<1>7. ASSUME NEW n \in Ruled PROVE Fired(n)
  <2>1. n \in Uid /\ ordered[n] \in Seq(Uid) /\ ordered[n] # <<>>
    BY <1>2, <1>4, <1>6
  <2>2. Len(ordered[n]) \in Nat /\ Len(ordered[n]) # 0 /\ DOMAIN ordered[n] = 1 .. Len(ordered[n])
    BY <2>1, EmptySeq, LenProperties
  <2>3. 1 \in DOMAIN ordered[n] /\ \A i \in DOMAIN ordered[n] : value[ordered[n][i]] = "Neg"
    BY <1>4, <2>1, <2>2, ElementOfSeq
  <2>4. Occurs("Neg", GraphDepVals(n)) /\ ~Occurs("Zero", GraphDepVals(n))
    BY <2>3 DEF Occurs, GraphDepVals
  <2>5. Reading(n) = "Pending"
    BY <2>4 DEF Reading, propagation_state
  <2>6. QED  BY <2>5 DEF Fired
<1>8. DOMAIN queue = {}
  BY <1>4
<1>9. WaveInv(lev)
  BY <1>4, <1>5, <1>6, <1>7, <1>8 DEF WaveInv, InWaves
<1>10. QED  BY <1>9

Waves == /\ IInv /\ RegInv /\ CountInv /\ NoSections /\ WorkInv
         /\ \E lev \in [Uid -> Nat] : WaveInv(lev)

LEMMA WavesHold ==
  ASSUME LevelledEager
  PROVE  ObservedSpec => []Waves
<1>1. Careful /\ EagerOnly /\ Unstabilized /\ Disciplined
  BY DEF LevelledEager, EagerOnly, Careful, Unstabilized
<1>2. ObservedInit => Waves
  BY <1>1, InitHolds, InitRegistry, InitCounted, InitPlain, InitPaid, InitWave
     DEF ObservedInit, Waves
<1>3. Waves /\ [ObservedNext]_<<vars, settled>> => Waves'
  <2>1. ASSUME Waves, ObservedNext PROVE Waves'
    <3>1. Next /\ IInv /\ RegInv /\ CountInv /\ NoSections /\ WorkInv
      BY <2>1 DEF ObservedNext, Waves
    <3>2. IInv' /\ RegInv' /\ CountInv' /\ NoSections'
      BY <1>1, <3>1, NextRegistry, NextCounted, CallPlain, WorkPlain DEF Next
    <3>3. WorkInv'
      BY <1>1, <3>1, CallPaid, WorkPaid DEF Next, IInv
    <3>4. \E lev \in [Uid -> Nat] : WaveInv(lev)'
      BY <2>1, <3>1, ObservedWave DEF Waves
    <3>5. QED  BY <3>2, <3>3, <3>4 DEF Waves
  <2>2. ASSUME Waves, UNCHANGED <<vars, settled>> PROVE Waves'
    <3>1. UNCHANGED vars /\ IInv /\ RegInv /\ CountInv /\ NoSections /\ WorkInv
      BY <2>2 DEF Waves
    <3>2. UNCHANGED <<kind, idx, pairs, ordered, indices, value, counters, edges, queue, sections,
                      modes, seen, pc, settled>>
      BY <2>2 DEF vars, graphVars, storeVars, depVars, propVars, control
    <3>3. IInv' /\ RegInv'
      BY <1>1, <3>1, NextRegistry
    <3>4. CountInv' /\ NoSections'
      BY <3>1, <3>2, CountInvUnchanged DEF NoSections
    <3>5. WorkInv'
      BY <3>1 DEF vars, depVars, propVars, control, WorkInv, PaidFor, PushesOnly, AllEager
    <3>6. \E lev \in [Uid -> Nat] : WaveInv(lev)'
      BY <2>2, <3>2, WaveUnchanged DEF Waves
    <3>7. QED  BY <3>3, <3>4, <3>5, <3>6 DEF Waves
  <2>3. QED  BY <2>1, <2>2
<1>4. QED  BY <1>2, <1>3, PTL DEF ObservedSpec

\* At quiescence every derived node shows what its rule makes of its
\* dependencies (abi.md, propagation semantics), on every graph in which all
\* paths between two nodes are equally long.
THEOREM LevelledSettles ==
  ASSUME LevelledEager
  PROVE  ObservedSpec => []Settled
<1>1. Waves => Settled
  <2> SUFFICES ASSUME Waves, Quiescent, NEW n \in Uid, Derived(n) PROVE Consistent(n)
    BY DEF Settled
  <2>1. PICK lev \in [Uid -> Nat] : WaveInv(lev)
    BY DEF Waves
  <2>2. n \in Ruled
    BY DEF Waves, IInv, TypeOK, Derived, Ruled, Kind, Live
  <2>3. Fired(n)
    BY <2>1, <2>2, RestFired DEF Quiescent
  <2>4. QED  BY <2>3 DEF Fired, Reading, Consistent, propagation_state
<1>2. QED  BY <1>1, WavesHold, PTL

\* Dataflow reads the ternary tables as Engine does.
LEMMA WaveReads ==
  ASSUME NEW vals, NEW rule \in Rules
  PROVE  /\ Wave!propagation_state(vals) = propagation_state(vals)
         /\ Wave!Eval(rule, vals) = Eval(rule, vals)
         /\ Wave!Rules = Rules /\ Wave!T = T
  BY DEF propagation_state, Occurs, Wave!propagation_state, Wave!Occurs, Rules, Wave!Rules, T, Wave!T,
         Eval, Wave!Eval, Arity, Wave!Arity, mv_neg, Wave!mv_neg, mv_add, Wave!mv_add, mv_mul,
         Wave!mv_mul, mv_sub, Wave!mv_sub, merge, Wave!merge, median, Wave!median, meet, Wave!meet,
         join, Wave!join, meet_all, Wave!meet_all, join_any, Wave!join_any, bochvar_fold_add,
         Wave!bochvar_fold_add

\* When a drain ends, the wave of one input has gone through.
LEMMA WaveEnds ==
  ASSUME IInv, NEW lev, WaveInv(lev), queue = <<>>, UNCHANGED <<kind, ordered>>, settled' = value
  PROVE  Wave!Next \/ settled' = settled
<1>1. \A n \in Ruled : Fired(n)
  BY RestFired
<1>2. value \in [Uid -> T]
  BY DEF IInv, TypeOK
<1>3. CASE value = settled
  BY <1>3
<1>4. ASSUME NEW x \in Uid, kind[x] = "Input",
             \A n \in Uid \ Ruled : n # x => value[n] = settled[n]
      PROVE  Wave!Next
  <2>1. ASSUME NEW n \in Ruled PROVE value[n] = Wave!Fires(n, settled[n], value)
    <3>1. kind[n] \in Rules /\ Fired(n)
      BY <1>1 DEF Ruled
    <3>2. QED
      BY <3>1, WaveReads DEF Wave!Fires, Fired, Reading, GraphDepVals, propagation_state
  <2>2. x \notin Ruled /\ value[x] \in T
    BY <1>2, <1>4 DEF Ruled, Rules
  <2>3. \A n \in Uid : n \in Ruled <=> kind[n] \in Wave!Rules
    BY DEF Ruled, Rules, Wave!Rules
  <2>4. \A n \in Uid : value[n] = IF n = x THEN value[x]
                                  ELSE IF kind[n] \in Wave!Rules THEN Wave!Fires(n, settled[n], value)
                                  ELSE settled[n]
    BY <1>4, <2>1, <2>2, <2>3
  <2>5. value \in [Uid -> Wave!T] /\ value[x] \in Wave!T
    BY <1>2, <2>2 DEF T, Wave!T
  <2>6. Wave!WriteInput(x, value[x])
    BY <1>4, <2>4, <2>5 DEF Wave!WriteInput
  <2>7. QED  BY <2>5, <2>6 DEF Wave!Next
<1>5. QED  BY <1>3, <1>4 DEF WaveInv

\* On such graphs the engine implements the synchronous dataflow: what a
\* caller sees change in one call is one wave (abi.md, propagation semantics;
\* propagate.rs, drain), whatever the rules, the queue and the gates do.
THEOREM EngineImplementsDataflow ==
  ASSUME LevelledEager
  PROVE  ObservedSpec => Synchronous
<1>1. ObservedInit => Wave!Init
  BY DEF ObservedInit, Init, Fresh, Wave!Init
<1>2. Waves /\ [ObservedNext]_<<vars, settled>> => [Wave!Next]_<<kind, ordered, settled>>
  <2>1. ASSUME Waves, ObservedNext PROVE Wave!Next \/ UNCHANGED <<kind, ordered, settled>>
    <3>1. PICK lev \in [Uid -> Nat] : WaveInv(lev)
      BY <2>1 DEF Waves
    <3>2. IInv /\ WorkInv
      BY <2>1 DEF Waves
    <3>3. CASE /\ pc = "idle" /\ UNCHANGED settled
               /\ \E n \in Uid : (\E v \in T : WriteAndPush(n, v)) \/ Request(PushItem(n))
      BY <3>3 DEF WriteAndPush, Request, graphVars
    <3>4. CASE (PushIdle \/ PushReady \/ PushConflicted) /\ UNCHANGED settled
      BY <3>4 DEF PushIdle, PushReady, PushReadyTo, PushConflicted, PushConflictedTo, Step
    <3>5. CASE queue = <<>> /\ UNCHANGED <<kind, ordered>> /\ settled' = value
      BY <3>1, <3>2, <3>5, WaveEnds
    <3>6. QED  BY <2>1, <3>1, <3>2, <3>3, <3>4, <3>5, WaveSteps
  <2>2. UNCHANGED <<vars, settled>> => UNCHANGED <<kind, ordered, settled>>
    BY DEF vars, graphVars, depVars
  <2>3. QED  BY <2>1, <2>2
<1>3. QED  BY <1>1, <1>2, WavesHold, PTL DEF ObservedSpec, Synchronous, Wave!Spec
=============================================================================

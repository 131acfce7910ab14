---------------------------- MODULE EngineProofs ----------------------------
(***************************************************************************)
(* Proofs about Engine, for every set of nodes, operations and topologies. *)
(*                                                                         *)
(*   the value store  slots are distinct, and the two copies of a value    *)
(*                    are the same between operations                      *)
(*   the registries   under disciplined callers the dependency lists say   *)
(*                    what the pairs say, and each recorded slot is the    *)
(*                    slot of the dependency at its place, through any     *)
(*                    creations, connections and deletions                 *)
(*   the counters     where nothing stabilizes, they count what the        *)
(*                    dependencies show                                    *)
(***************************************************************************)
EXTENDS Stabilized, FiniteSetTheorems, SequenceTheorems, TLAPS

\* No two ids share a slot of the ValueStore.
SlotsDistinct == \A m, n \in Uid : idx[m] # 0 /\ idx[m] = idx[n] => m = n

\* Live nodes have one.
Slotted == \A n \in Live : idx[n] # 0

\* What every step keeps, with the compiled tier too: writing one node's slot
\* leaves the slots of the others alone only if slots are distinct.
BaseInv == TypeOK /\ SlotsDistinct /\ Slotted

\* The inductive invariant of the warm tier.
IInv == TypeOK /\ SlotsDistinct /\ CacheCoherent

LEMMA CoherentSlotted == IInv => BaseInv
  BY DEF IInv, BaseInv, Slotted, CacheCoherent

\* A step leaves slots apart, and the two copies of a value the same.
Kept == SlotsDistinct' /\ Slotted' /\ (CacheCoherent => CacheCoherent')

Keeps == TypeOK' /\ Kept

-----------------------------------------------------------------------------
(* Sequences *)

\* A function over the first natural numbers is a sequence.
LEMMA FunctionIsSeq ==
  ASSUME NEW S, NEW k \in Nat, NEW f \in [1 .. k -> S]
  PROVE  f \in Seq(S)
  BY SeqDef

LEMMA LenOfDomain ==
  ASSUME NEW X, NEW s \in Seq(X), NEW k \in Nat, DOMAIN s = 1 .. k
  PROVE  Len(s) = k
<1>1. Len(s) \in Nat /\ 1 .. Len(s) = 1 .. k
  BY LenProperties
<1>2. \A j, l \in Nat : j < l => l \in 1 .. l /\ l \notin 1 .. j
  OBVIOUS
<1>3. ~(Len(s) < k) /\ ~(k < Len(s))
  BY <1>1, <1>2
<1>4. QED  BY <1>1, <1>3

\* What InOrder enumerates, mapped to work items, is a sequence of them.
LEMMA PushItemsType ==
  ASSUME NEW S \in SUBSET Uid, NEW k \in Nat, NEW q \in [1 .. k -> S]
  PROVE  [i \in DOMAIN q |-> PushItem(q[i])] \in Seq(WorkItem)
<1>1. [i \in DOMAIN q |-> PushItem(q[i])] \in [1 .. k -> WorkItem]
  BY DEF PushItem, WorkItem
<1>2. QED  BY <1>1, FunctionIsSeq

\* Removing an entry keeps a sequence over the same set.
LEMMA WithoutType ==
  ASSUME NEW S, NEW s \in Seq(S), NEW i
  PROVE  Without(s, i) \in Seq(S)
<1>1. CASE i \in DOMAIN s
  <2>1. i \in 1 .. Len(s)  BY <1>1
  <2>2. SubSeq(s, 1, i-1) \in Seq(S)
    BY <2>1, SubSeqProperties, ElementOfSeq
  <2>3. SubSeq(s, i+1, Len(s)) \in Seq(S)
    BY <2>1, SubSeqProperties, ElementOfSeq
  <2>4. QED  BY <1>1, <2>2, <2>3, ConcatProperties DEF Without, RemoveAt
<1>2. CASE i \notin DOMAIN s
  BY <1>2 DEF Without
<1>3. QED  BY <1>1, <1>2

\* Slots of the cache remain slots when the cache grows.
LEMMA IndicesGrow ==
  ASSUME NEW j \in Nat, NEW k \in Nat, j <= k,
         NEW f \in [Uid -> Seq(1 .. j)]
  PROVE  f \in [Uid -> Seq(1 .. k)]
<1>1. 1 .. j \subseteq 1 .. k  OBVIOUS
<1>2. \A n \in Uid : f[n] \in Seq(1 .. k)  BY <1>1, SeqMonotonic
<1>3. QED  BY <1>2

-----------------------------------------------------------------------------
(* The counters *)

LEMMA CounterType ==
  ASSUME NEW c \in [T -> Nat], NEW v \in T, NEW w \in T
  PROVE  /\ CounterAdd(c, v) \in [T -> Nat]
         /\ CounterRemove(c, v) \in [T -> Nat]
         /\ CounterUpdate(c, v, w) \in [T -> Nat]
<1>1. \A d \in [T -> Nat], x \in T : CounterAdd(d, x) \in [T -> Nat]
  BY DEF CounterAdd, T
<1>2. \A d \in [T -> Nat], x \in T : CounterRemove(d, x) \in [T -> Nat]
  BY DEF CounterRemove, T
<1>3. QED  BY <1>1, <1>2 DEF CounterUpdate

LEMMA RecountType ==
  ASSUME counters \in [Uid -> [T -> Nat]], NEW n, NEW v \in T, NEW w \in T
  PROVE  Recount(n, v, w) \in [Uid -> [T -> Nat]]
BY CounterType DEF Recount

LEMMA StoreGetType ==
  ASSUME TypeOK, NEW n \in Uid
  PROVE  StoreGet(n) \in T
<1>1. idx[n] # 0 => cache[idx[n]] \in T
  BY ElementOfSeq DEF TypeOK
<1>2. QED  BY <1>1 DEF StoreGet, T

-----------------------------------------------------------------------------
(* Writes *)

\* A value written to a live node reaches its slot and no other.
LEMMA WriteKeeps ==
  ASSUME BaseInv, NEW n \in Live, NEW v \in T, Write(n, v), UNCHANGED <<kind, idx>>
  PROVE  /\ value' \in [Uid -> T] /\ counters' \in [Uid -> [T -> Nat]]
         /\ cache' \in Seq(T) /\ Len(cache') = Len(cache)
         /\ Kept
<1> USE DEF BaseInv, Keeps, Live
<1>1. value' \in [Uid -> T]
  BY DEF Write, TypeOK
<1>2. counters' \in [Uid -> [T -> Nat]]
  BY RecountType DEF Write, TypeOK
<1>3. idx[n] \in 1 .. Len(cache)
  BY DEF TypeOK, Slotted
<1>4. /\ cache' \in Seq(T) /\ Len(cache') = Len(cache)
      /\ \A k \in 1 .. Len(cache) : cache'[k] = IF k = idx[n] THEN v ELSE cache[k]
  BY <1>3, ExceptSeq DEF Write, Stored, TypeOK
<1>5. SlotsDistinct' /\ Slotted'
  BY DEF SlotsDistinct, Slotted
<1>6. CacheCoherent => CacheCoherent'
  <2> SUFFICES ASSUME CacheCoherent, NEW m \in Live
               PROVE  idx[m] # 0 /\ cache'[idx[m]] = value'[m]
    BY DEF CacheCoherent
  <2>1. idx[m] \in 1 .. Len(cache) /\ cache[idx[m]] = value[m]
    BY DEF CacheCoherent, TypeOK
  <2>2. m # n => idx[m] # idx[n]
    BY <2>1 DEF SlotsDistinct
  <2>3. value'[m] = IF m = n THEN v ELSE value[m]
    BY DEF Write, TypeOK
  <2>4. QED  BY <1>4, <2>1, <2>2, <2>3
<1>7. QED  BY <1>1, <1>2, <1>4, <1>5, <1>6 DEF Kept

\* The subscribers queued behind a queue make a queue.
LEMMA PushSubsType ==
  ASSUME NEW n \in Uid, NEW S \in SUBSET Uid, NEW q \in Seq(WorkItem),
         NEW shut \in SUBSET (Uid \X Uid), PushSubs(n, S, q, shut)
  PROVE  queue' \in Seq(WorkItem) /\ seen' \subseteq Uid \X Uid
<1>0. {<<n, s>> : s \in S} \subseteq Uid \X Uid
  OBVIOUS
<1>1. PICK subs \in InOrder(S, <) :
        /\ queue' = q \o [i \in DOMAIN subs |-> PushItem(subs[i])]
        /\ seen' = shut \cup {<<n, s>> : s \in S}
  BY DEF PushSubs
<1>2. Cardinality(S) \in Nat
  BY FS_Subset, FS_CardinalityType, EngineAssumption DEF EngineAssumption
<1>3. subs \in [1 .. Cardinality(S) -> S]
  BY <1>1 DEF InOrder
<1>4. [i \in DOMAIN subs |-> PushItem(subs[i])] \in Seq(WorkItem)
  BY <1>2, <1>3, PushItemsType
<1>5. queue' \in Seq(WorkItem)
  BY <1>1, <1>4, ConcatProperties
<1>6. QED  BY <1>0, <1>1, <1>5

-----------------------------------------------------------------------------
(* The registry *)

LEMMA SubscribeType ==
  ASSUME TypeOK, NEW src \in Uid, NEW sub \in Uid,
         Subscribe(src, sub, idx[src], StoreGet(src))
  PROVE  /\ pairs' \subseteq Uid \X Uid
         /\ ordered' \in [Uid -> Seq(Uid)]
         /\ indices' \in [Uid -> Seq(1 .. Len(cache))]
         /\ counters' \in [Uid -> [T -> Nat]]
<1> USE DEF TypeOK, Subscribe
<1>1. pairs' \subseteq Uid \X Uid
  OBVIOUS
<1>2. ordered' \in [Uid -> Seq(Uid)]
  BY AppendProperties
<1>3. indices' \in [Uid -> Seq(1 .. Len(cache))]
  <2>1. idx[src] # 0 => Append(indices[sub], idx[src]) \in Seq(1 .. Len(cache))
    BY AppendProperties
  <2>2. QED  BY <2>1
<1>4. counters' \in [Uid -> [T -> Nat]]
  BY CounterType, StoreGetType
<1>5. QED  BY <1>1, <1>2, <1>3, <1>4

LEMMA UnsubscribeType ==
  ASSUME TypeOK, NEW src \in Uid, NEW sub \in Uid,
         Unsubscribe(src, sub, StoreGet(src))
  PROVE  /\ pairs' \subseteq Uid \X Uid
         /\ ordered' \in [Uid -> Seq(Uid)]
         /\ indices' \in [Uid -> Seq(1 .. Len(cache))]
         /\ counters' \in [Uid -> [T -> Nat]]
<1> USE DEF TypeOK, Unsubscribe
<1>1. pairs' \subseteq Uid \X Uid
  OBVIOUS
<1>2. ordered' \in [Uid -> Seq(Uid)]
  BY WithoutType
<1>3. indices' \in [Uid -> Seq(1 .. Len(cache))]
  BY WithoutType
<1>4. counters' \in [Uid -> [T -> Nat]]
  BY CounterType, StoreGetType
<1>5. QED  BY <1>1, <1>2, <1>3, <1>4

LEMMA RemoveNodeType ==
  ASSUME TypeOK, NEW n \in Uid, RemoveNode(n)
  PROVE  /\ pairs' \subseteq Uid \X Uid
         /\ ordered' \in [Uid -> Seq(Uid)]
         /\ indices' \in [Uid -> Seq(1 .. Len(cache))]
         /\ counters' \in [Uid -> [T -> Nat]]
         /\ modes' \in [Uid -> ExecMode]
<1> USE DEF TypeOK, RemoveNode
<1>1. pairs' \subseteq Uid \X Uid
  OBVIOUS
<1>2. ordered' \in [Uid -> Seq(Uid)]
  BY WithoutType, EmptySeq
<1>3. indices' \in [Uid -> Seq(1 .. Len(cache))]
  BY WithoutType, EmptySeq
<1>4. counters' \in [Uid -> [T -> Nat]]
  BY DEF NoDeps
<1>5. modes' \in [Uid -> ExecMode]
  BY DEF ExecMode
<1>6. QED  BY <1>1, <1>2, <1>3, <1>4, <1>5

-----------------------------------------------------------------------------
(* Calls that change the graph *)

LEMMA NodeCreateKeeps ==
  ASSUME BaseInv, NEW n \in Uid, NEW k \in Kind, NodeCreate(n, k)
  PROVE  Keeps
<1> USE DEF BaseInv, Keeps, NodeCreate, propVars, control
<1>1. /\ cache' \in Seq(T) /\ Len(cache') = Len(cache) + 1 /\ Len(cache) \in Nat
      /\ cache'[Len(cache) + 1] = "Neg"
      /\ \A i \in 1 .. Len(cache) : cache'[i] = cache[i]
  BY AppendProperties, LenProperties DEF Alloc, TypeOK, T
<1>2. /\ idx' = [idx EXCEPT ![n] = Len(cache) + 1]
      /\ \A m \in Uid : idx[m] \in 0 .. Len(cache)
  BY DEF Alloc, TypeOK
<1>3. \A m \in Uid : idx'[m] = IF m = n THEN Len(cache) + 1 ELSE idx[m]
  BY <1>2 DEF TypeOK
<1>4. \A m \in Uid : value'[m] = IF m = n THEN "Neg" ELSE value[m]
  BY DEF TypeOK
<1>5. TypeOK'
  <2>1. kind' \in [Uid -> Kind \cup {Absent}] /\ value' \in [Uid -> T]
        /\ modes' \in [Uid -> ExecMode]
    BY DEF TypeOK, T, ExecMode
  <2>2. idx' \in [Uid -> 0 .. Len(cache')]
    BY <1>1, <1>2 DEF TypeOK
  <2>3. indices' \in [Uid -> Seq(1 .. Len(cache'))]
    BY <1>1, IndicesGrow DEF TypeOK
  <2>4. QED  BY <1>1, <2>1, <2>2, <2>3 DEF TypeOK, Tick
<1>6. SlotsDistinct'
  <2> SUFFICES ASSUME NEW m \in Uid, NEW o \in Uid, idx'[m] # 0, idx'[m] = idx'[o]
               PROVE  m = o
    BY DEF SlotsDistinct
  <2>1. idx[m] # Len(cache) + 1 /\ idx[o] # Len(cache) + 1
    BY <1>1, <1>2
  <2>2. QED  BY <1>3, <2>1 DEF SlotsDistinct
<1>7. Slotted'
  BY <1>1, <1>3 DEF Slotted, Live, TypeOK
<1>8. CacheCoherent => CacheCoherent'
  <2> SUFFICES ASSUME CacheCoherent, NEW m \in Uid, kind'[m] # Absent
               PROVE  idx'[m] # 0 /\ cache'[idx'[m]] = value'[m]
    BY DEF CacheCoherent, Live
  <2>1. CASE m = n
    BY <2>1, <1>1, <1>3, <1>4
  <2>2. CASE m # n
    <3>1. m \in Live
      BY <2>2 DEF Live, TypeOK
    <3>2. idx[m] \in 1 .. Len(cache) /\ cache[idx[m]] = value[m]
      BY <3>1, <1>1, <1>2 DEF CacheCoherent
    <3>3. QED  BY <2>2, <3>2, <1>1, <1>3, <1>4
  <2>3. QED  BY <2>1, <2>2
<1>9. QED  BY <1>5, <1>6, <1>7, <1>8 DEF Kept

LEMMA EdgeConnectKeeps ==
  ASSUME BaseInv, NEW e \in Edge, EdgeConnect(e)
  PROVE  Keeps
<1> USE DEF BaseInv, Keeps, EdgeConnect, storeVars, propVars, control
<1>1. e.src \in Uid /\ e.tgt \in Uid /\ e.port \in PortKind
  BY DEF Edge
<1>2. modes' \in [Uid -> ExecMode]
  <2>1. \A m \in Preferred(e.port) : m \in ExecMode
    BY <1>1 DEF Preferred, ExecMode, PortKind
  <2>2. CASE modes[e.tgt] = "Eager" /\ Preferred(e.port) # {}
    BY <2>1, <2>2 DEF TypeOK
  <2>3. CASE ~(modes[e.tgt] = "Eager" /\ Preferred(e.port) # {})
    BY <2>3 DEF TypeOK
  <2>4. QED  BY <2>2, <2>3
<1>3. edges' \subseteq Edge
  BY DEF TypeOK
<1>4. TypeOK'
  BY <1>1, <1>2, <1>3, SubscribeType DEF TypeOK, Tick
<1>5. Kept
  BY DEF Kept, SlotsDistinct, Slotted, CacheCoherent, Live
<1>6. QED  BY <1>4, <1>5

LEMMA SubscribeOpKeeps ==
  ASSUME BaseInv, NEW src \in Uid, NEW sub \in Uid, SubscribeOp(src, sub)
  PROVE  Keeps
<1> USE DEF BaseInv, Keeps, SubscribeOp, graphVars, storeVars, propVars, control
<1>1. TypeOK'
  BY SubscribeType DEF TypeOK, Tick
<1>2. Kept
  BY DEF Kept, SlotsDistinct, Slotted, CacheCoherent, Live
<1>3. QED  BY <1>1, <1>2

LEMMA RemoveEdgeType ==
  ASSUME TypeOK, NEW e \in edges, RemoveEdge(e)
  PROVE  /\ edges' \subseteq Edge
         /\ pairs' \subseteq Uid \X Uid
         /\ ordered' \in [Uid -> Seq(Uid)]
         /\ indices' \in [Uid -> Seq(1 .. Len(cache))]
         /\ counters' \in [Uid -> [T -> Nat]]
<1>1. e.src \in Uid /\ e.tgt \in Uid
  BY DEF TypeOK, Edge
<1>2. QED  BY <1>1, UnsubscribeType DEF RemoveEdge, TypeOK

LEMMA DelEdgeKeeps ==
  ASSUME BaseInv, NEW id, DelEdge(id)
  PROVE  Keeps
<1> USE DEF BaseInv, Keeps, DelEdge, storeVars, propVars, control
<1>1. TypeOK'
  BY RemoveEdgeType DEF TypeOK, Tick
<1>2. Kept
  BY DEF Kept, SlotsDistinct, Slotted, CacheCoherent, Live
<1>3. QED  BY <1>1, <1>2

LEMMA DropEdgeKeeps ==
  ASSUME BaseInv, DropEdge
  PROVE  Keeps
<1> USE DEF BaseInv, Keeps, DropEdge, storeVars, propVars, control, dangling_edges
<1>1. TypeOK'
  BY RemoveEdgeType DEF TypeOK
<1>2. Kept
  BY DEF Kept, SlotsDistinct, Slotted, CacheCoherent, Live
<1>3. QED  BY <1>1, <1>2

\* A deleted node leaves a Neg slot behind; the other slots keep their values.
LEMMA DropNodeKeeps ==
  ASSUME BaseInv, DropNode
  PROVE  Keeps
<1> USE DEF BaseInv, Keeps, DropNode, propVars
<1>1. PICK n \in Uid : /\ kind' = [kind EXCEPT ![n] = Absent]
                       /\ value' = [value EXCEPT ![n] = "Neg"]
                       /\ RemoveNode(n) /\ Dealloc(n)
  BY DEF TypeOK
<1>2. idx' = idx
  BY <1>1 DEF Dealloc
<1>3. /\ cache' \in Seq(T) /\ Len(cache') = Len(cache)
      /\ \A m \in Uid : idx[m] # 0 =>
           cache'[idx[m]] = IF idx[m] = idx[n] THEN "Neg" ELSE cache[idx[m]]
  <2>1. cache \in Seq(T) /\ \A m \in Uid : idx[m] # 0 => idx[m] \in 1 .. Len(cache)
    BY DEF TypeOK
  <2>2. cache' = Stored(n, "Neg")
    BY <1>1 DEF Dealloc
  <2>3. CASE idx[n] = 0
    <3>1. cache' = cache
      BY <2>2, <2>3 DEF Stored
    <3>2. QED  BY <2>1, <2>3, <3>1
  <2>4. CASE idx[n] # 0
    <3>1. cache' = [cache EXCEPT ![idx[n]] = "Neg"]
      BY <2>2, <2>4 DEF Stored
    <3>2. QED  BY <2>1, <2>4, <3>1, ExceptSeq DEF T
  <2>5. QED  BY <2>3, <2>4
<1>4. TypeOK'
  <2>1. kind' \in [Uid -> Kind \cup {Absent}] /\ value' \in [Uid -> T]
    BY <1>1 DEF TypeOK, T
  <2>2. QED  BY <1>1, <1>2, <1>3, <2>1, RemoveNodeType DEF TypeOK, Tick
<1>5. SlotsDistinct' /\ Slotted'
  BY <1>1, <1>2 DEF SlotsDistinct, Slotted, Live, TypeOK
<1>6. CacheCoherent => CacheCoherent'
  <2> SUFFICES ASSUME CacheCoherent, NEW m \in Uid, kind'[m] # Absent
               PROVE  idx[m] # 0 /\ cache'[idx[m]] = value'[m]
    BY <1>2 DEF CacheCoherent, Live
  <2>1. m # n /\ m \in Live
    BY <1>1 DEF Live, TypeOK
  <2>2. idx[m] # 0 /\ cache[idx[m]] = value[m] /\ idx[m] # idx[n]
    BY <2>1 DEF CacheCoherent, SlotsDistinct, Live
  <2>3. QED  BY <1>1, <1>3, <2>1, <2>2 DEF TypeOK
<1>7. QED  BY <1>4, <1>5, <1>6 DEF Kept

-----------------------------------------------------------------------------
(* Compute rules *)

LEMMA TernaryType ==
  ASSUME NEW x \in T, NEW y \in T, NEW z \in T
  PROVE  /\ mv_neg(x) \in T /\ mv_add(x, y) \in T /\ mv_mul(x, y) \in T
         /\ mv_sub(x, y) \in T /\ merge(x, y, z) \in T
BY DEF T, mv_neg, mv_add, mv_mul, mv_sub, merge, median, meet, join

LEMMA EvalType ==
  ASSUME NEW rule \in Rules, NEW vals \in Seq(T)
  PROVE  Eval(rule, vals) \in T
<1>1. CASE Len(vals) < Arity[rule]
  BY <1>1 DEF Eval, T
<1>2. CASE ~(Len(vals) < Arity[rule])
  <2>1. Arity[rule] = IF rule \in {"MeetAll", "JoinAny", "BochvarFold"} THEN 0
                      ELSE IF rule \in {"Identity", "MvNeg"} THEN 1
                      ELSE IF rule = "Merge" THEN 3 ELSE 2
    BY DEF Arity
  <2>2. CASE rule \in {"MeetAll", "JoinAny", "BochvarFold"}
    <3>1. meet_all(vals) \in T /\ join_any(vals) \in T /\ bochvar_fold_add(vals) \in T
      BY DEF meet_all, join_any, bochvar_fold_add, T
    <3>2. QED  BY <1>2, <2>2, <3>1 DEF Eval
  <2>3. CASE rule \in {"Identity", "MvNeg"}
    <3>1. 1 \in 1 .. Len(vals)
      BY <1>2, <2>1, <2>3
    <3>2. vals[1] \in T
      BY <3>1, ElementOfSeq
    <3>3. QED  BY <1>2, <2>3, <3>2, TernaryType DEF Eval
  <2>4. CASE rule \in {"MvAdd", "MvMul", "MvSub", "PowerProduct"}
    <3>1. 1 \in 1 .. Len(vals) /\ 2 \in 1 .. Len(vals)
      BY <1>2, <2>1, <2>4
    <3>2. vals[1] \in T /\ vals[2] \in T
      BY <3>1, ElementOfSeq
    <3>3. QED  BY <1>2, <2>4, <3>2, TernaryType DEF Eval
  <2>5. CASE rule = "Merge"
    <3>1. 1 \in 1 .. Len(vals) /\ 2 \in 1 .. Len(vals) /\ 3 \in 1 .. Len(vals)
      BY <1>2, <2>1, <2>5
    <3>2. vals[1] \in T /\ vals[2] \in T /\ vals[3] \in T
      BY <3>1, ElementOfSeq
    <3>3. QED  BY <1>2, <2>5, <3>2, TernaryType DEF Eval
  <2>6. QED  BY <2>2, <2>3, <2>4, <2>5 DEF Rules
<1>3. QED  BY <1>1, <1>2

LEMMA DepValsType ==
  ASSUME TypeOK, NEW n \in Uid
  PROVE  DepVals(n) \in Seq(T)
<1>1. CASE indices[n] # <<>>
  <2>1. indices[n] \in Seq(1 .. Len(cache)) /\ cache \in Seq(T)
    BY DEF TypeOK
  <2>2. \A i \in DOMAIN indices[n] : indices[n][i] \in 1 .. Len(cache)
    BY <2>1, ElementOfSeq
  <2>3. [i \in DOMAIN indices[n] |-> cache[indices[n][i]]] \in [1 .. Len(indices[n]) -> T]
    BY <2>1, <2>2, ElementOfSeq
  <2>4. DepVals(n) = [i \in DOMAIN indices[n] |-> cache[indices[n][i]]]
    BY <1>1 DEF DepVals
  <2>5. Len(indices[n]) \in Nat
    BY <2>1, LenProperties
  <2>6. QED  BY <2>3, <2>4, <2>5, FunctionIsSeq
<1>2. CASE indices[n] = <<>>
  <2>1. ordered[n] \in Seq(Uid) /\ value \in [Uid -> T]
    BY DEF TypeOK
  <2>2. [i \in DOMAIN ordered[n] |-> value[ordered[n][i]]] \in [1 .. Len(ordered[n]) -> T]
    BY <2>1, ElementOfSeq
  <2>3. QED  BY <1>2, <2>1, <2>2, FunctionIsSeq DEF DepVals
<1>3. QED  BY <1>1, <1>2

LEMMA ReadyValueType ==
  ASSUME TypeOK, NEW n \in Uid, Computes(n)
  PROVE  ReadyValue(n) \in T
<1>1. kind[n] \in Rules
  BY DEF Computes, Live, TypeOK, Kind
<1>2. QED  BY <1>1, DepValsType, EvalType DEF ReadyValue, T

-----------------------------------------------------------------------------
(* Calls that write a value or queue work *)

LEMMA ItemType ==
  ASSUME TypeOK, queue # <<>>
  PROVE  /\ Tail(queue) \in Seq(WorkItem)
         /\ Head(queue).op \in {"Push", "Demand"} => Head(queue).node \in Uid
         /\ Head(queue).op = "Stabilize" => Head(queue).region \in SUBSET Uid
<1>1. Head(queue) \in WorkItem /\ Tail(queue) \in Seq(WorkItem)
  BY HeadTailProperties DEF TypeOK
<1>2. QED  BY <1>1 DEF WorkItem

LEMMA SetModeKeeps ==
  ASSUME BaseInv, NEW n \in Uid, NEW m \in ExecMode, SetMode(n, m)
  PROVE  Keeps
<1> USE DEF BaseInv, Keeps, SetMode, graphVars, storeVars, propVars, control
<1>1. TypeOK'
  BY DEF TypeOK, Tick
<1>2. Kept
  BY DEF Kept, SlotsDistinct, Slotted, CacheCoherent, Live
<1>3. QED  BY <1>1, <1>2

LEMMA DelNodeKeeps ==
  ASSUME BaseInv, NEW n \in Uid, DelNode(n)
  PROVE  Keeps
<1> USE DEF BaseInv, Keeps, DelNode, graphVars, storeVars, depVars, propVars
<1>1. TypeOK'
  BY DEF TypeOK
<1>2. Kept
  BY DEF Kept, SlotsDistinct, Slotted, CacheCoherent, Live
<1>3. QED  BY <1>1, <1>2

LEMMA WriteAndPushKeeps ==
  ASSUME BaseInv, NEW n \in Uid, NEW v \in T, WriteAndPush(n, v)
  PROVE  Keeps
<1> USE DEF BaseInv, Keeps, WriteAndPush
<1>1. /\ value' \in [Uid -> T] /\ counters' \in [Uid -> [T -> Nat]]
      /\ cache' \in Seq(T) /\ Len(cache') = Len(cache)
      /\ Kept
  BY WriteKeeps
<1>2. queue' \in Seq(WorkItem) /\ seen' \subseteq Uid \X Uid
  <2>1. EagerSubs(n) \subseteq Uid /\ queue \in Seq(WorkItem)
    BY DEF EagerSubs, Subs, TypeOK
  <2>2. QED  BY <2>1, PushSubsType
<1>3. steps' \in 0 .. MaxSteps /\ pc' = "drain"
  BY EngineAssumption DEF EngineAssumption, StartDrain
<1>4. TypeOK'
  BY <1>1, <1>2, <1>3 DEF TypeOK
<1>5. QED  BY <1>1, <1>4

LEMMA ReflectMissingKeeps ==
  ASSUME BaseInv, NEW n \in Uid, ReflectMissing(n)
  PROVE  Keeps
<1> USE DEF BaseInv, Keeps, ReflectMissing, graphVars, storeVars, propVars, control
<1>1. TypeOK'
  BY DEF TypeOK, Tick
<1>2. Kept
  BY DEF Kept, SlotsDistinct, Slotted, CacheCoherent, Live
<1>3. QED  BY <1>1, <1>2

LEMMA RequestKeeps ==
  ASSUME BaseInv, NEW item \in WorkItem, Request(item)
  PROVE  Keeps
<1> USE DEF BaseInv, Keeps, Request, graphVars, storeVars
<1>1. queue' \in Seq(WorkItem)
  BY AppendProperties DEF TypeOK
<1>2. steps' \in 0 .. MaxSteps /\ pc' = "drain"
  BY EngineAssumption DEF EngineAssumption, StartDrain
<1>3. TypeOK'
  BY <1>1, <1>2 DEF TypeOK, Tick
<1>4. Kept
  BY DEF Kept, SlotsDistinct, Slotted, CacheCoherent, Live
<1>5. QED  BY <1>3, <1>4

-----------------------------------------------------------------------------
(* The stabilizer *)

\* The pushes over a set of pairs, in any order, are work items.
LEMMA PairItemsType ==
  ASSUME NEW S, \A p \in S : p[2] \in Uid, NEW k \in Nat, NEW q \in [1 .. k -> S]
  PROVE  [i \in DOMAIN q |-> PushItem(q[i][2])] \in Seq(WorkItem)
<1>1. \A i \in 1 .. k : q[i][2] \in Uid
  OBVIOUS
<1>2. [i \in DOMAIN q |-> PushItem(q[i][2])] \in [1 .. k -> WorkItem]
  BY <1>1 DEF PushItem, WorkItem
<1>3. QED  BY <1>2, FunctionIsSeq

\* Resolving a section writes one value to the slots of its Zero members.
LEMMA ResolveKeeps ==
  ASSUME BaseInv, NEW M \in SUBSET Live, NEW v \in T, Resolve(M, v), UNCHANGED <<kind, idx>>
  PROVE  /\ value' \in [Uid -> T]
         /\ cache' \in Seq(T) /\ Len(cache') = Len(cache)
         /\ queue' \in Seq(WorkItem) /\ seen' \subseteq Uid \X Uid
         /\ Kept
<1> DEFINE zero == {m \in M : value[m] = "Zero"}
           open == {p \in pairs \ seen : p[1] \in zero /\ modes[p[2]] = "Eager"}
<1> USE DEF BaseInv, Keeps
<1>1. /\ value' = [n \in Uid |-> IF n \in zero THEN v ELSE value[n]]
      /\ cache' = StoredAll(zero, v)
      /\ Tick
  BY Zenon DEF Resolve
<1>2. value' \in [Uid -> T]
  BY <1>1 DEF TypeOK
<1>3. cache \in Seq(T) /\ Len(cache) \in Nat /\ DOMAIN cache = 1 .. Len(cache)
  BY LenProperties DEF TypeOK
<1>4. /\ cache' \in Seq(T) /\ Len(cache') = Len(cache)
      /\ \A k \in 1 .. Len(cache) :
           cache'[k] = IF \E id \in zero : idx[id] = k THEN v ELSE cache[k]
  <2>1. cache' = [k \in 1 .. Len(cache) |->
                    IF \E id \in zero : idx[id] = k THEN v ELSE cache[k]]
    BY <1>1, <1>3 DEF StoredAll
  <2>2. cache' \in [1 .. Len(cache) -> T]
    BY <2>1, <1>3, ElementOfSeq
  <2>3. QED  BY <2>1, <2>2, <1>3, FunctionIsSeq, LenProperties
<1>5. queue' \in Seq(WorkItem)
  <2>1. PICK order \in [1 .. Cardinality(open) -> open] :
          queue' = queue \o [i \in DOMAIN order |-> PushItem(order[i][2])]
    BY Zenon DEF Resolve, InOrder
  <2>2. open \subseteq Uid \X Uid /\ \A p \in open : p[2] \in Uid
    BY DEF TypeOK
  <2>3. Cardinality(open) \in Nat
    <3>1. IsFiniteSet(Uid \X Uid)
      BY FS_Product, EngineAssumption DEF EngineAssumption
    <3>2. QED  BY <2>2, <3>1, FS_Subset, FS_CardinalityType
  <2>4. [i \in DOMAIN order |-> PushItem(order[i][2])] \in Seq(WorkItem)
    BY <2>1, <2>2, <2>3, PairItemsType
  <2>5. QED  BY <2>1, <2>4, ConcatProperties DEF TypeOK
<1>6. seen' \subseteq Uid \X Uid
  BY <1>1 DEF Tick
<1>7. SlotsDistinct' /\ Slotted'
  BY DEF SlotsDistinct, Slotted, Live
<1>8. CacheCoherent => CacheCoherent'
  <2> SUFFICES ASSUME CacheCoherent, NEW m \in Live
               PROVE  idx[m] # 0 /\ cache'[idx[m]] = value'[m]
    BY DEF CacheCoherent, Live
  <2>1. m \in Uid /\ idx[m] \in 1 .. Len(cache) /\ cache[idx[m]] = value[m]
    BY <1>3 DEF CacheCoherent, TypeOK, Live
  <2>2. zero \subseteq Uid
    BY DEF Live
  <2>3. (\E id \in zero : idx[id] = idx[m]) <=> m \in zero
    BY <2>1, <2>2 DEF SlotsDistinct
  <2>4. value'[m] = IF m \in zero THEN v ELSE value[m]
    BY <1>1, <2>1
  <2>5. QED  BY <1>4, <2>1, <2>3, <2>4
<1>9. QED  BY <1>2, <1>4, <1>5, <1>6, <1>7, <1>8 DEF Kept

LEMMA StabilizeKeeps ==
  ASSUME BaseInv, NEW seeds, Stabilize(seeds)
  PROVE  Keeps
<1> USE DEF BaseInv, Keeps, Stabilize, control
<1>1. CASE \E M \in SectionRegions(seeds), v \in T : Resolve(M, v)
  <2>1. PICK M \in SectionRegions(seeds), v \in T : Resolve(M, v)
    BY <1>1
  <2>2. M \subseteq Live
    BY DEF SectionRegions
  <2>3. QED  BY <2>1, <2>2, ResolveKeeps DEF TypeOK
<1>2. CASE Unresolved /\ Tick
  <2>1. TypeOK'
    BY <1>2 DEF TypeOK, Tick, Unresolved
  <2>2. Kept
    BY <1>2 DEF Kept, SlotsDistinct, Slotted, CacheCoherent, Live, Unresolved
  <2>3. QED  BY <2>1, <2>2
<1>3. QED  BY <1>1, <1>2

LEMMA StabilizeSectionKeeps ==
  ASSUME BaseInv, StabilizeSection
  PROVE  Keeps
<1> USE DEF BaseInv, Keeps, StabilizeSection, control
<1>1. sections' \in Seq(SUBSET Uid)
  BY HeadTailProperties DEF TypeOK
<1>2. CASE \E M \in SectionRegions(Head(sections)), v \in T : Resolve(M, v)
  <2>1. PICK M \in SectionRegions(Head(sections)), v \in T : Resolve(M, v)
    BY <1>2
  <2>2. M \subseteq Live
    BY DEF SectionRegions
  <2>3. QED  BY <1>1, <2>1, <2>2, ResolveKeeps DEF TypeOK
<1>3. CASE Unresolved /\ UNCHANGED seen
  <2>1. TypeOK'
    BY <1>1, <1>3 DEF TypeOK, Unresolved
  <2>2. Kept
    BY <1>3 DEF Kept, SlotsDistinct, Slotted, CacheCoherent, Live, Unresolved
  <2>3. QED  BY <2>1, <2>2
<1>4. QED  BY <1>2, <1>3

-----------------------------------------------------------------------------
(* The drain *)

\* What every step that takes an item leaves alone or counts.
LEMMA StepType ==
  ASSUME TypeOK, NEW op, Step(op)
  PROVE  /\ steps' \in 0 .. MaxSteps /\ queue # <<>> /\ Head(queue).op = op
         /\ UNCHANGED <<kind, edges, idx, pairs, ordered, indices, modes, pc, victim>>
BY EngineAssumption DEF Step, TakesItem, TypeOK, EngineAssumption, control

LEMMA PushIdleKeeps ==
  ASSUME BaseInv, PushIdle
  PROVE  Keeps
<1> USE DEF BaseInv, Keeps, PushIdle
<1>1. TypeOK'
  BY StepType, ItemType DEF TypeOK
<1>2. Kept
  BY StepType DEF Kept, SlotsDistinct, Slotted, CacheCoherent, Live
<1>3. QED  BY <1>1, <1>2

LEMMA PushReadyKeeps ==
  ASSUME BaseInv, NEW refused \in SUBSET (Uid \X Uid), PushReadyTo(refused)
  PROVE  Keeps
<1> DEFINE n == Head(queue).node
           subs == {s \in OpenSubs(n, demanded) : <<n, s>> \notin refused}
<1> USE DEF BaseInv, Keeps
<1>1. /\ Step("Push") /\ Computes(n)
      /\ UNCHANGED <<demanded, sections>>
      /\ \/ /\ queue' = Tail(queue)
            /\ UNCHANGED <<value, cache, counters, seen>>
         \/ /\ Write(n, ReadyValue(n))
            /\ PushSubs(n, subs, Tail(queue), seen)
  BY DEF PushReadyTo
<1>2. n \in Live /\ n \in Uid
  BY <1>1 DEF Computes, Live
<1>3. Tail(queue) \in Seq(WorkItem)
  BY <1>1, StepType, ItemType
<1>4. CASE /\ queue' = Tail(queue)
           /\ UNCHANGED <<value, cache, counters, seen>>
  <2>1. TypeOK'
    BY <1>1, <1>3, <1>4, StepType DEF TypeOK
  <2>2. Kept
    BY <1>1, <1>4, StepType DEF Kept, SlotsDistinct, Slotted, CacheCoherent, Live
  <2>3. QED  BY <2>1, <2>2
<1>5. CASE /\ Write(n, ReadyValue(n))
           /\ PushSubs(n, subs, Tail(queue), seen)
  <2>1. subs \subseteq Uid /\ seen \subseteq Uid \X Uid
    BY DEF OpenSubs, Subs, TypeOK
  <2>2. queue' \in Seq(WorkItem) /\ seen' \subseteq Uid \X Uid
    BY <1>2, <1>3, <1>5, <2>1, PushSubsType
  <2>3. ReadyValue(n) \in T
    BY <1>1, <1>2, ReadyValueType
  <2>4. /\ value' \in [Uid -> T] /\ counters' \in [Uid -> [T -> Nat]]
        /\ cache' \in Seq(T) /\ Len(cache') = Len(cache)
        /\ Kept
    BY <1>1, <1>2, <1>5, <2>3, StepType, WriteKeeps
  <2>5. TypeOK'
    BY <1>1, <2>2, <2>4, StepType DEF TypeOK
  <2>6. QED  BY <2>4, <2>5
<1>6. QED  BY <1>1, <1>4, <1>5

LEMMA PushConflictedKeeps ==
  ASSUME BaseInv, NEW refused \in SUBSET (Uid \X Uid), PushConflictedTo(refused)
  PROVE  Keeps
<1> DEFINE n == Head(queue).node
           subs == {s \in OpenSubs(n, demanded) : <<n, s>> \notin refused}
           section == ToSet(ordered[n]) \cup {n}
<1> USE DEF BaseInv, Keeps
<1>1. /\ Step("Push") /\ Computes(n)
      /\ UNCHANGED demanded
      /\ IF value[n] = "Zero" THEN UNCHANGED <<value, cache, counters>>
                              ELSE Write(n, "Zero")
      /\ \/ /\ PushSubs(n, subs, Tail(queue), seen)
            /\ UNCHANGED sections
         \/ /\ queue' = Tail(queue)
            /\ UNCHANGED <<seen, sections>>
         \/ /\ queue' = Append(Tail(queue), StabilizeItem(section))
            /\ sections' = Append(sections, section)
            /\ UNCHANGED seen
  BY DEF PushConflictedTo
<1>2. n \in Live /\ n \in Uid
  BY <1>1 DEF Computes, Live
<1>3. Tail(queue) \in Seq(WorkItem)
  BY <1>1, StepType, ItemType
<1>4. /\ value' \in [Uid -> T] /\ counters' \in [Uid -> [T -> Nat]]
      /\ cache' \in Seq(T) /\ Len(cache') = Len(cache)
      /\ Kept
  <2>1. CASE value[n] = "Zero"
    BY <1>1, <2>1, StepType DEF TypeOK, Kept, SlotsDistinct, Slotted, CacheCoherent, Live
  <2>2. CASE value[n] # "Zero"
    BY <1>1, <1>2, <2>2, StepType, WriteKeeps DEF T
  <2>3. QED  BY <2>1, <2>2
<1>5. queue' \in Seq(WorkItem) /\ seen' \subseteq Uid \X Uid
      /\ sections' \in Seq(SUBSET Uid)
  <2>1. section \in SUBSET Uid
    BY <1>2, ElementOfSeq DEF TypeOK, ToSet
  <2>2. CASE /\ PushSubs(n, subs, Tail(queue), seen)
             /\ UNCHANGED sections
    <3>1. subs \subseteq Uid /\ seen \subseteq Uid \X Uid
      BY DEF OpenSubs, Subs, TypeOK
    <3>2. QED  BY <1>2, <1>3, <2>2, <3>1, PushSubsType DEF TypeOK
  <2>3. CASE /\ queue' = Tail(queue)
             /\ UNCHANGED <<seen, sections>>
    BY <1>3, <2>3 DEF TypeOK
  <2>4. CASE /\ queue' = Append(Tail(queue), StabilizeItem(section))
             /\ sections' = Append(sections, section)
             /\ UNCHANGED seen
    <3>1. StabilizeItem(section) \in WorkItem
      BY <2>1 DEF StabilizeItem, WorkItem
    <3>2. QED  BY <1>3, <2>1, <2>4, <3>1, AppendProperties DEF TypeOK
  <2>5. QED  BY <1>1, <2>2, <2>3, <2>4
<1>6. TypeOK'
  BY <1>1, <1>4, <1>5, StepType DEF TypeOK
<1>7. QED  BY <1>4, <1>6

LEMMA StepDemandKeeps ==
  ASSUME BaseInv, StepDemand
  PROVE  Keeps
<1> DEFINE n == Head(queue).node
           pending == {d \in Deps(n) : value[d] = "Neg"}
<1> USE DEF BaseInv, Keeps
<1>1. Step("Demand") /\ UNCHANGED <<value, cache, counters, seen, sections>>
  BY DEF StepDemand
<1>2. n \in Uid /\ Tail(queue) \in Seq(WorkItem)
  BY <1>1, StepType, ItemType
<1>3. demanded' \subseteq Uid
  BY <1>2 DEF StepDemand, TypeOK
<1>4. queue' \in Seq(WorkItem)
  <2>1. PICK front \in [1 .. Cardinality(pending) -> pending] :
          queue' = [i \in DOMAIN front |-> DemandItem(front[i])]
                     \o Append(Tail(queue), PushItem(n))
    BY Zenon DEF StepDemand, InOrder
  <2>2. pending \subseteq Uid
    BY DEF Deps
  <2>3. Cardinality(pending) \in Nat
    BY <2>2, FS_Subset, FS_CardinalityType, EngineAssumption DEF EngineAssumption
  <2>4. [i \in DOMAIN front |-> DemandItem(front[i])] \in Seq(WorkItem)
    <3>1. [i \in DOMAIN front |-> DemandItem(front[i])]
            \in [1 .. Cardinality(pending) -> WorkItem]
      BY <2>1, <2>2 DEF DemandItem, WorkItem
    <3>2. QED  BY <2>3, <3>1, FunctionIsSeq
  <2>5. PushItem(n) \in WorkItem
    BY <1>2 DEF PushItem, WorkItem
  <2>6. QED  BY <1>2, <2>1, <2>4, <2>5, AppendProperties, ConcatProperties
<1>5. TypeOK'
  BY <1>1, <1>3, <1>4, StepType DEF TypeOK
<1>6. Kept
  BY <1>1, StepType DEF Kept, SlotsDistinct, Slotted, CacheCoherent, Live
<1>7. QED  BY <1>5, <1>6

LEMMA StepStabilizeKeeps ==
  ASSUME BaseInv, StepStabilize
  PROVE  Keeps
<1> USE DEF BaseInv, Keeps, StepStabilize
<1>1. /\ Tail(queue) \in Seq(WorkItem)
      /\ Append(sections, Head(queue).region) \in Seq(SUBSET Uid)
  BY StepType, ItemType, AppendProperties DEF TypeOK
<1>2. TypeOK'
  BY <1>1, StepType DEF TypeOK
<1>3. Kept
  BY StepType DEF Kept, SlotsDistinct, Slotted, CacheCoherent, Live
<1>4. QED  BY <1>2, <1>3

\* The steps that end a drain, or start it over, touch no node.
LEMMA EndKeeps ==
  ASSUME BaseInv, StepLimit \/ DrainEnds \/ DrainAgain
  PROVE  Keeps
<1> USE DEF BaseInv, Keeps, StepLimit, DrainEnds, DrainAgain, graphVars, storeVars, depVars, propVars
<1>1. queue' \in Seq(WorkItem)
  BY ItemType DEF TypeOK
<1>2. sections' \in Seq(SUBSET Uid)
  BY EmptySeq DEF TypeOK
<1>3. steps' \in 0 .. MaxSteps
  BY EngineAssumption DEF EngineAssumption, TypeOK
<1>4. TypeOK'
  BY <1>1, <1>2, <1>3 DEF TypeOK
<1>5. Kept
  BY DEF Kept, SlotsDistinct, Slotted, CacheCoherent, Live
<1>6. QED  BY <1>4, <1>5

-----------------------------------------------------------------------------
(* The invariant *)

\* The ids created before the run have a slot each, in order of creation.
LEMMA SlotOfType ==
  ASSUME NEW n \in Uid
  PROVE  /\ SlotOf(n) \in 0 .. Len(Created)
         /\ SlotOf(n) # 0 <=> n \in ToSet(Created)
         /\ SlotOf(n) # 0 => Created[SlotOf(n)] = n
<1>1. Created \in Seq(Uid)
  BY EngineAssumption DEF EngineAssumption
<1>2. DOMAIN Created = 1 .. Len(Created) /\ Len(Created) \in Nat
  BY <1>1, LenProperties
<1>3. CASE n \in ToSet(Created)
  <2>1. \E i \in DOMAIN Created : Created[i] = n
    BY <1>3 DEF ToSet
  <2>2. SlotOf(n) \in DOMAIN Created /\ Created[SlotOf(n)] = n
    BY <1>3, <2>1 DEF SlotOf
  <2>3. QED  BY <1>2, <1>3, <2>2
<1>4. CASE n \notin ToSet(Created)
  BY <1>2, <1>4 DEF SlotOf
<1>5. QED  BY <1>3, <1>4

\* A topology of the instance starts the engine in the invariant.
LEMMA InitHolds ==
  ASSUME Init
  PROVE  IInv
<1>1. PICK t \in Topologies : InitTopology(t)
  BY DEF Init, Fresh
<1>2. /\ t.kind \in [Uid -> Kind] /\ t.mode \in [Uid -> ExecMode]
      /\ t.wiring \in [Uid -> Seq(Uid)]
      /\ Created \in Seq(Uid) /\ Len(Created) \in Nat
      /\ \A n \in Uid : \A i \in DOMAIN t.wiring[n] : t.wiring[n][i] \in ToSet(Created)
  BY EngineAssumption, LenProperties DEF EngineAssumption, Topology
<1>3. cache \in Seq(T) /\ Len(cache) = Len(Created)
      /\ \A i \in 1 .. Len(Created) : cache[i] = "Neg"
  <2>1. DOMAIN Created = 1 .. Len(Created)
    BY <1>2, LenProperties
  <2>2. cache = [i \in 1 .. Len(Created) |-> "Neg"]
    BY <2>1 DEF Init, Fresh
  <2>3. cache \in [1 .. Len(Created) -> T]
    BY <2>2 DEF T
  <2>4. cache \in Seq(T)
    BY <1>2, <2>3, FunctionIsSeq
  <2>5. Len(cache) = Len(Created)
    BY <1>2, <2>2, <2>4, LenProperties
  <2>6. QED  BY <2>2, <2>4, <2>5
<1>4. idx = [n \in Uid |-> SlotOf(n)] /\ value = [n \in Uid |-> "Neg"]
  BY DEF Init, Fresh
<1>5. TypeOK
  <2>1. kind \in [Uid -> Kind \cup {Absent}] /\ modes \in [Uid -> ExecMode]
        /\ value \in [Uid -> T]
    BY <1>1, <1>2, <1>4 DEF InitTopology, T
  <2>2. edges \subseteq Edge
    <3> SUFFICES ASSUME NEW e \in edges
                 PROVE  e \in Edge
      OBVIOUS
    <3>1. PICK n \in Uid : \E i \in DOMAIN t.wiring[n] :
            e = [id |-> <<n, i>>, src |-> t.wiring[n][i], tgt |-> n,
                 port |-> "Signal", remote |-> FALSE]
      BY <1>1 DEF InitTopology
    <3>2. PICK i \in DOMAIN t.wiring[n] :
            e = [id |-> <<n, i>>, src |-> t.wiring[n][i], tgt |-> n,
                 port |-> "Signal", remote |-> FALSE]
      BY <3>1
    <3>3. i \in Nat /\ t.wiring[n][i] \in Uid
      <4>1. t.wiring[n] \in Seq(Uid) /\ DOMAIN t.wiring[n] = 1 .. Len(t.wiring[n])
        BY <1>2, LenProperties
      <4>2. QED  BY <4>1, ElementOfSeq
    <3>4. QED  BY <3>2, <3>3 DEF Edge, EdgeId, PortKind
  <2>3. idx \in [Uid -> 0 .. Len(cache)]
    BY <1>3, <1>4, SlotOfType
  <2>4. pairs \subseteq Uid \X Uid /\ ordered \in [Uid -> Seq(Uid)]
    BY <1>1, <1>2 DEF InitTopology
  <2>5. indices \in [Uid -> Seq(1 .. Len(cache))]
    <3> SUFFICES ASSUME NEW n \in Uid
                 PROVE  [i \in DOMAIN t.wiring[n] |-> SlotOf(t.wiring[n][i])]
                          \in Seq(1 .. Len(cache))
      BY <1>1 DEF InitTopology
    <3>1. t.wiring[n] \in Seq(Uid)
      BY <1>2
    <3>2. DOMAIN t.wiring[n] = 1 .. Len(t.wiring[n]) /\ Len(t.wiring[n]) \in Nat
      BY <3>1, LenProperties
    <3>3. \A i \in 1 .. Len(t.wiring[n]) : SlotOf(t.wiring[n][i]) \in 1 .. Len(cache)
      <4> SUFFICES ASSUME NEW i \in 1 .. Len(t.wiring[n])
                   PROVE  SlotOf(t.wiring[n][i]) \in 1 .. Len(cache)
        OBVIOUS
      <4>1. t.wiring[n][i] \in Uid
        BY <3>1, ElementOfSeq
      <4>2. t.wiring[n][i] \in ToSet(Created)
        BY <1>2, <3>2
      <4>3. SlotOf(t.wiring[n][i]) \in 0 .. Len(Created) /\ SlotOf(t.wiring[n][i]) # 0
        BY <4>1, <4>2, SlotOfType
      <4>4. QED  BY <1>2, <1>3, <4>3
    <3>4. [i \in DOMAIN t.wiring[n] |-> SlotOf(t.wiring[n][i])]
            \in [1 .. Len(t.wiring[n]) -> 1 .. Len(cache)]
      BY <3>2, <3>3
    <3>5. QED  BY <3>2, <3>4, FunctionIsSeq
  <2>6. counters \in [Uid -> [T -> Nat]]
    <3>1. \A n \in Uid : Len(t.wiring[n]) \in Nat
      BY <1>2, LenProperties
    <3>2. QED  BY <1>1, <3>1 DEF InitTopology, NoDeps
  <2>7. /\ seen = {} /\ queue = <<>> /\ demanded = {} /\ sections = <<>>
        /\ steps = 0 /\ pc = "idle" /\ victim = {}
    BY DEF Init, Fresh
  <2>8. steps \in 0 .. MaxSteps
    BY <2>7, EngineAssumption DEF EngineAssumption
  <2>9. QED  BY <1>3, <2>1, <2>2, <2>3, <2>4, <2>5, <2>6, <2>7, <2>8, EmptySeq DEF TypeOK
<1>6. SlotsDistinct
  <2> SUFFICES ASSUME NEW m \in Uid, NEW n \in Uid, idx[m] # 0, idx[m] = idx[n]
               PROVE  m = n
    BY DEF SlotsDistinct
  <2>1. Created[idx[m]] = m /\ Created[idx[n]] = n
    BY <1>4, SlotOfType
  <2>2. QED  BY <2>1
<1>7. CacheCoherent
  <2> SUFFICES ASSUME NEW n \in Live
               PROVE  idx[n] # 0 /\ cache[idx[n]] = value[n]
    BY DEF CacheCoherent
  <2>1. n \in Uid /\ n \in ToSet(Created)
    BY <1>1 DEF InitTopology, Live
  <2>2. SlotOf(n) \in 0 .. Len(Created) /\ SlotOf(n) # 0
    BY <2>1, SlotOfType
  <2>3. idx[n] = SlotOf(n) /\ value[n] = "Neg"
    BY <1>4, <2>1
  <2>4. QED  BY <1>2, <1>3, <2>2, <2>3
<1>8. QED  BY <1>5, <1>6, <1>7 DEF IInv

\* The operands of an operation have the types of its fields.
LEMMA OperandType ==
  ASSUME NEW c \in IsaOp
  PROVE  /\ c.op = "NodeCreate" => c.node \in Uid /\ c.kind \in Kind
         /\ c.op = "EdgeConnect" => c.edge \in Edge
         /\ c.op = "Subscribe" => c.src \in Uid /\ c.sub \in Uid
         /\ c.op = "SetValue" => c.node \in Uid /\ c.val \in T
         /\ c.op = "SetMode" => c.node \in Uid /\ c.mode \in ExecMode
         /\ c.op \in {"Propagate", "Demand", "DelNode", "Reflect"} => c.node \in Uid
BY DEF IsaOp

LEMMA CallKeeps ==
  ASSUME BaseInv, Call
  PROVE  Keeps
<1>1. PICK c \in IsaOp : Apply(c)
  BY EngineAssumption DEF Call, EngineAssumption
<1>2. CASE c.op = "NodeCreate" /\ NodeCreate(c.node, c.kind)
  BY <1>2, OperandType, NodeCreateKeeps
<1>3. CASE c.op = "EdgeConnect" /\ EdgeConnect(c.edge)
  BY <1>3, OperandType, EdgeConnectKeeps
<1>4. CASE c.op = "Subscribe" /\ SubscribeOp(c.src, c.sub)
  BY <1>4, OperandType, SubscribeOpKeeps
<1>5. CASE c.op = "SetValue" /\ SetValue(c.node, c.val)
  BY <1>5, OperandType, WriteAndPushKeeps DEF SetValue
<1>6. CASE c.op = "Propagate" /\ Request(PushItem(c.node))
  <2>1. PushItem(c.node) \in WorkItem
    BY <1>6, OperandType DEF PushItem, WorkItem
  <2>2. QED  BY <1>6, <2>1, RequestKeeps
<1>7. CASE c.op = "DelNode" /\ DelNode(c.node)
  BY <1>7, OperandType, DelNodeKeeps
<1>8. CASE c.op = "DelEdge" /\ DelEdge(c.id)
  BY <1>8, DelEdgeKeeps
<1>9. CASE c.op = "Demand" /\ Request(DemandItem(c.node))
  <2>1. DemandItem(c.node) \in WorkItem
    BY <1>9, OperandType DEF DemandItem, WorkItem
  <2>2. QED  BY <1>9, <2>1, RequestKeeps
<1>10. CASE c.op = "SetMode" /\ SetMode(c.node, c.mode)
  BY <1>10, OperandType, SetModeKeeps
<1>11. CASE c.op = "Reflect" /\ Reflect(c.node)
  <2>1. c.node \in Uid /\ mv_neg(value[c.node]) \in T
    BY <1>11, OperandType, TernaryType DEF BaseInv, TypeOK
  <2>2. QED  BY <1>11, <2>1, WriteAndPushKeeps DEF Reflect
<1>12. CASE c.op = "Reflect" /\ ReflectMissing(c.node)
  BY <1>12, OperandType, ReflectMissingKeeps
<1>13. CASE c.op = "Stabilize" /\ Stabilize(c.region)
  BY <1>13, StabilizeKeeps
<1>14. CASE c.op = "StabilizeAll" /\ Stabilize(ZeroNodes)
  BY <1>14, StabilizeKeeps
<1>15. QED
  BY <1>1, <1>2, <1>3, <1>4, <1>5, <1>6, <1>7, <1>8, <1>9, <1>10, <1>11, <1>12,
     <1>13, <1>14 DEF Apply

LEMMA NextKeepsBase ==
  ASSUME BaseInv, [Next]_vars
  PROVE  Keeps
<1>1. CASE Call
  BY <1>1, CallKeeps
<1>2. CASE DropEdge \/ DropNode
  BY <1>2, DropEdgeKeeps, DropNodeKeeps
<1>3. CASE PushIdle \/ PushReady \/ PushConflicted
  BY <1>3, PushIdleKeeps, PushReadyKeeps, PushConflictedKeeps
  DEF PushReady, PushConflicted
<1>4. CASE StepDemand \/ StepStabilize
  BY <1>4, StepDemandKeeps, StepStabilizeKeeps
<1>5. CASE StabilizeSection
  BY <1>5, StabilizeSectionKeeps
<1>6. CASE StepLimit \/ DrainEnds \/ DrainAgain
  BY <1>6, EndKeeps
<1>7. CASE UNCHANGED vars
  BY <1>7 DEF vars, graphVars, storeVars, depVars, propVars, control, BaseInv, Keeps, Kept,
              TypeOK, SlotsDistinct, Slotted, CacheCoherent, Live
<1>8. QED
  BY <1>1, <1>2, <1>3, <1>4, <1>5, <1>6, <1>7 DEF Next, Work

LEMMA NextKeeps ==
  ASSUME IInv, [Next]_vars
  PROVE  IInv'
BY CoherentSlotted, NextKeepsBase DEF IInv, Keeps, Kept

\* The inductive invariant holds, whatever the operations and the topologies.
THEOREM Invariance == Spec => []IInv
<1>1. Init => IInv
  BY InitHolds
<1>2. IInv /\ [Next]_vars => IInv'
  BY NextKeeps
<1>3. QED  BY <1>1, <1>2, PTL DEF Spec

\* Type correctness: in particular no step refers to a slot that does not exist.
THEOREM TypeCorrect == Spec => []TypeOK
<1>1. IInv => TypeOK
  BY DEF IInv
<1>2. QED  BY <1>1, Invariance, PTL

\* "ValueStore::cache[idx] and Graph::node(id).value are always identical for
\* live nodes" (value_store.rs), for any number of nodes, any sequence of
\* operations, disciplined or not, and in the middle of a drain as well.
THEOREM CacheIsCoherent == Spec => []CacheCoherent
<1>1. IInv => CacheCoherent
  BY DEF IInv
<1>2. QED  BY <1>1, Invariance, PTL

-----------------------------------------------------------------------------
(* The registries under disciplined callers *)

\* An operation that makes no node and no pair, or a caller who keeps to fresh
\* ids and pairs.
Orderly(c) == Disciplined \/ c.op \notin {"NodeCreate", "EdgeConnect", "Subscribe"}

\* What is asked of the callers; and the engine starts without repeated
\* dependencies.
Careful == /\ \A c \in Calls : Orderly(c)
           /\ \A t \in Topologies : \A n \in Uid : IsInjective(t.wiring[n])

InList(d, s) == \E i \in DOMAIN s : s[i] = d

ListsArePairs == \A n, d \in Uid : <<d, n>> \in pairs <=> InList(d, ordered[n])
ListedOnce == \A n \in Uid : IsInjective(ordered[n])
PairsLive == pairs \subseteq Live \X Live
SlotsOf(s) == [i \in DOMAIN s |-> idx[s[i]]]
SlotsParallel == \A n \in Uid : indices[n] = SlotsOf(ordered[n])

RegInv == ListsArePairs /\ ListedOnce /\ PairsLive /\ SlotsParallel

-----------------------------------------------------------------------------
(* Lists *)

\* Appending to a list.
LEMMA AppendElements ==
  ASSUME NEW S, NEW s \in Seq(S), NEW e \in S
  PROVE  /\ Len(s) \in Nat /\ DOMAIN s = 1 .. Len(s)
         /\ DOMAIN Append(s, e) = 1 .. Len(s) + 1
         /\ \A i \in 1 .. Len(s) + 1 : Append(s, e)[i] = IF i = Len(s) + 1 THEN e ELSE s[i]
  BY AppendProperties, LenProperties

\* Removing an entry from a list moves those behind it.
LEMMA WithoutElements ==
  ASSUME NEW S, NEW s \in Seq(S), NEW i \in DOMAIN s
  PROVE  /\ Len(s) \in Nat /\ DOMAIN s = 1 .. Len(s)
         /\ DOMAIN Without(s, i) = 1 .. Len(s) - 1
         /\ \A k \in 1 .. Len(s) - 1 : Without(s, i)[k] = IF k < i THEN s[k] ELSE s[k + 1]
<1>1. Len(s) \in Nat /\ DOMAIN s = 1 .. Len(s) /\ i \in 1 .. Len(s)
  BY LenProperties
<1> DEFINE front == SubSeq(s, 1, i - 1)
           back == SubSeq(s, i + 1, Len(s))
<1>2. \A k \in 1 .. Len(s) : s[k] \in S
  BY <1>1, ElementOfSeq
<1>3. /\ front \in Seq(S) /\ Len(front) = i - 1
      /\ \A k \in 1 .. i - 1 : front[k] = s[k]
  BY <1>1, <1>2, SubSeqProperties
<1>4. /\ back \in Seq(S) /\ Len(back) = Len(s) - i
      /\ \A k \in 1 .. Len(s) - i : back[k] = s[k + i]
  BY <1>1, <1>2, SubSeqProperties
<1> HIDE DEF front, back
<1>5. /\ front \o back \in Seq(S) /\ Len(front \o back) = Len(s) - 1
      /\ \A k \in 1 .. Len(s) - 1 :
           (front \o back)[k] = IF k <= i - 1 THEN front[k] ELSE back[k - (i - 1)]
  <2>1. /\ front \o back \in Seq(S) /\ Len(front \o back) = Len(front) + Len(back)
        /\ \A k \in 1 .. Len(front) + Len(back) :
             (front \o back)[k] = IF k <= Len(front) THEN front[k] ELSE back[k - Len(front)]
    BY <1>3, <1>4, ConcatProperties
  <2>2. Len(front) + Len(back) = Len(s) - 1
    BY <1>1, <1>3, <1>4
  <2>3. QED  BY <1>3, <2>1, <2>2
<1>6. Without(s, i) = front \o back
  BY DEF Without, RemoveAt, front, back
<1>7. ASSUME NEW k \in 1 .. Len(s) - 1
      PROVE  (front \o back)[k] = IF k < i THEN s[k] ELSE s[k + 1]
  <2>1. CASE k < i
    BY <1>1, <1>3, <1>5, <2>1
  <2>2. CASE ~(k < i)
    <3>1. k - (i - 1) \in 1 .. Len(s) - i /\ (k - (i - 1)) + i = k + 1
      BY <1>1, <2>2
    <3>2. back[k - (i - 1)] = s[k + 1]
      BY <1>4, <3>1
    <3>3. ~(k <= i - 1)
      BY <1>1, <2>2
    <3>4. QED  BY <1>5, <2>2, <3>2, <3>3
  <2>3. QED  BY <2>1, <2>2
<1>8. DOMAIN (front \o back) = 1 .. Len(s) - 1
  BY <1>5, LenProperties
<1>9. QED  BY <1>1, <1>6, <1>7, <1>8

\* Where an id stands in a list that has it once.
LEMMA FirstAtPlace ==
  ASSUME NEW s \in Seq(Uid), IsInjective(s), NEW d \in Uid
  PROVE  /\ InList(d, s) => FirstAt(s, d) \in DOMAIN s /\ s[FirstAt(s, d)] = d
         /\ ~InList(d, s) => FirstAt(s, d) = 0
<1>1. Len(s) \in Nat /\ DOMAIN s = 1 .. Len(s)
  BY LenProperties
<1> DEFINE I == {i \in 1 .. Len(s) : s[i] = d}
<1>2. FirstAt(s, d) = IF I # {} THEN Min(I) ELSE 0
  BY DEF FirstAt, SelectInSeq
<1>3. CASE InList(d, s)
  <2>1. PICK i \in DOMAIN s : s[i] = d
    BY <1>3 DEF InList
  <2>2. I = {i}
    BY <1>1, <2>1 DEF IsInjective
  <2>3. i \in Int
    BY <1>1
  <2>4. Min({i}) = i
    BY <2>3 DEF Min
  <2>5. QED  BY <1>2, <1>3, <2>1, <2>2, <2>4
<1>4. CASE ~InList(d, s)
  <2>1. I = {}
    BY <1>1, <1>4 DEF InList
  <2>2. QED  BY <1>2, <1>4, <2>1
<1>5. QED  BY <1>3, <1>4

\* Removing the one entry of an id leaves the others, once each.
LEMMA RemovedOnce ==
  ASSUME NEW s \in Seq(Uid), IsInjective(s), NEW d \in Uid
  PROVE  LET w == Without(s, FirstAt(s, d)) IN
         /\ w \in Seq(Uid) /\ IsInjective(w)
         /\ \A e \in Uid : InList(e, w) <=> InList(e, s) /\ e # d
<1> DEFINE i == FirstAt(s, d)
           w == Without(s, i)
<1>1. w \in Seq(Uid)
  BY WithoutType
<1>2. CASE ~InList(d, s)
  <2>1. Len(s) \in Nat /\ DOMAIN s = 1 .. Len(s) /\ i = 0
    BY <1>2, FirstAtPlace, LenProperties
  <2>2. w = s
    BY <2>1 DEF Without
  <2>3. QED  BY <1>1, <1>2, <2>2 DEF InList
<1>3. CASE InList(d, s)
  <2>1. i \in DOMAIN s /\ s[i] = d
    BY <1>3, FirstAtPlace
  <2> HIDE DEF i
  <2>2. /\ Len(s) \in Nat /\ DOMAIN s = 1 .. Len(s)
        /\ DOMAIN w = 1 .. Len(s) - 1
        /\ \A k \in 1 .. Len(s) - 1 : w[k] = IF k < i THEN s[k] ELSE s[k + 1]
    BY <2>1, WithoutElements
  <2> DEFINE to(k) == IF k < i THEN k ELSE k + 1
  <2> HIDE DEF w
  <2>3. \A k \in DOMAIN w : to(k) \in DOMAIN s /\ w[k] = s[to(k)] /\ to(k) # i
    BY <2>1, <2>2
  <2>4. \A k, l \in DOMAIN w : to(k) = to(l) => k = l
    BY <2>1, <2>2
  <2>5. IsInjective(w)
    BY <2>3, <2>4 DEF IsInjective
  <2>6. ASSUME NEW e \in Uid, InList(e, w) PROVE InList(e, s) /\ e # d
    <3>1. PICK k \in DOMAIN w : w[k] = e
      BY <2>6 DEF InList
    <3>2. QED  BY <2>1, <2>3, <3>1 DEF InList, IsInjective
  <2>7. ASSUME NEW e \in Uid, InList(e, s), e # d PROVE InList(e, w)
    <3>1. PICK k \in DOMAIN s : s[k] = e
      BY <2>7 DEF InList
    <3>2. k # i
      BY <2>1, <2>7, <3>1
    <3>3. CASE k < i
      <4>1. k \in DOMAIN w /\ w[k] = e
        BY <2>1, <2>2, <3>1, <3>3
      <4>2. QED  BY <4>1 DEF InList
    <3>4. CASE ~(k < i)
      <4>1. k - 1 \in DOMAIN w /\ ~(k - 1 < i) /\ (k - 1) + 1 = k
        BY <2>1, <2>2, <3>2, <3>4
      <4>2. w[k - 1] = e
        BY <2>2, <3>1, <4>1
      <4>3. QED  BY <4>1, <4>2 DEF InList
    <3>5. QED  BY <3>3, <3>4
  <2>8. w \in Seq(Uid)
    BY <1>1
  <2>9. QED  BY <2>5, <2>6, <2>7, <2>8 DEF w, i
<1>4. QED  BY <1>2, <1>3

\* A list and its slots lose the entry at the same place.
LEMMA WithoutParallel ==
  ASSUME NEW s \in Seq(Uid), SlotsOf(s) \in Seq(Nat), NEW i
  PROVE  Without(SlotsOf(s), i) = SlotsOf(Without(s, i))
<1>1. DOMAIN SlotsOf(s) = DOMAIN s /\ \A k \in DOMAIN s : SlotsOf(s)[k] = idx[s[k]]
  BY DEF SlotsOf
<1>2. CASE i \notin DOMAIN s
  BY <1>1, <1>2 DEF Without
<1>3. CASE i \in DOMAIN s
  <2>1. /\ Len(s) \in Nat /\ DOMAIN s = 1 .. Len(s)
        /\ DOMAIN Without(s, i) = 1 .. Len(s) - 1
        /\ \A k \in 1 .. Len(s) - 1 : Without(s, i)[k] = IF k < i THEN s[k] ELSE s[k + 1]
    BY <1>3, WithoutElements
  <2>2. i \in DOMAIN SlotsOf(s)
    BY <1>1, <1>3
  <2>3. /\ Len(SlotsOf(s)) \in Nat /\ DOMAIN SlotsOf(s) = 1 .. Len(SlotsOf(s))
        /\ DOMAIN Without(SlotsOf(s), i) = 1 .. Len(SlotsOf(s)) - 1
        /\ \A k \in 1 .. Len(SlotsOf(s)) - 1 :
             Without(SlotsOf(s), i)[k] = IF k < i THEN SlotsOf(s)[k] ELSE SlotsOf(s)[k + 1]
    BY <2>2, WithoutElements
  <2> DEFINE x == SlotsOf(s)
             y == Without(x, i)
             w == Without(s, i)
  <2>4. Len(x) = Len(s)
    <3>1. 1 .. Len(x) = 1 .. Len(s) /\ Len(x) \in Nat /\ Len(s) \in Nat
      BY <1>1, <2>1, <2>3
    <3>2. \A j, l \in Nat : j < l => l \in 1 .. l /\ l \notin 1 .. j
      OBVIOUS
    <3>3. ~(Len(x) < Len(s)) /\ ~(Len(s) < Len(x))
      BY <3>1, <3>2
    <3>4. QED  BY <3>1, <3>3
  <2>5. SlotsOf(w) = [k \in DOMAIN w |-> idx[w[k]]]
    BY DEF SlotsOf
  <2> HIDE DEF x
  <2>6. i \in 1 .. Len(s)
    BY <1>3, <2>1
  <2>7. ASSUME NEW k \in 1 .. Len(s) - 1 PROVE y[k] = idx[w[k]]
    <3>1. k \in DOMAIN s /\ k + 1 \in DOMAIN s /\ k \in 1 .. Len(x) - 1
      BY <2>1, <2>4
    <3>2. x[k] = idx[s[k]] /\ x[k + 1] = idx[s[k + 1]]
      BY <1>1, <3>1 DEF x
    <3>3. QED  BY <2>1, <2>3, <3>1, <3>2 DEF x
  <2>8. y = [k \in 1 .. Len(s) - 1 |-> y[k]]
    <3>1. y \in Seq(Nat)
      BY WithoutType DEF x
    <3>2. DOMAIN y = 1 .. Len(s) - 1
      BY <2>3, <2>4 DEF x
    <3> HIDE DEF y
    <3>3. y = [k \in DOMAIN y |-> y[k]]
      BY <3>1, LenProperties
    <3>4. QED  BY <3>2, <3>3
  <2> HIDE DEF y
  <2>9. y = [k \in 1 .. Len(s) - 1 |-> idx[w[k]]]
    BY <2>7, <2>8
  <2>10. QED  BY <2>1, <2>5, <2>9 DEF x, y
<1>4. QED  BY <1>2, <1>3
-----------------------------------------------------------------------------
(* Connections *)

LEMMA SlotsTyped ==
  ASSUME TypeOK, NEW n \in Uid
  PROVE  ordered[n] \in Seq(Uid) /\ indices[n] \in Seq(Nat)
<1>1. indices[n] \in Seq(1 .. Len(cache)) /\ Len(cache) \in Nat
  BY LenProperties DEF TypeOK
<1>2. 1 .. Len(cache) \subseteq Nat
  BY <1>1
<1>3. QED  BY <1>1, <1>2, SeqMonotonic DEF TypeOK

\* A new pair between live nodes is appended to both lists.
LEMMA SubscribeRegistry ==
  ASSUME BaseInv, RegInv, NEW src \in Live, NEW sub \in Live, <<src, sub>> \notin pairs,
         Subscribe(src, sub, idx[src], StoreGet(src)), UNCHANGED <<idx, kind>>
  PROVE  RegInv'
<1>1. src \in Uid /\ sub \in Uid /\ idx[src] # 0 /\ idx[src] \in Nat
  BY LenProperties DEF Live, BaseInv, TypeOK, Slotted
<1>2. /\ pairs' = pairs \cup {<<src, sub>>}
      /\ ordered' = [ordered EXCEPT ![sub] = Append(@, src)]
      /\ indices' = [indices EXCEPT ![sub] = Append(@, idx[src])]
  BY <1>1 DEF Subscribe
<1>3. ordered \in [Uid -> Seq(Uid)] /\ indices \in [Uid -> Seq(1 .. Len(cache))]
  BY DEF BaseInv, TypeOK
<1>4. /\ ordered[sub] \in Seq(Uid) /\ indices[sub] \in Seq(Nat)
      /\ ordered'[sub] = Append(ordered[sub], src)
      /\ indices'[sub] = Append(indices[sub], idx[src])
      /\ \A n \in Uid \ {sub} : ordered'[n] = ordered[n] /\ indices'[n] = indices[n]
  BY <1>1, <1>2, <1>3, SlotsTyped DEF BaseInv
<1>5. /\ Len(ordered[sub]) \in Nat /\ DOMAIN ordered[sub] = 1 .. Len(ordered[sub])
      /\ DOMAIN ordered'[sub] = 1 .. Len(ordered[sub]) + 1
      /\ \A i \in 1 .. Len(ordered[sub]) + 1 :
           ordered'[sub][i] = IF i = Len(ordered[sub]) + 1 THEN src ELSE ordered[sub][i]
  BY <1>1, <1>4, AppendElements
<1>6. ~InList(src, ordered[sub])
  BY <1>1 DEF RegInv, ListsArePairs
<1>7. \A d \in Uid : InList(d, ordered'[sub]) <=> InList(d, ordered[sub]) \/ d = src
  <2>1. ASSUME NEW d \in Uid, InList(d, ordered'[sub]) PROVE InList(d, ordered[sub]) \/ d = src
    <3>1. PICK i \in 1 .. Len(ordered[sub]) + 1 : ordered'[sub][i] = d
      BY <1>5, <2>1 DEF InList
    <3>2. CASE i = Len(ordered[sub]) + 1
      BY <1>5, <3>1, <3>2
    <3>3. CASE i # Len(ordered[sub]) + 1
      <4>1. i \in DOMAIN ordered[sub] /\ ordered[sub][i] = d
        BY <1>5, <3>1, <3>3
      <4>2. QED  BY <4>1 DEF InList
    <3>4. QED  BY <3>2, <3>3
  <2>2. ASSUME NEW d \in Uid, InList(d, ordered[sub]) PROVE InList(d, ordered'[sub])
    <3>1. PICK i \in 1 .. Len(ordered[sub]) : ordered[sub][i] = d
      BY <1>5, <2>2 DEF InList
    <3>2. i \in DOMAIN ordered'[sub] /\ ordered'[sub][i] = d
      BY <1>5, <3>1
    <3>3. QED  BY <3>2 DEF InList
  <2>3. InList(src, ordered'[sub])
    <3>1. Len(ordered[sub]) + 1 \in DOMAIN ordered'[sub]
      BY <1>5
    <3>2. QED  BY <1>5, <3>1 DEF InList
  <2>4. QED  BY <2>1, <2>2, <2>3
<1>8. ListsArePairs'
  <2> SUFFICES ASSUME NEW n \in Uid, NEW d \in Uid
               PROVE  <<d, n>> \in pairs' <=> InList(d, ordered'[n])
    BY DEF ListsArePairs, InList
  <2>1. <<d, n>> \in pairs <=> InList(d, ordered[n])
    BY DEF RegInv, ListsArePairs
  <2>2. CASE n = sub
    BY <1>1, <1>2, <1>7, <2>1, <2>2
  <2>3. CASE n # sub
    BY <1>2, <1>4, <2>1, <2>3
  <2>4. QED  BY <2>2, <2>3
<1>9. ListedOnce'
  <2>1. IsInjective(ordered'[sub])
    <3> SUFFICES ASSUME NEW i \in 1 .. Len(ordered[sub]) + 1,
                        NEW j \in 1 .. Len(ordered[sub]) + 1,
                        ordered'[sub][i] = ordered'[sub][j]
                 PROVE  i = j
      BY <1>5 DEF IsInjective
    <3>1. \A k \in 1 .. Len(ordered[sub]) : ordered[sub][k] # src
      BY <1>5, <1>6 DEF InList
    <3>2. IsInjective(ordered[sub])
      BY <1>1 DEF RegInv, ListedOnce
    <3>3. CASE i = Len(ordered[sub]) + 1 \/ j = Len(ordered[sub]) + 1
      BY <1>5, <3>1, <3>3
    <3>4. CASE i # Len(ordered[sub]) + 1 /\ j # Len(ordered[sub]) + 1
      <4>1. /\ i \in DOMAIN ordered[sub] /\ j \in DOMAIN ordered[sub]
            /\ ordered[sub][i] = ordered[sub][j]
        BY <1>5, <3>4
      <4>2. QED  BY <3>2, <4>1 DEF IsInjective
    <3>5. QED  BY <3>3, <3>4
  <2>2. \A n \in Uid \ {sub} : IsInjective(ordered'[n])
    BY <1>4 DEF RegInv, ListedOnce
  <2>3. QED  BY <2>1, <2>2 DEF ListedOnce, IsInjective
<1>10. PairsLive'
  BY <1>2 DEF RegInv, PairsLive, Live
<1>11. SlotsParallel'
  <2>1. ASSUME NEW n \in Uid \ {sub} PROVE indices'[n] = [i \in DOMAIN ordered'[n] |-> idx[ordered'[n][i]]]
    BY <1>4 DEF RegInv, SlotsParallel, SlotsOf
  <2>2. indices'[sub] = [i \in DOMAIN ordered'[sub] |-> idx[ordered'[sub][i]]]
    <3> DEFINE s == ordered[sub]
               x == indices[sub]
    <3>1. x = [i \in DOMAIN s |-> idx[s[i]]] /\ x \in Seq(Nat)
      BY <1>1, <1>4 DEF RegInv, SlotsParallel, SlotsOf
    <3>2. /\ Len(x) \in Nat /\ DOMAIN x = 1 .. Len(x)
          /\ DOMAIN Append(x, idx[src]) = 1 .. Len(x) + 1
          /\ \A i \in 1 .. Len(x) + 1 :
               Append(x, idx[src])[i] = IF i = Len(x) + 1 THEN idx[src] ELSE x[i]
      BY <1>1, <1>4, AppendElements
    <3>3. Len(x) = Len(s)
      <4>1. 1 .. Len(x) = 1 .. Len(s) /\ Len(s) \in Nat
        BY <1>5, <3>1, <3>2
      <4>2. \A j, l \in Nat : j < l => l \in 1 .. l /\ l \notin 1 .. j
        OBVIOUS
      <4>3. ~(Len(x) < Len(s)) /\ ~(Len(s) < Len(x))
        BY <3>2, <4>1, <4>2
      <4>4. QED  BY <3>2, <4>1, <4>3
    <3>4. \A i \in 1 .. Len(s) + 1 : Append(x, idx[src])[i] = idx[ordered'[sub][i]]
      <4>1. ASSUME NEW i \in 1 .. Len(s) PROVE x[i] = idx[s[i]]
        BY <1>5, <3>1
      <4>2. QED  BY <1>5, <3>2, <3>3, <4>1
    <3>5. Append(x, idx[src]) = [i \in 1 .. Len(s) + 1 |-> Append(x, idx[src])[i]]
      <4>1. Append(x, idx[src]) \in Seq(Nat)
        BY <1>1, <3>1, AppendProperties
      <4>2. Append(x, idx[src]) = [i \in DOMAIN Append(x, idx[src]) |-> Append(x, idx[src])[i]]
        BY <4>1, LenProperties
      <4>3. QED  BY <3>2, <3>3, <4>2
    <3>6. QED  BY <1>4, <1>5, <3>4, <3>5
  <2>3. QED  BY <2>1, <2>2 DEF SlotsParallel, SlotsOf
<1>12. QED  BY <1>8, <1>9, <1>10, <1>11 DEF RegInv

-----------------------------------------------------------------------------
(* Removals *)

\* The list of n loses d.
LEMMA ListCut ==
  ASSUME BaseInv, RegInv, NEW n \in Uid, NEW d \in Uid
  PROVE  LET w == Without(ordered[n], FirstAt(ordered[n], d)) IN
         /\ IsInjective(w)
         /\ \A e \in Uid : InList(e, w) <=> InList(e, ordered[n]) /\ e # d
         /\ Without(indices[n], FirstAt(ordered[n], d)) = SlotsOf(w)
<1>1. /\ ordered[n] \in Seq(Uid) /\ IsInjective(ordered[n])
      /\ SlotsOf(ordered[n]) \in Seq(Nat) /\ indices[n] = SlotsOf(ordered[n])
  BY SlotsTyped DEF BaseInv, RegInv, ListedOnce, SlotsParallel
<1>2. Without(SlotsOf(ordered[n]), FirstAt(ordered[n], d))
        = SlotsOf(Without(ordered[n], FirstAt(ordered[n], d)))
  BY <1>1, WithoutParallel
<1>3. QED  BY <1>1, <1>2, RemovedOnce

\* The list of one subscriber loses its pair with src.
LEMMA UnsubscribeRegistry ==
  ASSUME BaseInv, RegInv, NEW src \in Uid, NEW sub \in Uid,
         Unsubscribe(src, sub, StoreGet(src)), UNCHANGED <<idx, kind>>
  PROVE  RegInv'
<1>1. ordered \in [Uid -> Seq(Uid)] /\ indices \in [Uid -> Seq(1 .. Len(cache))]
  BY DEF BaseInv, TypeOK
<1>2. pairs' = pairs \ {<<src, sub>>}
  BY DEF Unsubscribe
<1>3. /\ ordered'[sub] = Without(ordered[sub], FirstAt(ordered[sub], src))
      /\ indices'[sub] = Without(indices[sub], FirstAt(ordered[sub], src))
      /\ \A n \in Uid \ {sub} : ordered'[n] = ordered[n] /\ indices'[n] = indices[n]
  BY <1>1 DEF Unsubscribe
<1>4. /\ IsInjective(ordered'[sub])
      /\ \A e \in Uid : InList(e, ordered'[sub]) <=> InList(e, ordered[sub]) /\ e # src
      /\ indices'[sub] = SlotsOf(ordered'[sub])
  BY <1>3, ListCut
<1>5. ListsArePairs'
  <2> SUFFICES ASSUME NEW n \in Uid, NEW e \in Uid
               PROVE  <<e, n>> \in pairs' <=> InList(e, ordered'[n])
    BY DEF ListsArePairs, InList
  <2>1. <<e, n>> \in pairs <=> InList(e, ordered[n])
    BY DEF RegInv, ListsArePairs
  <2>2. CASE n = sub
    BY <1>2, <1>4, <2>1, <2>2
  <2>3. CASE n # sub
    BY <1>2, <1>3, <2>1, <2>3
  <2>4. QED  BY <2>2, <2>3
<1>6. ListedOnce'
  BY <1>3, <1>4 DEF RegInv, ListedOnce, IsInjective
<1>7. PairsLive'
  BY <1>2 DEF RegInv, PairsLive, Live
<1>8. SlotsParallel'
  BY <1>3, <1>4 DEF RegInv, SlotsParallel, SlotsOf
<1>9. QED  BY <1>5, <1>6, <1>7, <1>8 DEF RegInv

LEMMA RemoveEdgeRegistry ==
  ASSUME BaseInv, RegInv, NEW e \in edges, RemoveEdge(e), UNCHANGED <<idx, kind>>
  PROVE  RegInv'
<1>1. e.src \in Uid /\ e.tgt \in Uid
  BY DEF BaseInv, TypeOK, Edge
<1>2. QED  BY <1>1, UnsubscribeRegistry DEF RemoveEdge

\* A node that goes leaves every list, whether an edge led there or not.
LEMMA DropNodeRegistry ==
  ASSUME BaseInv, RegInv, NEW n \in Uid, RemoveNode(n), UNCHANGED idx,
         kind' = [kind EXCEPT ![n] = Absent]
  PROVE  RegInv'
<1>1. /\ ordered \in [Uid -> Seq(Uid)] /\ kind \in [Uid -> Kind \cup {Absent}]
      /\ pairs \subseteq Uid \X Uid
  BY DEF BaseInv, TypeOK
<1>2. pairs' = {p \in pairs : n \notin {p[1], p[2]}}
  BY DEF RemoveNode
<1>3. ordered'[n] = <<>> /\ indices'[n] = <<>>
  BY DEF RemoveNode
<1>4. ASSUME NEW s \in Uid, s # n
      PROVE  /\ IsInjective(ordered'[s])
             /\ \A e \in Uid : InList(e, ordered'[s]) <=> InList(e, ordered[s]) /\ e # n
             /\ indices'[s] = SlotsOf(ordered'[s])
  <2>1. CASE s \in Subs(n)
    <3>1. /\ ordered'[s] = Without(ordered[s], FirstAt(ordered[s], n))
          /\ indices'[s] = Without(indices[s], FirstAt(ordered[s], n))
      BY <1>4, <2>1 DEF RemoveNode
    <3>2. QED  BY <3>1, ListCut
  <2>2. CASE s \notin Subs(n)
    <3>1. ordered[s] \in Seq(Uid) /\ indices[s] \in Seq(Nat)
      BY SlotsTyped DEF BaseInv
    <3>2. 0 \notin DOMAIN ordered[s] /\ 0 \notin DOMAIN indices[s]
      BY <3>1, LenProperties
    <3>3. ordered'[s] = Without(ordered[s], 0) /\ indices'[s] = Without(indices[s], 0)
      BY <1>4, <2>2 DEF RemoveNode
    <3>4. ordered'[s] = ordered[s] /\ indices'[s] = indices[s]
      BY <3>2, <3>3 DEF Without
    <3>5. ~InList(n, ordered[s])
      BY <2>2 DEF Subs, RegInv, ListsArePairs
    <3>6. IsInjective(ordered[s]) /\ indices[s] = SlotsOf(ordered[s])
      BY DEF RegInv, ListedOnce, SlotsParallel
    <3>7. QED  BY <3>4, <3>5, <3>6
  <2>3. QED  BY <2>1, <2>2
<1>5. /\ IsInjective(ordered'[n]) /\ indices'[n] = SlotsOf(ordered'[n])
      /\ \A e \in Uid : ~InList(e, ordered'[n])
  BY <1>3 DEF IsInjective, SlotsOf, InList
<1>6. ListsArePairs'
  <2> SUFFICES ASSUME NEW s \in Uid, NEW e \in Uid
               PROVE  <<e, s>> \in pairs' <=> InList(e, ordered'[s])
    BY DEF ListsArePairs, InList
  <2>1. <<e, s>> \in pairs <=> InList(e, ordered[s])
    BY DEF RegInv, ListsArePairs
  <2>2. CASE s = n
    BY <1>2, <1>5, <2>2
  <2>3. CASE s # n
    BY <1>2, <1>4, <2>1, <2>3
  <2>4. QED  BY <2>2, <2>3
<1>7. ListedOnce'
  BY <1>4, <1>5 DEF ListedOnce, IsInjective
<1>8. PairsLive'
  <2>1. \A m \in Live : m # n => m \in Live'
    BY <1>1 DEF Live
  <2>2. QED  BY <1>2, <2>1 DEF RegInv, PairsLive
<1>9. SlotsParallel'
  BY <1>4, <1>5 DEF SlotsParallel, SlotsOf
<1>10. QED  BY <1>6, <1>7, <1>8, <1>9 DEF RegInv

\* A fresh id is in no list, so that its new slot is in none.
LEMMA NodeCreateRegistry ==
  ASSUME BaseInv, RegInv, Disciplined, NEW n \in Uid, NEW k \in Kind, NodeCreate(n, k)
  PROVE  RegInv'
<1>1. /\ n \notin Live /\ k # Absent
      /\ kind' = [kind EXCEPT ![n] = k]
      /\ idx' = [idx EXCEPT ![n] = Len(cache) + 1]
      /\ UNCHANGED <<pairs, ordered, indices>>
  BY DEF NodeCreate, Alloc, Kind, Rules, Absent
<1>2. /\ ordered \in [Uid -> Seq(Uid)] /\ kind \in [Uid -> Kind \cup {Absent}]
      /\ idx \in [Uid -> 0 .. Len(cache)]
  BY DEF BaseInv, TypeOK
<1>3. ASSUME NEW s \in Uid, NEW i \in DOMAIN ordered[s] PROVE idx'[ordered[s][i]] = idx[ordered[s][i]]
  <2>1. ordered[s][i] \in Uid
    BY <1>2, ElementOfSeq, LenProperties
  <2>2. <<ordered[s][i], s>> \in pairs
    BY <2>1 DEF RegInv, ListsArePairs, InList
  <2>3. ordered[s][i] # n
    BY <1>1, <2>2 DEF RegInv, PairsLive
  <2>4. QED  BY <1>1, <1>2, <2>1, <2>3
<1>4. ASSUME NEW s \in Uid
      PROVE  indices'[s] = [i \in DOMAIN ordered'[s] |-> idx'[ordered'[s][i]]]
  <2>1. indices[s] = [i \in DOMAIN ordered[s] |-> idx[ordered[s][i]]]
    BY DEF RegInv, SlotsParallel, SlotsOf
  <2>2. QED  BY <1>1, <1>3, <2>1
<1>5. SlotsParallel'
  BY <1>4 DEF SlotsParallel, SlotsOf
<1>6. PairsLive'
  <2>1. \A m \in Live : m \in Live'
    BY <1>1, <1>2 DEF Live
  <2>2. QED  BY <1>1, <2>1 DEF RegInv, PairsLive
<1>7. ListsArePairs' /\ ListedOnce'
  BY <1>1 DEF RegInv, ListsArePairs, ListedOnce, InList, IsInjective
<1>8. QED  BY <1>5, <1>6, <1>7 DEF RegInv

LEMMA RegistryUnchanged ==
  ASSUME RegInv, UNCHANGED <<kind, idx, pairs, ordered, indices>>
  PROVE  RegInv'
  BY DEF RegInv, ListsArePairs, ListedOnce, PairsLive, SlotsParallel, SlotsOf, InList, IsInjective,
         Live

-----------------------------------------------------------------------------
(* Steps *)

LEMMA ApplyRegistry ==
  ASSUME BaseInv, RegInv, NEW c \in IsaOp, Orderly(c), Apply(c)
  PROVE  RegInv'
<1>2. CASE c.op = "NodeCreate" /\ NodeCreate(c.node, c.kind)
  BY <1>2, OperandType, NodeCreateRegistry DEF Orderly
<1>3. CASE c.op = "EdgeConnect" /\ EdgeConnect(c.edge)
  BY <1>3, SubscribeRegistry DEF EdgeConnect, storeVars, Orderly
<1>4. CASE c.op = "Subscribe" /\ SubscribeOp(c.src, c.sub)
  BY <1>4, SubscribeRegistry DEF SubscribeOp, storeVars, graphVars, Orderly
<1>5. CASE c.op = "DelEdge" /\ DelEdge(c.id)
  BY <1>5, RemoveEdgeRegistry DEF DelEdge, storeVars
<1>6. CASE \/ c.op = "SetValue" /\ SetValue(c.node, c.val)
           \/ c.op = "Reflect" /\ (Reflect(c.node) \/ ReflectMissing(c.node))
           \/ c.op = "Propagate" /\ Request(PushItem(c.node))
           \/ c.op = "Demand" /\ Request(DemandItem(c.node))
           \/ c.op = "SetMode" /\ SetMode(c.node, c.mode)
           \/ c.op = "DelNode" /\ DelNode(c.node)
           \/ c.op = "Stabilize" /\ Stabilize(c.region)
           \/ c.op = "StabilizeAll" /\ Stabilize(ZeroNodes)
  <2>1. UNCHANGED <<kind, idx, pairs, ordered, indices>>
    BY <1>6 DEF SetValue, Reflect, WriteAndPush, ReflectMissing, Request, SetMode, DelNode, Stabilize,
                graphVars, storeVars, depVars
  <2>2. QED  BY <2>1, RegistryUnchanged
<1>7. QED  BY <1>2, <1>3, <1>4, <1>5, <1>6 DEF Apply

LEMMA CallRegistry ==
  ASSUME BaseInv, RegInv, Careful, Call
  PROVE  RegInv'
<1>1. PICK c \in Calls : Apply(c)
  BY DEF Call
<1>2. c \in IsaOp /\ Orderly(c)
  BY EngineAssumption DEF EngineAssumption, Careful
<1>3. QED  BY <1>1, <1>2, ApplyRegistry

LEMMA WorkRegistry ==
  ASSUME BaseInv, RegInv, Work
  PROVE  RegInv'
<1>1. CASE DropEdge
  BY <1>1, RemoveEdgeRegistry DEF DropEdge, dangling_edges, storeVars
<1>2. CASE DropNode
  <2>1. PICK n \in victim : /\ kind' = [kind EXCEPT ![n] = Absent]
                            /\ RemoveNode(n) /\ Dealloc(n)
    BY <1>2 DEF DropNode
  <2>2. n \in Uid /\ UNCHANGED idx
    BY <2>1 DEF BaseInv, TypeOK, Dealloc
  <2>3. QED  BY <2>1, <2>2, DropNodeRegistry
<1>3. CASE PushIdle \/ PushReady \/ PushConflicted \/ StepDemand \/ StepStabilize
  <2>1. UNCHANGED <<kind, idx, pairs, ordered, indices>>
    BY <1>3 DEF PushIdle, PushReady, PushReadyTo, PushConflicted, PushConflictedTo, StepDemand,
                StepStabilize, Step
  <2>2. QED  BY <2>1, RegistryUnchanged
<1>4. CASE StepLimit \/ DrainEnds \/ StabilizeSection \/ DrainAgain
  <2>1. UNCHANGED <<kind, idx, pairs, ordered, indices>>
    BY <1>4 DEF StepLimit, DrainEnds, StabilizeSection, DrainAgain, graphVars, storeVars, depVars
  <2>2. QED  BY <2>1, RegistryUnchanged
<1>5. QED  BY <1>1, <1>2, <1>3, <1>4 DEF Work

LEMMA InitRegistry ==
  ASSUME Init, Careful
  PROVE  RegInv
<1>1. PICK t \in Topologies : InitTopology(t)
  BY DEF Init
<1>2. /\ t.kind \in [Uid -> Kind] /\ t.wiring \in [Uid -> Seq(Uid)]
      /\ \A n \in Uid : \A i \in DOMAIN t.wiring[n] : {n, t.wiring[n][i]} \subseteq ToSet(Created)
  BY EngineAssumption DEF EngineAssumption, Topology
<1>3. /\ ordered = t.wiring
      /\ pairs = {p \in Uid \X Uid : p[1] \in ToSet(t.wiring[p[2]])}
      /\ indices = [n \in Uid |-> [i \in DOMAIN t.wiring[n] |-> SlotOf(t.wiring[n][i])]]
      /\ idx = [n \in Uid |-> SlotOf(n)]
      /\ kind = [n \in Uid |-> IF n \in ToSet(Created) THEN t.kind[n] ELSE Absent]
  BY <1>1 DEF Init, Fresh, InitTopology
<1>4. ListsArePairs
  BY <1>3 DEF ListsArePairs, InList, ToSet
<1>5. ListedOnce
  BY <1>3 DEF ListedOnce, Careful
<1>6. PairsLive
  <2> SUFFICES ASSUME NEW d \in Uid, NEW n \in Uid, d \in ToSet(t.wiring[n])
               PROVE  d \in Live /\ n \in Live
    BY <1>3 DEF PairsLive
  <2>1. PICK i \in DOMAIN t.wiring[n] : t.wiring[n][i] = d
    BY DEF ToSet
  <2>2. d \in ToSet(Created) /\ n \in ToSet(Created)
    BY <1>2, <2>1
  <2>3. Absent \notin Kind
    BY DEF Absent, Kind, Rules
  <2>4. QED  BY <1>2, <1>3, <2>2, <2>3 DEF Live
<1>7. SlotsParallel
  <2> SUFFICES ASSUME NEW n \in Uid PROVE indices[n] = SlotsOf(ordered[n])
    BY DEF SlotsParallel
  <2>1. \A i \in DOMAIN t.wiring[n] : t.wiring[n][i] \in Uid
    BY <1>2, ElementOfSeq, LenProperties
  <2>2. \A i \in DOMAIN t.wiring[n] : idx[t.wiring[n][i]] = SlotOf(t.wiring[n][i])
    BY <1>3, <2>1
  <2>3. QED  BY <1>3, <2>2 DEF SlotsOf
<1>8. QED  BY <1>4, <1>5, <1>6, <1>7 DEF RegInv

\* What holds of the registries of a disciplined engine at all times.
THEOREM RegistriesAgree ==
  ASSUME Careful
  PROVE  Spec => []RegInv
<1>1. Init => IInv /\ RegInv
  BY InitHolds, InitRegistry
<1>2. IInv /\ RegInv /\ [Next]_vars => (IInv /\ RegInv)'
  <2>1. ASSUME IInv, RegInv, Next PROVE RegInv'
    BY <2>1, CallRegistry, WorkRegistry, CoherentSlotted DEF Next
  <2>2. ASSUME RegInv, UNCHANGED vars PROVE RegInv'
    BY <2>2, RegistryUnchanged DEF vars, graphVars, storeVars, depVars
  <2>3. QED  BY <2>1, <2>2, NextKeeps
<1>3. QED  BY <1>1, <1>2, PTL DEF Spec

LEMMA RegistryParallel == RegInv => IndicesParallel
  BY DEF RegInv, SlotsParallel, SlotsOf, IndicesParallel, Live

\* The slot list of a node is "parallel to ordered_deps" (deps.rs), through any
\* creations, connections, subscriptions and deletions.
THEOREM SlotListsParallel ==
  ASSUME Careful
  PROVE  Spec => []IndicesParallel
  BY RegistryParallel, RegistriesAgree, PTL

LEMMA RegistryReadsLive ==
  ASSUME TypeOK, RegInv
  PROVE  NoTombstoneRead
<1> SUFFICES ASSUME NEW n \in Live, NEW i \in DOMAIN indices[n]
             PROVE  \E m \in Live : idx[m] = indices[n][i]
  BY DEF NoTombstoneRead
<1>1. n \in Uid /\ ordered[n] \in Seq(Uid)
  BY DEF Live, TypeOK
<1>2. i \in DOMAIN ordered[n] /\ indices[n][i] = idx[ordered[n][i]]
  <2>1. indices[n] = [j \in DOMAIN ordered[n] |-> idx[ordered[n][j]]]
    BY <1>1 DEF RegInv, SlotsParallel, SlotsOf
  <2>2. QED  BY <2>1
<1>3. ordered[n][i] \in Uid
  BY <1>1, <1>2, ElementOfSeq, LenProperties
<1>4. <<ordered[n][i], n>> \in pairs
  BY <1>1, <1>2, <1>3 DEF RegInv, ListsArePairs, InList
<1>5. ordered[n][i] \in Live
  BY <1>4 DEF RegInv, PairsLive
<1>6. QED  BY <1>2, <1>5

\* "No live dep list will ever reference a tombstone slot" (value_store.rs).
THEOREM NoTombstones ==
  ASSUME Careful
  PROVE  Spec => []NoTombstoneRead
<1>1. TypeOK /\ RegInv => NoTombstoneRead
  BY RegistryReadsLive
<1>2. QED  BY <1>1, RegistriesAgree, TypeCorrect, PTL
-----------------------------------------------------------------------------
(* The counters *)

\* Nothing stabilizes: no call asks for it, and no node gets the mode in which
\* a conflict does.  (A resolved section leaves the counters alone.)
Unstabilized ==
  /\ \A c \in Calls : /\ c.op \notin {"Stabilize", "StabilizeAll"}
                      /\ c.op = "SetMode" => c.mode # "Stabilizing"
                      /\ c.op = "EdgeConnect" => c.edge.port # "Bond"
  /\ \A t \in Topologies, n \in Uid : t.mode[n] # "Stabilizing"

NodeItem == [op : {"Push", "Demand"}, node : Uid]

NoSections == /\ queue \in Seq(NodeItem)
              /\ sections = <<>>
              /\ modes \in [Uid -> {"Eager", "Lazy"}]

\* An edge has a pair of its own, so that a pair is unsubscribed once.
EdgesPaired ==
  /\ \A e \in edges : <<e.src, e.tgt>> \in pairs
  /\ \A e, f \in edges : e.src = f.src /\ e.tgt = f.tgt => e = f

Showing(n, v) == {d \in Deps(n) : value[d] = v}

\* The counters of a node count every dependency at least, with its value.
\* They may count more: what a deleted dependency contributed is kept.
Counts(n) == \A v \in T : counters[n][v] >= Cardinality(Showing(n, v))

\* Counters that count, of the nodes of D, those that show each value.
Covers(c, D, shown) == \A v \in T : c[v] >= Cardinality({d \in D : shown[d] = v})

Counted == \A n \in Uid : Counts(n)

CountInv == EdgesPaired /\ Counted

\* Every set of ids is finite.
LEMMA UidsFinite ==
  ASSUME NEW S \in SUBSET Uid
  PROVE  IsFiniteSet(S) /\ Cardinality(S) \in Nat
  BY FS_Subset, FS_CardinalityType, EngineAssumption DEF EngineAssumption

\* What counters do when an entry moves.
LEMMA CounterMoves ==
  ASSUME NEW c \in [T -> Nat], NEW v \in T, NEW w \in T, NEW u \in T
  PROVE  /\ CounterAdd(c, v)[u] = IF u = v THEN c[u] + 1 ELSE c[u]
         /\ c[v] >= 1 => CounterRemove(c, v)[u] = IF u = v THEN c[u] - 1 ELSE c[u]
         /\ c[v] >= 1 /\ v # w =>
              CounterUpdate(c, v, w)[u] = CASE u = v -> c[u] - 1
                                            [] u = w -> c[u] + 1
                                            [] OTHER -> c[u]
<1>1. \A d \in [T -> Nat] : CounterAdd(d, v)[u] = IF u = v THEN d[u] + 1 ELSE d[u]
  BY DEF CounterAdd
<1>2. c[v] >= 1 => CounterRemove(c, v)[u] = IF u = v THEN c[u] - 1 ELSE c[u]
  BY DEF CounterRemove
<1>3. ASSUME c[v] >= 1, v # w
      PROVE  CounterUpdate(c, v, w)[u] = CASE u = v -> c[u] - 1
                                           [] u = w -> c[u] + 1
                                           [] OTHER -> c[u]
  <2>1. CounterRemove(c, v) \in [T -> Nat]
    BY CounterType
  <2>2. CounterUpdate(c, v, w) = CounterAdd(CounterRemove(c, v), w)
    BY <1>3 DEF CounterUpdate
  <2>3. CounterAdd(CounterRemove(c, v), w)[u]
          = IF u = w THEN CounterRemove(c, v)[u] + 1 ELSE CounterRemove(c, v)[u]
    BY <2>1 DEF CounterAdd
  <2>4. c[u] \in Nat
    OBVIOUS
  <2>5. QED  BY <1>2, <1>3, <2>2, <2>3, <2>4
<1>4. QED  BY <1>1, <1>2, <1>3

LEMMA ShowingFinite ==
  ASSUME NEW n, NEW v
  PROVE  /\ Showing(n, v) \subseteq Uid
         /\ IsFiniteSet(Showing(n, v)) /\ Cardinality(Showing(n, v)) \in Nat
<1>1. Showing(n, v) \subseteq Uid
  BY DEF Showing, Deps
<1>2. QED  BY <1>1, UidsFinite

\* A node that shows another value moves from one count to the other.
LEMMA UpdateCovers ==
  ASSUME NEW D \in SUBSET Uid, NEW shown \in [Uid -> T], NEW c \in [T -> Nat], Covers(c, D, shown),
         NEW n \in D, NEW w \in T
  PROVE  Covers(CounterUpdate(c, shown[n], w), D, [shown EXCEPT ![n] = w])
<1> SUFFICES ASSUME NEW v \in T
             PROVE  CounterUpdate(c, shown[n], w)[v]
                      >= Cardinality({d \in D : [shown EXCEPT ![n] = w][d] = v})
  BY DEF Covers
<1> DEFINE old == shown[n]
           S(u) == {d \in D : shown[d] = u}
           S2 == {d \in D : [shown EXCEPT ![n] = w][d] = v}
<1>1. n \in Uid /\ old \in T /\ \A u \in T : c[u] \in Nat /\ c[u] >= Cardinality(S(u))
  BY DEF Covers
<1>2. S2 = {d \in D : IF d = n THEN w = v ELSE shown[d] = v}
  OBVIOUS
<1>3. \A u : IsFiniteSet(S(u)) /\ Cardinality(S(u)) \in Nat
  BY UidsFinite
<1>4. CASE old = w
  <2>1. S2 = S(v)
    BY <1>2, <1>4
  <2>2. CounterUpdate(c, old, w) = c
    BY <1>4 DEF CounterUpdate
  <2>3. QED  BY <1>1, <2>1, <2>2
<1>5. CASE old # w
  <2>1. c[old] >= 1
    <3>1. n \in S(old)
      OBVIOUS
    <3>2. Cardinality(S(old)) # 0
      BY <1>3, <3>1, FS_EmptySet
    <3>3. c[old] >= Cardinality(S(old)) /\ c[old] \in Nat /\ Cardinality(S(old)) \in Nat
      BY <1>1, <1>3
    <3> HIDE DEF S, old
    <3>4. QED  BY <3>2, <3>3
  <2>2. CounterUpdate(c, old, w)[v] = CASE v = old -> c[v] - 1 [] v = w -> c[v] + 1 [] OTHER -> c[v]
    BY <1>1, <1>5, <2>1, CounterMoves
  <2>3. c[v] \in Nat /\ c[v] >= Cardinality(S(v)) /\ IsFiniteSet(S(v)) /\ Cardinality(S(v)) \in Nat
    BY <1>1, <1>3
  <2>4. CASE v = old
    <3>1. S2 = S(v) \ {n} /\ n \in S(v)
      BY <1>2, <1>5, <2>4
    <3> HIDE DEF S, S2, old
    <3>2. Cardinality(S(v) \ {n}) = Cardinality(S(v)) - 1
      BY <2>3, <3>1, FS_RemoveElement
    <3>3. CounterUpdate(c, old, w)[v] = c[v] - 1
      BY <1>5, <2>2, <2>4
    <3>4. QED  BY <2>3, <3>1, <3>2, <3>3 DEF S2, old
  <2>5. CASE v = w
    <3>1. S2 = S(v) \cup {n} /\ n \notin S(v)
      BY <1>2, <1>5, <2>5
    <3> HIDE DEF S, S2, old
    <3>2. Cardinality(S(v) \cup {n}) = Cardinality(S(v)) + 1
      BY <2>3, <3>1, FS_AddElement
    <3>3. CounterUpdate(c, old, w)[v] = c[v] + 1
      BY <1>5, <2>2, <2>5
    <3>4. CounterUpdate(c, old, w)[v] >= Cardinality(S2)
      BY <2>3, <3>1, <3>2, <3>3
    <3>5. QED  BY <3>4 DEF S2, old
  <2>6. CASE v # old /\ v # w
    <3>1. S2 = S(v)
      BY <1>2, <2>6
    <3>2. CounterUpdate(c, old, w)[v] = c[v]
      BY <2>2, <2>6
    <3>3. QED  BY <2>3, <3>1, <3>2
  <2>7. QED  BY <2>4, <2>5, <2>6
<1>6. QED  BY <1>4, <1>5

LEMMA CountsCover ==
  ASSUME NEW n
  PROVE  Counts(n) <=> Covers(counters[n], Deps(n), value)
  BY DEF Counts, Covers, Showing

\* What the dependencies outside D show does not count.
LEMMA CoversSame ==
  ASSUME NEW D, NEW c, NEW shown, NEW other, Covers(c, D, shown), \A d \in D : shown[d] = other[d]
  PROVE  Covers(c, D, other)
<1>1. \A v : {d \in D : shown[d] = v} = {d \in D : other[d] = v}
  OBVIOUS
<1>2. QED  BY <1>1 DEF Covers

\* A written value moves the node from one count to another, in the counters
\* of each of its subscribers.
LEMMA WriteCounted ==
  ASSUME TypeOK, NEW s \in Uid, Counts(s), NEW n \in Uid, NEW w \in T, Write(n, w), UNCHANGED pairs
  PROVE  Counts(s)'
<1>1. /\ counters[s] \in [T -> Nat] /\ value \in [Uid -> T] /\ Deps(s) \subseteq Uid
      /\ Covers(counters[s], Deps(s), value)
  BY CountsCover DEF TypeOK, Deps
<1>2. Deps(s)' = Deps(s) /\ value' = [value EXCEPT ![n] = w]
  BY DEF Write, Deps
<1>3. counters'[s] = IF n \in Deps(s) THEN CounterUpdate(counters[s], value[n], w) ELSE counters[s]
  BY DEF Write, Recount, Subs, Deps
<1>4. Covers(counters'[s], Deps(s), [value EXCEPT ![n] = w])
  <2>1. CASE n \in Deps(s)
    <3>1. Deps(s) \in SUBSET Uid
      BY <1>1
    <3>2. Covers(CounterUpdate(counters[s], value[n], w), Deps(s), [value EXCEPT ![n] = w])
      BY <1>1, <2>1, <3>1, UpdateCovers
    <3>3. QED  BY <1>3, <2>1, <3>2
  <2>2. CASE n \notin Deps(s)
    <3>1. \A d \in Deps(s) : value[d] = [value EXCEPT ![n] = w][d]
      BY <1>1, <2>2
    <3>2. QED  BY <1>1, <1>3, <2>2, <3>1, CoversSame
  <2>3. QED  BY <2>1, <2>2
<1>5. QED  BY <1>2, <1>4 DEF Counts, Covers, Showing

\* A new pair is counted with the value of its source.
LEMMA SubscribeCounted ==
  ASSUME TypeOK, NEW s \in Uid, Counts(s), NEW src \in Uid, NEW sub \in Uid, NEW slot,
         <<src, sub>> \notin pairs, Subscribe(src, sub, slot, value[src]), UNCHANGED value
  PROVE  Counts(s)'
<1> SUFFICES ASSUME NEW v \in T
             PROVE  counters'[s][v] >= Cardinality(Showing(s, v)')
  BY DEF Counts
<1> DEFINE S == Showing(s, v)
<1>1. /\ counters[s] \in [T -> Nat] /\ value[src] \in T /\ counters[s][v] \in Nat
      /\ counters[s][v] >= Cardinality(S)
  BY DEF TypeOK, Counts
<1>2. counters'[s] = IF s = sub THEN CounterAdd(counters[s], value[src]) ELSE counters[s]
  BY DEF Subscribe, TypeOK
<1>3. IsFiniteSet(S) /\ Cardinality(S) \in Nat
  BY ShowingFinite
<1>4. CASE s = sub /\ v = value[src]
  <2>1. Showing(s, v)' = S \cup {src} /\ src \notin S
    BY <1>4 DEF Subscribe, Showing, Deps
  <2>2. Cardinality(S \cup {src}) = Cardinality(S) + 1
    BY <1>3, <2>1, FS_AddElement
  <2>3. counters'[s][v] = counters[s][v] + 1
    BY <1>1, <1>2, <1>4, CounterMoves
  <2>4. QED  BY <1>1, <1>3, <2>1, <2>2, <2>3
<1>5. CASE ~(s = sub /\ v = value[src])
  <2>1. Showing(s, v)' = S
    BY <1>5 DEF Subscribe, Showing, Deps
  <2>2. counters'[s][v] = counters[s][v]
    BY <1>1, <1>2, <1>5, CounterMoves
  <2>3. QED  BY <1>1, <2>1, <2>2
<1>6. QED  BY <1>4, <1>5

\* A pair that goes takes its count along.
LEMMA UnsubscribeCounted ==
  ASSUME TypeOK, NEW s \in Uid, Counts(s), NEW src \in Uid, NEW sub \in Uid,
         <<src, sub>> \in pairs, Unsubscribe(src, sub, value[src]), UNCHANGED value
  PROVE  Counts(s)'
<1> SUFFICES ASSUME NEW v \in T
             PROVE  counters'[s][v] >= Cardinality(Showing(s, v)')
  BY DEF Counts
<1> DEFINE S == Showing(s, v)
<1>1. /\ counters[s] \in [T -> Nat] /\ value[src] \in T /\ counters[s][v] \in Nat
      /\ counters[s][v] >= Cardinality(S)
      /\ s = sub => counters[s][value[src]] >= Cardinality(Showing(s, value[src]))
  BY DEF TypeOK, Counts
<1>2. counters'[s] = IF s = sub THEN CounterRemove(counters[s], value[src]) ELSE counters[s]
  BY DEF Unsubscribe, TypeOK
<1>3. IsFiniteSet(S) /\ Cardinality(S) \in Nat
  BY ShowingFinite
<1>4. s = sub => counters[s][value[src]] >= 1
  <2>1. s = sub => src \in Showing(s, value[src])
    BY DEF Showing, Deps
  <2>2. IsFiniteSet(Showing(s, value[src])) /\ Cardinality(Showing(s, value[src])) \in Nat
    BY ShowingFinite
  <2>3. s = sub => Cardinality(Showing(s, value[src])) # 0
    BY <2>1, <2>2, FS_EmptySet
  <2>4. counters[s][value[src]] \in Nat
    BY <1>1
  <2>5. QED  BY <1>1, <2>2, <2>3, <2>4
<1>5. CASE s = sub /\ v = value[src]
  <2>1. Showing(s, v)' = S \ {src} /\ src \in S
    BY <1>5 DEF Unsubscribe, Showing, Deps
  <2>2. Cardinality(S \ {src}) = Cardinality(S) - 1
    BY <1>3, <2>1, FS_RemoveElement
  <2>3. counters'[s][v] = counters[s][v] - 1
    BY <1>1, <1>2, <1>4, <1>5, CounterMoves
  <2>4. QED  BY <1>1, <1>3, <2>1, <2>2, <2>3
<1>6. CASE ~(s = sub /\ v = value[src])
  <2>1. Showing(s, v)' = S
    BY <1>6 DEF Unsubscribe, Showing, Deps
  <2>2. counters'[s][v] = counters[s][v]
    BY <1>1, <1>2, <1>4, <1>6, CounterMoves
  <2>3. QED  BY <1>1, <2>1, <2>2
<1>7. QED  BY <1>5, <1>6

\* A node that goes is counted in excess by the subscribers it still had.
LEMMA DropNodeCounted ==
  ASSUME TypeOK, NEW s \in Uid, Counts(s), NEW n \in Uid, RemoveNode(n),
         value' = [value EXCEPT ![n] = "Neg"]
  PROVE  Counts(s)'
<1> SUFFICES ASSUME NEW v \in T
             PROVE  counters'[s][v] >= Cardinality(Showing(s, v)')
  BY DEF Counts
<1>1. /\ counters[s] \in [T -> Nat] /\ counters[s][v] \in Nat
      /\ counters[s][v] >= Cardinality(Showing(s, v))
  BY DEF TypeOK, Counts
<1>2. counters'[s] = IF s = n THEN NoDeps ELSE counters[s]
  BY DEF RemoveNode, TypeOK
<1>3. IsFiniteSet(Showing(s, v)) /\ Cardinality(Showing(s, v)) \in Nat
  BY ShowingFinite
<1>4. CASE s = n
  <2>1. Showing(s, v)' = {}
    BY <1>4 DEF RemoveNode, Showing, Deps
  <2>2. Cardinality({}) = 0 /\ NoDeps[v] = 0
    BY FS_EmptySet DEF NoDeps
  <2>3. QED  BY <1>2, <1>4, <2>1, <2>2
<1>5. CASE s # n
  <2>1. Showing(s, v)' \subseteq Showing(s, v)
    BY <1>5 DEF RemoveNode, Showing, Deps, TypeOK
  <2>2. Cardinality(Showing(s, v)') <= Cardinality(Showing(s, v))
    BY <1>3, <2>1, FS_Subset
  <2>3. Cardinality(Showing(s, v)') \in Nat
    <3>1. Showing(s, v)' \in SUBSET Uid
      BY <2>1, ShowingFinite
    <3>2. QED  BY <3>1, UidsFinite
  <2>4. QED  BY <1>1, <1>2, <1>3, <1>5, <2>2, <2>3
<1>6. QED  BY <1>4, <1>5

\* The value a fresh id starts with is counted nowhere.
LEMMA NodeCreateCounted ==
  ASSUME TypeOK, PairsLive, NEW s \in Uid, Counts(s), NEW n \in Uid, n \notin Live,
         value' = [value EXCEPT ![n] = "Neg"], UNCHANGED <<pairs, counters>>
  PROVE  Counts(s)'
<1> SUFFICES ASSUME NEW v \in T
             PROVE  Showing(s, v)' = Showing(s, v)
  BY DEF Counts
<1>1. n \notin Deps(s)
  BY DEF PairsLive, Deps
<1>2. Deps(s)' = Deps(s) /\ \A d \in Deps(s) : value'[d] = value[d]
  BY <1>1 DEF TypeOK, Deps
<1>3. QED  BY <1>2 DEF Showing

LEMMA CountsUnchanged ==
  ASSUME NEW s \in Uid, Counts(s), UNCHANGED <<value, pairs, counters>>
  PROVE  Counts(s)'
  BY DEF Counts, Showing, Deps

-----------------------------------------------------------------------------
(* Edges and pairs *)

LEMMA ConnectPaired ==
  ASSUME TypeOK, EdgesPaired, Disciplined, NEW e \in Edge, EdgeConnect(e)
  PROVE  EdgesPaired'
<1>1. /\ edges' = edges \cup {e} /\ pairs' = pairs \cup {<<e.src, e.tgt>>}
      /\ <<e.src, e.tgt>> \notin pairs
  BY DEF EdgeConnect, Subscribe
<1>2. QED  BY <1>1 DEF EdgesPaired

LEMMA RemoveEdgePaired ==
  ASSUME TypeOK, EdgesPaired, NEW e \in edges, RemoveEdge(e)
  PROVE  EdgesPaired'
<1>1. edges' = edges \ {e} /\ pairs' = pairs \ {<<e.src, e.tgt>>}
  BY DEF RemoveEdge, Unsubscribe
<1>2. QED  BY <1>1 DEF EdgesPaired

LEMMA DropNodePaired ==
  ASSUME EdgesPaired, NEW n \in Uid, dangling_edges(n) = {}, RemoveNode(n), UNCHANGED edges
  PROVE  EdgesPaired'
<1>1. \A e \in edges : n \notin {e.src, e.tgt}
  BY DEF dangling_edges
<1>2. pairs' = {p \in pairs : n \notin {p[1], p[2]}}
  BY DEF RemoveNode
<1>3. QED  BY <1>1, <1>2 DEF EdgesPaired

LEMMA PairsGrow ==
  ASSUME EdgesPaired, UNCHANGED edges, pairs \subseteq pairs'
  PROVE  EdgesPaired'
  BY DEF EdgesPaired

-----------------------------------------------------------------------------
(* Queues without sections *)

\* Work on the nodes of a set, queued in any order.
LEMMA ItemsPlain ==
  ASSUME NEW S \in SUBSET Uid, NEW q \in [1 .. Cardinality(S) -> S]
  PROVE  /\ [i \in DOMAIN q |-> PushItem(q[i])] \in Seq(NodeItem)
         /\ [i \in DOMAIN q |-> DemandItem(q[i])] \in Seq(NodeItem)
<1>1. Cardinality(S) \in Nat
  BY UidsFinite
<1>2. /\ [i \in DOMAIN q |-> PushItem(q[i])] \in [1 .. Cardinality(S) -> NodeItem]
      /\ [i \in DOMAIN q |-> DemandItem(q[i])] \in [1 .. Cardinality(S) -> NodeItem]
  BY DEF PushItem, DemandItem, NodeItem
<1>3. QED  BY <1>1, <1>2, FunctionIsSeq

LEMMA PushSubsPlain ==
  ASSUME NEW n, NEW S \in SUBSET Uid, NEW q \in Seq(NodeItem), NEW shut, PushSubs(n, S, q, shut)
  PROVE  queue' \in Seq(NodeItem)
<1>1. PICK subs \in [1 .. Cardinality(S) -> S] :
        queue' = q \o [i \in DOMAIN subs |-> PushItem(subs[i])]
  BY DEF PushSubs, InOrder
<1>2. QED  BY <1>1, ItemsPlain, ConcatProperties

LEMMA HeadPlain ==
  ASSUME queue \in Seq(NodeItem), queue # <<>>
  PROVE  Tail(queue) \in Seq(NodeItem) /\ Head(queue) \in NodeItem
  BY HeadTailProperties

\* A request is for one node.
LEMMA RequestPlain ==
  ASSUME NoSections, NEW item \in NodeItem, Request(item)
  PROVE  NoSections'
  BY AppendProperties DEF Request, NoSections

LEMMA WriteAndPushPlain ==
  ASSUME NoSections, NEW n, NEW v, WriteAndPush(n, v)
  PROVE  NoSections'
<1>1. PushSubs(n, EagerSubs(n), queue, {}) /\ UNCHANGED <<modes, sections>>
  BY DEF WriteAndPush
<1>2. EagerSubs(n) \subseteq Uid
  BY DEF EagerSubs, Subs
<1>3. QED  BY <1>1, <1>2, PushSubsPlain DEF NoSections

\* A drain queues work on nodes.
LEMMA StepPlain ==
  ASSUME NoSections, PushIdle \/ PushReady \/ PushConflicted \/ StepDemand \/ StepStabilize
  PROVE  NoSections'
<1> DEFINE n == Head(queue).node
<1>1. /\ queue # <<>> /\ UNCHANGED modes
      /\ queue \in Seq(NodeItem) /\ sections = <<>> /\ modes \in [Uid -> {"Eager", "Lazy"}]
  BY DEF PushIdle, PushReady, PushReadyTo, PushConflicted, PushConflictedTo, StepDemand,
         StepStabilize, Step, TakesItem, NoSections
<1>2. Tail(queue) \in Seq(NodeItem) /\ Head(queue) \in NodeItem
  BY <1>1, HeadPlain
<1>3. n \in Uid /\ Head(queue).op # "Stabilize"
  BY <1>2 DEF NodeItem
<1>4. CASE PushIdle
  BY <1>1, <1>2, <1>4 DEF PushIdle, NoSections
<1>5. CASE PushReady
  <2> DEFINE subs == {s \in OpenSubs(n, demanded) : <<n, s>> \notin {}}
  <2>1. subs \subseteq Uid
    BY DEF OpenSubs, Subs
  <2>2. UNCHANGED sections /\ (queue' = Tail(queue) \/ PushSubs(n, subs, Tail(queue), seen))
    BY <1>5 DEF PushReady, PushReadyTo
  <2>3. queue' \in Seq(NodeItem)
    BY <1>2, <2>1, <2>2, PushSubsPlain
  <2>4. QED  BY <1>1, <2>2, <2>3 DEF NoSections
<1>6. CASE PushConflicted
  <2> DEFINE subs == {s \in OpenSubs(n, demanded) : <<n, s>> \notin {}}
  <2>1. subs \subseteq Uid
    BY DEF OpenSubs, Subs
  <2>2. modes[n] # "Stabilizing"
    BY <1>1, <1>3
  <2>3. UNCHANGED sections /\ (queue' = Tail(queue) \/ PushSubs(n, subs, Tail(queue), seen))
    BY <1>6, <2>2 DEF PushConflicted, PushConflictedTo
  <2>4. queue' \in Seq(NodeItem)
    BY <1>2, <2>1, <2>3, PushSubsPlain
  <2>5. QED  BY <1>1, <2>3, <2>4 DEF NoSections
<1>7. CASE StepDemand
  <2> DEFINE pending == {d \in Deps(n) : value[d] = "Neg"}
  <2>1. PICK front \in [1 .. Cardinality(pending) -> pending] :
          queue' = [i \in DOMAIN front |-> DemandItem(front[i])]
                     \o Append(Tail(queue), PushItem(n))
    BY <1>7, Zenon DEF StepDemand, InOrder
  <2>2. [i \in DOMAIN front |-> DemandItem(front[i])] \in Seq(NodeItem)
    <3>1. pending \subseteq Uid
      BY DEF Deps
    <3>2. QED  BY <3>1, ItemsPlain
  <2>3. PushItem(n) \in NodeItem
    BY <1>3 DEF PushItem, NodeItem
  <2>4. Append(Tail(queue), PushItem(n)) \in Seq(NodeItem)
    BY <1>2, <2>3, AppendProperties
  <2>5. queue' \in Seq(NodeItem)
    BY <2>1, <2>2, <2>4, ConcatProperties
  <2>6. UNCHANGED sections
    BY <1>7 DEF StepDemand
  <2>7. QED  BY <1>1, <2>5, <2>6 DEF NoSections
<1>8. CASE StepStabilize
  BY <1>3, <1>8 DEF StepStabilize, Step
<1>9. QED  BY <1>4, <1>5, <1>6, <1>7, <1>8

-----------------------------------------------------------------------------
(* Steps *)

\* The value Subscribe and Unsubscribe count is the one the graph shows.
LEMMA StoreShows ==
  ASSUME CacheCoherent, NEW n \in Live
  PROVE  StoreGet(n) = value[n]
  BY DEF CacheCoherent, StoreGet

LEMMA RemoveEdgeCounted ==
  ASSUME IInv, RegInv, EdgesPaired, NEW s \in Uid, Counts(s),
         NEW e \in edges, RemoveEdge(e), UNCHANGED value
  PROVE  Counts(s)'
<1>1. e.src \in Uid /\ e.tgt \in Uid /\ <<e.src, e.tgt>> \in pairs
  BY DEF IInv, TypeOK, Edge, EdgesPaired
<1>2. StoreGet(e.src) = value[e.src]
  BY <1>1, StoreShows DEF IInv, RegInv, PairsLive
<1>3. Unsubscribe(e.src, e.tgt, value[e.src])
  BY <1>2 DEF RemoveEdge
<1>4. QED  BY <1>1, <1>3, UnsubscribeCounted DEF IInv

LEMMA SubscribeKeepsCount ==
  ASSUME IInv, NEW s \in Uid, Counts(s),
         NEW src \in Live, NEW sub \in Live, <<src, sub>> \notin pairs,
         Subscribe(src, sub, idx[src], StoreGet(src)), UNCHANGED value
  PROVE  Counts(s)'
<1>1. src \in Uid /\ sub \in Uid /\ StoreGet(src) = value[src]
  BY StoreShows DEF Live, IInv
<1>2. Subscribe(src, sub, idx[src], value[src])
  BY <1>1
<1>3. QED  BY <1>1, <1>2, SubscribeCounted DEF IInv

\* An operation that writes a value starts a drain, unless it stabilizes.
LEMMA StabilizesQuietly ==
  ASSUME pc = "idle", NEW seeds, Stabilize(seeds), ~Resolves
  PROVE  UNCHANGED <<value, edges, pairs, counters>>
<1>1. UNCHANGED <<pc, idx, edges, pairs, counters>>
  BY DEF Stabilize, control
<1>2. QED  BY <1>1 DEF Resolves

LEMMA ApplyCounted ==
  ASSUME IInv, RegInv, EdgesPaired, pc = "idle", NEW c \in IsaOp, Orderly(c), Apply(c), ~Resolves
  PROVE  EdgesPaired' /\ \A s \in Uid : Counts(s) => Counts(s)'
<1>1. CASE c.op = "NodeCreate" /\ NodeCreate(c.node, c.kind)
  <2>1. /\ c.node \in Uid /\ c.node \notin Live
        /\ value' = [value EXCEPT ![c.node] = "Neg"]
        /\ UNCHANGED <<edges, pairs, counters>>
    BY <1>1, OperandType DEF NodeCreate, Orderly
  <2>2. \A s \in Uid : Counts(s) => Counts(s)'
    BY <2>1, NodeCreateCounted DEF IInv, RegInv
  <2>3. QED  BY <2>1, <2>2, PairsGrow
<1>2. CASE c.op = "EdgeConnect" /\ EdgeConnect(c.edge)
  <2> DEFINE e == c.edge
  <2>1. /\ e \in Edge /\ e.src \in Live /\ e.tgt \in Live /\ <<e.src, e.tgt>> \notin pairs
        /\ Disciplined /\ EdgeConnect(e)
        /\ Subscribe(e.src, e.tgt, idx[e.src], StoreGet(e.src)) /\ UNCHANGED value
    BY <1>2, OperandType DEF EdgeConnect, Orderly
  <2>2. \A s \in Uid : Counts(s) => Counts(s)'
    BY <2>1, SubscribeKeepsCount
  <2>3. QED  BY <2>1, <2>2, ConnectPaired DEF IInv
<1>3. CASE c.op = "Subscribe" /\ SubscribeOp(c.src, c.sub)
  <2>1. /\ c.src \in Live /\ c.sub \in Live /\ <<c.src, c.sub>> \notin pairs
        /\ Subscribe(c.src, c.sub, idx[c.src], StoreGet(c.src)) /\ UNCHANGED <<value, edges>>
    BY <1>3 DEF SubscribeOp, graphVars, Orderly
  <2>2. \A s \in Uid : Counts(s) => Counts(s)'
    BY <2>1, SubscribeKeepsCount
  <2>3. QED  BY <2>1, <2>2, PairsGrow DEF Subscribe
<1>4. CASE c.op = "DelEdge" /\ DelEdge(c.id)
  <2>1. PICK e \in edges : RemoveEdge(e)
    BY <1>4 DEF DelEdge
  <2>2. UNCHANGED value
    BY <1>4 DEF DelEdge
  <2>3. QED  BY <2>1, <2>2, RemoveEdgeCounted, RemoveEdgePaired DEF IInv
<1>5. ASSUME NEW n \in Uid, NEW v \in T, WriteAndPush(n, v)
      PROVE  EdgesPaired' /\ \A s \in Uid : Counts(s) => Counts(s)'
  <2>1. Write(n, v) /\ UNCHANGED <<pairs, edges>>
    BY <1>5 DEF WriteAndPush
  <2>2. QED  BY <2>1, WriteCounted, PairsGrow DEF IInv
<1>6. CASE c.op = "SetValue" /\ SetValue(c.node, c.val)
  BY <1>5, <1>6, OperandType DEF SetValue
<1>7. CASE c.op = "Reflect" /\ Reflect(c.node)
  <2>1. c.node \in Uid /\ value[c.node] \in T
    BY <1>7, OperandType DEF IInv, TypeOK
  <2>2. mv_neg(value[c.node]) \in T
    BY <2>1, TernaryType
  <2>3. QED  BY <1>5, <1>7, <2>1, <2>2 DEF Reflect
<1>8. CASE \/ c.op = "Propagate" /\ Request(PushItem(c.node))
           \/ c.op = "Demand" /\ Request(DemandItem(c.node))
           \/ c.op = "SetMode" /\ SetMode(c.node, c.mode)
           \/ c.op = "Reflect" /\ ReflectMissing(c.node)
           \/ c.op = "DelNode" /\ DelNode(c.node)
  <2>1. UNCHANGED <<value, edges, pairs, counters>>
    BY <1>8 DEF Request, SetMode, ReflectMissing, DelNode, graphVars, depVars
  <2>2. QED  BY <2>1, PairsGrow, CountsUnchanged
<1>9. CASE \/ c.op = "Stabilize" /\ Stabilize(c.region)
           \/ c.op = "StabilizeAll" /\ Stabilize(ZeroNodes)
  <2>1. UNCHANGED <<value, edges, pairs, counters>>
    BY <1>9, StabilizesQuietly
  <2>2. QED  BY <2>1, PairsGrow, CountsUnchanged
<1>10. QED
  BY <1>1, <1>2, <1>3, <1>4, <1>6, <1>7, <1>8, <1>9 DEF Apply

\* A step of the drain writes one node, or none.
LEMMA StepWrites ==
  ASSUME TypeOK, NEW refused,
         \/ PushIdle \/ PushReadyTo(refused) \/ PushConflictedTo(refused)
         \/ StepDemand \/ StepStabilize
  PROVE  /\ UNCHANGED <<pairs, edges>>
         /\ UNCHANGED <<value, counters>> \/ \E n \in Uid, v \in T : Write(n, v)
<1> DEFINE n == Head(queue).node
<1>1. UNCHANGED <<pairs, edges>>
  BY DEF PushIdle, PushReadyTo, PushConflictedTo, StepDemand, StepStabilize, Step
<1>2. CASE PushIdle \/ StepDemand \/ StepStabilize
  BY <1>1, <1>2 DEF PushIdle, StepDemand, StepStabilize
<1>3. CASE PushReadyTo(refused)
  <2>1. Computes(n) /\ (UNCHANGED <<value, counters>> \/ Write(n, ReadyValue(n)))
    BY <1>3 DEF PushReadyTo
  <2>2. n \in Uid
    BY <2>1 DEF Computes, Live
  <2>3. ReadyValue(n) \in T
    BY <2>1, <2>2, ReadyValueType
  <2>4. QED  BY <1>1, <2>1, <2>2, <2>3
<1>4. CASE PushConflictedTo(refused)
  <2>1. Computes(n) /\ (UNCHANGED <<value, counters>> \/ Write(n, "Zero"))
    BY <1>4 DEF PushConflictedTo
  <2>2. QED  BY <1>1, <2>1 DEF T, Computes, Live
<1>5. QED  BY <1>2, <1>3, <1>4

LEMMA StepCounted ==
  ASSUME IInv, EdgesPaired, NEW refused,
         \/ PushIdle \/ PushReadyTo(refused) \/ PushConflictedTo(refused)
         \/ StepDemand \/ StepStabilize
  PROVE  EdgesPaired' /\ \A s \in Uid : Counts(s) => Counts(s)'
<1>1. /\ UNCHANGED <<pairs, edges>>
      /\ UNCHANGED <<value, counters>> \/ \E n \in Uid, v \in T : Write(n, v)
  BY StepWrites DEF IInv
<1>2. QED  BY <1>1, WriteCounted, CountsUnchanged, PairsGrow DEF IInv

LEMMA DeleteCounted ==
  ASSUME IInv, RegInv, EdgesPaired, DropEdge \/ DropNode
  PROVE  EdgesPaired' /\ \A s \in Uid : Counts(s) => Counts(s)'
<1>1. CASE DropEdge
  <2>1. PICK e \in edges : RemoveEdge(e)
    BY <1>1 DEF DropEdge, dangling_edges
  <2>2. UNCHANGED value
    BY <1>1 DEF DropEdge
  <2>3. QED  BY <2>1, <2>2, RemoveEdgeCounted, RemoveEdgePaired DEF IInv
<1>2. CASE DropNode
  <2>1. PICK n \in victim : /\ dangling_edges(n) = {} /\ RemoveNode(n)
                            /\ value' = [value EXCEPT ![n] = "Neg"]
    BY <1>2 DEF DropNode
  <2>2. n \in Uid /\ UNCHANGED edges
    BY <1>2, <2>1 DEF IInv, TypeOK, DropNode
  <2>3. \A s \in Uid : Counts(s) => Counts(s)'
    BY <2>1, <2>2, DropNodeCounted DEF IInv
  <2>4. QED  BY <2>1, <2>2, <2>3, DropNodePaired
<1>3. QED  BY <1>1, <1>2

LEMMA QuietCounted ==
  ASSUME EdgesPaired, StepLimit \/ DrainEnds \/ DrainAgain \/ (StabilizeSection /\ ~Resolves)
  PROVE  EdgesPaired' /\ \A s \in Uid : Counts(s) => Counts(s)'
<1>1. UNCHANGED <<edges, pairs, counters>> /\ (StabilizeSection => UNCHANGED <<pc, idx>>)
  BY DEF StepLimit, DrainEnds, DrainAgain, StabilizeSection, graphVars, depVars, control
<1>2. UNCHANGED value
  BY <1>1 DEF StepLimit, DrainEnds, DrainAgain, StabilizeSection, graphVars, Resolves
<1>3. QED  BY <1>1, <1>2, CountsUnchanged, PairsGrow

\* Every step but the resolution of a section keeps the counts.
LEMMA NextCounts ==
  ASSUME IInv, RegInv, EdgesPaired, Careful, Next, ~Resolves
  PROVE  EdgesPaired' /\ \A s \in Uid : Counts(s) => Counts(s)'
<1>1. CASE Call
  <2>1. PICK c \in Calls : Apply(c)
    BY <1>1 DEF Call
  <2>2. c \in IsaOp /\ Orderly(c) /\ pc = "idle"
    BY <1>1, EngineAssumption DEF EngineAssumption, Careful, Call
  <2>3. QED  BY <2>1, <2>2, ApplyCounted
<1>2. CASE PushIdle \/ PushReady \/ PushConflicted \/ StepDemand \/ StepStabilize
  BY <1>2, StepCounted DEF PushReady, PushConflicted
<1>3. CASE DropEdge \/ DropNode
  BY <1>3, DeleteCounted
<1>4. CASE StepLimit \/ DrainEnds \/ DrainAgain \/ StabilizeSection
  BY <1>4, QuietCounted
<1>5. QED  BY <1>1, <1>2, <1>3, <1>4 DEF Next, Work

LEMMA NextCounted ==
  ASSUME IInv, RegInv, CountInv, Careful, Next, ~Resolves
  PROVE  CountInv'
  BY NextCounts DEF CountInv, Counted

-----------------------------------------------------------------------------
(* Engines in which nothing stabilizes *)

LEMMA CallPlain ==
  ASSUME IInv, NoSections, Unstabilized, Call
  PROVE  NoSections' /\ ~Resolves
<1>1. PICK c \in Calls : Apply(c)
  BY DEF Call
<1>2. /\ c \in IsaOp /\ c.op \notin {"Stabilize", "StabilizeAll"} /\ pc = "idle"
      /\ c.op = "SetMode" => c.mode # "Stabilizing"
      /\ c.op = "EdgeConnect" => c.edge.port # "Bond"
  BY EngineAssumption DEF EngineAssumption, Unstabilized, Call
<1>3. /\ queue \in Seq(NodeItem) /\ sections = <<>> /\ modes \in [Uid -> {"Eager", "Lazy"}]
  BY DEF NoSections
<1>4. CASE c.op = "NodeCreate" /\ NodeCreate(c.node, c.kind)
  <2>1. /\ c.node \in Uid /\ modes' = [modes EXCEPT ![c.node] = "Eager"]
        /\ UNCHANGED <<queue, sections>>
    BY <1>2, <1>4, OperandType DEF NodeCreate, propVars
  <2>2. NoSections'
    BY <1>3, <2>1 DEF NoSections
  <2>3. idx'[c.node] = Len(cache) + 1 /\ idx[c.node] \in 0 .. Len(cache) /\ Len(cache) \in Nat
    BY <1>4, <2>1, LenProperties DEF NodeCreate, Alloc, IInv, TypeOK
  <2>4. ~Resolves
    BY <2>3 DEF Resolves
  <2>5. QED  BY <2>2, <2>4
<1>5. CASE c.op = "EdgeConnect" /\ EdgeConnect(c.edge)
  <2> DEFINE e == c.edge
  <2>1. e \in Edge /\ UNCHANGED <<value, queue, sections>>
    BY <1>2, <1>5, OperandType DEF EdgeConnect, propVars
  <2>2. Preferred(e.port) \subseteq {"Eager", "Lazy"}
    BY <1>2, <1>5, <2>1 DEF Edge, PortKind, Preferred
  <2>3. modes' = modes \/ \E m \in Preferred(e.port) : modes' = [modes EXCEPT ![e.tgt] = m]
    BY <1>5 DEF EdgeConnect
  <2>4. QED  BY <1>3, <2>1, <2>2, <2>3 DEF NoSections, Resolves
<1>6. CASE c.op = "Subscribe" /\ SubscribeOp(c.src, c.sub)
  BY <1>3, <1>6 DEF SubscribeOp, graphVars, propVars, NoSections, Resolves
<1>7. CASE c.op = "DelEdge" /\ DelEdge(c.id)
  BY <1>3, <1>7 DEF DelEdge, propVars, NoSections, Resolves
<1>8. ASSUME NEW n, NEW v, WriteAndPush(n, v) PROVE NoSections' /\ ~Resolves
  BY <1>2, <1>8, WriteAndPushPlain DEF WriteAndPush, StartDrain, Resolves
<1>9. CASE \/ c.op = "SetValue" /\ SetValue(c.node, c.val)
           \/ c.op = "Reflect" /\ Reflect(c.node)
  BY <1>8, <1>9 DEF SetValue, Reflect
<1>10. CASE \/ c.op = "Propagate" /\ Request(PushItem(c.node))
            \/ c.op = "Demand" /\ Request(DemandItem(c.node))
  <2>1. c.node \in Uid
    BY <1>2, <1>10, OperandType
  <2>2. PushItem(c.node) \in NodeItem /\ DemandItem(c.node) \in NodeItem
    BY <2>1 DEF PushItem, DemandItem, NodeItem
  <2>3. NoSections'
    BY <1>10, <2>2, RequestPlain
  <2>4. QED  BY <1>10, <2>3 DEF Request, graphVars, Resolves
<1>11. CASE c.op = "SetMode" /\ SetMode(c.node, c.mode)
  <2>1. c.mode \in {"Eager", "Lazy"}
    BY <1>2, <1>11, OperandType DEF ExecMode
  <2>2. /\ modes' = [modes EXCEPT ![c.node] = c.mode]
        /\ UNCHANGED <<value, queue, sections>>
    BY <1>11 DEF SetMode, graphVars, propVars
  <2>3. QED  BY <1>3, <2>1, <2>2 DEF NoSections, Resolves
<1>12. CASE \/ c.op = "Reflect" /\ ReflectMissing(c.node)
            \/ c.op = "DelNode" /\ DelNode(c.node)
  <2>1. UNCHANGED <<value, modes, queue, sections>>
    BY <1>12 DEF ReflectMissing, DelNode, graphVars, depVars, propVars
  <2>2. QED  BY <2>1 DEF NoSections, Resolves
<1>13. QED
  BY <1>1, <1>2, <1>4, <1>5, <1>6, <1>7, <1>9, <1>10, <1>11, <1>12 DEF Apply

LEMMA WorkPlain ==
  ASSUME IInv, NoSections, Work
  PROVE  NoSections' /\ ~Resolves
<1>1. CASE DropEdge
  BY <1>1 DEF DropEdge, propVars, NoSections, Resolves
<1>2. CASE DropNode
  <2>1. PICK n \in victim : RemoveNode(n)
    BY <1>2 DEF DropNode
  <2>2. /\ modes' = [modes EXCEPT ![n] = "Eager"] /\ UNCHANGED <<queue, sections>>
        /\ pc = "delete" /\ pc' = "idle"
    BY <1>2, <2>1 DEF RemoveNode, DropNode, propVars
  <2>3. QED  BY <2>2 DEF NoSections, Resolves
<1>3. CASE PushIdle \/ PushReady \/ PushConflicted \/ StepDemand \/ StepStabilize
  <2>1. pc = "drain"
    BY <1>3 DEF PushIdle, PushReady, PushReadyTo, PushConflicted, PushConflictedTo, StepDemand,
                StepStabilize, Step, TakesItem
  <2>2. QED  BY <1>3, <2>1, StepPlain DEF Resolves
<1>4. CASE StepLimit \/ DrainEnds \/ DrainAgain
  <2>1. UNCHANGED <<value, modes>>
    BY <1>4 DEF StepLimit, DrainEnds, DrainAgain, graphVars, depVars
  <2>2. sections' = <<>> /\ (UNCHANGED queue \/ (queue # <<>> /\ queue' = Tail(queue)))
    BY <1>4 DEF StepLimit, DrainEnds, DrainAgain, propVars, NoSections
  <2>3. NoSections'
    BY <2>1, <2>2, HeadPlain DEF NoSections
  <2>4. QED  BY <2>1, <2>3 DEF Resolves
<1>5. CASE StabilizeSection
  BY <1>5 DEF StabilizeSection, NoSections
<1>6. QED  BY <1>1, <1>2, <1>3, <1>4, <1>5 DEF Work

LEMMA InitPlain ==
  ASSUME Init, Unstabilized
  PROVE  NoSections
<1>1. PICK t \in Topologies : InitTopology(t)
  BY DEF Init
<1>2. t.mode \in [Uid -> ExecMode] /\ \A n \in Uid : t.mode[n] # "Stabilizing"
  BY EngineAssumption DEF EngineAssumption, Topology, Unstabilized
<1>3. modes = t.mode /\ queue = <<>> /\ sections = <<>>
  BY <1>1 DEF Init, Fresh, InitTopology
<1>4. modes \in [Uid -> {"Eager", "Lazy"}]
  BY <1>2, <1>3 DEF ExecMode
<1>5. QED  BY <1>3, <1>4, EmptySeq DEF NoSections

LEMMA InitCounted ==
  ASSUME Init, Careful
  PROVE  CountInv
<1>1. PICK t \in Topologies : InitTopology(t)
  BY DEF Init
<1>2. /\ t.wiring \in [Uid -> Seq(Uid)]
      /\ \A n \in Uid : IsInjective(t.wiring[n])
  BY EngineAssumption DEF EngineAssumption, Topology, Careful
<1>3. /\ ordered = t.wiring
      /\ pairs = {p \in Uid \X Uid : p[1] \in ToSet(t.wiring[p[2]])}
      /\ edges = UNION {{[id |-> <<n, i>>, src |-> t.wiring[n][i], tgt |-> n,
                          port |-> "Signal", remote |-> FALSE] :
                            i \in DOMAIN t.wiring[n]} : n \in Uid}
      /\ counters = [n \in Uid |-> [NoDeps EXCEPT !["Neg"] = Len(t.wiring[n])]]
      /\ value = [n \in Uid |-> "Neg"]
  BY <1>1 DEF Init, Fresh, InitTopology
<1>5. EdgesPaired
  <2> DEFINE E(n, i) == [id |-> <<n, i>>, src |-> t.wiring[n][i], tgt |-> n,
                         port |-> "Signal", remote |-> FALSE]
  <2>1. \A e \in edges : \E n \in Uid : \E i \in DOMAIN t.wiring[n] : e = E(n, i)
    BY <1>3
  <2>2. \A n \in Uid : \A i \in DOMAIN t.wiring[n] : t.wiring[n][i] \in Uid
    BY <1>2, ElementOfSeq, LenProperties
  <2>3. ASSUME NEW e \in edges PROVE <<e.src, e.tgt>> \in pairs
    <3>1. PICK n \in Uid : \E i \in DOMAIN t.wiring[n] : e = E(n, i)
      BY <2>1
    <3>2. PICK i \in DOMAIN t.wiring[n] : e = E(n, i)
      BY <3>1
    <3>3. e.src = t.wiring[n][i] /\ e.tgt = n /\ e.src \in Uid
      BY <2>2, <3>2
    <3>4. e.src \in ToSet(t.wiring[n])
      BY <3>3 DEF ToSet
    <3>5. QED  BY <1>3, <3>3, <3>4
  <2>4. ASSUME NEW e \in edges, NEW f \in edges, e.src = f.src, e.tgt = f.tgt PROVE e = f
    <3>1. PICK n \in Uid : \E i \in DOMAIN t.wiring[n] : e = E(n, i)
      BY <2>1
    <3>2. PICK i \in DOMAIN t.wiring[n] : e = E(n, i)
      BY <3>1
    <3>3. PICK m \in Uid : \E j \in DOMAIN t.wiring[m] : f = E(m, j)
      BY <2>1
    <3>4. PICK j \in DOMAIN t.wiring[m] : f = E(m, j)
      BY <3>3
    <3>5. n = m /\ t.wiring[n][i] = t.wiring[m][j]
      BY <2>4, <3>2, <3>4
    <3>6. i = j
      BY <1>2, <3>5 DEF IsInjective
    <3>7. QED  BY <3>2, <3>4, <3>5, <3>6
  <2>5. QED  BY <2>3, <2>4 DEF EdgesPaired
<1>6. Counted
  <2> SUFFICES ASSUME NEW n \in Uid, NEW v \in T
               PROVE  counters[n][v] >= Cardinality(Showing(n, v))
    BY DEF Counted, Counts
  <2> DEFINE s == t.wiring[n]
  <2>1. s \in Seq(Uid) /\ Len(s) \in Nat /\ DOMAIN s = 1 .. Len(s)
    BY <1>2, LenProperties
  <2>2. Deps(n) = ToSet(s)
    <3>1. ToSet(s) \subseteq Uid
      BY <2>1, ElementOfSeq DEF ToSet
    <3>2. QED  BY <1>3, <3>1 DEF Deps
  <2>3. Cardinality(ToSet(s)) <= Len(s)
    <3>1. s \in Surjection(1 .. Len(s), ToSet(s))
      BY <2>1 DEF Surjection, ToSet
    <3>2. QED  BY <2>1, <3>1, FS_SurjCardinalityBound DEF ExistsSurjection
  <2>4. CASE v = "Neg"
    <3>1. counters[n]["Neg"] = Len(s)
      BY <1>3 DEF NoDeps, T
    <3>2. Showing(n, v) = ToSet(s)
      BY <1>3, <2>2, <2>4 DEF Showing, Deps
    <3>3. ToSet(s) \in SUBSET Uid
      BY <2>2 DEF Deps
    <3>4. Cardinality(ToSet(s)) \in Nat
      BY <3>3, UidsFinite
    <3>5. QED  BY <2>1, <2>3, <2>4, <3>1, <3>2, <3>4
  <2>5. CASE v # "Neg"
    <3>1. Showing(n, v) = {} /\ counters[n][v] = 0
      BY <1>3, <2>5 DEF Showing, Deps, NoDeps
    <3>2. QED  BY <3>1, FS_EmptySet
  <2>6. QED  BY <2>4, <2>5
<1>7. QED  BY <1>5, <1>6 DEF CountInv

\* A list without repetition is as long as the set of its entries.
LEMMA DepsAreListed ==
  ASSUME TypeOK, RegInv, NEW n \in Uid
  PROVE  Len(ordered[n]) = Cardinality(Deps(n))
<1> DEFINE s == ordered[n]
<1>1. s \in Seq(Uid) /\ Len(s) \in Nat /\ DOMAIN s = 1 .. Len(s) /\ IsInjective(s)
  BY LenProperties DEF TypeOK, RegInv, ListedOnce
<1>2. \A i \in 1 .. Len(s) : s[i] \in Deps(n)
  <2> SUFFICES ASSUME NEW i \in 1 .. Len(s) PROVE s[i] \in Deps(n)
    OBVIOUS
  <2>1. s[i] \in Uid /\ InList(s[i], s)
    BY <1>1, ElementOfSeq DEF InList
  <2>2. QED  BY <2>1 DEF RegInv, ListsArePairs, Deps
<1>3. \A d \in Deps(n) : \E i \in 1 .. Len(s) : s[i] = d
  BY <1>1 DEF RegInv, ListsArePairs, Deps, InList
<1>4. s \in [1 .. Len(s) -> Deps(n)]
  <2>1. s = [i \in DOMAIN s |-> s[i]]
    BY <1>1, LenProperties
  <2>2. QED  BY <1>1, <1>2, <2>1
<1>5. s \in Injection(1 .. Len(s), Deps(n)) /\ s \in Surjection(1 .. Len(s), Deps(n))
  BY <1>1, <1>3, <1>4 DEF Injection, Surjection
<1>6. IsFiniteSet(1 .. Len(s)) /\ Cardinality(1 .. Len(s)) = Len(s)
  BY <1>1, FS_Interval
<1>7. QED  BY <1>5, <1>6, FS_Surjection

\* The values shown split the dependencies.
LEMMA ShowingSplit ==
  ASSUME TypeOK, NEW n \in Uid
  PROVE  Cardinality(Deps(n)) = Cardinality(Showing(n, "Neg")) + Cardinality(Showing(n, "Zero"))
                                  + Cardinality(Showing(n, "Pos"))
<1> DEFINE A == Showing(n, "Neg")
           B == Showing(n, "Zero")
           C == Showing(n, "Pos")
<1>1. /\ IsFiniteSet(A) /\ Cardinality(A) \in Nat
      /\ IsFiniteSet(B) /\ Cardinality(B) \in Nat
      /\ IsFiniteSet(C) /\ Cardinality(C) \in Nat
  BY ShowingFinite
<1>2. A \cap B = {} /\ (A \cup B) \cap C = {} /\ Deps(n) = (A \cup B) \cup C
  BY DEF Showing, Deps, TypeOK, T
<1>3. Cardinality({}) = 0
  BY FS_EmptySet
<1> HIDE DEF A, B, C
<1>4. IsFiniteSet(A \cup B) /\ Cardinality(A \cup B) = Cardinality(A) + Cardinality(B)
  <2>1. /\ IsFiniteSet(A \cup B)
        /\ Cardinality(A \cup B) = Cardinality(A) + Cardinality(B) - Cardinality(A \cap B)
    BY <1>1, FS_Union
  <2>2. Cardinality(A \cap B) = 0
    BY <1>2, <1>3
  <2>3. QED  BY <1>1, <2>1, <2>2
<1>5. Cardinality((A \cup B) \cup C) = Cardinality(A \cup B) + Cardinality(C)
  <2>1. Cardinality((A \cup B) \cup C)
          = Cardinality(A \cup B) + Cardinality(C) - Cardinality((A \cup B) \cap C)
    BY <1>1, <1>4, FS_Union
  <2>2. Cardinality((A \cup B) \cap C) = 0
    BY <1>2, <1>3
  <2>3. QED  BY <1>1, <1>4, <2>1, <2>2
<1>6. QED  BY <1>2, <1>4, <1>5 DEF A, B, C

\* The slots of live dependencies hold what the graph shows.
LEMMA SlotsReadGraph ==
  ASSUME IInv, RegInv, NEW n \in Live
  PROVE  DepVals(n) = GraphDepVals(n)
<1>1. n \in Uid /\ ordered[n] \in Seq(Uid)
  BY DEF Live, IInv, TypeOK
<1>2. CASE indices[n] = <<>>
  BY <1>2 DEF DepVals, GraphDepVals
<1>3. CASE indices[n] # <<>>
  <2>1. indices[n] = [i \in DOMAIN ordered[n] |-> idx[ordered[n][i]]]
    BY <1>1 DEF RegInv, SlotsParallel, SlotsOf
  <2>2. ASSUME NEW i \in DOMAIN ordered[n]
        PROVE  cache[indices[n][i]] = value[ordered[n][i]]
    <3>1. ordered[n][i] \in Uid
      BY <1>1, ElementOfSeq, LenProperties
    <3>2. <<ordered[n][i], n>> \in pairs
      BY <1>1, <3>1 DEF RegInv, ListsArePairs, InList
    <3>3. ordered[n][i] \in Live
      BY <3>2 DEF RegInv, PairsLive
    <3>4. QED  BY <2>1, <3>3 DEF IInv, CacheCoherent
  <2>3. DepVals(n) = [i \in DOMAIN ordered[n] |-> cache[indices[n][i]]]
    BY <1>3, <2>1 DEF DepVals
  <2>4. QED  BY <2>2, <2>3 DEF GraphDepVals
<1>4. QED  BY <1>2, <1>3

\* Counters that count every dependency at least, and as many as there are,
\* count each value exactly.
LEMMA FastPathExact ==
  ASSUME IInv, RegInv, NEW n \in Live, Counts(n), FastPath(n), NEW v \in T
  PROVE  counters[n][v] > 0 <=> Occurs(v, GraphDepVals(n))
<1> DEFINE c == counters[n]
           card(u) == Cardinality(Showing(n, u))
<1>1. n \in Uid /\ c \in [T -> Nat] /\ ordered[n] \in Seq(Uid)
  BY DEF Live, IInv, TypeOK
<1>2. \A u \in T : c[u] \in Nat /\ card(u) \in Nat /\ c[u] >= card(u)
  BY <1>1, ShowingFinite DEF Counts
<1>3. DepCount(n) = Len(ordered[n])
  <2>1. indices[n] = [i \in DOMAIN ordered[n] |-> idx[ordered[n][i]]] /\ indices[n] \in Seq(Nat)
    BY <1>1, SlotsTyped DEF RegInv, SlotsParallel, SlotsOf, IInv
  <2>2. Len(indices[n]) \in Nat /\ DOMAIN indices[n] = 1 .. Len(indices[n])
    BY <2>1, LenProperties
  <2>3. Len(ordered[n]) \in Nat /\ DOMAIN ordered[n] = 1 .. Len(ordered[n])
    BY <1>1, LenProperties
  <2>4. 1 .. Len(indices[n]) = 1 .. Len(ordered[n])
    BY <2>1, <2>2, <2>3
  <2>5. \A j, l \in Nat : j < l => l \in 1 .. l /\ l \notin 1 .. j
    OBVIOUS
  <2>6. ~(Len(indices[n]) < Len(ordered[n])) /\ ~(Len(ordered[n]) < Len(indices[n]))
    BY <2>2, <2>3, <2>4, <2>5
  <2>7. Len(indices[n]) = Len(ordered[n])
    BY <2>2, <2>3, <2>6
  <2>8. QED  BY <2>7 DEF DepCount
<1>4. c["Neg"] + c["Zero"] + c["Pos"] = card("Neg") + card("Zero") + card("Pos")
  BY <1>1, <1>3, DepsAreListed, ShowingSplit DEF FastPath, Total, IInv
<1>5. c[v] = card(v)
  <2> HIDE DEF c, card
  <2>1. /\ c["Neg"] \in Nat /\ card("Neg") \in Nat /\ c["Neg"] >= card("Neg")
        /\ c["Zero"] \in Nat /\ card("Zero") \in Nat /\ c["Zero"] >= card("Zero")
        /\ c["Pos"] \in Nat /\ card("Pos") \in Nat /\ c["Pos"] >= card("Pos")
    BY <1>2 DEF T
  <2>2. c["Neg"] = card("Neg") /\ c["Zero"] = card("Zero") /\ c["Pos"] = card("Pos")
    BY <1>4, <2>1
  <2>3. QED  BY <2>2 DEF T
<1>6. card(v) > 0 <=> Showing(n, v) # {}
  BY <1>2, ShowingFinite, FS_EmptySet
<1>7. Showing(n, v) # {} <=> \E i \in DOMAIN ordered[n] : value[ordered[n][i]] = v
  <2>1. \A d \in Uid : d \in Deps(n) <=> \E i \in DOMAIN ordered[n] : ordered[n][i] = d
    BY <1>1 DEF RegInv, ListsArePairs, Deps, InList
  <2>2. \A i \in DOMAIN ordered[n] : ordered[n][i] \in Uid
    BY <1>1, ElementOfSeq, LenProperties
  <2>3. QED  BY <2>1, <2>2 DEF Showing, Deps
<1>8. QED  BY <1>5, <1>6, <1>7 DEF Occurs, GraphDepVals

\* What a push step is told of the dependencies of a node whose counters count
\* them is what the graph says.
LEMMA CountsExact ==
  ASSUME IInv, RegInv, NEW n \in Live, Counts(n)
  PROVE  DepState(n) = propagation_state(GraphDepVals(n))
<1>1. CASE ~FastPath(n)
  BY <1>1, SlotsReadGraph DEF DepState
<1>2. CASE FastPath(n)
  <2>1. /\ counters[n]["Zero"] > 0 <=> Occurs("Zero", GraphDepVals(n))
        /\ counters[n]["Neg"] > 0 <=> Occurs("Neg", GraphDepVals(n))
    BY <1>2, FastPathExact DEF T
  <2>2. DepState(n) = CASE EvalAggregate(counters[n]) = "Zero" -> "Conflicted"
                        [] EvalAggregate(counters[n]) = "Neg"  -> "Pending"
                        [] EvalAggregate(counters[n]) = "Pos"  -> "Ready"
    BY <1>2 DEF DepState
  <2>3. QED  BY <2>1, <2>2 DEF EvalAggregate, propagation_state
<1>3. QED  BY <1>1, <1>2

LEMMA CountedExact ==
  ASSUME IInv, RegInv, CountInv
  PROVE  DepsReadExactly
  BY CountsExact DEF DepsReadExactly, CountInv, Counted, Live

LEMMA NextRegistry ==
  ASSUME Careful, IInv, RegInv, [Next]_vars
  PROVE  IInv' /\ RegInv'
<1>1. IInv'
  BY NextKeeps
<1>2. CASE Next
  BY <1>1, <1>2, CallRegistry, WorkRegistry, CoherentSlotted DEF Next
<1>3. CASE UNCHANGED vars
  BY <1>1, <1>3, RegistryUnchanged DEF vars, graphVars, storeVars, depVars
<1>4. QED  BY <1>2, <1>3

LEMMA CountInvUnchanged ==
  ASSUME CountInv, UNCHANGED vars
  PROVE  CountInv'
  BY CountsUnchanged, PairsGrow DEF CountInv, Counted, vars, graphVars, depVars

\* What a push step is told about dependencies is what the graph says of them,
\* by the counters (the shortcut "is exact under this engine's propagation
\* model", propagate.rs) and by the slots, when callers keep to fresh ids and
\* pairs, or wire nothing, and nothing stabilizes.
THEOREM ReadsAreExact ==
  ASSUME Careful, Unstabilized
  PROVE  Spec => []DepsReadExactly
<1> DEFINE Inv == IInv /\ RegInv /\ CountInv /\ NoSections
<1>1. Init => Inv
  BY InitHolds, InitRegistry, InitCounted, InitPlain
<1>2. Inv /\ [Next]_vars => Inv'
  <2>1. ASSUME Inv, Next PROVE Inv'
    BY <2>1, NextRegistry, NextCounted, CallPlain, WorkPlain DEF Next
  <2>2. ASSUME Inv, UNCHANGED vars PROVE Inv'
    <3>1. NoSections'
      BY <2>2 DEF NoSections, vars, depVars, propVars
    <3>2. QED  BY <2>2, <3>1, NextRegistry, CountInvUnchanged
  <2>3. QED  BY <2>1, <2>2
<1>3. Inv => DepsReadExactly
  BY CountedExact
<1>4. QED  BY <1>1, <1>2, <1>3, PTL DEF Spec

\* The same for an engine that stabilizes, up to the first section that is
\* resolved (stabilize_section writes the value and no counter): the modes of
\* the nodes, the sections that are queued and those the e-graph refuses take
\* no count away.
THEOREM ExactUntilResolved ==
  ASSUME Careful
  PROVE  TracedSpec => []ReadsUntilResolved
<1> DEFINE Inv == IInv /\ RegInv /\ (stabilizer # "resolved" => CountInv)
<1>1. Init => Inv
  BY InitHolds, InitRegistry, InitCounted
<1>2. Inv /\ [Next /\ Traces]_<<vars, stabilizer>> => Inv'
  <2>1. ASSUME Inv, Next, Traces PROVE Inv'
    <3>1. stabilizer' # "resolved" => stabilizer # "resolved" /\ ~Resolves
      BY <2>1 DEF Traces
    <3>2. QED  BY <2>1, <3>1, NextRegistry, NextCounted
  <2>2. ASSUME Inv, UNCHANGED <<vars, stabilizer>> PROVE Inv'
    BY <2>2, NextRegistry, CountInvUnchanged
  <2>3. QED  BY <2>1, <2>2
<1>3. Inv => ReadsUntilResolved
  BY CountedExact DEF ReadsUntilResolved
<1>4. QED  BY <1>1, <1>2, <1>3, PTL DEF TracedSpec
=============================================================================

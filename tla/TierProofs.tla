----------------------------- MODULE TierProofs -----------------------------
(***************************************************************************)
(* Proofs about Authority, Regions and TiersObserved: the types of the     *)
(* authority tables and of the compiled artifacts, what the gate lets pass,*)
(* and what the warm tier may rely on when compiled regions write slots    *)
(* beside it - that the value cache and the registry agree with the graph, *)
(* that nodes no region ever had are told of every change, and that the    *)
(* rows of a region follow what is written to its inputs.                  *)
(***************************************************************************)
EXTENDS TiersObserved, EngineProofs, WellFoundedInduction

-----------------------------------------------------------------------------
(* Recursion over the first numbers *)

LEMMA NatOrder ==
  \E R : /\ IsWellFoundedOn(R, Nat)
         /\ \A x, y \in Nat : <<x, y>> \in R <=> x < y
<1>1. \A x, y \in Nat : <<x, y>> \in OpToRel(<, Nat) <=> x < y
  BY DEF OpToRel
<1>2. QED  BY <1>1, NatLessThanWellFounded, Zenon

\* A set of numbers has a least one.
LEMMA LeastNat ==
  ASSUME NEW S \in SUBSET Nat, S # {}
  PROVE  \E m \in S : \A k \in S : m <= k
<1>1. PICK R : /\ IsWellFoundedOn(R, Nat)
               /\ \A x, y \in Nat : <<x, y>> \in R <=> x < y
  BY NatOrder
<1>2. IsWellFoundedOn(R, Nat) /\ S \subseteq Nat /\ S # {}
  BY <1>1
<1>3. \E x \in S : \A y \in S : ~ (<<y, x>> \in R)
  BY <1>2, WFMin, Zenon
<1>4. PICK x \in S : \A y \in S : ~ (<<y, x>> \in R)
  BY <1>3
<1>5. x \in Nat /\ \A y \in S : y \in Nat /\ ~(y < x)
  BY <1>1, <1>4
<1>6. \A y \in S : x <= y
  BY <1>5
<1>7. QED  BY <1>6

\* What holds of the first state of an iteration and is kept by each step
\* holds of every state.
LEMMA IterationKeeps ==
  ASSUME NEW S, NEW L \in Nat, NEW g, g[0] \in S,
         \A i \in 1 .. L : g[i - 1] \in S => g[i] \in S
  PROVE  \A i \in 0 .. L : g[i] \in S
<1> DEFINE bad == {i \in 0 .. L : g[i] \notin S}
<1> SUFFICES ASSUME bad # {} PROVE FALSE
  OBVIOUS
<1>1. bad \in SUBSET Nat
  OBVIOUS
<1>2. PICK m \in bad : \A k \in bad : m <= k
  BY <1>1, LeastNat
<1>3. m \in 0 .. L /\ g[m] \notin S /\ m # 0
  BY <1>2
<1>4. m - 1 \in 0 .. L /\ m \in 1 .. L /\ ~(m <= m - 1)
  BY <1>3
<1>5. g[m - 1] \in S
  BY <1>2, <1>4
<1>6. QED  BY <1>3, <1>4, <1>5

\* g holds the first k states of the iteration of `step` from `base`.
Iterated(S, base, step, k, g) ==
  /\ g \in [0 .. k -> S]
  /\ g[0] = base
  /\ \A i \in 1 .. k : g[i] = step[i][g[i - 1]]

\* Steps that stay in a set can be iterated.
LEMMA IterationExists ==
  ASSUME NEW S, NEW base \in S, NEW L \in Nat, NEW step \in [1 .. L -> [S -> S]]
  PROVE  \E g : Iterated(S, base, step, L, g)
<1> DEFINE bad == {k \in 0 .. L : ~ \E g : Iterated(S, base, step, k, g)}
<1> SUFFICES ASSUME ~ \E g : Iterated(S, base, step, L, g) PROVE FALSE
  OBVIOUS
<1>1. bad \in SUBSET Nat /\ bad # {}
  <2>1. L \in bad
    OBVIOUS
  <2>2. QED  BY <2>1
<1>2. PICK m \in bad : \A k \in bad : m <= k
  BY <1>1, LeastNat
<1>3. CASE m = 0
  <2> DEFINE g == [i \in 0 .. 0 |-> base]
  <2>1. Iterated(S, base, step, 0, g)
    BY DEF Iterated
  <2>2. QED  BY <1>2, <1>3, <2>1
<1>4. CASE m # 0
  <2>1. m \in 1 .. L /\ m - 1 \in 0 .. L /\ ~(m <= m - 1)
    BY <1>2, <1>4
  <2>2. PICK g : Iterated(S, base, step, m - 1, g)
    BY <1>2, <2>1
  <2> DEFINE h == [i \in 0 .. m |-> IF i = m THEN step[m][g[m - 1]] ELSE g[i]]
  <2>3. g \in [0 .. m - 1 -> S] /\ g[0] = base /\ \A i \in 1 .. m - 1 : g[i] = step[i][g[i - 1]]
    BY <2>2 DEF Iterated
  <2>4. g[m - 1] \in S /\ step[m] \in [S -> S]
    BY <2>1, <2>3
  <2>5. h \in [0 .. m -> S] /\ h[0] = base
    BY <1>4, <2>1, <2>3, <2>4
  <2>6. ASSUME NEW i \in 1 .. m PROVE h[i] = step[i][h[i - 1]]
    <3>1. h[i - 1] = g[i - 1] /\ i \in 0 .. m
      BY <2>1
    <3>2. CASE i = m
      BY <2>1, <3>1, <3>2
    <3>3. CASE i # m
      <4>1. i \in 1 .. m - 1
        BY <2>1, <3>3
      <4>2. h[i] = g[i]
        BY <3>1, <3>3
      <4>3. QED  BY <2>3, <3>1, <4>1, <4>2
    <3>4. QED  BY <3>2, <3>3
  <2>7. Iterated(S, base, step, m, h)
    BY <2>5, <2>6 DEF Iterated
  <2>8. QED  BY <1>2, <2>7
<1>5. QED  BY <1>3, <1>4

-----------------------------------------------------------------------------
(* Running a circuit *)

\* One row, rule and output for each member, over slots that exist; no member
\* and no output appears twice.
WiredTo(r, slots) ==
  /\ r \in Artifact /\ r.inputs \subseteq slots
  /\ Len(r.rules) = Len(r.members)
  /\ Len(r.rows) = Len(r.members)
  /\ Len(r.outputs) = Len(r.members)
  /\ \A i \in 1 .. Len(r.members) : r.rows[i] \in Seq(slots) /\ r.outputs[i] \in slots
  /\ IsInjective(r.members) /\ IsInjective(r.outputs)

LEMMA WiredMore ==
  ASSUME NEW r, NEW slots, NEW more, WiredTo(r, slots), slots \subseteq more
  PROVE  WiredTo(r, more)
<1>1. \A i \in 1 .. Len(r.members) : r.rows[i] \in Seq(more)
  BY SeqMonotonic DEF WiredTo
<1>2. QED  BY <1>1 DEF WiredTo

LEMMA WiredRows ==
  ASSUME NEW r, NEW slots, WiredTo(r, slots)
  PROVE  /\ Len(r.members) \in Nat
         /\ DOMAIN r.members = 1 .. Len(r.members) /\ DOMAIN r.outputs = 1 .. Len(r.members)
         /\ DOMAIN r.rules = 1 .. Len(r.members) /\ DOMAIN r.rows = 1 .. Len(r.members)
         /\ \A i \in 1 .. Len(r.members) :
              r.members[i] \in Uid /\ r.rules[i] \in Rules /\ r.rows[i] \in Seq(slots)
                /\ r.outputs[i] \in slots
<1>1. /\ r.members \in Seq(Uid) /\ r.rules \in Seq(Rules) /\ r.rows \in Seq(Seq(Nat))
      /\ r.outputs \in Seq(Nat)
  BY DEF WiredTo, Artifact
<1>2. QED  BY <1>1, ElementOfSeq, LenProperties DEF WiredTo

\* A state of the circuit: only outputs of rows that read something differ
\* from the cache, and they are touched.
Circuit(r, st) ==
  /\ st \in [store : Seq(T), touched : SUBSET DOMAIN cache]
  /\ Len(st.store) = Len(cache)
  /\ \A k \in DOMAIN cache : st.store[k] # cache[k] =>
       /\ k \in st.touched
       /\ \E i \in 1 .. Len(r.members) : r.outputs[i] = k /\ r.rows[i] # <<>>

LEMMA GatheredType ==
  ASSUME NEW store \in Seq(T), NEW row \in Seq(1 .. Len(store))
  PROVE  Gathered(row, store) \in Seq(T)
<1>1. Len(row) \in Nat /\ DOMAIN row = 1 .. Len(row)
  BY LenProperties
<1>2. \A k \in 1 .. Len(row) : row[k] \in 1 .. Len(store)
  BY ElementOfSeq
<1>3. Gathered(row, store) \in [1 .. Len(row) -> T]
  BY <1>1, <1>2, ElementOfSeq DEF Gathered
<1>4. QED  BY <1>1, <1>3, FunctionIsSeq

LEMMA RunRowKeeps ==
  ASSUME cache \in Seq(T), NEW r, WiredTo(r, DOMAIN cache), NEW i \in 1 .. Len(r.members),
         NEW st, Circuit(r, st)
  PROVE  Circuit(r, RunRow(r, i, st))
<1> DEFINE new == Eval(r.rules[i], Gathered(r.rows[i], st.store))
           out == r.outputs[i]
<1>1. /\ DOMAIN cache = 1 .. Len(cache) /\ Len(cache) \in Nat
      /\ r.rules[i] \in Rules /\ r.rows[i] \in Seq(1 .. Len(cache)) /\ out \in 1 .. Len(cache)
      /\ st.store \in Seq(T) /\ Len(st.store) = Len(cache) /\ st.touched \subseteq DOMAIN cache
  BY WiredRows, LenProperties DEF Circuit
<1>2. new \in T
  BY <1>1, GatheredType, EvalType
<1>3. CASE RunRow(r, i, st) = st
  BY <1>3
<1>4. CASE /\ ToSet(r.rows[i]) \cap st.touched # {}
           /\ RunRow(r, i, st) = [store |-> [st.store EXCEPT ![out] = new],
                                  touched |-> st.touched \cup {out}]
  <2> DEFINE s2 == [st.store EXCEPT ![out] = new]
  <2>1. /\ s2 \in Seq(T) /\ Len(s2) = Len(cache)
        /\ \A k \in 1 .. Len(cache) : s2[k] = IF k = out THEN new ELSE st.store[k]
    BY <1>1, <1>2, ExceptSeq
  <2>2. r.rows[i] # <<>>
    BY <1>4 DEF ToSet
  <2> HIDE DEF s2, new
  <2>3. [store |-> s2, touched |-> st.touched \cup {out}]
          \in [store : Seq(T), touched : SUBSET DOMAIN cache]
    BY <1>1, <2>1
  <2>4. \A k \in DOMAIN cache : s2[k] # cache[k] =>
          /\ k \in st.touched \cup {out}
          /\ \E j \in 1 .. Len(r.members) : r.outputs[j] = k /\ r.rows[j] # <<>>
    BY <1>1, <2>1, <2>2 DEF Circuit
  <2>5. QED  BY <1>4, <2>1, <2>3, <2>4 DEF Circuit, s2, new
<1>5. QED  BY <1>3, <1>4 DEF RunRow

\* run_compiled_region, state by state.
Runs(r, run) ==
  run = [i \in 0 .. Len(r.members) |->
           IF i = 0 THEN [store |-> cache, touched |-> dirtySlots] ELSE RunRow(r, i, run[i - 1])]

LEMMA RunSteps ==
  ASSUME NEW r, Len(r.members) \in Nat, NEW run, Runs(r, run)
  PROVE  /\ run[0] = [store |-> cache, touched |-> dirtySlots]
         /\ \A i \in 1 .. Len(r.members) : run[i] = RunRow(r, i, run[i - 1])
<1> DEFINE f == [i \in 0 .. Len(r.members) |->
                   IF i = 0 THEN [store |-> cache, touched |-> dirtySlots]
                   ELSE RunRow(r, i, run[i - 1])]
<1>1. run = f
  BY DEF Runs
<1>2. f[0] = [store |-> cache, touched |-> dirtySlots]
  OBVIOUS
<1>3. ASSUME NEW i \in 1 .. Len(r.members) PROVE f[i] = RunRow(r, i, run[i - 1])
  <2>1. i \in 0 .. Len(r.members) /\ i # 0
    OBVIOUS
  <2>2. QED  BY <2>1
<1> HIDE DEF f
<1>4. QED  BY <1>1, <1>2, <1>3

LEMMA RunExists ==
  ASSUME cache \in Seq(T), dirtySlots \subseteq DOMAIN cache, NEW r, WiredTo(r, DOMAIN cache)
  PROVE  \E run : Runs(r, run) /\ RunRows(r) = run[Len(r.members)]
<1> DEFINE L == Len(r.members)
           base == [store |-> cache, touched |-> dirtySlots]
           S == {st \in [store : Seq(T), touched : SUBSET DOMAIN cache] : Circuit(r, st)}
           step == [i \in 1 .. L |-> [st \in S |-> RunRow(r, i, st)]]
<1>1. L \in Nat
  BY WiredRows
<1>2. base \in S
  BY DEF Circuit
<1>3. \A i \in 1 .. L, st \in S : RunRow(r, i, st) \in S
  BY RunRowKeeps DEF Circuit
<1>4. step \in [1 .. L -> [S -> S]]
  BY <1>3
<1>5. PICK g : Iterated(S, base, step, L, g)
  <2> HIDE DEF L, base, S, step
  <2>1. QED  BY <1>1, <1>2, <1>4, IterationExists
<1>6. Runs(r, g)
  <2>1. g \in [0 .. L -> S] /\ g[0] = base /\ \A i \in 1 .. L : g[i] = step[i][g[i - 1]]
    BY <1>5 DEF Iterated
  <2>2. \A i \in 1 .. L : g[i] = RunRow(r, i, g[i - 1])
    <3> HIDE DEF S
    <3>1. \A i \in 1 .. L : i - 1 \in 0 .. L
      BY <1>1
    <3>2. QED  BY <2>1, <3>1
  <2> HIDE DEF S, step, base
  <2>3. g = [i \in 0 .. L |-> IF i = 0 THEN base ELSE RunRow(r, i, g[i - 1])]
    BY <1>1, <2>1, <2>2
  <2>4. QED  BY <2>3 DEF Runs, base
<1>7. PICK run : run = CHOOSE h : h = [i \in 0 .. Len(r.members) |->
        IF i = 0 THEN [store |-> cache, touched |-> dirtySlots] ELSE RunRow(r, i, h[i - 1])]
  OBVIOUS
<1>8. Runs(r, run)
  BY <1>6, <1>7 DEF Runs
<1>9. RunRows(r) = run[Len(r.members)]
  BY <1>7 DEF RunRows
<1>10. QED  BY <1>8, <1>9

\* Every state of the run is one, the last among them.
LEMMA RunKeeps ==
  ASSUME cache \in Seq(T), dirtySlots \subseteq DOMAIN cache, NEW r, WiredTo(r, DOMAIN cache),
         NEW run, Runs(r, run)
  PROVE  \A i \in 0 .. Len(r.members) : Circuit(r, run[i])
<1> DEFINE L == Len(r.members)
           S == {st \in [store : Seq(T), touched : SUBSET DOMAIN cache] : Circuit(r, st)}
<1>1. L \in Nat
  BY WiredRows
<1>r. /\ run[0] = [store |-> cache, touched |-> dirtySlots]
      /\ \A i \in 1 .. Len(r.members) : run[i] = RunRow(r, i, run[i - 1])
  BY <1>1, RunSteps
<1>2. run[0] \in S
  BY <1>r DEF Circuit
<1>3. \A i \in 1 .. L : run[i - 1] \in S => run[i] \in S
  <2> SUFFICES ASSUME NEW i \in 1 .. L, run[i - 1] \in S PROVE run[i] \in S
    OBVIOUS
  <2>1. run[i] = RunRow(r, i, run[i - 1])
    BY <1>r
  <2>2. i \in 1 .. Len(r.members) /\ Circuit(r, run[i - 1])
    OBVIOUS
  <2> HIDE DEF S, L
  <2>3. Circuit(r, RunRow(r, i, run[i - 1]))
    BY <2>2, RunRowKeeps
  <2>4. QED  BY <2>1, <2>3 DEF Circuit, S
<1>4. \A i \in 0 .. L : run[i] \in S
  <2> HIDE DEF S, L
  <2>1. QED  BY <1>1, <1>2, <1>3, IterationKeeps
<1>5. QED  BY <1>4

LEMMA RunRowsKeep ==
  ASSUME cache \in Seq(T), dirtySlots \subseteq DOMAIN cache, NEW r, WiredTo(r, DOMAIN cache)
  PROVE  Circuit(r, RunRows(r))
<1>1. PICK run : Runs(r, run) /\ RunRows(r) = run[Len(r.members)]
  BY RunExists
<1>2. Len(r.members) \in 0 .. Len(r.members)
  BY WiredRows
<1>3. QED  BY <1>1, <1>2, RunKeeps

-----------------------------------------------------------------------------
(* Telling the subscribers outside *)

Counting == [Uid -> [T -> Nat]]

LEMMA ToldType ==
  ASSUME cache \in Seq(T), NEW r, WiredTo(r, DOMAIN cache), NEW i \in 1 .. Len(r.members),
         NEW store \in Seq(T), Len(store) = Len(cache), NEW told \in Counting
  PROVE  Told(r, i, store, told) \in Counting
<1>1. r.outputs[i] \in 1 .. Len(cache)
  BY WiredRows, LenProperties
<1>2. cache[r.outputs[i]] \in T /\ store[r.outputs[i]] \in T
  BY <1>1, ElementOfSeq
<1>3. \A s \in Uid :
        CounterUpdate(told[s], cache[r.outputs[i]], store[r.outputs[i]]) \in [T -> Nat]
  BY <1>2, CounterType DEF Counting
<1>4. QED  BY <1>3 DEF Told, Counting

\* The counters as they are told of one row after the other.
Tells(r, rows, store, told) ==
  told = [i \in 0 .. Len(r.members) |->
            IF i = 0 THEN counters
            ELSE IF i \in rows THEN Told(r, i, store, told[i - 1]) ELSE told[i - 1]]

LEMMA TellSteps ==
  ASSUME NEW r, Len(r.members) \in Nat, NEW rows, NEW store, NEW told, Tells(r, rows, store, told)
  PROVE  /\ told[0] = counters
         /\ \A i \in 1 .. Len(r.members) :
              told[i] = IF i \in rows THEN Told(r, i, store, told[i - 1]) ELSE told[i - 1]
<1> DEFINE f == [i \in 0 .. Len(r.members) |->
                   IF i = 0 THEN counters
                   ELSE IF i \in rows THEN Told(r, i, store, told[i - 1]) ELSE told[i - 1]]
<1>1. told = f
  BY DEF Tells
<1>2. f[0] = counters
  OBVIOUS
<1>3. ASSUME NEW i \in 1 .. Len(r.members)
      PROVE  f[i] = IF i \in rows THEN Told(r, i, store, told[i - 1]) ELSE told[i - 1]
  <2>1. i \in 0 .. Len(r.members) /\ i # 0
    OBVIOUS
  <2>2. QED  BY <2>1
<1> HIDE DEF f
<1>4. QED  BY <1>1, <1>2, <1>3

LEMMA TellExists ==
  ASSUME cache \in Seq(T), counters \in Counting, NEW r, WiredTo(r, DOMAIN cache), NEW rows,
         NEW store \in Seq(T), Len(store) = Len(cache)
  PROVE  \E told : Tells(r, rows, store, told)
                     /\ RecountOutside(r, rows, store) = told[Len(r.members)]
<1> DEFINE L == Len(r.members)
           F(i, c) == IF i \in rows THEN Told(r, i, store, c) ELSE c
           step == [i \in 1 .. L |-> [c \in Counting |-> F(i, c)]]
<1>1. L \in Nat
  BY WiredRows
<1>2. \A i \in 1 .. L, c \in Counting : F(i, c) \in Counting
  BY ToldType
<1>3. step \in [1 .. L -> [Counting -> Counting]]
  <2> HIDE DEF F
  <2>1. QED  BY <1>2
<1>4. PICK g : Iterated(Counting, counters, step, L, g)
  <2> HIDE DEF L, F, step
  <2>1. QED  BY <1>1, <1>3, IterationExists
<1>5. Tells(r, rows, store, g)
  <2>1. g \in [0 .. L -> Counting] /\ g[0] = counters
        /\ \A i \in 1 .. L : g[i] = step[i][g[i - 1]]
    BY <1>4 DEF Iterated
  <2>2. \A i \in 1 .. L : g[i] = F(i, g[i - 1])
    <3> HIDE DEF F
    <3>1. \A i \in 1 .. L : i - 1 \in 0 .. L
      BY <1>1
    <3>2. QED  BY <2>1, <3>1
  <2>3. g = [i \in 0 .. L |-> IF i = 0 THEN counters ELSE F(i, g[i - 1])]
    <3> HIDE DEF F, step
    <3>1. QED  BY <1>1, <2>1, <2>2
  <2>4. QED  BY <2>3 DEF Tells
<1>6. PICK told : told = CHOOSE h : h = [i \in 0 .. Len(r.members) |->
        IF i = 0 THEN counters
        ELSE IF i \in rows THEN Told(r, i, store, h[i - 1]) ELSE h[i - 1]]
  OBVIOUS
<1>7. Tells(r, rows, store, told)
  BY <1>5, <1>6 DEF Tells
<1>8. RecountOutside(r, rows, store) = told[Len(r.members)]
  BY <1>6 DEF RecountOutside
<1>9. QED  BY <1>7, <1>8

LEMMA TellKeeps ==
  ASSUME cache \in Seq(T), counters \in Counting, NEW r, WiredTo(r, DOMAIN cache), NEW rows,
         NEW store \in Seq(T), Len(store) = Len(cache), NEW told, Tells(r, rows, store, told)
  PROVE  \A i \in 0 .. Len(r.members) : told[i] \in Counting
<1> DEFINE L == Len(r.members)
<1>1. L \in Nat
  BY WiredRows
<1>2. told[0] = counters
      /\ \A i \in 1 .. L : told[i] = IF i \in rows THEN Told(r, i, store, told[i - 1])
                                     ELSE told[i - 1]
  BY <1>1, TellSteps
<1>3. \A i \in 1 .. L : told[i - 1] \in Counting => told[i] \in Counting
  BY <1>2, ToldType
<1> HIDE DEF L
<1>4. QED  BY <1>1, <1>2, <1>3, IterationKeeps DEF L

LEMMA RecountOutsideType ==
  ASSUME cache \in Seq(T), counters \in Counting, NEW r, WiredTo(r, DOMAIN cache), NEW rows,
         NEW store \in Seq(T), Len(store) = Len(cache)
  PROVE  RecountOutside(r, rows, store) \in Counting
<1>1. PICK told : Tells(r, rows, store, told)
                    /\ RecountOutside(r, rows, store) = told[Len(r.members)]
  BY TellExists
<1>2. Len(r.members) \in 0 .. Len(r.members)
  BY WiredRows
<1>3. QED  BY <1>1, <1>2, TellKeeps

-----------------------------------------------------------------------------
(* Compiling *)

LEMMA DepClosureType ==
  ASSUME NEW root \in Uid, NEW depth \in Nat
  PROVE  DepClosure(root, depth) \subseteq Uid
<1> DEFINE S == SUBSET Uid
           F(X) == X \cup UNION {Deps(n) : n \in X}
           step == [i \in 1 .. depth |-> [X \in S |-> F(X)]]
<1>1. \A X \in S : F(X) \in S
  BY DEF Deps
<1>2. step \in [1 .. depth -> [S -> S]] /\ {root} \in S
  <2> HIDE DEF F
  <2>1. QED  BY <1>1
<1>3. PICK g : Iterated(S, {root}, step, depth, g)
  <2> HIDE DEF S, F, step
  <2>1. QED  BY <1>2, IterationExists
<1>4. g = [k \in 0 .. depth |-> IF k = 0 THEN {root} ELSE F(g[k - 1])]
  <2>1. g \in [0 .. depth -> S] /\ g[0] = {root}
        /\ \A i \in 1 .. depth : g[i] = step[i][g[i - 1]]
    BY <1>3 DEF Iterated
  <2> HIDE DEF F, S
  <2>2. \A i \in 1 .. depth : i - 1 \in 0 .. depth
    OBVIOUS
  <2>3. \A i \in 1 .. depth : g[i] = F(g[i - 1])
    BY <2>1, <2>2
  <2>4. QED  BY <2>1, <2>3
<1>5. PICK hops : hops = CHOOSE h : h = [k \in 0 .. depth |->
        IF k = 0 THEN {root} ELSE h[k - 1] \cup UNION {Deps(n) : n \in h[k - 1]}]
  OBVIOUS
<1>6. hops = [k \in 0 .. depth |-> IF k = 0 THEN {root} ELSE F(hops[k - 1])]
  BY <1>4, <1>5
<1>7. DepClosure(root, depth) = hops[depth]
  BY <1>5 DEF DepClosure
<1>8. hops[0] \in S /\ \A i \in 1 .. depth : hops[i - 1] \in S => hops[i] \in S
  <2> HIDE DEF F
  <2> DEFINE f == [k \in 0 .. depth |-> IF k = 0 THEN {root} ELSE F(hops[k - 1])]
  <2>1. f[0] = {root} /\ \A i \in 1 .. depth : f[i] = F(hops[i - 1])
    OBVIOUS
  <2>2. hops = f
    BY <1>6
  <2> HIDE DEF f
  <2>3. QED  BY <1>1, <2>1, <2>2
<1>9. depth \in 0 .. depth
  OBVIOUS
<1> HIDE DEF S
<1>10. hops[depth] \in S
  BY <1>8, <1>9, IterationKeeps
<1>11. QED  BY <1>7, <1>10 DEF S

LEMMA MembersType ==
  ASSUME TypeOK, DOMAIN bound \subseteq Uid, NEW root \in Uid, NEW b \in Boundary
  PROVE  RegionMembers(root, b) \subseteq Uid
<1>1. CASE b.how = "ExplicitSet"
  <2>1. b.nodes \in Seq(Uid)
    BY <1>1 DEF Boundary
  <2>2. ToSet(b.nodes) \subseteq Uid
    BY <2>1, ElementOfSeq, LenProperties DEF ToSet
  <2>3. QED  BY <1>1, <2>2 DEF RegionMembers
<1>2. CASE b.how = "DepClosure"
  <2>1. b.max_depth \in Nat
    BY <1>2 DEF Boundary
  <2>2. QED  BY <1>2, <2>1, DepClosureType DEF RegionMembers
<1>3. CASE b.how = "PartitionScoped"
  BY <1>3 DEF RegionMembers
<1>4. QED  BY <1>1, <1>2, <1>3 DEF Boundary

\* A row has a slot for each dependency.
LEMMA RowType ==
  ASSUME TypeOK, NEW n \in Uid, NEW row \in Rows(n), 0 \notin ToSet(row)
  PROVE  row \in Seq(DOMAIN cache)
<1>0. Len(cache) \in Nat /\ DOMAIN cache = 1 .. Len(cache)
  BY LenProperties DEF TypeOK
<1>1. CASE indices[n] # <<>>
  BY <1>0, <1>1 DEF Rows, TypeOK
<1>2. CASE indices[n] = <<>>
  <2> DEFINE k == Cardinality(Deps(n))
  <2>1. PICK o \in [1 .. k -> Deps(n)] : row = [i \in DOMAIN o |-> idx[o[i]]]
    BY <1>2 DEF Rows, InOrder
  <2>2. Deps(n) \subseteq Uid
    BY DEF Deps
  <2>3. k \in Nat
    BY <2>2, UidsFinite
  <2> HIDE DEF k
  <2>4. DOMAIN o = 1 .. k /\ \A i \in 1 .. k : o[i] \in Uid /\ row[i] = idx[o[i]]
    BY <2>1, <2>2
  <2>5. \A i \in 1 .. k : row[i] \in 1 .. Len(cache)
    <3> SUFFICES ASSUME NEW i \in 1 .. k PROVE row[i] \in 1 .. Len(cache)
      OBVIOUS
    <3>1. row[i] \in 0 .. Len(cache)
      BY <2>4 DEF TypeOK
    <3>2. row[i] # 0
      BY <2>1, <2>4 DEF ToSet
    <3>3. QED  BY <1>0, <3>1, <3>2
  <2>6. row \in [1 .. k -> 1 .. Len(cache)]
    BY <2>1, <2>4, <2>5
  <2>7. QED  BY <1>0, <2>3, <2>6, FunctionIsSeq
<1>3. QED  BY <1>1, <1>2

\* The members of an artifact have, or had, a slot.
Registered(r, slots) == \A i \in 1 .. Len(r.members) : slots[r.members[i]] # 0

\* What compile_region returns refers to slots that exist, one for each member.
LEMMA CompiledWired ==
  ASSUME TypeOK, SlotsDistinct, NEW M \in SUBSET Uid, NEW c \in Circuits(M)
  PROVE  /\ WiredTo(CompiledRegion(c), DOMAIN cache)
         /\ ToSet(c.members) \subseteq M
         /\ \A i \in DOMAIN c.members : c.rows[i] \in Rows(c.members[i])
         /\ Registered(CompiledRegion(c), idx)
         /\ CompiledRegion(c).members = c.members /\ CompiledRegion(c).rows = c.rows
         /\ \A i \in 1 .. Len(c.members) : CompiledRegion(c).outputs[i] = idx[c.members[i]]
<1> DEFINE k == Cardinality(M)
           r == CompiledRegion(c)
           outs == [i \in DOMAIN c.members |-> idx[c.members[i]]]
           ruls == [i \in DOMAIN c.members |-> RuleOf(c.members[i])]
<1>1. k \in Nat
  BY UidsFinite
<1>2. /\ c.members \in TopoOrders(M)
      /\ c.rows \in [1 .. k -> UNION {Rows(n) : n \in M}]
      /\ \A i \in DOMAIN c.members : /\ c.rows[i] \in Rows(c.members[i])
                                     /\ idx[c.members[i]] # 0 /\ 0 \notin ToSet(c.rows[i])
  BY DEF Circuits
<1>3. /\ c.members \in [1 .. k -> M]
      /\ \A i, j \in 1 .. k : i < j => c.members[i] # c.members[j]
  BY <1>2 DEF TopoOrders, InOrder
<1> HIDE DEF k, r, outs, ruls
<1>4. DOMAIN c.members = 1 .. k /\ \A i \in 1 .. k : c.members[i] \in Uid /\ c.members[i] \in M
  BY <1>3
<1>5. Len(cache) \in Nat /\ DOMAIN cache = 1 .. Len(cache)
  BY LenProperties DEF TypeOK
<1>6. \A i \in 1 .. k : c.rows[i] \in Seq(DOMAIN cache)
  BY <1>2, <1>4, RowType
<1>i. \A m \in Uid : idx[m] \in 0 .. Len(cache)
  BY DEF TypeOK
<1>7. \A i \in 1 .. k : idx[c.members[i]] \in DOMAIN cache
  BY <1>2, <1>4, <1>5, <1>i
<1>s. r = [members |-> c.members, rows |-> c.rows, outputs |-> outs, rules |-> ruls,
            inputs |-> InputsOf(c.rows, outs)]
  BY DEF CompiledRegion, r, outs, ruls
<1>e. /\ outs = [i \in 1 .. k |-> idx[c.members[i]]]
      /\ ruls = [i \in 1 .. k |-> RuleOf(c.members[i])]
  BY <1>4 DEF outs, ruls
<1>8. /\ r.members = c.members /\ r.rows = c.rows /\ r.outputs = outs /\ r.rules = ruls
      /\ r.inputs = InputsOf(c.rows, outs)
      /\ r = [members |-> r.members, rows |-> r.rows, outputs |-> r.outputs, rules |-> r.rules,
              inputs |-> r.inputs]
  BY <1>s
<1>9. /\ r.members \in Seq(Uid) /\ Len(r.members) = k
  <2>1. r.members \in [1 .. k -> Uid]
    BY <1>3, <1>4, <1>8
  <2>2. r.members \in Seq(Uid)
    BY <1>1, <2>1, FunctionIsSeq
  <2>3. QED  BY <1>1, <2>1, <2>2, LenOfDomain
<1>10. /\ r.rows \in Seq(Seq(DOMAIN cache)) /\ Len(r.rows) = k
  <2>1. r.rows \in [1 .. k -> Seq(DOMAIN cache)]
    BY <1>2, <1>6, <1>8
  <2>2. r.rows \in Seq(Seq(DOMAIN cache))
    BY <1>1, <2>1, FunctionIsSeq
  <2>3. QED  BY <1>1, <2>1, <2>2, LenOfDomain
<1>11. /\ r.outputs \in Seq(DOMAIN cache) /\ Len(r.outputs) = k
  <2>1. r.outputs \in [1 .. k -> DOMAIN cache]
    BY <1>7, <1>8, <1>e
  <2>2. r.outputs \in Seq(DOMAIN cache)
    BY <1>1, <2>1, FunctionIsSeq
  <2>3. QED  BY <1>1, <2>1, <2>2, LenOfDomain
<1>12. /\ r.rules \in Seq(Rules) /\ Len(r.rules) = k
  <2>1. \A i \in 1 .. k : RuleOf(c.members[i]) \in Rules
    BY DEF RuleOf, Rules
  <2>2. r.rules \in [1 .. k -> Rules]
    BY <1>8, <1>e, <2>1
  <2>3. r.rules \in Seq(Rules)
    BY <1>1, <2>2, FunctionIsSeq
  <2>4. QED  BY <1>1, <2>2, <2>3, LenOfDomain
<1>13. r.inputs \subseteq DOMAIN cache
  <2>1. r.inputs \subseteq UNION {ToSet(c.rows[i]) : i \in DOMAIN c.rows}
    BY <1>8 DEF InputsOf
  <2>2. \A i \in DOMAIN c.rows : ToSet(c.rows[i]) \subseteq DOMAIN cache
    <3> SUFFICES ASSUME NEW i \in 1 .. k PROVE ToSet(c.rows[i]) \subseteq DOMAIN cache
      BY <1>2
    <3>1. c.rows[i] \in Seq(DOMAIN cache)
      BY <1>6
    <3>2. QED  BY <3>1, ElementOfSeq, LenProperties DEF ToSet
  <2>3. QED  BY <2>1, <2>2
<1>14. r \in Artifact
  <2>1. DOMAIN cache \subseteq Nat
    BY <1>5
  <2>2. r.outputs \in Seq(Nat) /\ r.inputs \subseteq Nat
    BY <1>11, <1>13, <2>1, SeqMonotonic
  <2>3. r.rows \in Seq(Seq(Nat))
    <3>1. Seq(DOMAIN cache) \subseteq Seq(Nat)
      BY <2>1, SeqMonotonic
    <3>2. QED  BY <1>10, <3>1, SeqMonotonic
  <2>4. QED  BY <1>8, <1>9, <1>12, <2>2, <2>3 DEF Artifact
<1>15. IsInjective(r.members) /\ IsInjective(r.outputs)
  <2>1. \A i, j \in 1 .. k : c.members[i] = c.members[j] => i = j
    BY <1>1, <1>3
  <2>2. \A i, j \in 1 .. k : idx[c.members[i]] = idx[c.members[j]] => i = j
    BY <1>2, <1>4, <2>1 DEF SlotsDistinct
  <2>3. r.members = c.members /\ DOMAIN c.members = 1 .. k
    BY <1>4, <1>8
  <2>4. DOMAIN r.outputs = 1 .. k /\ \A i \in 1 .. k : r.outputs[i] = idx[c.members[i]]
    BY <1>8, <1>e
  <2>5. QED  BY <2>1, <2>2, <2>3, <2>4 DEF IsInjective
<1>16. WiredTo(r, DOMAIN cache)
  BY <1>6, <1>7, <1>8, <1>9, <1>10, <1>11, <1>12, <1>13, <1>14, <1>15 DEF WiredTo
<1>17. ToSet(c.members) \subseteq M
  BY <1>4 DEF ToSet
<1>18. \A i \in DOMAIN c.members : c.rows[i] \in Rows(c.members[i])
  BY <1>2
<1>19. \A i \in 1 .. Len(r.members) : r.outputs[i] = idx[r.members[i]] /\ idx[r.members[i]] # 0
  BY <1>2, <1>4, <1>8, <1>9, <1>e
<1> HIDE DEF WiredTo, Rows
<1>20. Registered(r, idx)
  BY <1>19 DEF Registered
<1>21. QED  BY <1>8, <1>16, <1>17, <1>18, <1>19, <1>20 DEF r

-----------------------------------------------------------------------------
(* The gate *)

\* A locally emitted value carries the capability and the scope of the label
\* it is checked against, so only the lattice class can refuse it
\* (EmittedLabel::from_local, authority_gate).
THEOREM LocalGateIsLattice ==
  ASSUME NEW label \in Label, NEW decl \in PartitionDecl
  PROVE  authority_gate(label, from_local(label, decl))
           = IF decl.class \subseteq label.class THEN {} ELSE {"LatticeViolation"}
  BY DEF authority_gate, from_local, allows, contains, flows_to, Label, PartitionDecl

LEMMA DeniedType ==
  ASSUME NEW s, NEW t
  PROVE  Denied(s, t) \subseteq GateReason
  BY DEF Denied, authority_gate, GateReason

LEMMA AskedType == Asked \subseteq Uid \X Uid
  BY DEF Asked, Computes, Live, OpenSubs, Subs

LEMMA LoggedType ==
  ASSUME NEW s \in Uid, NEW t \in Uid
  PROVE  Logged(s, t) \subseteq [src : Uid, tgt : Uid, reason : GateReason]
<1>1. CASE Logged(s, t) = {}
  BY <1>1
<1>2. CASE Logged(s, t) = {[src |-> s, tgt |-> t, reason |-> r] : r \in Denied(s, t)}
  BY <1>2, DeniedType
<1>3. QED  BY <1>1, <1>2 DEF Logged

-----------------------------------------------------------------------------
(* Types of the authority tables *)

LEMMA JudgedType ==
  ASSUME AuthTypeOK, Judged, pairs' = pairs
  PROVE  AuthTypeOK'
<1>1. \A e \in Asked : Logged(e[1], e[2]) \subseteq [src : Uid, tgt : Uid, reason : GateReason]
  <2>1. \A e \in Asked : e[1] \in Uid /\ e[2] \in Uid
    BY AskedType
  <2>2. QED  BY <2>1, LoggedType
<1>2. violations' \subseteq [src : Uid, tgt : Uid, reason : GateReason]
  BY <1>1 DEF AuthTypeOK, Judged
<1>3. QED  BY <1>2 DEF AuthTypeOK, Judged

LEMMA EnteredType ==
  ASSUME NEW Y, NEW map, map \in [DOMAIN map -> Y], NEW key, NEW entry \in Y
  PROVE  /\ DOMAIN Entered(map, key, entry) = DOMAIN map \cup {key}
         /\ Entered(map, key, entry) \in [DOMAIN map \cup {key} -> Y]
  BY DEF Entered

LEMMA NarrowedType ==
  ASSUME NEW label \in Label, NEW src, NEW binding
  PROVE  Narrowed(label, src, binding) \in Label
<1>1. CASE Narrowed(label, src, binding) = label
  BY <1>1
<1>2. CASE Narrowed(label, src, binding)
             = [label EXCEPT !.scope = @ \cap decls[binding[src]].domain]
  BY <1>2 DEF Label
<1>3. QED  BY <1>1, <1>2 DEF Narrowed

LEMMA UnchangedType ==
  ASSUME AuthTypeOK, UNCHANGED authVars, pairs' = pairs
  PROVE  AuthTypeOK'
  BY DEF AuthTypeOK, authVars

LEMMA FollowType ==
  ASSUME AuthTypeOK, NEW connected, LabelsFollow(connected),
         violations' \subseteq violations
  PROVE  AuthTypeOK'
<1>1. permissive \in Label
  BY DEF permissive, Label
<1>2. labels' \in [pairs' -> Label]
  BY <1>1 DEF LabelsFollow, AuthTypeOK
<1>3. QED  BY <1>2 DEF AuthTypeOK, LabelsFollow

LEMMA DeclareType ==
  ASSUME AuthTypeOK, NEW c \in AuthOp, Declare(c)
  PROVE  AuthTypeOK'
<1>1. violations' = {} /\ amode' = amode /\ unbound' = unbound /\ pairs' = pairs
  BY DEF Declare
<1>2. CASE c.op = "PartitionCreate" /\ PartitionCreate(c.partition, c.decl)
  <2>1. c.partition \in Partition /\ c.decl \in PartitionDecl
    BY <1>2 DEF AuthOp
  <2>2. decls \in [DOMAIN decls -> PartitionDecl]
    BY DEF AuthTypeOK
  <2>3. decls' = Entered(decls, c.partition, c.decl)
    BY <1>2 DEF PartitionCreate
  <2>4. /\ DOMAIN decls' = DOMAIN decls \cup {c.partition}
        /\ decls' \in [DOMAIN decls' -> PartitionDecl]
    <3>1. /\ DOMAIN Entered(decls, c.partition, c.decl) = DOMAIN decls \cup {c.partition}
          /\ Entered(decls, c.partition, c.decl)
               \in [DOMAIN decls \cup {c.partition} -> PartitionDecl]
      BY <2>1, <2>2, EnteredType
    <3>2. QED  BY <2>3, <3>1
  <2>5. QED  BY <1>1, <1>2, <2>1, <2>4 DEF AuthTypeOK, PartitionCreate
<1>3. CASE c.op = "SetPartitionAuthority" /\ SetPartitionAuthority(c.partition, c.decl)
  <2>1. c.decl \in PartitionDecl
    BY <1>3 DEF AuthOp
  <2>2. DOMAIN decls' = DOMAIN decls /\ decls' \in [DOMAIN decls' -> PartitionDecl]
    BY <1>3, <2>1 DEF AuthTypeOK, SetPartitionAuthority
  <2>3. QED  BY <1>1, <1>3, <2>2 DEF AuthTypeOK, SetPartitionAuthority
<1>4. CASE c.op = "PartitionBind" /\ PartitionBind(c.node, c.partition)
  <2>1. c.node \in Uid /\ c.partition \in Partition
    BY <1>4 DEF AuthOp
  <2>2. bound \in [DOMAIN bound -> Partition] /\ bound' = Entered(bound, c.node, c.partition)
    BY <1>4 DEF AuthTypeOK, PartitionBind
  <2>3. /\ DOMAIN bound' = DOMAIN bound \cup {c.node}
        /\ bound' \in [DOMAIN bound' -> Partition]
    <3>1. /\ DOMAIN Entered(bound, c.node, c.partition) = DOMAIN bound \cup {c.node}
          /\ Entered(bound, c.node, c.partition) \in [DOMAIN bound \cup {c.node} -> Partition]
      BY <2>1, <2>2, EnteredType
    <3>2. QED  BY <2>2, <3>1
  <2>4. \A e \in pairs : Narrowed(labels[e], c.node, bound') \in Label
    BY NarrowedType DEF AuthTypeOK
  <2>5. labels' \in [pairs -> Label]
    BY <1>4, <2>4 DEF AuthTypeOK, PartitionBind
  <2>6. QED  BY <1>1, <1>4, <2>1, <2>3, <2>5 DEF AuthTypeOK, PartitionBind
<1>5. CASE c.op = "SetEdgeLabel" /\ SetEdgeLabel(c.src, c.tgt, c.label)
  <2>1. Narrowed(c.label, c.src, bound) \in Label
    BY <1>5, NarrowedType DEF AuthOp
  <2>2. labels' \in [pairs -> Label]
    BY <1>5, <2>1 DEF AuthTypeOK, SetEdgeLabel
  <2>3. QED  BY <1>1, <1>5, <2>2 DEF AuthTypeOK, SetEdgeLabel
<1>6. CASE c.op = "Annotate" /\ UNCHANGED <<decls, bound, labels>>
  BY <1>1, <1>6 DEF AuthTypeOK
<1>7. QED  BY <1>2, <1>3, <1>4, <1>5, <1>6 DEF Declare

LEMMA ConfigureType ==
  ASSUME AuthTypeOK, NEW c \in AuthOp, Configure(c)
  PROVE  AuthTypeOK'
<1>1. UNCHANGED <<decls, bound, labels, violations, pairs>>
  BY DEF Configure, vars, depVars
<1>2. amode' \in AuthorityMode /\ unbound' \in UnboundPolicy
  BY DEF Configure, AuthOp, AuthTypeOK, AuthorityMode, UnboundPolicy, default_for
<1>3. QED  BY <1>1, <1>2 DEF AuthTypeOK

LEMMA EngineCallType ==
  ASSUME AuthTypeOK, NEW c, EngineCall(c)
  PROVE  AuthTypeOK'
<1>1. \A connected : Announce(connected) => AuthTypeOK'
  BY FollowType DEF Announce
<1>2. CASE c.op = "EdgeConnect"
  BY <1>1, <1>2 DEF EngineCall
<1>3. CASE c.op = "Subscribe"
  BY <1>1, <1>3 DEF EngineCall
<1>4. CASE c.op = "DelEdge"
  BY <1>1, <1>4 DEF EngineCall
<1>5. CASE c.op \in {"SetValue", "Reflect"}
  BY <1>1, <1>5 DEF EngineCall
<1>6. CASE c.op \notin {"EdgeConnect", "Subscribe", "DelEdge", "SetValue", "Reflect"}
  BY <1>1, <1>6 DEF EngineCall
<1>7. QED  BY <1>2, <1>3, <1>4, <1>5, <1>6

LEMMA TierCallType ==
  ASSUME AuthTypeOK, TierCall
  PROVE  AuthTypeOK'
<1>1. ASSUME NEW c \in Calls, EngineCall(c) PROVE AuthTypeOK'
  BY <1>1, EngineCallType
<1>2. ASSUME NEW c \in AuthCalls, Declare(c) \/ Configure(c) PROVE AuthTypeOK'
  BY <1>2, DeclareType, ConfigureType, AuthorityAssumption DEF AuthorityAssumption
<1>3. ASSUME NEW c \in RegionCalls, RegionDeclare(c.root, c.boundary, c.stability, c.compile)
      PROVE  AuthTypeOK'
  BY <1>3 DEF RegionDeclare, AuthTypeOK
<1>4. QED  BY <1>1, <1>2, <1>3 DEF TierCall, Calling

LEMMA TierWorkType ==
  ASSUME AuthTypeOK, TierWork
  PROVE  AuthTypeOK'
<1>1. CASE DeleteStep
  BY <1>1, FollowType DEF DeleteStep
<1>2. CASE RegionStep
  <2>1. UNCHANGED authVars /\ pairs' = pairs
    BY <1>2 DEF RegionStep, RunRegion, SkipRegion, vars, depVars
  <2>2. QED  BY <2>1, UnchangedType
<1>3. CASE WarmStep
  <2>1. CASE GatedReady \/ GatedConflicted
    <3>1. pairs' = pairs /\ Judged
      BY <2>1 DEF GatedReady, GatedConflicted, PushReadyTo, PushConflictedTo, Step
    <3>2. QED  BY <3>1, JudgedType
  <2>2. CASE SkipHandled \/ PushIdle \/ StepDemand \/ StepStabilize
    <3>1. pairs' = pairs
      BY <2>2 DEF SkipHandled, PushIdle, StepDemand, StepStabilize, Step
    <3>2. CASE UNCHANGED authVars
      BY <3>1, <3>2, UnchangedType
    <3>3. QED  BY <1>3, <2>1, <2>2, <3>2 DEF WarmStep, SkipHandled
  <2>3. CASE (StepLimit \/ StabilizeSection \/ DrainAgain) /\ UNCHANGED authVars
    <3>1. pairs' = pairs
      BY <2>3 DEF StepLimit, StabilizeSection, DrainAgain, depVars
    <3>2. QED  BY <2>3, <3>1, UnchangedType
  <2>4. QED  BY <1>3, <2>1, <2>2, <2>3 DEF WarmStep
<1>4. CASE DrainEnd
  <2>1. UNCHANGED authVars /\ pairs' = pairs
    BY <1>4 DEF DrainEnd, DrainEnds, depVars
  <2>2. QED  BY <2>1, UnchangedType
<1>5. QED  BY <1>1, <1>2, <1>3, <1>4 DEF TierWork

\* The label table has exactly the pairs of the registry, whatever is wired,
\* bound, labelled or deleted in between (DepMeta lives in the registry), and
\* every table of the gate keeps its type.
THEOREM AuthorityTypeCorrect == TierSpec => []AuthTypeOK
<1>1. TierInit => AuthTypeOK
  BY DEF TierInit, AuthInit, AuthTypeOK, AuthorityMode, UnboundPolicy, permissive, Label
<1>2. AuthTypeOK /\ [TierNext]_tierVars => AuthTypeOK'
  <2>1. AuthTypeOK /\ TierNext => AuthTypeOK'
    BY TierCallType, TierWorkType DEF TierNext
  <2>2. AuthTypeOK /\ UNCHANGED tierVars => AuthTypeOK'
    BY DEF AuthTypeOK, tierVars, authVars, vars, depVars
  <2>3. QED  BY <2>1, <2>2
<1>3. QED  BY <1>1, <1>2, PTL DEF TierSpec
-----------------------------------------------------------------------------
(* What an enforcing engine pushes *)

\* The only gates a warm step closes are those of the pairs it was asked about
\* and did not refuse, and what it queues are their subscribers.
LEMMA GatedPushes ==
  ASSUME GatedReady \/ GatedConflicted
  PROVE  seen' \subseteq seen \cup (Asked \ Refused)
<1> DEFINE n == Head(queue).node
           subs == {s \in OpenSubs(n, demanded) : <<n, s>> \notin Refused}
<1>1. CASE UNCHANGED seen
  BY <1>1
<1>2. CASE seen' = seen \cup {<<n, s>> : s \in subs} /\ Asked = {n} \X OpenSubs(n, demanded)
  <2>1. \A s \in subs : <<n, s>> \in Asked \ Refused
    BY <1>2
  <2>2. QED  BY <1>2, <2>1
<1>3. CASE GatedReady
  <2>1. Computes(n) /\ DepState(n) = "Ready"
    BY <1>3 DEF GatedReady, PushReadyTo
  <2>2. CASE ReadyValue(n) # value[n] /\ PushSubs(n, subs, Tail(queue), seen)
    BY <1>2, <2>1, <2>2 DEF PushSubs, Asked
  <2>3. QED  BY <1>1, <1>3, <2>2 DEF GatedReady, PushReadyTo
<1>4. CASE GatedConflicted
  <2>1. Computes(n) /\ DepState(n) = "Conflicted"
    BY <1>4 DEF GatedConflicted, PushConflictedTo
  <2>2. CASE modes[n] = "Eager" /\ PushSubs(n, subs, Tail(queue), seen)
    BY <1>2, <2>1, <2>2 DEF PushSubs, Asked
  <2>3. QED  BY <1>1, <1>4, <2>2 DEF GatedConflicted, PushConflictedTo
<1>5. QED  BY <1>3, <1>4

\* With the Enforced mode's own policy (Deny), the warm tier passes a value on
\* over authorised pairs only: rules that fire and conflicts that infect alike
\* (try_auth in step_push, both branches).
THEOREM EnforcedPushesAuthorised ==
  TierSpec => [][amode = "Enforced" /\ unbound = "Deny" /\ WarmStep =>
                   \A e \in seen' \ seen : Denied(e[1], e[2]) = {}]_tierVars
<1>1. ASSUME amode = "Enforced", unbound = "Deny", WarmStep, NEW e \in seen' \ seen
      PROVE  Denied(e[1], e[2]) = {}
  <2>1. CASE GatedReady \/ GatedConflicted
    <3>1. e \in Asked /\ e \notin Refused
      BY <1>1, <2>1, GatedPushes
    <3>2. ~Suppressed(e[1], e[2])
      BY <3>1 DEF Refused
    <3>3. QED  BY <1>1, <3>2 DEF Suppressed
  <2>2. CASE ~(GatedReady \/ GatedConflicted)
    <3>1. seen' = seen \/ seen' = {}
      BY <1>1, <2>2 DEF WarmStep, SkipHandled, PushIdle, StepDemand, StepStabilize, StepLimit,
                        depVars, StabilizeSection, Resolve, Tick, DrainAgain
    <3>2. QED  BY <1>1, <3>1
  <2>3. QED  BY <2>1, <2>2
<1>2. [TierNext]_tierVars =>
        [amode = "Enforced" /\ unbound = "Deny" /\ WarmStep =>
           \A e \in seen' \ seen : Denied(e[1], e[2]) = {}]_tierVars
  BY <1>1
<1>3. QED  BY <1>2, PTL DEF TierSpec

-----------------------------------------------------------------------------
(* Engines without compiled regions *)

NoRegions == regions = [r \in {} |-> {}] /\ reads = {} /\ dirty = {} /\ handled = {}

\* Operations that only declare are logged: the clock advances.
Retick == pc = "idle" /\ Tick
            /\ UNCHANGED <<graphVars, storeVars, pairs, ordered, indices, modes, counters,
                           propVars, control>>

\* A step of the engine alone, but for what is refused.
GatedNext(refused) ==
  Next \/ Retick \/ PushReadyTo(refused) \/ PushConflictedTo(refused)

LEMMA EvictsNothing ==
  ASSUME NoRegions, NEW nodes, Evict(nodes)
  PROVE  NoRegions'
  BY DEF NoRegions, Evict

LEMMA CallWithoutRegions ==
  ASSUME NoRegions, RegionCalls = {}, TierCall
  PROVE  NoRegions' /\ (Next \/ Retick \/ UNCHANGED vars)
<1>1. ASSUME NEW c \in Calls, EngineCall(c) PROVE NoRegions' /\ Next
  <2>1. Next
    BY <1>1 DEF TierCall, Calling, EngineCall, Next, Call
  <2>2. CASE c.op = "EdgeConnect"
    BY <1>1, <2>1, <2>2, EvictsNothing DEF EngineCall
  <2>3. CASE c.op = "Subscribe"
    BY <1>1, <2>1, <2>3 DEF EngineCall, regionVars, NoRegions
  <2>4. CASE c.op = "DelEdge"
    BY <1>1, <2>1, <2>4, EvictsNothing DEF EngineCall
  <2>5. CASE c.op \in {"SetValue", "Reflect"}
    <3>1. CASE UNCHANGED regionVars
      BY <2>1, <3>1 DEF regionVars, NoRegions
    <3>2. CASE MarkDirty(c.node)
      BY <2>1, <3>2 DEF MarkDirty, NoRegions
    <3>3. QED  BY <1>1, <2>5, <3>1, <3>2 DEF EngineCall
  <2>6. CASE c.op \notin {"EdgeConnect", "Subscribe", "DelEdge", "SetValue", "Reflect"}
    BY <1>1, <2>1, <2>6 DEF EngineCall, regionVars, NoRegions
  <2>7. QED  BY <2>2, <2>3, <2>4, <2>5, <2>6
<1>2. ASSUME NEW c \in AuthCalls, Declare(c) \/ Configure(c), UNCHANGED regionVars
      PROVE  NoRegions' /\ (Retick \/ UNCHANGED vars)
  <2>1. pc = "idle"
    BY DEF TierCall, Calling
  <2>2. QED  BY <1>2, <2>1 DEF Declare, Configure, Retick, regionVars, NoRegions
<1>3. QED  BY <1>1, <1>2 DEF TierCall, Calling

LEMMA WorkWithoutRegions ==
  ASSUME NoRegions, TierWork
  PROVE  NoRegions' /\ GatedNext(Refused)
<1>1. CASE DeleteStep
  <2>1. Next
    BY <1>1 DEF DeleteStep, Next, Work
  <2>2. NoRegions'
    BY <1>1, EvictsNothing DEF DeleteStep, regionVars, NoRegions
  <2>3. QED  BY <2>1, <2>2 DEF GatedNext
<1>2. CASE RegionStep
  BY <1>2 DEF RegionStep, NoRegions
<1>3. CASE WarmStep
  <2>1. NoRegions'
    BY <1>3 DEF WarmStep, regionVars, NoRegions
  <2>2. ~SkipHandled
    BY DEF SkipHandled, Skips, NoRegions
  <2>3. GatedNext(Refused)
    BY <1>3, <2>2 DEF WarmStep, GatedReady, GatedConflicted, GatedNext, Next, Work
  <2>4. QED  BY <2>1, <2>3
<1>4. CASE DrainEnd
  <2>1. NoRegions'
    BY <1>4 DEF DrainEnd, NoRegions
  <2>2. QED  BY <1>4, <2>1 DEF DrainEnd, GatedNext, Next, Work
<1>5. QED  BY <1>1, <1>2, <1>3, <1>4 DEF TierWork

LEMMA NextWithoutRegions ==
  ASSUME NoRegions, RegionCalls = {}, [TierNext]_tierVars
  PROVE  NoRegions' /\ (GatedNext(Refused) \/ UNCHANGED vars)
<1>1. CASE TierCall
  BY <1>1, CallWithoutRegions DEF GatedNext
<1>2. CASE TierWork
  BY <1>2, WorkWithoutRegions
<1>3. CASE UNCHANGED tierVars
  BY <1>3 DEF tierVars, regionVars, NoRegions
<1>4. QED  BY <1>1, <1>2, <1>3 DEF TierNext

LEMMA InitWithoutRegions ==
  ASSUME TierInit
  PROVE  Init /\ NoRegions
  BY DEF TierInit, RegionInit, NoRegions

-----------------------------------------------------------------------------
(* Engines that advise or audit *)

NeverEnforced == \A c \in AuthCalls : c.op = "SetAuthorityMode" => c.mode # "Enforced"

LEMMA ModeKept ==
  ASSUME NeverEnforced, amode # "Enforced", [TierNext]_tierVars
  PROVE  amode' # "Enforced"
<1>1. ASSUME NEW c, EngineCall(c) PROVE amode' = amode
  <2>1. \A connected : Announce(connected) => amode' = amode
    BY DEF Announce, LabelsFollow
  <2>2. QED  BY <1>1, <2>1 DEF EngineCall
<1>2. ASSUME NEW c \in AuthCalls, Declare(c) \/ Configure(c) PROVE amode' # "Enforced"
  BY <1>2 DEF Declare, Configure, NeverEnforced
<1>3. ASSUME NEW c, RegionDeclare(c.root, c.boundary, c.stability, c.compile)
      PROVE  amode' = amode
  BY <1>3 DEF RegionDeclare
<1>4. CASE TierCall
  BY <1>1, <1>2, <1>3, <1>4 DEF TierCall, Calling
<1>5. CASE TierWork
  <2>1. amode' = amode
    BY <1>5 DEF TierWork, DeleteStep, LabelsFollow, RegionStep, RunRegion, SkipRegion, WarmStep,
                SkipHandled, GatedReady, GatedConflicted, Judged, DrainEnd, authVars
  <2>2. QED  BY <2>1
<1>6. CASE UNCHANGED tierVars
  BY <1>6 DEF tierVars, authVars
<1>7. QED  BY <1>4, <1>5, <1>6 DEF TierNext

LEMMA AuditRefusesNothing ==
  ASSUME amode # "Enforced"
  PROVE  Refused = {}
  BY DEF Refused, Suppressed

\* Refinement: partitions, bindings, labels, policies and the log of Audit
\* mode change nothing the engine does; until a host sets Enforced mode, the
\* engine is that of module Engine, whose clock their declarations advance.
THEOREM AuditImplementsEngine ==
  ASSUME RegionCalls = {}, NeverEnforced
  PROVE  TierSpec => Init /\ [][Next \/ Retick]_vars
<1> DEFINE Inv == NoRegions /\ amode # "Enforced"
<1>1. TierInit => Init /\ Inv
  BY InitWithoutRegions DEF TierInit, AuthInit
<1>2. Inv /\ [TierNext]_tierVars => Inv'
  BY NextWithoutRegions, ModeKept
<1>3. Inv /\ [TierNext]_tierVars => [Next \/ Retick]_vars
  <2>1. ASSUME Inv, [TierNext]_tierVars PROVE Next \/ Retick \/ UNCHANGED vars
    <3>1. GatedNext({}) \/ UNCHANGED vars
      BY <2>1, NextWithoutRegions, AuditRefusesNothing
    <3>2. QED  BY <3>1 DEF GatedNext, Next, Work, PushReady, PushConflicted
  <2>2. QED  BY <2>1
<1>4. QED  BY <1>1, <1>2, <1>3, PTL DEF TierSpec

-----------------------------------------------------------------------------
(* The engine under both tiers *)

\* A step of the engine that runs no circuit.
WarmMove ==
  Next \/ Retick \/ PushReadyTo(Refused) \/ PushConflictedTo(Refused) \/ SkipHandled
    \/ UNCHANGED vars

LEMMA TierMoves ==
  ASSUME TierNext
  PROVE  WarmMove \/ \E root : RunRegion(root)
<1>1. CASE TierCall
  <2>1. pc = "idle"
    BY <1>1 DEF TierCall, Calling
  <2>2. ASSUME NEW c \in Calls, EngineCall(c) PROVE Next
    BY <2>1, <2>2 DEF EngineCall, Next, Call
  <2>3. ASSUME NEW c, Declare(c) \/ Configure(c) PROVE Retick \/ UNCHANGED vars
    BY <2>1, <2>3 DEF Declare, Configure, Retick
  <2>4. ASSUME NEW c, RegionDeclare(c.root, c.boundary, c.stability, c.compile) PROVE Retick
    BY <2>1, <2>4 DEF RegionDeclare, Retick
  <2>5. QED  BY <1>1, <2>2, <2>3, <2>4 DEF TierCall, Calling, WarmMove
<1>2. CASE DeleteStep
  BY <1>2 DEF DeleteStep, Next, Work, WarmMove
<1>3. CASE RegionStep
  BY <1>3 DEF RegionStep, SkipRegion, WarmMove
<1>4. CASE WarmStep
  BY <1>4 DEF WarmStep, GatedReady, GatedConflicted, Next, Work, WarmMove
<1>5. CASE DrainEnd
  BY <1>5 DEF DrainEnd, Next, Work, WarmMove
<1>6. QED  BY <1>1, <1>2, <1>3, <1>4, <1>5 DEF TierNext, TierWork

LEMMA SkipKeeps ==
  ASSUME BaseInv, SkipHandled
  PROVE  Keeps
<1> USE DEF BaseInv, Keeps, SkipHandled
<1>1. TypeOK'
  BY StepType, ItemType DEF TypeOK
<1>2. Kept
  BY StepType DEF Kept, SlotsDistinct, Slotted, CacheCoherent, Live
<1>3. QED  BY <1>1, <1>2

\* Whatever the gate refuses and the circuits skip, types, slots and the two
\* copies of a value are kept.
LEMMA WarmMoveKeeps ==
  ASSUME BaseInv, WarmMove
  PROVE  Keeps
<1>1. Refused \in SUBSET (Uid \X Uid)
  BY AskedType DEF Refused
<1>2. CASE Retick
  BY <1>2 DEF Retick, Tick, graphVars, storeVars, propVars, control, BaseInv, TypeOK, SlotsDistinct,
              Slotted, CacheCoherent, Live, Keeps, Kept
<1>3. QED
  BY <1>1, <1>2, NextKeepsBase, PushReadyKeeps, PushConflictedKeeps, SkipKeeps DEF WarmMove

\* Slots are never taken back.
SlotsStay == /\ DOMAIN cache \subseteq DOMAIN cache'
             /\ \A n \in Uid : idx[n] # 0 => idx'[n] # 0

SameSlots == DOMAIN cache' = DOMAIN cache /\ UNCHANGED idx

LEMMA CreateStays ==
  ASSUME TypeOK, NEW n, NEW k, NodeCreate(n, k)
  PROVE  SlotsStay
<1>1. cache \in Seq(T) /\ "Neg" \in T /\ Len(cache) \in Nat /\ DOMAIN idx = Uid
  BY LenProperties DEF TypeOK, T
<1>2. DOMAIN cache \subseteq DOMAIN Append(cache, "Neg")
  BY <1>1, AppendProperties, LenProperties
<1>3. cache' = Append(cache, "Neg") /\ idx' = [idx EXCEPT ![n] = Len(cache) + 1]
  BY DEF NodeCreate, Alloc
<1>4. \A m \in Uid : idx[m] # 0 => idx'[m] # 0
  BY <1>1, <1>3
<1>5. QED  BY <1>2, <1>3, <1>4 DEF SlotsStay

LEMMA SlotsGrow ==
  ASSUME BaseInv, WarmMove
  PROVE  SlotsStay
<1>1. \A n, v : DOMAIN Stored(n, v) = DOMAIN cache
  BY DEF Stored
<1>2. \A n, v : Write(n, v) => DOMAIN cache' = DOMAIN cache
  BY <1>1 DEF Write
<1>3. \A M, v : Resolve(M, v) => DOMAIN cache' = DOMAIN cache
  BY DEF Resolve, StoredAll
<1>4. \A refused : PushReadyTo(refused) \/ PushConflictedTo(refused) => SameSlots
  BY <1>2 DEF PushReadyTo, PushConflictedTo, Step, SameSlots
<1>5. SameSlots \/ UNCHANGED storeVars => SlotsStay
  BY DEF SameSlots, SlotsStay, storeVars
<1>6. ASSUME NEW c, Apply(c) PROVE SlotsStay
  <2>1. \A n, k : NodeCreate(n, k) => SlotsStay
    BY CreateStays DEF BaseInv
  <2>2. \A n, v : WriteAndPush(n, v) => SameSlots
    BY <1>2 DEF WriteAndPush, SameSlots
  <2>3. \A seeds : Stabilize(seeds) => SameSlots
    BY <1>3 DEF Stabilize, Unresolved, SameSlots
  <2>4. CASE \/ \E n, k : NodeCreate(n, k)
             \/ \E n, v : WriteAndPush(n, v)
             \/ \E seeds : Stabilize(seeds)
    BY <1>5, <2>1, <2>2, <2>3, <2>4
  <2>5. CASE \/ \E e : EdgeConnect(e)
             \/ \E s, t : SubscribeOp(s, t)
             \/ \E item : Request(item)
             \/ \E n : DelNode(n) \/ ReflectMissing(n)
             \/ \E id : DelEdge(id)
             \/ \E n, m : SetMode(n, m)
    BY <1>5, <2>5 DEF EdgeConnect, SubscribeOp, Request, DelNode, ReflectMissing, DelEdge, SetMode
  <2>6. QED  BY <1>6, <2>4, <2>5 DEF Apply, SetValue, Reflect
<1>7. CASE Next
  <2>1. CASE DropEdge \/ DropNode
    BY <1>1, <1>5, <2>1 DEF DropEdge, DropNode, Dealloc, SameSlots
  <2>2. CASE PushIdle \/ PushReady \/ PushConflicted \/ StepDemand \/ StepStabilize
    <3>1. CASE PushReady \/ PushConflicted
      BY <1>4, <1>5, <3>1 DEF PushReady, PushConflicted
    <3>2. CASE PushIdle \/ StepDemand \/ StepStabilize
      BY <1>5, <3>2 DEF PushIdle, StepDemand, StepStabilize, Step, SameSlots
    <3>3. QED  BY <2>2, <3>1, <3>2
  <2>3. CASE StepLimit \/ DrainEnds \/ DrainAgain
    BY <1>5, <2>3 DEF StepLimit, DrainEnds, DrainAgain
  <2>4. CASE StabilizeSection
    BY <1>3, <1>5, <2>4 DEF StabilizeSection, Unresolved, SameSlots
  <2>5. QED  BY <1>6, <1>7, <2>1, <2>2, <2>3, <2>4 DEF Next, Call, Work
<1>8. CASE Retick \/ SkipHandled \/ UNCHANGED vars
  BY <1>5, <1>8 DEF Retick, SkipHandled, Step, vars, SameSlots, storeVars
<1>9. QED  BY <1>4, <1>5, <1>7, <1>8 DEF WarmMove

-----------------------------------------------------------------------------
(* The tables of the compiled tier *)

\* Artifacts refer to slots that exist; roots are dirty in a drain only, and
\* slots while a root is.
RegionInv ==
  /\ DOMAIN regions \subseteq DOMAIN contracts /\ DOMAIN contracts \subseteq Uid
  /\ \A root \in DOMAIN regions :
       WiredTo(regions[root], DOMAIN cache) /\ Registered(regions[root], idx)
  /\ reads \subseteq (DOMAIN cache) \X (DOMAIN contracts)
  /\ dirty \subseteq DOMAIN contracts
  /\ dirtySlots \cup handled \subseteq DOMAIN cache
  /\ pc # "drain" => dirty = {}
  /\ dirty = {} => dirtySlots = {}

TierInv == BaseInv /\ AuthTypeOK /\ RegionInv

LEMMA RegionInvTypes ==
  ASSUME RegionInv
  PROVE  RegionTypeOK
<1> SUFFICES ASSUME NEW root \in DOMAIN regions
             PROVE  /\ regions[root] \in Artifact
                    /\ ToSet(regions[root].outputs) \cup regions[root].inputs \subseteq DOMAIN cache
  BY DEF RegionInv, RegionTypeOK
<1>1. WiredTo(regions[root], DOMAIN cache)
  BY DEF RegionInv
<1>2. ToSet(regions[root].outputs) \subseteq DOMAIN cache
  BY <1>1, WiredRows DEF ToSet
<1>3. QED  BY <1>1, <1>2 DEF WiredTo

\* An artifact will refer to slots that exist, and its members have slots.
Lasting(r) == /\ WiredTo(r, DOMAIN cache')
              /\ \A i \in 1 .. Len(r.members) : idx'[r.members[i]] # 0

LEMMA ArtifactsLast ==
  ASSUME SlotsStay, NEW r, WiredTo(r, DOMAIN cache), Registered(r, idx)
  PROVE  Lasting(r)
<1>1. WiredTo(r, DOMAIN cache')
  BY WiredMore DEF SlotsStay
<1>2. \A i \in 1 .. Len(r.members) : r.members[i] \in Uid
  BY WiredRows
<1>3. QED  BY <1>1, <1>2 DEF Lasting, Registered, SlotsStay

\* Tables that are left alone, or lose artifacts, stay as they have to be.
LEMMA RegionInvShrinks ==
  ASSUME RegionInv, SlotsStay, UNCHANGED <<contracts, dirtySlots>>,
         DOMAIN regions' \subseteq DOMAIN regions,
         \A root \in DOMAIN regions' : regions'[root] = regions[root],
         reads' \subseteq reads, handled' \subseteq handled, dirty' = {}, dirty = {}
  PROVE  RegionInv'
<1>1. \A root \in DOMAIN regions : Lasting(regions[root])
  BY ArtifactsLast DEF RegionInv
<1>2. \A root \in DOMAIN regions' :
        WiredTo(regions'[root], DOMAIN cache') /\ Registered(regions'[root], idx')
  BY <1>1 DEF Lasting, Registered
<1>3. QED  BY <1>2 DEF RegionInv, SlotsStay

LEMMA EvictKeeps ==
  ASSUME RegionInv, dirty = {}, SlotsStay, NEW nodes, Evict(nodes)
  PROVE  RegionInv'
<1>1. /\ DOMAIN regions' \subseteq DOMAIN regions
      /\ \A root \in DOMAIN regions' : regions'[root] = regions[root]
      /\ reads' \subseteq reads /\ dirty' = {} /\ UNCHANGED <<contracts, dirtySlots, handled>>
  BY DEF Evict
<1>2. QED  BY <1>1, RegionInvShrinks

LEMMA TablesKept ==
  ASSUME RegionInv, dirty = {}, SlotsStay, UNCHANGED regionVars
  PROVE  RegionInv'
  BY RegionInvShrinks DEF regionVars

LEMMA MarkDirtyKeeps ==
  ASSUME RegionInv, SlotsStay,
         NEW n \in Uid, idx[n] \in DOMAIN cache, MarkDirty(n), pc' = "drain"
  PROVE  RegionInv'
<1>1. \A root \in DOMAIN regions' :
        WiredTo(regions'[root], DOMAIN cache') /\ Registered(regions'[root], idx')
  <2>1. \A root \in DOMAIN regions : Lasting(regions[root])
    BY ArtifactsLast DEF RegionInv
  <2>2. regions' = regions
    BY DEF MarkDirty
  <2>3. QED  BY <2>1, <2>2 DEF Lasting, Registered
<1>2. dirty' \subseteq DOMAIN contracts
  BY DEF MarkDirty, RegionInv
<1>3. dirtySlots' \subseteq DOMAIN cache /\ (dirty' = {} => dirtySlots' = {})
  BY DEF MarkDirty
<1>4. QED  BY <1>1, <1>2, <1>3 DEF RegionInv, MarkDirty, SlotsStay

\* A write that changes a value starts a drain.
LEMMA WritesDrain ==
  ASSUME TypeOK, NEW c \in IsaOp, c.op \in {"SetValue", "Reflect"}, Apply(c), value' # value
  PROVE  c.node \in Live /\ pc' = "drain"
<1>1. \A v : WriteAndPush(c.node, v) => c.node \in Live /\ pc' = "drain"
  BY DEF WriteAndPush, StartDrain
<1>2. CASE c.op = "SetValue"
  BY <1>1, <1>2 DEF Apply, SetValue
<1>3. CASE c.op = "Reflect"
  BY <1>1, <1>3 DEF Apply, Reflect, ReflectMissing, graphVars
<1>4. QED  BY <1>2, <1>3

LEMMA EngineCallTables ==
  ASSUME BaseInv, RegionInv, pc = "idle", NEW c \in Calls, EngineCall(c)
  PROVE  RegionInv'
<1>1. Apply(c) /\ c \in IsaOp /\ WarmMove
  BY EngineAssumption DEF EngineAssumption, EngineCall, WarmMove, Next, Call
<1>2. dirty = {} /\ SlotsStay
  BY <1>1, SlotsGrow DEF RegionInv
<1>3. CASE c.op \in {"EdgeConnect", "DelEdge"}
  <2>1. \E nodes : Evict(nodes)
    BY <1>3 DEF EngineCall
  <2>2. QED  BY <1>2, <2>1, EvictKeeps
<1>4. CASE c.op \in {"SetValue", "Reflect"}
  <2>1. CASE value' = value
    BY <1>2, <1>4, <2>1, TablesKept DEF EngineCall
  <2>2. CASE value' # value
    <3>1. c.node \in Live /\ pc' = "drain"
      BY <1>1, <1>4, <2>2, WritesDrain DEF BaseInv
    <3>2. c.node \in Uid /\ idx[c.node] \in DOMAIN cache
      BY <3>1, LenProperties DEF BaseInv, TypeOK, Slotted, Live
    <3>3. MarkDirty(c.node)
      BY <1>4, <2>2 DEF EngineCall
    <3>4. QED  BY <1>2, <3>1, <3>2, <3>3, MarkDirtyKeeps
  <2>3. QED  BY <2>1, <2>2
<1>5. CASE c.op \notin {"EdgeConnect", "DelEdge", "SetValue", "Reflect"}
  <2>1. UNCHANGED regionVars
    BY <1>5 DEF EngineCall
  <2>2. QED  BY <1>2, <2>1, TablesKept
<1>6. QED  BY <1>3, <1>4, <1>5

LEMMA DeclareTables ==
  ASSUME TypeOK, SlotsDistinct, AuthTypeOK, RegionInv, pc = "idle", NEW c \in RegionOp,
         RegionDeclare(c.root, c.boundary, c.stability, c.compile)
  PROVE  RegionInv'
<1> DEFINE M == RegionMembers(c.root, c.boundary)
<1>1. c.root \in Uid /\ c.boundary \in Boundary
  BY DEF RegionOp
<1>2. M \subseteq Uid
  BY <1>1, MembersType DEF AuthTypeOK
<1>3. /\ DOMAIN contracts' = DOMAIN contracts \cup {c.root}
      /\ UNCHANGED <<cache, idx, pc, dirty, dirtySlots, handled>>
  BY DEF RegionDeclare, Entered, storeVars, control
<1>4. /\ DOMAIN regions' \subseteq DOMAIN regions \cup {c.root}
      /\ \A root \in DOMAIN regions' :
           WiredTo(regions'[root], DOMAIN cache) /\ Registered(regions'[root], idx)
      /\ reads' \subseteq (DOMAIN cache) \X (DOMAIN contracts')
  <2>1. CASE UNCHANGED <<regions, reads>>
    BY <1>3, <2>1 DEF RegionInv
  <2>2. CASE /\ \E k \in Circuits(M) : regions' = Entered(regions, c.root, CompiledRegion(k))
             /\ reads' = reads \cup (regions'[c.root].inputs \X {c.root})
    <3>1. PICK k \in Circuits(M) : regions' = Entered(regions, c.root, CompiledRegion(k))
      BY <2>2
    <3>2. WiredTo(CompiledRegion(k), DOMAIN cache) /\ Registered(CompiledRegion(k), idx)
      BY <1>2, <3>1, CompiledWired
    <3>3. /\ DOMAIN regions' = DOMAIN regions \cup {c.root}
          /\ regions'[c.root] = CompiledRegion(k)
          /\ \A root \in DOMAIN regions \ {c.root} : regions'[root] = regions[root]
      BY <3>1 DEF Entered
    <3>4. \A root \in DOMAIN regions' :
            WiredTo(regions'[root], DOMAIN cache) /\ Registered(regions'[root], idx)
      BY <3>2, <3>3 DEF RegionInv
    <3>5. regions'[c.root].inputs \subseteq DOMAIN cache
      BY <3>2, <3>3 DEF WiredTo
    <3>6. QED  BY <1>3, <2>2, <3>3, <3>4, <3>5 DEF RegionInv
  <2>3. QED  BY <2>1, <2>2 DEF RegionDeclare
<1>5. \A root \in DOMAIN regions' : Registered(regions'[root], idx')
  BY <1>3, <1>4 DEF Registered
<1>6. QED  BY <1>1, <1>3, <1>4, <1>5 DEF RegionInv

LEMMA CallTables ==
  ASSUME TierInv, TierCall
  PROVE  RegionInv'
<1>1. pc = "idle" /\ dirty = {}
  BY DEF TierCall, Calling, TierInv, RegionInv
<1>2. ASSUME NEW c \in Calls, EngineCall(c) PROVE RegionInv'
  BY <1>1, <1>2, EngineCallTables DEF TierInv
<1>3. ASSUME NEW c, Declare(c) \/ Configure(c), UNCHANGED regionVars PROVE RegionInv'
  <2>1. SlotsStay
    BY <1>3 DEF Declare, Configure, vars, storeVars, SlotsStay
  <2>2. QED  BY <1>1, <1>3, <2>1, TablesKept DEF TierInv
<1>4. ASSUME NEW c \in RegionCalls, RegionDeclare(c.root, c.boundary, c.stability, c.compile)
      PROVE  RegionInv'
  BY <1>1, <1>4, DeclareTables, RegionAssumption DEF TierInv, BaseInv, RegionAssumption
<1>5. QED  BY <1>2, <1>3, <1>4 DEF TierCall, Calling

-----------------------------------------------------------------------------
(* Running a region *)

LEMMA RunsWired ==
  ASSUME TierInv, NEW root, RunRegion(root)
  PROVE  /\ WiredTo(regions[root], DOMAIN cache)
         /\ Circuit(regions[root], RunRows(regions[root]))
         /\ cache' = RunRows(regions[root]).store
         /\ cache \in Seq(T) /\ dirtySlots \subseteq DOMAIN cache
         /\ cache' \in Seq(T) /\ Len(cache') = Len(cache) /\ DOMAIN cache' = DOMAIN cache
<1>1. root \in DOMAIN regions /\ cache' = RunRows(regions[root]).store
  BY DEF RunRegion
<1>2. /\ WiredTo(regions[root], DOMAIN cache) /\ cache \in Seq(T)
      /\ dirtySlots \subseteq DOMAIN cache
  BY <1>1 DEF TierInv, RegionInv, BaseInv, TypeOK
<1>3. Circuit(regions[root], RunRows(regions[root]))
  BY <1>2, RunRowsKeep
<1>4. cache' \in Seq(T) /\ Len(cache') = Len(cache)
  BY <1>1, <1>3 DEF Circuit
<1>5. DOMAIN cache' = DOMAIN cache
  BY <1>2, <1>4, LenProperties
<1>6. QED  BY <1>1, <1>2, <1>3, <1>4, <1>5

LEMMA ChangedRowsType ==
  ASSUME NEW r, WiredTo(r, DOMAIN cache), NEW store
  PROVE  /\ ChangedRows(r, store) \subseteq 1 .. Len(r.members)
         /\ IsFiniteSet(ChangedRows(r, store))
<1>1. ChangedRows(r, store) \subseteq 1 .. Len(r.members) /\ Len(r.members) \in Nat
  BY WiredRows DEF ChangedRows
<1>2. IsFiniteSet(1 .. Len(r.members))
  BY <1>1, FS_Interval
<1>3. QED  BY <1>1, <1>2, FS_Subset

LEMMA RunRegionValues ==
  ASSUME TierInv, NEW root, RunRegion(root)
  PROVE  value' \in [Uid -> T]
<1> DEFINE r == regions[root]
           rows == ChangedRows(r, cache')
<1>1. WiredTo(r, DOMAIN cache) /\ cache' \in Seq(T) /\ DOMAIN cache' = DOMAIN cache
      /\ cache' = RunRows(r).store
  BY RunsWired
<1>2. value' = [n \in Uid |->
                 IF n \in Live /\ \E i \in rows : r.members[i] = n
                   THEN cache'[r.outputs[CHOOSE i \in rows : r.members[i] = n]] ELSE value[n]]
  BY <1>1 DEF RunRegion
<1>3. \A i \in rows : cache'[r.outputs[i]] \in T
  <2>1. \A i \in rows : r.outputs[i] \in DOMAIN cache
    BY <1>1, ChangedRowsType, WiredRows
  <2>2. QED  BY <1>1, <2>1, ElementOfSeq, LenProperties
<1> HIDE DEF r, rows
<1>4. \A n \in Uid : (\E i \in rows : r.members[i] = n) =>
        cache'[r.outputs[CHOOSE i \in rows : r.members[i] = n]] \in T
  BY <1>3
<1>5. \A n \in Uid : value[n] \in T
  BY DEF TierInv, BaseInv, TypeOK
<1>6. QED  BY <1>2, <1>4, <1>5

LEMMA RunRegionQueue ==
  ASSUME TierInv, NEW root, RunRegion(root)
  PROVE  queue' \in Seq(WorkItem) /\ seen' \subseteq Uid \X Uid
<1> DEFINE r == regions[root]
           rows == ChangedRows(r, RunRows(r).store)
           open == {e \in rows \X Uid :
                 /\ <<r.members[e[1]], e[2]>> \in pairs \ seen
                 /\ e[2] \notin ToSet(r.members) /\ modes[e[2]] = "Eager"}
<1>1. PICK order \in [1 .. Cardinality(open) -> open] :
        queue' = queue \o [k \in DOMAIN order |-> PushItem(order[k][2])]
  BY Zenon DEF RunRegion, InOrder
<1>2. seen' = seen \cup {<<r.members[e[1]], e[2]>> : e \in open}
  BY Zenon DEF RunRegion
<1>3. IsFiniteSet(rows)
  BY RunsWired, ChangedRowsType
<1>4. Cardinality(open) \in Nat
  <2>1. IsFiniteSet(rows \X Uid)
    BY <1>3, FS_Product, EngineAssumption DEF EngineAssumption
  <2>2. open \subseteq rows \X Uid
    OBVIOUS
  <2>3. QED  BY <2>1, <2>2, FS_Subset, FS_CardinalityType
<1>5. \A e \in open : e[2] \in Uid
  OBVIOUS
<1>6. queue' \in Seq(WorkItem)
  <2> HIDE DEF open
  <2>1. [k \in DOMAIN order |-> PushItem(order[k][2])] \in Seq(WorkItem)
    BY <1>1, <1>4, <1>5, PairItemsType
  <2>2. QED  BY <1>1, <2>1, ConcatProperties DEF TierInv, BaseInv, TypeOK
<1>7. seen' \subseteq Uid \X Uid
  <2>1. \A e \in open : <<r.members[e[1]], e[2]>> \in pairs
    OBVIOUS
  <2>2. pairs \subseteq Uid \X Uid /\ seen \subseteq Uid \X Uid
    BY DEF TierInv, BaseInv, TypeOK
  <2> HIDE DEF open
  <2>3. QED  BY <1>2, <2>1, <2>2
<1>8. QED  BY <1>6, <1>7

\* A circuit writes to slots and nodes that exist.
LEMMA RunRegionBase ==
  ASSUME TierInv, NEW root, RunRegion(root)
  PROVE  BaseInv'
<1>1. UNCHANGED <<kind, edges, idx, pairs, ordered, indices, modes, demanded, sections, steps, pc,
                  victim>>
  BY DEF RunRegion, control
<1>2. counters' \in [Uid -> [T -> Nat]]
  <2> DEFINE r == regions[root]
  <2>1. counters' = RecountOutside(r, ChangedRows(r, RunRows(r).store), RunRows(r).store)
    BY DEF RunRegion
  <2>2. counters \in Counting
    BY DEF TierInv, BaseInv, TypeOK, Counting
  <2> HIDE DEF r
  <2>3. RecountOutside(r, ChangedRows(r, RunRows(r).store), RunRows(r).store) \in Counting
    BY <2>2, RunsWired, RecountOutsideType DEF r
  <2>4. QED  BY <2>1, <2>3 DEF Counting
<1>3. /\ cache' \in Seq(T) /\ Len(cache') = Len(cache)
      /\ value' \in [Uid -> T] /\ queue' \in Seq(WorkItem) /\ seen' \subseteq Uid \X Uid
  BY RunsWired, RunRegionValues, RunRegionQueue
<1>4. TypeOK'
  BY <1>1, <1>2, <1>3 DEF TierInv, BaseInv, TypeOK
<1>5. SlotsDistinct' /\ Slotted'
  BY <1>1 DEF TierInv, BaseInv, SlotsDistinct, Slotted, Live
<1>6. QED  BY <1>4, <1>5 DEF BaseInv

LEMMA RunRegionTables ==
  ASSUME TierInv, NEW root, RunRegion(root)
  PROVE  RegionInv'
<1> DEFINE r == regions[root]
           after == RunRows(r)
<1>1. /\ WiredTo(r, DOMAIN cache) /\ Circuit(r, after) /\ DOMAIN cache' = DOMAIN cache
  BY RunsWired
<1>2. /\ pc = "drain" /\ pc' = pc /\ root \in DOMAIN regions
      /\ dirty' = dirty \ {root}
      /\ dirtySlots' = IF dirty' = {} THEN {} ELSE after.touched
      /\ handled' = handled \cup {idx[m] : m \in ToSet(r.members)}
      /\ UNCHANGED <<regions, contracts, reads>>
  BY DEF RunRegion, control
<1>3. after.touched \subseteq DOMAIN cache
  BY <1>1 DEF Circuit
<1>4. {idx[m] : m \in ToSet(r.members)} \subseteq DOMAIN cache
  <2> SUFFICES ASSUME NEW i \in 1 .. Len(r.members) PROVE idx[r.members[i]] \in DOMAIN cache
    BY <1>1, WiredRows DEF ToSet
  <2>1. r.members[i] \in Uid /\ idx[r.members[i]] # 0
    BY <1>1, <1>2, WiredRows DEF TierInv, RegionInv, Registered
  <2>2. QED  BY <2>1, LenProperties DEF TierInv, BaseInv, TypeOK
<1> HIDE DEF r, after
<1>5. \A k \in DOMAIN regions' : Registered(regions'[k], idx')
  <2>1. UNCHANGED <<idx, regions>>
    BY DEF RunRegion
  <2>2. QED  BY <2>1 DEF TierInv, RegionInv, Registered
<1>6. QED  BY <1>1, <1>2, <1>3, <1>4, <1>5 DEF TierInv, RegionInv

LEMMA WorkTables ==
  ASSUME TierInv, TierWork
  PROVE  RegionInv'
<1>1. \A root : RunRegion(root) => RegionInv'
  BY RunRegionTables
<1>2. CASE WarmMove
  <2>1. SlotsStay
    BY <1>2, SlotsGrow DEF TierInv
  <2>2. CASE DeleteStep
    <3>1. dirty = {}
      BY <2>2 DEF DeleteStep, DropEdge, DropNode, TierInv, RegionInv
    <3>2. CASE UNCHANGED regionVars
      BY <2>1, <3>1, <3>2, TablesKept DEF TierInv
    <3>3. CASE Evict(victim)
      BY <2>1, <3>1, <3>3, EvictKeeps DEF TierInv
    <3>4. QED  BY <2>2, <3>2, <3>3 DEF DeleteStep
  <2>3. ASSUME NEW root, SkipRegion(root) PROVE RegionInv'
    <3>1. UNCHANGED <<cache, idx, pc, regions, contracts, reads, handled>> /\ pc = "drain"
      BY <2>3 DEF SkipRegion, vars, storeVars, control
    <3>2. dirty' \subseteq dirty /\ dirtySlots' \subseteq dirtySlots /\ (dirty' = {} => dirtySlots' = {})
      BY <2>3 DEF SkipRegion
    <3>3. \A k \in DOMAIN regions' :
            WiredTo(regions'[k], DOMAIN cache') /\ Registered(regions'[k], idx')
      BY <3>1 DEF TierInv, RegionInv
    <3>4. QED  BY <3>1, <3>2, <3>3 DEF TierInv, RegionInv
  <2>4. CASE WarmStep
    BY <2>1, <2>4, TablesKept DEF WarmStep, TierInv
  <2>5. CASE DrainEnd
    BY <2>1, <2>5, RegionInvShrinks DEF DrainEnd, TierInv
  <2>6. QED  BY <1>1, <2>2, <2>3, <2>4, <2>5 DEF TierWork, RegionStep
<1>3. QED  BY <1>1, <1>2, TierMoves DEF TierNext

LEMMA TierInvNext ==
  ASSUME TierInv, TierNext
  PROVE  TierInv'
<1>1. BaseInv'
  <2>1. CASE WarmMove
    BY <2>1, WarmMoveKeeps DEF TierInv, Keeps, Kept, BaseInv
  <2>2. QED  BY <2>1, TierMoves, RunRegionBase
<1>2. AuthTypeOK'
  BY TierCallType, TierWorkType DEF TierNext, TierInv
<1>3. RegionInv'
  BY CallTables, WorkTables DEF TierNext
<1>4. QED  BY <1>1, <1>2, <1>3 DEF TierInv

LEMMA TierInvInit ==
  ASSUME TierInit
  PROVE  TierInv
<1>1. BaseInv
  BY InitHolds, CoherentSlotted DEF TierInit
<1>2. AuthTypeOK
  BY DEF TierInit, AuthInit, AuthTypeOK, AuthorityMode, UnboundPolicy, permissive, Label
<1>3. RegionInv
  BY DEF TierInit, RegionInit, RegionInv, Init, Fresh
<1>4. QED  BY <1>1, <1>2, <1>3 DEF TierInv

LEMMA TierInvKept ==
  ASSUME TierInv, UNCHANGED tierVars
  PROVE  TierInv'
<1>1. UNCHANGED <<vars, authVars, regionVars>>
  BY DEF tierVars
<1>2. BaseInv'
  BY <1>1 DEF vars, graphVars, storeVars, depVars, propVars, control, TierInv, BaseInv, TypeOK, SlotsDistinct, Slotted, Live
<1>3. AuthTypeOK'
  BY <1>1, UnchangedType DEF TierInv, vars, depVars
<1>4. SlotsStay /\ UNCHANGED pc
  BY <1>1 DEF vars, storeVars, SlotsStay, control
<1>5. RegionInv'
  BY <1>1, <1>4 DEF TierInv, RegionInv, regionVars, vars, storeVars
<1>6. QED  BY <1>2, <1>3, <1>5 DEF TierInv

LEMMA TierInvHolds == TierSpec => []TierInv
<1>1. TierInv /\ [TierNext]_tierVars => TierInv'
  BY TierInvNext, TierInvKept
<1>2. QED  BY <1>1, TierInvInit, PTL DEF TierSpec

\* With the authority gate, the compiled tier and the warm tier taking turns,
\* every variable of the engine keeps its type and every node a slot of its
\* own (Engine and its tables in engine.rs).
THEOREM TiersTypeCorrect == TierSpec => []TypeOK
<1>1. TierInv => TypeOK
  BY DEF TierInv, BaseInv
<1>2. QED  BY <1>1, TierInvHolds, PTL

\* A compiled artifact refers to slots that exist for as long as it is kept;
\* no root is left dirty and no slot is left to be looked at when the drain is
\* over, however many regions ran, were evicted or made each other dirty
\* (drain_and_stabilize, invalidate_for_node).
THEOREM TablesTypeCorrect == TierSpec => []TablesTypeOK
<1>1. TierInv => TablesTypeOK
  BY RegionInvTypes DEF TierInv, TablesTypeOK
<1>2. QED  BY <1>1, TierInvHolds, PTL

-----------------------------------------------------------------------------
(* The registries under both tiers *)

LEMMA TierRegistry ==
  ASSUME TierInv, RegInv, Careful, TierNext
  PROVE  RegInv'
<1>1. CASE Next
  BY <1>1, CallRegistry, WorkRegistry DEF Next, TierInv
<1>2. CASE \/ Retick \/ PushReadyTo(Refused) \/ PushConflictedTo(Refused) \/ SkipHandled
           \/ UNCHANGED vars
  <2>1. UNCHANGED <<kind, idx, pairs, ordered, indices>>
    BY <1>2 DEF Retick, PushReadyTo, PushConflictedTo, SkipHandled, Step, vars, graphVars,
                storeVars, depVars
  <2>2. QED  BY <2>1, RegistryUnchanged
<1>3. ASSUME NEW root, RunRegion(root) PROVE RegInv'
  <2>1. UNCHANGED <<kind, idx, pairs, ordered, indices>>
    BY <1>3 DEF RunRegion
  <2>2. QED  BY <2>1, RegistryUnchanged
<1>4. QED  BY <1>1, <1>2, <1>3, TierMoves DEF WarmMove

LEMMA RegistryKept ==
  ASSUME RegInv, UNCHANGED tierVars
  PROVE  RegInv'
  BY RegistryUnchanged DEF tierVars, vars, graphVars, storeVars, depVars

LEMMA TierRegistryHolds ==
  ASSUME Careful
  PROVE  TierSpec => [](TierInv /\ RegInv)
<1>1. TierInit => TierInv /\ RegInv
  BY TierInvInit, InitRegistry DEF TierInit
<1>2. TierInv /\ RegInv /\ [TierNext]_tierVars => (TierInv /\ RegInv)'
  BY TierInvNext, TierInvKept, TierRegistry, RegistryKept
<1>3. QED  BY <1>1, <1>2, PTL DEF TierSpec

\* Slot lists stay parallel to the dependency lists, and refer to live nodes,
\* when regions are compiled, run and evicted between the operations too.
THEOREM TierListsParallel ==
  ASSUME Careful
  PROVE  TierSpec => [](IndicesParallel /\ NoTombstoneRead)
<1>1. TierInv /\ RegInv => IndicesParallel /\ NoTombstoneRead
  BY RegistryParallel, RegistryReadsLive DEF TierInv, BaseInv
<1>2. QED  BY <1>1, TierRegistryHolds, PTL

-----------------------------------------------------------------------------
(* Artifacts and the slots of their members *)

NoCreation == \A c \in Calls : c.op # "NodeCreate"

\* No node is created, or every artifact is evicted when a member is deleted
\* and the callers keep to fresh ids: the slot of a member stays its slot.
NoStale == \/ NoCreation
           \/ RegionCalls = {}
           \/ Careful /\ \A c \in RegionCalls : c.stability = "EpochTracked"

\* A row that reads something writes the slot of its member.
Aligned(r, slots) ==
  \A i \in 1 .. Len(r.members) : r.rows[i] # <<>> => r.outputs[i] = slots[r.members[i]]

\* An artifact that goes with its first member to be deleted: a member that
\* was gone when it was compiled reads nothing.
Tracked(root) ==
  /\ contracts[root] = "EpochTracked"
  /\ \A i \in 1 .. Len(regions[root].members) :
       regions[root].members[i] \in Live \/ regions[root].rows[i] = <<>>

AlignInv ==
  /\ Careful => RegInv
  /\ \A root \in DOMAIN regions : Aligned(regions[root], idx)
  /\ RegionCalls = {} => DOMAIN regions = {}
  /\ ~NoCreation => \A root \in DOMAIN regions : Tracked(root)

\* Where no slot is given away, artifacts may go, and so may nodes that are no
\* members.
LEMMA AlignKept ==
  ASSUME TierInv, AlignInv, (Careful => RegInv)', UNCHANGED idx,
         DOMAIN regions' \subseteq DOMAIN regions,
         \A root \in DOMAIN regions' : /\ regions'[root] = regions[root]
                                       /\ contracts'[root] = contracts[root],
         \A root \in DOMAIN regions' : Tracked(root) =>
           ToSet(regions[root].members) \cap Live \subseteq Live'
  PROVE  AlignInv'
<1>1. \A root \in DOMAIN regions' : Aligned(regions'[root], idx')
  BY DEF AlignInv
<1>2. ASSUME NEW root \in DOMAIN regions', Tracked(root) PROVE Tracked(root)'
  <2>1. regions'[root] = regions[root] /\ contracts'[root] = contracts[root]
    OBVIOUS
  <2>2. DOMAIN regions[root].members = 1 .. Len(regions[root].members)
    BY WiredRows DEF TierInv, RegionInv
  <2>3. \A i \in 1 .. Len(regions[root].members) :
          regions[root].members[i] \in Live => regions[root].members[i] \in Live'
    BY <1>2, <2>2 DEF ToSet
  <2>4. QED  BY <1>2, <2>1, <2>3 DEF Tracked
<1>3. QED  BY <1>1, <1>2 DEF AlignInv

\* What keeps every table in place.
LEMMA AlignQuiet ==
  ASSUME TierInv, AlignInv, (Careful => RegInv)', UNCHANGED <<kind, idx, regions, contracts>>
  PROVE  AlignInv'
<1>1. Live' = Live
  BY DEF Live
<1>2. QED  BY <1>1, AlignKept

LEMMA AlignEvicts ==
  ASSUME TierInv, AlignInv, (Careful => RegInv)', UNCHANGED idx, NEW nodes, Evict(nodes),
         Live \ Live' \subseteq nodes
  PROVE  AlignInv'
<1>1. /\ DOMAIN regions' \subseteq DOMAIN regions /\ contracts' = contracts
      /\ \A root \in DOMAIN regions' : regions'[root] = regions[root]
      /\ \A root \in DOMAIN regions' : contracts[root] = "EpochTracked" =>
           ToSet(regions[root].members) \cap nodes = {}
  BY DEF Evict
<1>2. \A root \in DOMAIN regions' : Tracked(root) =>
        ToSet(regions[root].members) \cap Live \subseteq Live'
  BY <1>1 DEF Tracked
<1>3. QED  BY <1>1, <1>2, AlignKept

\* A node that is gone has no dependencies, and a row of it is empty.
LEMMA GoneReadsNothing ==
  ASSUME TypeOK, RegInv, NEW n \in Uid, n \notin Live, NEW row \in Rows(n)
  PROVE  row = <<>>
<1>1. Deps(n) = {}
  BY DEF Deps, RegInv, PairsLive
<1>2. ordered[n] \in Seq(Uid) /\ DOMAIN ordered[n] = {}
  <2>1. ordered[n] \in Seq(Uid)
    BY DEF TypeOK
  <2>2. ASSUME NEW i \in DOMAIN ordered[n] PROVE FALSE
    <3>1. ordered[n][i] \in Uid
      BY <2>1, ElementOfSeq, LenProperties
    <3>2. <<ordered[n][i], n>> \in pairs
      BY <3>1 DEF RegInv, ListsArePairs, InList
    <3>3. QED  BY <3>2 DEF RegInv, PairsLive
  <2>3. QED  BY <2>1, <2>2
<1>3. indices[n] = [i \in {} |-> idx[ordered[n][i]]]
  BY <1>2 DEF RegInv, SlotsParallel, SlotsOf
<1>4. indices[n] = <<>>
  BY <1>3
<1>5. \E o \in [1 .. Cardinality({}) -> {}] : row = [i \in DOMAIN o |-> idx[o[i]]]
  BY <1>1, <1>4 DEF Rows, InOrder
<1>6. PICK o \in [1 .. Cardinality({}) -> {}] : row = [i \in DOMAIN o |-> idx[o[i]]]
  BY <1>5
<1>7. Cardinality({}) = 0
  BY FS_EmptySet
<1>8. DOMAIN o = {}
  BY <1>6, <1>7
<1>9. row = [i \in {} |-> idx[o[i]]]
  BY <1>6, <1>8
<1>10. QED  BY <1>9

LEMMA DeclareAligned ==
  ASSUME TierInv, AlignInv, (Careful => RegInv)', NoStale, NEW c \in RegionCalls,
         RegionDeclare(c.root, c.boundary, c.stability, c.compile)
  PROVE  AlignInv'
<1> DEFINE M == RegionMembers(c.root, c.boundary)
<1>1. /\ UNCHANGED <<kind, idx>>
      /\ c.root \in DOMAIN contracts' /\ contracts'[c.root] = c.stability
      /\ \A root \in DOMAIN contracts \ {c.root} : contracts'[root] = contracts[root]
  BY DEF RegionDeclare, Entered, graphVars, storeVars
<1>2. c \in RegionOp /\ RegionCalls # {} /\ M \subseteq Uid /\ TypeOK /\ SlotsDistinct
  <2>1. c \in RegionOp /\ c.root \in Uid /\ c.boundary \in Boundary
    BY RegionAssumption DEF RegionAssumption, RegionOp
  <2>2. QED  BY <2>1, MembersType DEF TierInv, BaseInv, AuthTypeOK
<1>3. ~NoCreation => Careful /\ RegInv /\ c.stability = "EpochTracked"
  BY <1>2 DEF NoStale, AlignInv
<1>4. Live' = Live
  BY <1>1 DEF Live
<1>5. ASSUME NEW root \in DOMAIN regions, root \in DOMAIN regions', regions'[root] = regions[root]
      PROVE  Aligned(regions'[root], idx') /\ (~NoCreation => Tracked(root)')
  <2>1. Aligned(regions[root], idx) /\ (~NoCreation => Tracked(root)) /\ root \in DOMAIN contracts
    BY DEF AlignInv, TierInv, RegionInv
  <2>2. ~NoCreation => contracts'[root] = "EpochTracked"
    BY <1>1, <1>3, <2>1 DEF Tracked
  <2>3. ~NoCreation => Tracked(root)'
    BY <1>4, <1>5, <2>1, <2>2 DEF Tracked
  <2>4. Aligned(regions'[root], idx')
    BY <1>1, <1>5, <2>1
  <2>5. QED  BY <2>3, <2>4
<1>6. CASE UNCHANGED <<regions, reads>>
  BY <1>2, <1>5, <1>6 DEF AlignInv
<1>7. ASSUME NEW k \in Circuits(M), regions' = Entered(regions, c.root, CompiledRegion(k))
      PROVE  AlignInv'
  <2> DEFINE r == CompiledRegion(k)
  <2>1. /\ DOMAIN regions' = DOMAIN regions \cup {c.root} /\ regions'[c.root] = r
        /\ \A root \in DOMAIN regions \ {c.root} : regions'[root] = regions[root]
    BY <1>7 DEF Entered
  <2>2. /\ WiredTo(r, DOMAIN cache)
        /\ \A i \in DOMAIN k.members : k.rows[i] \in Rows(k.members[i])
        /\ r.members = k.members /\ r.rows = k.rows
        /\ \A i \in 1 .. Len(k.members) : r.outputs[i] = idx[k.members[i]]
    BY <1>2, CompiledWired
  <2>3. DOMAIN r.members = 1 .. Len(r.members) /\ \A i \in 1 .. Len(r.members) : r.members[i] \in Uid
    BY <2>2, WiredRows
  <2> HIDE DEF r, M
  <2>4. Aligned(r, idx)
    BY <2>2 DEF Aligned
  <2>5. ASSUME ~NoCreation, NEW i \in 1 .. Len(r.members)
        PROVE  r.members[i] \in Live \/ r.rows[i] = <<>>
    <3>1. r.members[i] \in Uid /\ r.rows[i] \in Rows(r.members[i])
      BY <2>2, <2>3
    <3>2. QED  BY <1>2, <1>3, <2>5, <3>1, GoneReadsNothing
  <2>6. ~NoCreation => Tracked(c.root)'
    BY <1>1, <1>3, <1>4, <2>1, <2>5 DEF Tracked
  <2>7. QED  BY <1>1, <1>2, <1>5, <2>1, <2>4, <2>6 DEF AlignInv
<1>8. QED  BY <1>6, <1>7 DEF RegionDeclare

LEMMA CreateAligned ==
  ASSUME TierInv, AlignInv, (Careful => RegInv)', NoStale, NEW c \in Calls, c.op = "NodeCreate",
         NodeCreate(c.node, c.kind), UNCHANGED regionVars
  PROVE  AlignInv'
<1>1. /\ c.node \in Uid /\ c.kind \in Kind
      /\ kind' = [kind EXCEPT ![c.node] = c.kind]
      /\ idx' = [idx EXCEPT ![c.node] = Len(cache) + 1]
      /\ UNCHANGED <<regions, contracts>>
  BY OperandType, EngineAssumption DEF EngineAssumption, NodeCreate, Alloc, regionVars
<1>2. /\ DOMAIN kind = Uid /\ DOMAIN idx = Uid /\ Absent \notin Kind
      /\ \A n \in Uid : n # c.node => kind'[n] = kind[n] /\ idx'[n] = idx[n]
      /\ Live \subseteq Live'
  BY <1>1 DEF TierInv, BaseInv, TypeOK, Absent, Kind, Rules, Live
<1>3. CASE DOMAIN regions = {}
  BY <1>1, <1>3 DEF AlignInv
<1>4. CASE DOMAIN regions # {}
  <2>1. ~NoCreation /\ Careful
    BY <1>4 DEF NoCreation, NoStale, AlignInv
  <2>2. c.node \notin Live
    BY <2>1 DEF Careful, Orderly, NodeCreate
  <2>3. ASSUME NEW root \in DOMAIN regions
        PROVE  Aligned(regions[root], idx') /\ Tracked(root)'
    <3>1. Aligned(regions[root], idx) /\ Tracked(root)
      BY <2>1 DEF AlignInv
    <3>2. \A i \in 1 .. Len(regions[root].members) : regions[root].members[i] \in Uid
      BY WiredRows DEF TierInv, RegionInv
    <3>3. Aligned(regions[root], idx')
      BY <1>2, <2>2, <3>1, <3>2 DEF Aligned, Tracked
    <3>4. Tracked(root)'
      BY <1>1, <1>2, <3>1 DEF Tracked
    <3>5. QED  BY <3>3, <3>4
  <2>4. QED  BY <1>1, <2>3 DEF AlignInv
<1>5. QED  BY <1>3, <1>4

LEMMA EngineCallAligned ==
  ASSUME TierInv, AlignInv, (Careful => RegInv)', NoStale, NEW c \in Calls, EngineCall(c)
  PROVE  AlignInv'
<1>1. Apply(c)
  BY DEF EngineCall
<1>2. CASE c.op = "NodeCreate"
  BY <1>1, <1>2, CreateAligned DEF EngineCall, Apply
<1>3. CASE c.op # "NodeCreate"
  <2>1. UNCHANGED <<kind, idx>>
    BY <1>1, <1>3 DEF Apply, EdgeConnect, SubscribeOp, SetValue, Request, DelNode, DelEdge, SetMode,
                      Reflect, ReflectMissing, WriteAndPush, Stabilize, graphVars, storeVars
  <2>2. UNCHANGED regionVars \/ (\E nodes : Evict(nodes)) \/ (\E n : MarkDirty(n))
    BY <1>3 DEF EngineCall
  <2>3. Live' = Live
    BY <2>1 DEF Live
  <2>4. QED  BY <2>1, <2>2, <2>3, AlignQuiet, AlignEvicts DEF regionVars, MarkDirty
<1>4. QED  BY <1>2, <1>3

LEMMA WorkAligned ==
  ASSUME TierInv, AlignInv, (Careful => RegInv)', TierWork
  PROVE  AlignInv'
<1>1. CASE DropNode /\ Evict(victim)
  <2>1. UNCHANGED idx /\ Live \ Live' \subseteq victim
    BY <1>1 DEF DropNode, Dealloc, Live, TierInv, BaseInv, TypeOK
  <2>2. QED  BY <1>1, <2>1, AlignEvicts
<1>2. CASE ~DropNode
  <2>1. UNCHANGED <<kind, idx, regions, contracts>>
    <3>1. CASE DeleteStep
      BY <1>2, <3>1 DEF DeleteStep, DropEdge, storeVars, regionVars
    <3>2. CASE RegionStep
      BY <3>2 DEF RegionStep, RunRegion, SkipRegion, vars, graphVars, storeVars
    <3>3. CASE WarmStep
      BY <3>3 DEF WarmStep, SkipHandled, GatedReady, GatedConflicted, PushReadyTo, PushConflictedTo,
                  PushIdle, StepDemand, StepStabilize, StepLimit, StabilizeSection, DrainAgain, Step,
                  graphVars, storeVars, regionVars
    <3>4. CASE DrainEnd
      BY <3>4 DEF DrainEnd, DrainEnds, graphVars, storeVars
    <3>5. QED  BY <3>1, <3>2, <3>3, <3>4 DEF TierWork
  <2>2. QED  BY <2>1, AlignQuiet
<1>3. pc = "delete" => ~RegionStep /\ ~WarmStep /\ ~DrainEnd
  BY DEF RegionStep, RunRegion, SkipRegion, WarmStep, SkipHandled, TakesItem, Step, PushIdle,
         StepDemand, StepStabilize, StepLimit, StabilizeSection, DrainAgain, DrainEnd, DrainEnds
<1>4. CASE DropNode /\ ~Evict(victim)
  <2>1. DropEdge /\ UNCHANGED regionVars /\ UNCHANGED <<kind, idx>>
    BY <1>3, <1>4 DEF TierWork, DeleteStep, DropNode, DropEdge, storeVars
  <2>2. QED  BY <2>1, AlignQuiet DEF regionVars
<1>5. QED  BY <1>1, <1>2, <1>4

LEMMA TierAligned ==
  ASSUME TierInv, AlignInv, NoStale, TierNext
  PROVE  AlignInv'
<1>1. (Careful => RegInv)'
  BY TierRegistry DEF AlignInv
<1>2. ASSUME NEW c, Declare(c) \/ Configure(c), UNCHANGED regionVars PROVE AlignInv'
  <2>1. UNCHANGED <<kind, idx>>
    BY <1>2 DEF Declare, Configure, vars, graphVars, storeVars
  <2>2. QED  BY <1>1, <1>2, <2>1, AlignQuiet DEF regionVars
<1>3. CASE TierCall
  BY <1>1, <1>2, <1>3, EngineCallAligned, DeclareAligned DEF TierCall, Calling
<1>4. QED  BY <1>1, <1>3, WorkAligned DEF TierNext

-----------------------------------------------------------------------------
(* A circuit writes both copies of a value *)

\* The rows of a circuit write different slots, each for a different member.
LEMMA RowsApart ==
  ASSUME TierInv, NEW root, RunRegion(root)
  PROVE  LET r == regions[root]
             rows == ChangedRows(r, cache')
         IN  /\ rows \subseteq 1 .. Len(r.members)
             /\ \A i, j \in 1 .. Len(r.members) : r.members[i] = r.members[j] => i = j
             /\ \A i, j \in 1 .. Len(r.members) : r.outputs[i] = r.outputs[j] => i = j
             /\ \A i \in 1 .. Len(r.members) : r.members[i] \in Uid /\ r.outputs[i] \in DOMAIN cache
             /\ DOMAIN r.outputs = 1 .. Len(r.members) /\ DOMAIN r.members = 1 .. Len(r.members)
<1> DEFINE r == regions[root]
           rows == ChangedRows(r, cache')
<1>1. WiredTo(r, DOMAIN cache)
  BY RunsWired
<1>2. /\ DOMAIN r.members = 1 .. Len(r.members) /\ DOMAIN r.outputs = 1 .. Len(r.members)
      /\ \A i \in 1 .. Len(r.members) : r.members[i] \in Uid /\ r.outputs[i] \in DOMAIN cache
  BY <1>1, WiredRows
<1>3. rows \subseteq 1 .. Len(r.members)
  BY <1>1, ChangedRowsType
<1> HIDE DEF r, rows
<1>4. IsInjective(r.members) /\ IsInjective(r.outputs)
  BY <1>1 DEF WiredTo
<1>5. QED  BY <1>2, <1>3, <1>4 DEF IsInjective, r, rows

LEMMA RowsAligned ==
  ASSUME TierInv, NEW root, RunRegion(root), Aligned(regions[root], idx)
  PROVE  \A i \in ChangedRows(regions[root], cache') :
           regions[root].outputs[i] = idx[regions[root].members[i]]
<1> DEFINE r == regions[root]
           rows == ChangedRows(r, cache')
<1>1. /\ rows \subseteq 1 .. Len(r.members)
      /\ \A i, j \in 1 .. Len(r.members) : r.outputs[i] = r.outputs[j] => i = j
      /\ \A i \in 1 .. Len(r.members) : r.outputs[i] \in DOMAIN cache
  BY RowsApart
<1>2. \A i \in rows : cache'[r.outputs[i]] # cache[r.outputs[i]]
  BY DEF ChangedRows
<1>3. \A k \in DOMAIN cache : cache'[k] # cache[k] =>
        \E i \in 1 .. Len(r.members) : r.outputs[i] = k /\ r.rows[i] # <<>>
  BY RunsWired DEF Circuit
<1> SUFFICES ASSUME NEW i \in rows PROVE r.outputs[i] = idx[r.members[i]]
  OBVIOUS
<1> HIDE DEF r, rows
<1>4. PICK j \in 1 .. Len(r.members) : r.outputs[j] = r.outputs[i] /\ r.rows[j] # <<>>
  BY <1>1, <1>2, <1>3
<1>5. j = i
  BY <1>1, <1>4
<1>6. QED  BY <1>1, <1>4, <1>5 DEF Aligned, r

LEMMA RunRegionShows ==
  ASSUME TierInv, NEW root, RunRegion(root), Aligned(regions[root], idx), CacheCoherent,
         NEW n \in Live
  PROVE  /\ value'[n] = cache'[idx[n]]
         /\ (\A i \in ChangedRows(regions[root], cache') :
               regions[root].members[i] # n) => value'[n] = value[n]
<1> DEFINE r == regions[root]
           rows == ChangedRows(r, cache')
<1>1. value' = [m \in Uid |->
                 IF m \in Live /\ \E i \in rows : r.members[i] = m
                   THEN cache'[r.outputs[CHOOSE i \in rows : r.members[i] = m]] ELSE value[m]]
  BY RunsWired DEF RunRegion
<1>2. /\ rows \subseteq 1 .. Len(r.members) /\ DOMAIN r.outputs = 1 .. Len(r.members)
      /\ \A i \in 1 .. Len(r.members) : r.members[i] \in Uid /\ r.outputs[i] \in DOMAIN cache
  BY RowsApart
<1>3. \A i \in 1 .. Len(r.members) : i \notin rows => cache'[r.outputs[i]] = cache[r.outputs[i]]
  BY <1>2 DEF ChangedRows
<1>4. \A k \in DOMAIN cache : cache'[k] # cache[k] => \E i \in 1 .. Len(r.members) : r.outputs[i] = k
  BY RunsWired DEF Circuit
<1>5. \A i \in rows : r.outputs[i] = idx[r.members[i]]
  BY RowsAligned
<1>6. n \in Uid /\ idx[n] \in DOMAIN cache /\ idx[n] # 0 /\ cache[idx[n]] = value[n]
  BY LenProperties DEF Live, TierInv, BaseInv, TypeOK, Slotted, CacheCoherent
<1> HIDE DEF r, rows
<1>7. CASE \E i \in rows : r.members[i] = n
  <2>1. PICK i \in rows : i = CHOOSE j \in rows : r.members[j] = n
    BY <1>7
  <2>2. r.members[i] = n
    BY <1>7, <2>1
  <2>3. value'[n] = cache'[r.outputs[i]]
    BY <1>1, <1>6, <1>7, <2>1
  <2>4. QED  BY <1>5, <1>7, <2>2, <2>3 DEF r, rows
<1>8. CASE ~ \E i \in rows : r.members[i] = n
  <2>1. value'[n] = value[n]
    BY <1>1, <1>6, <1>8
  <2>2. cache'[idx[n]] = cache[idx[n]]
    <3> SUFFICES ASSUME cache'[idx[n]] # cache[idx[n]] PROVE FALSE
      OBVIOUS
    <3>1. PICK i \in 1 .. Len(r.members) : r.outputs[i] = idx[n]
      BY <1>4, <1>6
    <3>2. i \in rows
      BY <1>3, <3>1
    <3>3. idx[r.members[i]] = idx[n] /\ r.members[i] \in Uid
      BY <1>2, <1>5, <3>1, <3>2
    <3>4. r.members[i] = n
      BY <1>6, <3>3 DEF TierInv, BaseInv, SlotsDistinct
    <3>5. QED  BY <1>8, <3>2, <3>4
  <2>3. QED  BY <1>6, <2>1, <2>2
<1>9. QED  BY <1>7, <1>8

LEMMA RunRegionCoherent ==
  ASSUME TierInv, NEW root, RunRegion(root), Aligned(regions[root], idx), CacheCoherent
  PROVE  CacheCoherent'
<1>1. UNCHANGED <<kind, idx>>
  BY DEF RunRegion
<1>2. \A n \in Live : idx[n] # 0 /\ cache'[idx[n]] = value'[n]
  BY RunRegionShows DEF CacheCoherent
<1>3. QED  BY <1>1, <1>2 DEF CacheCoherent, Live

-----------------------------------------------------------------------------
(* Both copies of a value are the same *)

ExactInv == TierInv /\ AlignInv /\ CacheCoherent

LEMMA ExactInit ==
  ASSUME TierInit
  PROVE  ExactInv
<1>1. TierInv /\ CacheCoherent
  BY TierInvInit, InitHolds DEF TierInit, IInv
<1>2. Careful => RegInv
  BY InitRegistry DEF TierInit
<1>3. DOMAIN regions = {}
  BY DEF TierInit, RegionInit
<1>4. QED  BY <1>1, <1>2, <1>3 DEF ExactInv, AlignInv

LEMMA ExactNext ==
  ASSUME ExactInv, NoStale, TierNext
  PROVE  ExactInv'
<1>1. TierInv' /\ AlignInv'
  BY TierInvNext, TierAligned DEF ExactInv
<1>2. ASSUME NEW root, RunRegion(root) PROVE CacheCoherent'
  <2>1. Aligned(regions[root], idx)
    BY <1>2 DEF RunRegion, ExactInv, AlignInv
  <2>2. QED  BY <1>2, <2>1, RunRegionCoherent DEF ExactInv
<1>3. CASE WarmMove
  BY <1>1, <1>3, WarmMoveKeeps DEF ExactInv, TierInv, Keeps, Kept
<1>4. QED  BY <1>1, <1>2, <1>3, TierMoves DEF ExactInv

LEMMA ExactKept ==
  ASSUME ExactInv, UNCHANGED tierVars
  PROVE  ExactInv'
<1>1. TierInv'
  BY TierInvKept DEF ExactInv
<1>2. UNCHANGED <<kind, value, cache, idx, regions, contracts>>
  BY DEF tierVars, vars, graphVars, storeVars, regionVars
<1>3. (Careful => RegInv)'
  BY RegistryKept DEF ExactInv, AlignInv
<1>4. AlignInv'
  BY <1>2, <1>3, AlignQuiet DEF ExactInv
<1>5. CacheCoherent'
  BY <1>2 DEF ExactInv, CacheCoherent, Live
<1>6. QED  BY <1>1, <1>4, <1>5 DEF ExactInv

\* The graph and the ValueStore hold the same value of every node, whichever
\* tier wrote it (run_compiled_region writes the slots first and copies what
\* has changed to the graph), provided that no artifact outlives the slot of
\* a member.
THEOREM TiersCacheCoherent ==
  ASSUME NoStale
  PROVE  TierSpec => []CacheCoherent
<1>1. ExactInv /\ [TierNext]_tierVars => ExactInv'
  BY ExactNext, ExactKept
<1>2. ExactInv => CacheCoherent
  BY DEF ExactInv
<1>3. QED  BY <1>1, <1>2, ExactInit, PTL DEF TierSpec

-----------------------------------------------------------------------------
(* What the nodes outside the regions are told *)

LEMMA RunRegionCounts ==
  ASSUME TierInv, RegInv, CacheCoherent, NEW root, RunRegion(root), Aligned(regions[root], idx),
         NEW n \in Uid, n \notin ToSet(regions[root].members), Counts(n)
  PROVE  Counts(n)'
<1> DEFINE r == regions[root]
           L == Len(r.members)
           rows == ChangedRows(r, cache')
           shown(i) == [d \in Uid |-> IF \E j \in rows : j <= i /\ r.members[j] = d
                                        THEN value'[d] ELSE value[d]]
<1>1. /\ WiredTo(r, DOMAIN cache) /\ cache' = RunRows(r).store
      /\ cache \in Seq(T) /\ cache' \in Seq(T) /\ Len(cache') = Len(cache) /\ L \in Nat
  BY RunsWired, WiredRows
<1>2. /\ counters \in Counting /\ value \in [Uid -> T] /\ Deps(n) \in SUBSET Uid
      /\ UNCHANGED <<kind, pairs>>
  BY DEF TierInv, BaseInv, TypeOK, Counting, Deps, RunRegion
<1>3. value' \in [Uid -> T]
  BY RunRegionValues
<1>4. PICK told : Tells(r, rows, cache', told) /\ counters' = told[L]
  <2>1. counters' = RecountOutside(r, rows, cache')
    BY <1>1 DEF RunRegion
  <2> HIDE DEF r, rows
  <2>2. QED  BY <1>1, <1>2, <2>1, TellExists
<1>5. /\ told[0] = counters
      /\ \A i \in 1 .. L : told[i] = IF i \in rows THEN Told(r, i, cache', told[i - 1])
                                     ELSE told[i - 1]
  BY <1>1, <1>4, TellSteps
<1>6. \A i \in 0 .. L : told[i] \in Counting
  <2> HIDE DEF r, rows
  <2>1. QED  BY <1>1, <1>2, <1>4, TellKeeps
<1>7. /\ rows \subseteq 1 .. L
      /\ \A i, j \in 1 .. L : r.members[i] = r.members[j] => i = j
      /\ \A i \in 1 .. L : r.members[i] \in Uid
  BY RowsApart
<1>8. \A i \in rows : r.members[i] \in Live =>
        /\ cache[r.outputs[i]] = value[r.members[i]]
        /\ cache'[r.outputs[i]] = value'[r.members[i]]
  BY RowsAligned, RunRegionShows DEF CacheCoherent
<1>9. \A d \in Deps(n) : d \in Live /\ ((\A i \in rows : r.members[i] # d) => value'[d] = value[d])
  BY RunRegionShows DEF Deps, RegInv, PairsLive
<1>10. n \notin ToSet(r.members)
  OBVIOUS
<1> HIDE DEF r, L, rows
<1>11. \A i \in 0 .. L : shown(i) \in [Uid -> T]
  BY <1>2, <1>3
<1>12. Covers(told[0][n], Deps(n), shown(0))
  <2>1. \A d \in Deps(n) : value[d] = shown(0)[d]
    BY <1>2, <1>7
  <2> HIDE DEF shown
  <2>2. Covers(counters[n], Deps(n), value)
    BY CountsCover
  <2>3. QED  BY <1>5, <2>1, <2>2, CoversSame
<1>13. ASSUME NEW i \in 1 .. L, Covers(told[i - 1][n], Deps(n), shown(i - 1))
       PROVE  Covers(told[i][n], Deps(n), shown(i))
  <2> DEFINE d == r.members[i]
  <2>1. i - 1 \in 0 .. L /\ d \in Uid
    BY <1>1, <1>7
  <2>2. \A e \in Uid : shown(i)[e] = IF i \in rows /\ e = d THEN value'[e] ELSE shown(i - 1)[e]
    <3> SUFFICES ASSUME NEW e \in Uid
                 PROVE  (\E j \in rows : j <= i /\ r.members[j] = e)
                          <=> \/ i \in rows /\ e = d
                              \/ \E j \in rows : j <= i - 1 /\ r.members[j] = e
      OBVIOUS
    <3>1. \A j \in rows : j <= i <=> j = i \/ j <= i - 1
      BY <1>1, <1>7
    <3>2. QED  BY <3>1
  <2>3. CASE i \in rows /\ d \in Deps(n)
    <3>1. told[i][n] = CounterUpdate(told[i - 1][n], value[d], value'[d])
      <4>1. n \in Subs(d) \ ToSet(r.members) /\ d \in Live
        BY <1>9, <1>10, <2>3 DEF Deps, Subs
      <4>2. QED  BY <1>5, <1>8, <2>3, <4>1 DEF Told
    <3>2. shown(i - 1)[d] = value[d]
      <4>1. ~ \E j \in rows : j <= i - 1 /\ r.members[j] = d
        BY <1>1, <1>7, <2>3
      <4>2. QED  BY <2>1, <4>1
    <3>3. shown(i - 1) \in [Uid -> T] /\ shown(i) \in [Uid -> T]
      BY <1>2, <1>3
    <3> HIDE DEF d, shown
    <3>4. shown(i) = [shown(i - 1) EXCEPT ![d] = value'[d]]
      BY <2>1, <2>2, <2>3, <3>3
    <3>5. told[i - 1][n] \in [T -> Nat] /\ value'[d] \in T
      BY <1>3, <1>6, <2>1 DEF Counting
    <3>6. Covers(CounterUpdate(told[i - 1][n], shown(i - 1)[d], value'[d]), Deps(n),
                 [shown(i - 1) EXCEPT ![d] = value'[d]])
      BY <1>2, <1>13, <2>3, <3>3, <3>5, UpdateCovers
    <3>7. QED  BY <3>1, <3>2, <3>4, <3>6
  <2>4. CASE ~(i \in rows /\ d \in Deps(n))
    <3>1. told[i][n] = told[i - 1][n]
      BY <1>5, <2>1, <2>4 DEF Told, Subs, Deps
    <3>2. \A e \in Deps(n) : shown(i - 1)[e] = shown(i)[e]
      BY <1>2, <2>2, <2>4
    <3> HIDE DEF shown, d
    <3>3. QED  BY <1>13, <3>1, <3>2, CoversSame
  <2>5. QED  BY <2>3, <2>4
<1>14. Covers(told[L][n], Deps(n), shown(L))
  <2> DEFINE g == [i \in 0 .. L |-> IF Covers(told[i][n], Deps(n), shown(i)) THEN 1 ELSE 0]
             S == {1}
  <2> HIDE DEF shown
  <2>1. g[0] \in S
    BY <1>1, <1>12
  <2>2. \A i \in 1 .. L : g[i - 1] \in S => g[i] \in S
    <3> SUFFICES ASSUME NEW i \in 1 .. L, g[i - 1] \in S PROVE g[i] \in S
      OBVIOUS
    <3>1. i - 1 \in 0 .. L /\ i \in 0 .. L
      BY <1>1
    <3>2. Covers(told[i - 1][n], Deps(n), shown(i - 1))
      BY <3>1
    <3>3. Covers(told[i][n], Deps(n), shown(i))
      BY <1>13, <3>2
    <3>4. QED  BY <3>1, <3>3
  <2>3. L \in 0 .. L
    BY <1>1
  <2>4. g[L] \in S
    <3> HIDE DEF g, S
    <3>1. QED  BY <1>1, <2>1, <2>2, <2>3, IterationKeeps
  <2>5. QED  BY <2>3, <2>4
<1>15. \A d \in Deps(n) : shown(L)[d] = value'[d]
  <2>1. \A d \in Deps(n) : (\E j \in rows : r.members[j] = d) => \E j \in rows : j <= L /\ r.members[j] = d
    BY <1>1, <1>7
  <2>2. QED  BY <1>2, <1>9, <2>1
<1>16. Covers(counters'[n], Deps(n), value')
  <2> HIDE DEF shown
  <2>1. QED  BY <1>4, <1>14, <1>15, CoversSame
<1>17. Deps(n)' = Deps(n)
  BY <1>2 DEF Deps
<1>18. QED  BY <1>16, <1>17 DEF Counts, Covers, Showing

LEMMA TierCounts ==
  ASSUME ExactInv, Careful, EdgesPaired, TierNext, ~Resolves, NEW s \in Uid, Counts(s),
         \A root \in DOMAIN regions : s \notin ToSet(regions[root].members)
  PROVE  Counts(s)'
<1>1. IInv /\ RegInv /\ TierInv
  BY DEF ExactInv, AlignInv, TierInv, BaseInv, IInv
<1>2. CASE Next
  BY <1>1, <1>2, NextCounts
<1>3. CASE PushReadyTo(Refused) \/ PushConflictedTo(Refused)
  BY <1>1, <1>3, StepCounted
<1>4. CASE Retick \/ SkipHandled \/ UNCHANGED vars
  <2>1. UNCHANGED <<value, pairs, counters>>
    BY <1>4 DEF Retick, SkipHandled, Step, vars, graphVars, depVars
  <2>2. QED  BY <2>1, CountsUnchanged
<1>5. ASSUME NEW root, RunRegion(root) PROVE Counts(s)'
  <2>1. root \in DOMAIN regions /\ Aligned(regions[root], idx)
    BY <1>5 DEF RunRegion, ExactInv, AlignInv
  <2>2. QED  BY <1>1, <1>5, <2>1, RunRegionCounts DEF ExactInv
<1>6. QED  BY <1>2, <1>3, <1>4, <1>5, TierMoves DEF WarmMove

LEMMA TierPaired ==
  ASSUME ExactInv, Careful, EdgesPaired, TierNext, ~Resolves
  PROVE  EdgesPaired'
<1>1. IInv /\ RegInv /\ TierInv
  BY DEF ExactInv, AlignInv, TierInv, BaseInv, IInv
<1>2. CASE Next
  BY <1>1, <1>2, NextCounts
<1>3. CASE PushReadyTo(Refused) \/ PushConflictedTo(Refused)
  BY <1>1, <1>3, StepCounted
<1>4. CASE Retick \/ SkipHandled \/ UNCHANGED vars
  BY <1>4, PairsGrow DEF Retick, SkipHandled, Step, vars, graphVars, depVars
<1>5. ASSUME NEW root, RunRegion(root) PROVE EdgesPaired'
  BY <1>5, PairsGrow DEF RunRegion
<1>6. QED  BY <1>2, <1>3, <1>4, <1>5, TierMoves DEF WarmMove

\* The counters of the nodes that were never compiled count every dependency.
OutsideInv ==
  /\ \A root \in DOMAIN regions : ToSet(regions[root].members) \subseteq compiled
  /\ stabilizer # "resolved" => EdgesPaired /\ \A n \in Uid \ compiled : Counts(n)

LEMMA OutsideNext ==
  ASSUME ExactInv, OutsideInv, Careful, TierNext, Watch
  PROVE  OutsideInv'
<1>1. compiled' = compiled \cup UNION {ToSet(regions'[r].members) : r \in DOMAIN regions'}
  BY DEF Watch
<1>2. \A root \in DOMAIN regions' : ToSet(regions'[root].members) \subseteq compiled'
  BY <1>1
<1>3. stabilizer' # "resolved" => stabilizer # "resolved" /\ ~Resolves
  BY DEF Watch, Traces
<1>4. ASSUME stabilizer' # "resolved" PROVE EdgesPaired' /\ \A n \in Uid \ compiled' : Counts(n)'
  <2>1. EdgesPaired'
    BY <1>3, <1>4, TierPaired DEF OutsideInv
  <2>2. ASSUME NEW n \in Uid \ compiled' PROVE Counts(n)'
    <3>1. n \in Uid \ compiled
      BY <1>1
    <3>2. \A root \in DOMAIN regions : n \notin ToSet(regions[root].members)
      BY <3>1 DEF OutsideInv
    <3>3. QED  BY <1>3, <1>4, <3>1, <3>2, TierCounts DEF OutsideInv
  <2>3. QED  BY <2>1, <2>2
<1>5. QED  BY <1>2, <1>4 DEF OutsideInv

LEMMA OutsideKept ==
  ASSUME OutsideInv, UNCHANGED <<tierVars, notes>>
  PROVE  OutsideInv'
<1>1. UNCHANGED <<regions, compiled, stabilizer, edges, value, pairs, counters>>
  BY DEF tierVars, notes, vars, graphVars, depVars, regionVars
<1>2. \A n \in Uid : Counts(n) => Counts(n)'
  BY <1>1, CountsUnchanged
<1>3. EdgesPaired => EdgesPaired'
  BY <1>1, PairsGrow
<1>4. QED  BY <1>1, <1>2, <1>3 DEF OutsideInv

\* What a push step is told of the dependencies of a node that no artifact ever
\* had as a member is exact until a section is resolved: a circuit tells the
\* counters outside the region of every row that changed, in any graph and for
\* any order in which dirty regions run (run_compiled_region).
THEOREM OutsidersToldExactly ==
  ASSUME Careful, NoStale
  PROVE  WatchedSpec => []OutsidersReadExactly
<1> DEFINE Inv == ExactInv /\ OutsideInv
<1>1. TierInit /\ WatchInit => Inv
  <2> SUFFICES ASSUME TierInit, WatchInit PROVE OutsideInv
    BY ExactInit
  <2>1. DOMAIN regions = {}
    BY DEF TierInit, RegionInit
  <2>2. CountInv
    BY InitCounted DEF TierInit
  <2>3. QED  BY <2>1, <2>2 DEF OutsideInv, CountInv, Counted
<1>2. Inv /\ [TierNext /\ Watch]_<<tierVars, notes>> => Inv'
  <2>1. ASSUME Inv, TierNext, Watch PROVE Inv'
    BY <2>1, ExactNext, OutsideNext
  <2>2. ASSUME Inv, UNCHANGED <<tierVars, notes>> PROVE Inv'
    BY <2>2, ExactKept, OutsideKept
  <2>3. QED  BY <2>1, <2>2
<1>3. Inv => OutsidersReadExactly
  <2> SUFFICES ASSUME Inv, stabilizer # "resolved", NEW n \in Live \ compiled
               PROVE  DepState(n) = propagation_state(GraphDepVals(n))
    BY DEF OutsidersReadExactly
  <2>1. IInv /\ RegInv /\ Counts(n)
    BY DEF ExactInv, AlignInv, TierInv, BaseInv, IInv, OutsideInv, Live
  <2>2. QED  BY <2>1, CountsExact
<1>4. QED  BY <1>1, <1>2, <1>3, PTL DEF WatchedSpec

-----------------------------------------------------------------------------
(* What reaches the queue past the gate *)

LEMMA QueuedConcat ==
  ASSUME NEW s \in Seq(WorkItem), NEW t \in Seq(WorkItem)
  PROVE  Queued(s \o t) \subseteq Queued(s) \cup Queued(t)
<1>1. /\ s \o t \in Seq(WorkItem) /\ Len(s \o t) = Len(s) + Len(t)
      /\ \A i \in 1 .. Len(s) + Len(t) : (s \o t)[i] = IF i <= Len(s) THEN s[i] ELSE t[i - Len(s)]
  BY ConcatProperties
<1>2. /\ Len(s) \in Nat /\ DOMAIN s = 1 .. Len(s) /\ Len(t) \in Nat /\ DOMAIN t = 1 .. Len(t)
      /\ DOMAIN (s \o t) = 1 .. Len(s) + Len(t)
  BY <1>1, LenProperties
<1> SUFFICES ASSUME NEW i \in DOMAIN (s \o t), (s \o t)[i].op # "Stabilize"
             PROVE  (s \o t)[i].node \in Queued(s) \cup Queued(t)
  BY DEF Queued
<1>3. CASE i <= Len(s)
  BY <1>1, <1>2, <1>3 DEF Queued
<1>4. CASE ~(i <= Len(s))
  <2>1. i - Len(s) \in DOMAIN t
    BY <1>2, <1>4
  <2>2. (s \o t)[i] = t[i - Len(s)]
    BY <1>1, <1>2, <1>4
  <2>3. QED  BY <2>1, <2>2 DEF Queued
<1>5. QED  BY <1>3, <1>4

LEMMA QueuedTail ==
  ASSUME NEW q \in Seq(WorkItem), q # <<>>
  PROVE  /\ Tail(q) \in Seq(WorkItem) /\ Queued(Tail(q)) \subseteq Queued(q)
         /\ Head(q).op = "Push" => Head(q).node \in Queued(q)
<1>1. /\ Tail(q) \in Seq(WorkItem) /\ Len(Tail(q)) = Len(q) - 1 /\ Head(q) = q[1]
      /\ \A i \in 1 .. Len(Tail(q)) : Tail(q)[i] = q[i + 1]
  BY HeadTailProperties
<1>2. /\ Len(q) \in Nat /\ DOMAIN q = 1 .. Len(q) /\ 1 \in DOMAIN q
      /\ DOMAIN Tail(q) = 1 .. Len(q) - 1 /\ \A i \in DOMAIN Tail(q) : i + 1 \in DOMAIN q
  <2>1. Len(q) \in Nat /\ Len(q) # 0 /\ DOMAIN q = 1 .. Len(q)
    BY LenProperties, EmptySeq
  <2>2. DOMAIN Tail(q) = 1 .. Len(q) - 1
    BY <1>1, LenProperties
  <2>3. QED  BY <2>1, <2>2
<1>3. Queued(Tail(q)) \subseteq Queued(q)
  BY <1>1, <1>2 DEF Queued
<1>4. QED  BY <1>1, <1>2, <1>3 DEF Queued

LEMMA QueuedPushes ==
  ASSUME NEW S \in SUBSET Uid, NEW subs \in [1 .. Cardinality(S) -> S]
  PROVE  /\ [i \in DOMAIN subs |-> PushItem(subs[i])] \in Seq(WorkItem)
         /\ Queued([i \in DOMAIN subs |-> PushItem(subs[i])]) \subseteq S
<1> DEFINE items == [i \in DOMAIN subs |-> PushItem(subs[i])]
<1>1. Cardinality(S) \in Nat
  BY UidsFinite
<1>2. items \in Seq(WorkItem)
  BY <1>1, PushItemsType
<1>3. DOMAIN items = DOMAIN subs /\ \A i \in DOMAIN items : items[i].node \in S
  BY DEF PushItem
<1> HIDE DEF items
<1>4. Queued(items) \subseteq S
  BY <1>3 DEF Queued
<1>5. QED  BY <1>2, <1>4 DEF items

LEMMA PushQueues ==
  ASSUME TypeOK, queue # <<>>, NEW n, NEW S \in SUBSET Uid, NEW shut, PushSubs(n, S, Tail(queue), shut)
  PROVE  Queued(queue') \subseteq Queued(queue) \cup S
<1>1. PICK subs \in [1 .. Cardinality(S) -> S] :
        queue' = Tail(queue) \o [i \in DOMAIN subs |-> PushItem(subs[i])]
  BY DEF PushSubs, InOrder
<1>2. Tail(queue) \in Seq(WorkItem) /\ Queued(Tail(queue)) \subseteq Queued(queue)
  BY QueuedTail DEF TypeOK
<1>3. QED  BY <1>1, <1>2, QueuedPushes, QueuedConcat

LEMMA SectionQueues ==
  ASSUME TypeOK, queue # <<>>, NEW R \in SUBSET Uid, queue' = Append(Tail(queue), StabilizeItem(R))
  PROVE  Queued(queue') \subseteq Queued(queue)
<1>1. Tail(queue) \in Seq(WorkItem) /\ Queued(Tail(queue)) \subseteq Queued(queue)
  BY QueuedTail DEF TypeOK
<1> DEFINE q == Tail(queue)
           item == StabilizeItem(R)
<1>2. item \in WorkItem /\ item.op = "Stabilize"
  BY DEF StabilizeItem, WorkItem
<1> HIDE DEF q, item
<1>3. /\ Len(Append(q, item)) = Len(q) + 1 /\ Append(q, item) \in Seq(WorkItem)
      /\ \A i \in 1 .. Len(q) : Append(q, item)[i] = q[i]
      /\ Append(q, item)[Len(q) + 1] = item
  BY <1>1, <1>2, AppendProperties DEF q
<1>4. /\ Len(q) \in Nat /\ DOMAIN q = 1 .. Len(q) /\ DOMAIN Append(q, item) = 1 .. Len(q) + 1
  BY <1>1, <1>3, LenProperties DEF q
<1>5. Queued(Append(q, item)) \subseteq Queued(q)
  <2> SUFFICES ASSUME NEW i \in 1 .. Len(q) + 1, Append(q, item)[i].op # "Stabilize"
               PROVE  Append(q, item)[i].node \in Queued(q)
    BY <1>4 DEF Queued
  <2>1. i \in 1 .. Len(q)
    BY <1>2, <1>3, <1>4
  <2>2. QED  BY <1>3, <1>4, <2>1 DEF Queued
<1>6. QED  BY <1>1, <1>5 DEF q, item

\* A step of the warm tier queues subscribers it asked about and did not refuse.
LEMMA GatedQueues ==
  ASSUME TypeOK, GatedReady \/ GatedConflicted
  PROVE  \A s \in Queued(queue') :
           s \in Queued(queue) \/ <<Head(queue).node, s>> \in Asked \ Refused
<1> DEFINE n == Head(queue).node
           subs == {s \in OpenSubs(n, demanded) : <<n, s>> \notin Refused}
<1>1. queue # <<>> /\ Queued(Tail(queue)) \subseteq Queued(queue)
  <2>1. queue # <<>>
    BY DEF GatedReady, GatedConflicted, PushReadyTo, PushConflictedTo, Step, TakesItem
  <2>2. QED  BY <2>1, QueuedTail DEF TypeOK
<1>2. subs \in SUBSET Uid
  BY DEF OpenSubs, Subs
<1>3. ASSUME PushSubs(n, subs, Tail(queue), seen), Asked = {n} \X OpenSubs(n, demanded)
      PROVE  \A s \in Queued(queue') : s \in Queued(queue) \/ <<n, s>> \in Asked \ Refused
  <2>1. \A s \in subs : <<n, s>> \in Asked \ Refused
    BY <1>3
  <2> HIDE DEF subs, n
  <2>2. Queued(queue') \subseteq Queued(queue) \cup subs
    BY <1>1, <1>2, <1>3, PushQueues
  <2>3. QED  BY <2>1, <2>2
<1>4. CASE queue' = Tail(queue)
  BY <1>1, <1>4
<1>5. CASE GatedReady
  <2>1. Computes(n) /\ DepState(n) = "Ready"
    BY <1>5 DEF GatedReady, PushReadyTo
  <2>2. CASE ReadyValue(n) # value[n] /\ PushSubs(n, subs, Tail(queue), seen)
    BY <1>3, <2>1, <2>2 DEF Asked
  <2>3. QED  BY <1>4, <1>5, <2>2 DEF GatedReady, PushReadyTo
<1>6. CASE GatedConflicted
  <2>1. Computes(n) /\ DepState(n) = "Conflicted"
    BY <1>6 DEF GatedConflicted, PushConflictedTo
  <2>2. CASE modes[n] = "Eager" /\ PushSubs(n, subs, Tail(queue), seen)
    BY <1>3, <2>1, <2>2 DEF Asked
  <2>3. CASE queue' = Append(Tail(queue), StabilizeItem(ToSet(ordered[n]) \cup {n}))
    <3>1. n \in Uid
      BY <2>1 DEF Computes, Live
    <3>2. ordered[n] \in Seq(Uid)
      BY <3>1 DEF TypeOK
    <3>3. ToSet(ordered[n]) \subseteq Uid
      BY <3>2, ElementOfSeq, LenProperties DEF ToSet
    <3>4. ToSet(ordered[n]) \cup {n} \in SUBSET Uid
      BY <3>1, <3>3
    <3>5. Queued(queue') \subseteq Queued(queue)
      BY <1>1, <2>3, <3>4, SectionQueues
    <3>6. QED  BY <3>5
  <2>4. QED  BY <1>4, <1>6, <2>2, <2>3 DEF GatedConflicted, PushConflictedTo
<1>7. QED  BY <1>5, <1>6

\* A denied push that is not refused is logged, but in Advisory mode.
LEMMA DeniedIsLogged ==
  ASSUME AuthTypeOK, amode # "Advisory", Judged, NEW e \in Asked \ Refused, Denied(e[1], e[2]) # {}
  PROVE  \E v \in violations' : v.tgt = e[2]
<1>1. ~Suppressed(e[1], e[2])
  BY DEF Refused
<1>2. amode = "Audit" \/ (amode = "Enforced" /\ IsUnbound(e[1]) /\ unbound = "AuditOnly")
  BY <1>1 DEF AuthTypeOK, AuthorityMode, UnboundPolicy, Suppressed, Denied
<1>3. PICK r : r \in Denied(e[1], e[2])
  OBVIOUS
<1> DEFINE v == [src |-> e[1], tgt |-> e[2], reason |-> r]
<1>4. v \in Logged(e[1], e[2])
  BY <1>2, <1>3 DEF Logged
<1>5. v \in violations' /\ v.tgt = e[2]
  BY <1>4 DEF Judged
<1>6. QED  BY <1>5

-----------------------------------------------------------------------------
(* Everything queued has leave *)

\* While an operation does its work, nothing changes who may push to whom, and
\* no violation is forgotten.
GateStands == /\ UNCHANGED <<pairs, amode, unbound, decls, bound, labels>>
              /\ violations \subseteq violations'

LEMMA WorkGateStands ==
  ASSUME TierNext, pc \in {"drain", "stabilize"}
  PROVE  GateStands
<1>1. TierWork /\ ~DeleteStep
  BY DEF TierNext, TierCall, Calling, DeleteStep, DropEdge, DropNode
<1>2. CASE RegionStep
  BY <1>2 DEF RegionStep, RunRegion, SkipRegion, GateStands, authVars, vars, depVars
<1>3. CASE WarmStep
  <2>1. pairs' = pairs
    BY <1>3 DEF WarmStep, SkipHandled, GatedReady, GatedConflicted, PushReadyTo, PushConflictedTo,
                PushIdle, StepDemand, StepStabilize, StepLimit, StabilizeSection, DrainAgain, Step,
                depVars
  <2>2. UNCHANGED authVars \/ Judged
    BY <1>3 DEF WarmStep, SkipHandled, GatedReady, GatedConflicted
  <2>3. QED  BY <2>1, <2>2 DEF GateStands, authVars, Judged
<1>4. CASE DrainEnd
  BY <1>4 DEF DrainEnd, DrainEnds, GateStands, authVars, depVars
<1>5. QED  BY <1>1, <1>2, <1>3, <1>4 DEF TierWork

Sanctioned == origin \cup {v.tgt : v \in violations}

LEMMA AuthorisedGrows ==
  ASSUME GateStands, origin \subseteq origin'
  PROVE  AuthorisedFrom(Sanctioned) \subseteq AuthorisedFrom(Sanctioned)'
<1>1. \A s, t : Denied(s, t)' = Denied(s, t)
  BY DEF GateStands, Denied, IsUnbound, authority_gate, from_local, allows, contains, flows_to
<1>2. pairs' = pairs
  BY DEF GateStands
<1>3. Sanctioned \subseteq Sanctioned'
  BY DEF GateStands, Sanctioned
<1>4. QED  BY <1>1, <1>2, <1>3 DEF AuthorisedFrom

LEMMA SanctionedAuthorised ==
  ASSUME NEW n \in Uid
  PROVE  /\ n \in Sanctioned => n \in AuthorisedFrom(Sanctioned)
         /\ n \in Sanctioned' => n \in AuthorisedFrom(Sanctioned)'
<1>1. n \in Sanctioned => n \in AuthorisedFrom(Sanctioned)
  BY DEF AuthorisedFrom
<1>2. n \in Sanctioned' => n \in AuthorisedFrom(Sanctioned)'
  BY DEF AuthorisedFrom
<1>3. QED  BY <1>1, <1>2

LEMMA AuthorisedClosed ==
  ASSUME NEW n \in AuthorisedFrom(Sanctioned), NEW s \in Uid,
         <<n, s>> \in pairs, Denied(n, s) = {}
  PROVE  s \in AuthorisedFrom(Sanctioned)
<1> SUFFICES ASSUME NEW M \in SUBSET Uid, Sanctioned \subseteq M,
                    \A e \in pairs : e[1] \in M /\ Denied(e[1], e[2]) = {} => e[2] \in M
             PROVE  s \in M
  BY DEF AuthorisedFrom
<1>1. n \in M
  BY DEF AuthorisedFrom
<1> DEFINE e == <<n, s>>
<1>2. e \in pairs /\ e[1] = n /\ e[2] = s
  OBVIOUS
<1>3. e[2] \in M
  <2> HIDE DEF e
  <2>1. e[1] \in M /\ Denied(e[1], e[2]) = {}
    BY <1>1, <1>2
  <2>2. QED  BY <1>2, <2>1
<1>4. QED  BY <1>2, <1>3

QueueSanctioned == Queued(queue) \subseteq AuthorisedFrom(Sanctioned)

GateInv == TierInv /\ (pc \in {"drain", "stabilize"} /\ amode # "Advisory" => QueueSanctioned)

LEMMA QueuedType ==
  ASSUME NEW items \in Seq(WorkItem)
  PROVE  Queued(items) \subseteq Uid
<1>1. \A i \in DOMAIN items : items[i] \in WorkItem
  BY ElementOfSeq, LenProperties
<1>2. QED  BY <1>1 DEF Queued, WorkItem

\* Whatever is noted down as an origin is sanctioned.
LEMMA NotedSanctioned ==
  ASSUME TypeOK', GateStands, QueueSanctioned, origin \subseteq origin',
         Queued(queue') \ Queued(queue) \subseteq origin'
  PROVE  QueueSanctioned'
<1>1. Queued(queue') \subseteq Uid
  BY QueuedType DEF TypeOK
<1> SUFFICES ASSUME NEW n \in Queued(queue')
             PROVE  n \in AuthorisedFrom(Sanctioned)'
  BY DEF QueueSanctioned
<1>2. CASE n \in Queued(queue)
  BY <1>2, AuthorisedGrows DEF QueueSanctioned
<1>3. CASE n \in origin'
  <2>1. n \in Sanctioned' /\ n \in Uid
    BY <1>1, <1>3 DEF Sanctioned
  <2>2. QED  BY <2>1, SanctionedAuthorised
<1>4. QED  BY <1>2, <1>3

\* The warm tier answers a push: its subscribers pass the gate or are logged.
LEMMA AnswerSanctioned ==
  ASSUME TypeOK, TypeOK', AuthTypeOK, amode # "Advisory", QueueSanctioned,
         Answers, WarmStep, origin' = origin, GateStands
  PROVE  QueueSanctioned'
<1> USE DEF Answers
<1>1. CASE queue' = Tail(queue)
  <2>1. Queued(queue') \subseteq Queued(queue)
    BY <1>1, QueuedTail DEF TypeOK
  <2>2. QED  BY <2>1, NotedSanctioned
<1>2. CASE GatedReady \/ GatedConflicted
  <2> DEFINE n == Head(queue).node
  <2>1. n \in AuthorisedFrom(Sanctioned)
    BY QueuedTail DEF TypeOK, QueueSanctioned
  <2>2. Judged
    BY <1>2 DEF GatedReady, GatedConflicted
  <2> SUFFICES ASSUME NEW s \in Queued(queue')
               PROVE  s \in AuthorisedFrom(Sanctioned)'
    BY DEF QueueSanctioned
  <2>3. s \in Queued(queue) \/ <<n, s>> \in Asked \ Refused
    BY <1>2, GatedQueues
  <2>4. CASE s \in Queued(queue)
    BY <2>4, AuthorisedGrows DEF QueueSanctioned
  <2>5. CASE <<n, s>> \in Asked \ Refused
    <3>1. s \in Uid /\ <<n, s>> \in pairs
      BY <2>5 DEF Asked, OpenSubs, Subs
    <3> HIDE DEF n
    <3>2. CASE Denied(n, s) = {}
      <4>1. s \in AuthorisedFrom(Sanctioned)
        BY <2>1, <3>1, <3>2, AuthorisedClosed
      <4>2. QED  BY <4>1, AuthorisedGrows
    <3>3. CASE Denied(n, s) # {}
      <4> DEFINE e == <<n, s>>
      <4>1. e \in Asked \ Refused /\ e[1] = n /\ e[2] = s
        BY <2>5
      <4> HIDE DEF e
      <4>2. \E v \in violations' : v.tgt = s
        BY <2>2, <3>3, <4>1, DeniedIsLogged
      <4>3. s \in Sanctioned'
        BY <4>2 DEF Sanctioned
      <4>4. QED  BY <3>1, <4>3, SanctionedAuthorised
    <3>4. QED  BY <3>2, <3>3
  <2>6. QED  BY <2>3, <2>4, <2>5
<1>3. QED
  <2>1. ~StepDemand /\ ~StepStabilize /\ ~StabilizeSection /\ ~DrainAgain
    BY DEF StepDemand, StepStabilize, Step, StabilizeSection, DrainAgain
  <2>2. PushIdle \/ SkipHandled \/ StepLimit => queue' = Tail(queue)
    BY DEF PushIdle, SkipHandled, StepLimit
  <2>3. QED  BY <1>1, <1>2, <2>1, <2>2 DEF WarmStep

LEMMA GateInvNext ==
  ASSUME GateInv, TierNext, Watch
  PROVE  GateInv'
<1>1. TierInv'
  BY TierInvNext DEF GateInv
<1>2. TypeOK /\ TypeOK' /\ AuthTypeOK
  BY <1>1 DEF GateInv, TierInv, BaseInv
<1> SUFFICES ASSUME pc' \in {"drain", "stabilize"}, amode' # "Advisory"
             PROVE  QueueSanctioned'
  BY <1>1 DEF GateInv
<1>3. CASE pc = "idle"
  <2>1. ~Answers
    BY <1>3 DEF Answers
  <2>2. origin' = Queued(queue')
    BY <1>3, <2>1 DEF Watch
  <2>3. Queued(queue') \subseteq Uid
    BY <1>2, QueuedType DEF TypeOK
  <2>4. Queued(queue') \subseteq Sanctioned'
    BY <2>2 DEF Sanctioned
  <2>5. QED  BY <2>3, <2>4, SanctionedAuthorised DEF QueueSanctioned
<1>4. CASE pc \in {"drain", "stabilize"}
  <2>1. GateStands
    BY <1>4, WorkGateStands
  <2>2. amode # "Advisory" /\ QueueSanctioned
    BY <1>4, <2>1 DEF GateInv, GateStands
  <2>3. CASE Answers
    <3>1. origin' = origin
      BY <2>3 DEF Watch
    <3>2. WarmStep
      BY <2>3 DEF Answers, TierNext, TierCall, Calling, TierWork, DeleteStep, DropEdge, DropNode,
                  RegionStep, DrainEnd, DrainEnds
    <3>3. QED  BY <1>2, <2>1, <2>2, <2>3, <3>1, <3>2, AnswerSanctioned
  <2>4. CASE ~Answers
    <3>1. origin' = origin \cup (Queued(queue') \ Queued(queue))
      <4>1. pc # "idle" /\ pc' # "idle"
        BY <1>4
      <4>2. QED  BY <2>4, <4>1 DEF Watch
    <3>2. QED  BY <1>2, <2>1, <2>2, <3>1, NotedSanctioned
  <2>5. QED  BY <2>3, <2>4
<1>5. CASE pc = "delete"
  <2>1. pc' \in {"idle", "delete"}
    BY <1>5 DEF TierNext, TierCall, Calling, TierWork, DeleteStep, DropEdge, DropNode, control,
                RegionStep, RunRegion, SkipRegion, WarmStep, SkipHandled, GatedReady, GatedConflicted,
                PushReadyTo, PushConflictedTo, PushIdle, StepDemand, StepStabilize, StepLimit,
                StabilizeSection, DrainAgain, Step, TakesItem, DrainEnd, DrainEnds
  <2>2. QED  BY <2>1
<1>6. QED  BY <1>2, <1>3, <1>4, <1>5 DEF TypeOK

LEMMA GateInvKept ==
  ASSUME GateInv, UNCHANGED <<tierVars, notes>>
  PROVE  GateInv'
<1>1. TierInv'
  BY TierInvKept DEF GateInv
<1>2. /\ UNCHANGED <<pc, queue, amode, origin>> /\ GateStands
  BY DEF tierVars, vars, propVars, control, authVars, depVars, notes, GateStands
<1>3. QueueSanctioned => QueueSanctioned'
  <2>1. Queued(queue') = Queued(queue)
    BY <1>2
  <2>2. QED  BY <1>2, <2>1, AuthorisedGrows DEF QueueSanctioned
<1>4. QED  BY <1>1, <1>2, <1>3 DEF GateInv

\* Outside Advisory mode nothing gets past the gate: whatever waits in the
\* queue while the engine drains was asked for by the caller or left a region
\* or a section, was logged as a violation, or is reached from such a node over
\* pairs whose pushes are authorised (try_auth in propagate.rs, on the ready
\* and on the conflicted path, in one drain after another).
THEOREM NothingPassesTheGate == WatchedSpec => []NothingUnauthorised
<1>1. TierInit /\ WatchInit => GateInv
  BY TierInvInit DEF GateInv, TierInit, Init, Fresh
<1>2. GateInv /\ [TierNext /\ Watch]_<<tierVars, notes>> => GateInv'
  BY GateInvNext, GateInvKept
<1>3. GateInv => NothingUnauthorised
  BY DEF GateInv, NothingUnauthorised, QueueSanctioned, Sanctioned
<1>4. QED  BY <1>1, <1>2, <1>3, PTL DEF WatchedSpec

-----------------------------------------------------------------------------
(* A circuit that runs in the order of its rows *)

FollowsAt(r, i, store) ==
  Len(r.rows[i]) >= Arity[r.rules[i]] =>
    store[r.outputs[i]] = Eval(r.rules[i], Gathered(r.rows[i], store))

\* A row reads what earlier rows write and what no row does.
Layered(r) ==
  \A i \in 1 .. Len(r.members) :
    /\ \A j \in 1 .. Len(r.members) : r.outputs[j] \in ToSet(r.rows[i]) => j < i
    /\ ToSet(r.rows[i]) \subseteq r.inputs \cup ToSet(r.outputs)

LEMMA GatheredSame ==
  ASSUME NEW row, NEW store, NEW other, \A s \in ToSet(row) : store[s] = other[s]
  PROVE  Gathered(row, store) = Gathered(row, other)
  BY DEF Gathered, ToSet

\* The first k rows follow, and only they were written.
Done(r, k, st) ==
  /\ Circuit(r, st) /\ dirtySlots \subseteq st.touched
  /\ \A s \in DOMAIN cache : st.store[s] # cache[s] => \E j \in 1 .. k : r.outputs[j] = s
  /\ \A i \in 1 .. k : FollowsAt(r, i, st.store)

\* A row that reads nothing dirty follows already.
Awaits(r) ==
  \A i \in 1 .. Len(r.members) :
    FollowsAt(r, i, cache) \/ ToSet(r.rows[i]) \cap dirtySlots # {}

LEMMA RowDone ==
  ASSUME cache \in Seq(T), NEW r, WiredTo(r, DOMAIN cache), Layered(r), Awaits(r),
         NEW k \in 1 .. Len(r.members), NEW st, Done(r, k - 1, st)
  PROVE  Done(r, k, RunRow(r, k, st))
<1> DEFINE L == Len(r.members)
           new == Eval(r.rules[k], Gathered(r.rows[k], st.store))
           out == r.outputs[k]
           next == RunRow(r, k, st)
<1>1. /\ L \in Nat /\ out \in DOMAIN cache
      /\ \A i, j \in 1 .. L : r.outputs[i] = r.outputs[j] => i = j
      /\ \A i, j \in 1 .. L : r.outputs[j] \in ToSet(r.rows[i]) => j < i
      /\ \A i \in 1 .. L : ToSet(r.rows[i]) \subseteq DOMAIN cache
  <2>1. DOMAIN r.outputs = 1 .. L /\ IsInjective(r.outputs)
    BY WiredRows DEF WiredTo
  <2>2. ASSUME NEW i \in 1 .. L PROVE ToSet(r.rows[i]) \subseteq DOMAIN cache
    <3>1. r.rows[i] \in Seq(DOMAIN cache)
      BY WiredRows
    <3>2. QED  BY <3>1, ElementOfSeq, LenProperties DEF ToSet
  <2>3. QED  BY <2>1, <2>2, WiredRows DEF IsInjective, Layered
<1>2. /\ Circuit(r, st) /\ dirtySlots \subseteq st.touched
      /\ \A s \in DOMAIN cache : st.store[s] # cache[s] => \E j \in 1 .. k - 1 : r.outputs[j] = s
      /\ \A i \in 1 .. k - 1 : FollowsAt(r, i, st.store)
  BY DEF Done
<1>3. Circuit(r, next)
  BY <1>2, RunRowKeeps
<1>4. \A i \in 1 .. k : i \in 1 .. L /\ (i = k \/ i \in 1 .. k - 1)
  BY <1>1
<1>5. CASE next = st
  <2>1. FollowsAt(r, k, st.store)
    <3>1. CASE ToSet(r.rows[k]) \cap st.touched = {}
      <4>1. \A s \in ToSet(r.rows[k]) : st.store[s] = cache[s]
        BY <1>1, <1>2, <3>1 DEF Circuit
      <4>2. FollowsAt(r, k, cache)
        BY <1>2, <3>1 DEF Awaits
      <4>3. st.store[out] = cache[out]
        <5> SUFFICES ASSUME st.store[out] # cache[out] PROVE FALSE
          OBVIOUS
        <5>1. PICK j \in 1 .. k - 1 : r.outputs[j] = out
          BY <1>1, <1>2
        <5>2. j \in 1 .. L /\ j # k
          BY <1>1
        <5>3. QED  BY <1>1, <5>1, <5>2
      <4>4. Gathered(r.rows[k], st.store) = Gathered(r.rows[k], cache)
        BY <4>1, GatheredSame
      <4>5. QED  BY <4>2, <4>3, <4>4 DEF FollowsAt
    <3>2. CASE Len(r.rows[k]) >= Arity[r.rules[k]] /\ new = st.store[out]
      BY <3>2 DEF FollowsAt
    <3>3. CASE ~(Len(r.rows[k]) >= Arity[r.rules[k]])
      BY <3>3 DEF FollowsAt
    <3>4. CASE /\ ToSet(r.rows[k]) \cap st.touched # {}
               /\ Len(r.rows[k]) >= Arity[r.rules[k]] /\ new # st.store[out]
      <4>1. next = [store |-> [st.store EXCEPT ![out] = new], touched |-> st.touched \cup {out}]
        BY <3>4 DEF RunRow
      <4>2. next.store[out] = new
        <5>1. out \in DOMAIN st.store
          BY <1>1, <1>2, LenProperties DEF Circuit
        <5> HIDE DEF new, out, next
        <5>2. QED  BY <4>1, <5>1
      <4>3. QED  BY <1>5, <3>4, <4>2
    <3>5. QED  BY <3>1, <3>2, <3>3, <3>4
  <2>2. \A i \in 1 .. k : FollowsAt(r, i, next.store)
    BY <1>2, <1>4, <1>5, <2>1
  <2>3. \A j \in 1 .. k - 1 : j \in 1 .. k
    BY <1>1
  <2> HIDE DEF next
  <2>4. QED  BY <1>2, <1>3, <1>5, <2>2, <2>3 DEF Done, next
<1>6. CASE next = [store |-> [st.store EXCEPT ![out] = new], touched |-> st.touched \cup {out}]
  <2>1. /\ next.touched = st.touched \cup {out}
        /\ \A s \in DOMAIN cache : next.store[s] = IF s = out THEN new ELSE st.store[s]
    <3>1. DOMAIN st.store = DOMAIN cache
      BY <1>2, LenProperties DEF Circuit
    <3> HIDE DEF new, out, next
    <3>2. QED  BY <1>6, <3>1
  <2>2. ASSUME NEW i \in 1 .. k
        PROVE  Gathered(r.rows[i], next.store) = Gathered(r.rows[i], st.store)
    <3>1. out \notin ToSet(r.rows[i])
      BY <1>1, <1>4
    <3>2. \A s \in ToSet(r.rows[i]) : next.store[s] = st.store[s]
      BY <1>1, <1>4, <2>1, <3>1
    <3>3. QED  BY <3>2, GatheredSame
  <2>3. FollowsAt(r, k, next.store)
    <3>1. k \in 1 .. k
      BY <1>1
    <3>2. QED  BY <1>1, <2>1, <2>2, <3>1 DEF FollowsAt
  <2>4. ASSUME NEW i \in 1 .. k - 1 PROVE FollowsAt(r, i, next.store)
    <3>1. i \in 1 .. k /\ i \in 1 .. L /\ i # k
      BY <1>1
    <3>2. r.outputs[i] # out /\ r.outputs[i] \in DOMAIN cache
      BY <1>1, <3>1, WiredRows
    <3>3. QED  BY <1>2, <2>1, <2>2, <3>1, <3>2 DEF FollowsAt
  <2>5. \A i \in 1 .. k : FollowsAt(r, i, next.store)
    BY <1>4, <2>3, <2>4
  <2>6. ASSUME NEW s \in DOMAIN cache, next.store[s] # cache[s]
        PROVE  \E j \in 1 .. k : r.outputs[j] = s
    <3>1. CASE s = out
      BY <1>1, <3>1
    <3>2. CASE s # out
      <4>1. PICK j \in 1 .. k - 1 : r.outputs[j] = s
        BY <1>2, <2>1, <2>6, <3>2
      <4>2. j \in 1 .. k
        BY <1>1
      <4>3. QED  BY <4>1, <4>2
    <3>3. QED  BY <3>1, <3>2
  <2>7. dirtySlots \subseteq next.touched
    BY <1>2, <2>1
  <2> HIDE DEF next
  <2>8. QED  BY <1>3, <2>5, <2>6, <2>7 DEF Done, next
<1>7. QED  BY <1>5, <1>6 DEF RunRow

\* A run touches what was dirty, and if only rows that read something dirty
\* had yet to follow, all rows do.
LEMMA RunDone ==
  ASSUME cache \in Seq(T), dirtySlots \subseteq DOMAIN cache, NEW r, WiredTo(r, DOMAIN cache),
         Layered(r), Awaits(r)
  PROVE  \A i \in 1 .. Len(r.members) : FollowsAt(r, i, RunRows(r).store)
<1> DEFINE L == Len(r.members)
<1>1. PICK run : Runs(r, run) /\ RunRows(r) = run[Len(r.members)]
  BY RunExists
<1>2. /\ L \in Nat
      /\ run[0] = [store |-> cache, touched |-> dirtySlots]
      /\ \A i \in 1 .. L : run[i] = RunRow(r, i, run[i - 1])
  BY <1>1, WiredRows, RunSteps
<1>3. Done(r, 0, run[0])
  <2>1. Circuit(r, run[0])
    BY <1>1, <1>2, RunKeeps
  <2>2. run[0].store = cache /\ run[0].touched = dirtySlots
    BY <1>2
  <2>3. QED  BY <2>1, <2>2 DEF Done
<1>4. \A i \in 1 .. L : Done(r, i - 1, run[i - 1]) => Done(r, i, run[i])
  BY <1>2, RowDone
<1> DEFINE g == [i \in 0 .. L |-> IF Done(r, i, run[i]) THEN 1 ELSE 0]
           S == {1}
<1>5. g[0] \in S
  BY <1>2, <1>3
<1>6. \A i \in 1 .. L : g[i - 1] \in S => g[i] \in S
  <2> SUFFICES ASSUME NEW i \in 1 .. L, g[i - 1] \in S PROVE g[i] \in S
    OBVIOUS
  <2>1. i - 1 \in 0 .. L /\ i \in 0 .. L
    BY <1>2
  <2>2. Done(r, i - 1, run[i - 1])
    BY <2>1
  <2>3. Done(r, i, run[i])
    BY <1>4, <2>2
  <2>4. QED  BY <2>1, <2>3
<1>7. L \in 0 .. L
  BY <1>2
<1>8. g[L] \in S
  <2> HIDE DEF g, S, L
  <2>1. QED  BY <1>2, <1>5, <1>6, <1>7, IterationKeeps
<1>9. Done(r, L, run[L])
  BY <1>7, <1>8
<1>10. QED  BY <1>1, <1>9 DEF Done

LEMMA RunTouches ==
  ASSUME cache \in Seq(T), dirtySlots \subseteq DOMAIN cache, NEW r, WiredTo(r, DOMAIN cache)
  PROVE  dirtySlots \subseteq RunRows(r).touched
<1> DEFINE L == Len(r.members)
           S == {st \in [store : Seq(T), touched : SUBSET DOMAIN cache] : dirtySlots \subseteq st.touched}
<1>1. PICK run : Runs(r, run) /\ RunRows(r) = run[Len(r.members)]
  BY RunExists
<1>2. /\ L \in Nat
      /\ run[0] = [store |-> cache, touched |-> dirtySlots]
      /\ \A i \in 1 .. L : run[i] = RunRow(r, i, run[i - 1])
      /\ \A i \in 0 .. L : run[i] \in [store : Seq(T), touched : SUBSET DOMAIN cache]
  BY <1>1, WiredRows, RunSteps, RunKeeps DEF Circuit
<1>3. run[0] \in S
  BY <1>2
<1>4. ASSUME NEW i \in 1 .. L, run[i - 1] \in S PROVE run[i] \in S
  <2>1. run[i] = run[i - 1] \/ run[i].touched = run[i - 1].touched \cup {r.outputs[i]}
    <3>1. \A st : RunRow(r, i, st) = st \/ RunRow(r, i, st).touched = st.touched \cup {r.outputs[i]}
      BY DEF RunRow
    <3>2. QED  BY <1>2, <3>1
  <2>2. i \in 0 .. L
    OBVIOUS
  <2>3. QED  BY <1>2, <1>4, <2>1, <2>2
<1>5. L \in 0 .. L
  BY <1>2
<1>6. run[L] \in S
  <2> HIDE DEF S, L
  <2>1. QED  BY <1>2, <1>3, <1>4, <1>5, IterationKeeps
<1>7. QED  BY <1>1, <1>6

-----------------------------------------------------------------------------
(* Inputs that depend on nothing *)

\* The nodes that a topology or a call makes an Input.
Sources ==
  {n \in Uid : \/ \E t \in Topologies : t.kind[n] = "Input"
               \/ \E c \in Calls : c.op = "NodeCreate" /\ c.node = n /\ c.kind = "Input"}

\* Nobody gives them a dependency.
BareSources ==
  /\ \A c \in Calls : /\ c.op = "EdgeConnect" => c.edge.tgt \notin Sources
                      /\ c.op = "Subscribe" => c.sub \notin Sources
  /\ \A t \in Topologies, n \in Sources : t.wiring[n] = <<>>

BareInv == \A n \in Uid : /\ kind[n] = "Input" => n \in Sources
                          /\ n \in Sources => ordered[n] = <<>>

LEMMA BareInit ==
  ASSUME Init, BareSources
  PROVE  BareInv
<1>1. PICK t \in Topologies : InitTopology(t)
  BY DEF Init
<1>2. \A n \in Uid : kind[n] = (IF n \in ToSet(Created) THEN t.kind[n] ELSE Absent)
  BY <1>1 DEF InitTopology
<1>3. \A n \in Uid : kind[n] = "Input" => n \in Sources
  BY <1>2 DEF Sources, Absent
<1>4. ordered = t.wiring
  BY <1>1 DEF InitTopology
<1>5. QED  BY <1>3, <1>4 DEF BareInv, BareSources

LEMMA EmptyWithout ==
  ASSUME NEW i
  PROVE  Without(<<>>, i) = <<>>
<1>1. DOMAIN <<>> = {}
  OBVIOUS
<1>2. i \notin DOMAIN <<>>
  BY <1>1
<1>3. QED  BY <1>2 DEF Without

\* No step but NodeCreate makes a node an Input.
LEMMA InputsOld ==
  ASSUME TypeOK, SlotsDistinct, TierNext,
         NEW m \in Uid, kind'[m] = "Input"
  PROVE  \/ kind[m] = "Input" /\ idx'[m] = idx[m]
         \/ /\ \E c \in Calls : c.op = "NodeCreate" /\ c.node = m /\ c.kind = "Input"
            /\ idx'[m] = Len(cache) + 1
<1>1. CASE UNCHANGED <<kind, idx>>
  BY <1>1
<1>2. ASSUME NEW c \in Calls, c.op = "NodeCreate", NodeCreate(c.node, c.kind)
      PROVE  \/ kind[m] = "Input" /\ idx'[m] = idx[m]
             \/ c.node = m /\ c.kind = "Input" /\ idx'[m] = Len(cache) + 1
  <2>1. /\ kind' = [kind EXCEPT ![c.node] = c.kind]
        /\ idx' = [idx EXCEPT ![c.node] = Len(cache) + 1]
        /\ DOMAIN kind = Uid /\ DOMAIN idx = Uid
    BY <1>2 DEF NodeCreate, Alloc, TypeOK
  <2>2. QED  BY <2>1
<1>3. CASE DropNode
  <2>1. UNCHANGED idx /\ \E n \in victim : kind' = [kind EXCEPT ![n] = Absent]
    BY <1>3 DEF DropNode, Dealloc
  <2>2. kind'[m] = kind[m]
    BY <2>1 DEF Absent, TypeOK
  <2>3. QED  BY <2>1, <2>2
<1>4. CASE Call
  <2>1. PICK c \in Calls : Apply(c)
    BY <1>4 DEF Call
  <2>2. CASE c.op = "NodeCreate"
    BY <1>2, <2>1, <2>2 DEF Apply
  <2>3. CASE c.op # "NodeCreate"
    BY <1>1, <2>1, <2>3
       DEF Apply, EdgeConnect, SubscribeOp, SetValue, Request, DelNode, DelEdge, SetMode,
           Reflect, ReflectMissing, WriteAndPush, Stabilize, graphVars, storeVars
  <2>4. QED  BY <2>2, <2>3
<1>5. CASE Work
  <2>1. DropNode \/ UNCHANGED <<kind, idx>>
    BY <1>5 DEF Work, DropEdge, PushReady, PushConflicted, PushReadyTo, PushConflictedTo,
                PushIdle, StepDemand, StepStabilize, StepLimit, StabilizeSection, DrainAgain, Step,
                DrainEnds, graphVars, storeVars
  <2>2. QED  BY <1>1, <1>3, <2>1
<1>6. CASE Retick \/ PushReadyTo(Refused) \/ PushConflictedTo(Refused) \/ SkipHandled
             \/ UNCHANGED vars
  BY <1>1, <1>6 DEF Retick, PushReadyTo, PushConflictedTo, SkipHandled, Step, vars, graphVars, storeVars
<1>7. ASSUME NEW root, RunRegion(root) PROVE UNCHANGED <<kind, idx>>
  BY <1>7 DEF RunRegion
<1>8. QED  BY <1>1, <1>4, <1>5, <1>6, <1>7, TierMoves DEF WarmMove, Next

LEMMA BareStays ==
  ASSUME TypeOK, BareInv, BareSources, TierNext, NEW n \in Sources
  PROVE  ordered'[n] = <<>>
<1>0. n \in Uid /\ ordered[n] = <<>> /\ DOMAIN ordered = Uid
  BY DEF BareInv, Sources, TypeOK
<1>1. ASSUME NEW src, NEW sub, NEW slot, NEW v, Subscribe(src, sub, slot, v), sub # n
      PROVE  ordered'[n] = <<>>
  BY <1>0, <1>1 DEF Subscribe
<1>2. ASSUME NEW e, RemoveEdge(e) PROVE ordered'[n] = <<>>
  <2>1. ordered' = [ordered EXCEPT ![e.tgt] = Without(@, FirstAt(ordered[e.tgt], e.src))]
    BY <1>2 DEF RemoveEdge, Unsubscribe
  <2>2. QED  BY <1>0, <2>1, EmptyWithout
<1>3. CASE UNCHANGED ordered
  BY <1>0, <1>3
<1>4. CASE Call
  <2>1. PICK c \in Calls : Apply(c)
    BY <1>4 DEF Call
  <2>2. CASE c.op = "EdgeConnect"
    <3>1. c.edge.tgt # n
      BY <2>2 DEF BareSources
    <3>2. EdgeConnect(c.edge)
      BY <2>1, <2>2 DEF Apply
    <3>3. QED  BY <1>1, <3>1, <3>2 DEF EdgeConnect
  <2>3. CASE c.op = "Subscribe"
    <3>1. c.sub # n
      BY <2>3 DEF BareSources
    <3>2. SubscribeOp(c.src, c.sub)
      BY <2>1, <2>3 DEF Apply
    <3>3. QED  BY <1>1, <3>1, <3>2 DEF SubscribeOp
  <2>4. CASE c.op = "DelEdge"
    BY <1>2, <2>1, <2>4 DEF Apply, DelEdge
  <2>5. CASE c.op \notin {"EdgeConnect", "Subscribe", "DelEdge"}
    BY <1>3, <2>1, <2>5
       DEF Apply, NodeCreate, SetValue, Request, DelNode, SetMode,
           Reflect, ReflectMissing, WriteAndPush, Stabilize, depVars
  <2>6. QED  BY <2>2, <2>3, <2>4, <2>5
<1>5. CASE Work
  <2>1. CASE DropEdge
    BY <1>2, <2>1 DEF DropEdge
  <2>2. CASE DropNode
    <3>1. PICK id : RemoveNode(id)
      BY <2>2 DEF DropNode
    <3>2. \E i : ordered'[n] = IF n = id THEN <<>> ELSE Without(ordered[n], i)
      BY <1>0, <3>1 DEF RemoveNode
    <3>3. QED  BY <1>0, <3>2, EmptyWithout
  <2>3. DropEdge \/ DropNode \/ UNCHANGED ordered
    BY <1>5 DEF Work, PushReady, PushConflicted, PushReadyTo, PushConflictedTo,
                PushIdle, StepDemand, StepStabilize, StepLimit, StabilizeSection, DrainAgain, Step,
                DrainEnds, depVars
  <2>4. QED  BY <1>3, <2>1, <2>2, <2>3
<1>6. CASE Retick \/ PushReadyTo(Refused) \/ PushConflictedTo(Refused) \/ SkipHandled
             \/ UNCHANGED vars
  BY <1>3, <1>6 DEF Retick, PushReadyTo, PushConflictedTo, SkipHandled, Step, vars, depVars
<1>7. ASSUME NEW root, RunRegion(root) PROVE UNCHANGED ordered
  BY <1>7 DEF RunRegion
<1>8. QED  BY <1>3, <1>4, <1>5, <1>6, <1>7, TierMoves DEF WarmMove, Next

LEMMA BareNext ==
  ASSUME TypeOK, SlotsDistinct, BareInv, BareSources, TierNext
  PROVE  BareInv'
<1>1. ASSUME NEW n \in Uid, kind'[n] = "Input" PROVE n \in Sources
  <2>1. \/ kind[n] = "Input"
        \/ \E c \in Calls : c.op = "NodeCreate" /\ c.node = n /\ c.kind = "Input"
    BY <1>1, InputsOld
  <2>2. QED  BY <2>1 DEF BareInv, Sources
<1>2. \A n \in Sources : ordered'[n] = <<>>
  BY BareStays
<1>3. QED  BY <1>1, <1>2 DEF BareInv

-----------------------------------------------------------------------------
(* What compile_region wires *)

LEMMA SomeEntry ==
  ASSUME NEW S, NEW row \in Seq(S), row # <<>>
  PROVE  \E k \in DOMAIN row : TRUE
<1>1. Len(row) \in Nat /\ DOMAIN row = 1 .. Len(row)
  BY LenProperties
<1>2. Len(row) # 0
  BY EmptySeq
<1>3. 1 \in DOMAIN row
  BY <1>1, <1>2
<1>4. QED  BY <1>3

LEMMA RowReads ==
  ASSUME TypeOK, RegInv, NEW n \in Uid, NEW row \in Rows(n), NEW s \in ToSet(row)
  PROVE  \E d \in Uid : <<d, n>> \in pairs /\ idx[d] = s /\ InList(d, ordered[n])
<1>1. CASE indices[n] # <<>>
  <2>1. row = SlotsOf(ordered[n])
    BY <1>1 DEF Rows, RegInv, SlotsParallel
  <2>2. PICK i \in DOMAIN ordered[n] : s = idx[ordered[n][i]]
    BY <2>1 DEF SlotsOf, ToSet
  <2>3. ordered[n][i] \in Uid
    BY ElementOfSeq, LenProperties DEF TypeOK
  <2>4. InList(ordered[n][i], ordered[n])
    BY DEF InList
  <2>5. QED  BY <2>2, <2>3, <2>4 DEF RegInv, ListsArePairs
<1>2. CASE indices[n] = <<>>
  <2>1. \E o \in [1 .. Cardinality(Deps(n)) -> Deps(n)] : row = [i \in DOMAIN o |-> idx[o[i]]]
    BY <1>2 DEF Rows, InOrder
  <2>2. PICK o \in [1 .. Cardinality(Deps(n)) -> Deps(n)] : row = [i \in DOMAIN o |-> idx[o[i]]]
    BY <2>1
  <2>3. PICK i \in DOMAIN o : s = idx[o[i]]
    BY <2>2 DEF ToSet
  <2>4. o[i] \in Deps(n)
    BY <2>2, <2>3
  <2>5. QED  BY <2>3, <2>4 DEF Deps, RegInv, ListsArePairs
<1>3. QED  BY <1>1, <1>2

\* Rows of a circuit come after those they read, and a slot that no row
\* computes before it is read is an input.
LEMMA CompiledLayered ==
  ASSUME TypeOK, SlotsDistinct, RegInv, NEW M \in SUBSET Uid, NEW c \in Circuits(M)
  PROVE  /\ Layered(CompiledRegion(c))
         /\ \A i \in 1 .. Len(c.members) : CompiledRegion(c).rows[i] # <<>> => ordered[c.members[i]] # <<>>
<1> DEFINE r == CompiledRegion(c)
           L == Len(r.members)
<1>1. /\ WiredTo(r, DOMAIN cache)
      /\ \A i \in DOMAIN c.members : c.rows[i] \in Rows(c.members[i])
      /\ Registered(r, idx)
      /\ r.members = c.members /\ r.rows = c.rows
      /\ \A i \in 1 .. Len(c.members) : r.outputs[i] = idx[c.members[i]]
  BY CompiledWired
<1>2. r.inputs = InputsOf(r.rows, r.outputs)
  BY DEF CompiledRegion
<1>3. \A i, j \in DOMAIN r.members : <<r.members[i], r.members[j]>> \in pairs => i < j
  BY <1>1 DEF Circuits, TopoOrders
<1> HIDE DEF r
<1>4. /\ L \in Nat /\ DOMAIN r.members = 1 .. L /\ DOMAIN r.outputs = 1 .. L /\ DOMAIN r.rows = 1 .. L
      /\ \A i \in 1 .. L : r.members[i] \in Uid /\ r.rows[i] \in Seq(DOMAIN cache)
  BY <1>1, WiredRows
<1>5. \A i \in 1 .. L : r.rows[i] \in Rows(r.members[i]) /\ r.outputs[i] = idx[r.members[i]]
                          /\ idx[r.members[i]] # 0
  BY <1>1, <1>4 DEF Registered
<1>6. ASSUME NEW i \in 1 .. L, NEW j \in 1 .. L, r.outputs[j] \in ToSet(r.rows[i]) PROVE j < i
  <2>1. PICK d \in Uid : <<d, r.members[i]>> \in pairs /\ idx[d] = r.outputs[j]
    BY <1>4, <1>5, <1>6, RowReads
  <2>2. d = r.members[j]
    BY <1>4, <1>5, <2>1 DEF SlotsDistinct
  <2>3. QED  BY <1>3, <1>4, <2>1, <2>2
<1>7. ASSUME NEW i \in 1 .. L, NEW s \in ToSet(r.rows[i]), s \notin ToSet(r.outputs)
      PROVE  s \in r.inputs
  <2> DEFINE B == {k \in 1 .. L : s \in ToSet(r.rows[k])}
  <2>1. B \in SUBSET Nat /\ B # {}
    BY <1>4
  <2>2. PICK k \in B : \A j \in B : k <= j
    BY <2>1, LeastNat
  <2>3. k \in 1 .. L /\ s \in ToSet(r.rows[k])
    OBVIOUS
  <2>4. ASSUME NEW j \in 1 .. k PROVE s # r.outputs[j]
    <3>1. j \in 1 .. L
      BY <1>4, <2>3
    <3>2. r.outputs[j] \in ToSet(r.outputs)
      BY <1>4, <3>1 DEF ToSet
    <3>3. QED  BY <1>7, <3>2
  <2>5. \A j \in 1 .. k - 1 : s \notin ToSet(r.rows[j])
    <3> SUFFICES ASSUME NEW j \in 1 .. k - 1, s \in ToSet(r.rows[j]) PROVE FALSE
      OBVIOUS
    <3>1. j \in 1 .. L /\ ~(k <= j)
      BY <1>4, <2>3
    <3>2. QED  BY <2>2, <3>1
  <2> HIDE DEF B
  <2>6. s \in UNION {ToSet(r.rows[j]) : j \in DOMAIN r.rows}
    BY <1>4, <2>3
  <2>7. QED  BY <1>2, <1>4, <2>3, <2>4, <2>5, <2>6 DEF InputsOf
<1>8. ASSUME NEW i \in 1 .. L, r.rows[i] # <<>> PROVE ordered[r.members[i]] # <<>>
  <2>1. \E k \in DOMAIN r.rows[i] : TRUE
    BY <1>4, <1>8, SomeEntry
  <2>2. PICK s : s \in ToSet(r.rows[i])
    BY <2>1 DEF ToSet
  <2>3. PICK d : InList(d, ordered[r.members[i]])
    BY <1>4, <1>5, <2>2, RowReads
  <2>4. QED  BY <2>3 DEF InList
<1>9. Layered(r)
  BY <1>6, <1>7 DEF Layered
<1>10. QED  BY <1>1, <1>8, <1>9 DEF r

-----------------------------------------------------------------------------
(* Rows that wait for their region to run, and rows that follow *)

\* No Input node has a slot that a row writes.
Spares(r) ==
  \A i \in 1 .. Len(r.members) : r.rows[i] # <<>> =>
    \A m \in Uid : kind[m] = "Input" => idx[m] # r.outputs[i]

FlowInv ==
  \A root \in DOMAIN regions :
    /\ Layered(regions[root]) /\ Spares(regions[root])
    /\ regions[root].inputs \X {root} \subseteq reads

\* A row that does not follow yet reads a slot its region is to run for.
Waits(root) ==
  \A i \in 1 .. Len(regions[root].members) :
    \/ FollowsAt(regions[root], i, cache)
    \/ root \in dirty /\ ToSet(regions[root].rows[i]) \cap dirtySlots # {}

FollowInv ==
  \A root \in followed : root \in DOMAIN regions /\ (Fed(regions[root]) => Waits(root))

LEMMA SparesStay ==
  ASSUME TypeOK, SlotsDistinct, TierNext, NEW r, WiredTo(r, DOMAIN cache), Spares(r)
  PROVE  Spares(r)'
<1> SUFFICES ASSUME NEW i \in 1 .. Len(r.members), r.rows[i] # <<>>,
                    NEW m \in Uid, kind'[m] = "Input"
             PROVE  idx'[m] # r.outputs[i]
  BY DEF Spares
<1>1. r.outputs[i] \in 1 .. Len(cache) /\ Len(cache) \in Nat
  BY WiredRows, LenProperties DEF TypeOK
<1>2. CASE kind[m] = "Input" /\ idx'[m] = idx[m]
  BY <1>2 DEF Spares
<1>3. CASE idx'[m] = Len(cache) + 1
  BY <1>1, <1>3
<1>4. QED  BY <1>2, <1>3, InputsOld

\* Steps that compile nothing.
LEMMA FlowKept ==
  ASSUME TierInv, FlowInv, TierNext, DOMAIN regions' \subseteq DOMAIN regions,
         \A root \in DOMAIN regions' : /\ regions'[root] = regions[root]
                                       /\ regions[root].inputs \X {root} \subseteq reads'
  PROVE  FlowInv'
<1> SUFFICES ASSUME NEW root \in DOMAIN regions'
             PROVE  /\ Layered(regions'[root]) /\ Spares(regions[root])'
                    /\ regions'[root].inputs \X {root} \subseteq reads'
  BY DEF FlowInv
<1>1. PICK r : r = regions[root] /\ r = regions'[root]
  OBVIOUS
<1>2. WiredTo(r, DOMAIN cache) /\ Layered(r) /\ Spares(r)
  BY <1>1 DEF FlowInv, TierInv, RegionInv
<1>3. Spares(r)'
  BY <1>2, SparesStay DEF TierInv, BaseInv
<1>4. QED  BY <1>1, <1>2, <1>3 DEF Spares

LEMMA EvictFlows ==
  ASSUME TierInv, FlowInv, TierNext, NEW nodes, Evict(nodes)
  PROVE  FlowInv'
<1> SUFFICES ASSUME NEW root \in DOMAIN regions'
             PROVE  /\ root \in DOMAIN regions /\ regions'[root] = regions[root]
                    /\ regions[root].inputs \X {root} \subseteq reads'
  BY FlowKept
<1>1. root \in DOMAIN regions /\ regions'[root] = regions[root]
  BY DEF Evict
<1>2. regions[root].inputs \X {root} \subseteq reads
  BY <1>1 DEF FlowInv
<1>3. \A e \in reads : e[2] = root => e \in reads'
  BY DEF Evict
<1>4. QED  BY <1>1, <1>2, <1>3

LEMMA DeclareFlows ==
  ASSUME ExactInv, Careful, BareInv, FlowInv, TierNext, NEW c \in RegionCalls,
         RegionDeclare(c.root, c.boundary, c.stability, c.compile)
  PROVE  FlowInv'
<1> DEFINE M == RegionMembers(c.root, c.boundary)
<1>1. UNCHANGED <<kind, idx>>
  BY DEF RegionDeclare, graphVars, storeVars
<1>2. M \subseteq Uid /\ TypeOK /\ SlotsDistinct /\ RegInv
  <2>1. c \in RegionOp /\ c.root \in Uid /\ c.boundary \in Boundary
    BY RegionAssumption DEF RegionAssumption, RegionOp
  <2>2. QED  BY <2>1, MembersType DEF ExactInv, AlignInv, TierInv, BaseInv, AuthTypeOK
<1>3. CASE UNCHANGED <<regions, reads>>
  <2>1. \A root \in DOMAIN regions : regions[root].inputs \X {root} \subseteq reads'
    BY <1>3 DEF FlowInv
  <2>2. QED  BY <1>3, <2>1, FlowKept DEF ExactInv
<1>4. ASSUME NEW k \in Circuits(M), regions' = Entered(regions, c.root, CompiledRegion(k)),
             reads' = reads \cup (regions'[c.root].inputs \X {c.root})
      PROVE  FlowInv'
  <2>1. PICK r : r = CompiledRegion(k)
    OBVIOUS
  <2>2. /\ DOMAIN regions' = DOMAIN regions \cup {c.root} /\ regions'[c.root] = r
        /\ \A root \in DOMAIN regions \ {c.root} : regions'[root] = regions[root]
    BY <1>4, <2>1 DEF Entered
  <2>3. /\ WiredTo(r, DOMAIN cache) /\ Registered(r, idx) /\ r.members = k.members
        /\ \A i \in 1 .. Len(k.members) : r.outputs[i] = idx[k.members[i]]
    BY <1>2, <2>1, CompiledWired
  <2>4. /\ Layered(r)
        /\ \A i \in 1 .. Len(k.members) : r.rows[i] # <<>> => ordered[k.members[i]] # <<>>
    BY <1>2, <2>1, CompiledLayered
  <2> HIDE DEF M
  <2>5. Spares(r)'
    <3> SUFFICES ASSUME NEW i \in 1 .. Len(r.members), r.rows[i] # <<>>,
                        NEW m \in Uid, kind[m] = "Input", idx[m] = r.outputs[i]
                 PROVE  FALSE
      BY <1>1 DEF Spares
    <3>1. r.members[i] \in Uid /\ idx[r.members[i]] = r.outputs[i] /\ idx[r.members[i]] # 0
      BY <2>3, WiredRows DEF Registered
    <3>2. m = r.members[i]
      BY <1>2, <3>1 DEF SlotsDistinct
    <3>3. QED  BY <2>3, <2>4, <3>1, <3>2 DEF BareInv
  <2>6. ASSUME NEW root \in DOMAIN regions \ {c.root}
        PROVE  /\ Layered(regions[root]) /\ Spares(regions[root])
               /\ regions[root].inputs \X {root} \subseteq reads
    BY DEF FlowInv
  <2>7. ASSUME NEW root \in DOMAIN regions'
        PROVE  /\ Layered(regions'[root]) /\ Spares(regions[root])'
               /\ regions'[root].inputs \X {root} \subseteq reads'
    <3>1. CASE root = c.root
      BY <1>4, <2>2, <2>4, <2>5, <3>1 DEF Spares
    <3>2. CASE root # c.root
      <4>1. PICK q : q = regions[root] /\ q = regions'[root]
        BY <2>2, <3>2
      <4>2. Spares(q) /\ Layered(q) /\ q.inputs \X {root} \subseteq reads
        BY <2>2, <2>6, <3>2, <4>1
      <4>3. Spares(q)'
        BY <1>1, <4>2 DEF Spares
      <4>4. QED  BY <1>4, <4>1, <4>2, <4>3 DEF Spares
    <3>3. QED  BY <3>1, <3>2
  <2>8. QED  BY <2>7 DEF FlowInv
<1>5. QED  BY <1>3, <1>4 DEF RegionDeclare

LEMMA FlowNext ==
  ASSUME ExactInv, Careful, BareInv, FlowInv, TierNext
  PROVE  FlowInv'
<1>1. TierInv
  BY DEF ExactInv
<1>2. CASE UNCHANGED <<regions, reads>>
  <2>1. \A root \in DOMAIN regions : regions[root].inputs \X {root} \subseteq reads'
    BY <1>2 DEF FlowInv
  <2>2. QED  BY <1>1, <1>2, <2>1, FlowKept
<1>3. ASSUME NEW nodes, Evict(nodes) PROVE FlowInv'
  BY <1>1, <1>3, EvictFlows
<1>4. ASSUME NEW c, EngineCall(c) PROVE FlowInv'
  <2>1. UNCHANGED <<regions, reads>> \/ \E nodes : Evict(nodes)
    BY <1>4 DEF EngineCall, MarkDirty, regionVars
  <2>2. QED  BY <1>2, <1>3, <2>1
<1>5. CASE TierCall
  <2>1. \/ \E c : EngineCall(c)
        \/ UNCHANGED regionVars
        \/ \E c \in RegionCalls : RegionDeclare(c.root, c.boundary, c.stability, c.compile)
    BY <1>5 DEF TierCall, Calling
  <2>2. QED  BY <1>2, <1>4, <2>1, DeclareFlows DEF regionVars
<1>6. CASE TierWork
  <2>1. UNCHANGED <<regions, reads>> \/ \E nodes : Evict(nodes)
    BY <1>6 DEF TierWork, DeleteStep, RegionStep, RunRegion, SkipRegion, WarmStep, DrainEnd, regionVars
  <2>2. QED  BY <1>2, <1>3, <2>1
<1>7. QED  BY <1>5, <1>6 DEF TierNext

-----------------------------------------------------------------------------
(* Steps that leave the inputs of the circuits alone *)

\* What changes is not the slot of an Input node.
Calm ==
  \A s \in DOMAIN cache : cache'[s] # cache[s] =>
    \A m \in Uid : kind'[m] = "Input" => idx'[m] # s

LEMMA StoredCalm ==
  ASSUME TypeOK, SlotsDistinct, UNCHANGED idx, NEW n \in Uid, kind'[n] # "Input", idx[n] # 0,
         NEW v, cache' = Stored(n, v)
  PROVE  Calm
<1>1. \A s \in DOMAIN cache : s # idx[n] => cache'[s] = cache[s]
  BY DEF Stored
<1>2. \A m \in Uid : kind'[m] = "Input" => idx'[m] # idx[n]
  BY DEF SlotsDistinct
<1>3. QED  BY <1>1, <1>2 DEF Calm

LEMMA ResolveCalm ==
  ASSUME TypeOK, SlotsDistinct, UNCHANGED <<kind, idx>>, NEW M \in SUBSET Uid, NEW v, Resolve(M, v)
  PROVE  Calm
<1> DEFINE zero == {m \in M : value[m] = "Zero"}
<1> SUFFICES ASSUME NEW s \in DOMAIN cache, cache'[s] # cache[s],
                    NEW m \in Uid, kind[m] = "Input", idx[m] = s
             PROVE  FALSE
  BY DEF Calm
<1>1. MayResolve(M, v) /\ cache' = StoredAll(zero, v)
  BY DEF Resolve
<1>2. PICK id \in zero : idx[id] = s
  BY <1>1 DEF StoredAll
<1>3. s # 0
  BY LenProperties DEF TypeOK
<1>4. id = m
  BY <1>2, <1>3 DEF SlotsDistinct
<1>5. v = "Zero" /\ v \in {"Neg", "Pos"}
  BY <1>1, <1>2, <1>4 DEF MayResolve
<1>6. QED  BY <1>5

LEMMA StillCalm ==
  ASSUME UNCHANGED cache
  PROVE  Calm
  BY DEF Calm

LEMMA PushesCalm ==
  ASSUME BaseInv, NEW refused, PushReadyTo(refused) \/ PushConflictedTo(refused)
  PROVE  Calm
<1> DEFINE n == Head(queue).node
<1>1. /\ UNCHANGED <<kind, idx>> /\ Computes(n)
      /\ UNCHANGED cache \/ \E v : cache' = Stored(n, v)
  BY DEF PushReadyTo, PushConflictedTo, Step, Write
<1>2. n \in Uid /\ kind[n] # "Input" /\ idx[n] # 0
  BY <1>1 DEF Computes, Live, BaseInv, Slotted
<1> HIDE DEF n
<1>3. QED  BY <1>1, <1>2, StoredCalm, StillCalm DEF BaseInv

LEMMA MembersLive ==
  ASSUME NEW seeds, NEW M \in SectionRegions(seeds)
  PROVE  M \in SUBSET Uid
  BY DEF SectionRegions, Live

LEMMA WorkCalm ==
  ASSUME BaseInv, Work
  PROVE  Calm
<1>1. CASE DropNode
  <2>1. PICK n \in victim : kind' = [kind EXCEPT ![n] = Absent] /\ Dealloc(n)
    BY <1>1 DEF DropNode
  <2>2. n \in Uid /\ kind'[n] # "Input" /\ UNCHANGED idx /\ cache' = Stored(n, "Neg")
    BY <2>1 DEF Dealloc, BaseInv, TypeOK, Absent
  <2>3. CASE idx[n] = 0
    BY <2>2, <2>3, StillCalm DEF Stored
  <2>4. CASE idx[n] # 0
    BY <2>2, <2>4, StoredCalm DEF BaseInv
  <2>5. QED  BY <2>3, <2>4
<1>2. CASE PushReady \/ PushConflicted
  BY <1>2, PushesCalm DEF PushReady, PushConflicted
<1>3. CASE StabilizeSection
  <2>1. UNCHANGED <<kind, idx>> /\ (UNCHANGED cache \/ \E M \in SectionRegions(Head(sections)), v \in T : Resolve(M, v))
    BY <1>3 DEF StabilizeSection, Unresolved
  <2>2. QED  BY <2>1, MembersLive, ResolveCalm, StillCalm DEF BaseInv
<1>4. CASE DropEdge \/ PushIdle \/ StepDemand \/ StepStabilize \/ StepLimit \/ DrainEnds \/ DrainAgain
  BY <1>4, StillCalm DEF DropEdge, PushIdle, StepDemand, StepStabilize, StepLimit, DrainEnds,
                         DrainAgain, storeVars
<1>5. QED  BY <1>1, <1>2, <1>3, <1>4 DEF Work

\* A write of the caller: the regions that read the slot are to run.
Writes == \E n \in Live, v \in T : MarkDirty(n) /\ cache' = Stored(n, v) /\ UNCHANGED <<kind, idx>>

LEMMA WriteCalm ==
  ASSUME BaseInv, CacheCoherent, NEW n \in Uid, NEW v \in T, WriteAndPush(n, v),
         value' = value => UNCHANGED regionVars, value' # value => MarkDirty(n)
  PROVE  Calm \/ Writes
<1>1. /\ n \in Live /\ cache' = Stored(n, v) /\ UNCHANGED <<kind, idx>>
      /\ value' = [value EXCEPT ![n] = v]
  BY DEF WriteAndPush, Write
<1>2. CASE value' = value
  <2>1. v = value[n]
    BY <1>1, <1>2 DEF BaseInv, TypeOK
  <2>2. idx[n] # 0 /\ cache[idx[n]] = v
    BY <1>1, <2>1 DEF CacheCoherent
  <2>3. \A s \in DOMAIN cache : cache'[s] = cache[s]
    BY <1>1, <2>2 DEF Stored
  <2>4. QED  BY <2>3 DEF Calm
<1>3. CASE value' # value
  BY <1>1, <1>3 DEF Writes
<1>4. QED  BY <1>2, <1>3

LEMMA EngineCallCalm ==
  ASSUME BaseInv, CacheCoherent, NEW c \in Calls, EngineCall(c)
  PROVE  Calm \/ Writes
<1>1. c \in IsaOp /\ Apply(c)
  BY EngineAssumption DEF EngineAssumption, EngineCall
<1>2. CASE c.op = "NodeCreate"
  <2>1. cache' = Append(cache, "Neg")
    BY <1>1, <1>2 DEF Apply, NodeCreate, Alloc
  <2>2. \A s \in DOMAIN cache : cache'[s] = cache[s]
    BY <2>1, LenProperties, AppendProperties DEF BaseInv, TypeOK, T
  <2>3. QED  BY <2>2 DEF Calm
<1>3. CASE c.op \in {"SetValue", "Reflect"}
  <2>1. (value' = value => UNCHANGED regionVars) /\ (value' # value => MarkDirty(c.node))
    BY <1>3 DEF EngineCall
  <2>2. c.node \in Uid
    BY <1>1, <1>3 DEF IsaOp
  <2>3. CASE c.op = "SetValue"
    <3>1. c.val \in T /\ WriteAndPush(c.node, c.val)
      BY <1>1, <2>3 DEF Apply, SetValue, IsaOp
    <3>2. QED  BY <2>1, <2>2, <3>1, WriteCalm
  <2>4. CASE c.op = "Reflect"
    <3>1. CASE ReflectMissing(c.node)
      BY <3>1, StillCalm DEF ReflectMissing, storeVars
    <3>2. CASE Reflect(c.node)
      <4>1. mv_neg(value[c.node]) \in T
        BY <2>2, TernaryType DEF BaseInv, TypeOK
      <4>2. WriteAndPush(c.node, mv_neg(value[c.node]))
        BY <3>2 DEF Reflect
      <4>3. PICK v \in T : WriteAndPush(c.node, v)
        BY <4>1, <4>2
      <4>4. QED  BY <2>1, <2>2, <4>3, WriteCalm
    <3>3. QED  BY <1>1, <2>4, <3>1, <3>2 DEF Apply
  <2>5. QED  BY <1>3, <2>3, <2>4
<1>4. CASE c.op \in {"Stabilize", "StabilizeAll"}
  <2>1. PICK seeds : Stabilize(seeds)
    BY <1>1, <1>4 DEF Apply
  <2>2. UNCHANGED <<kind, idx>> /\ (UNCHANGED cache \/ \E M \in SectionRegions(seeds), v \in T : Resolve(M, v))
    BY <2>1 DEF Stabilize, Unresolved
  <2>3. QED  BY <2>2, MembersLive, ResolveCalm, StillCalm DEF BaseInv
<1>5. CASE c.op \notin {"NodeCreate", "SetValue", "Reflect", "Stabilize", "StabilizeAll"}
  <2>1. UNCHANGED cache
    BY <1>1, <1>5 DEF Apply, EdgeConnect, SubscribeOp, Request, DelNode, DelEdge, SetMode, storeVars
  <2>2. QED  BY <2>1, StillCalm
<1>6. QED  BY <1>2, <1>3, <1>4, <1>5

\* Between two runs of regions.
LEMMA StepCalm ==
  ASSUME TierInv, CacheCoherent, TierNext
  PROVE  Calm \/ Writes \/ RegionStep
<1>1. BaseInv
  BY DEF TierInv
<1>2. CASE TierCall
  <2>1. (\E c \in Calls : EngineCall(c)) \/ UNCHANGED cache
    BY <1>2 DEF TierCall, Calling, Declare, Configure, RegionDeclare, vars, storeVars
  <2>2. QED  BY <1>1, <2>1, EngineCallCalm, StillCalm
<1>3. CASE TierWork
  <2>1. \/ Work \/ PushReadyTo(Refused) \/ PushConflictedTo(Refused) \/ RegionStep
        \/ UNCHANGED cache
    BY <1>3 DEF TierWork, DeleteStep, WarmStep, DrainEnd, Work, GatedReady, GatedConflicted, SkipHandled
  <2>2. QED  BY <1>1, <2>1, WorkCalm, PushesCalm, StillCalm
<1>4. QED  BY <1>2, <1>3 DEF TierNext

-----------------------------------------------------------------------------
(* The circuits keep up with their inputs *)

LEMMA FollowsSame ==
  ASSUME NEW r, NEW i, NEW store, NEW other, FollowsAt(r, i, store),
         other[r.outputs[i]] = store[r.outputs[i]],
         \A s \in ToSet(r.rows[i]) : store[s] = other[s]
  PROVE  FollowsAt(r, i, other)
<1>1. Gathered(r.rows[i], store) = Gathered(r.rows[i], other)
  BY GatheredSame
<1>2. QED  BY <1>1 DEF FollowsAt

\* A node that feeds the artifact after a step fed it before.
LEMMA FedBefore ==
  ASSUME TypeOK, SlotsDistinct, TierNext, NEW r, WiredTo(r, DOMAIN cache), Fed(r)'
  PROVE  Fed(r)
<1> SUFFICES ASSUME NEW s \in r.inputs PROVE \E n \in Live : kind[n] = "Input" /\ idx[n] = s
  BY DEF Fed
<1>1. PICK m \in Uid : kind'[m] = "Input" /\ idx'[m] = s
  BY DEF Fed, Live
<1>2. s \in 1 .. Len(cache) /\ Len(cache) \in Nat
  BY LenProperties DEF WiredTo, TypeOK
<1>3. kind[m] = "Input" /\ idx[m] = s
  BY <1>1, <1>2, InputsOld
<1>4. QED  BY <1>3 DEF Live, Absent

LEMMA FedCalm ==
  ASSUME Calm, NEW r, WiredTo(r, DOMAIN cache), Fed(r)', NEW s \in r.inputs
  PROVE  cache'[s] = cache[s]
<1>1. PICK m \in Uid : kind'[m] = "Input" /\ idx'[m] = s
  BY DEF Fed, Live
<1>2. s \in DOMAIN cache
  BY DEF WiredTo
<1>3. QED  BY <1>1, <1>2 DEF Calm

\* What a row of an artifact that nobody meddles with reads.
LEMMA ReadsKept ==
  ASSUME NEW r, WiredTo(r, DOMAIN cache), Layered(r), NEW i \in 1 .. Len(r.members),
         NEW s \in ToSet(r.rows[i]), cache'[s] # cache[s],
         \A j \in 1 .. Len(r.members) : cache'[r.outputs[j]] = cache[r.outputs[j]]
  PROVE  s \in r.inputs
<1>1. s \in r.inputs \cup ToSet(r.outputs)
  BY DEF Layered
<1>2. CASE s \in ToSet(r.outputs)
  BY <1>2, WiredRows DEF ToSet
<1>3. QED  BY <1>1, <1>2

LEMMA CalmFollows ==
  ASSUME Calm, NEW r, WiredTo(r, DOMAIN cache), Layered(r), Fed(r)',
         \A j \in 1 .. Len(r.members) : cache'[r.outputs[j]] = cache[r.outputs[j]],
         NEW i \in 1 .. Len(r.members), FollowsAt(r, i, cache)
  PROVE  FollowsAt(r, i, cache')
<1>1. ASSUME NEW s \in ToSet(r.rows[i]) PROVE cache'[s] = cache[s]
  BY FedCalm, ReadsKept
<1>2. PICK store : store = cache
  OBVIOUS
<1>3. PICK other : other = cache'
  OBVIOUS
<1>4. FollowsAt(r, i, other)
  BY <1>1, <1>2, <1>3, FollowsSame
<1>5. QED  BY <1>3, <1>4

\* The row is to run if it reads what the caller has written.
LEMMA WriteFollows ==
  ASSUME NEW n \in Uid, NEW v, MarkDirty(n), cache' = Stored(n, v),
         NEW r, WiredTo(r, DOMAIN cache), Layered(r),
         NEW root \in Uid, r.inputs \X {root} \subseteq reads,
         \A j \in 1 .. Len(r.members) : cache'[r.outputs[j]] = cache[r.outputs[j]],
         NEW i \in 1 .. Len(r.members), FollowsAt(r, i, cache)
  PROVE  \/ FollowsAt(r, i, cache')
         \/ root \in dirty' /\ ToSet(r.rows[i]) \cap dirtySlots' # {}
<1>1. CASE \A s \in ToSet(r.rows[i]) : cache'[s] = cache[s]
  <2>1. PICK store : store = cache
    OBVIOUS
  <2>2. PICK other : other = cache'
    OBVIOUS
  <2>3. FollowsAt(r, i, other)
    BY <1>1, <2>1, <2>2, FollowsSame
  <2>4. QED  BY <2>2, <2>3
<1>2. ASSUME NEW s \in ToSet(r.rows[i]), cache'[s] # cache[s]
      PROVE  root \in dirty' /\ ToSet(r.rows[i]) \cap dirtySlots' # {}
  <2>1. s \in r.inputs
    BY <1>2, ReadsKept
  <2>2. s = idx[n]
    <3>1. s \in DOMAIN cache
      BY <2>1 DEF WiredTo
    <3>2. QED  BY <1>2, <3>1 DEF Stored
  <2>3. root \in dirty'
    BY <2>1, <2>2 DEF MarkDirty
  <2>4. dirtySlots' = {s}
    BY <2>2, <2>3 DEF MarkDirty
  <2>5. QED  BY <1>2, <2>3, <2>4
<1>3. QED  BY <1>1, <1>2

\* Another region runs: it writes no input, and what was dirty stays dirty.
LEMMA OtherFollows ==
  ASSUME TierInv, NEW other, RunRegion(other), Spares(regions[other]),
         NEW r, WiredTo(r, DOMAIN cache), Layered(r), Fed(r), NEW root, root # other,
         \A j \in 1 .. Len(r.members) : cache'[r.outputs[j]] = cache[r.outputs[j]],
         NEW i \in 1 .. Len(r.members),
         \/ FollowsAt(r, i, cache)
         \/ root \in dirty /\ ToSet(r.rows[i]) \cap dirtySlots # {}
  PROVE  \/ FollowsAt(r, i, cache')
         \/ root \in dirty' /\ ToSet(r.rows[i]) \cap dirtySlots' # {}
<1>1. /\ WiredTo(regions[other], DOMAIN cache) /\ Circuit(regions[other], RunRows(regions[other]))
      /\ cache' = RunRows(regions[other]).store
      /\ cache \in Seq(T) /\ dirtySlots \subseteq DOMAIN cache
  BY RunsWired
<1>2. PICK q : q = regions[other]
  OBVIOUS
<1>3. PICK st : st = RunRows(q)
  OBVIOUS
<1>4. Circuit(q, st) /\ cache' = st.store /\ Spares(q)
  BY <1>1, <1>2, <1>3
<1>5. ASSUME NEW s \in r.inputs PROVE cache'[s] = cache[s]
  <2> SUFFICES ASSUME cache'[s] # cache[s] PROVE FALSE
    OBVIOUS
  <2>1. s \in DOMAIN cache
    BY DEF WiredTo
  <2>2. PICK j \in 1 .. Len(q.members) : q.outputs[j] = s /\ q.rows[j] # <<>>
    BY <1>4, <2>1 DEF Circuit
  <2>3. PICK m \in Uid : kind[m] = "Input" /\ idx[m] = s
    BY DEF Fed, Live
  <2>4. QED  BY <1>4, <2>2, <2>3 DEF Spares
<1>6. ASSUME NEW s \in ToSet(r.rows[i]) PROVE cache'[s] = cache[s]
  BY <1>5, ReadsKept
<1>7. CASE FollowsAt(r, i, cache)
  <2>1. PICK before : before = cache
    OBVIOUS
  <2>2. FollowsAt(r, i, st.store)
    BY <1>4, <1>6, <1>7, <2>1, FollowsSame
  <2>3. QED  BY <1>4, <2>2
<1>8. CASE root \in dirty /\ ToSet(r.rows[i]) \cap dirtySlots # {}
  <2>1. root \in dirty' /\ dirtySlots' = RunRows(regions[other]).touched
    BY <1>8 DEF RunRegion
  <2>2. dirtySlots \subseteq dirtySlots'
    BY <1>1, <2>1, RunTouches
  <2>3. QED  BY <1>8, <2>1, <2>2
<1>9. QED  BY <1>7, <1>8

\* What is noted down of an artifact that is left alone.
LEMMA WaitsNext ==
  ASSUME ExactInv, FlowInv, TierNext, NEW root \in DOMAIN regions, ~Meddles(root),
         NEW r, r = regions[root], Fed(r) => Waits(root), Fed(r)'
  PROVE  \A i \in 1 .. Len(r.members) :
           \/ FollowsAt(r, i, cache')
           \/ root \in dirty' /\ ToSet(r.rows[i]) \cap dirtySlots' # {}
<1>1. /\ WiredTo(r, DOMAIN cache) /\ Layered(r) /\ r.inputs \X {root} \subseteq reads
      /\ TypeOK /\ SlotsDistinct /\ root \in Uid /\ TierInv /\ CacheCoherent
  BY DEF FlowInv, ExactInv, TierInv, BaseInv, RegionInv
<1>2. Fed(r)
  BY <1>1, FedBefore
<1>3. \A i \in 1 .. Len(r.members) :
        \/ FollowsAt(r, i, cache)
        \/ root \in dirty /\ ToSet(r.rows[i]) \cap dirtySlots # {}
  BY <1>2 DEF Waits
<1>4. root \notin dirty \ dirty' =>
        \A j \in 1 .. Len(r.members) : cache'[r.outputs[j]] = cache[r.outputs[j]]
  BY <1>1, WiredRows DEF Meddles
<1>5. CASE ~RegionStep
  <2>1. dirty = {}
    BY <1>1, <1>5 DEF TierNext, TierCall, Calling, TierWork, DeleteStep, WarmStep, DrainEnd,
                      TierInv, RegionInv, DropEdge, DropNode
  <2>2. \A j \in 1 .. Len(r.members) : cache'[r.outputs[j]] = cache[r.outputs[j]]
    BY <1>4, <2>1
  <2>3. \A i \in 1 .. Len(r.members) : FollowsAt(r, i, cache)
    BY <1>3, <2>1
  <2>4. CASE Calm
    BY <1>1, <2>2, <2>3, <2>4, CalmFollows
  <2>5. CASE Writes
    <3>1. PICK n \in Live, v \in T : MarkDirty(n) /\ cache' = Stored(n, v)
      BY <2>5 DEF Writes
    <3>2. n \in Uid
      BY DEF Live
    <3>3. QED  BY <1>1, <2>2, <2>3, <3>1, <3>2, WriteFollows
  <2>6. QED  BY <1>1, <1>5, <2>4, <2>5, StepCalm
<1>6. ASSUME NEW other, SkipRegion(other)
      PROVE  \A i \in 1 .. Len(r.members) :
               \/ FollowsAt(r, i, cache')
               \/ root \in dirty' /\ ToSet(r.rows[i]) \cap dirtySlots' # {}
  <2>1. cache' = cache /\ (root \in dirty => root \in dirty' /\ dirtySlots' = dirtySlots)
    BY <1>6 DEF SkipRegion, vars, storeVars
  <2>2. QED  BY <1>3, <2>1
<1>7. ASSUME NEW other \in dirty, RunRegion(other), other # root, NEW i \in 1 .. Len(r.members)
      PROVE  \/ FollowsAt(r, i, cache')
             \/ root \in dirty' /\ ToSet(r.rows[i]) \cap dirtySlots' # {}
  <2>1. root \notin dirty \ dirty' /\ other \in DOMAIN regions
    BY <1>7 DEF RunRegion
  <2>2. Spares(regions[other])
    BY <2>1 DEF FlowInv
  <2>3. QED  BY <1>1, <1>2, <1>3, <1>4, <1>7, <2>1, <2>2, OtherFollows
<1>8. CASE RunRegion(root)
  <2>1. /\ cache' = RunRows(regions[root]).store
        /\ cache \in Seq(T) /\ dirtySlots \subseteq DOMAIN cache
    BY <1>1, <1>8, RunsWired
  <2>2. Awaits(r)
    BY <1>3 DEF Awaits
  <2>3. \A i \in 1 .. Len(r.members) : FollowsAt(r, i, RunRows(r).store)
    BY <1>1, <2>1, <2>2, RunDone
  <2>4. QED  BY <2>1, <2>3
<1>9. QED  BY <1>5, <1>6, <1>7, <1>8 DEF RegionStep

LEMMA FollowNext ==
  ASSUME ExactInv, ExactInv', FlowInv, FollowInv, TierNext, Watch
  PROVE  FollowInv'
<1> SUFFICES ASSUME NEW root \in followed'
             PROVE  root \in DOMAIN regions' /\ ((Fed(regions[root]))' => (Waits(root))')
  BY DEF FollowInv
<1>1. /\ root \in DOMAIN regions'
      /\ \/ root \in followed /\ ~Meddles(root)
         \/ Quiescent' /\ Follows(regions'[root], cache')
  BY DEF Watch
<1>2. PICK r : r = regions'[root]
  OBVIOUS
<1>3. CASE root \in followed /\ ~Meddles(root)
  <2>1. root \in DOMAIN regions /\ r = regions[root] /\ (Fed(r) => Waits(root))
    BY <1>2, <1>3 DEF FollowInv, Meddles
  <2>2. ASSUME Fed(r)' PROVE (Waits(root))'
    <3>1. \A i \in 1 .. Len(r.members) :
            \/ FollowsAt(r, i, cache')
            \/ root \in dirty' /\ ToSet(r.rows[i]) \cap dirtySlots' # {}
      BY <1>3, <2>1, <2>2, WaitsNext
    <3>2. QED  BY <1>2, <3>1 DEF Waits
  <2>3. QED  BY <1>1, <1>2, <2>2 DEF Fed
<1>4. CASE Follows(regions'[root], cache')
  <2>1. WiredTo(r, DOMAIN cache')
    BY <1>1, <1>2 DEF ExactInv, TierInv, RegionInv
  <2>2. DOMAIN r.members = 1 .. Len(r.members)
    BY <2>1, WiredRows
  <2>3. \A i \in 1 .. Len(r.members) : FollowsAt(r, i, cache')
    BY <1>2, <1>4, <2>2 DEF Follows, FollowsAt
  <2>4. (Waits(root))'
    BY <1>2, <2>3 DEF Waits
  <2>5. QED  BY <1>1, <2>4
<1>5. QED  BY <1>1, <1>3, <1>4

FollowsInv == ExactInv /\ BareInv /\ FlowInv /\ FollowInv

LEMMA FollowsKept ==
  ASSUME FollowsInv, UNCHANGED <<tierVars, notes>>
  PROVE  FollowsInv'
<1>1. ExactInv'
  BY ExactKept DEF FollowsInv
<1>2. UNCHANGED <<kind, cache, idx, ordered, regions, reads, dirty, dirtySlots, followed>>
  BY DEF tierVars, notes, vars, graphVars, storeVars, depVars, regionVars
<1>3. BareInv' /\ FlowInv'
  BY <1>2 DEF FollowsInv, BareInv, FlowInv, Spares
<1>4. FollowInv'
  BY <1>2 DEF FollowsInv, FollowInv, Fed, Live, Waits
<1>5. QED  BY <1>1, <1>3, <1>4 DEF FollowsInv

\* An artifact whose rows followed when the engine was at rest follows whatever
\* is written to its inputs (run_compiled_region, mark_dirty): a run in the
\* order of the rows brings each of them up to date, whichever other regions
\* the write made dirty and in whichever order they run; provided that the
\* Input nodes are left without dependencies and no artifact outlives the slot
\* of a member.
THEOREM CircuitsFollow ==
  ASSUME Careful, NoStale, BareSources
  PROVE  WatchedSpec => []RowsFollow
<1>1. TierInit /\ WatchInit => FollowsInv
  <2> SUFFICES ASSUME TierInit, WatchInit PROVE FollowsInv
    OBVIOUS
  <2>1. DOMAIN regions = {} /\ followed = {}
    BY DEF TierInit, RegionInit, WatchInit
  <2>2. FlowInv /\ FollowInv
    BY <2>1 DEF FlowInv, FollowInv
  <2>3. QED  BY <2>2, ExactInit, BareInit DEF FollowsInv, TierInit
<1>2. FollowsInv /\ [TierNext /\ Watch]_<<tierVars, notes>> => FollowsInv'
  <2>1. ASSUME FollowsInv, TierNext, Watch PROVE FollowsInv'
    <3>1. ExactInv /\ BareInv /\ FlowInv /\ FollowInv /\ TypeOK /\ SlotsDistinct
      BY <2>1 DEF FollowsInv, ExactInv, TierInv, BaseInv
    <3>2. ExactInv' /\ BareInv' /\ FlowInv'
      BY <2>1, <3>1, ExactNext, BareNext, FlowNext
    <3>3. FollowInv'
      BY <2>1, <3>1, <3>2, FollowNext
    <3>4. QED  BY <3>2, <3>3 DEF FollowsInv
  <2>2. QED  BY <2>1, FollowsKept
<1>3. FollowsInv => RowsFollow
  <2> SUFFICES ASSUME FollowsInv, Quiescent, NEW root \in followed, Fed(regions[root])
               PROVE  Follows(regions[root], cache)
    BY DEF RowsFollow
  <2>1. /\ root \in DOMAIN regions /\ Waits(root) /\ dirty = {}
        /\ WiredTo(regions[root], DOMAIN cache)
    BY DEF FollowsInv, FollowInv, ExactInv, TierInv, RegionInv, Quiescent
  <2>2. DOMAIN regions[root].members = 1 .. Len(regions[root].members)
    BY <2>1, WiredRows
  <2>3. QED  BY <2>1, <2>2 DEF Waits, Follows, FollowsAt
<1>4. QED  BY <1>1, <1>2, <1>3, PTL DEF WatchedSpec
=============================================================================

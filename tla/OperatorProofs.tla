--------------------------- MODULE OperatorProofs ---------------------------
(***************************************************************************)
(* What holds of the engine's pure parts for any inputs.                   *)
(*                                                                         *)
(*   causal time  the order of timestamps and clocks, frontiers, what      *)
(*                projections cover, how the sensitivities compare, and    *)
(*                that the gate of a dependency is exact                   *)
(*   ternary      the tables, and the folds over lists of any length       *)
(*                                                                         *)
(* Frontiers and folds go over the elements of a finite set one by one.    *)
(* What they come to is shown by giving the function that the recursion    *)
(* describes in a closed form, and that there is no other (SameFold).      *)
(***************************************************************************)
EXTENDS CausalGate, TernaryCheck, FiniteSetTheorems, WellFoundedInduction, TLAPS

-----------------------------------------------------------------------------
(* Recursion over finite sets *)

\* The order of the numbers as a relation, to which the library's theorems on
\* well-founded orders apply.
LEMMA NatOrder ==
  \E R : /\ IsWellFoundedOn(R, Nat)
         /\ \A x, y \in Nat : <<x, y>> \in R <=> x < y
<1>1. \A x, y \in Nat : <<x, y>> \in OpToRel(<, Nat) <=> x < y
  BY DEF OpToRel
<1>2. QED  BY <1>1, NatLessThanWellFounded, Zenon

\* A set of numbers has a least one: what induction rests on.
LEMMA LeastNat ==
  ASSUME NEW S \in SUBSET Nat, S # {}
  PROVE  \E m \in S : \A k \in S : m <= k
<1>1. PICK R : /\ IsWellFoundedOn(R, Nat)
               /\ \A x, y \in Nat : <<x, y>> \in R <=> x < y
  BY NatOrder
<1>2. IsWellFoundedOn(R, Nat) /\ S \subseteq Nat /\ S # {}
  BY <1>1
<1>3. \E x \in S : \A y \in S : ~ (<<y, x>> \in R)
  BY <1>2, WFMin, Zenon
<1>4. PICK x \in S : \A y \in S : ~ (<<y, x>> \in R)
  BY <1>3
<1>5. x \in Nat /\ \A y \in S : y \in Nat /\ ~(y < x)
  BY <1>1, <1>4
<1>6. \A y \in S : x <= y
  BY <1>5
<1>7. QED  BY <1>6

\* On the subsets of D, two functions agree on the empty set, and on a set if
\* they agree without one of its elements.
AgreeUpwards(D, g, h) ==
  /\ g[{}] = h[{}]
  /\ \A s \in SUBSET D : s # {} => \E x \in s : g[s \ {x}] = h[s \ {x}] => g[s] = h[s]

\* Then they agree on every subset of a finite set.
LEMMA SameFold ==
  ASSUME NEW D, IsFiniteSet(D), NEW g, NEW h, AgreeUpwards(D, g, h)
  PROVE  \A s \in SUBSET D : g[s] = h[s]
<1>u. /\ g[{}] = h[{}]
      /\ \A s \in SUBSET D : s # {} => \E x \in s : g[s \ {x}] = h[s \ {x}] => g[s] = h[s]
  BY DEF AgreeUpwards
<1> DEFINE bad == {s \in SUBSET D : g[s] # h[s]}
           sizes == {Cardinality(s) : s \in bad}
<1>1. \A s \in SUBSET D : IsFiniteSet(s) /\ Cardinality(s) \in Nat
  BY FS_Subset, FS_CardinalityType
<1>2. SUFFICES ASSUME bad # {} PROVE FALSE
  OBVIOUS
<1>3. sizes \in SUBSET Nat /\ sizes # {}
  BY <1>1, <1>2
<1>4. PICK m \in sizes : \A k \in sizes : m <= k
  BY <1>3, LeastNat
<1>5. PICK s \in bad : m = Cardinality(s)
  BY <1>4
<1>6. s \in SUBSET D /\ s # {}
  BY <1>u, <1>5
<1>7. PICK x \in s : g[s \ {x}] = h[s \ {x}] => g[s] = h[s]
  BY <1>u, <1>6
<1>8. s \ {x} \in bad
  BY <1>5, <1>6, <1>7
<1>9. Cardinality(s \ {x}) = Cardinality(s) - 1
  BY <1>1, <1>6, <1>7, FS_RemoveElement
<1>10. Cardinality(s \ {x}) \in sizes /\ Cardinality(s) \in Nat
  BY <1>1, <1>6, <1>8
<1> HIDE DEF sizes, bad
<1>11. Cardinality(s) <= Cardinality(s \ {x})
  BY <1>4, <1>5, <1>10
<1>12. QED  BY <1>9, <1>10, <1>11

-----------------------------------------------------------------------------
(* The order of times *)

\* Dominance is a partial order of timestamps (time.rs: "The product order
\* gives a partial order").
THEOREM DominanceIsOrder ==
  /\ \A t \in Time : Dominates(t, t)
  /\ \A t, u \in Time : Dominates(t, u) /\ Dominates(u, t) => t = u
  /\ \A t, u, w \in Time : Dominates(t, u) /\ Dominates(u, w) => Dominates(t, w)
<1>1. \A t \in Time : Dominates(t, t)
  BY DEF Dominates, Time
<1>2. ASSUME NEW t \in Time, NEW u \in Time, Dominates(t, u), Dominates(u, t)
      PROVE  t = u
  <2>1. \A d \in Dim : t[d] = u[d]
    BY <1>2 DEF Dominates, Time
  <2> QED
    BY <2>1, <1>2 DEF Time
<1>3. ASSUME NEW t \in Time, NEW u \in Time, NEW w \in Time, Dominates(t, u), Dominates(u, w)
      PROVE  Dominates(t, w)
  BY <1>3 DEF Dominates, Time
<1> QED
  BY <1>1, <1>2, <1>3

\* Join and meet of timestamps are the least upper and the greatest lower
\* bound in that order (time.rs).
THEOREM TimesAreALattice ==
  \A t, u, w \in Time :
    /\ Dominates(w, JoinTime(t, u)) <=> Dominates(w, t) /\ Dominates(w, u)
    /\ Dominates(MeetTime(t, u), w) <=> Dominates(t, w) /\ Dominates(u, w)
<1> SUFFICES ASSUME NEW t \in Time, NEW u \in Time, NEW w \in Time
             PROVE  /\ Dominates(w, JoinTime(t, u)) <=> Dominates(w, t) /\ Dominates(w, u)
                    /\ Dominates(MeetTime(t, u), w) <=> Dominates(t, w) /\ Dominates(u, w)
  OBVIOUS
<1>1. \A d \in Dim : t[d] \in Nat /\ u[d] \in Nat /\ w[d] \in Nat
  BY DEF Time
<1>2. Dominates(w, JoinTime(t, u)) <=> Dominates(w, t) /\ Dominates(w, u)
  BY <1>1 DEF Dominates, JoinTime, Greatest
<1>3. Dominates(MeetTime(t, u), w) <=> Dominates(t, w) /\ Dominates(u, w)
  BY <1>1 DEF Dominates, MeetTime, Least
<1> QED
  BY <1>2, <1>3

Clock(Partition) == UNION {[Q -> Nat] : Q \in SUBSET Partition}

\* Merging clocks gives the least clock that dominates both, for clocks that
\* have heard of any partitions (time.rs: "component-wise max").
THEOREM MergeIsLeast ==
  ASSUME NEW P, NEW c \in Clock(P), NEW e \in Clock(P), NEW h \in Clock(P)
  PROVE  ClockDominates(h, ClockMerge(c, e)) <=> ClockDominates(h, c) /\ ClockDominates(h, e)
<1> DEFINE both == ClockMerge(c, e)
<1>1. /\ \A q \in DOMAIN c : c[q] \in Nat
      /\ \A q \in DOMAIN e : e[q] \in Nat
      /\ \A q \in DOMAIN h : h[q] \in Nat
  BY DEF Clock
<1>2. \A q : ClockGet(c, q) \in Nat /\ ClockGet(e, q) \in Nat /\ ClockGet(h, q) \in Nat
  BY <1>1 DEF ClockGet
<1>3. /\ DOMAIN both = DOMAIN c \cup DOMAIN e
      /\ \A q \in DOMAIN both : both[q] = Greatest(ClockGet(c, q), ClockGet(e, q))
  BY DEF ClockMerge
<1>4. ASSUME ClockDominates(h, both)
      PROVE  ClockDominates(h, c) /\ ClockDominates(h, e)
  <2>1. \A q \in DOMAIN c \cup DOMAIN e :
          ClockGet(h, q) >= ClockGet(c, q) /\ ClockGet(h, q) >= ClockGet(e, q)
    BY <1>2, <1>3, <1>4 DEF ClockDominates, Greatest
  <2>2. /\ \A q \in DOMAIN c : ClockGet(c, q) = c[q]
        /\ \A q \in DOMAIN e : ClockGet(e, q) = e[q]
    BY DEF ClockGet
  <2> QED
    BY <2>1, <2>2 DEF ClockDominates
<1>5. ASSUME ClockDominates(h, c), ClockDominates(h, e)
      PROVE  ClockDominates(h, both)
  <2>1. \A q \in DOMAIN c \cup DOMAIN e :
          ClockGet(h, q) >= ClockGet(c, q) /\ ClockGet(h, q) >= ClockGet(e, q)
    BY <1>2, <1>5 DEF ClockDominates, ClockGet
  <2> QED
    BY <1>2, <1>3, <2>1 DEF ClockDominates, Greatest
<1> QED
  BY <1>4, <1>5

\* Advancing a frontier keeps it an antichain, and what is behind it is what
\* was behind it before, and what the new time dominates (time.rs: "advance
\* the frontier to include t, maintaining the antichain invariant").
THEOREM AdvanceIsExact ==
  ASSUME NEW F \in SUBSET Time, Antichain(F), NEW t \in Time
  PROVE  /\ AdvanceFrontier(F, t) \in SUBSET Time
         /\ Antichain(AdvanceFrontier(F, t))
         /\ \A u \in Time : Behind(AdvanceFrontier(F, t), u) <=> Behind(F, u) \/ Dominates(t, u)
<1> DEFINE rest == {f \in F : ~Dominates(t, f)}
<1>1. CASE Behind(F, t)
  <2>1. AdvanceFrontier(F, t) = F
    BY <1>1 DEF AdvanceFrontier
  <2>2. ASSUME NEW u \in Time, Dominates(t, u)
        PROVE  Behind(F, u)
    BY <1>1, <2>2, DominanceIsOrder DEF Behind
  <2> QED
    BY <2>1, <2>2
<1>2. CASE ~Behind(F, t)
  <2>1. AdvanceFrontier(F, t) = rest \cup {t}
    BY <1>2 DEF AdvanceFrontier
  <2>2. \A f \in rest : ~Dominates(f, t) /\ ~Dominates(t, f)
    BY <1>2 DEF Behind
  <2>3. Antichain(rest \cup {t})
    BY <2>2 DEF Antichain
  <2>4. ASSUME NEW u \in Time, Behind(F, u)
        PROVE  Behind(rest \cup {t}, u)
    <3>1. PICK f \in F : Dominates(f, u)
      BY <2>4 DEF Behind
    <3>2. CASE Dominates(t, f)
      BY <3>1, <3>2, DominanceIsOrder DEF Behind
    <3>3. CASE ~Dominates(t, f)
      BY <3>1, <3>3 DEF Behind
    <3> QED
      BY <3>2, <3>3
  <2>5. \A u \in Time : Behind(rest \cup {t}, u) => Behind(F, u) \/ Dominates(t, u)
    BY DEF Behind
  <2>6. \A u \in Time : Dominates(t, u) => Behind(rest \cup {t}, u)
    BY DEF Behind
  <2> QED
    BY <2>1, <2>3, <2>4, <2>5, <2>6
<1> QED
  BY <1>1, <1>2

-----------------------------------------------------------------------------
(* What can be seen *)

\* Numbers of bits agree with inclusion in one direction.
LEMMA BitsGrow ==
  ASSUME NEW D \in SUBSET Dim, NEW E \in SUBSET Dim, E \subseteq D
  PROVE  Bits(D) >= Bits(E)
<1>1. \A d \in Dim : BitsOf(D, d) \in Nat /\ BitsOf(E, d) \in Nat /\ BitsOf(D, d) >= BitsOf(E, d)
  BY DEF BitsOf, Weight, Dim
<1> QED
  BY <1>1 DEF Bits, Dim

\* A projection that observes every change another one observes is said to
\* cover it, for other projections that observe anything (delta.rs: "covers at
\* least as much").  The converse fails, since the dimensions are compared as
\* numbers and no attributes of the other count as none.
THEOREM CoversIsComplete ==
  ASSUME NEW A, NEW out, out \notin A,
         NEW m \in Projection(A), NEW o \in Projection(A),
         o.dims # {}, o.shape # {},
         \A delta \in Delta(A \cup {out}) : Affects(o, delta) => Affects(m, delta)
  PROVE  Covers(m, o)
<1> DEFINE D(dims, attrs, shape) == [dims |-> dims, attrs |-> attrs, shape |-> shape]
<1>0. \A dims \in SUBSET Dim, attrs \in SUBSET (A \cup {out}), shape \in SUBSET Aspect :
        /\ D(dims, attrs, shape) \in Delta(A \cup {out})
        /\ D(dims, attrs, shape).dims = dims
        /\ D(dims, attrs, shape).attrs = attrs
        /\ D(dims, attrs, shape).shape = shape
  BY DEF Delta
<1>c. \A dims \in SUBSET Dim, attrs \in SUBSET (A \cup {out}), shape \in SUBSET Aspect :
        Affects(o, D(dims, attrs, shape)) => Affects(m, D(dims, attrs, shape))
  BY <1>0
<1>t. /\ m.dims \in SUBSET Dim /\ o.dims \in SUBSET Dim
      /\ m.attrs \in SUBSET A /\ o.attrs \in SUBSET A
      /\ m.shape \in (SUBSET Aspect) \cup {AnyShape}
      /\ o.shape \in (SUBSET Aspect) \cup {AnyShape}
      /\ AnyShape \notin SUBSET Aspect
  BY DEF Projection, AnyShape, Aspect
<1>s. PICK seen \in SUBSET Aspect : o.shape # AnyShape => o.shape \cap seen # {}
  <2>1. CASE o.shape = AnyShape
    BY <2>1
  <2>2. CASE o.shape # AnyShape
    BY <2>2, <1>t
  <2> QED
    BY <2>1, <2>2
<1>d. /\ o.dims \in SUBSET Dim
      /\ {} \in SUBSET (A \cup {out})
      /\ {} \in SUBSET Aspect
  BY <1>t
<1>1. o.dims \subseteq m.dims
  <2> SUFFICES ASSUME NEW d \in o.dims PROVE d \in m.dims
    OBVIOUS
  <2>1. Affects(o, D({d}, {}, seen))
    BY <1>0, <1>t, <1>s DEF Affects, Matches, AnyAttr
  <2>2. {d} \in SUBSET Dim
    BY <1>t
  <2>3. Affects(m, D({d}, {}, seen))
    BY <2>1, <2>2, <1>c, <1>d, <1>s
  <2> QED
    BY <2>3 DEF Affects
<1>2. m.attrs = AnyAttr \/ o.attrs \subseteq m.attrs
  <2> SUFFICES ASSUME m.attrs # {}, NEW a \in o.attrs PROVE a \in m.attrs
    BY DEF AnyAttr
  <2>0. {a} \in SUBSET (A \cup {out})
    BY <1>t
  <2>1. Affects(o, D(o.dims, {a}, seen))
    BY <2>0, <1>0, <1>t, <1>s DEF Affects, Matches, AnyAttr
  <2>2. Affects(m, D(o.dims, {a}, seen))
    BY <2>0, <2>1, <1>c, <1>d, <1>s
  <2> QED
    BY <2>2, <1>0, <1>t DEF Affects, Matches, AnyAttr
<1>3. m.shape # AnyShape => o.shape # AnyShape
  <2> SUFFICES ASSUME m.shape # AnyShape, o.shape = AnyShape PROVE FALSE
    OBVIOUS
  <2>1. Affects(o, D(o.dims, {}, {}))
    BY <1>0, <1>t DEF Affects, Matches, AnyAttr
  <2>2. Affects(m, D(o.dims, {}, {}))
    BY <2>1, <1>c, <1>d
  <2> QED
    BY <2>2, <1>0, <1>t DEF Affects
<1>4. m.shape # AnyShape => o.shape \subseteq m.shape
  <2> SUFFICES ASSUME m.shape # AnyShape, NEW a \in o.shape PROVE a \in m.shape
    OBVIOUS
  <2>0. a \in Aspect
    BY <1>3, <1>t
  <2>1. Affects(o, D(o.dims, {}, {a}))
    BY <2>0, <1>0, <1>t DEF Affects, Matches, AnyAttr
  <2>2. {a} \in SUBSET Aspect
    BY <2>0
  <2>3. Affects(m, D(o.dims, {}, {a}))
    BY <2>1, <2>2, <1>c, <1>d
  <2> QED
    BY <2>3 DEF Affects
<1> QED
  BY <1>1, <1>2, <1>3, <1>4, <1>t, BitsGrow DEF Covers

\* The projections with a name observe the deltas with a name that they are
\* for, and no others: a dependency on values is not woken by structure, and
\* one on structure sees both kinds of it (delta.rs).
THEOREM NamedMasksObserve ==
  \A kind \in {"attribute", "structural", "dependency", "egraph", "boundary"} :
    /\ Affects(wildcard, DeltaOf[kind])
    /\ Affects(attribute_only, DeltaOf[kind]) <=> kind = "attribute"
    /\ Affects(structural, DeltaOf[kind]) <=> kind \in {"structural", "dependency"}
    /\ Affects(boundary, DeltaOf[kind]) <=> kind = "boundary"
BY DEF Affects, Matches, wildcard, attribute_only, structural, boundary, DeltaOf, Mask,
       AnyShape, AnyAttr, Dim

\* Whatever a Monotone dependency reacts to, a StableOnly and an Edge one react
\* to as well, and an Exact one to all that its mask observes (sensitivity.rs).
THEOREM SensitivitiesCompare ==
  \A mask, delta, before, after :
    LET On(sensitivity) == Triggers(mask, sensitivity, delta, before, after)
    IN  /\ On("Monotone") <=> On("StableOnly") /\ Class(before) = "Pending"
        /\ On("Monotone") => On("Edge")
        /\ On("StableOnly") \/ On("Edge") => On("Exact")
BY DEF Triggers

-----------------------------------------------------------------------------
(* The gate *)

\* Clock and last_seen spell out what is news to a dependency.
Exact == \A d \in Dep : news[d] = {dim \in Dim : clock[dim] > meta[d].last_seen[dim]}

\* Nothing was seen that is yet to come.
SeenIsPast == \A d \in Dep : Dominates(clock, meta[d].last_seen)

GateInv == TypeOK /\ Exact /\ SeenIsPast

LEMMA TimeTyped ==
  /\ ZERO \in Time
  /\ \A t \in Time, dim \in Dim :
       /\ AdvanceTime(t, dim) \in Time
       /\ \A e \in Dim : AdvanceTime(t, dim)[e] = IF e = dim THEN t[e] + 1 ELSE t[e]
  /\ \A t, u \in Time : Dominates(t, u) => JoinTime(u, t) = t
<1>1. ZERO \in Time
  BY DEF ZERO, Time
<1>2. ASSUME NEW t \in Time, NEW dim \in Dim
      PROVE  /\ AdvanceTime(t, dim) \in Time
             /\ \A e \in Dim : AdvanceTime(t, dim)[e] = IF e = dim THEN t[e] + 1 ELSE t[e]
  BY DEF AdvanceTime, Time
<1>3. ASSUME NEW t \in Time, NEW u \in Time, Dominates(t, u)
      PROVE  JoinTime(u, t) = t
  <2>1. \A d \in Dim : Greatest(u[d], t[d]) = t[d]
    BY <1>3 DEF Dominates, Time, Greatest
  <2>2. JoinTime(u, t) = [d \in Dim |-> t[d]]
    BY <2>1 DEF JoinTime
  <2> QED
    BY <2>2 DEF Time
<1> QED
  BY <1>1, <1>2, <1>3

LEMMA GateInvInit == Init => GateInv
<1> SUFFICES ASSUME Init PROVE GateInv
  OBVIOUS
<1> USE GateAssumption
<1>1. TypeOK
  BY TimeTyped DEF Init, TypeOK, DepMeta, Fresh
<1>2. Exact
  BY DEF Init, Exact, Fresh, ZERO
<1>3. SeenIsPast
  BY DEF Init, SeenIsPast, Fresh, ZERO, Dominates
<1> QED
  BY <1>1, <1>2, <1>3 DEF GateInv

\* A push leaves nothing to see.
LEMMA PushedSees ==
  ASSUME NEW m \in DepMeta, NEW now \in Time, Dominates(now, m.last_seen)
  PROVE  /\ update_last_seen(m, now) \in DepMeta
         /\ update_last_seen(m, now).label = m.label
         /\ update_last_seen(m, now).last_seen = now
<1>1. m.last_seen \in Time
  BY DEF DepMeta
<1>2. JoinTime(m.last_seen, now) = now
  BY <1>1, TimeTyped
<1> QED
  BY <1>2 DEF update_last_seen, DepMeta

LEMMA GateInvNext == GateInv /\ [Next]_vars => GateInv'
<1> SUFFICES ASSUME GateInv, [Next]_vars PROVE GateInv'
  OBVIOUS
<1> USE GateAssumption DEF GateInv
<1>t. /\ clock \in Time /\ \A e \in Dim : clock[e] \in Nat
      /\ \A d \in Dep : /\ meta[d] \in DepMeta /\ meta[d].last_seen \in Time
                       /\ \A e \in Dim : /\ meta[d].last_seen[e] \in Nat
                                         /\ clock[e] >= meta[d].last_seen[e]
  BY DEF TypeOK, DepMeta, Time, SeenIsPast, Dominates
<1>1. ASSUME NEW dim \in Dim, Log(dim) PROVE GateInv'
  <2>1. clock' \in Time /\ \A e \in Dim : clock'[e] = IF e = dim THEN clock[e] + 1 ELSE clock[e]
    BY <1>1, <1>t, TimeTyped DEF Log
  <2>2. TypeOK'
    BY <1>1, <2>1 DEF Log, TypeOK
  <2>3. Exact'
    <3> SUFFICES ASSUME NEW d \in Dep
                 PROVE  news'[d] = {e \in Dim : clock'[e] > meta'[d].last_seen[e]}
      BY DEF Exact
    <3>1. news'[d] = news[d] \cup {dim} /\ meta' = meta
      BY <1>1 DEF Log
    <3>2. news[d] = {e \in Dim : clock[e] > meta[d].last_seen[e]}
      BY DEF Exact
    <3>3. \A e \in Dim : clock'[e] > meta[d].last_seen[e] <=> e \in news[d] \/ e = dim
      BY <1>t, <2>1, <3>2
    <3> QED
      BY <3>1, <3>2, <3>3
  <2>4. SeenIsPast'
    BY <1>1, <1>t, <2>1 DEF Log, SeenIsPast, Dominates
  <2> QED
    BY <2>2, <2>3, <2>4
<1>2. ASSUME NEW subs \in SUBSET Dep, Write(subs) PROVE GateInv'
  <2>0. "Attribute" \in Dim
    BY DEF Dim
  <2>1. /\ clock' \in Time
        /\ \A e \in Dim : clock'[e] = IF e = "Attribute" THEN clock[e] + 1 ELSE clock[e]
    BY <1>2, <1>t, <2>0, TimeTyped DEF Write
  <2>2. \A d \in Dep : Dominates(clock', meta[d].last_seen)
    BY <1>t, <2>1 DEF Dominates
  <2>3. \A d \in subs : /\ meta'[d] \in DepMeta /\ meta'[d].last_seen = clock'
                        /\ news'[d] = {}
    BY <1>2, <1>t, <2>1, <2>2, PushedSees DEF Write
  <2>4. \A d \in Dep \ subs : meta'[d] = meta[d] /\ news'[d] = news[d] \cup {"Attribute"}
    BY <1>2 DEF Write
  <2>5. TypeOK'
    <3>1. meta' \in [Dep -> DepMeta]
      BY <1>2, <1>t, <2>3, <2>4 DEF Write
    <3>2. news' \in [Dep -> SUBSET Dim]
      BY <1>2, <2>0 DEF Write, TypeOK
    <3>3. ticks' \in 0 .. MaxTicks
      BY <1>2 DEF Write, TypeOK
    <3> QED
      BY <2>1, <3>1, <3>2, <3>3 DEF TypeOK
  <2>6. Exact'
    <3> SUFFICES ASSUME NEW d \in Dep
                 PROVE  news'[d] = {e \in Dim : clock'[e] > meta'[d].last_seen[e]}
      BY DEF Exact
    <3>1. CASE d \in subs
      <4>1. \A e \in Dim : ~(clock'[e] > clock'[e])
        BY <2>1 DEF Time
      <4> QED
        BY <2>3, <3>1, <4>1
    <3>2. CASE d \notin subs
      <4>1. news[d] = {e \in Dim : clock[e] > meta[d].last_seen[e]}
        BY DEF Exact
      <4>2. \A e \in Dim : clock'[e] > meta[d].last_seen[e] <=> e \in news[d] \/ e = "Attribute"
        BY <1>t, <2>1, <4>1
      <4> QED
        BY <2>0, <2>4, <3>2, <4>1, <4>2
    <3> QED
      BY <3>1, <3>2
  <2>7. SeenIsPast'
    <3> SUFFICES ASSUME NEW d \in Dep PROVE Dominates(clock', meta'[d].last_seen)
      BY DEF SeenIsPast
    <3>1. CASE d \in subs
      BY <2>1, <2>3, <3>1, DominanceIsOrder
    <3>2. CASE d \notin subs
      BY <2>2, <2>4, <3>2
    <3> QED
      BY <3>1, <3>2
  <2> QED
    BY <2>5, <2>6, <2>7
<1>3. ASSUME NEW d \in Dep, Push(d) PROVE GateInv'
  <2>1. /\ meta'[d] \in DepMeta /\ meta'[d].last_seen = clock /\ news'[d] = {}
        /\ \A c \in Dep \ {d} : meta'[c] = meta[c] /\ news'[c] = news[c]
        /\ clock' = clock /\ ticks' = ticks
    BY <1>3, <1>t, PushedSees DEF Push, TypeOK, SeenIsPast
  <2>2. TypeOK'
    BY <1>3, <2>1 DEF Push, TypeOK
  <2>3. Exact'
    BY <1>t, <2>1 DEF Exact
  <2>4. SeenIsPast'
    BY <1>t, <2>1, DominanceIsOrder DEF SeenIsPast
  <2> QED
    BY <2>2, <2>3, <2>4
<1>4. ASSUME NEW d \in Dep, Connect(d) PROVE GateInv'
  <2>1. /\ meta'[d] = Fresh(wildcard) /\ news'[d] = {e \in Dim : clock[e] > 0}
        /\ \A c \in Dep \ {d} : meta'[c] = meta[c] /\ news'[c] = news[c]
        /\ clock' = clock /\ ticks' = ticks
    BY <1>4 DEF Connect, TypeOK
  <2>2. Fresh(wildcard) \in DepMeta /\ Fresh(wildcard).last_seen = ZERO
    BY TimeTyped DEF Fresh, DepMeta
  <2>3. TypeOK'
    BY <1>4, <2>1, <2>2 DEF Connect, TypeOK
  <2>4. Exact'
    BY <2>1, <2>2 DEF Exact, ZERO
  <2>5. SeenIsPast'
    BY <1>t, <2>1, <2>2 DEF SeenIsPast, Dominates, ZERO
  <2> QED
    BY <2>3, <2>4, <2>5
<1>5. ASSUME NEW d \in Dep, NEW l \in Label, SetLabel(d, l) PROVE GateInv'
  <2>1. /\ meta' = [meta EXCEPT ![d].label = l]
        /\ clock' = clock /\ ticks' = ticks /\ news' = news
    BY <1>5 DEF SetLabel
  <2>2. /\ meta' \in [Dep -> DepMeta]
        /\ \A c \in Dep : meta'[c].last_seen = meta[c].last_seen
    BY <2>1, <1>t DEF TypeOK, DepMeta
  <2>3. TypeOK'
    BY <2>1, <2>2 DEF TypeOK
  <2>4. Exact'
    BY <2>1, <2>2 DEF Exact
  <2>5. SeenIsPast'
    BY <2>1, <2>2 DEF SeenIsPast
  <2> QED
    BY <2>3, <2>4, <2>5
<1>6. CASE UNCHANGED gateVars
  <2>1. clock' = clock /\ meta' = meta /\ ticks' = ticks /\ news' = news
    BY <1>6 DEF gateVars
  <2> QED
    BY <2>1 DEF TypeOK, Exact, SeenIsPast
<1>7. FrontierNext => UNCHANGED gateVars
  BY DEF FrontierNext, TakeIn, JoinPlaces, MeetPlaces
<1>8. UNCHANGED vars => UNCHANGED gateVars
  BY DEF vars
<1> QED
  BY <1>1, <1>2, <1>3, <1>4, <1>5, <1>6, <1>7, <1>8 DEF Next, GateNext

\* The inductive invariant: a dependency's news are the dimensions in which
\* the clock is ahead of what it has seen, and it is behind in none.
THEOREM Invariance == Spec => []GateInv
<1>1. GateInv /\ UNCHANGED vars => GateInv'
  BY GateInvNext
<1> QED
  BY GateInvInit, GateInvNext, PTL DEF Spec

\* The gate of a dependency is exact, under any labels and any order of
\* writes, pushes, label changes and reconnects (deps.rs, should_propagate).
THEOREM GateIsExact == Spec => []GateTellsNews
<1>1. GateInv => GateTellsNews
  <2> SUFFICES ASSUME GateInv, NEW d \in Dep
               PROVE  should_propagate(meta[d]) <=> meta[d].label.dims \cap news[d] # {}
    BY DEF GateTellsNews
  <2>1. meta[d].label.dims \subseteq Dim
    BY GateAssumption DEF GateInv, TypeOK, DepMeta
  <2>2. news[d] = {dim \in Dim : clock[dim] > meta[d].last_seen[dim]}
    BY DEF GateInv, Exact
  <2> QED
    BY <2>1, <2>2 DEF should_propagate
<1> QED
  BY <1>1, Invariance, PTL

-----------------------------------------------------------------------------
(* The gates of module Engine *)

Closed == {d \in Dep : ~should_propagate(meta[d])}

DefaultLabels == \A d \in Dep : meta[d].label = wildcard

\* What a step does to the closed gates, with the default label everywhere.
GateStep ==
  /\ \A dim \in Dim : Log(dim) => Closed' = {}
  /\ \A subs \in SUBSET Dep : Write(subs) => Closed' = subs
  /\ \A d \in Dep : Push(d) => Closed' = Closed \cup {d}
  /\ \A d \in Dep : Connect(d) /\ clock # ZERO => Closed' = Closed \ {d}

GatesAreSeen == DefaultLabels /\ DefaultLabels' => GateStep

LEMMA ClosedAreSeen ==
  GateInv /\ DefaultLabels => Closed = {d \in Dep : news[d] = {}}
<1> SUFFICES ASSUME GateInv, DefaultLabels
             PROVE  Closed = {d \in Dep : news[d] = {}}
  OBVIOUS
<1>1. ASSUME NEW d \in Dep
      PROVE  should_propagate(meta[d]) <=> news[d] # {}
  <2>1. meta[d].label.dims = Dim
    BY DEF DefaultLabels, wildcard, Mask
  <2>2. news[d] = {dim \in Dim : clock[dim] > meta[d].last_seen[dim]}
    BY DEF GateInv, Exact
  <2> QED
    BY <2>1, <2>2 DEF should_propagate
<1> QED
  BY <1>1 DEF Closed

\* The closed gates are what module Engine keeps instead of clocks: a tick
\* opens them all, a write then closes those of the subscribers it pushes, a
\* push closes its own, and a new connection opens its own (engine.rs, log
\* and SetValue; propagate.rs, step_push).
THEOREM ClosedGatesAreSeen == Spec => [][GatesAreSeen]_vars
<1>1. ASSUME GateInv, GateInv'
      PROVE  GatesAreSeen
  <2> SUFFICES ASSUME DefaultLabels, DefaultLabels'
               PROVE  GateStep
    BY DEF GatesAreSeen
  <2>1. Closed = {d \in Dep : news[d] = {}}
    BY <1>1, ClosedAreSeen
  <2>2. Closed' = {d \in Dep : news'[d] = {}}
    <3>1. (GateInv /\ DefaultLabels => Closed = {d \in Dep : news[d] = {}})'
      BY ClosedAreSeen, PTL
    <3> QED
      BY <1>1, <3>1
  <2>3. ASSUME NEW dim \in Dim, Log(dim) PROVE Closed' = {}
    BY <2>2, <2>3 DEF Log
  <2>4. ASSUME NEW subs \in SUBSET Dep, Write(subs) PROVE Closed' = subs
    BY <2>2, <2>4 DEF Write
  <2>5. ASSUME NEW d \in Dep, Push(d) PROVE Closed' = Closed \cup {d}
    BY <1>1, <2>1, <2>2, <2>5 DEF Push, GateInv, TypeOK
  <2>6. ASSUME NEW d \in Dep, Connect(d), clock # ZERO PROVE Closed' = Closed \ {d}
    <3>1. {dim \in Dim : clock[dim] > 0} # {}
      BY <1>1, <2>6 DEF GateInv, TypeOK, Time, ZERO
    <3> QED
      BY <1>1, <2>1, <2>2, <2>6, <3>1 DEF Connect, GateInv, TypeOK
  <2> QED
    BY <2>3, <2>4, <2>5, <2>6 DEF GateStep
<1>2. GateInv /\ GateInv' => GatesAreSeen
  BY <1>1
<1> QED
  BY <1>2, Invariance, PTL

-----------------------------------------------------------------------------
(* Frontiers *)

\* The times of a set that no other of its times dominates.
Maximal(S) == {f \in S : \A g \in S : Dominates(g, f) => g = f}

\* In a finite set, each time is behind a maximal one.
LEMMA SomeMaximal ==
  ASSUME NEW S \in SUBSET Time, IsFiniteSet(S), NEW t \in S
  PROVE  \E f \in Maximal(S) : Dominates(f, t)
<1> DEFINE ahead(f) == {g \in S : Dominates(g, f)}
           sizes == {Cardinality(ahead(f)) : f \in ahead(t)}
<1>1. \A f \in S : IsFiniteSet(ahead(f)) /\ Cardinality(ahead(f)) \in Nat
  BY FS_Subset, FS_CardinalityType
<1>2. t \in ahead(t)
  BY DominanceIsOrder
<1>3. sizes \in SUBSET Nat /\ sizes # {}
  BY <1>1, <1>2
<1>4. PICK m \in sizes : \A k \in sizes : m <= k
  BY <1>3, LeastNat
<1>5. PICK f \in ahead(t) : m = Cardinality(ahead(f))
  BY <1>4
<1>6. f \in S /\ f \in Time /\ Dominates(f, t)
  BY <1>5
<1>7. ASSUME NEW g \in S, Dominates(g, f), g # f
      PROVE  FALSE
  <2>1. g \in ahead(t)
    BY <1>6, <1>7, DominanceIsOrder
  <2>2. ahead(g) \subseteq ahead(f)
    BY <1>6, <1>7, DominanceIsOrder
  <2>3. f \in ahead(f) /\ f \notin ahead(g)
    BY <1>6, <1>7, DominanceIsOrder
  <2>4. PICK A, B : A = ahead(g) /\ B = ahead(f)
    OBVIOUS
  <2>5. IsFiniteSet(B) /\ A \in SUBSET B /\ A # B
    BY <1>1, <1>6, <2>2, <2>3, <2>4
  <2>6. Cardinality(A) <= Cardinality(B) /\ Cardinality(A) # Cardinality(B)
    BY <2>5, FS_Subset
  <2>7. Cardinality(A) \in sizes /\ Cardinality(A) \in Nat /\ Cardinality(B) \in Nat
    BY <1>1, <1>6, <1>7, <2>1, <2>4
  <2> HIDE DEF sizes
  <2>8. Cardinality(B) <= Cardinality(A)
    BY <1>4, <1>5, <2>4, <2>7
  <2>9. QED  BY <2>6, <2>7, <2>8
<1>8. QED  BY <1>6, <1>7 DEF Maximal

\* What a finite set of times is ahead of, its maximal times are, and they are
\* an antichain; an antichain is its own.
LEMMA MaximalSaysAll ==
  ASSUME NEW S \in SUBSET Time, IsFiniteSet(S)
  PROVE  /\ Maximal(S) \in SUBSET Time /\ IsFiniteSet(Maximal(S)) /\ Antichain(Maximal(S))
         /\ \A u \in Time : Behind(Maximal(S), u) <=> Behind(S, u)
         /\ Antichain(S) => Maximal(S) = S
<1>1. Maximal(S) \subseteq S
  BY DEF Maximal
<1>2. Maximal(S) \in SUBSET Time /\ IsFiniteSet(Maximal(S))
  BY <1>1, FS_Subset
<1>3. Antichain(Maximal(S)) /\ (Antichain(S) => Maximal(S) = S)
  BY DEF Antichain, Maximal
<1>4. ASSUME NEW u \in Time, Behind(S, u)
      PROVE  Behind(Maximal(S), u)
  <2>1. PICK g \in S : Dominates(g, u)
    BY <1>4 DEF Behind
  <2>2. PICK f \in Maximal(S) : Dominates(f, g)
    BY SomeMaximal
  <2>3. Dominates(f, u)
    BY <1>2, <2>1, <2>2, DominanceIsOrder
  <2>4. QED  BY <2>2, <2>3 DEF Behind
<1>5. \A u \in Time : Behind(Maximal(S), u) => Behind(S, u)
  BY <1>1 DEF Behind
<1>6. QED  BY <1>2, <1>3, <1>4, <1>5

\* Advancing the maximal times of a set gives those of the set with the time.
LEMMA AdvanceMaximal ==
  ASSUME NEW S \in SUBSET Time, IsFiniteSet(S), NEW t \in Time
  PROVE  AdvanceFrontier(Maximal(S), t) = Maximal(S \cup {t})
<1>1. Behind(Maximal(S), t) <=> Behind(S, t)
  BY MaximalSaysAll
<1>2. CASE Behind(S, t)
  <2>1. PICK f \in S : Dominates(f, t)
    BY <1>2 DEF Behind
  <2>2. Maximal(S \cup {t}) \subseteq Maximal(S)
    BY <2>1 DEF Maximal
  <2>3. ASSUME NEW m \in Maximal(S), Dominates(t, m)
        PROVE  t = m
    <3>1. m \in Time /\ f \in Time /\ Dominates(f, m)
      BY <2>1, <2>3, DominanceIsOrder DEF Maximal
    <3>2. f = m
      BY <3>1 DEF Maximal
    <3>3. QED  BY <2>1, <2>3, <3>1, <3>2, DominanceIsOrder
  <2>4. Maximal(S) \subseteq Maximal(S \cup {t})
    BY <2>3 DEF Maximal
  <2>5. QED  BY <1>1, <1>2, <2>2, <2>4 DEF AdvanceFrontier
<1>3. CASE ~Behind(S, t)
  <2>1. \A f \in S : ~Dominates(f, t) /\ f # t
    BY <1>3, DominanceIsOrder DEF Behind
  <2>2. Maximal(S \cup {t}) = {f \in Maximal(S) : ~Dominates(t, f)} \cup {t}
    BY <2>1 DEF Maximal
  <2>3. QED  BY <1>1, <1>3, <2>2 DEF AdvanceFrontier
<1>4. QED  BY <1>2, <1>3

\* g advances frontier F by the times of any subset of D, in the fold's order.
Advances(F, D, g) ==
  g = [s \in SUBSET D |-> IF s = {} THEN F
         ELSE AdvanceFrontier(g[s \ {CHOOSE x \in s : TRUE}], CHOOSE x \in s : TRUE)]

\* The maximal times of the frontier and of those taken in do so.
LEMMA MaximalAdvances ==
  ASSUME NEW F \in SUBSET Time, IsFiniteSet(F), Antichain(F),
         NEW D \in SUBSET Time, IsFiniteSet(D)
  PROVE  Advances(F, D, [s \in SUBSET D |-> Maximal(F \cup s)])
<1>1. ASSUME NEW s \in SUBSET D, s # {}, NEW x \in s
      PROVE  Maximal(F \cup s) = AdvanceFrontier(Maximal(F \cup (s \ {x})), x)
  <2>1. PICK S : S = F \cup (s \ {x})
    OBVIOUS
  <2>2. IsFiniteSet(s \ {x})
    BY FS_Subset
  <2>3. S \in SUBSET Time /\ IsFiniteSet(S) /\ x \in Time
    BY <2>1, <2>2, FS_Union
  <2>4. F \cup s = S \cup {x}
    BY <2>1
  <2>5. QED  BY <2>1, <2>3, <2>4, AdvanceMaximal
<1>2. Maximal(F \cup {}) = F
  BY MaximalSaysAll
<1>3. QED  BY <1>1, <1>2 DEF Advances

\* A frontier that has taken in some times holds the maximal ones, in whatever
\* order it took them (time.rs, Frontier::join and meet).
LEMMA AdvancedIsMaximal ==
  ASSUME NEW F \in SUBSET Time, IsFiniteSet(F), Antichain(F),
         NEW D \in SUBSET Time, IsFiniteSet(D)
  PROVE  Advanced(F, D) = Maximal(F \cup D)
<1> DEFINE f == CHOOSE g : g = [s \in SUBSET D |-> IF s = {} THEN F
                  ELSE AdvanceFrontier(g[s \ {CHOOSE x \in s : TRUE}], CHOOSE x \in s : TRUE)]
<1>1. \A g : Advances(F, D, g) <=>
               g = [s \in SUBSET D |-> IF s = {} THEN F
                  ELSE AdvanceFrontier(g[s \ {CHOOSE x \in s : TRUE}], CHOOSE x \in s : TRUE)]
  BY DEF Advances
<1>2. PICK h : h = [s \in SUBSET D |-> Maximal(F \cup s)]
  OBVIOUS
<1>3. Advances(F, D, h)
  BY <1>2, MaximalAdvances
<1>4. Advances(F, D, f)
  BY <1>1, <1>3
<1>5. Advanced(F, D) = f[D]
  BY DEF Advanced, FoldSet, MapThenFoldSet
<1> HIDE DEF f
<1>6. AgreeUpwards(D, f, h)
  BY <1>3, <1>4 DEF AgreeUpwards, Advances
<1>7. f[D] = h[D]
  BY <1>6, SameFold
<1>8. QED  BY <1>2, <1>5, <1>7

\* The times that Frontier::meet takes in.
Meets(F, G) == {MeetTime(f, g) : f \in F, g \in G}

\* The meets of the times of two finite frontiers, which are ahead of what both
\* frontiers are ahead of.
LEMMA MeetsOfTimes ==
  ASSUME NEW F \in SUBSET Time, IsFiniteSet(F), NEW G \in SUBSET Time, IsFiniteSet(G),
         NEW M, M = Meets(F, G)
  PROVE  /\ M \in SUBSET Time /\ IsFiniteSet(M)
         /\ \A u \in Time : Behind(M, u) <=> Behind(F, u) /\ Behind(G, u)
<1> USE DEF Meets
<1>1. \A t, u \in Time : MeetTime(t, u) \in Time
  BY DEF MeetTime, Time, Least
<1>2. M \in SUBSET Time
  BY <1>1
<1>3. IsFiniteSet(M)
  <2>1. IsFiniteSet(F \X G)
    BY FS_Product
  <2>2. PICK pairs : pairs = F \X G
    OBVIOUS
  <2>3. PICK e : e = [p \in pairs |-> MeetTime(p[1], p[2])]
    OBVIOUS
  <2>4. e \in [pairs -> M]
    BY <2>2, <2>3
  <2>5. ASSUME NEW t \in M PROVE \E p \in pairs : e[p] = t
    <3>1. PICK f \in F, g \in G : t = MeetTime(f, g)
      OBVIOUS
    <3>2. <<f, g>> \in pairs /\ e[<<f, g>>] = t
      BY <2>2, <2>3, <3>1
    <3>3. QED  BY <3>2
  <2>6. e \in Surjection(pairs, M)
    BY <2>4, <2>5 DEF Surjection
  <2>7. QED  BY <2>1, <2>2, <2>6, FS_Surjection
<1>4. ASSUME NEW u \in Time
      PROVE  Behind(M, u) <=> Behind(F, u) /\ Behind(G, u)
  <2>1. \A f \in F, g \in G : Dominates(MeetTime(f, g), u) <=> Dominates(f, u) /\ Dominates(g, u)
    BY TimesAreALattice
  <2>2. Behind(M, u) <=> \E f \in F, g \in G : Dominates(MeetTime(f, g), u)
    BY DEF Behind
  <2>3. QED  BY <2>1, <2>2 DEF Behind
<1>5. QED  BY <1>2, <1>3, <1>4

\* A Frontier: finitely many times, none of which dominates another.
IsFrontier(F) == F \in SUBSET Time /\ IsFiniteSet(F) /\ Antichain(F)

\* Joining a frontier with another one, or meeting it, gives a frontier; what is
\* behind the join is behind one of them, what is behind the meet is behind both
\* (time.rs, Frontier::join and Frontier::meet).
THEOREM FrontiersAreALattice ==
  ASSUME NEW F, IsFrontier(F), NEW G, IsFrontier(G)
  PROVE  /\ IsFrontier(JoinFrontier(F, G)) /\ IsFrontier(MeetFrontier(F, G))
         /\ \A u \in Time :
              /\ Behind(JoinFrontier(F, G), u) <=> Behind(F, u) \/ Behind(G, u)
              /\ Behind(MeetFrontier(F, G), u) <=> Behind(F, u) /\ Behind(G, u)
<1>1. /\ F \in SUBSET Time /\ IsFiniteSet(F) /\ Antichain(F)
      /\ G \in SUBSET Time /\ IsFiniteSet(G)
  BY DEF IsFrontier
<1>2. PICK M : M = Meets(F, G)
  OBVIOUS
<1>3. /\ M \in SUBSET Time /\ IsFiniteSet(M)
      /\ \A u \in Time : Behind(M, u) <=> Behind(F, u) /\ Behind(G, u)
  BY <1>1, <1>2, MeetsOfTimes
<1>4. IsFiniteSet({}) /\ Antichain({}) /\ {} \in SUBSET Time
  BY FS_EmptySet DEF Antichain
<1>5. PICK S : S = F \cup G
  OBVIOUS
<1>6. S \in SUBSET Time /\ IsFiniteSet(S)
  BY <1>1, <1>5, FS_Union
<1>7. JoinFrontier(F, G) = Maximal(S)
  BY <1>1, <1>5, AdvancedIsMaximal DEF JoinFrontier
<1>8. MeetFrontier(F, G) = Maximal(M)
  <2>1. Advanced({}, M) = Maximal({} \cup M)
    BY <1>3, <1>4, AdvancedIsMaximal
  <2>2. {} \cup M = M
    OBVIOUS
  <2>3. QED  BY <1>2, <2>1, <2>2 DEF MeetFrontier, Meets
<1>9. \A u \in Time : Behind(S, u) <=> Behind(F, u) \/ Behind(G, u)
  BY <1>5 DEF Behind
<1>10. QED  BY <1>3, <1>6, <1>7, <1>8, <1>9, MaximalSaysAll DEF IsFrontier

\* The inductive invariant of frontiers: finite, and what is behind each is
\* what its place was told.
FrontierInv ==
  /\ DOMAIN frontier = Place /\ DOMAIN known = Place
  /\ \A p \in Place : /\ IsFrontier(frontier[p])
                      /\ known[p] = {t \in Reach : Behind(frontier[p], t)}

\* It holds of the empty frontiers.
LEMMA FrontierInvInit == Init => FrontierInv
<1>1. IsFrontier({}) /\ \A t : ~Behind({}, t)
  BY FS_EmptySet DEF IsFrontier, Antichain, Behind
<1>2. QED  BY <1>1 DEF Init, FrontierInv

\* Every step preserves it.
LEMMA FrontierInvNext == FrontierInv /\ [Next]_vars => FrontierInv'
<1> SUFFICES ASSUME FrontierInv, [Next]_vars PROVE FrontierInv'
  OBVIOUS
<1>r. Reach \subseteq Time
  BY GateAssumption
<1>f. /\ DOMAIN frontier = Place /\ DOMAIN known = Place
      /\ \A p \in Place : /\ IsFrontier(frontier[p])
                          /\ known[p] = {t \in Reach : Behind(frontier[p], t)}
  BY DEF FrontierInv
<1>1. ASSUME NEW p \in Place, NEW t \in Reach, TakeIn(p, t) PROVE FrontierInv'
  <2>1. IsFrontier(AdvanceFrontier(frontier[p], t))
    <3>1. AdvanceFrontier(frontier[p], t) \subseteq frontier[p] \cup {t}
      BY DEF AdvanceFrontier
    <3>2. IsFiniteSet(frontier[p] \cup {t})
      BY <1>f, FS_AddElement DEF IsFrontier
    <3>3. QED  BY <1>f, <1>r, <3>1, <3>2, FS_Subset, AdvanceIsExact DEF IsFrontier
  <2>2. \A u \in Reach : Behind(AdvanceFrontier(frontier[p], t), u)
                           <=> Behind(frontier[p], u) \/ Dominates(t, u)
    BY <1>f, <1>r, AdvanceIsExact DEF IsFrontier
  <2>3. /\ DOMAIN frontier' = Place /\ DOMAIN known' = Place
        /\ frontier'[p] = AdvanceFrontier(frontier[p], t)
        /\ known'[p] = known[p] \cup DownSet(t)
        /\ \A q \in Place \ {p} : frontier'[q] = frontier[q] /\ known'[q] = known[q]
    BY <1>f, <1>1 DEF TakeIn
  <2>4. known'[p] = {u \in Reach : Behind(frontier'[p], u)}
    BY <1>f, <2>2, <2>3 DEF DownSet
  <2>5. QED  BY <1>f, <2>1, <2>3, <2>4 DEF FrontierInv
<1>2. ASSUME NEW p \in Place, NEW q \in Place, JoinPlaces(p, q) PROVE FrontierInv'
  <2>1. /\ IsFrontier(JoinFrontier(frontier[p], frontier[q]))
        /\ \A u \in Reach : Behind(JoinFrontier(frontier[p], frontier[q]), u)
                              <=> Behind(frontier[p], u) \/ Behind(frontier[q], u)
    BY <1>f, <1>r, FrontiersAreALattice
  <2>2. /\ DOMAIN frontier' = Place /\ DOMAIN known' = Place
        /\ frontier'[p] = JoinFrontier(frontier[p], frontier[q])
        /\ known'[p] = known[p] \cup known[q]
        /\ \A c \in Place \ {p} : frontier'[c] = frontier[c] /\ known'[c] = known[c]
    BY <1>f, <1>2 DEF JoinPlaces
  <2>3. known'[p] = {u \in Reach : Behind(frontier'[p], u)}
    BY <1>f, <2>1, <2>2
  <2>4. QED  BY <1>f, <2>1, <2>2, <2>3 DEF FrontierInv
<1>3. ASSUME NEW p \in Place, NEW q \in Place, MeetPlaces(p, q) PROVE FrontierInv'
  <2>1. /\ IsFrontier(MeetFrontier(frontier[p], frontier[q]))
        /\ \A u \in Reach : Behind(MeetFrontier(frontier[p], frontier[q]), u)
                              <=> Behind(frontier[p], u) /\ Behind(frontier[q], u)
    BY <1>f, <1>r, FrontiersAreALattice
  <2>2. /\ DOMAIN frontier' = Place /\ DOMAIN known' = Place
        /\ frontier'[p] = MeetFrontier(frontier[p], frontier[q])
        /\ known'[p] = known[p] \cap known[q]
        /\ \A c \in Place \ {p} : frontier'[c] = frontier[c] /\ known'[c] = known[c]
    BY <1>f, <1>3 DEF MeetPlaces
  <2>3. known'[p] = {u \in Reach : Behind(frontier'[p], u)}
    BY <1>f, <2>1, <2>2
  <2>4. QED  BY <1>f, <2>1, <2>2, <2>3 DEF FrontierInv
<1>4. CASE UNCHANGED frontierVars
  BY <1>f, <1>4 DEF FrontierInv, frontierVars
<1>5. GateNext => UNCHANGED frontierVars
  BY DEF GateNext, Log, Write, Push, Connect, SetLabel
<1>6. UNCHANGED vars => UNCHANGED frontierVars
  BY DEF vars
<1>7. QED  BY <1>1, <1>2, <1>3, <1>4, <1>5, <1>6 DEF Next, FrontierNext

\* A frontier is an antichain and remembers exactly what it was told, however
\* it came about: by advancing, joining and meeting in any order (time.rs).
THEOREM FrontiersAreExact == Spec => []FrontierRemembers
<1>1. FrontierInv => FrontierRemembers
  BY DEF FrontierInv, FrontierRemembers, IsFrontier
<1>2. QED  BY <1>1, FrontierInvInit, FrontierInvNext, PTL DEF Spec

-----------------------------------------------------------------------------
(* Ternary tables *)

\* The lowest and the highest of some values.
LEMMA Ends ==
  ASSUME NEW S \in SUBSET T, S # {}
  PROVE  /\ Lowest(S) \in S /\ \A w \in S : Level[Lowest(S)] <= Level[w]
         /\ Highest(S) \in S /\ \A w \in S : Level[w] <= Level[Highest(S)]
<1>1. \A v \in T : Level[v] = IF v = "Neg" THEN -1 ELSE IF v = "Zero" THEN 0 ELSE 1
  BY DEF Level, T
<1>2. \E v \in S : \A w \in S : Level[v] <= Level[w]
  <2>1. CASE "Neg" \in S  BY <1>1, <2>1 DEF T
  <2>2. CASE "Neg" \notin S /\ "Zero" \in S  BY <1>1, <2>2 DEF T
  <2>3. CASE "Neg" \notin S /\ "Zero" \notin S
    <3>1. S = {"Pos"}
      BY <2>3 DEF T
    <3>2. QED  BY <1>1, <3>1 DEF T
  <2>4. QED  BY <2>1, <2>2, <2>3
<1>3. \E v \in S : \A w \in S : Level[w] <= Level[v]
  <2>1. CASE "Pos" \in S  BY <1>1, <2>1 DEF T
  <2>2. CASE "Pos" \notin S /\ "Zero" \in S  BY <1>1, <2>2 DEF T
  <2>3. CASE "Pos" \notin S /\ "Zero" \notin S
    <3>1. S = {"Neg"}
      BY <2>3 DEF T
    <3>2. QED  BY <1>1, <3>1 DEF T
  <2>4. QED  BY <2>1, <2>2, <2>3
<1>4. QED  BY <1>2, <1>3 DEF Lowest, Highest

\* The levels are -1, 0 and 1, one to each value.
LEMMA LevelsTellApart ==
  /\ \A v \in T : Level[v] \in -1..1
  /\ \A v, w \in T : Level[v] = Level[w] => v = w
  BY DEF Level, T

\* meet and join take the ends of two values (ternary.rs).
LEMMA EndsOfPairs ==
  \A x, y \in T : meet(x, y) = Lowest({x, y}) /\ join(x, y) = Highest({x, y})
<1> SUFFICES ASSUME NEW x \in T, NEW y \in T
             PROVE  meet(x, y) = Lowest({x, y}) /\ join(x, y) = Highest({x, y})
  OBVIOUS
<1>1. {x, y} \in SUBSET T /\ {x, y} # {}
  OBVIOUS
<1>2. /\ meet(x, y) \in {x, y} /\ Level[meet(x, y)] <= Level[x] /\ Level[meet(x, y)] <= Level[y]
      /\ join(x, y) \in {x, y} /\ Level[join(x, y)] >= Level[x] /\ Level[join(x, y)] >= Level[y]
  BY DEF meet, join, T, Level
<1>3. QED  BY <1>1, <1>2, Ends, LevelsTellApart

\* The library's Min and Max of two numbers.
LEMMA MinMaxOfPairs ==
  \A a, b \in Int : /\ Min({a, b}) = IF a <= b THEN a ELSE b
                    /\ Max({a, b}) = IF a >= b THEN a ELSE b
  BY DEF Min, Max

\* The tables of the binary operations are clamped arithmetic (ternary.rs).
LEMMA PairTables ==
  \A x, y \in T :
    LET plus == Level[x] + Level[y] + 1
        times == Level[x] + Level[y] - 1 IN
    /\ Level[mv_add(x, y)] = Min({1, plus})
    /\ Level[mv_mul(x, y)] = Max({-1, times})
    /\ mv_sub(x, y) = "Neg" <=> Level[x] <= Level[y]
    /\ mv_impl(x, y) = "Pos" <=> Level[x] <= Level[y]
<1> SUFFICES ASSUME NEW x \in T, NEW y \in T
             PROVE  /\ Level[mv_add(x, y)] = Min({1, Level[x] + Level[y] + 1})
                    /\ Level[mv_mul(x, y)] = Max({-1, Level[x] + Level[y] - 1})
                    /\ mv_sub(x, y) = "Neg" <=> Level[x] <= Level[y]
                    /\ mv_impl(x, y) = "Pos" <=> Level[x] <= Level[y]
  OBVIOUS
<1> DEFINE plus == Level[x] + Level[y] + 1
           times == Level[x] + Level[y] - 1
<1>1. plus \in Int /\ times \in Int
  BY LevelsTellApart
<1>2. /\ Level[mv_add(x, y)] = IF 1 <= plus THEN 1 ELSE plus
      /\ Level[mv_mul(x, y)] = IF -1 >= times THEN -1 ELSE times
  BY DEF Level, T, mv_add, mv_mul
<1>3. Min({1, plus}) = IF 1 <= plus THEN 1 ELSE plus
  BY <1>1, MinMaxOfPairs
<1>4. Max({-1, times}) = IF -1 >= times THEN -1 ELSE times
  BY <1>1, MinMaxOfPairs
<1>5. /\ mv_sub(x, y) = "Neg" <=> Level[x] <= Level[y]
      /\ mv_impl(x, y) = "Pos" <=> Level[x] <= Level[y]
  BY DEF Level, T, mv_add, mv_neg, mv_sub, mv_impl
<1>6. QED  BY <1>2, <1>3, <1>4, <1>5

\* The median is what the ends leave (ternary.rs).
LEMMA MedianTable ==
  \A x, y, z \in T :
    Level[median(x, y, z)] + Level[Lowest({x, y, z})] + Level[Highest({x, y, z})]
      = Level[x] + Level[y] + Level[z]
<1> SUFFICES ASSUME NEW x \in T, NEW y \in T, NEW z \in T
             PROVE  Level[median(x, y, z)] + Level[Lowest({x, y, z})] + Level[Highest({x, y, z})]
                      = Level[x] + Level[y] + Level[z]
  OBVIOUS
<1>1. {x, y, z} \in SUBSET T /\ {x, y, z} # {}
  OBVIOUS
<1> DEFINE low == meet(x, meet(y, z))
           high == join(x, join(y, z))
<1>2. /\ low \in {x, y, z} /\ \A w \in {x, y, z} : Level[low] <= Level[w]
      /\ high \in {x, y, z} /\ \A w \in {x, y, z} : Level[w] <= Level[high]
  BY DEF meet, join, T, Level
<1>3. low = Lowest({x, y, z}) /\ high = Highest({x, y, z})
  <2> HIDE DEF low, high
  <2>1. QED  BY <1>1, <1>2, Ends, LevelsTellApart
<1>4. Level[median(x, y, z)] + Level[low] + Level[high] = Level[x] + Level[y] + Level[z]
  BY DEF median, meet, join, T, Level
<1>5. QED  BY <1>3, <1>4

-----------------------------------------------------------------------------
(* Ternary folds *)

\* The last of a set of places.
LEMMA LastPlace ==
  ASSUME NEW n \in Nat, NEW s \in SUBSET (1..n), s # {}
  PROVE  Max(s) \in s /\ \A i \in s : i <= Max(s)
<1> DEFINE gaps == {n - i : i \in s}
<1>s. \A i \in s : i \in Nat /\ n - i \in Nat
  OBVIOUS
<1>1. gaps \in SUBSET Nat /\ gaps # {}
  BY <1>s
<1>2. PICK m \in gaps : \A k \in gaps : m <= k
  BY <1>1, LeastNat
<1>3. PICK l \in s : m = n - l
  BY <1>2
<1>4. ASSUME NEW i \in s PROVE l >= i
  <2>1. n - i \in gaps
    OBVIOUS
  <2> HIDE DEF gaps
  <2>3. n - l <= n - i
    BY <1>2, <1>3, <2>1
  <2>2. i \in Int /\ l \in Int /\ n \in Int
    BY <1>s
  <2>4. QED  BY <2>2, <2>3
<1>5. \E x \in s : \A y \in s : x >= y
  BY <1>4
<1>6. Max(s) \in s /\ \A y \in s : Max(s) >= y
  BY <1>5 DEF Max
<1>7. QED  BY <1>6

\* The operations that are folded over dependencies.
Fold == {"meet", "join", "bochvar_add"}

\* A binary operation, its identity, and what it makes of the places in s.
Op(o, x, y) == IF o = "meet" THEN meet(x, y) ELSE IF o = "join" THEN join(x, y)
               ELSE bochvar_add(x, y)
Base(o) == IF o = "meet" THEN "Pos" ELSE "Neg"
Over(o, seq, s) ==
  LET occurs(v) == \E i \in s : seq[i] = v
      first  == IF o = "meet" THEN "Neg" ELSE IF o = "join" THEN "Pos" ELSE "Zero"
      second == IF o = "bochvar_add" THEN "Pos" ELSE "Zero"
  IN  IF occurs(first) THEN first ELSE IF occurs(second) THEN second ELSE Base(o)

\* f iterates operation o over the places of seq, the last one last.
Iterates(o, seq, f) ==
  f = [s \in SUBSET DOMAIN seq |-> IF s = {} THEN Base(o)
                                   ELSE Op(o, f[s \ {Max(s)}], seq[Max(s)])]

\* A set of places of a list has a last one.
LEMMA LastOfPlaces ==
  ASSUME NEW seq \in Seq(T), NEW s \in SUBSET DOMAIN seq, s # {}
  PROVE  Max(s) \in s
<1>1. DOMAIN seq = 1..Len(seq) /\ Len(seq) \in Nat
  OBVIOUS
<1>2. PICK n \in Nat : n = Len(seq)
  BY <1>1
<1>3. s \in SUBSET (1..n)
  BY <1>1, <1>2
<1>4. QED  BY <1>3, LastPlace

\* The closed form of a fold satisfies its recursion.
LEMMA OverIterates ==
  ASSUME NEW seq \in Seq(T), NEW o \in Fold
  PROVE  Iterates(o, seq, [s \in SUBSET DOMAIN seq |-> Over(o, seq, s)])
<1>1. ASSUME NEW s \in SUBSET DOMAIN seq, s # {}
      PROVE  Over(o, seq, s) = Op(o, Over(o, seq, s \ {Max(s)}), seq[Max(s)])
  <2>1. PICK m : m = Max(s)
    OBVIOUS
  <2>2. m \in s /\ seq[m] \in T
    BY <1>1, <2>1, LastOfPlaces
  <2>3. CASE o = "meet"
    BY <2>1, <2>2, <2>3 DEF Over, Op, Base, meet, T
  <2>4. CASE o = "join"
    BY <2>1, <2>2, <2>4 DEF Over, Op, Base, join, T
  <2>5. CASE o = "bochvar_add"
    BY <2>1, <2>2, <2>5 DEF Over, Op, Base, bochvar_add, mv_add, T
  <2>6. QED  BY <2>3, <2>4, <2>5 DEF Fold
<1>2. Over(o, seq, {}) = Base(o)
  BY DEF Over
<1>3. QED  BY <1>1, <1>2 DEF Iterates

\* There is one iteration of an operation over a list.
LEMMA IterationsAgree ==
  ASSUME NEW seq \in Seq(T), NEW o \in Fold, NEW f, NEW g,
         Iterates(o, seq, f), Iterates(o, seq, g)
  PROVE  f[DOMAIN seq] = g[DOMAIN seq]
<1> DEFINE D == DOMAIN seq
<1>1. IsFiniteSet(D) /\ D \in SUBSET D
  BY FS_Interval
<1>2. f[{}] = g[{}]
  BY DEF Iterates
<1>3. ASSUME NEW s \in SUBSET D, s # {}
      PROVE  \E x \in s : f[s \ {x}] = g[s \ {x}] => f[s] = g[s]
  <2>1. /\ f[s] = Op(o, f[s \ {Max(s)}], seq[Max(s)])
        /\ g[s] = Op(o, g[s \ {Max(s)}], seq[Max(s)])
    BY <1>3 DEF Iterates
  <2>2. Max(s) \in s
    BY <1>3, LastOfPlaces
  <2>3. QED  BY <2>1, <2>2
<1>4. AgreeUpwards(D, f, g)
  BY <1>2, <1>3 DEF AgreeUpwards
<1> HIDE DEF D
<1>5. \A s \in SUBSET D : f[s] = g[s]
  BY <1>1, <1>4, SameFold
<1>6. QED  BY <1>1, <1>5 DEF D

\* What any iteration of an operation over a list comes to.
LEMMA IterationIsOver ==
  ASSUME NEW seq \in Seq(T), NEW o \in Fold, NEW f, Iterates(o, seq, f)
  PROVE  f[DOMAIN seq] = Over(o, seq, DOMAIN seq)
<1>1. PICK g : g = [s \in SUBSET DOMAIN seq |-> Over(o, seq, s)]
  OBVIOUS
<1>2. Iterates(o, seq, g)
  BY <1>1, OverIterates
<1>3. f[DOMAIN seq] = g[DOMAIN seq]
  BY <1>2, IterationsAgree
<1>4. QED  BY <1>1, <1>3

\* meet_all, which looks for values, is meet iterated (ternary.rs).
LEMMA MeetFolds ==
  ASSUME NEW seq \in Seq(T)
  PROVE  FoldLeft(meet, "Pos", seq) = meet_all(seq)
<1> DEFINE f == CHOOSE g : g = [s \in SUBSET DOMAIN seq |->
                   IF s = {} THEN "Pos" ELSE meet(g[s \ {Max(s)}], seq[Max(s)])]
<1>1. \A g : Iterates("meet", seq, g) <=>
               g = [s \in SUBSET DOMAIN seq |->
                      IF s = {} THEN "Pos" ELSE meet(g[s \ {Max(s)}], seq[Max(s)])]
  BY DEF Iterates, Op, Base
<1>2. \E g : Iterates("meet", seq, g)
  BY OverIterates DEF Fold
<1>3. Iterates("meet", seq, f)
  BY <1>1, <1>2
<1>4. FoldLeft(meet, "Pos", seq) = f[DOMAIN seq]
  BY DEF FoldLeft, MapThenFoldSet
<1> HIDE DEF f
<1>5. f[DOMAIN seq] = Over("meet", seq, DOMAIN seq)
  BY <1>3, IterationIsOver DEF Fold
<1>6. QED  BY <1>4, <1>5 DEF Over, Base, meet_all, Occurs

\* join_any is join iterated.
LEMMA JoinFolds ==
  ASSUME NEW seq \in Seq(T)
  PROVE  FoldLeft(join, "Neg", seq) = join_any(seq)
<1> DEFINE f == CHOOSE g : g = [s \in SUBSET DOMAIN seq |->
                   IF s = {} THEN "Neg" ELSE join(g[s \ {Max(s)}], seq[Max(s)])]
<1>1. \A g : Iterates("join", seq, g) <=>
               g = [s \in SUBSET DOMAIN seq |->
                      IF s = {} THEN "Neg" ELSE join(g[s \ {Max(s)}], seq[Max(s)])]
  BY DEF Iterates, Op, Base
<1>2. \E g : Iterates("join", seq, g)
  BY OverIterates DEF Fold
<1>3. Iterates("join", seq, f)
  BY <1>1, <1>2
<1>4. FoldLeft(join, "Neg", seq) = f[DOMAIN seq]
  BY DEF FoldLeft, MapThenFoldSet
<1> HIDE DEF f
<1>5. f[DOMAIN seq] = Over("join", seq, DOMAIN seq)
  BY <1>3, IterationIsOver DEF Fold
<1>6. QED  BY <1>4, <1>5 DEF Over, Base, join_any, Occurs

\* bochvar_fold_add, with its early exit, is bochvar_add iterated.
LEMMA BochvarFolds ==
  ASSUME NEW seq \in Seq(T)
  PROVE  FoldLeft(bochvar_add, "Neg", seq) = bochvar_fold_add(seq)
<1> DEFINE f == CHOOSE g : g = [s \in SUBSET DOMAIN seq |->
                   IF s = {} THEN "Neg" ELSE bochvar_add(g[s \ {Max(s)}], seq[Max(s)])]
<1>1. \A g : Iterates("bochvar_add", seq, g) <=>
               g = [s \in SUBSET DOMAIN seq |->
                      IF s = {} THEN "Neg" ELSE bochvar_add(g[s \ {Max(s)}], seq[Max(s)])]
  BY DEF Iterates, Op, Base
<1>2. \E g : Iterates("bochvar_add", seq, g)
  BY OverIterates DEF Fold
<1>3. Iterates("bochvar_add", seq, f)
  BY <1>1, <1>2
<1>4. FoldLeft(bochvar_add, "Neg", seq) = f[DOMAIN seq]
  BY DEF FoldLeft, MapThenFoldSet
<1> HIDE DEF f
<1>5. f[DOMAIN seq] = Over("bochvar_add", seq, DOMAIN seq)
  BY <1>3, IterationIsOver DEF Fold
<1>6. QED  BY <1>4, <1>5 DEF Over, Base, bochvar_fold_add, Occurs

\* The same values occur in a list read backwards.
LEMMA ReversedOccurs ==
  ASSUME NEW seq \in Seq(T)
  PROVE  Reverse(seq) \in Seq(T) /\ \A v : Occurs(v, Reverse(seq)) <=> Occurs(v, seq)
<1>1. PICK n \in Nat : n = Len(seq)
  OBVIOUS
<1>2. DOMAIN seq = 1..n /\ \A i \in 1..n : seq[i] \in T
  BY <1>1
<1>3. Reverse(seq) = [i \in 1..n |-> seq[(n - i) + 1]]
  BY <1>1 DEF Reverse
<1>4. \A i \in 1..n : (n - i) + 1 \in 1..n /\ (n - ((n - i) + 1)) + 1 = i
  OBVIOUS
<1>5. Reverse(seq) \in [1..n -> T]
  BY <1>2, <1>3, <1>4
<1>6. Reverse(seq) \in Seq(T)
  BY <1>5
<1>7. ASSUME NEW v PROVE Occurs(v, Reverse(seq)) <=> Occurs(v, seq)
  <2>1. DOMAIN Reverse(seq) = 1..n /\ \A i \in 1..n : Reverse(seq)[i] = seq[(n - i) + 1]
    BY <1>3
  <2>2. \A i \in 1..n : Reverse(seq)[(n - i) + 1] = seq[i]
    BY <1>4, <2>1
  <2>3. QED  BY <1>2, <1>4, <2>1, <2>2 DEF Occurs
<1>8. QED  BY <1>6, <1>7

\* The check goes over lists of ternary values.
LEMMA Checked == CheckSpec => [](vals \in Seq(T))
<1>1. CheckInit => vals \in Seq(T)
  BY DEF CheckInit
<1>2. vals \in Seq(T) /\ [CheckNext]_vals => (vals \in Seq(T))'
  BY DEF CheckNext
<1>3. QED  BY <1>1, <1>2, PTL DEF CheckSpec

\* The tables of ternary.rs are the clamped arithmetic its comments give, on any
\* values: mv_add, mv_mul, mv_sub, mv_impl, meet, join and median.
THEOREM TablesExact == CheckSpec => []TablesAreArithmetic
<1>1. vals \in Seq(T) => TablesAreArithmetic
  <2> SUFFICES ASSUME vals \in Seq(T) PROVE TablesAreArithmetic
    OBVIOUS
  <2>1. \A i \in DOMAIN vals : vals[i] \in T
    OBVIOUS
  <2>2. QED  BY <2>1, PairTables, EndsOfPairs, MedianTable DEF TablesAreArithmetic
<1>2. QED  BY <1>1, Checked, PTL

\* The folds are the binary operations iterated from their identities, over
\* dependency lists of any length and in either order (ternary.rs, meet_all,
\* join_any and bochvar_fold_add).
THEOREM FoldsExact == CheckSpec => []FoldsIterate
<1>1. vals \in Seq(T) => FoldsIterate
  <2> SUFFICES ASSUME vals \in Seq(T), NEW s \in {vals, Reverse(vals)}
               PROVE  /\ meet_all(vals) = FoldLeft(meet, "Pos", s)
                      /\ join_any(vals) = FoldLeft(join, "Neg", s)
                      /\ bochvar_fold_add(vals) = FoldLeft(bochvar_add, "Neg", s)
    BY DEF FoldsIterate
  <2>1. s \in Seq(T) /\ \A v : Occurs(v, s) <=> Occurs(v, vals)
    BY ReversedOccurs
  <2>2. /\ meet_all(s) = meet_all(vals) /\ join_any(s) = join_any(vals)
        /\ bochvar_fold_add(s) = bochvar_fold_add(vals)
    BY <2>1 DEF meet_all, join_any, bochvar_fold_add
  <2>3. /\ FoldLeft(meet, "Pos", s) = meet_all(s) /\ FoldLeft(join, "Neg", s) = join_any(s)
        /\ FoldLeft(bochvar_add, "Neg", s) = bochvar_fold_add(s)
    BY <2>1, MeetFolds, JoinFolds, BochvarFolds
  <2>4. QED  BY <2>2, <2>3
<1>2. QED  BY <1>1, Checked, PTL

\* On a Ready list of any length every rule with enough dependencies gives Pos,
\* or Neg if it negates or subtracts, and a list is Conflicted exactly if its
\* Bochvar fold is Zero (propagate.rs, propagation_state; node.rs, the rules).
THEOREM ReadyConfirms == CheckSpec => []ReadyRulesConfirm
<1>1. vals \in Seq(T) => ReadyRulesConfirm
  <2> SUFFICES ASSUME vals \in Seq(T) PROVE ReadyRulesConfirm
    OBVIOUS
  <2>1. propagation_state(vals) = "Conflicted" <=> bochvar_fold_add(vals) = "Zero"
    BY DEF propagation_state, bochvar_fold_add
  <2>2. ASSUME propagation_state(vals) = "Ready", vals # <<>>, NEW r \in Rules,
               Len(vals) >= Arity[r]
        PROVE  Eval(r, vals) = IF r \in {"MvNeg", "MvSub"} THEN "Neg" ELSE "Pos"
    <3>1. \A i \in DOMAIN vals : vals[i] = "Pos"
      BY <2>2 DEF propagation_state, Occurs, T
    <3>2. DOMAIN vals = 1..Len(vals) /\ Len(vals) \in Nat \ {0} /\ 1 \in DOMAIN vals
      BY <2>2
    <3>3. \A i \in 1..3 : Len(vals) >= i => vals[i] = "Pos"
      BY <3>1, <3>2
    <3>4. Arity[r] = IF r \in {"MeetAll", "JoinAny", "BochvarFold"} THEN 0
                     ELSE IF r \in {"Identity", "MvNeg"} THEN 1
                     ELSE IF r = "Merge" THEN 3 ELSE 2
      BY DEF Arity
    <3>5. /\ Arity[r] \in 0..3 /\ Len(vals) >= Arity[r] /\ ~(Len(vals) < Arity[r])
      BY <2>2, <3>2, <3>4
    <3>6. CASE r \in {"MeetAll", "JoinAny", "BochvarFold"}
      <4>1. /\ ~Occurs("Neg", vals) /\ ~Occurs("Zero", vals) /\ Occurs("Pos", vals)
        BY <3>1, <3>2 DEF Occurs
      <4>2. QED  BY <3>5, <3>6, <4>1 DEF Eval, meet_all, join_any, bochvar_fold_add
    <3>7. CASE r \notin {"MeetAll", "JoinAny", "BochvarFold"}
      <4>1. vals[1] = "Pos" /\ (Arity[r] >= 2 => vals[2] = "Pos")
              /\ (Arity[r] = 3 => vals[3] = "Pos")
        BY <3>2, <3>3, <3>4, <3>5, <3>7
      <4>2. r \in {"Identity", "MvNeg"} \/ Arity[r] >= 2
        BY <3>4, <3>7
      <4>3. QED
        BY <3>4, <3>5, <3>7, <4>1, <4>2
        DEF Eval, Rules, mv_neg, mv_add, mv_mul, mv_sub, merge, median, meet, join
    <3>8. QED  BY <3>6, <3>7
  <2>3. QED  BY <2>1, <2>2 DEF ReadyRulesConfirm
<1>2. QED  BY <1>1, Checked, PTL
=============================================================================

----------------------------- MODULE Causality -----------------------------
(***************************************************************************)
(* Causal time and what of a change can be seen: product timestamps,       *)
(* frontiers and vector clocks (core-rs/src/time.rs), deltas and the       *)
(* projections that observe them (delta.rs), the window and the gate of a  *)
(* dependency (deps.rs), and how an observer reacts (sensitivity.rs).      *)
(*                                                                         *)
(* A bit mask is the set of its bits.  An attribute path is a value; no    *)
(* paths at all stand for every path.                                      *)
(***************************************************************************)
EXTENDS Integers, FiniteSets, FiniteSetsExt

Dim == {"Identity", "Attribute", "Dependency", "Egraph", "Boundary"}

\* TimeDimSet::bits, the number whose bits the dimensions are.
Weight == [Identity |-> 1, Attribute |-> 2, Dependency |-> 4, Egraph |-> 8, Boundary |-> 16]
BitsOf(D, d) == IF d \in D THEN Weight[d] ELSE 0
Bits(D) == BitsOf(D, "Identity") + BitsOf(D, "Attribute") + BitsOf(D, "Dependency")
             + BitsOf(D, "Egraph") + BitsOf(D, "Boundary")

-----------------------------------------------------------------------------
(* Product timestamps *)

Time == [Dim -> Nat]
ZERO == [d \in Dim |-> 0]

Dominates(t, u) == \A d \in Dim : t[d] >= u[d]

Least(a, b) == IF a <= b THEN a ELSE b
Greatest(a, b) == IF a >= b THEN a ELSE b

MeetTime(t, u) == [d \in Dim |-> Least(t[d], u[d])]
JoinTime(t, u) == [d \in Dim |-> Greatest(t[d], u[d])]

AdvanceTime(t, dim) == [t EXCEPT ![dim] = @ + 1]

\* delta(): the first dimension, in the order of the code, that has advanced.
DeltaTime(prev, curr) ==
  LET order == <<"Identity", "Dependency", "Attribute", "Egraph">>
      grown == {i \in 1 .. 4 : curr[order[i]] > prev[order[i]]}
      dim == IF grown = {} THEN "Boundary"
             ELSE order[CHOOSE i \in grown : \A j \in grown : i <= j]
  IN  [dim |-> dim, counter |-> curr[dim]]

-----------------------------------------------------------------------------
(* Frontiers: the code keeps them as lists, whose order nothing reads. *)

Behind(F, t) == \E f \in F : Dominates(f, t)

Antichain(F) == \A f, g \in F : Dominates(f, g) => f = g

\* Mutant: what t dominates is kept.
AdvanceFrontier_keeps(F, t) == IF Behind(F, t) THEN F ELSE F \cup {t}

\* Frontier::advance.
AdvanceFrontier(F, t) ==
  IF Behind(F, t) THEN F ELSE {f \in F : ~Dominates(t, f)} \cup {t}

\* Frontier::join and Frontier::meet advance by one element after the other.
Advanced(F, times) == FoldSet(LAMBDA t, G : AdvanceFrontier(G, t), F, times)

JoinFrontier(F, G) == Advanced(F, G)
MeetFrontier(F, G) == Advanced({}, {MeetTime(f, g) : f \in F, g \in G})

\* A vector clock has an entry for the partitions it has heard of.
ClockGet(c, p) == IF p \in DOMAIN c THEN c[p] ELSE 0
ClockTick(c, p) ==
  [q \in DOMAIN c \cup {p} |-> IF q = p THEN ClockGet(c, p) + 1 ELSE c[q]]
ClockMerge(c, e) ==
  [q \in DOMAIN c \cup DOMAIN e |-> Greatest(ClockGet(c, q), ClockGet(e, q))]
ClockDominates(c, e) == \A q \in DOMAIN e : ClockGet(c, q) >= e[q]

-----------------------------------------------------------------------------
(* Deltas and projections *)

Aspect == {"eclass", "persistence", "emitted"}
AnyShape == {"any"}           \* a projection whose shape is None
AnyAttr == {}

Projection(Attr) ==
  [dims : SUBSET Dim, attrs : SUBSET Attr, shape : (SUBSET Aspect) \cup {AnyShape}]
Delta(Attr) == [dims : SUBSET Dim, attrs : SUBSET Attr, shape : SUBSET Aspect]

Mask(dims, shape) == [dims |-> dims, attrs |-> AnyAttr, shape |-> shape]

\* The projections and the deltas that have a constructor.
wildcard == Mask(Dim, AnyShape)
attribute_only == Mask({"Attribute"}, AnyShape)
structural == Mask({"Identity", "Dependency"}, {"persistence"})
boundary == Mask({"Boundary"}, {"emitted"})

DeltaOf == [attribute  |-> Mask({"Attribute"}, {}),
            structural |-> Mask({"Identity"}, {"persistence"}),
            dependency |-> Mask({"Dependency"}, {"persistence"}),
            egraph     |-> Mask({"Egraph"}, {"eclass"}),
            boundary   |-> Mask({"Boundary"}, {"emitted"})]

\* AttrPathSet::matches.
Matches(attrs, changed) == attrs = AnyAttr \/ changed = AnyAttr \/ attrs \cap changed # {}

Affects(mask, delta) ==
  /\ mask.dims \cap delta.dims # {}
  /\ Matches(mask.attrs, delta.attrs)
  /\ mask.shape # AnyShape => mask.shape \cap delta.shape # {}

\* ProjectionMask::covers compares the dimensions as numbers.
Covers(mask, other) ==
  /\ Bits(mask.dims) >= Bits(other.dims)
  /\ mask.attrs = AnyAttr \/ other.attrs \subseteq mask.attrs
  /\ mask.shape # AnyShape => other.shape # AnyShape /\ other.shape \subseteq mask.shape

-----------------------------------------------------------------------------
(* Reactions *)

Sensitivity == {"Exact", "Monotone", "StableOnly", "Edge"}

None == "none"        \* an Option that is None

\* VersionedState::class, from its val and its zero.
Class(state) ==
  CASE state.zero # None -> "Uncertain"
    [] state.zero = None /\ state.val # None -> "Definite"
    [] OTHER -> "Pending"

LessInformative(state, other) ==
  /\ state.val = None /\ state.zero = None
  /\ other.val # None \/ other.zero # None

\* A definite value and a typed Zero are knowledge of different kinds.
Comparable(state, other) ==
  LET onlyVal(s) == s.val # None /\ s.zero = None
      onlyZero(s) == s.val = None /\ s.zero # None
  IN  ~(onlyVal(state) /\ onlyZero(other)) /\ ~(onlyZero(state) /\ onlyVal(other))

StateDominates(state, other) ==
  /\ Comparable(state, other)
  /\ Dominates(state.time, other.time)
  /\ Covers(state.mask, other.mask)
  /\ ~LessInformative(state, other)

\* triggers_recompute.
Triggers(mask, sensitivity, delta, before, after) ==
  /\ Affects(mask, delta)
  /\ CASE sensitivity = "Exact"      -> TRUE
       [] sensitivity = "Monotone"   -> Class(before) = "Pending" /\ Class(after) = "Definite"
       [] sensitivity = "StableOnly" -> Class(after) = "Definite"
       [] sensitivity = "Edge"       -> Class(before) # Class(after)

\* stream.rs: what crosses a boundary instead of a bare value.
Emit(val, zero, pending) ==
  IF pending THEN [val |-> None, zero |-> None]
  ELSE IF zero # None THEN [val |-> None, zero |-> zero]
  ELSE [val |-> val, zero |-> None]
=============================================================================

---------------------------- MODULE DepRegistry ----------------------------
(***************************************************************************)
(* The subscription layer of the engine (core-rs/src/deps.rs).             *)
(*                                                                         *)
(* The code keeps the upstream set, the downstream set and the DepMeta of  *)
(* a (source, subscriber) pair in three maps that every operation updates  *)
(* together; they are the one relation `pairs` here.  Dependency lists     *)
(* are kept in connection order, with a parallel list of ValueStore slots  *)
(* and, per subscriber, a count of its dependencies by value.              *)
(*                                                                         *)
(* DepMeta.last_seen matters only through should_propagate.  With the      *)
(* default label, whose projection observes every dimension of the clock,  *)
(* the gate of a pair is closed exactly when the pair has been pushed      *)
(* since the clock last advanced; `seen` is the set of those pairs.        *)
(***************************************************************************)
EXTENDS Integers, Sequences, FiniteSets, SequencesExt, Ternary

CONSTANT Uid

VARIABLES
  pairs,                \* <<source, subscriber>>: deps, subs and dep_meta
  ordered,              \* ordered_deps: [Uid -> Seq(Uid)]
  indices,              \* ordered_dep_indices: [Uid -> Seq(slot)]
  modes,                \* execution mode of a node
  counters,             \* dep_counters: [Uid -> [T -> Nat]]
  seen                  \* pairs whose gate is closed until the next tick

depVars == <<pairs, ordered, indices, modes, counters, seen>>

ExecMode == {"Eager", "Lazy", "Stabilizing"}

Subs(n) == {s \in Uid : <<n, s>> \in pairs}
Deps(n) == {d \in Uid : <<d, n>> \in pairs}

-----------------------------------------------------------------------------
(* DepCounters *)

NoDeps == [v \in T |-> 0]

Total(c) == c["Neg"] + c["Zero"] + c["Pos"]

CounterAdd(c, v) == [c EXCEPT ![v] = @ + 1]

CounterRemove(c, v) == [c EXCEPT ![v] = IF @ = 0 THEN 0 ELSE @ - 1]

CounterUpdate(c, old, new) ==
  IF old = new THEN c ELSE CounterAdd(CounterRemove(c, old), new)

\* Mutant: a pending dependency hides a conflict.
EvalAggregate_neg_first(c) ==
  IF c["Neg"] > 0 THEN "Neg" ELSE IF c["Zero"] > 0 THEN "Zero" ELSE "Pos"

\* eval_aggregate: Zero wins, then Neg, then Pos.
EvalAggregate(c) ==
  IF c["Zero"] > 0 THEN "Zero" ELSE IF c["Neg"] > 0 THEN "Neg" ELSE "Pos"

\* Mutant: an infection is not counted.
Recount_not_on_infection(n, old, new) ==
  [s \in Uid |-> IF s \in Subs(n) /\ new # "Zero"
                 THEN CounterUpdate(counters[s], old, new) ELSE counters[s]]

\* The counters after update_dep_counter(sub, old, new) for every sub of n.
Recount(n, old, new) ==
  [s \in Uid |-> IF s \in Subs(n) THEN CounterUpdate(counters[s], old, new)
                 ELSE counters[s]]

-----------------------------------------------------------------------------
\* Mutants: no gate; no exception for demanded subscribers.
OpenSubs_ungated(n, demanded) ==
  {s \in Subs(n) : modes[s] = "Eager" \/ s \in demanded}

OpenSubs_eager_only(n, demanded) ==
  {s \in Subs(n) : <<n, s>> \notin seen /\ modes[s] = "Eager"}

\* Subscribers that accept a push from n: the gate of the pair is open and the
\* subscriber is Eager, or is in `demanded`.
OpenSubs(n, demanded) ==
  {s \in Subs(n) : /\ <<n, s>> \notin seen
                   /\ modes[s] = "Eager" \/ s \in demanded}

\* The enumerations of S in the order Before (one, when the order is total).
\* subs_vec lists the subscribers of a node by ascending id.
InOrder(S, Before(_, _)) ==
  {q \in [1 .. Cardinality(S) -> S] :
      \A i, j \in 1 .. Cardinality(S) : i < j => Before(q[i], q[j])}

-----------------------------------------------------------------------------
\* subscribe_with_meta_indexed, or subscribe when the source has no slot
\* (slot = 0), followed by add_dep_to_counter with the source's value.
Subscribe(src, sub, slot, v) ==
  /\ pairs' = pairs \cup {<<src, sub>>}
  /\ ordered' = [ordered EXCEPT ![sub] = Append(@, src)]
  /\ indices' = [indices EXCEPT ![sub] = IF slot = 0 THEN @ ELSE Append(@, slot)]
  /\ counters' = [counters EXCEPT ![sub] = CounterAdd(@, v)]

\* Position of the first occurrence of id in s, 0 when there is none.
FirstAt(s, id) == SelectInSeq(s, LAMBDA x : x = id)

\* s without its entry at i; an i outside s removes nothing.
Without(s, i) == IF i \in DOMAIN s THEN RemoveAt(s, i) ELSE s

\* Mutant: the slot of the dependency stays behind.
Unsubscribe_keeps_slot(src, sub, v) ==
  /\ pairs' = pairs \ {<<src, sub>>}
  /\ ordered' = [ordered EXCEPT ![sub] = Without(@, FirstAt(@, src))]
  /\ counters' = [counters EXCEPT ![sub] = CounterRemove(@, v)]
  /\ UNCHANGED indices

\* remove_dep_from_counter(sub, v) and then unsubscribe(src, sub).
Unsubscribe(src, sub, v) ==
  LET i == FirstAt(ordered[sub], src) IN
  /\ pairs' = pairs \ {<<src, sub>>}
  /\ ordered' = [ordered EXCEPT ![sub] = Without(@, i)]
  /\ indices' = [indices EXCEPT ![sub] = Without(@, i)]
  /\ counters' = [counters EXCEPT ![sub] = CounterRemove(@, v)]

\* Mutant: the subscribers of a deleted node are not told.
RemoveNode_unannounced(id) ==
  /\ pairs' = {p \in pairs : id \notin {p[1], p[2]}}
  /\ ordered' = [ordered EXCEPT ![id] = <<>>]
  /\ indices' = [indices EXCEPT ![id] = <<>>]
  /\ counters' = [counters EXCEPT ![id] = NoDeps]
  /\ modes' = [modes EXCEPT ![id] = "Eager"]

\* remove_node(id): subscribers lose one entry for id, and their counters
\* keep what id contributed.
RemoveNode(id) ==
  LET at(s) == IF s \in Subs(id) THEN FirstAt(ordered[s], id) ELSE 0 IN
  /\ pairs' = {p \in pairs : id \notin {p[1], p[2]}}
  /\ ordered' = [s \in Uid |-> IF s = id THEN <<>> ELSE Without(ordered[s], at(s))]
  /\ indices' = [s \in Uid |-> IF s = id THEN <<>> ELSE Without(indices[s], at(s))]
  /\ counters' = [counters EXCEPT ![id] = NoDeps]
  /\ modes' = [modes EXCEPT ![id] = "Eager"]
=============================================================================

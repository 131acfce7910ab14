----------------------------- MODULE CausalGate -----------------------------
(***************************************************************************)
(* The gate of every dependency in terms of product time: Engine::log      *)
(* advances one dimension of the clock per operation, DepMeta records when *)
(* a subscriber was last pushed and which dimensions its edge label        *)
(* observes, and should_propagate compares the two (core-rs/src/deps.rs).  *)
(* Module Engine has the default label only, for which one set of closed   *)
(* gates, emptied by every tick, says as much: here that is shown for any  *)
(* labels.                                                                 *)
(*                                                                         *)
(* Beside the gates, frontiers take in times, and join and meet.  Nothing  *)
(* connects the two but the clock.                                         *)
(***************************************************************************)
EXTENDS Causality

CONSTANTS
  Dep,          \* dependencies, <<source, subscriber>>
  Label,        \* projections that labels have
  Place,        \* where frontiers are kept
  Reach,        \* the times that frontiers take in, and all behind them
  MaxTicks      \* bound: operations logged

ASSUME GateAssumption ==
  /\ \A l \in Label : l.dims \subseteq Dim
  /\ wildcard \in Label
  /\ Reach \subseteq Time
  /\ MaxTicks \in Nat

VARIABLES
  clock,        \* Engine::causal_time
  meta,         \* dep_meta: the label and last_seen of a dependency
  ticks,        \* operations logged
  frontier,     \* a Frontier at each place
  news,         \* dimensions that ticked since a dependency was pushed
  known         \* the times a place has taken in, and all behind them

gateVars == <<clock, meta, ticks, news>>
frontierVars == <<frontier, known>>
vars == <<gateVars, frontierVars>>

DepMeta == [label : Label, last_seen : Time]

Fresh(label) == [label |-> label, last_seen |-> ZERO]

Init ==
  /\ clock = ZERO /\ ticks = 0
  /\ meta = [d \in Dep |-> Fresh(wildcard)]
  /\ news = [d \in Dep |-> {}]
  /\ frontier = [p \in Place |-> {}]
  /\ known = [p \in Place |-> {}]

\* Engine::log.
Log(dim) ==
  /\ ticks < MaxTicks
  /\ ticks' = ticks + 1
  /\ clock' = AdvanceTime(clock, dim)
  /\ news' = [d \in Dep |-> news[d] \cup {dim}]
  /\ UNCHANGED <<meta, frontierVars>>

should_propagate(m) == \E dim \in m.label.dims : clock[dim] > m.last_seen[dim]

\* Mutant: only what the label observes is seen.
update_last_seen_observed(m, now) ==
  [m EXCEPT !.last_seen = [dim \in Dim |-> IF dim \in m.label.dims
                             THEN Greatest(m.last_seen[dim], now[dim])
                             ELSE m.last_seen[dim]]]

update_last_seen(m, now) == [m EXCEPT !.last_seen = JoinTime(m.last_seen, now)]

\* step_push: the source pushes the subscriber through an open gate.
Push(d) ==
  /\ should_propagate(meta[d])
  /\ meta' = [meta EXCEPT ![d] = update_last_seen(meta[d], clock)]
  /\ news' = [news EXCEPT ![d] = {}]
  /\ UNCHANGED <<clock, ticks, frontierVars>>

\* SetValue and Reflect log the write and then push the subscribers of the
\* node without asking their gates, whatever their labels observe.
Write(subs) ==
  /\ ticks < MaxTicks
  /\ ticks' = ticks + 1
  /\ clock' = AdvanceTime(clock, "Attribute")
  /\ meta' = [d \in Dep |-> IF d \in subs THEN update_last_seen(meta[d], clock') ELSE meta[d]]
  /\ news' = [d \in Dep |-> IF d \in subs THEN {} ELSE news[d] \cup {"Attribute"}]
  /\ UNCHANGED frontierVars

\* set_compiled_label keeps what the dependency has seen.
SetLabel(d, label) ==
  /\ meta' = [meta EXCEPT ![d].label = label]
  /\ UNCHANGED <<clock, ticks, news, frontierVars>>

\* EdgeConnect and Subscribe start the dependency anew: all that ever
\* happened is news to it.
Connect(d) ==
  /\ meta' = [meta EXCEPT ![d] = Fresh(wildcard)]
  /\ news' = [news EXCEPT ![d] = {dim \in Dim : clock[dim] > 0}]
  /\ UNCHANGED <<clock, ticks, frontierVars>>

-----------------------------------------------------------------------------
DownSet(t) == {u \in Reach : Dominates(t, u)}

TakeIn(p, t) ==
  /\ frontier' = [frontier EXCEPT ![p] = AdvanceFrontier(@, t)]
  /\ known' = [known EXCEPT ![p] = @ \cup DownSet(t)]
  /\ UNCHANGED gateVars

JoinPlaces(p, q) ==
  /\ frontier' = [frontier EXCEPT ![p] = JoinFrontier(@, frontier[q])]
  /\ known' = [known EXCEPT ![p] = @ \cup known[q]]
  /\ UNCHANGED gateVars

MeetPlaces(p, q) ==
  /\ frontier' = [frontier EXCEPT ![p] = MeetFrontier(@, frontier[q])]
  /\ known' = [known EXCEPT ![p] = @ \cap known[q]]
  /\ UNCHANGED gateVars

-----------------------------------------------------------------------------
GateNext ==
  \/ \E dim \in Dim : Log(dim)
  \/ \E subs \in SUBSET Dep : Write(subs)
  \/ \E d \in Dep : Push(d) \/ Connect(d) \/ \E l \in Label : SetLabel(d, l)

FrontierNext ==
  \/ \E p \in Place, t \in Reach : TakeIn(p, t)
  \/ \E p, q \in Place : JoinPlaces(p, q) \/ MeetPlaces(p, q)

Next == GateNext \/ FrontierNext

Spec == Init /\ [][Next]_vars

-----------------------------------------------------------------------------
TypeOK ==
  /\ clock \in Time /\ ticks \in 0 .. MaxTicks
  /\ meta \in [Dep -> DepMeta]
  /\ news \in [Dep -> SUBSET Dim]

\* The gate of a dependency is open exactly if a dimension that its label
\* observes has advanced since its subscriber was last pushed, also when the
\* label was another one then, and whatever dimension that push was for
\* (deps.rs: "when current_time has advanced in at least one dimension that
\* the projection mask observes, relative to meta.last_seen").
GateTellsNews ==
  \A d \in Dep : should_propagate(meta[d]) <=> meta[d].label.dims \cap news[d] # {}

\* A frontier is an antichain that remembers exactly what it was told: the
\* times behind it are those taken in and all before them; through join and
\* meet they are united and intersected (time.rs: "Invariant: no element
\* dominates any other in the set").
FrontierRemembers ==
  \A p \in Place : /\ Antichain(frontier[p])
                   /\ known[p] = {t \in Reach : Behind(frontier[p], t)}
=============================================================================

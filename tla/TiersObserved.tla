--------------------------- MODULE TiersObserved ---------------------------
(***************************************************************************)
(* Regions with what a bystander notes down: where queued work came from,  *)
(* which nodes were ever compiled, which artifacts followed their inputs   *)
(* when the engine was at rest, and what the stabilizer has done.          *)
(***************************************************************************)
EXTENDS Regions, Stabilized

VARIABLES
  origin,       \* nodes queued otherwise than by the push of a warm step
  compiled,     \* nodes that were a member of an artifact at some time
  followed      \* roots whose artifact, when it was last made or meddled with
                \* or later, had an engine at rest in which every row followed

notes == <<origin, compiled, followed, stabilizer>>

Queued(items) == {items[i].node : i \in {j \in DOMAIN items : items[j].op # "Stabilize"}}

\* The warm tier takes a push.
Answers == pc = "drain" /\ dirty = {} /\ queue # <<>> /\ Head(queue).op = "Push"

\* Every row of the artifact is what its rule makes of its dependencies.
Follows(r, store) ==
  \A i \in DOMAIN r.members :
    Len(r.rows[i]) >= Arity[r.rules[i]] =>
      store[r.outputs[i]] = Eval(r.rules[i], Gathered(r.rows[i], store))

\* The artifact at r is replaced, or one of its outputs changes otherwise than
\* by running it: the warm tier answers a push to a member, say.
Meddles(r) ==
  \/ r \notin DOMAIN regions \/ regions[r] # regions'[r]
  \/ /\ r \notin dirty \ dirty'
     /\ \E i \in DOMAIN regions[r].outputs :
          cache'[regions[r].outputs[i]] # cache[regions[r].outputs[i]]

Watch ==
  /\ origin' = IF Answers THEN origin
               ELSE IF pc = "idle" \/ pc' = "idle" THEN Queued(queue')
               ELSE origin \cup (Queued(queue') \ Queued(queue))
  /\ compiled' = compiled \cup UNION {ToSet(regions'[r].members) : r \in DOMAIN regions'}
  /\ followed' = {r \in DOMAIN regions' : \/ r \in followed /\ ~Meddles(r)
                                          \/ Quiescent' /\ Follows(regions'[r], cache')}
  /\ Traces

WatchInit == origin = {} /\ compiled = {} /\ followed = {} /\ stabilizer = "unused"

WatchedSpec ==
  /\ TierInit /\ WatchInit
  /\ [][TierNext /\ Watch]_<<tierVars, notes>>

-----------------------------------------------------------------------------
\* What a push step is told of the dependencies of a node that no artifact
\* ever had as a member is what the graph says of them, whichever tier wrote
\* them.  (Resolved sections leave the counters of their subscribers alone.)
OutsidersReadExactly ==
  stabilizer # "resolved" =>
    \A n \in Live \ compiled : kind[n] # "Input" =>
      DepState(n) = propagation_state(GraphDepVals(n))

\* What is reached from S over pairs whose pushes are authorised.
AuthorisedFrom(S) ==
  {n \in Uid : \A M \in SUBSET Uid :
     S \subseteq M /\ (\A e \in pairs : e[1] \in M /\ Denied(e[1], e[2]) = {} => e[2] \in M)
       => n \in M}

\* Outside Advisory mode, whatever the warm tier has queued was requested, was
\* written by the caller, left a compiled region or a section, or is reached
\* from such a node over authorised pairs and pairs logged as violations:
\* neither a rule that fires nor a conflict that infects gets past the gate.
NothingUnauthorised ==
  pc = "drain" /\ amode # "Advisory" =>
    Queued(queue) \subseteq AuthorisedFrom(origin \cup {v.tgt : v \in violations})

\* The inputs of the artifact are Input nodes, whose writes run it.
Fed(r) == \A s \in r.inputs : \E n \in Live : kind[n] = "Input" /\ idx[n] = s

\* An artifact whose rows followed their dependencies when the engine was at
\* rest follows whatever is written to its inputs: no order of the rows, skipped
\* push, repeated declaration, eviction or change of the graph leaves one of them
\* behind, not even in an artifact that no longer describes the graph.
RowsFollow ==
  Quiescent => \A root \in followed :
    Fed(regions[root]) => Follows(regions[root], cache)
=============================================================================

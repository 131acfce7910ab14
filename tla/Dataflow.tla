------------------------------ MODULE Dataflow ------------------------------
(***************************************************************************)
(* What the engine promises its callers about values, without queue, gates *)
(* or caches: writing an input is one synchronous wave.  When the call     *)
(* returns, every derived node has fired once, on the final values of its  *)
(* dependencies: it is Zero if one of them is Zero, keeps its value if one *)
(* of them is Neg, and has the value of its rule if all of them are Pos    *)
(* (spec/abi.md, propagation semantics; propagate.rs, step_push).          *)
(***************************************************************************)
EXTENDS Ternary

CONSTANT Uid

VARIABLES
  kind,                 \* [Uid -> Rules \cup {"Input", "Absent"}], fixed
  ordered,              \* [Uid -> Seq(Uid)], the dependencies, fixed
  out                   \* [Uid -> T], the values a caller sees

Fires(n, old, new) ==
  LET vals == [i \in DOMAIN ordered[n] |-> new[ordered[n][i]]] IN
  CASE propagation_state(vals) = "Conflicted" -> "Zero"
    [] propagation_state(vals) = "Pending"    -> old
    [] propagation_state(vals) = "Ready"      -> Eval(kind[n], vals)

Init == out = [n \in Uid |-> "Neg"]

WriteInput(i, v) ==
  /\ kind[i] = "Input"
  /\ \E new \in [Uid -> T] :
       /\ \A n \in Uid :
            new[n] = IF n = i THEN v
                     ELSE IF kind[n] \in Rules THEN Fires(n, out[n], new)
                     ELSE out[n]
       /\ out' = new
  /\ UNCHANGED <<kind, ordered>>

Next == \E i \in Uid, v \in T : WriteInput(i, v)

Spec == Init /\ [][Next]_<<kind, ordered, out>>
=============================================================================

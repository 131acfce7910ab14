---------------------------- MODULE MCOperators ----------------------------
(***************************************************************************)
(* The pure parts of the engine and of the wire format, each on its own:   *)
(*                                                                         *)
(*   ternary    the tables, folds and rules, on every list of values       *)
(*   gates      the gate of one dependency, under labels that come and go  *)
(*   frontiers  two frontiers over a grid of times                         *)
(*   wire       the payload of a record, written and read                  *)
(***************************************************************************)
EXTENDS TernaryCheck, CausalGate, MCWire

VARIABLE side

Labels == {wildcard, attribute_only, structural, boundary, Mask({}, AnyShape)}

Grid == {t \in [Dim -> 0 .. 2] : /\ t["Identity"] <= 1
                                 /\ t["Egraph"] = 0 /\ t["Boundary"] = 0}

OperatorInit ==
  CheckInit /\ Init /\ WireInit /\ side \in {"ternary", "gates", "frontiers", "wire"}

OperatorNext ==
  /\ \/ side = "ternary" /\ CheckNext /\ UNCHANGED <<vars, sent>>
     \/ side = "gates" /\ GateNext /\ UNCHANGED <<vals, sent>>
     \/ side = "frontiers" /\ FrontierNext /\ UNCHANGED <<vals, sent>>
     \/ side = "wire" /\ WireNext /\ UNCHANGED <<vars, vals>>
  /\ UNCHANGED side

OperatorSpec == OperatorInit /\ [][OperatorNext]_<<vars, vals, sent, side>>
=============================================================================

------------------------------- MODULE Ternary -------------------------------
(***************************************************************************)
(* The ternary truth domain of the engine (core-rs/src/ternary.rs) and the *)
(* compute rules over it (ComputeRule::eval, core-rs/src/node.rs).         *)
(*                                                                         *)
(* Neg is absent or pending, Zero is conflicted, Pos is confirmed; the     *)
(* chain order is Neg < Zero < Pos.  The folds over a dependency list are  *)
(* written in closed form, so that no operator here is recursive; the      *)
(* module TernaryCheck compares them with the iterated binary operations.  *)
(***************************************************************************)
EXTENDS Integers, Sequences

T == {"Neg", "Zero", "Pos"}

\* The centred encoding f: {Neg, Zero, Pos} -> {-1, 0, 1} of the module's doc.
Level == [v \in T |-> CASE v = "Neg" -> -1 [] v = "Zero" -> 0 [] v = "Pos" -> 1]

mv_neg(x) == IF x = "Neg" THEN "Pos" ELSE IF x = "Pos" THEN "Neg" ELSE "Zero"

\* Mutant: saturating addition, Zero + Zero = Zero.
mv_add_saturating(x, y) ==
  IF "Pos" \in {x, y} THEN "Pos" ELSE IF "Zero" \in {x, y} THEN "Zero" ELSE "Neg"

\* Neg is the identity; every other pair clamps to Pos (Zero + Zero = Pos).
mv_add(x, y) == IF x = "Neg" THEN y ELSE IF y = "Neg" THEN x ELSE "Pos"

\* Pos is the identity; every other pair truncates to Neg (Zero * Zero = Neg).
mv_mul(x, y) == IF x = "Pos" THEN y ELSE IF y = "Pos" THEN x ELSE "Neg"

mv_sub(x, y) == mv_neg(mv_add(mv_neg(x), y))

mv_impl(x, y) == mv_add(mv_neg(x), y)

meet(x, y) == IF "Neg" \in {x, y} THEN "Neg"
              ELSE IF "Zero" \in {x, y} THEN "Zero" ELSE "Pos"

join(x, y) == IF "Pos" \in {x, y} THEN "Pos"
              ELSE IF "Zero" \in {x, y} THEN "Zero" ELSE "Neg"

median(a, b, c) == join(meet(a, b), join(meet(b, c), meet(a, c)))

merge(base, left, right) == median(base, left, right)

bochvar_add(x, y) == IF "Zero" \in {x, y} THEN "Zero" ELSE mv_add(x, y)

-----------------------------------------------------------------------------
(* Folds over the ordered dependency values of a node. *)

Occurs(v, vals) == \E i \in DOMAIN vals : vals[i] = v

meet_all(vals) == IF Occurs("Neg", vals) THEN "Neg"
                  ELSE IF Occurs("Zero", vals) THEN "Zero" ELSE "Pos"

join_any(vals) == IF Occurs("Pos", vals) THEN "Pos"
                  ELSE IF Occurs("Zero", vals) THEN "Zero" ELSE "Neg"

\* Mutant: the fold stops at the first confirmed value.
bochvar_fold_add_early(vals) == IF Occurs("Pos", vals) THEN "Pos"
                                ELSE IF Occurs("Zero", vals) THEN "Zero" ELSE "Neg"

bochvar_fold_add(vals) == IF Occurs("Zero", vals) THEN "Zero"
                          ELSE IF Occurs("Pos", vals) THEN "Pos" ELSE "Neg"

PropState == {"Ready", "Pending", "Conflicted"}

\* Mutant: a pending dependency hides a conflict.
propagation_state_neg_first(vals) == IF Occurs("Neg", vals) THEN "Pending"
                                     ELSE IF Occurs("Zero", vals) THEN "Conflicted"
                                     ELSE "Ready"

\* No dependency at all is vacuously Ready.
propagation_state(vals) == IF Occurs("Zero", vals) THEN "Conflicted"
                           ELSE IF Occurs("Neg", vals) THEN "Pending"
                           ELSE "Ready"

-----------------------------------------------------------------------------
Rules == {"Identity", "MvNeg", "MvAdd", "MvMul", "MvSub", "Merge",
          "MeetAll", "JoinAny", "BochvarFold", "PowerProduct"}

\* Dependencies a rule indexes; with fewer, eval yields None.
Arity == [r \in Rules |-> IF r \in {"MeetAll", "JoinAny", "BochvarFold"} THEN 0
                          ELSE IF r \in {"Identity", "MvNeg"} THEN 1
                          ELSE IF r = "Merge" THEN 3 ELSE 2]

\* rule.eval(vals).unwrap_or(T::Neg): a rule with too few dependencies is Neg.
Eval(rule, vals) ==
  IF Len(vals) < Arity[rule] THEN "Neg"
  ELSE CASE rule = "Identity"    -> vals[1]
         [] rule = "MvNeg"       -> mv_neg(vals[1])
         [] rule = "MvAdd"       -> mv_add(vals[1], vals[2])
         [] rule = "MvMul"       -> mv_mul(vals[1], vals[2])
         [] rule = "MvSub"       -> mv_sub(vals[1], vals[2])
         [] rule = "Merge"       -> merge(vals[1], vals[2], vals[3])
         [] rule = "MeetAll"     -> meet_all(vals)
         [] rule = "JoinAny"     -> join_any(vals)
         [] rule = "BochvarFold" -> bochvar_fold_add(vals)
         [] rule = "PowerProduct" -> mv_mul(vals[1], vals[2])
=============================================================================

---------------------------- MODULE TernaryCheck ----------------------------
(***************************************************************************)
(* Ternary compared with its reference definitions, over every sequence of *)
(* dependency values up to MaxLen: each state is one sequence.             *)
(***************************************************************************)
EXTENDS Ternary, FiniteSetsExt, SequencesExt

CONSTANT MaxLen         \* bound: length of a dependency list
VARIABLE vals

CheckInit == vals = <<>>
CheckNext == Len(vals) < MaxLen /\ \E v \in T : vals' = Append(vals, v)
CheckSpec == CheckInit /\ [][CheckNext]_vals

\* The ends of a set in the chain order.
Lowest(S) == CHOOSE v \in S : \A w \in S : Level[v] <= Level[w]
Highest(S) == CHOOSE v \in S : \A w \in S : Level[w] <= Level[v]

\* The tables of ternary.rs are the clamped arithmetic its comments give:
\* mv_add is min(1, x + y + 1), mv_mul is max(-1, x + y - 1), mv_sub is Neg
\* exactly when it takes at least as much as there is, and median is the middle
\* of the chain order.
TablesAreArithmetic ==
  \A i, j, k \in DOMAIN vals :
    LET x == vals[i]  y == vals[j]  z == vals[k]
        plus == Level[x] + Level[y] + 1
        times == Level[x] + Level[y] - 1 IN
    /\ Level[mv_add(x, y)] = Min({1, plus})
    /\ Level[mv_mul(x, y)] = Max({-1, times})
    /\ mv_sub(x, y) = "Neg" <=> Level[x] <= Level[y]
    /\ mv_impl(x, y) = "Pos" <=> Level[x] <= Level[y]
    /\ meet(x, y) = Lowest({x, y}) /\ join(x, y) = Highest({x, y})
    /\ Level[median(x, y, z)] + Level[Lowest({x, y, z})] + Level[Highest({x, y, z})]
         = Level[x] + Level[y] + Level[z]

\* The folds, their unrolled arms for short lists included, are the binary
\* operations iterated from their identities, in any order of dependencies
\* (ternary.rs: bochvar_fold_add, meet_all, join_any).
FoldsIterate ==
  \A s \in {vals, Reverse(vals)} :
    /\ meet_all(vals) = FoldLeft(meet, "Pos", s)
    /\ join_any(vals) = FoldLeft(join, "Neg", s)
    /\ bochvar_fold_add(vals) = FoldLeft(bochvar_add, "Neg", s)

\* A list is Ready only if every rule that has the dependencies it needs
\* confirms it, or negates or subtracts (propagate.rs: on Ready dependencies
\* an aggregate "gives Pos"), and Conflicted exactly if the Bochvar fold is Zero.
ReadyRulesConfirm ==
  /\ propagation_state(vals) = "Conflicted" <=> bochvar_fold_add(vals) = "Zero"
  /\ propagation_state(vals) = "Ready" /\ vals # <<>> =>
       \A r \in Rules : Len(vals) >= Arity[r] =>
         Eval(r, vals) = IF r \in {"MvNeg", "MvSub"} THEN "Neg" ELSE "Pos"
=============================================================================

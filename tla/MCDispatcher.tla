---------------------------- MODULE MCDispatcher ----------------------------
(* One session on two paths, two partitions and two shards. *)
EXTENDS Dispatcher, TLC

OneSession == [p \in Path |-> 1]

\* Both shards have an address; each is nearest to itself (Leaf and Rack).
Near == [c \in Shard \X Shard |-> IF c[1] = c[2] THEN 1 ELSE 2]

\* Path ids are only compared with each other.
AnyPathFirst == Permutations(Path)

HotOrIdle == {Healthy, NegPressure}
=============================================================================

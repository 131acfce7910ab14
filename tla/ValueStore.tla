----------------------------- MODULE ValueStore -----------------------------
(***************************************************************************)
(* The dense value cache of the engine (core-rs/src/value_store.rs): a     *)
(* node id is given a slot when the node is created, and the propagation   *)
(* hot path reads dependency values by slot instead of through the graph.  *)
(* Slots are numbered from 1 here; 0 stands for "not registered".  The     *)
(* bit planes that mirror the cache are an encoding of it and left out.    *)
(***************************************************************************)
EXTENDS Naturals, Sequences

VARIABLES
  cache,                \* sequence of slots, each a ternary value
  idx                   \* node id -> slot, 0 when the id has none

storeVars == <<cache, idx>>

\* value_store.get(id): Neg when the id was never registered.
StoreGet(id) == IF idx[id] = 0 THEN "Neg" ELSE cache[idx[id]]

\* value_store.set(id, v) as a function of the cache: unknown ids are ignored.
Stored(id, v) == IF idx[id] = 0 THEN cache ELSE [cache EXCEPT ![idx[id]] = v]

\* Mutant: the stabilizer leaves the cache behind.
StoredAll_forgotten(S, v) == cache

\* One set per node of S, each to the same value v.
StoredAll(S, v) ==
  [k \in DOMAIN cache |-> IF \E id \in S : idx[id] = k THEN v ELSE cache[k]]

\* Mutant: the slot is numbered after the push.
Alloc_after_push(id) ==
  /\ cache' = Append(cache, "Neg")
  /\ idx' = [idx EXCEPT ![id] = Len(cache) + 2]

\* A new slot for id; a slot the id already had is abandoned, not reused.
Alloc(id) ==
  /\ cache' = Append(cache, "Neg")
  /\ idx' = [idx EXCEPT ![id] = Len(cache) + 1]

\* The slot becomes a Neg tombstone and the id keeps pointing at it.
Dealloc(id) ==
  /\ cache' = Stored(id, "Neg")
  /\ UNCHANGED idx
=============================================================================

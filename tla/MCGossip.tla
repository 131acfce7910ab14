------------------------------ MODULE MCGossip ------------------------------
(* Two shards, whose four views are all there is: what two shards hold of *)
(* each other involves no third one.                                       *)
EXTENDS Gossip

Congested == {[queue_depth |-> 600, cursor_count |-> 0]}
=============================================================================

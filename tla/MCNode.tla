-------------------------------- MODULE MCNode --------------------------------
(* The sources of a node with NShards shards. *)
EXTENDS Node

MCSources == (1 .. NShards) \X {"shard", "child"}
=============================================================================

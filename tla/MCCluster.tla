------------------------------ MODULE MCCluster ------------------------------
(* Two shards with up to two live entities each and two serials to mint:    *)
(* enough for an entity to leave, for its minter to restart and mint its id *)
(* again, and for the two to meet.                                          *)
EXTENDS Cluster, TLC

Symmetry == Permutations(Shards) \cup Permutations(Handles)
=============================================================================

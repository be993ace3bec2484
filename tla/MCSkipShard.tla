---------------------------- MODULE MCSkipShard ----------------------------
(* Constants for checking SkipShard and SkipShardMap with TLC.             *)
EXTENDS SkipShardMap, TLC

Symmetric == Permutations(Thread) \cup Permutations(Node) \cup Permutations(Value)
=============================================================================

--------------------------- MODULE MCShardedSearch --------------------------
(***************************************************************************)
(* ShardedSearch for TLC: threads are interchangeable.                     *)
(***************************************************************************)
EXTENDS ShardedSearch, TLC

Symmetry == Permutations(Threads)
=============================================================================

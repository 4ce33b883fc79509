---------------------------- MODULE MCVramBudget ----------------------------
(* Instance of VramBudget for TLC. *)
EXTENDS VramBudget, TLC

\* One graph of a high degree (or IVF-PQ), one index in one or two shards, one flat index.
MCKinds == "a" :> {"cagra", "ivfpq"} @@ "s" :> {"cagra"} @@ "f" :> {"flat"}
MCShards == "a" :> {1} @@ "s" :> {0, 2} @@ "f" :> {1}
MCDegree == "a" :> 3 @@ "s" :> 2 @@ "f" :> 1
MCRows == "a" :> 1 @@ "s" :> 4 @@ "f" :> 2
=============================================================================

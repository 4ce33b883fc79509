---------------------------- MODULE MCBatchQueue ----------------------------
(* Model values for BatchQueue: three connection threads, two of which     *)
(* search the same index with the same parameters.                         *)
EXTENDS BatchQueue, TLC

CONSTANTS t1, t2, t3, k1, k2

MCKeyOf == t1 :> k1 @@ t2 :> k1 @@ t3 :> k2
=============================================================================

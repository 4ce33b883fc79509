----------------------------- MODULE MCHandover -----------------------------
(* One call of every kind against the daemon, a reaper and the deaths of    *)
(* either side; a parallel build has a leader and two workers.              *)
EXTENDS Handover
MCKinds == KindNames
=============================================================================

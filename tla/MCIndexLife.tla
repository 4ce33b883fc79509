---------------------------- MODULE MCIndexLife ----------------------------
(* A CAGRA index whose files are in the object store, and one that does not  *)
(* exist yet.                                                                *)
EXTENDS IndexLife

MCKinds == [i \in Indexes |-> IF i = "c" THEN {"cagra"} ELSE {"cagra", "flat", "ivfpq"}]

\* Everything that happens in time, and backends that give up before the daemon
\* does in the simpler surroundings.
MCScenarios ==
  {{"savepoint", "create", "prepare", "stop", "gc", "compact"},
   {"create", "stop", "late"},
   {"create", "gc", "late"}, {"stop", "gc", "late"}, {"stop", "compact", "late"}}
=============================================================================

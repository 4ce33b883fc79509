---------------------------- MODULE MCWritePath ----------------------------
(* A graph index and a flat one.                                             *)
EXTENDS WritePathCauses

MCKinds == {"cagra", "flat"}

\* Everything but an overdue build at once; and, on the graph, an overdue build
\* with line pointers that are reused under it.
MCScenarios == [k \in MCKinds |->
  {EventKinds \ {"overdue"}} \cup (IF k = "cagra" THEN {{"overdue", "reuse"}} ELSE {})]

\* A single fault on a graph.
CrashOnly == [k \in {"cagra"} |-> {{"crash"}}]
TruncateOnly == [k \in {"cagra"} |-> {{"truncate"}}]
=============================================================================

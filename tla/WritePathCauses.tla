--------------------------- MODULE WritePathCauses --------------------------
(***************************************************************************)
(* WritePath with a history variable: the rows the index can no longer     *)
(* answer for, and why.  There are seven causes, each a step that can be   *)
(* seen from the outside; the properties say that they are the only ones:  *)
(* whatever else happens, and in whatever order, a search that is served   *)
(* returns every other committed row exactly once, with its own vector.    *)
(***************************************************************************)
EXTENDS WritePath

VARIABLE excused  \* TIDs of committed rows that met one of the causes

hvars == <<vars, excused>>

-----------------------------------------------------------------------------
(* The causes.  Each is the set of TIDs that the current step excuses.     *)

\* The index still holds, or has promised to remove, something called t.
KnownTids ==
  UNION ( {TidsOf(rows) : rows \in base \cup vecs}
            \cup {TidsOf(d.rows) : d \in delta}
            \cup {TidsOf(e.rows) \cup TidsOf(e.dc) : e \in res}
            \cup comp \cup {Tombstoned} )

\* The TID a row was inserted under in this step, the one whose row CREATE
\* INDEX CONCURRENTLY validates, and the ones cuvs_aminsert is called with.
InsertedTids == {t \in Tids : heap[t].st = "free" /\ heap'[t].st = "live"}
ValidatedTids == IF conc.pc = "validate" THEN conc.todo \ conc'.todo ELSE {}
GivenTids == (IF conc.pc = "scan" THEN {} ELSE InsertedTids) \cup ValidatedTids

\* (1) The daemon goes down with rows that are in its graph only: EXTEND
\*     writes nothing to disk, and only an orderly stop saves the graph.
LostWithDaemon ==
  IF up /\ ~up'
  THEN (UNION {TidsOf(e.rows) : e \in res}) \ (UNION {TidsOf(rows) : rows \in base'})
  ELSE {}

\* (2) The row could not be appended to .delta while the daemon was down:
\*     mark_stale is a message to the daemon and leaves no marker.
Unmarked == IF ~up /\ ~stale /\ delta' = delta THEN GivenTids ELSE {}

\* (3) .delta was appended to within the second of its last GPU copy.
SameSecond ==
  IF delta' # delta /\ (\E e \in res' : e.dkey /\ e.dload) THEN GivenTids ELSE {}

\* (4) The heap reuses a TID the index still knows: VACUUM freed it before
\*     its COMPACT, tombstoned it only, or a TRUNCATE left the index alone.
Reused == InsertedTids \cap KnownTids

\* (5) The reply to EXTEND timed out: the row is in the graph and in .delta.
Doubled ==
  IF delta' # delta
  THEN GivenTids \cap UNION {TidsOf(e.rows) : e \in res'}
  ELSE {}

\* (6) An overdue build is committed: the graph has lost the rows it has not
\*     read, and has those that were in .delta by then once more.
KeptBy(rows, t) ==
  LET inDelta == \E d \in delta : t \in TidsOf(d.rows) IN
  \/ (\E i \in DOMAIN rows : rows[i] = RowAt(t)) /\ ~inDelta
  \/ t \notin TidsOf(rows) /\ inDelta

Overtaken ==
  IF conc.pc = "done" /\ pending # {} /\ pending' = {} /\ up'
  THEN {t \in LiveTids : \E rows \in pending : ~KeptBy(rows, t)}
  ELSE {}

\* (7) CREATE INDEX CONCURRENTLY inserts a row that its writer had inserted
\*     before, because .tids does not have it.
Revalidated == ValidatedTids \cap KnownTids

InitH == Init /\ excused = {}

(* A REINDEX reads the heap and replaces every artifact; only a COMPACT    *)
(* that is still under way remembers the TIDs of before.                   *)
NextH ==
  \/ /\ Reindex
     /\ excused' = LiveTids \cap UNION comp
  \/ /\ Step
     /\ excused' = excused \cup LostWithDaemon \cup Unmarked \cup SameSecond
                           \cup Reused \cup Doubled \cup Overtaken \cup Revalidated

SpecH == InitH /\ [][NextH]_hvars
-----------------------------------------------------------------------------
(* Properties. *)

(* Fail closed: a search that the daemon answers, however old its plan,    *)
(* finds every committed row, wherever its vector is - in the saved base,  *)
(* in VRAM only, in .delta or in the GPU copy of .delta - unless one of    *)
(* the seven causes has hit that very row since the last REINDEX.          *)
NoUnexplainedLoss ==
  \A a \in Answers : \A t \in LiveTids \ excused : \E i \in DOMAIN a : a[i] = RowAt(t)

(* Neither the daemon nor the backend removes duplicates when it merges    *)
(* base and delta candidates, so no row may ever be in both.               *)
NoUnexplainedDuplicate ==
  \A a \in Answers : \A i, j \in DOMAIN a :
    a[i].tid = a[j].tid /\ a[i].tid \in LiveTids \ excused => i = j

(* A TID is never returned with the distance of a vector its row does not  *)
(* have: the executor trusts the distance (xs_recheckorderby is false).    *)
NoUnexplainedDistance ==
  \A a \in Answers : \A i \in DOMAIN a :
    a[i].tid \in LiveTids \ excused => a[i].ver = heap[a[i].tid].ver
=============================================================================

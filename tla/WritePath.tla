----------------------------- MODULE WritePath ------------------------------
(***************************************************************************)
(* One GPU index and everything a write does to it.                        *)
(*                                                                         *)
(* The heap is the truth.  The index is spread over a saved base (.tids    *)
(* with its .cagra), a copy of the vectors (.vectors), the daemon's        *)
(* resident entry, and three sidecars the backends write: .delta (rows     *)
(* inserted since the build), .tombstone (TIDs that VACUUM removed) and    *)
(* .stale (do not use this index).  A sidecar names the build it belongs   *)
(* to by the CRC of the TID list in .tids.                                 *)
(*                                                                         *)
(* The backends (pg_cuvs.c) insert, delete, VACUUM, search and REINDEX;    *)
(* the daemon (pg_cuvs_server.c) extends, compacts, evicts, reloads, stops *)
(* and crashes.  The planner decides from the files alone whether a query  *)
(* may use the GPU: the questions are what such a query can then return.   *)
(*                                                                         *)
(* The index may also be in the making: CREATE INDEX CONCURRENTLY, or the  *)
(* new index of a REINDEX CONCURRENTLY, lets the writers go on.  And a     *)
(* REINDEX whose client gives up leaves the daemon with a build that it    *)
(* commits when it is done, whatever has happened to the table meanwhile.  *)
(*                                                                         *)
(* Distances are exact and k is large enough for every candidate, so a     *)
(* search returns its whole candidate set; vectors are row versions.       *)
(***************************************************************************)
EXTENDS Naturals, Sequences, FiniteSets

CONSTANTS
  NTids,      \* heap line pointers 1 .. NTids, in heap-scan order
  MaxVer,     \* bound on the number of row versions ever inserted
  Kinds,      \* the access methods considered, among "cagra" and "flat"
  MaxDelta,   \* cuvs.max_delta_rows
  Scenarios   \* per access method: what may happen besides in a history, subsets
              \* of EventKinds

\* "stop"      the daemon is stopped (saving its indexes) and started again
\* "crash"     the daemon is killed
\* "io"        an append or a save fails
\* "reuse"     the heap reuses line pointers that VACUUM has freed
\* "samesec"   a file changes twice within the resolution of st_mtime
\* "lostreply" a backend gives up waiting for a request the daemon carries out
\* "overdue"   a REINDEX gives up after 600 s and the daemon builds on
\* "truncate"  the table is truncated
\* "compact"   a user calls pg_cuvs_compact()
\* "concurrently"  the index may be built by CREATE INDEX CONCURRENTLY
EventKinds ==
  {"stop", "crash", "io", "reuse", "samesec", "lostreply", "overdue",
   "truncate", "compact", "concurrently"}

ASSUME NTidsAssumption == NTids \in Nat
ASSUME MaxVerAssumption == MaxVer \in Nat
ASSUME KindsAssumption == Kinds \subseteq {"cagra", "flat"}
ASSUME MaxDeltaAssumption == MaxDelta \in Nat \ {0}
ASSUME ScenariosAssumption == Scenarios \in [Kinds -> SUBSET (SUBSET EventKinds)]

VARIABLES
  kind,     \* the access method of the index, which never changes
  events,   \* the scenario, neither
  heap,     \* per TID: the version it holds and the state of the line pointer
  nextver,  \* versions inserted so far
  base,     \* {} or one row list: .tids and .cagra
  vecs,     \* {} or one row list: .vectors, with the TIDs its CRC was taken of
  delta,    \* {} or one [gen, rows]: .delta
  tomb,     \* {} or one [gen, tids, eff]: .tombstone, eff: deleter committed
  stale,    \* the .stale marker exists
  up,       \* the daemon runs
  sock,     \* its socket file exists
  res,      \* {} or one resident entry of the daemon
  vac,      \* the VACUUM that runs, if any
  comp,     \* {} or the tombstones read by a pg_cuvs_compact() under way
  pending,  \* {} or the rows of a build under way that keeps no writer out
  conc      \* how far CREATE INDEX CONCURRENTLY is, and the TIDs it still
            \* has to account for

vars == <<kind, events, heap, nextver, base, vecs, delta, tomb, stale, up, sock, res,
          vac, comp, pending, conc>>
files == <<base, vecs, delta, tomb, stale>>
builds == <<pending, conc>>

-----------------------------------------------------------------------------
Tids == 1 .. NTids
Row == [tid : Tids, ver : 1 .. MaxVer]

\* A file or an entry that may be missing is a set of at most one element.
The(S) == CHOOSE x \in S : TRUE
AtMostOne(S) == \A x, y \in S : x = y

\* The numbers in S, in increasing order.
InOrder(S) ==
  [j \in 1 .. Cardinality(S) |-> CHOOSE i \in S : Cardinality({k \in S : k <= i}) = j]

\* The rows whose TID is not in `dead', in the same order.
Keep(rows, dead) ==
  LET kept == InOrder({i \in DOMAIN rows : rows[i].tid \notin dead})
  IN [j \in DOMAIN kept |-> rows[kept[j]]]

\* The generation token of a row list: body_crc32 covers the TIDs only.
Gen(rows) == [i \in DOMAIN rows |-> rows[i].tid]

LiveTids == {t \in Tids : heap[t].st = "live"}
DeadTids == {t \in Tids : heap[t].st = "dead"}
RowAt(t) == [tid |-> t, ver |-> heap[t].ver]

TidsOf(rows) == {rows[i].tid : i \in DOMAIN rows}

\* What a build that keeps writers out collects: cuvs_build_callback skips the
\* rows that are dead, those some snapshot may still see included.
HeapScan ==
  LET order == InOrder(LiveTids) IN [i \in DOMAIN order |-> RowAt(order[i])]

\* A resident entry: its rows (tids[] and the graph, index by index), the
\* stale flag, the brute-force copy of .vectors and the GPU copy of .delta.
\* bfkey and dkey say that the st_mtime recorded with the copy is still the
\* file's, dload and bload that there is a copy.
Entry(rows, st) ==
  [rows |-> rows, stale |-> st, bload |-> FALSE, bf |-> <<>>, bfkey |-> FALSE,
   dload |-> FALSE, dc |-> <<>>, dkey |-> FALSE]

(* The state is well formed, and neither sidecar outgrows max_delta_rows   *)
(* whichever of INSERT, VACUUM and COMPACT touches it.                     *)
TypeOK ==
  /\ heap \in [Tids -> [ver : 0 .. MaxVer, st : {"free", "live", "dead", "retired"}]]
  /\ kind \in Kinds
  /\ nextver \in 0 .. MaxVer
  /\ base \subseteq Seq(Row) /\ AtMostOne(base)
  /\ vecs \subseteq Seq(Row) /\ AtMostOne(vecs)
  /\ AtMostOne(delta)
  /\ \A d \in delta : /\ d.gen \in Seq(Tids)
                     /\ d.rows \in Seq(Row) /\ Len(d.rows) <= MaxDelta
  /\ AtMostOne(tomb)
  /\ \A d \in tomb : /\ d.gen \in Seq(Tids)
                    /\ d.tids \subseteq Tids /\ Cardinality(d.tids) <= MaxDelta
                    /\ d.eff \subseteq d.tids
  /\ stale \in BOOLEAN
  /\ up \in BOOLEAN /\ sock \in BOOLEAN
  /\ AtMostOne(res)
  /\ \A e \in res :
       /\ e.rows \in Seq(Row) /\ e.bf \in Seq(Row) /\ e.dc \in Seq(Row)
       /\ {e.stale, e.bload, e.bfkey, e.dload, e.dkey} \subseteq BOOLEAN
  /\ vac \in [pc : {"idle", "bulk", "heap", "cleanup", "commit"},
              dead : SUBSET Tids, marked : SUBSET Tids]
  /\ comp \subseteq SUBSET Tids /\ AtMostOne(comp)
  /\ pending \subseteq Seq(Row) /\ AtMostOne(pending)
  /\ conc \in [pc : {"scan", "ready", "snapshot", "validate", "done"}, todo : SUBSET Tids]

\* handle_build refuses fewer than two vectors, handle_build_flat does not.
MinRows == IF kind = "cagra" THEN 2 ELSE 1

\* The table is empty or the smallest there is an index of.  CREATE INDEX has
\* run (over an empty table nothing is built), or CREATE INDEX CONCURRENTLY has
\* read the rows and waits for the daemon.
Init ==
  /\ kind \in Kinds /\ events \in Scenarios[kind]
  /\ \E n \in {0, MinRows} :
       /\ n <= NTids /\ n <= MaxVer
       /\ heap = [t \in Tids |-> [ver |-> IF t <= n THEN t ELSE 0,
                                  st  |-> IF t <= n THEN "live" ELSE "free"]]
       /\ nextver = n
       /\ LET rows == [i \in 1 .. n |-> [tid |-> i, ver |-> i]] IN
            \/ /\ base = IF n = 0 THEN {} ELSE {rows}
               /\ pending = {} /\ conc = [pc |-> "done", todo |-> {}]
            \/ /\ "concurrently" \in events
               /\ base = {}
               /\ pending = {rows} /\ conc = [pc |-> "scan", todo |-> Tids]
  /\ vecs = base /\ res = {Entry(rows, FALSE) : rows \in base}
  /\ delta = {} /\ tomb = {} /\ stale = FALSE
  /\ up = TRUE /\ sock = TRUE
  /\ vac = [pc |-> "idle", dead |-> {}, marked |-> {}]
  /\ comp = {}

-----------------------------------------------------------------------------
(* Faulty variants of definitions below.  No specification uses them; they *)
(* show that the properties of this module notice the mistake.             *)

LoadedForgetsStale ==          \* load_index does not look for .stale
  IF res # {} THEN res ELSE {Entry(rows, FALSE) : rows \in base}

GraphAnswersMergedTwice(e) ==  \* delta_merged is ignored
  {e.rows \o e.dc \o (IF delta = {} THEN <<>> ELSE The(delta).rows)}

MarkStaleNoMarker ==           \* only the flag of the entry is set
  /\ UNCHANGED stale
  /\ res' = {IF up THEN [e EXCEPT !.stale = TRUE] ELSE e : e \in res}

DeltaAppendOffByOne(r, ents) ==
  \/ \E d \in delta : /\ Len(d.rows) <= MaxDelta
                      /\ delta' = {[d EXCEPT !.rows = Append(@, r)]}
                      /\ res' = ents /\ UNCHANGED stale
  \/ /\ delta = {} /\ base # {}
     /\ delta' = {[gen |-> Gen(The(base)), rows |-> <<r>>]}
     /\ res' = ents /\ UNCHANGED stale

AfterBuildKeepsCopy(rows) ==   \* the copy of .vectors is kept
  {{[Entry(rows, FALSE) EXCEPT !.bload = e.bload, !.bf = e.bf, !.bfkey = e.bfkey] :
      e \in res}}

-----------------------------------------------------------------------------
(* What a search returns. *)

\* The tests the cost gate and cuvs_merge_delta make on .delta, and the ones
\* the cost gate and cuvs_apply_tombstones make on .tombstone.
DeltaUsable == \A d \in delta : Len(d.rows) <= MaxDelta /\ d.gen = Gen(The(base))
TombUsable == \A d \in tomb : Cardinality(d.tids) <= MaxDelta /\ d.gen = Gen(The(base))

\* The gates of cuvsamcostestimate that depend on this state, for an index the
\* planner knows to be valid.  cuvs_daemon_socket_ready looks for the socket
\* file only; the delete-drift gate and the breaker only close more.
GatesOpen ==
  conc.pc = "done" /\ ~stale /\ sock /\ base # {} /\ DeltaUsable /\ TombUsable

\* The entry handle_search works on: find_index, or load_index on a miss.
\* Without a saved base there is nothing to load (NOT_FOUND).
Loaded == IF res # {} THEN res ELSE {Entry(rows, stale) : rows \in base}

\* refresh_delta_cache: an unchanged st_mtime means the copy is reused;
\* otherwise the copy is rebuilt if it can be, or dropped.
DeltaCopies(e) ==
  IF delta = {} THEN {[e EXCEPT !.dload = FALSE, !.dc = <<>>, !.dkey = FALSE]}
  ELSE IF e.dkey THEN {e}
  ELSE LET d == The(delta)
           none == [e EXCEPT !.dload = FALSE, !.dc = <<>>, !.dkey = TRUE]
       IN IF d.gen # Gen(The(base)) THEN {none}
          ELSE {none, [e EXCEPT !.dload = TRUE, !.dc = d.rows, !.dkey = TRUE]}

\* refresh_main_bf_cache.  The shape test compares the length only.
BfCopies(e) ==
  LET none == [e EXCEPT !.bload = FALSE, !.bf = <<>>, !.bfkey = TRUE]
  IN IF e.bload /\ e.bfkey THEN {e}
     ELSE IF \/ Len(The(vecs)) # Len(e.rows)
             \/ Gen(The(vecs)) # Gen(The(base)) THEN {none}
     ELSE {none, [e EXCEPT !.bload = TRUE, !.bf = The(vecs), !.bfkey = TRUE]}

\* The rows cuvs_merge_delta reads from .delta.
DeltaRows == IF delta = {} THEN <<>> ELSE The(delta).rows

\* cuvs_apply_tombstones drops every candidate whose TID is tombstoned,
\* whichever source it came from; an unusable file is skipped.
Filtered(rows) ==
  LET gone == UNION {d.eff : d \in {f \in tomb : f.gen = Gen(The(base))}}
  IN Keep(rows, gone)

\* handle_search on a graph, after which cuvs_gettuple merges .delta itself
\* unless the daemon has (delta_merged); an unusable .delta is an ERROR.
GraphAnswers(e) ==
  {Filtered(c.rows \o (IF c.dload THEN c.dc ELSE DeltaRows)) :
     c \in {d \in DeltaCopies(e) : d.dload \/ DeltaUsable}}

\* handle_search by brute force: position i of the copy of .vectors is
\* reported under tids[i] of the entry, positions past n_vecs are dropped.
\* The backend always merges .delta here.  Without a copy: NO_VECTORS.
BruteForceAnswer(e) ==
  LET n == IF Len(e.bf) < Len(e.rows) THEN Len(e.bf) ELSE Len(e.rows)
      hits == [i \in 1 .. n |-> [tid |-> e.rows[i].tid, ver |-> e.bf[i].ver]]
  IN Filtered(hits \o DeltaRows)

BruteForceAnswers(e) ==
  {BruteForceAnswer(c) : c \in {d \in BfCopies(e) : d.bload /\ DeltaUsable}}

\* The results an execution may return now, one per way the caches may be
\* refreshed.  No query uses an index that is not valid yet.  The plan may be
\* an old one (a prepared statement), so only the tests made at execution
\* count, and an ERROR is no result.
Answers ==
  IF ~up \/ conc.pc # "done" THEN {}
  ELSE UNION {IF kind = "flat" THEN BruteForceAnswers(e) ELSE GraphAnswers(e) :
                e \in {d \in Loaded : ~d.stale}}

-----------------------------------------------------------------------------
(* Helpers of the actions. *)

\* cuvs_ipc_mark_stale and handle_mark_stale: lost when the daemon is down.
MarkStale ==
  /\ stale' = (stale \/ up)
  /\ res' = {IF up THEN [e EXCEPT !.stale = TRUE] ELSE e : e \in res}

\* A file that has just been rewritten has a new st_mtime, or, within one
\* second, the old one.
KeyAfterWrite(key) == IF "samesec" \in events THEN {FALSE, key} ELSE {FALSE}

\* cuvs_delta_append followed, on failure, by mark_stale.  `ents' is the
\* resident entry as the EXTEND attempt has left it.
DeltaAppend(r, ents) ==
  \/ /\ \/ delta = {} /\ base # {}
           /\ delta' = {[gen |-> Gen(The(base)), rows |-> <<r>>]}
        \/ \E d \in delta : /\ Len(d.rows) < MaxDelta
                            /\ delta' = {[d EXCEPT !.rows = Append(@, r)]}
     /\ \/ ents = {} /\ res' = {}
        \/ \E e \in ents : \E k \in KeyAfterWrite(e.dkey) :
             res' = {[e EXCEPT !.dkey = k]}
     /\ UNCHANGED stale
  \/ /\ \/ base = {} /\ delta = {}
        \/ \E d \in delta : Len(d.rows) >= MaxDelta
        \/ "io" \in events
     /\ stale' = (stale \/ up)
     /\ res' = {IF up THEN [e EXCEPT !.stale = TRUE] ELSE e : e \in ents}
     /\ UNCHANGED delta

\* handle_extend: only a resident graph can be extended; nothing is written
\* to disk.
Extended(r) == {[e EXCEPT !.rows = Append(@, r)] : e \in res}

\* cuvs_tombstone_append of the TIDs `new'; the first one creates the file.
Tombstoned == UNION {d.tids : d \in tomb}

TombAfter(new) ==
  IF tomb = {} /\ new # {} THEN {[gen |-> Gen(The(base)), tids |-> new, eff |-> {}]}
  ELSE {[d EXCEPT !.tids = @ \cup new] : d \in tomb}

\* handle_compact: remove the rows whose TID is in `dead' from the resident
\* graph, save it, unlink the tombstones (`file' as it is by then).
Compact(dead, file) ==
  \/ /\ res = {} \/ kind = "flat"                   \* NOT_FOUND
     /\ tomb' = file
     /\ UNCHANGED <<base, res>>
  \/ \E e \in res :
     /\ kind = "cagra"
     /\ \/ /\ Keep(e.rows, dead) = e.rows           \* nothing to remove
           /\ tomb' = {}
           /\ UNCHANGED <<base, res>>
        \/ /\ Keep(e.rows, dead) \notin {e.rows, <<>>}
           /\ res' = {[e EXCEPT !.rows = Keep(e.rows, dead)]}
           /\ \/ base' = {Keep(e.rows, dead)} /\ tomb' = {}
              \/ "io" \in events /\ tomb' = file /\ UNCHANGED base
        \/ /\ Keep(e.rows, dead) = <<>>             \* the GPU merge fails
           /\ tomb' = file
           /\ UNCHANGED <<base, res>>

-----------------------------------------------------------------------------
(* Backends. *)

(* cuvs_aminsert: nothing if the index is stale, else EXTEND, else .delta. *)
aminsert(r) ==
  \/ stale /\ UNCHANGED <<delta, stale, res>>
  \/ /\ ~stale /\ kind = "cagra" /\ up /\ res # {}      \* EXTEND
     /\ res' = Extended(r)
     /\ UNCHANGED <<delta, stale>>
  \/ ~stale /\ DeltaAppend(r, res)                      \* EXTEND refused
  \/ /\ ~stale /\ kind = "cagra" /\ up /\ res # {}      \* reply timed out
     /\ "lostreply" \in events
     /\ DeltaAppend(r, Extended(r))

(* INSERT (and the new version of an UPDATE); the transaction commits.     *)
(* The heap takes the first free line pointer.  An index that is not ready *)
(* is not told.                                                            *)
Insert(t) ==
  /\ heap[t].st = "free" /\ \A u \in 1 .. t - 1 : heap[u].st # "free"
  /\ nextver < MaxVer
  /\ nextver' = nextver + 1
  /\ heap' = [heap EXCEPT ![t] = [ver |-> nextver + 1, st |-> "live"]]
  /\ \/ conc.pc = "scan" /\ UNCHANGED <<delta, stale, res>>
     \/ conc.pc # "scan" /\ aminsert([tid |-> t, ver |-> nextver + 1])
  /\ UNCHANGED <<kind, events, base, vecs, tomb, up, sock, vac, comp, builds>>

(* DELETE (and the old version of an UPDATE): no index is told. *)
Delete(t) ==
  /\ heap[t].st = "live"
  /\ heap' = [heap EXCEPT ![t].st = "dead"]
  /\ UNCHANGED <<kind, events, nextver, files, up, sock, res, vac, comp, builds>>

(* VACUUM collects the dead line pointers.  Without any it goes straight   *)
(* to amvacuumcleanup.  Its lock excludes CREATE INDEX CONCURRENTLY.       *)
VacuumStart ==
  /\ vac.pc = "idle" /\ conc.pc = "done"
  /\ vac' = [pc |-> IF DeadTids = {} THEN "cleanup" ELSE "bulk",
             dead |-> DeadTids, marked |-> {}]
  /\ UNCHANGED <<kind, events, heap, nextver, files, up, sock, res, comp, builds>>

(* cuvs_ambulkdelete reads .tids in order and tombstones the dead TIDs it  *)
(* finds there.  The loop stops at the cap or on an I/O error, and then    *)
(* the index is marked stale.  When enough of the base is dead a COMPACT   *)
(* follows at once.                                                        *)
BulkDelete ==
  /\ vac.pc = "bulk"
  /\ \/ /\ stale
        /\ vac' = [vac EXCEPT !.pc = "heap"]
        /\ UNCHANGED <<base, tomb, stale, res>>
     \/ /\ ~stale /\ base = {}
        /\ vac' = [vac EXCEPT !.pc = "heap"]
        /\ MarkStale
        /\ UNCHANGED <<base, tomb>>
     \/ /\ ~stale
        /\ \E file \in base : \E n \in 0 .. Len(file) :
             LET new == {file[i].tid : i \in 1 .. n} \cap vac.dead IN
             /\ Cardinality(Tombstoned \cup new) <= MaxDelta \/ new = {}
             /\ vac' = [vac EXCEPT !.pc = "heap", !.marked = new]
             /\ \/ /\ n = Len(file)
                   /\ tomb' = TombAfter(new)
                   /\ UNCHANGED <<base, stale, res>>
                \/ /\ n = Len(file) /\ new # {} /\ up
                   /\ Compact(Tombstoned \cup new, TombAfter(new))
                   /\ UNCHANGED stale
                \/ /\ n < Len(file) /\ file[n + 1].tid \in vac.dead
                   /\ \/ Cardinality(Tombstoned \cup new \cup {file[n + 1].tid}) > MaxDelta
                      \/ "io" \in events
                   /\ tomb' = TombAfter(new)
                   /\ MarkStale
                   /\ UNCHANGED base
  /\ UNCHANGED <<kind, events, heap, nextver, vecs, delta, up, sock, comp, builds>>

(* The second heap pass: the line pointers may be reused from now on. *)
VacuumHeap ==
  /\ vac.pc = "heap"
  /\ heap' = [t \in Tids |->
                IF t \notin vac.dead THEN heap[t]
                ELSE [ver |-> 0, st |-> IF "reuse" \in events THEN "free" ELSE "retired"]]
  /\ vac' = [vac EXCEPT !.pc = "cleanup"]
  /\ UNCHANGED <<kind, events, nextver, files, up, sock, res, comp, builds>>

(* cuvs_amvacuumcleanup asks for a COMPACT if there are tombstones. *)
VacuumCleanup ==
  /\ vac.pc = "cleanup"
  /\ vac' = [vac EXCEPT !.pc = "commit"]
  /\ \/ /\ up /\ ~stale /\ tomb # {}
        /\ Compact(Tombstoned, tomb)
     \/ /\ ~up \/ stale \/ tomb = {}
        /\ UNCHANGED <<base, tomb, res>>
  /\ UNCHANGED <<kind, events, heap, nextver, vecs, delta, stale, up, sock, comp, builds>>

(* VACUUM's transaction commits: what it tombstoned is dead to searches. *)
VacuumCommit ==
  /\ vac.pc = "commit"
  /\ vac' = [pc |-> "idle", dead |-> {}, marked |-> {}]
  /\ tomb' = {[d EXCEPT !.eff = @ \cup (vac.marked \cap d.tids)] : d \in tomb}
  /\ UNCHANGED <<kind, events, heap, nextver, base, vecs, delta, stale, up, sock, res, comp, builds>>

(* VACUUM is cancelled: its transaction id aborts, its tombstones stay. *)
VacuumCancel ==
  /\ vac.pc # "idle"
  /\ vac' = [pc |-> "idle", dead |-> {}, marked |-> {}]
  /\ UNCHANGED <<kind, events, heap, nextver, files, up, sock, res, comp, builds>>

(* pg_cuvs_compact(): handle_compact reads the tombstones before it takes  *)
(* g_index_mutex, and unlinks the file afterwards.                         *)
CompactRead ==
  /\ "compact" \in events
  /\ up /\ comp = {} /\ tomb # {}
  /\ comp' = {Tombstoned}
  /\ UNCHANGED <<kind, events, heap, nextver, files, up, sock, res, vac, builds>>

CompactFinish ==
  /\ comp # {}
  /\ Compact(The(comp), tomb)
  /\ comp' = {}
  /\ UNCHANGED <<kind, events, heap, nextver, vecs, delta, stale, up, sock, vac, builds>>

(* The registry after a build is committed: the existing entry starts      *)
(* afresh (a flat one drops its copy of .vectors), and a registry without  *)
(* a free slot leaves a new index on disk only.                            *)
AfterBuild(rows) ==
  IF res = {} THEN {{}, {Entry(rows, FALSE)}} ELSE {{Entry(rows, FALSE)}}

\* The daemon's part of a build: the files, the entry, no marker.
Commit(rows) ==
  /\ base' = {rows} /\ vecs' = {rows}
  /\ res' \in AfterBuild(rows)
  /\ stale' = FALSE

\* REINDEX holds off writers, VACUUM and searches, and needs rows enough.
Rebuildable ==
  /\ up
  /\ vac.pc = "idle" /\ (comp = {} \/ "lostreply" \in events)
  /\ conc.pc = "done"
  /\ Cardinality(LiveTids) >= MinRows

(* REINDEX: the backend waits for the daemon's reply, and then unlinks the *)
(* sidecars.                                                               *)
Reindex ==
  /\ Rebuildable
  /\ Commit(HeapScan)
  /\ delta' = {} /\ tomb' = {}
  /\ UNCHANGED <<kind, events, heap, nextver, up, sock, vac, comp, builds>>

(* A REINDEX whose client gives up after 600 s: the transaction aborts, its *)
(* locks are released and the sidecars stay, but nothing tells the daemon.  *)
(* One such build at a time is followed.                                    *)
ReindexGivesUp ==
  /\ "overdue" \in events /\ pending = {}
  /\ Rebuildable
  /\ pending' = {HeapScan}
  /\ UNCHANGED <<kind, events, heap, nextver, files, up, sock, res, vac, comp, conc>>

(* The daemon finishes that build, and commits it all the same.            *)
OverdueBuild ==
  /\ up /\ conc.pc = "done"
  /\ \E rows \in pending : Commit(rows)
  /\ pending' = {}
  /\ UNCHANGED <<kind, events, heap, nextver, delta, tomb, up, sock, vac, comp, conc>>

(* TRUNCATE rebuilds the index over an empty heap: ambuild finds no vector *)
(* and returns before it touches any artifact.                             *)
Truncate ==
  /\ "truncate" \in events
  /\ vac.pc = "idle" /\ comp = {} /\ conc.pc = "done"
  /\ LiveTids # {}
  /\ heap' = [t \in Tids |-> [ver |-> 0, st |-> "free"]]
  /\ UNCHANGED <<kind, events, nextver, files, up, sock, res, vac, comp, builds>>

-----------------------------------------------------------------------------
(* CREATE INDEX CONCURRENTLY, after its heap scan.  The index is not used   *)
(* before the last step.                                                    *)

(* The build is committed and the index is ready: from now on writers call  *)
(* cuvs_aminsert.  A scan that found no row builds nothing.                 *)
ConcReady ==
  /\ conc.pc = "scan"
  /\ \E rows \in pending :
       \/ rows = <<>> /\ UNCHANGED <<base, vecs, res, stale>>
       \/ rows # <<>> /\ up /\ Commit(rows)
  /\ pending' = {} /\ conc' = [pc |-> "ready", todo |-> Tids]
  /\ UNCHANGED <<kind, events, heap, nextver, delta, tomb, up, sock, vac, comp>>

(* Every writer that did not know of the index is gone; the rows of a new   *)
(* snapshot are to be validated.                                            *)
ConcSnapshot ==
  /\ conc.pc = "ready"
  /\ conc' = [pc |-> "snapshot", todo |-> LiveTids]
  /\ UNCHANGED <<kind, events, heap, nextver, files, up, sock, res, vac, comp, pending>>

(* validate_index asks cuvs_ambulkdelete which TIDs the index has, and gets *)
(* those of .tids: neither the ones EXTENDED in VRAM nor those in .delta.   *)
ConcRead ==
  /\ conc.pc = "snapshot"
  /\ conc' = [pc |-> "validate",
              todo |-> conc.todo \ (IF stale THEN {} ELSE UNION {TidsOf(rows) : rows \in base})]
  /\ \/ ~stale /\ base = {} /\ MarkStale
     \/ (stale \/ base # {}) /\ UNCHANGED <<stale, res>>
  /\ UNCHANGED <<kind, events, heap, nextver, base, vecs, delta, tomb, up, sock, vac, comp, pending>>

(* It inserts every row of its snapshot that was not among them.            *)
ConcInsert(t) ==
  /\ conc.pc = "validate" /\ t \in conc.todo
  /\ aminsert(RowAt(t))
  /\ conc' = [conc EXCEPT !.todo = @ \ {t}]
  /\ UNCHANGED <<kind, events, heap, nextver, base, vecs, tomb, up, sock, vac, comp, pending>>

(* The index is valid.                                                      *)
ConcValid ==
  /\ conc.pc = "validate" /\ conc.todo = {}
  /\ conc' = [conc EXCEPT !.pc = "done"]
  /\ UNCHANGED <<kind, events, heap, nextver, files, up, sock, res, vac, comp, pending>>

-----------------------------------------------------------------------------
(* Daemon. *)

(* A search loads the index if it must and refreshes the cache it uses. *)
Search ==
  /\ up /\ conc.pc = "done"
  /\ \E e \in Loaded :
       /\ \/ e.stale /\ res' = {e}
          \/ ~e.stale /\ kind = "cagra" /\ \E c \in DeltaCopies(e) : res' = {c}
          \/ ~e.stale /\ kind = "flat" /\ \E c \in BfCopies(e) : res' = {c}
  /\ UNCHANGED <<kind, events, heap, nextver, files, up, sock, vac, comp, builds>>

(* evict_lru: a graph is saved first, whatever is in .delta or .tombstone. *)
Evict ==
  /\ up /\ res # {}
  /\ base' = IF kind = "cagra" THEN {e.rows : e \in res} ELSE base
  /\ res' = {}
  /\ UNCHANGED <<kind, events, heap, nextver, vecs, delta, tomb, stale, up, sock, vac, comp, builds>>

\* A build under way ends with the daemon; one of no rows never got there.
BuildLost == pending' = pending \cap {<<>>} /\ UNCHANGED conc

(* SIGTERM: graceful_shutdown saves every graph (a failed save is logged)   *)
(* and removes the socket.                                                  *)
Stop ==
  /\ "stop" \in events /\ up
  /\ \/ base' = IF kind = "cagra" /\ res # {} THEN {e.rows : e \in res} ELSE base
     \/ "io" \in events /\ base' = base
  /\ res' = {} /\ up' = FALSE /\ sock' = FALSE /\ comp' = {} /\ BuildLost
  /\ UNCHANGED <<kind, events, heap, nextver, vecs, delta, tomb, stale, vac>>

(* A crash leaves the socket file behind.                                   *)
Crash ==
  /\ "crash" \in events /\ up
  /\ res' = {} /\ up' = FALSE /\ comp' = {} /\ BuildLost
  /\ UNCHANGED <<kind, events, heap, nextver, files, sock, vac>>

(* main replaces the socket file that may be there.                         *)
Start ==
  /\ ~up /\ up' = TRUE /\ sock' = TRUE
  /\ UNCHANGED <<kind, events, heap, nextver, files, res, vac, comp, builds>>

Step ==
  \/ \E t \in Tids : Insert(t) \/ Delete(t)
  \/ VacuumStart \/ BulkDelete \/ VacuumHeap \/ VacuumCleanup
  \/ VacuumCommit \/ VacuumCancel
  \/ CompactRead \/ CompactFinish
  \/ ReindexGivesUp \/ OverdueBuild \/ Truncate
  \/ ConcReady \/ ConcSnapshot \/ ConcRead \/ ConcValid
  \/ \E t \in Tids : ConcInsert(t)
  \/ Search \/ Evict \/ Stop \/ Crash \/ Start

Next == Reindex \/ Step

Spec == Init /\ [][Next]_vars

-----------------------------------------------------------------------------
(* Properties. *)

(* Fail closed: a search that the daemon answers, however old its plan,    *)
(* finds every committed row, wherever its vector is - in the saved base,  *)
(* in VRAM only, in .delta or in the GPU copy of .delta.  (cuvs_aminsert:  *)
(* "the row is never lost".)                                               *)
Complete(a) == \A t \in LiveTids : \E i \in DOMAIN a : a[i] = RowAt(t)
NoLostRow == \A a \in Answers : Complete(a)

(* A TID is never returned with the distance of a vector its row does not  *)
(* have: the executor trusts the distance (xs_recheckorderby is false).    *)
NoForeignDistance ==
  \A a \in Answers : \A i \in DOMAIN a :
    a[i].tid \in LiveTids => a[i].ver = heap[a[i].tid].ver

(* The planner and the daemon agree: when the gates of cuvsamcostestimate   *)
(* are open, the daemon has or can load an entry and does not think it      *)
(* stale, and, if it runs, a usable .delta awaits the merge, whatever       *)
(* faults have happened - so a fresh plan never ends in an empty or failing *)
(* scan by itself.  The socket file a crash leaves behind keeps the gates   *)
(* open with no daemon there (pg_cuvs.c:1498-1500: UNAVAILABLE, counted by  *)
(* the breaker); even then the plan is not one the daemon will refuse to    *)
(* serve when it is back.                                                   *)
OpenGatesServe ==
  GatesOpen => /\ \E e \in Loaded : ~e.stale
               /\ up /\ kind = "cagra" => Answers # {}
=============================================================================

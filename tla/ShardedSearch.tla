---------------------------- MODULE ShardedSearch ---------------------------
(***************************************************************************)
(* The fan-out of a search over the shards of one index                    *)
(* (src/pg_cuvs_server.c, handle_search).  The daemon snapshots the shard  *)
(* handles under g_index_mutex, counts itself in e->inflight, releases the *)
(* mutex while the GPUs search, takes it again, finds the entry by OID and *)
(* maps the results to TIDs.  Three things protect what it reads in that   *)
(* window: eviction skips entries with inflight > 0, PostgreSQL's locks    *)
(* keep DROP and REINDEX out while the searching backend holds its own,    *)
(* and brute-force copies are only replaced when they have to be.  The     *)
(* locks end with the transaction: a backend that waited 600 s for its     *)
(* build, or was cancelled, has let go of them while the daemon builds on. *)
(*                                                                         *)
(* One index is modelled.  Every action of the daemon is a critical        *)
(* section of g_index_mutex; GiveUp is the backend's.                      *)
(* Memory is a set of identities: an entry's shard array with its handles  *)
(* is one, its brute-force copies are another.                             *)
(***************************************************************************)
EXTENDS Naturals, FiniteSets

CONSTANTS
  Threads,   \* connection threads of the daemon
  NBuilds,   \* bounds on the builds and the pieces of memory that are
  NIds       \* somewhere remembered at one time

ASSUME ThreadsAssumption == IsFiniteSet(Threads)
ASSUME BoundsAssumption == NBuilds \in Nat /\ NIds \in Nat

NoId == 0                              \* NULL, or no such build
Builds == 1..NBuilds
Ids == 1..NIds                         \* memory
Precisions == {"float32", "float16"}   \* cuvs.bf_precision
Modes == {"graph"} \cup Precisions     \* search_mode and bf_precision

VARIABLES
  entry,   \* the resident entry; build = NoId: none; mem = NoId: not sharded
  disk,    \* what a load would find: the build, its layout, and .vectors
  live,    \* the identities that are allocated
  snap,    \* what each thread took with it into the window; build = NoId: not in the window
  wait     \* threads whose backend still waits for the reply, holding its lock

vars == <<entry, disk, live, snap, wait>>

NoEntry == [build |-> NoId, mem |-> NoId, inflight |-> 0, bf |-> NoId, prec |-> "graph"]
NoSnap == [build |-> NoId, mem |-> NoId, bf |-> NoId]

Resident == entry.build # NoId
Sharded == entry.mem # NoId
InWindow == {t \in Threads : snap[t].build # NoId}
Pinning == {t \in InWindow : snap[t].mem = entry.mem}

(* Identities are compared only, so one nobody remembers can be used again.*)
Unused == Ids \ (live \cup {snap[t].mem : t \in Threads} \cup {snap[t].bf : t \in Threads})
UnusedBuilds == Builds \ ({entry.build, disk.build} \cup {snap[t].build : t \in Threads})
Fresh(ids) == CHOOSE i \in ids : TRUE

Init ==
  /\ entry = NoEntry
  /\ disk = [build |-> NoId, sharded |-> FALSE, vecs |-> FALSE]
  /\ live = {}
  /\ snap = [t \in Threads |-> NoSnap]
  /\ wait = {}

-----------------------------------------------------------------------------
(* Faulty variants, used by no specification.                              *)

\* find_lru_index without the inflight test.
EvictPinned ==
  /\ Resident
  /\ entry' = NoEntry
  /\ live' = live \ {entry.mem, entry.bf}
  /\ UNCHANGED <<disk, snap, wait>>

\* The count is released only if every shard answered.
FinishErrorKeepsPin(t) ==
  /\ t \in InWindow
  /\ \E ok \in BOOLEAN :
       entry' = [entry EXCEPT !.inflight = IF ok /\ Resident /\ @ > 0 THEN @ - 1 ELSE @]
  /\ snap' = [snap EXCEPT ![t] = NoSnap]
  /\ wait' = wait \ {t}
  /\ UNCHANGED <<disk, live>>

\* The count is released without asking whether it is positive.
FinishUnguarded(t) ==
  /\ t \in InWindow
  /\ entry' = [entry EXCEPT !.inflight = IF Resident THEN @ - 1 ELSE @]
  /\ snap' = [snap EXCEPT ![t] = NoSnap]
  /\ wait' = wait \ {t}
  /\ UNCHANGED <<disk, live>>

\* free_index_shards without the brute-force copies.
FreedHandlesOnly == {entry.mem}

\* DDL that does not wait for the locks of the searching backends.
ExclusiveIgnored == TRUE

-----------------------------------------------------------------------------
(* The entry.                                                              *)

Freed == {entry.mem, entry.bf}  \* free_index_shards

\* load_index, load_index_sharded: any request that misses, start-up, warm-up.
Load ==
  /\ ~Resident /\ disk.build # NoId
  /\ Unused # {}
  /\ LET m == IF disk.sharded THEN Fresh(Unused) ELSE NoId
     IN  /\ entry' = [NoEntry EXCEPT !.build = disk.build, !.mem = m]
         /\ live' = live \cup ({m} \ {NoId})
  /\ UNCHANGED <<disk, snap, wait>>

\* evict_lru, whoever needs the memory; find_lru_index skips pinned entries.
Evict ==
  /\ Resident
  /\ ~(Sharded /\ entry.inflight > 0)
  /\ entry' = NoEntry
  /\ live' = live \ Freed
  /\ UNCHANGED <<disk, snap, wait>>

-----------------------------------------------------------------------------
(* The brute-force copies of the shards, refresh_shard_bf_caches.          *)

BfReady(m) == disk.vecs /\ entry.bf # NoId /\ entry.prec = m

\* The copies are of the wanted precision already, or are freed and built
\* again, or are freed and cannot be built (no memory, no usable .vectors).
BfKept(m) == BfReady(m) /\ UNCHANGED <<entry, live>>

BfRebuilt(m, extra) ==
  /\ ~BfReady(m)
  /\ disk.vecs /\ disk.build = entry.build
  /\ Unused # {}
  /\ entry' = [entry EXCEPT !.bf = Fresh(Unused), !.prec = m, !.inflight = @ + extra]
  /\ live' = (live \ {entry.bf}) \cup {Fresh(Unused)}

BfUnavailable(m) ==
  /\ ~BfReady(m)
  /\ entry' = [entry EXCEPT !.bf = NoId, !.prec = IF disk.vecs THEN m ELSE @]
  /\ live' = live \ {entry.bf}

\* A request that refreshes the copies and does not open a window:
\* handle_search_batch, which searches under the mutex, and a search that
\* is refused with NO_VECTORS.
RefreshOnly(m) ==
  /\ Resident /\ Sharded
  /\ BfKept(m) \/ BfRebuilt(m, 0) \/ BfUnavailable(m)
  /\ UNCHANGED <<disk, snap, wait>>

-----------------------------------------------------------------------------
(* The fan-out.                                                            *)

\* handle_search up to the unlock.
OpenWindow(t, m) ==
  /\ Resident /\ Sharded
  /\ t \notin InWindow
  /\ \/ /\ m = "graph" \/ BfReady(m)
        /\ entry' = [entry EXCEPT !.inflight = @ + 1]
        /\ live' = live
     \/ m # "graph" /\ BfRebuilt(m, 1)
  /\ snap' = [snap EXCEPT ![t] = [build |-> entry.build, mem |-> entry.mem,
                                  bf |-> IF m = "graph" THEN NoId ELSE entry'.bf]]
  /\ wait' = wait \cup {t}
  /\ UNCHANGED disk

\* handle_search from the second lock: the entry is looked up by OID, so it
\* may be none, or another build's; a failed shard changes nothing here.
Finish(t) ==
  /\ t \in InWindow
  /\ entry' = [entry EXCEPT !.inflight = IF Resident /\ @ > 0 THEN @ - 1 ELSE @]
  /\ snap' = [snap EXCEPT ![t] = NoSnap]
  /\ wait' = wait \ {t}
  /\ UNCHANGED <<disk, live>>

\* The backend is cancelled or its 30 s are over: it closes the socket and
\* its transaction ends; the daemon's thread goes on.
GiveUp(t) ==
  /\ t \in InWindow \cap wait
  /\ wait' = wait \ {t}
  /\ UNCHANGED <<entry, disk, live, snap>>

-----------------------------------------------------------------------------
(* DDL.  DROP and REINDEX hold an AccessExclusiveLock, which conflicts     *)
(* with the lock of every backend that waits for a search.                 *)

Exclusive == wait = {}

\* overdue: the backend that asked for the build had the lock and has let
\* go of it, its 600 s over or its statement cancelled, while the daemon
\* built.  That changes nothing in the daemon, so any number of builds may
\* have been given up, at any moment at which nobody waited.
Commits(overdue) == overdue \/ Exclusive

\* CREATE INDEX or REINDEX: build_sharded, or handle_build and
\* finish_build_commit.  v: .vectors could be written.
Rebuild(sharded, v, overdue) ==
  /\ Commits(overdue)
  /\ UnusedBuilds # {} /\ Unused # {}
  /\ LET b == Fresh(UnusedBuilds)
         m == IF sharded THEN Fresh(Unused) ELSE NoId
     IN  /\ disk' = [build |-> b, sharded |-> sharded, vecs |-> v]
         /\ entry' = [NoEntry EXCEPT !.build = b, !.mem = m,
                                     !.inflight = IF sharded THEN 0 ELSE entry.inflight]
         /\ live' = (live \ Freed) \cup ({m} \ {NoId})
  /\ UNCHANGED <<snap, wait>>

\* The registry is full: the new build is on disk only.
RebuildDeferred(sharded, v, overdue) ==
  /\ Commits(overdue)
  /\ ~Resident
  /\ UnusedBuilds # {}
  /\ disk' = [build |-> Fresh(UnusedBuilds), sharded |-> sharded, vecs |-> v]
  /\ UNCHANGED <<entry, live, snap, wait>>

\* A build that fails while persisting may have removed .vectors, and a
\* failed rename removes .tids; the entry stays.
RebuildFails(v, committing, overdue) ==
  /\ Commits(overdue)
  /\ disk' = [build   |-> IF committing THEN NoId ELSE disk.build,
              sharded |-> ~committing /\ disk.sharded,
              vecs    |-> v /\ disk.vecs]
  /\ UNCHANGED <<entry, live, snap, wait>>

\* handle_drop.  A DROP that its backend no longer waits for is of an index
\* that nobody can lock any more.
Drop ==
  /\ Exclusive
  /\ entry' = NoEntry
  /\ live' = live \ Freed
  /\ disk' = [build |-> NoId, sharded |-> FALSE, vecs |-> FALSE]
  /\ UNCHANGED <<snap, wait>>

LockedDdl ==
  \/ \E s, v \in BOOLEAN : Rebuild(s, v, FALSE) \/ RebuildDeferred(s, v, FALSE)
  \/ \E v, committing \in BOOLEAN : RebuildFails(v, committing, FALSE)
  \/ Drop

OverdueCommit == \E s, v \in BOOLEAN : Rebuild(s, v, TRUE) \/ RebuildDeferred(s, v, TRUE)
OverdueFailure == \E v, committing \in BOOLEAN : RebuildFails(v, committing, TRUE)

Ddl == LockedDdl \/ OverdueCommit \/ OverdueFailure

Next ==
  \/ Load \/ Evict \/ Ddl
  \/ \E m \in Precisions : RefreshOnly(m)
  \/ \E t \in Threads : \/ \E m \in Modes : OpenWindow(t, m)
                        \/ Finish(t) \/ GiveUp(t)

Spec == Init /\ [][Next]_vars

-----------------------------------------------------------------------------
(* History: which fan-outs met one of the four ways in which what they     *)
(* read can be freed.                                                      *)

VARIABLES
  excused,    \* threads in the window that met one
  robbed,     \* the resident entry's count was lowered by a fan-out that it never counted
  overtaken   \* threads awaited while a build was committed that its backend had given up

hvars == <<vars, excused, robbed, overtaken>>

\* (1) DDL under the lock while a fan-out runs whose backend has given up.
\* (4) A build whose backend has given up, whoever waits for a search.
DdlH ==
  /\ \/ LockedDdl /\ UNCHANGED overtaken
     \/ OverdueCommit /\ overtaken' = wait
     \/ OverdueFailure /\ UNCHANGED overtaken
  /\ excused' = InWindow
  /\ robbed' = (robbed /\ entry'.mem = entry.mem)

\* (2) A fan-out that began on an earlier allocation returns and lowers the
\*     count of the present entry, now or before this fan-out began.
Robs(t) == Sharded /\ entry.inflight > 0 /\ snap[t].mem # entry.mem

FinishH(t) ==
  /\ Finish(t)
  /\ excused' = (excused \cup (IF Robs(t) THEN Pinning ELSE {})) \ {t}
  /\ robbed' = (robbed \/ Robs(t))
  /\ overtaken' = overtaken \ {t}

\* (3) A request for brute force at another precision replaces the copies.
Replaced(m) ==
  IF m \in Precisions /\ m # entry.prec THEN {u \in InWindow : snap[u].bf # NoId} ELSE {}

OpenWindowH(t, m) ==
  /\ OpenWindow(t, m)
  /\ excused' = excused \cup Replaced(m) \cup (IF robbed THEN {t} ELSE {})
  /\ UNCHANGED <<robbed, overtaken>>

RefreshOnlyH(m) ==
  /\ RefreshOnly(m)
  /\ excused' = excused \cup Replaced(m)
  /\ UNCHANGED <<robbed, overtaken>>

InitH == Init /\ excused = {} /\ robbed = FALSE /\ overtaken = {}

NextH ==
  \/ DdlH
  \/ Load /\ UNCHANGED <<excused, robbed, overtaken>>
  \/ Evict /\ UNCHANGED <<excused, overtaken>> /\ robbed' = FALSE
  \/ \E m \in Precisions : RefreshOnlyH(m)
  \/ \E t \in Threads : \/ \E m \in Modes : OpenWindowH(t, m)
                        \/ FinishH(t)
                        \/ GiveUp(t) /\ overtaken' = overtaken \ {t} /\ UNCHANGED <<excused, robbed>>

SpecH == InitH /\ [][NextH]_hvars

-----------------------------------------------------------------------------
(* Properties.                                                             *)

(* The inductive invariant: what keeps a fan-out's memory alive.           *)

\* Only a resident entry has shards, only shards have brute-force copies,
\* and the two are different memory.
EntryShape ==
  /\ Sharded => Resident
  /\ entry.bf # NoId => Sharded
  /\ Sharded => entry.mem # entry.bf

\* A fan-out took shards with it; a backend waits for fan-outs only.
WindowShape ==
  /\ \A t \in InWindow : snap[t].mem # NoId
  /\ wait \subseteq InWindow

\* A fan-out without a cause still reads the memory of the resident entry,
\* and its brute-force copies are still backed by .vectors.
Held ==
  \A t \in InWindow \ excused :
    /\ snap[t].mem = entry.mem
    /\ snap[t].bf # NoId => snap[t].bf = entry.bf /\ disk.vecs

\* The count is exact until an entry is robbed, and from then on all its
\* fan-outs are excused.
CountExact == Sharded /\ ~robbed => entry.inflight = Cardinality(Pinning)
RobbedShape == robbed => Sharded /\ Pinning \subseteq excused

\* What a load would find is what is resident and what is awaited, builds
\* without a lock apart.
DiskShape ==
  /\ Resident => disk.build \in {NoId, entry.build}
  /\ \A t \in wait \ overtaken : disk.build \in {NoId, snap[t].build}

EntryType == [build : Builds \cup {NoId}, mem : Ids \cup {NoId}, inflight : Nat,
              bf : Ids \cup {NoId}, prec : Modes]
DiskType == [build : Builds \cup {NoId}, sharded : BOOLEAN, vecs : BOOLEAN]
SnapType == [build : Builds \cup {NoId}, mem : Ids \cup {NoId}, bf : Ids \cup {NoId}]

(* Types.  inflight is a C int that several fan-outs of several builds     *)
(* lower: it never becomes negative.                                       *)
TypeOK ==
  /\ entry \in EntryType
  /\ disk \in DiskType
  /\ live \subseteq Ids
  /\ snap \in [Threads -> SnapType]
  /\ wait \subseteq Threads
  /\ excused \subseteq Threads
  /\ robbed \in BOOLEAN
  /\ overtaken \subseteq Threads

(* What a fan-out reads without the mutex (handles, shard array,           *)
(* brute-force copies) stays allocated until it is back, whatever is       *)
(* evicted, loaded, rebuilt or dropped meanwhile, unless it met one of the *)
(* four causes (handle_search, find_lru_index, refresh_shard_bf_caches).   *)
NothingFreedUnexplained ==
  \A t \in InWindow \ excused :
    {snap[t].mem, snap[t].bf} \ {NoId} \subseteq live

(* The count of a sharded entry is never more than the number of fan-outs  *)
(* that use its shards: no way out of handle_search leaves a pin behind    *)
(* that would keep the index in GPU memory for ever (find_lru_index).      *)
PinsNeverStuck ==
  Resident /\ Sharded => entry.inflight <= Cardinality(Pinning)

(* A fan-out whose backend still waits finds the build that it searched,   *)
(* or none: row numbers of one build are never mapped through the TIDs of  *)
(* another in an answer that somebody reads, unless a build that nobody    *)
(* waits for any more was committed meanwhile (handle_search after the     *)
(* second lock, handle_build and build_sharded).                           *)
AwaitedAnswersMapped ==
  \A t \in wait \ overtaken : Resident => entry.build = snap[t].build

(* All that is allocated for the index belongs to its entry: no path that  *)
(* replaces, drops or evicts an entry leaves shards or brute-force copies  *)
(* in GPU memory (free_index_shards and its callers).                      *)
NothingLeaked == live = Freed \ {NoId}

IInv ==
  /\ TypeOK /\ EntryShape /\ WindowShape /\ Held
  /\ CountExact /\ RobbedShape /\ DiskShape
  /\ NothingLeaked /\ PinsNeverStuck /\ AwaitedAnswersMapped

(* What the comment at the increment of inflight says: eviction cannot     *)
(* free the shard handles of a fan-out that somebody waits for.            *)
PinHolds == \A t \in InWindow \cap wait : snap[t].mem \in live
=============================================================================

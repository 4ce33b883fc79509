# pg_cuvs: TLA+ models, TLC runs and TLAPS proofs

pg_cuvs adds GPU vector indexes to PostgreSQL. An extension (`src/src/pg_cuvs.c`) implements the
access methods `cagra`, `flat` and `ivfpq`; a sidecar daemon (`src/src/pg_cuvs_server.c`) holds the
indexes in GPU memory and answers over a Unix socket. What makes the system hard is that the truth
(the heap) and the index live in different processes with no common transaction: the index is spread
over files, the daemon's memory and sidecars that backends write, and the two sides decide
independently whether an index is usable.

This directory models the parts that carry that logic, checks them with TLC and proves what matters
for every size with TLAPS.

## 1. Inventory

| Part | State | Operations | What is hard | What must hold |
|---|---|---|---|---|
| Write path (pg_cuvs.c 4162-4494) | `.delta`, `.tombstone`, `.stale` | aminsert, ambulkdelete, amvacuumcleanup, ambuild, `pg_cuvs_compact()` | rows move between VRAM, `.delta` and the saved base; the daemon may be down, crash, or answer too late | a served search returns every committed row once, with its own vector |
| Planner gates (1424-2124) | none (reads files) | cuvsamcostestimate | decides from files what the daemon knows from memory | open gates mean that the daemon, when it runs, will serve |
| Search in the backend (3232-4147) | scan state | merge of `.delta`, tombstone filter | must merge exactly what the daemon did not | no duplicate, no loss |
| Daemon registry (pg_cuvs_server.c 130-260, 1324-2119) | `g_indexes`, `g_n_indexes` | load, evict, register a build, compact, drop | structs are shifted and reused, every path has its own list of fields to free and set | one entry per index; entries own what they point to; nothing leaks; eviction loses nothing |
| Micro-batch queue (402-442, 3007-3066, 7976-8313) | queue of pointers to stack frames, worker's array, `g_shutdown` | enqueue, wait, take, dispatch, wake, fail all | two mutexes never held together, SIGTERM at any time | no dangling or lost request, everybody leaves |
| VRAM budget (646-750, 1953-2103) | per-GPU budgets, `g_pending_build_vram`, estimates per entry | ensure_vram, pick_gpu_for_index, evict_lru, reservations, caches | estimates, unsigned differences, evictions that free nothing, builds outside the mutex | within the budget; no needless refusal or eviction; the loops end |
| Sharded fan-out (3461-3753) | `inflight` pins | search without the lock | frees during the window | nothing is freed while it is searched |
| Artifact commit and start-up (4394-5670, 1325-1946) | temporary and final files | write, fsync, rename, unlink, load | crash or failure between renames; late builds | what is loaded belongs together and is not older than what was confirmed |
| Object store (cuvs_objstore.c) | snapshots, manifests | upload, download | files change while they are read; downloads replace files without a lock | the same |
| Warm-up pool (318-641, 1889-1946) | job ring, cold registry | enqueue, download, load | queue limit, DROP and search in between | a queued index is settled |
| DROP hook (pg_cuvs.c 190-362), gc (5718-6032) | pending drops per subtransaction | object access, (sub)xact callbacks, orphan scan | rollback of subtransactions, two-phase commit, daemon down | a live index keeps its files, a dropped one is gone |
| Compaction worker (pg_cuvs_compaction.c) | list of candidates | REINDEX CONCURRENTLY | swaps OIDs, drops the old index late | the same |
| IPC client (cuvs_ipc.c), daemon threads (7814-7962), corpus builder (cuvs_build_corpus.c), parallel build (pg_cuvs.c 2191-2790) | named segments, descriptors, flocks, frames | stage, send, receive, clean up, reap; scan, detach, gather | either side dies, gives up or speaks another version; names outlive processes | nothing is left behind, nothing still needed is taken, everybody returns |
| Helpers (cuvs_util.c) | circuit breaker | batch grouping, shard count, breaker, encoders | | |
| cuVS wrapper, HNSW pages, statistics | | | numerics, data conversion, counters | not modelled, see section 7 |

Interaction: backends send one request per connection; each connection has a thread in the daemon;
almost everything the daemon does happens under `g_index_mutex`. Backends and daemon also share the
index directory and `/dev/shm`, which no lock protects.

## 2. Modules

| Module | Models |
|---|---|
| `WritePath` | one index: heap, base, `.vectors`, sidecars, resident entry, VACUUM, COMPACT, REINDEX, CREATE INDEX CONCURRENTLY, daemon up or down |
| `WritePathCauses`, `WritePathProofs` | `WritePath` with a history variable: which rows met a known cause of a wrong answer |
| `IndexRegistry`, `IndexRegistryProofs` | `g_indexes` and the ownership of what entries point to |
| `BatchQueue`, `BatchQueueProofs` | micro-batch search queue and worker |
| `ShardedSearch`, `ShardedSearchProofs` | the window in which a sharded search runs without the mutex |
| `RecoverableBuild` | abstract: what the files of one index promise |
| `ArtifactCommit`, `ArtifactCommitProofs` | the files of one index and everything that replaces them; implements `RecoverableBuild` |
| `VramBudget`, `VramBudgetProofs` | GPU memory: budgets, reservations, admission and eviction |
| `IndexLife`, `IndexLifeProofs` | an index across catalog, files, daemon and object store: DROP hook, gc, warm-up, compaction worker |
| `Handover`, `HandoverProofs` | a call between a backend and the daemon, the corpus of a build, the reaper |
| `MC...` | constants for TLC |

Beside some definitions stands a *variant* that no specification uses: a plausible slip in that code, with
which a property was shown to be able to fail (`PROJECT.json`, "mutants").

### WritePath
A row is a TID with a version, the version standing for its vector. `base` is the pair
`.tids`/`.cagra` as one row list, `vecs` is `.vectors`, and `Gen` is the CRC over TIDs by which the
sidecars name the build they belong to. `res` is the resident entry with its two caches (GPU copy of
`.delta`, brute-force copy of `.vectors`); `dkey`/`bfkey` say whether the `st_mtime` recorded with a
copy still equals the file's. `Answers` is the set of results an execution may return now, one per way
the caches may be refreshed, with only the tests made at execution time, since the plan may be old.

`aminsert` is all of cuvs_aminsert (stale test, EXTEND, `.delta` append, mark_stale); `Insert` calls it for a new
row and `ConcInsert` for a validated one. VACUUM is
`VacuumStart`, `BulkDelete`, `VacuumHeap`, `VacuumCleanup`, `VacuumCommit` or `VacuumCancel`, because
INSERTs, searches and crashes fall between these. `pg_cuvs_compact()` is split at the point where
handle_compact has read the tombstones but does not hold the lock.

`Reindex` is a REINDEX whose backend gets its reply: its lock covers the heap scan, the build and the unlink of the
sidecars, so it is one step. One whose backend gives up after 600 s is two: `ReindexGivesUp` leaves the scanned rows in
`pending`, the transaction aborts and writers, VACUUM and searches go on; `OverdueBuild` is handle_build's commit,
whenever it comes (one that fails is one that never comes, but for the `.vectors` it may remove). CREATE INDEX CONCURRENTLY goes through the phases of `conc`: the
build (`scan`; writers do not know of the index), `ready` (they call aminsert), `snapshot`, `validate` (the rows of
the snapshot that ambulkdelete does not report are inserted) and `done`. No query uses the index before; one that fails on the way
stays in the catalog, invalid, and nobody searches it (what becomes of its files is in `IndexLife`). REINDEX INDEX
CONCURRENTLY, which the compaction worker uses too, builds a new index with an OID of its own in the same phases: it is the index of the
model, and the old one is another instance. `sock` is the socket file, which is all that cuvs_daemon_socket_ready looks at: an
orderly stop removes it, a crash does not. `events` is the set of misbehaviours of the environment that this history may
show; it is chosen once from `Scenarios`, so that one run can follow several combinations and another ask which events
a property survives.

Abstractions: distances are exact and `k` is large; MVCC is reduced to "committed and not deleted"
(an INSERT and its commit are one step); the renames of one commit are one step; the delete-drift gate
and the circuit breaker are omitted (they only close more gates); `cuvs.delta_search = gpu` and
`cuvs.max_delta_rows = 0` are omitted, and so is `cuvs.search_mode = brute_force` on a CAGRA index; the tombstone cap counts distinct TIDs; creating `.stale` itself
does not fail; a COMPACT that would leave no row is taken to fail in the GPU merge; the heap takes the
first free line pointer; one overdue build is followed at a time, and none is left by a concurrent build. `KeyAfterWrite`, `Insert`, `Delete`, the heap phases of VACUUM and
the phases of CREATE INDEX CONCURRENTLY stand for PostgreSQL and the file system, which are not in the repository.

### WritePathCauses
The code does lose, duplicate or misplace rows in some histories. Rather than switching those events
off, this module records for each step the rows it *excuses*:

1. `LostWithDaemon`: the daemon went down holding rows that EXTEND had put in VRAM only;
2. `Unmarked`: a row could not be appended to `.delta` while the daemon was down, so that no `.stale` was made;
3. `SameSecond`: `.delta` was appended to in the second of its last GPU copy;
4. `Reused`: a row got a TID the index still knows (VACUUM's COMPACT comes after the heap pass; TRUNCATE leaves the index alone);
5. `Doubled`: EXTEND was carried out although the backend gave up waiting, and the row went to `.delta` too;
6. `Overtaken`: an overdue build is committed, without the rows it had not read, or with a `.delta` that has some of its rows once more;
7. `Revalidated`: CREATE INDEX CONCURRENTLY inserts a row whose writer had put it into VRAM or `.delta`, which ambulkdelete does not report.

`NoUnexplainedLoss`, `NoUnexplainedDuplicate` and `NoUnexplainedDistance` say that these seven are the
*only* ways to a wrong answer for a row since the last REINDEX. A REINDEX clears the
history but for the TIDs of a COMPACT that is still under way, which would remove them from the new build (a late form of `Reused`).

### IndexRegistry
`reg.slots` is the C array up to the highest slot ever used and `reg.n` is `g_n_indexes`, so slots past the
end keep what was there, as in C. A pointer is named after what it points to (field, index, layout) and
`reg.live` is the bag of what is allocated, which makes use after free (`Holders(p)` exceeds the
copies), sharing and leaks visible. The fields are grouped: `graph` (handle, ivfpq_handle, shards), `rev`
(reverse TID map), `bf` (brute-force copies), `dl` (delta copy), `hn` (hnsw_idx). Every action is one critical
section. Abstractions: the LRU order and the GPU placement are left open (any entry may be the victim);
failing allocations are not modelled, and the inflight pin is in `ShardedSearch`; EXTEND is left out, since it keeps the layout.

### BatchQueue
A thread's `pc` runs idle, unlocked, wait/direct, replied. The queue holds threads, because a thread has one
request on its stack. `RunGroup` looks the index up again: what it finds is a fresh choice, since DROP,
REINDEX and MARK_STALE run whenever `g_index_mutex` is free. `main` follows the accept loop: it tests
`g_shutdown` (`TestShutdown`), blocks in `accept()` and is released by a connection, by a failure, or by a SIGTERM
that happens to be handled in main while it blocks (`Sigterm` chooses); `warm` is the warm-up threads, which
graceful_shutdown joins. Fairness: weak fairness of the worker, of main's test, of a warm-up thread, of
process exit once main is out of the loop and both are gone, and of a woken thread's return from
`pthread_cond_wait`. These are threads of one process that the kernel schedules; new requests and connections,
SIGTERM, what it interrupts and the fate of the index get no fairness, which is why `EveryWaiterLeaves` and
`ShutdownCompletes` except a main that stays in `accept()` for ever (section 3, other disagreements).

### ShardedSearch
One index. `entry` is the resident entry (`mem` its shard array and handles, `bf` their brute-force copies,
`inflight` the count), `disk` what a load would find, `live` the allocated identities, and `snap[t]` what a
thread took with it when it released `g_index_mutex`. `OpenWindow` is handle_search up to the unlock, `Finish` all
that follows the second lock, `RefreshOnly` a batch search or a refused one, which may replace the
brute-force copies. `wait` is the set of threads whose backend still waits and holds its lock. DDL under
its own lock needs it empty (`Exclusive`, PostgreSQL's AccessExclusiveLock); a build whose backend waited 600 s
(cuvs_ipc.c:1038) or was cancelled has lost the lock and is committed whoever searches (`overdue`). `GiveUp` is
the cancel of a search or the end of its 30 s budget, after which the daemon's thread runs on. A search that misses is `Load` followed by `OpenWindow`: the
state between is also left by a batch search. CREATE INDEX is `Rebuild` without an entry; OIDs may be
used again. The history variables `excused` and `robbed` record four causes: (1) DDL behind a
backend that gave up, (2) a fan-out lowers the count of an entry that never counted it, (3) brute force at another
precision, (4) an overdue build; `overtaken` are the awaited searches that met (4): row numbers of the old build
are mapped through the TIDs of the new one, which is the exception in `AwaitedAnswersMapped`. Abstractions: the unsharded form of the entry has no memory of its own here (IndexRegistry has
it), several shards are one identity, stale and mismatched requests, which are refused before the window,
are left out.

### ArtifactCommit and RecoverableBuild
A version of the index is a number in the order of the heap snapshots, a file holds the version it belongs
to, and `.tids` holds only a list, which two versions may share: all CRCs are CRCs of that list. A commit is a
list of operations (`Put`, `Try`, `Del`, `Sweep`) that `CommitStep` carries out one by one and `CommitFails`
breaks off with the unlinks of the code's error path; `Crash` may come between any two. `Served` is what
load_index makes of the files. Uploads read one file after the other without a lock, first to hash and then
to send; a download replaces files and compares hashes. `Cancel` lets the backend go while its build runs on.

`RecoverableBuild` says: a load finds one whole version, or nothing, and never one older than the last
that was confirmed; the stored version changes or is lost only while an attempt is open. `ArtifactCommit`
implements it (`FilesAreRecoverable`; `Stored`, `acked`, `open` and `Spoiled` are the refinement mapping), except after one
of five accidents, which the code does not guard against and which `why` records:
`tear` (a kill between .tids and its graph, beside an old graph that carries no CRC), `late` (a build
or save replaces the files of a newer version), `mixed` (an upload read files of two versions), `old` (a
snapshot older than what was confirmed is restored), `race` (a download and a commit, or a load, at the same time). A sixth, `twin` (two
versions with equal TID lists), can only spoil `.vectors`. Each of the six was shown to be necessary: without
any one of them TLC finds a counterexample.

### VramBudget
Memory is a set of blocks, each on a GPU (`at`), with what it really takes (`act`), and with what the code
counts (`acc`) for which GPU (`cnt`). `task` is the holder of `g_index_mutex` on its way through GPU choice, the
budget loop and the free-memory loop of ensure_vram, allocation, slot and registration; only the unsharded build leaves the mutex, with a
reservation (`job`, `pend`). `Headroom` keeps the size_t difference, which wraps when the budget was lowered
below the usage. Which entry is least recently used is a free choice. Fairness: weak fairness of the
holder of the mutex, a thread of one process that nothing blocks.

### IndexLife
`xact` is a stack of subtransactions with their states to roll back to; `pending` are the entries of
`cuvs_pending_drops`, `notify` those still to be sent after COMMIT. Reductions, each of which only removes
interleavings that commute: no other actor moves inside a nested subtransaction, a savepoint is set only while gc and the
compaction worker rest, and a subtransaction is named by its depth. A snapshot exists for every built
CAGRA index; the cold registry does not overflow. `marred` records the accidents after which a dropped
index may stay behind: its CREATE was rolled back, its backend gave up a build that the daemon finished, the DROP was
committed by COMMIT PREPARED, the daemon was not listening, a warm-up job was under way, start-up entered it
twice, or the daemon stopped before it came to a DROP that nobody waited for. `dropping` are these DROPs: a backend
waits 30 s (cuvs_ipc.c:192) for a daemon whose thread waits for `g_index_mutex`, and commits with a WARNING;
`building` are the builds that go on in the same way. A concurrent rebuild that fails (`RebuildFails`) leaves
its index in the catalog, marked `invalid`, without files or with those of a late build; CREATE INDEX CONCURRENTLY
fails alike. `taken` are the indexes a gc took
before their creation was committed or while a daemon that did not answer had them in memory, `stuck` those entered twice or refused by a full queue. Fairness: the
daemon finishes its start, and a warm-up thread goes on; both are code without waits on others. Downloads
are fair in that they end, in success or failure.

### Handover
`call` is the client's side, `thr` the daemon's thread, `conn` the socket. `names` are objects with a name
under `/dev/shm`, `refs` descriptors and mappings, `locked` the flocks, `young` what changed less than
REAP_MIN_AGE_S ago, `lost` names whose process died. A command is described by what it exchanges
(`SearchCall`, `BuildCall`, ...): segments, corpus, number of frames, kind of reply; the actions are
common to all, as the code of the calls is. A reaper (`reap`) is at one name at a time and takes the stat, the open, the
flock and the unlink as four steps, between which a build goes on; `aged` remembers what a stat found old. The last
resize of a corpus changes its file, and so its age, only if the size differs (`Resized`). Deaths of either side may come between any two steps; `Terminate` is a FATAL exit, which skips PG_FINALLY.
Fairness: client and thread go on when they can. Time-outs and failures are *not* fair: `CallsSettle` says that
every call ends because the other side answers or closes its socket. Calls share no state, so one is
enough; the parallel build has three participants. Reapers disturb each other only at the flock, so there is one.

## 3. Runs

| Run | Bounds | States | Shows |
|---|---|---|---|
| `batch_queue` | 3 threads, 2 keys, 2 slots | 151 k | the queue is full with a third thread outside, two groups form; four invariants and two liveness properties |
| `write_path` | CAGRA and flat, 3 TIDs, 3 versions, delta cap 1; every event but "overdue"; on CAGRA also overdue builds with reuse of line pointers | 1.58 M | loss, duplicates and foreign distances only by the named causes, CREATE INDEX CONCURRENTLY and late commits included; open gates; sidecars keep their cap |
| `registry` | 3 indexes, 2 slots, 2 layouts; COMPACT, DROP | 26 k | one entry per index, ownership, no leak, map fits, eviction loses nothing |
| `registry_all_events` | as above with an IVF-PQ index and every event | 0.3 M | ownership of everything but hnsw_idx, and no leaked graph, delta copy or map |
| `sharded_search` | 3 threads, 2 builds, 4 pieces of memory, 2 precisions | 1.0 M | a late thread of an old build beside two on the new one; frees only by the four causes, no stuck pin, awaited answers mapped right but for overdue builds, no leak |
| `artifact_commit` | 2 versions, 2 shard files, all kinds and events | 0.55 M | the refinement of `RecoverableBuild`; the resident entry is whole; `.vectors` fits the graph |
| `vram_budget` | 2 GPUs, 3 indexes, 2 slots, budgets below and above what two need | 0.37 M | reservations, counting, budget, needless refusals and evictions, termination |
| `index_life` | an old and a new index, 3 levels, 1 queue slot, 1 warm-up thread; every event but "late", or "late" with two others | 0.75 M | live indexes keep their files, dropped ones are gone, warm-ups settle; a late DROP or build harms no live index, and leaves something behind only if the daemon stops first |
| `handover` | every kind of call, 3 participants, 1 reaper | 244 k | nothing left behind, nothing needed is reaped, everybody returns |
| `sharded_search_x_pin` | violation | | a search that its backend waits for is evicted, because a cancelled one lowered the count after a REINDEX |
| `write_path_x_crash` | violation | | a row absorbed by EXTEND is lost by a crash although "the row is never lost" |
| `write_path_x_truncate` | violation | | after TRUNCATE old vectors are returned under new rows' TIDs |

Two indexes and an array of two slots are the smallest case where a shift moves an entry, three indexes
the smallest where a slot past the end is refilled by a third one. One delta record and two rows are
the smallest case where a row is in the graph, the next in `.delta` and a third refused; one row inserted between an abandoned
REINDEX and its commit is enough to be lost, doubled or, on a reused TID, mismeasured. Two builds and four
pieces of memory are enough for an old build and a new one, both with shards and brute-force copies; a third
build would only meet fan-outs that `InWindow` excuses alike. Two versions are enough for
every accident of `ArtifactCommit`, since each is about an old and a new one; three would only repeat
them. Overdue builds beside
every other event, and on a flat index, are too large for one run; the proofs cover them. Two GPUs, budgets of which one is below and one near the memory of a GPU, and one index
each of the unsharded, sharded and flat form give every path of admission. In `index_life` two indexes fill a queue
of one slot, and three levels let a drop be released to its parent and then rolled back; subtransactions are followed in
the first scenario only, since a late answer is about whole commits. `batch_queue` and `artifact_commit`
disable the deadlock check: after SIGTERM the daemon is meant to stop, and when the versions are used up nothing is left to do.

### Other disagreements met while modelling, not kept as runs

- Cause (2) of WritePathCauses against requirement WRITE-01, (3) against the comment at pg_cuvs_server.c:914, (5)
  against pg_cuvs.c:4315. A plan that is older than the staleness of its index ends in an empty scan (pg_cuvs.c:3769) against WRITE-02.
- Cause (7) makes CREATE INDEX CONCURRENTLY and the REINDEX INDEX CONCURRENTLY of the compaction worker return a row twice that was
  written while they ran, against the premise of ADR-050 (design/decisions.md:2074) that REINDEX CONCURRENTLY works correctly with this access method;
  its tests (test/specs/reindex_concurrent_delete.spec) delete rows and insert none.
- load_index fills a slot without `hnsw_idx` (1777), so that after an eviction an entry can inherit
  another index's HNSW graph, against the comment at 247 (enable `hnsw` in `Registry.cfg`: `OwnsPointers` fails).
- build_sharded keeps the reverse map and forgets main_bf_idx of the entry it replaces (enable `reshard`:
  `MapMatches`, `NoLeak`); load_index does not deduplicate as the comment at 1851 says (enable `warmup`:
  `OnePerIndex`); a failed commit rename removes files of the previous build (enable `reshard` and `io`:
  `EvictionLosesNothing`), against 5030 ("or it fails with no state change (existing index, if any, untouched)").
- A SIGTERM that comes between the test of g_shutdown (8773) and accept() (8775), or that another thread handles, stops
  nothing until the next connection, against the comment at 8607; and a request queued after
  the worker's last batch_fail_all waits until main exits, although batch_worker_thread (8302) says "producers never hang". Both
  are the exceptions in the two liveness properties of `BatchQueue`, which fail without them.
- Cause (6) loses a row that EXTEND absorbed before the late commit of a REINDEX, against pg_cuvs.c:4255 ("the row is
  never lost"; `NoLostRow` fails with the scenario {"overdue"}).
- If the batch worker cannot be started (8769) the daemon serves on, "immediate dispatch only", and every coalesced search waits for ever. Not
  modelled: `BatchQueue` starts with the worker. Cause (3) of ShardedSearch against the comment at
  3516, cause (1) against 6155 ("so no search can be in-flight on it"); a late thread of a cancelled search also
  writes the shard statistics of the new entry, which may have fewer shards or none (3628).
- cuvs_util.c:599 says that `needed` "mirrors estimate_vram_bytes() ... exactly"; that one counts 64 edges
  a row by default, this one 16, so one shard is chosen for an index that admission refuses.
- build_sharded declares and releases reservations of its shards (4681, 4753) but never makes one.
- pg_cuvs.c:203: "Daemon-down at commit is non-fatal: WARNING, and cleanup falls to a restart"; the hint at
  308 says "a daemon restart will NOT clean them", and the second is what the code does.
- The start-up scan for `.relfilenode` files (1905) accepts any `<db>_<idx>.*`, since sscanf does not test what
  follows the last conversion: an index without a graph gets one cold entry per file, of which DROP and warm-up
  see only the first.
- pg_cuvs.c:1225: "only dead-owner segments are unlinked, never a live build's". cuvs_corpus_detach releases the
  flock (cuvs_build_corpus.c:279), so partials of a live parallel build can be reaped by any process that loads the
  library: when they have not changed for 10 s, or when the last resize and the detach come between the reaper's stat
  (325) and its flock (the exceptions in `LiveCorpusKept`).
- pg_cuvs.c:2695 says PG_FINALLY reclaims the corpus "on every path"; a FATAL exit is not one of them.
- handle_export_adjacency holds the mutex "while extracting from VRAM to prevent eviction" (6257), but reads
  `tids` of the entry after it released it (6274); handle_export_hnsw_shm serialises the graph without it. Not
  modelled: the hazard is that of ShardedSearch without its pin.

## 4. Proofs

Every safety property of the passing runs is proved for all values of the constants, the refinement of
`RecoverableBuild` included; in `vram_budget` and `registry` some of the proofs have a hypothesis, given below. All
proofs have the same layout: lemmas about the helpers, an inductive invariant (`IInv`; in `WritePathProofs`
`StateInv` and `OwedInv`), one lemma per action that it is preserved, and the properties as consequences.
Beside the types of the constants the
proofs assume nothing but what is said here.

### BatchQueueProofs
For any sets of threads and keys and any capacity of at least one:
`TypeCorrect` (`TypeOK`, including the bound on the worker's unchecked array), `NeverDangling`,
`NeverOrphaned` and `RepliesComputed`.

The four properties are not inductive alone. `IInv` adds: the batch is empty outside
dispatch (`BatchOnlyInDispatch`; otherwise TakeQueue could overwrite members that are still waiting), a
thread between its two critical sections is not `done` (`UnlockedNotDone`; otherwise Enqueue would queue a
request that is about to return), and every member of the batch whose group has run has an outcome
(`RanHaveOutcome`; it carries RepliesAreComputed from RunGroup to FinishBatch). Lemmas about sequences
(members and distinctness of an appended sequence) are stated once.

### ShardedSearchProofs
For any finite set of threads and any number of builds and pieces of memory, every property of the
run `sharded_search`. `IInv` adds to them: a fan-out without a cause reads the memory of the resident
entry and its copies are backed by `.vectors` (`Held`), the count is exact until the entry is robbed
(`CountExact`), a robbed entry has only excused fan-outs (`RobbedShape`; without it an eviction at count
zero could not be excluded), what a load would find is what is resident and, overtaken searches apart, awaited (`DiskShape`; it carries
`AwaitedAnswersMapped` over an eviction and a reload), and two facts on the shape of entry and
snapshots. Counting uses the cardinality theorems of the library. Assumption beside the types: DDL whose
backend still waits for it has PostgreSQL's lock (`Exclusive`); overdue builds assume nothing.

### WritePathProofs
For any number of TIDs and versions, both access methods, any `cuvs.max_delta_rows` of at least one and any
scenarios.

`StateInv` is the invariant of `Spec`: caps of the sidecars, the shape of base, entry, VACUUM and COMPACT, a
flat index's `.vectors` equal to its base and its copy equal to its rows (`FlatOK`), and that marker, stale
flag and daemon agree (`EntryOK`: an entry is stale exactly when `.stale` is there, there is none while the
daemon is down, and none without a saved base), and what each phase of a concurrent build implies (`ConcInv`). From it follow `WritePathTypeOK` and `GatesServe`.
`OpenGatesServe` alone is not inductive because the planner reads only files: that the entry agrees with
them is what has to be carried through failures, crashes and reloads.

`OwedInv` is the invariant of `SpecH` about the *owed* TIDs, those that are live and not excused. `Held`: every
row list there is (saved base, rows in VRAM, `.delta`) has an owed TID with the version of the heap and at most
once (`RowsOK`); neither graph has it together with `.delta`; no tombstone and no COMPACT under way names it
(`GoneOK`); the GPU copy is a prefix of `.delta`, and what is behind the prefix is not owed while the key still
looks valid (`CopyOK`). `Reached`: unless the index is stale, each owed TID is in `.delta` or in the graph a
search uses, the one in VRAM or, without an entry, the saved one. It is said of the *due* TIDs only, the owed ones that CREATE INDEX CONCURRENTLY does not still
have to account for (`Due`), since before its last phases a row may be nowhere; when the index is valid all are due. `NoRowIsLost`, `NoRowIsDoubled` and `DistancesAreOwn` follow by computing
the answer from these lists (`Answers` merges, filters and never removes duplicates). A commit of a build, in time or overdue, is one lemma (`CommitHeld`): the rows of
the build are what is held from then on. The history variable
only grows between two REINDEX, so an action has to keep the invariant for the TIDs that stay owed; `HistoryOnly`
(SpecH => Spec) lets both invariants be used together.

### IndexRegistryProofs
For any indexes, layouts, `g_max_indexes` and events. `IInv` counts: for each pointer the number of entries
that hold it is compared with the number of copies allocated (`CountOK`), equal for graphs, delta copies and
reverse maps (and, without `reshard`, for brute-force copies), at most as many holders as copies for
brute-force copies otherwise; `hnsw_idx` is counted only without `hnsw`. This is stronger than `OwnsGpuPointers` and `NoGraphLeak`, since a shift of the array or an overwrite of a slot past the end preserves a count but
not "this entry is the only holder". The rest ties an entry to its layout and index (`GoodAll`), the
array to its bound (`ArrayOK`), and the entry to the files (`SavedOK`).

`RegistryTypeOK`, `EntriesOwnGpuPointers` and `NoGraphIsLeaked` hold whatever happens. The others exclude exactly the
events with which the code breaks them (section 3): `EntriesOwnPointers` without `hnsw`, `NothingIsLeaked` without
`hnsw` and `reshard`, `RegisteredOnce` without `warmup`, `MapIsCurrent` without `reshard`, `EvictionIsSafe` without `io`
and `warmup`. The run `registry` satisfies all of these hypotheses.

### VramBudgetProofs
For any number of GPUs, indexes, sizes, budgets and shards. What a GPU counts is a sum over a finite set of
blocks; the first part proves, from the library's definition of the sum and by induction over finite sets,
what adding, removing and relabelling blocks does to it. `IInv` says that every block is what its label
says (`MemInv`: size, place and counted size for each kind of block), that the request under way stands where its
phase says (`TaskInv`), that past the first loop of ensure_vram it is within the budget
(`BudgetInv`), and `ReservationsMatch` itself.
`ReservationsAlwaysMatch`, `AllIsCounted`, `RefusedForCause` and `VramTypeOK` are invariants,
`OverBudgetForCause` (`StaysInBudget`) and `RoomIsEnough` (`NoNeedlessEviction`) action properties.

`RoomIsEnough` assumes that no budget is above the memory of a GPU. Otherwise pick_gpu_for_index, which
compares what is left of the budgets, can prefer a GPU whose device memory is used up to one that has room, and
ensure_vram then evicts on it. The run `vram_budget` keeps to the hypothesis.

### IndexLifeProofs
For any finite set of indexes, any nesting of subtransactions, any queue length and any number of
warm-up threads: `LifeTypeOK`, `LiveIndexKeepsFiles`, `DroppedIndexIsGone`. `IInv` relates the four places in which an
index is known. The central parts are `DropShape` and `PendingShape` (each index dropped in the open transaction has a pending
entry whose subtransaction is on the stack, so a rollback restores both or neither), `FileShape` (a live and
valid index has its files unless it was taken by a gc), `LateShape` (a DROP that the daemon comes to late is not of
a live index, unless gc sent it) and `GoneShape` (an index that is not live, has met no accident
and that no transaction, build, notification, late DROP or compaction worker attends to, is nowhere). `GoneShape` is what
makes the second property inductive: between COMMIT and the notification the files are still there,
and somebody must be known to be on the way.

### HandoverProofs
For any set of calls, kinds, reapers and participants of a parallel build, with the leader among them:
`NothingIsLeftBehind` and `LiveCorpusIsKept`. `IInv` says call by call which names, flocks, references and
connections each state of the client and of the thread implies (`NameShape`, `LockShape`, `RefShape`, `ThreadShape`,
`CorpusShape`, `GatherShape`, `RequestShape`), and `ReapInv` that a reaper past its stat is at a name that was old, which no
opening build has, and past its flock at one without another lock; further, that a name counts as lost only when its process is gone (`LostShape`). The properties speak of the end
of a call only; every step before it has to account for what it holds, or an error path could not be shown
to free it all.

### ArtifactCommitProofs
For any number of versions and shard files, any choice of access methods and events: `ArtifactTypeOK`
(`TypeOK`), `ResidentAlwaysWhole` (`ResidentIsWhole`), `VectorsAlwaysFit` (`VectorsFitGraph`) and
`FilesAlwaysRecoverable` (`FilesAreRecoverable`). Assumed are the four ASSUMEs of the module: there is at least one version, shard
files have different names that no other file has, and kinds and events are among those the code knows.

The properties speak of what a load would find; between two renames of a commit that depends on which are
left. The inductive invariant is `IInv == TypeInv /\ (~Spoiled => Intact) /\ (why = {} => Fitting)`:

- `TypeInv` says of every list of operations under way that it is an `Agenda`: in the order of the code, and
  with every operation that follows one that is left. `AgendaTail` and `AgendaOrder` keep it when the first operation is
  done and say what may be left then; the order of renames that the code chose is used here and nowhere else.
- `Intact` holds until an accident that spoils graph and .tids. An operation no longer on the list has left its `Effect` in
  the files (`StageOK`); a graph that carries no CRC is of the TIDs beside it (`PairsOK`) except in two windows, `TearWindow`, where
  the thread that is between the two renames holds `g_index_mutex` and Crash counts as `tear`, and
  `DownloadWindow`; no file is older than what was confirmed (`NewEnough`); the latest
  manifest and its objects are of one version (`LatestOK`), and so are the one that is downloaded and the files
  it has put so far (`RestoreOK`). `ResOK` is `ResidentIsWhole`, which is not inductive without
  these: an eviction followed by a search takes whatever the files are worth at that time.
- `Fitting` says the same of `.vectors`, which a load accepts by the CRC of `.tids`: with equal TID lists a graph
  and a `.vectors` of two versions would fit. A commit that has renamed its graph and not yet `.vectors`
  (`Placed`) is excepted, since nobody loads then; a kill or failure that would leave such a pair behind counts as `twin` (`TwinWindow`).

The refinement is proved action by action (`NextRefines`). `Stored` is 0 while a commit holds `g_index_mutex` or a
download is in its window, since nobody loads then. A build, save or download that opens the attempt is an
`Attempt`; while one is open every step that changes what a load would find (a commit that takes the mutex, a rename of
the flat build, a failure, a kill that releases the mutex) is a `Change`, for which `StoredFacts` shows that the new `Stored` is one whole version, no older than
`acked`, or 0; EndCommit of a client that still waits is `Confirm`, for which `CommitServes` shows that an empty list
and `Effect` make `Served` the new version; a step that adds one of the five accidents to `why` is `Accident`.
Everything else leaves `Stored`, `acked` and `open` as they are.

### What is model-checked only
Liveness (`EveryWaiterLeaves`, `ShutdownCompletes`, `AdmissionEnds`, `WarmupSettles`, `CallsSettle`): fairness
and ENABLED are out of the prover's reach.

Three definitions of the models are written with the proofs in mind: `Keep` and `InOrder` of `WritePath` select
rows by the functions of the sequence instead of the recursively defined SelectSeq, and
`Copies` of `IndexRegistry` is the multiplicity of a pointer in a bag; `UploadStep` of `ArtifactCommit` names
what it reads in a LET, since nested EXCEPT with `@` is beyond the prover.

## 5. Plan

Done: all modules of section 2 and the proofs of section 4; no safety property of a passing run is left to
TLC alone. What would extend the project are the two hazards without a property in `PROJECT.json` (the degrade
path, which looks an entry up again and serves it without a repeat, and an `.hnsw` of an earlier build) and the HNSW
calls that read an entry after they released the mutex (section 3).

`TypeOK` of `ArtifactCommit` and of `VramBudget` holds on the instances of their runs as well; it is kept
for the proofs and is not among the properties of the runs.

## 6. Running

`tlc -config X.cfg M` with the module named in `PROJECT.json`; `tlapm M.tla` for each module `M` named `...Proofs`
(the long ones, `VramBudgetProofs`, `WritePathProofs` and `ArtifactCommitProofs`, take several minutes).

## 7. Not modelled

- cuvs_wrapper.cu and its shim: numerics and calls into the GPU library. Their success or failure is a free choice elsewhere.
- hnsw_export.c: the conversion of a graph to pgvector's HNSW pages is one backend transforming data page by page;
  its two calls to the daemon are in `Handover`.
- HTTP, request signing and JSON in cuvs_objstore.c, logging, SQL wrappers: plain I/O.
- Statistics: counters on which only the choice of candidates of the compaction worker depends, which is free in `IndexLife`.
- The circuit breaker, TID encoding and the histogram of cuvs_util.c: small sequential functions with unit tests.
- Distances, `k`, `ef` and filter evaluation of searches.

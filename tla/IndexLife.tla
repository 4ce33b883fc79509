------------------------------ MODULE IndexLife ------------------------------
(***************************************************************************)
(* The life of an index across the catalog of PostgreSQL, the files in     *)
(* index_dir, the registries of the daemon and the object store.           *)
(*                                                                         *)
(* The catalog is transactional and the daemon is not.  CREATE INDEX lets  *)
(* the daemon build at once; DROP INDEX is only recorded in the backend's  *)
(* list cuvs_pending_drops, follows the fate of its subtransaction, and is *)
(* sent to the daemon when the transaction has committed.  Whatever slips  *)
(* through is left to pg_cuvs_gc_orphans, which compares the files with    *)
(* the catalog.  Meanwhile the daemon stops and starts, loads what it      *)
(* finds, and warm-up threads fetch what it could not load.                *)
(*                                                                         *)
(* One session runs DDL, a second one runs pg_cuvs_gc_orphans(true), and   *)
(* the compaction background worker reindexes concurrently.  The contents  *)
(* of the files are in module ArtifactCommit, the entries of the registry  *)
(* in IndexRegistry.                                                       *)
(***************************************************************************)
EXTENDS Naturals, Sequences, FiniteSets, SequencesExt

CONSTANTS
  Indexes,   \* index OIDs, each given to one index only
  Kinds,     \* OID -> the access methods it may have: "cagra", "flat", "ivfpq"
  Old,       \* the indexes there are at first
  Restored,  \* those of Old whose files are only in the object store
  MaxDepth,  \* bound on the nesting of transactions
  QMax,      \* WARMUP_QUEUE_MAX
  Workers,   \* warm-up threads
  Scenarios  \* what may happen in a history, subsets of EventKinds

\* "savepoint" nested transactions
\* "create"   CREATE INDEX          "prepare"  two-phase commit
\* "stop"     the daemon stops      "gc"       pg_cuvs_gc_orphans(true)
\* "compact"  the compaction background worker
\* "late"     a backend is cancelled, or its time-out (600 s for a build, 30 s for
\*            a DROP) passes, while the daemon goes on or waits for its mutex
EventKinds == {"savepoint", "create", "prepare", "stop", "gc", "compact", "late"}

\* "none" stands for no OID.
ASSUME IndexesAssumption == IsFiniteSet(Indexes) /\ "none" \notin Indexes
ASSUME KindAssumption == Kinds \in [Indexes -> SUBSET {"cagra", "flat", "ivfpq"}]
ASSUME OldAssumption == Restored \subseteq Old /\ Old \subseteq Indexes
ASSUME BoundAssumption == MaxDepth \in Nat \ {0} /\ QMax \in Nat \ {0}
ASSUME ScenariosAssumption == Scenarios \subseteq SUBSET EventKinds

VARIABLES
  kind,      \* OID -> access method, which never changes
  events,    \* the scenario, neither
  catalog,   \* committed indexes, as every other session sees them
  fresh,     \* OIDs not given to an index yet
  xact,      \* the session's transaction: a stack of (sub)transactions, << >> if none
  mine,      \* the catalog as the transaction sees it
  made,      \* the indexes it created, those rolled back since included
  pending,   \* cuvs_pending_drops: an OID and the open subtransaction, named by its
             \* depth, that the drop belongs to
  notify,    \* OIDs that XACT_EVENT_COMMIT has still to send
  prepared,  \* the prepared transaction: what it adds and removes
  invalid,   \* indexes that a failed concurrent rebuild left in the catalog
  building,  \* builds whose backend has given up
  dropping,  \* DROPs whose backend has given up, before the daemon's thread had the mutex
  daemon,    \* "down", "starting" (not listening yet) or "up"
  files,     \* OID -> its files, among "graph" and "rfn"
  resident,  \* OIDs in g_indexes
  cold,      \* OID -> its entries in g_cold_indexes, by their states
  queue,     \* g_warmup_queue
  worker,    \* warm-up thread -> what it does
  gc,        \* pg_cuvs_gc_orphans(true)
  comp,      \* the compaction worker
  marred,    \* OIDs that met an accident that can leave something behind
  taken,     \* OIDs whose files gc removed too early: before their creation was
             \* committed, or while a daemon that did not answer had them in memory
  stuck      \* OIDs whose cold entry no thread will attend to

pgvars == <<kind, events, catalog, fresh, xact, mine, made, pending, notify, prepared, invalid>>
coldvars == <<cold, queue, worker>>
vars == <<kind, events, catalog, fresh, xact, mine, made, pending, notify, prepared, invalid, building, dropping, daemon,
          files, resident, cold, queue, worker, gc, comp, marred, taken, stuck>>

NoWork == [at |-> "idle", i |-> "none"]
NoGc == [at |-> "idle", todo |-> {}, i |-> "none"]
NoComp == [at |-> "idle", todo |-> {}, old |-> "none", new |-> "none"]
NoPrepared == [on |-> FALSE, adds |-> {}, drops |-> {}]

\* An index is in marred when it met one of the accidents that can leave
\* something of it behind after its DROP:
\*   Aborted    the CREATE INDEX that built it was rolled back
\*   Late       the daemon finished a build after its backend had given up
\*   Prepared   the DROP was committed by COMMIT PREPARED
\*   Lost       the daemon was not listening when the DROP was sent
\*   Revived    a warm-up job of the index was queued or running at its DROP
\*   Stopped    the daemon stopped before it got to a DROP that nobody waited for
\*   Twice      start-up entered the index in the cold registry more than once
Meets(S) == marred' = marred \cup S

\* Indexes that an open or prepared transaction, the compaction worker or a
\* commit under way holds a lock on.
Locked ==
  (IF xact = <<>> THEN {} ELSE (xact[1].mine \ mine) \cup (mine \ xact[1].mine))
  \cup prepared.adds \cup prepared.drops \cup {comp.old, comp.new}

\* Created, but by a transaction that may still roll back.
Uncommitted == made \cup prepared.adds

Jobs == ToSet(queue) \cup {worker[w].i : w \in Workers}

-----------------------------------------------------------------------------
(* The daemon's side of a DROP.                                            *)

\* handle_drop frees the entry, removes one cold entry and unlinks the files;
\* the job in the warm-up queue stays.
HandleDrop(i) ==
  /\ resident' = resident \ {i}
  /\ cold' = [cold EXCEPT ![i] = IF @ = <<>> THEN @ ELSE Tail(@)]
  /\ files' = [files EXCEPT ![i] = {}]
  /\ UNCHANGED <<queue, worker>>

\* A warm-up job outlives the DROP.
Revived(i) == {i} \cap Jobs

\* cuvs_ipc_drop of an index whose DROP is committed.  The daemon handles it at
\* once; or 30 s pass while its thread waits for g_index_mutex, behind a build or
\* a load; or nobody listens.  Whichever it is, the commit stands.
TellDaemon(i) ==
  \/ /\ daemon = "up" /\ HandleDrop(i)
     /\ Meets(Revived(i))
     /\ UNCHANGED dropping
  \/ /\ daemon = "up" /\ "late" \in events
     /\ dropping' = dropping \cup {i}
     /\ UNCHANGED <<files, resident, coldvars, marred>>
  \/ /\ daemon # "up"
     /\ Meets({i})   \* Lost
     /\ UNCHANGED <<files, resident, coldvars, dropping>>

-----------------------------------------------------------------------------
(* The session: (sub)transactions, CREATE and DROP.                        *)

TxVars == <<kind, events, catalog, notify, prepared, invalid>>
DaemonVars == <<building, dropping, daemon, files, resident, cold, queue, worker>>
Others == <<gc, comp>>

Begin ==
  /\ xact = <<>> /\ notify = <<>> /\ ~prepared.on
  /\ xact' = <<[mine |-> catalog, made |-> {}]>>
  /\ mine' = catalog
  /\ UNCHANGED <<TxVars, fresh, made, pending, DaemonVars, Others, marred, taken, stuck>>

SubBegin ==
  /\ "savepoint" \in events
  /\ Len(xact) \in 1 .. MaxDepth - 1
  /\ xact' = Append(xact, [mine |-> mine, made |-> made])
  /\ UNCHANGED <<TxVars, fresh, mine, made, pending, DaemonVars, Others, marred, taken, stuck>>

\* Variant: the drops of the subtransaction keep its id.
SubCommitNoReparent ==
  /\ Len(xact) > 1
  /\ xact' = Front(xact)
  /\ UNCHANGED <<TxVars, fresh, mine, made, pending, DaemonVars, Others, marred, taken, stuck>>

\* SUBXACT_EVENT_COMMIT_SUB: the drops now belong to the parent.
SubCommit ==
  /\ Len(xact) > 1
  /\ xact' = Front(xact)
  /\ pending' = {IF d.sub = Len(xact) THEN [d EXCEPT !.sub = @ - 1] ELSE d : d \in pending}
  /\ UNCHANGED <<TxVars, fresh, mine, made, DaemonVars, Others, marred, taken, stuck>>

\* Variant: the drops of the enclosing transactions are discarded too.
SubAbortAll ==
  /\ Len(xact) > 1
  /\ xact' = Front(xact)
  /\ mine' = Last(xact).mine
  /\ pending' = {}
  /\ Meets(made \ Last(xact).made)   \* Aborted
  /\ UNCHANGED <<TxVars, fresh, made, DaemonVars, Others, taken, stuck>>

\* SUBXACT_EVENT_ABORT_SUB: the drops of this subtransaction are discarded.
SubAbort ==
  /\ Len(xact) > 1
  /\ xact' = Front(xact)
  /\ mine' = Last(xact).mine
  /\ pending' = {d \in pending : d.sub # Len(xact)}
  /\ Meets(made \ Last(xact).made)   \* Aborted
  /\ UNCHANGED <<TxVars, fresh, made, DaemonVars, Others, taken, stuck>>

\* The daemon has committed the files of a build and registered the index; the
\* backend then writes .relfilenode, but not for an IVF-PQ index.
Built(i) ==
  /\ files' = [files EXCEPT ![i] = IF kind[i] = "ivfpq" THEN {"graph"} ELSE {"graph", "rfn"}]
  /\ resident' = resident \cup {i}

CreateIndex(i) ==
  /\ "create" \in events
  /\ xact # <<>> /\ i \in fresh /\ daemon = "up"
  /\ fresh' = fresh \ {i}
  /\ mine' = mine \cup {i}
  /\ made' = made \cup {i}
  /\ Built(i)
  /\ UNCHANGED <<TxVars, xact, pending, building, dropping, daemon, coldvars, Others, marred, taken, stuck>>

\* The backend is cancelled or its 600 s pass: the statement fails, the daemon
\* goes on.
CreateGivesUp(i) ==
  /\ "late" \in events
  /\ Len(xact) = 1 /\ i \in fresh /\ daemon = "up"
  /\ fresh' = fresh \ {i}
  /\ building' = building \cup {i}
  /\ xact' = <<>> /\ mine' = {} /\ made' = {} /\ pending' = {}
  /\ Meets(made \cup {i})   \* Aborted, Late
  /\ UNCHANGED <<TxVars, dropping, daemon, files, resident, coldvars, Others, taken, stuck>>

LateBuild(i) ==
  /\ i \in building /\ daemon = "up"
  /\ building' = building \ {i}
  /\ files' = [files EXCEPT ![i] = {"graph"}]
  /\ resident' = resident \cup {i}
  /\ UNCHANGED <<pgvars, dropping, daemon, coldvars, Others, marred, taken, stuck>>

\* The thread of a DROP that nobody waits for gets the mutex.
LateDrop(i) ==
  /\ i \in dropping /\ daemon = "up"
  /\ dropping' = dropping \ {i}
  /\ HandleDrop(i)
  /\ Meets(Revived(i))
  /\ UNCHANGED <<pgvars, building, daemon, Others, taken, stuck>>

\* cuvs_object_access: nothing is recorded for an IVF-PQ index.
DropIndex(i) ==
  /\ xact # <<>> /\ i \in mine
  /\ i \in Locked => i \notin xact[1].mine       \* created by this transaction
  /\ mine' = mine \ {i}
  /\ pending' = IF kind[i] = "ivfpq" THEN pending
                ELSE pending \cup {[i |-> i, sub |-> Len(xact)]}
  /\ UNCHANGED <<TxVars, fresh, xact, made, DaemonVars, Others, marred, taken, stuck>>

Ended == xact' = <<>> /\ mine' = {} /\ made' = {} /\ pending' = {}

Commit ==
  /\ Len(xact) = 1
  /\ catalog' = (catalog \ (xact[1].mine \ mine)) \cup (mine \ xact[1].mine)
  /\ notify' = SetToSeq({d.i : d \in pending})
  /\ Ended
  /\ UNCHANGED <<kind, events, fresh, prepared, invalid, DaemonVars, Others, marred, taken, stuck>>

Abort ==
  /\ Len(xact) = 1
  /\ Meets(made)   \* Aborted
  /\ Ended
  /\ UNCHANGED <<TxVars, fresh, DaemonVars, Others, taken, stuck>>

\* XACT_EVENT_COMMIT, one pending drop after the other.
Notify ==
  /\ notify # <<>>
  /\ notify' = Tail(notify)
  /\ TellDaemon(Head(notify))
  /\ UNCHANGED <<kind, events, catalog, fresh, xact, mine, made, pending, prepared, invalid, building, daemon, Others, taken, stuck>>

\* XACT_EVENT_PREPARE clears the list; no backend has it at COMMIT PREPARED.
Prepare ==
  /\ "prepare" \in events
  /\ Len(xact) = 1
  /\ prepared' = [on |-> TRUE, adds |-> mine \ xact[1].mine, drops |-> xact[1].mine \ mine]
  /\ Meets((xact[1].mine \cup made) \ mine)   \* Prepared
  /\ Ended
  /\ UNCHANGED <<kind, events, catalog, notify, fresh, invalid, DaemonVars, Others, taken, stuck>>

CommitPrepared ==
  /\ prepared.on
  /\ catalog' = (catalog \ prepared.drops) \cup prepared.adds
  /\ prepared' = NoPrepared
  /\ UNCHANGED <<kind, events, fresh, xact, mine, made, pending, notify, invalid, DaemonVars, Others, marred, taken, stuck>>

RollbackPrepared ==
  /\ prepared.on
  /\ Meets(prepared.adds)   \* Aborted
  /\ prepared' = NoPrepared
  /\ UNCHANGED <<kind, events, catalog, fresh, xact, mine, made, pending, notify, invalid, DaemonVars, Others, taken, stuck>>

-----------------------------------------------------------------------------
(* The daemon stops, starts, and serves searches.                          *)

PgVars == <<pgvars, Others>>

\* The process ends: what it had in memory is gone, its threads with it.
Stop ==
  /\ "stop" \in events
  /\ daemon # "down"
  /\ daemon' = "down"
  /\ resident' = {} /\ building' = {} /\ dropping' = {}
  /\ Meets(dropping)   \* Stopped
  /\ cold' = [i \in Indexes |-> <<>>]
  /\ queue' = <<>>
  /\ worker' = [w \in Workers |-> NoWork]
  /\ stuck' = {}
  /\ UNCHANGED <<PgVars, files, taken>>

\* The files of an index: its graph or vectors with their .tids, .relfilenode.
NFiles(i) == (IF "graph" \in files[i] THEN 2 ELSE 0) + (IF "rfn" \in files[i] THEN 1 ELSE 0)

\* startup_load_indexes finds graphs, shards and vectors, but no .ivfpq; loading
\* fails when VRAM is short.
Startable(i) == "graph" \in files[i] /\ kind[i] # "ivfpq"

\* Variant: the capacity is not looked at.
QueueAtStartAll(todo) == todo

\* warmup_enqueue of one index after the other; what does not fit is forgotten.
QueueAtStart(todo) == SubSeq(todo, 1, IF Len(todo) < QMax THEN Len(todo) ELSE QMax)

\* The last pass is meant for .relfilenode files, but sscanf returns 2 for any
\* name that begins with two OIDs: every file of an index that is not loaded
\* enters it in the cold registry once more.
Start ==
  /\ daemon = "down"
  /\ \E loaded \in SUBSET {i \in Indexes : Startable(i)} :
       LET left == {i \in Indexes : files[i] # {} /\ i \notin loaded} IN
       \E todo \in SetToSeqs(left) :
         /\ resident' = loaded
         /\ cold' = [i \in Indexes |->
                       IF i \in left THEN [n \in 1 .. NFiles(i) |-> "queued"] ELSE <<>>]
         /\ queue' = QueueAtStart(todo)
         /\ Meets({i \in left : NFiles(i) > 1})   \* Twice
         /\ stuck' = {i \in left : NFiles(i) > 1} \cup ToSet(SubSeq(todo, QMax + 1, Len(todo)))
  /\ daemon' = "starting"
  /\ UNCHANGED <<PgVars, building, dropping, files, worker, taken>>

\* The socket is bound and the warm-up threads are created.
Listen ==
  /\ daemon = "starting"
  /\ daemon' = "up"
  /\ UNCHANGED <<PgVars, building, dropping, files, resident, coldvars, marred, taken, stuck>>

\* A search finds no entry and loads the index from its files.
SearchLoads(i) ==
  /\ daemon = "up"
  /\ i \in catalog \ (Locked \cup invalid) /\ i \notin resident
  /\ "graph" \in files[i]
  /\ resident' = resident \cup {i}
  /\ UNCHANGED <<PgVars, building, dropping, daemon, files, coldvars, marred, taken, stuck>>

\* It cannot: a failed warm-up is tried again.  (Short of VRAM it is not.)
SearchMisses(i) ==
  /\ daemon = "up"
  /\ i \in catalog \ (Locked \cup invalid) /\ i \notin resident
  /\ "graph" \notin files[i]
  /\ cold[i] # <<>> /\ Head(cold[i]) = "failed"
  /\ cold' = [cold EXCEPT ![i] = <<"queued">> \o Tail(@)]
  /\ IF i \in ToSet(queue) \/ Len(queue) >= QMax
     THEN queue' = queue /\ stuck' = stuck \cup ({i} \ ToSet(queue))
     ELSE queue' = Append(queue, i) /\ stuck' = stuck
  /\ UNCHANGED <<PgVars, building, dropping, daemon, files, resident, worker, marred, taken>>

-----------------------------------------------------------------------------
(* The warm-up threads.                                                    *)

WorkVars == <<PgVars, building, dropping, daemon>>

\* The first cold entry of the index, if there is one.
SetCold(i, st) == [cold EXCEPT ![i] = IF @ = <<>> THEN @ ELSE <<st>> \o Tail(@)]

\* warmup_dequeue, then DOWNLOADING under g_index_mutex.
Dequeue(w) ==
  /\ daemon = "up" /\ worker[w].at = "idle" /\ queue # <<>>
  /\ worker' = [worker EXCEPT ![w] = [at |-> "download", i |-> Head(queue)]]
  /\ queue' = Tail(queue)
  /\ cold' = SetCold(Head(queue), "downloading")
  /\ UNCHANGED <<WorkVars, files, resident, marred, taken, stuck>>

\* cuvs_objstore_download renames the files into place; nobody asks whether the
\* index still exists.  Every build of a CAGRA index is uploaded, and no DROP
\* removes a snapshot.
Downloaded(w) ==
  /\ worker[w].at = "download" /\ kind[worker[w].i] = "cagra"
  /\ files' = [files EXCEPT ![worker[w].i] = @ \cup {"graph"}]
  /\ worker' = [worker EXCEPT ![w].at = "load"]
  /\ UNCHANGED <<WorkVars, resident, cold, queue, marred, taken, stuck>>

\* Variant: the entry stays in state DOWNLOADING.
DownloadFailsSilently(w) ==
  /\ worker[w].at = "download"
  /\ cold' = cold
  /\ worker' = [worker EXCEPT ![w] = NoWork]
  /\ UNCHANGED <<WorkVars, files, resident, queue, marred, taken, stuck>>

DownloadFails(w) ==
  /\ worker[w].at = "download"
  /\ cold' = SetCold(worker[w].i, "failed")
  /\ worker' = [worker EXCEPT ![w] = NoWork]
  /\ UNCHANGED <<WorkVars, files, resident, queue, marred, taken, stuck>>

\* One cold entry is removed.
LoadDownloaded(w) ==
  /\ worker[w].at = "load"
  /\ "graph" \in files[worker[w].i]
  /\ resident' = resident \cup {worker[w].i}
  /\ cold' = [cold EXCEPT ![worker[w].i] = IF @ = <<>> THEN @ ELSE Tail(@)]
  /\ worker' = [worker EXCEPT ![w] = NoWork]
  /\ UNCHANGED <<WorkVars, files, queue, marred, taken, stuck>>

\* VRAM is short, or the files are gone again.
LoadFails(w) ==
  /\ worker[w].at = "load"
  /\ cold' = SetCold(worker[w].i, "failed")
  /\ worker' = [worker EXCEPT ![w] = NoWork]
  /\ UNCHANGED <<WorkVars, files, resident, queue, marred, taken, stuck>>

Warmup(w) ==
  \/ Dequeue(w) \/ Downloaded(w) \/ DownloadFails(w)
  \/ LoadDownloaded(w) \/ LoadFails(w)

-----------------------------------------------------------------------------
(* pg_cuvs_gc_orphans(true).                                               *)

GcVars == <<pgvars, building, daemon, comp>>

\* Pass 1 collects ".cagra" and ".shards": flat and IVF-PQ indexes have neither.
GcScan ==
  /\ "gc" \in events
  /\ gc.at = "idle"
  /\ LET anchors == {i \in Indexes : kind[i] = "cagra" /\ "graph" \in files[i]}
     IN  anchors # {} /\ gc' = [at |-> "act", todo |-> anchors, i |-> "none"]
  /\ UNCHANGED <<GcVars, dropping, files, resident, coldvars, marred, taken, stuck>>

\* Pass 2: the index is not in pg_class, as this session sees it.
IsOrphan(i) == i \notin catalog

GcTakes(i) == taken' = taken \cup ({i} \cap Uncommitted)

GcDrop(i) ==
  /\ gc.at = "act" /\ i \in gc.todo /\ IsOrphan(i)
  /\ daemon = "up"
  /\ HandleDrop(i)
  /\ GcTakes(i)
  /\ gc' = [gc EXCEPT !.todo = @ \ {i}]
  /\ UNCHANGED <<GcVars, dropping, marred, stuck>>

\* cuvs_ipc_drop fails, because nobody listens or 30 s have passed: the files
\* are unlinked directly.
GcDropFails(i) ==
  /\ gc.at = "act" /\ i \in gc.todo /\ IsOrphan(i)
  /\ \/ daemon # "up" /\ UNCHANGED dropping
     \/ daemon = "up" /\ "late" \in events /\ dropping' = dropping \cup {i}
  /\ gc' = [at |-> "unlink", todo |-> gc.todo \ {i}, i |-> i]
  /\ GcTakes(i)
  /\ UNCHANGED <<GcVars, files, resident, coldvars, marred, stuck>>

GcUnlinkFamily ==
  /\ gc.at = "unlink"
  /\ files' = [files EXCEPT ![gc.i] = {}]
  /\ taken' = taken \cup ({gc.i} \cap resident)
  /\ gc' = [gc EXCEPT !.at = "act", !.i = "none"]
  /\ UNCHANGED <<GcVars, dropping, resident, coldvars, marred, stuck>>

\* What is left is live and skipped.
GcEnd ==
  /\ gc.at = "act" /\ \A i \in gc.todo : ~IsOrphan(i)
  /\ gc' = NoGc
  /\ UNCHANGED <<GcVars, dropping, files, resident, coldvars, marred, taken, stuck>>

-----------------------------------------------------------------------------
(* The compaction worker: REINDEX INDEX CONCURRENTLY of what has grown.    *)

CompVars == <<kind, events, fresh, xact, mine, made, pending, notify, prepared, invalid, building, daemon, gc>>

\* Phase 1 reads pg_stat_gpu_search, that is, the resident entries.
Collect ==
  /\ "compact" \in events
  /\ comp.at = "idle" /\ daemon = "up" /\ fresh # {}
  /\ \E cands \in SUBSET {i \in resident \cap catalog : kind[i] = "cagra"} :
       cands # {} /\ comp' = [NoComp EXCEPT !.at = "reindex", !.todo = cands]
  /\ UNCHANGED <<CompVars, dropping, catalog, files, resident, coldvars, marred, taken, stuck>>

\* The new index is in the catalog before it is built.
Reindex(old, new) ==
  /\ comp.at = "reindex" /\ old \in comp.todo /\ new \in fresh
  /\ old \in catalog \ Locked /\ daemon = "up" /\ kind[new] = kind[old]
  /\ catalog' = catalog \cup {new}
  /\ fresh' = fresh \ {new}
  /\ Built(new)
  /\ comp' = [at |-> "built", todo |-> comp.todo \ {old}, old |-> old, new |-> new]
  /\ UNCHANGED <<kind, events, xact, mine, made, pending, notify, prepared, invalid, building, dropping, daemon, gc,
                 coldvars, marred, taken, stuck>>

\* The build fails, in the daemon or because nobody listens; or the worker is
\* cancelled or waits 600 s, and the daemon goes on.  The new index stays in the
\* catalog, marked invalid, and the error ends the worker process and its list.
RebuildFails(old, new) ==
  /\ comp.at = "reindex" /\ old \in comp.todo /\ new \in fresh
  /\ old \in catalog \ Locked /\ kind[new] = kind[old]
  /\ catalog' = catalog \cup {new} /\ invalid' = invalid \cup {new}
  /\ fresh' = fresh \ {new}
  /\ \/ UNCHANGED <<building, marred>>
     \/ /\ daemon = "up" /\ "late" \in events
        /\ building' = building \cup {new}
        /\ Meets({new})   \* Late
  /\ comp' = NoComp
  /\ UNCHANGED <<kind, events, xact, mine, made, pending, notify, prepared, dropping, daemon, gc, files, resident,
                 coldvars, taken, stuck>>

\* The index was dropped since: the error ends the worker process and its list.
\* (Or the bound on OIDs is reached.)
ReindexFails ==
  /\ comp.at = "reindex"
  /\ comp.todo \subseteq catalog => fresh = {}
  /\ comp' = NoComp
  /\ UNCHANGED <<CompVars, dropping, catalog, files, resident, coldvars, marred, taken, stuck>>

ReindexDropsOld ==
  /\ comp.at = "built"
  /\ catalog' = catalog \ {comp.old}
  /\ comp' = [comp EXCEPT !.at = "notify"]
  /\ UNCHANGED <<CompVars, dropping, files, resident, coldvars, marred, taken, stuck>>

ReindexNotifies ==
  /\ comp.at = "notify"
  /\ comp' = [NoComp EXCEPT !.at = IF comp.todo = {} THEN "idle" ELSE "reindex", !.todo = comp.todo]
  /\ TellDaemon(comp.old)
  /\ UNCHANGED <<CompVars, catalog, taken, stuck>>

-----------------------------------------------------------------------------
Init ==
  /\ kind \in {k \in [Indexes -> {"cagra", "flat", "ivfpq"}] : \A i \in Indexes : k[i] \in Kinds[i]}
  /\ events \in Scenarios
  /\ catalog = Old /\ fresh = Indexes \ Old
  /\ xact = <<>> /\ mine = {} /\ made = {} /\ pending = {} /\ notify = <<>>
  /\ prepared = NoPrepared /\ invalid = {} /\ building = {} /\ dropping = {} /\ daemon = "down"
  /\ files = [i \in Indexes |->
       (IF i \in Old \ Restored THEN {"graph"} ELSE {})
       \cup (IF i \in Old /\ kind[i] # "ivfpq" THEN {"rfn"} ELSE {})]
  /\ resident = {}
  /\ cold = [i \in Indexes |-> <<>>] /\ queue = <<>>
  /\ worker = [w \in Workers |-> NoWork]
  /\ gc = NoGc /\ comp = NoComp
  /\ marred = {} /\ taken = {} /\ stuck = {}

\* What a subtransaction does stays in its backend until the transaction ends:
\* the other actors need not be interleaved with the steps inside one, and one
\* need not begin while gc or the compaction worker is half way.
Session ==
  \/ Begin \/ SubCommit \/ SubAbort
  \/ gc.at = "idle" /\ comp.at = "idle" /\ SubBegin
  \/ Commit \/ Abort \/ Notify \/ Prepare \/ CommitPrepared \/ RollbackPrepared
  \/ \E i \in Indexes : CreateIndex(i) \/ CreateGivesUp(i) \/ DropIndex(i)

Elsewhere ==
  /\ Len(xact) <= 1
  /\ \/ Stop \/ Start \/ Listen
     \/ GcScan \/ GcUnlinkFamily \/ GcEnd
     \/ Collect \/ ReindexFails \/ ReindexDropsOld \/ ReindexNotifies
     \/ \E w \in Workers : Warmup(w)
     \/ \E i \in Indexes :
          \/ LateBuild(i) \/ LateDrop(i) \/ SearchLoads(i) \/ SearchMisses(i)
          \/ GcDrop(i) \/ GcDropFails(i)
          \/ \E new \in Indexes : Reindex(i, new) \/ RebuildFails(i, new)

Next == Session \/ Elsewhere

\* The warm-up threads run: a download ends (every transfer has a timeout), the
\* mutex is released by whoever holds it.  Once started the daemon listens.
Spec == /\ Init /\ [][Next]_vars
        /\ WF_vars(Listen)
        /\ \A w \in Workers : WF_vars(Warmup(w))

-----------------------------------------------------------------------------
(* Properties.                                                             *)

\* The shape of the state: the warm-up queue keeps to WARMUP_QUEUE_MAX and has
\* an index once; a pending drop belongs to an open subtransaction and to an
\* index the transaction no longer sees.
TypeOK ==
  /\ catalog \subseteq Indexes \ fresh
  /\ Len(queue) <= QMax /\ IsInjective(queue)
  /\ \A d \in pending : d.i \notin mine /\ d.sub \in 1 .. Len(xact)
  /\ daemon = "down" => resident = {} /\ queue = <<>>
  /\ \A i \in Indexes : files[i] \subseteq {"graph", "rfn"}
  /\ \A i \in Indexes : \A n \in 1 .. Len(cold[i]) : cold[i][n] \in {"queued", "downloading", "failed"}

\* An index that is in the catalog has its files, whatever subtransactions were
\* rolled back, however commits, gc, restarts, warm-ups and DROPs that the daemon
\* comes to late interleaved; the exceptions are a gc that ran while its creation
\* was not committed yet, and what a failed concurrent rebuild left invalid.
LiveKeepsFiles ==
  \A i \in catalog \ (taken \cup invalid) :
    /\ kind[i] # "ivfpq" => "rfn" \in files[i]
    /\ i \notin Restored => "graph" \in files[i]

\* Nobody can reach the index any more, and nobody is about to clean it up.
Dead(i) ==
  /\ i \notin fresh \cup catalog \cup mine \cup Uncommitted \cup building \cup dropping
  /\ i \notin ToSet(notify) /\ comp.old # i

\* A dropped index leaves nothing behind, on disk, in VRAM, in the cold registry
\* or in the warm-up queue, unless it met one of the named accidents or is an
\* IVF-PQ index, whose DROP the daemon is never told of.  What an accident left
\* in VRAM of a CAGRA index has the file by which gc finds it.
DroppedIsGone ==
  \A i \in {j \in Indexes : Dead(j)} :
    /\ kind[i] # "ivfpq" /\ i \notin marred =>
         files[i] = {} /\ i \notin resident /\ cold[i] = <<>> /\ i \notin Jobs
    /\ kind[i] = "cagra" /\ i \in resident \ taken => "graph" \in files[i]

Underway(i) == cold[i] # <<>> /\ Head(cold[i]) \in {"queued", "downloading"}

\* A cold index that is queued or downloading is eventually loaded or marked as
\* failed, so that the next search tries again; except when the queue was full
\* or the index was entered twice.
WarmupSettles ==
  \A i \in Indexes :
    Underway(i) ~> (~Underway(i) \/ i \in stuck)
=============================================================================

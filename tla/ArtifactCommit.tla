--------------------------- MODULE ArtifactCommit ---------------------------
(***************************************************************************)
(* The files of one index, and everything that replaces them.              *)
(*                                                                         *)
(* A build or a save writes temporary files and then commits them by a     *)
(* sequence of renames and unlinks, each of which may fail and between any *)
(* two of which the daemon may be killed.  load_index decides from the     *)
(* files it then finds what is served.  All of this runs under             *)
(* g_index_mutex (variable lock), except the commit of a flat index, the   *)
(* detached threads that upload the files to the object store, and the     *)
(* warm-up worker that downloads a snapshot over them.                     *)
(*                                                                         *)
(* A version of the index is a number, in the order of the heap snapshots. *)
(* A file holds the number of the version it belongs to, 0 if it does not  *)
(* exist; .tids holds only a list of TIDs, which two versions may share,   *)
(* and every CRC and SHA-256 of it is that list.  The sidecars that record *)
(* later writes (.delta, .tombstone, .stale) are in module WritePath.      *)
(***************************************************************************)
EXTENDS Naturals, Sequences, FiniteSets, SequencesExt

CONSTANTS
  MaxV,        \* bound on the number of versions
  ShardFiles,  \* the names of the shard files, in the order of their numbers
  Kinds,       \* access methods considered, among "cagra", "flat" and "ivfpq"
  Events       \* what may happen besides, a subset of EventKinds

\* "crash"  the daemon is killed and started again
\* "io"     a write, rename, upload or download fails
\* "late"   a backend is cancelled, or its 600 s pass, while its build goes on
\* "extend" EXTEND, COMPACT and evictions that save the graph
\* "cloud"  snapshots are kept in an object store
EventKinds == {"crash", "io", "late", "extend", "cloud"}

ASSUME MaxVAssumption == MaxV \in Nat \ {0}
ASSUME ShardFilesAssumption ==
  /\ ShardFiles \in Seq(STRING)
  /\ \A i \in 1 .. Len(ShardFiles) : ShardFiles[i] \notin {"tids", "cagra", "ivfpq", "shards", "vecs"}
  /\ \A i, j \in 1 .. Len(ShardFiles) : ShardFiles[i] = ShardFiles[j] => i = j
ASSUME KindsAssumption == Kinds \subseteq {"cagra", "flat", "ivfpq"}
ASSUME EventsAssumption == Events \subseteq EventKinds

VARIABLES
  am,      \* the access method of the index, which never changes
  nv,      \* versions so far
  tidl,    \* version -> its list of TIDs, named by the first version that has it
  width,   \* version -> its number of shards, 0 if it has one graph
  disk,    \* file -> the version it holds, 0 if it does not exist
  job,     \* version -> the thread that builds or saves it
  lock,    \* the version whose thread holds g_index_mutex, 0 if it is free
  res,     \* the resident entry: graph version and TID list, g = 0 if none
  ups,     \* version -> its upload thread
  latest,  \* the manifest under the alias "latest", with what it points to
  dl,      \* the warm-up worker
  cold,    \* the state of the index in the cold registry
  acked,   \* the last version whose persistence was confirmed
  open,    \* an attempt was made since, or is under way
  why      \* the accidents that happened (names of Accidents)

vars == <<am, nv, tidl, width, disk, job, lock, res, ups, latest, dl, cold, acked, open, why>>

Versions == 1 .. MaxV
ShardSet == {ShardFiles[i] : i \in 1 .. Len(ShardFiles)}
Files == {"tids", "cagra", "ivfpq", "shards", "vecs"} \cup ShardSet
ShardsUpTo(n) == {ShardFiles[i] : i \in 1 .. n}
Widths == {0} \cup 2 .. Len(ShardFiles)

NoEntry == [g |-> 0, t |-> 0]
NoJob == [st |-> "idle", op |-> "build", todo |-> <<>>, live |-> FALSE, t |-> 0]
NoUpload == [on |-> FALSE, todo |-> <<>>, got |-> <<>>]
NoManifest == [n |-> 0, sha |-> <<>>, obj |-> <<>>]
NoDownload == [on |-> FALSE, todo |-> <<>>, m |-> NoManifest]

-----------------------------------------------------------------------------
(* What load_index makes of the files it finds.                            *)

\* Variant: the CRC of .tids is not compared.
ShardsAcceptedAnyTids(d) ==
  \A f \in ShardsUpTo(width[d["shards"]]) : d[f] = d["shards"]

\* .shards must name the CRC of .tids and the CRC of every shard file.
ShardsAccepted(d) ==
  /\ tidl[d["shards"]] = d["tids"]
  /\ \A f \in ShardsUpTo(width[d["shards"]]) : d[f] = d["shards"]

\* Nothing ties a .cagra or an .ivfpq to the .tids beside it; .vectors carries
\* the CRC of the .tids it was written for.
Served(d) ==
  CASE d["tids"] = 0 -> NoEntry
    [] d["tids"] # 0 /\ d["shards"] # 0 ->
         IF ShardsAccepted(d) THEN [g |-> d["shards"], t |-> d["tids"]] ELSE NoEntry
    [] d["tids"] # 0 /\ d["shards"] = 0 /\ d["cagra"] = 0 /\ d["ivfpq"] = 0 ->
         IF d["vecs"] # 0 /\ tidl[d["vecs"]] = d["tids"]
         THEN [g |-> d["vecs"], t |-> d["tids"]] ELSE NoEntry
    [] OTHER -> [g |-> IF d["cagra"] # 0 THEN d["cagra"] ELSE d["ivfpq"], t |-> d["tids"]]

Whole(e) == e.g # 0 => tidl[e.g] = e.t

-----------------------------------------------------------------------------
(* A commit is a list of operations on files.                              *)

Put(f, undo) == [do |-> "put", f |-> f, undo |-> undo]     \* rename; if it fails: unlink undo, give up
\* Variant: the file of an earlier build stays when the rename fails.
TryKeepsOld(f) == [do |-> "try", f |-> f, undo |-> {}]

Try(f)       == [do |-> "try", f |-> f, undo |-> {f}]      \* rename; if it fails: unlink undo, go on
Del(f)       == [do |-> "del", f |-> f, undo |-> {}]
Check(f, undo) == [do |-> "check", f |-> f, undo |-> undo] \* compare the SHA-256 of the local file
Sweep(n)     == [do |-> "sweep", f |-> n, undo |-> {}]     \* unlink shard files n+1, n+2, ... up to the first missing one

\* Variant: the graph is renamed before the list of its TIDs.
CommitUnshardedGraphFirst(vok) ==
  <<Put("cagra", {}), Put("tids", {"cagra"})>>
  \o (IF vok THEN <<Try("vecs")>> ELSE <<>>)
  \o <<Del("shards"), Sweep(0)>>

CommitUnsharded(vok) ==
  <<Put("tids", {}), Put("cagra", {"tids"})>>
  \o (IF vok THEN <<Try("vecs")>> ELSE <<>>)
  \o <<Del("shards"), Sweep(0)>>

CommitSharded(n, vok) ==
  [i \in 1 .. n |-> Put(ShardFiles[i], ShardsUpTo(i - 1) \cup {"tids", "shards"})]
  \o <<Put("tids", ShardsUpTo(n) \cup {"tids", "shards"}),
       Put("shards", ShardsUpTo(n) \cup {"tids", "shards"})>>
  \o (IF vok THEN <<Try("vecs")>> ELSE <<>>)
  \o <<Del("cagra"), Sweep(n)>>

CommitFlat == <<Put("vecs", {}), Put("tids", {"vecs"})>>

CommitIvfPq == <<Put("tids", {}), Put("ivfpq", {"tids"}), Del("cagra")>>

SaveIndex == <<Put("tids", {}), Put("cagra", {"tids"})>>

Commit(n, vok) ==
  CASE am = "flat" -> CommitFlat
    [] am = "ivfpq" -> CommitIvfPq
    [] am = "cagra" /\ n = 0 -> CommitUnsharded(vok)
    [] am = "cagra" /\ n # 0 -> CommitSharded(n, vok)

Unlink(d, F) == [f \in Files |-> IF f \in F THEN 0 ELSE d[f]]

\* Shard files n+1 .. m where m is the last before the first gap.
Swept(d, n) ==
  {ShardFiles[i] : i \in {i \in n + 1 .. Len(ShardFiles) :
                            \A k \in n + 1 .. i : d[ShardFiles[k]] # 0}}

\* The effect of an operation that succeeds, with the file contents c.
Apply(d, op, c) ==
  CASE op.do \in {"put", "try"} -> [d EXCEPT ![op.f] = c[op.f]]
    [] op.do = "del"            -> Unlink(d, {op.f})
    [] op.do = "sweep"          -> Unlink(d, Swept(d, op.f))
    [] op.do = "check"          -> IF d[op.f] = c[op.f] THEN d ELSE Unlink(d, op.undo)

\* What version v, whose list of TIDs is t, puts into each file.
Content(v, t) == [f \in Files |-> IF f = "tids" THEN t ELSE v]

-----------------------------------------------------------------------------
(* The accidents after which the files may not be what was promised.       *)

Pending(todo, F) == \E i \in 1 .. Len(todo) : todo[i].do = "put" /\ todo[i].f \in F

\* Thread v has renamed .tids and not yet the file that makes the pair whole,
\* while a graph that carries no CRC is there to be paired with it.
TearWindow(v) ==
  /\ job[v].st = "commit"
  /\ ~Pending(job[v].todo, {"tids"})
  /\ \/ Pending(job[v].todo, {"cagra"}) /\ disk["cagra"] # 0
     \/ Pending(job[v].todo, {"ivfpq"}) /\ disk["ivfpq"] # 0
     \/ Pending(job[v].todo, {"shards"}) /\ disk["cagra"] # 0

\* The warm-up worker has put a .tids, and not yet the graph, beside an old graph.
DownloadWindow ==
  /\ dl.on
  /\ ~Pending(dl.todo, {"tids"})
  /\ dl.todo # <<>>
  /\ disk["cagra"] # 0

\* Thread v replaces files of another version with the same list of TIDs, which
\* no CRC can tell from its own.
TwinWindow(v) ==
  /\ job[v].st = "commit"
  /\ \E f \in {"cagra", "shards", "vecs"} :
       disk[f] \notin {0, v} /\ tidl[disk[f]] = job[v].t

\* The five that may spoil the pair of graph and .tids, and the one that may
\* only spoil .vectors.
Accidents == {"tear", "late", "mixed", "old", "race", "twin"}

\* The accident of thread v replacing files although a newer version has been
\* started or extended into the graph (under the mutex its turn decides), or while
\* the warm-up worker replaces them too.
Accident(v) ==
  (IF v < nv /\ (job[v].st # "commit" \/ am = "flat") THEN {"late"} ELSE {})
  \cup (IF dl.on /\ job[v].st = "commit" THEN {"race"} ELSE {})

-----------------------------------------------------------------------------
Init ==
  /\ am \in Kinds
  /\ nv = 0
  /\ tidl = [v \in Versions |-> 0]
  /\ width = [v \in Versions |-> 0]
  /\ disk = [f \in Files |-> 0]
  /\ job = [v \in Versions |-> NoJob]
  /\ lock = 0
  /\ res = NoEntry
  /\ ups = [v \in Versions |-> NoUpload]
  /\ latest = NoManifest
  /\ dl = NoDownload
  /\ cold = "none"
  /\ acked = 0
  /\ open = FALSE
  /\ why = {}

files == <<disk, lock, res>>
cloud == <<ups, latest, dl, cold>>
names == <<am, nv, tidl, width>>

\* A new version with n shards; REINDEX of an unchanged heap has the same list.
NewVersion(n, same) ==
  /\ nv < MaxV
  /\ nv' = nv + 1
  /\ same => nv > 0
  /\ tidl' = [tidl EXCEPT ![nv + 1] = IF same THEN tidl[nv] ELSE nv + 1]
  /\ width' = [width EXCEPT ![nv + 1] = n]
  /\ UNCHANGED am

Quiet == \A v \in Versions : ~job[v].live

\* CREATE INDEX or REINDEX has scanned the heap; the daemon builds on the GPU.
\* DDL locks keep other builds, and EXTEND, away while the backend waits.
StartBuild(n, same) ==
  /\ Quiet
  /\ n # 0 => am = "cagra"
  /\ NewVersion(n, same)
  /\ job' = [job EXCEPT ![nv + 1] =
               [NoJob EXCEPT !.st = "gpu", !.live = TRUE, !.t = tidl'[nv + 1]]]
  /\ open' = TRUE
  /\ UNCHANGED <<files, cloud, acked, why>>

\* The backend gives up; the handler in the daemon does not notice.
Cancel(v) ==
  /\ "late" \in Events
  /\ job[v].live
  /\ job' = [job EXCEPT ![v].live = FALSE]
  /\ UNCHANGED <<names, files, cloud, acked, open, why>>

\* The build fails, or writing a temporary file does; a .vectors.tmp that
\* cannot be written takes the previous .vectors with it.
BuildFails(v) ==
  /\ "io" \in Events
  /\ job[v].st = "gpu"
  /\ lock = 0
  /\ job' = [job EXCEPT ![v] = NoJob]
  /\ disk' \in {disk} \cup (IF am = "cagra" THEN {Unlink(disk, {"vecs"})} ELSE {})
  /\ UNCHANGED <<names, lock, res, cloud, acked, open, why>>

\* The temporary files are complete (vok: also .vectors.tmp).
BeginCommit(v, vok) ==
  /\ job[v].st = "gpu"
  /\ lock = 0
  /\ ~vok => am = "cagra" /\ "io" \in Events
  /\ job' = [job EXCEPT ![v].st = "commit", ![v].todo = Commit(width[v], vok)]
  /\ disk' = IF vok THEN disk ELSE Unlink(disk, {"vecs"})
  /\ lock' = IF am = "flat" THEN 0 ELSE v
  /\ why' = why \cup Accident(v)
  /\ UNCHANGED <<names, res, cloud, acked, open>>

CommitStep(v) ==
  /\ job[v].st = "commit"
  /\ job[v].todo # <<>>
  /\ disk' = Apply(disk, Head(job[v].todo), Content(v, job[v].t))
  /\ job' = [job EXCEPT ![v].todo = Tail(@)]
  /\ why' = why \cup Accident(v)
  /\ UNCHANGED <<names, lock, res, cloud, acked, open>>

\* A rename fails.  A failed save leaves the entry resident.
CommitFails(v) ==
  /\ "io" \in Events
  /\ job[v].st = "commit"
  /\ job[v].todo # <<>>
  /\ Head(job[v].todo).do \in {"put", "try"}
  /\ disk' = Unlink(disk, Head(job[v].todo).undo)
  /\ IF Head(job[v].todo).do = "put"
     THEN job' = [job EXCEPT ![v] = NoJob] /\ lock' = IF lock = v THEN 0 ELSE lock
     ELSE job' = [job EXCEPT ![v].todo = Tail(@)] /\ UNCHANGED lock
  /\ why' = why \cup Accident(v)
  /\ UNCHANGED <<names, res, cloud, acked, open>>

\* What the upload thread of version v reads: first to hash, then to send.
Reads(v) ==
  IF width[v] = 0
  THEN <<"cagra", "tids", "cagra", "tids">>
  ELSE <<"tids", "shards">> \o SubSeq(ShardFiles, 1, width[v]) \o <<"tids", "shards">>

\* The detached thread that a build with an object store starts.
UploadThread(v) == [on |-> TRUE, todo |-> Reads(v), got |-> <<>>]
Uploads(v) == "cloud" \in Events /\ am = "cagra"

\* The version becomes the resident entry, the client is told and the upload
\* starts; after a save for an eviction the entry is freed instead.
EndCommit(v) ==
  /\ job[v].st = "commit"
  /\ job[v].todo = <<>>
  /\ lock \in {0, v}
  /\ lock' = 0
  /\ job' = [job EXCEPT ![v] = NoJob]
  /\ res' = IF job[v].op = "evict" THEN NoEntry ELSE [g |-> v, t |-> job[v].t]
  /\ IF job[v].live \/ job[v].op # "build"
     THEN acked' = v /\ open' = (\E w \in Versions \ {v} : job[w].st # "idle")
     ELSE UNCHANGED <<acked, open>>
  /\ ups' = IF job[v].op = "build" /\ Uploads(v) THEN [ups EXCEPT ![v] = UploadThread(v)] ELSE ups
  /\ why' = why \cup Accident(v)
  /\ UNCHANGED <<names, disk, latest, dl, cold>>

-----------------------------------------------------------------------------
(* The resident entry: rows added to the graph, saves, eviction, reload.   *)

Graph == am = "cagra" /\ res.g # 0 /\ width[res.g] = 0 /\ disk["shards"] = 0

\* EXTEND adds a row to the graph and to tids[] of the entry, not to the files.
Extend ==
  /\ "extend" \in Events
  /\ Quiet /\ lock = 0 /\ Graph
  /\ NewVersion(0, FALSE)
  /\ res' = [g |-> nv + 1, t |-> IF Whole(res) THEN nv + 1 ELSE res.t]
  /\ UNCHANGED <<disk, job, lock, cloud, acked, open, why>>

\* COMPACT replaces graph and tids[] of the entry and calls save_index.
Compact ==
  /\ "extend" \in Events
  /\ Quiet /\ lock = 0 /\ Graph
  /\ NewVersion(0, FALSE)
  /\ res' = [g |-> nv + 1, t |-> IF Whole(res) THEN nv + 1 ELSE res.t]
  /\ job' = [job EXCEPT ![nv + 1] =
               [NoJob EXCEPT !.st = "commit", !.op = "keep", !.todo = SaveIndex, !.t = res'.t]]
  /\ lock' = nv + 1
  /\ open' = TRUE
  /\ UNCHANGED <<disk, cloud, acked, why>>

\* evict_lru saves a CAGRA graph; the other kinds have nothing to save.
Evict ==
  /\ "extend" \in Events
  /\ lock = 0 /\ res.g # 0
  /\ IF Graph
     THEN /\ job[res.g].st = "idle"
          /\ job' = [job EXCEPT ![res.g] =
                       [NoJob EXCEPT !.st = "commit", !.op = "evict", !.todo = SaveIndex, !.t = res.t]]
          /\ lock' = res.g
          /\ open' = TRUE
          /\ why' = why \cup Accident(res.g)
          /\ UNCHANGED res
     ELSE /\ res' = NoEntry
          /\ UNCHANGED <<job, lock, open, why>>
  /\ UNCHANGED <<names, disk, cloud, acked>>

\* A search finds no entry: load_index, or a place in the warm-up queue if the
\* last download failed.
SearchMiss ==
  /\ lock = 0 /\ res.g = 0
  /\ \/ /\ Served(disk).g # 0
        /\ res' = Served(disk)
        /\ why' = why \cup (IF DownloadWindow THEN {"race"} ELSE {})
        /\ UNCHANGED cold
     \/ /\ Served(disk).g = 0
        /\ cold = "failed"
        /\ cold' = "queued"
        /\ UNCHANGED <<res, why>>
  /\ UNCHANGED <<names, disk, job, lock, ups, latest, dl, acked, open>>

\* The daemon is killed and started again: startup_load_indexes loads what it
\* finds and queues the rest for a download.
Crash ==
  /\ "crash" \in Events
  /\ job' = [v \in Versions |-> NoJob]
  /\ lock' = 0
  /\ ups' = [v \in Versions |-> NoUpload]
  /\ dl' = NoDownload
  /\ res' = Served(disk)
  /\ cold' = IF "cloud" \in Events /\ acked # 0 /\ Served(disk).g = 0 THEN "queued" ELSE "none"
  /\ why' = why \cup (IF DownloadWindow \/ \E v \in Versions : TearWindow(v)
                      THEN {"tear"} ELSE {})
                 \cup (IF \E v \in Versions : TwinWindow(v) THEN {"twin"} ELSE {})
  /\ UNCHANGED <<names, disk, latest, acked, open>>

-----------------------------------------------------------------------------
(* The object store.                                                       *)

\* cuvs_objstore_upload reads one file after the other without any lock.
UploadStep(v) ==
  /\ ups[v].on
  /\ ups[v].todo # <<>>
  /\ LET u == ups[v]
         x == disk[Head(u.todo)]
     IN ups' = [ups EXCEPT ![v] = IF x = 0 THEN NoUpload
                                  ELSE [u EXCEPT !.todo = Tail(@), !.got = Append(@, x)]]
  /\ UNCHANGED <<names, files, job, latest, dl, cold, acked, open, why>>

\* Position of file f in a list of reads, its first or its last occurrence.
FirstRead(v, f) == CHOOSE i \in 1 .. Len(Reads(v)) :
  Reads(v)[i] = f /\ \A j \in 1 .. i - 1 : Reads(v)[j] # f
LastRead(v, f) == CHOOSE i \in 1 .. Len(Reads(v)) :
  Reads(v)[i] = f /\ \A j \in i + 1 .. Len(Reads(v)) : Reads(v)[j] # f

ReadSet(v) == {Reads(v)[i] : i \in 1 .. Len(Reads(v))}

\* The files were not those of version v alone while they were read.
Mixed(v) == \E i \in 1 .. Len(Reads(v)) : ups[v].got[i] # Content(v, tidl[v])[Reads(v)[i]]

\* The shard count, the hashes, and the objects that lie beside the manifest.
Manifest(v) ==
  [n   |-> width[v],
   sha |-> [f \in ReadSet(v) |-> ups[v].got[FirstRead(v, f)]],
   obj |-> [f \in ReadSet(v) |-> ups[v].got[LastRead(v, f)]]]

\* Both manifests are written last; the one under "latest" replaces whatever
\* a thread of another version put there.
Publish(v) ==
  /\ ups[v].on
  /\ ups[v].todo = <<>>
  /\ latest' = Manifest(v)
  /\ ups' = [ups EXCEPT ![v] = NoUpload]
  /\ why' = why \cup (IF Mixed(v) THEN {"mixed"} ELSE {})
  /\ UNCHANGED <<names, files, job, dl, cold, acked, open>>

UploadFails(v) ==
  /\ "io" \in Events
  /\ ups[v].on
  /\ ups' = [ups EXCEPT ![v] = NoUpload]
  /\ UNCHANGED <<names, files, job, latest, dl, cold, acked, open, why>>

DownloadOps(m) ==
  IF m.n = 0
  THEN <<Put("tids", {}), Check("tids", {"tids"}),
         Put("cagra", {"tids"}), Check("cagra", {"tids", "cagra"})>>
  ELSE <<Put("tids", {}), Check("tids", {"tids"}),
         Put("shards", {"tids"}), Check("shards", {"tids", "shards"})>>
       \o [i \in 1 .. m.n |-> Put(ShardFiles[i], ShardsUpTo(i - 1) \cup {"tids", "shards"})]

SnapshotVersion(m) == m.obj[IF m.n = 0 THEN "cagra" ELSE "shards"]

\* The .vectors left on disk is of another version with the same list of TIDs.
TwinSnapshot ==
  /\ disk["vecs"] \notin {0, SnapshotVersion(latest)}
  /\ tidl[disk["vecs"]] = latest.obj["tids"]

\* The worker takes the job and fetches the manifest under "latest".
StartDownload ==
  /\ cold = "queued"
  /\ ~dl.on
  /\ IF latest = NoManifest
     THEN /\ cold' = "failed"
          /\ UNCHANGED <<dl, why, open>>
     ELSE /\ cold' = "loading"
          /\ dl' = [on |-> TRUE, todo |-> DownloadOps(latest), m |-> latest]
          /\ why' = why \cup (IF SnapshotVersion(latest) < acked THEN {"old"} ELSE {})
                         \cup (IF TwinSnapshot THEN {"twin"} ELSE {})
          /\ open' = TRUE
  /\ UNCHANGED <<names, files, job, ups, latest, acked>>

Racing == \E v \in Versions : job[v].st = "commit"

DownloadStep ==
  /\ dl.on
  /\ dl.todo # <<>>
  /\ LET op == Head(dl.todo)
         bad == op.do = "check" /\ disk[op.f] # dl.m.sha[op.f]
     IN /\ disk' = Apply(disk, op, IF op.do = "check" THEN dl.m.sha ELSE dl.m.obj)
        /\ dl' = IF bad THEN NoDownload ELSE [dl EXCEPT !.todo = Tail(@)]
        /\ cold' = IF bad THEN "failed" ELSE cold
  /\ why' = why \cup (IF Racing THEN {"race"} ELSE {})
  /\ UNCHANGED <<names, lock, res, job, ups, latest, acked, open>>

DownloadFails ==
  /\ "io" \in Events
  /\ dl.on
  /\ dl.todo # <<>>
  /\ Head(dl.todo).do = "put"
  /\ disk' = Unlink(disk, Head(dl.todo).undo)
  /\ dl' = NoDownload
  /\ cold' = "failed"
  /\ why' = why \cup (IF Racing THEN {"race"} ELSE {})
  /\ UNCHANGED <<names, lock, res, job, ups, latest, acked, open>>

\* The worker loads what it finds; an entry that is already there is found
\* first by every later search.
EndDownload ==
  /\ dl.on
  /\ dl.todo = <<>>
  /\ lock = 0
  /\ dl' = NoDownload
  /\ cold' = IF Served(disk).g = 0 THEN "failed" ELSE "none"
  /\ res' = IF res.g = 0 THEN Served(disk) ELSE res
  /\ UNCHANGED <<names, disk, lock, job, ups, latest, acked, open, why>>

-----------------------------------------------------------------------------
Next ==
  \/ \E n \in Widths, same \in BOOLEAN : StartBuild(n, same)
  \/ \E v \in Versions :
       \/ Cancel(v) \/ BuildFails(v)
       \/ \E vok \in BOOLEAN : BeginCommit(v, vok)
       \/ CommitStep(v) \/ CommitFails(v) \/ EndCommit(v)
       \/ UploadStep(v) \/ Publish(v) \/ UploadFails(v)
  \/ Extend \/ Compact \/ Evict \/ SearchMiss \/ Crash
  \/ StartDownload \/ DownloadStep \/ DownloadFails \/ EndDownload

Spec == Init /\ [][Next]_vars

-----------------------------------------------------------------------------
(* Properties.                                                             *)

\* Type invariant: also, only the thread of lock runs a commit under the mutex,
\* and the list of a version is named by a version that exists.
TypeOK ==
  /\ am \in Kinds
  /\ nv \in 0 .. MaxV
  /\ tidl \in [Versions -> 0 .. nv]
  /\ width \in [Versions -> Widths]
  /\ disk \in [Files -> 0 .. nv]
  /\ lock \in 0 .. nv
  /\ res \in [g : 0 .. nv, t : 0 .. nv]
  /\ cold \in {"none", "queued", "loading", "failed"}
  /\ acked \in 0 .. nv
  /\ open \in BOOLEAN
  /\ why \subseteq Accidents
  /\ \A v \in Versions : job[v].st = "commit" /\ am # "flat" => lock = v

Held == lock # 0

\* A load finds nothing while a commit holds the mutex, and one that does not
\* wait for a download is an accident (SearchMiss, Crash); a pair that is not
\* whole is no version at all.
Stored == IF Held \/ DownloadWindow THEN 0 ELSE IF Whole(Served(disk)) THEN Served(disk).g ELSE MaxV + 1

Spoiled == why \ {"twin"} # {}

Recoverable == INSTANCE RecoverableBuild WITH
  stored <- Stored, promised <- acked, open <- open, void <- Spoiled

\* Whatever is killed, fails or is restored from a snapshot, and in any order:
\* unless one of the five accidents happened, the files hold one whole version
\* no older than the last one that was confirmed to a client, and it is lost
\* only if a rebuild or a save was attempted since (refinement).
FilesAreRecoverable == Recoverable!Spec

\* The entry that answers searches is whole and not older than what was confirmed.
ResidentIsWhole ==
  ~Spoiled /\ res.g # 0 => Whole(res) /\ res.g >= acked

\* A .vectors that is accepted for the served graph was written with it:
\* brute-force and graph answers of one index come from the same rows.
VectorsFitGraph ==
  why = {} /\ am = "cagra" /\ Stored # 0
    /\ disk["vecs"] # 0 /\ tidl[disk["vecs"]] = disk["tids"]
  => disk["vecs"] = Stored
=============================================================================

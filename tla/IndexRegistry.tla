--------------------------- MODULE IndexRegistry ----------------------------
(***************************************************************************)
(* g_indexes, the daemon's array of resident indexes (pg_cuvs_server.c),   *)
(* and who owns what an entry points to.                                   *)
(*                                                                         *)
(* An entry is a C struct in an array.  Removing entry k moves the later   *)
(* entries down by struct assignment and decrements g_n_indexes, so the    *)
(* slot past the end keeps a copy of the last entry; the next entry is     *)
(* written over that copy field by field, and each of the paths that fill  *)
(* a slot names its own list of fields.  Rebuilding a resident index       *)
(* overwrites its entry in place, and each path frees its own list.        *)
(*                                                                         *)
(* A pointer is named after what it points to: the field it was allocated  *)
(* for, the index and the layout (which vector has which position).  A     *)
(* build and a COMPACT make a new layout.  Every action is one critical    *)
(* section of g_index_mutex; which entry is the LRU one, and on which GPU, *)
(* is left open.                                                           *)
(***************************************************************************)
EXTENDS Naturals, Sequences, FiniteSets, Bags

CONSTANTS
  Indexes,     \* index OIDs
  AmOf,        \* the access method of each: "cagra", "flat" or "ivfpq"
  MaxIndexes,  \* g_max_indexes
  MaxGen,      \* bound on the layouts of one index
  Events       \* what may happen besides, a subset of EventKinds

\* "hnsw"    a session sets cuvs.cpu_hnsw_fallback
\* "reshard" a CAGRA index is built with shards
\* "compact" CAGRA indexes are compacted
\* "drop"    an index is dropped
\* "io"      a save or a rename fails
\* "warmup"  some indexes are only in the object store when the daemon starts
EventKinds == {"hnsw", "reshard", "compact", "drop", "io", "warmup"}

ASSUME AmAssumption == AmOf \in [Indexes -> {"cagra", "flat", "ivfpq"}]
ASSUME BoundAssumption == MaxIndexes \in Nat \ {0} /\ MaxGen \in Nat \ {0}
ASSUME EventsAssumption == Events \subseteq EventKinds

VARIABLES
  reg,    \* [slots, n, live]: the array up to the highest slot ever used,
          \* g_n_indexes, and the bag of the objects allocated and not freed
  disk,   \* per index: the layout of .tids (0: not loadable), its form, and
          \* the layout of .vectors
  hfile,  \* per index: the layout of .hnsw, 0 if there is none
  built,  \* per index: layouts made so far
  job     \* per index: its warmup job

vars == <<reg, disk, hfile, built, job>>

-----------------------------------------------------------------------------
Gens == 1 .. MaxGen
Forms == {"cagra", "sharded", "flat", "ivfpq"}
Fields == {"graph", "rev", "bf", "dl", "hn"}
Ptr == [f : Fields, id : Indexes, gen : Gens]

\* A pointer field is {} (NULL) or {p}.
At(f, i, g) == {[f |-> f, id |-> i, gen |-> g]}

\* An entry as load_index and the builds leave it.  graph stands for
\* handle, ivfpq_handle or shards; rev for the reverse TID map; bf for the
\* brute-force copies, dl for the GPU copy of .delta, hn for hnsw_idx.
Entry(i, g, form, rev, hn) ==
  [id |-> i, gen |-> g, form |-> form,
   graph |-> IF form = "flat" THEN {} ELSE At("graph", i, g),
   rev |-> rev, bf |-> {}, dl |-> {}, hn |-> hn]

Held(e) == e.graph \cup e.rev \cup e.bf \cup e.dl \cup e.hn

\* How often p is allocated.
Copies(p, B) == IF BagIn(p, B) THEN B[p] ELSE 0

Valid == 1 .. reg.n
SlotsOf(i) == {k \in Valid : reg.slots[k].id = i}
Resident(i) == SlotsOf(i) # {}

\* find_index returns the first match.
FirstSlot(i) == CHOOSE k \in SlotsOf(i) : \A l \in SlotsOf(i) : k <= l

FormsOf(i) ==
  IF AmOf[i] # "cagra" THEN {AmOf[i]}
  ELSE {"cagra"} \cup (IF "reshard" \in Events THEN {"sharded"} ELSE {})

TypeOK ==
  /\ reg.n \in 0 .. MaxIndexes
  /\ Len(reg.slots) \in reg.n .. MaxIndexes
  /\ \A k \in DOMAIN reg.slots :
       LET e == reg.slots[k] IN
       /\ e.id \in Indexes /\ e.gen \in Gens /\ e.form \in Forms
       /\ Held(e) \subseteq Ptr
       /\ \A f \in Fields : Cardinality(e[f]) <= 1
  /\ IsABag(reg.live) /\ BagToSet(reg.live) \subseteq Ptr
  /\ disk \in [Indexes -> [gen : 0 .. MaxGen, form : Forms, vgen : 0 .. MaxGen]]
  /\ hfile \in [Indexes -> 0 .. MaxGen]
  /\ built \in [Indexes -> 0 .. MaxGen]
  /\ job \in [Indexes -> {"none", "cold", "fetched"}]

\* The daemon starts with an empty directory, or with some indexes that have
\* a .relfilenode sidecar only and a warmup job each.
Init ==
  /\ reg = [slots |-> <<>>, n |-> 0, live |-> EmptyBag]
  /\ \E C \in SUBSET {i \in Indexes : "warmup" \in Events /\ AmOf[i] = "cagra"} :
       /\ job = [i \in Indexes |-> IF i \in C THEN "cold" ELSE "none"]
       /\ built = [i \in Indexes |-> IF i \in C THEN 1 ELSE 0]
  /\ disk = [i \in Indexes |-> [gen |-> 0, form |-> AmOf[i], vgen |-> 0]]
  /\ hfile = [i \in Indexes |-> 0]

-----------------------------------------------------------------------------
(* Faulty variants of definitions below.  No specification uses them; they *)
(* show that the properties of this module notice the mistake.             *)

RemoveShiftsShort(R, k, e, freed) ==  \* the shift loop ends one slot early
  [slots |-> [m \in DOMAIN R.slots |->
                IF m >= k /\ m < R.n - 1 THEN R.slots[m + 1]
                ELSE IF m = k THEN e ELSE R.slots[m]],
   n     |-> R.n - 1,
   live  |-> R.live (-) SetToBag(freed)]

EvictedForgetsDelta(R, k) ==         \* free_delta_cache is not called
  [slots |-> [m \in DOMAIN R.slots |->
                IF m >= k /\ m < R.n THEN R.slots[m + 1] ELSE R.slots[m]],
   n     |-> R.n - 1,
   live  |-> R.live (-) SetToBag(Held(R.slots[k]) \ R.slots[k].dl)]

RebuiltKeepsMap(e, g, form) ==       \* the reverse map is not rebuilt
  Entry(e.id, g, form, e.rev, {})

FreedByRebuildAll(e, form) ==        \* main_bf_idx is freed, too, but not cleared
  Held(e)

RegisteredSkipsExisting(i, g, form) ==  \* a resident entry is left as it is
  {[reg |-> reg, disk |-> disk]}

LoadIntoUnchecked(i) ==              \* a full array is not noticed
  LET e == Entry(i, disk[i].gen, disk[i].form, At("rev", i, disk[i].gen), {}) IN
  /\ reg' = [slots |-> Append(SubSeq(reg.slots, 1, reg.n), e), n |-> reg.n + 1,
             live |-> reg.live (+) SetToBag(Held(e))]
  /\ UNCHANGED disk

LoadWithoutFind(i) ==                \* find_index is not consulted
  LET e == Entry(i, disk[i].gen, disk[i].form, At("rev", i, disk[i].gen), {}) IN
  /\ disk[i].gen # 0 /\ reg.n < MaxIndexes
  /\ reg' = [slots |-> Append(SubSeq(reg.slots, 1, reg.n), e), n |-> reg.n + 1,
             live |-> reg.live (+) SetToBag(Held(e))]
  /\ UNCHANGED <<disk, hfile, built, job>>

-----------------------------------------------------------------------------
(* The array. *)

\* The slot that comes next, if it has been used before.
Residue(R) == IF R.n < Len(R.slots) THEN R.slots[R.n + 1].hn ELSE {}

Push(R, e) ==
  [slots |-> IF R.n < Len(R.slots) THEN [R.slots EXCEPT ![R.n + 1] = e]
                                   ELSE Append(R.slots, e),
   n     |-> R.n + 1,
   live  |-> R.live (+) SetToBag(Held(e) \ e.hn)]

\* Overwrite slot k with e, then move the later entries down.
Remove(R, k, e, freed) ==
  [slots |-> [m \in DOMAIN R.slots |->
                IF m >= k /\ m < R.n THEN R.slots[m + 1]
                ELSE IF m = k THEN e ELSE R.slots[m]],
   n     |-> R.n - 1,
   live  |-> R.live (-) SetToBag(freed)]

\* evict_lru: whatever the form, everything the entry holds is freed and
\* hnsw_idx and the maps are set to NULL.
Evicted(R, k) ==
  LET e == R.slots[k]
  IN Remove(R, k, [e EXCEPT !.rev = {}, !.bf = {}, !.dl = {}, !.hn = {}], Held(e))

\* An unsharded graph is saved first (save_index); every other form relies
\* on what is on disk already.
DiskSaved(D, e) ==
  IF e.form = "cagra" THEN [D EXCEPT ![e.id].gen = e.gen, ![e.id].form = "cagra"] ELSE D

\* The states in which a path that needs a slot goes on: if the array is
\* full it evicts one entry first, or none (all on other GPUs, or searched
\* at this moment, or not saved).
Rooms(R, D) ==
  IF R.n < MaxIndexes THEN {[reg |-> R, disk |-> D]}
  ELSE {[reg |-> R, disk |-> D]}
       \cup {[reg |-> Evicted(R, k), disk |-> DiskSaved(D, R.slots[k])] : k \in 1 .. R.n}

-----------------------------------------------------------------------------
(* load_index. *)

\* The branch for .cagra and .ivfpq writes every field but hnsw_idx; the
\* flat branch and the memset of load_index_sharded clear that one, too.
LoadedEntry(i, R) ==
  LET d == disk[i] IN
  Entry(i, d.gen, d.form, At("rev", i, d.gen),
        IF d.form \in {"cagra", "ivfpq"} THEN Residue(R) ELSE {})

LoadInto(i) ==
  \E m \in Rooms(reg, disk) :
    /\ m.reg.n < MaxIndexes
    /\ reg' = Push(m.reg, LoadedEntry(i, m.reg))
    /\ disk' = m.disk

(* A search that misses.  A load that fails changes nothing but what it    *)
(* has evicted, which is Evict.                                            *)
Load(i) ==
  /\ ~Resident(i) /\ disk[i].gen # 0
  /\ LoadInto(i)
  /\ UNCHANGED <<hfile, built, job>>

(* One round of ensure_vram, or of the evict-to-fit loop of a build.  A    *)
(* save that fails leaves the entry where it is.                           *)
Evict(k) ==
  /\ k \in Valid
  /\ reg' = Evicted(reg, k)
  /\ disk' = DiskSaved(disk, reg.slots[k])
  /\ UNCHANGED <<hfile, built, job>>

(* The warmup worker: the snapshot arrives in the index directory outside  *)
(* the mutex, then the worker takes it and calls load_index.               *)
Download(i) ==
  /\ job[i] = "cold"
  /\ job' = [job EXCEPT ![i] = "fetched"]
  /\ disk' = [disk EXCEPT ![i] = [gen |-> 1, form |-> "cagra", vgen |-> @.vgen]]
  /\ UNCHANGED <<reg, hfile, built>>

WarmupLoad(i) ==
  /\ job[i] = "fetched"
  /\ job' = [job EXCEPT ![i] = "none"]
  /\ \/ disk[i].gen # 0 /\ LoadInto(i)
     \/ UNCHANGED <<reg, disk>>
  /\ UNCHANGED <<hfile, built>>

-----------------------------------------------------------------------------
(* Builds: the artifacts are committed, then the entry is registered. *)

\* What the existing entry e becomes.
\*   finish_build_commit keeps main_bf_idx (a sharded entry has none);
\*   handle_build_flat and handle_build_ivfpq free everything;
\*   build_sharded frees the graph and the delta copy and sets main_bf_idx
\*   to NULL; it leaves rev_tids and hnsw_idx alone.
Rebuilt(e, g, form) ==
  LET i == e.id IN
  CASE form = "cagra" ->
         [Entry(i, g, form, At("rev", i, g), {}) EXCEPT
            !.bf = IF e.form = "sharded" THEN {} ELSE e.bf]
    [] form = "sharded" -> Entry(i, g, form, e.rev, e.hn)
    [] OTHER -> Entry(i, g, form, At("rev", i, g), {})

FreedByRebuild(e, form) ==
  CASE form = "cagra"   -> Held(e) \ (IF e.form = "sharded" THEN {} ELSE e.bf)
    [] form = "sharded" -> e.graph \cup e.dl \cup (IF e.form = "sharded" THEN e.bf ELSE {})
    [] OTHER            -> Held(e)

\* A new entry; memset leaves a sharded one without a reverse map.
NewEntry(i, g, form) ==
  Entry(i, g, form, IF form = "sharded" THEN {} ELSE At("rev", i, g), {})

Registered(i, g, form) ==
  IF Resident(i)
  THEN LET k == FirstSlot(i)
           old == reg.slots[k]
           new == Rebuilt(old, g, form)
       IN {[reg  |-> [slots |-> [reg.slots EXCEPT ![k] = new],
                      n     |-> reg.n,
                      live  |-> (reg.live (-) SetToBag(FreedByRebuild(old, form)))
                                  (+) SetToBag(Held(new) \ Held(old))],
            disk |-> disk]}
  ELSE {IF m.reg.n < MaxIndexes
        THEN [reg |-> Push(m.reg, NewEntry(i, g, form)), disk |-> m.disk]
        ELSE m : m \in Rooms(reg, disk)}

(* handle_build, handle_build_multi, build_sharded, handle_build_flat and  *)
(* handle_build_ivfpq after their artifacts are complete.  An .hnsw is     *)
(* written by finish_build_commit when the session asks for it, and never  *)
(* removed.                                                                *)
Build(i, form) ==
  /\ built[i] < MaxGen
  /\ form \in FormsOf(i)
  /\ built' = [built EXCEPT ![i] = @ + 1]
  /\ LET g == built[i] + 1 IN
     \E m \in Registered(i, g, form) :
       /\ reg' = m.reg
       /\ disk' = [m.disk EXCEPT ![i] = [gen |-> g, form |-> form, vgen |-> g]]
       /\ \/ UNCHANGED hfile
          \/ /\ "hnsw" \in Events /\ form = "cagra"
             /\ hfile' = [hfile EXCEPT ![i] = g]
  /\ UNCHANGED job

(* A rename of the commit fails: what was renamed is unlinked again, which *)
(* takes the previous build's .tids (or .vectors) with it; the registry is *)
(* left alone.                                                             *)
BuildRenameFails(i) ==
  /\ "io" \in Events
  /\ built[i] < MaxGen /\ disk[i].gen # 0
  /\ disk' = [disk EXCEPT ![i].gen = 0]
  /\ UNCHANGED <<reg, hfile, built, job>>

(* handle_compact: graph, TIDs and map are replaced, .tids and .cagra are  *)
(* saved; .vectors, .hnsw and the copies made of them stay.                *)
Compact(i) ==
  /\ "compact" \in Events
  /\ Resident(i) /\ built[i] < MaxGen
  /\ LET k == FirstSlot(i)
         e == reg.slots[k]
         g == built[i] + 1
         c == [e EXCEPT !.gen = g, !.graph = At("graph", i, g), !.rev = At("rev", i, g)]
     IN /\ e.form = "cagra"
        /\ built' = [built EXCEPT ![i] = g]
        /\ reg' = [reg EXCEPT !.slots[k] = c,
                              !.live = (@ (-) SetToBag(e.graph \cup e.rev))
                                         (+) SetToBag(c.graph \cup c.rev)]
        /\ \/ disk' = DiskSaved(disk, c)
           \/ "io" \in Events /\ UNCHANGED disk
  /\ UNCHANGED <<hfile, job>>

-----------------------------------------------------------------------------
(* Searches fill the entry's caches. *)

WithField(k, f, P) ==
  reg' = [reg EXCEPT !.slots[k][f] = P,
                     !.live = (@ (-) SetToBag(reg.slots[k][f])) (+) SetToBag(P)]

(* handle_search with use_cpu_hnsw: an .hnsw is loaded if there is no      *)
(* hnsw_idx yet.  A sharded or flat entry is answered before this point.   *)
SearchHnsw(i) ==
  /\ "hnsw" \in Events
  /\ Resident(i)
  /\ LET k == FirstSlot(i) IN
     /\ reg.slots[k].form = "cagra" /\ reg.slots[k].hn = {} /\ hfile[i] # 0
     /\ WithField(k, "hn", At("hn", i, hfile[i]))
  /\ UNCHANGED <<disk, hfile, built, job>>

(* refresh_main_bf_cache and refresh_shard_bf_caches. *)
RefreshBf(i) ==
  /\ Resident(i) /\ AmOf[i] # "ivfpq"
  /\ LET k == FirstSlot(i)
         e == reg.slots[k]
         usable == disk[i].gen = e.gen /\ disk[i].vgen = e.gen
     IN \/ WithField(k, "bf", {})
        \/ usable /\ WithField(k, "bf", At("bf", i, e.gen))
  /\ UNCHANGED <<disk, hfile, built, job>>

(* refresh_delta_cache. *)
RefreshDelta(i) ==
  /\ Resident(i) /\ AmOf[i] = "cagra"
  /\ LET k == FirstSlot(i)
         e == reg.slots[k]
     IN \/ WithField(k, "dl", {})
        \/ WithField(k, "dl", At("dl", i, e.gen))
  /\ UNCHANGED <<disk, hfile, built, job>>

(* handle_drop.  The hook of the extension sends it for cagra and flat.    *)
(* hnsw_idx is neither freed nor cleared, .hnsw is not unlinked; an OID is *)
(* not used again.                                                         *)
Drop(i) ==
  /\ "drop" \in Events
  /\ AmOf[i] # "ivfpq" /\ built[i] # 0
  /\ IF Resident(i)
     THEN LET k == FirstSlot(i)
              e == reg.slots[k]
          IN reg' = Remove(reg, k, [e EXCEPT !.rev = {}, !.bf = {}, !.dl = {}], Held(e) \ e.hn)
     ELSE UNCHANGED reg
  /\ disk' = [disk EXCEPT ![i].gen = 0, ![i].vgen = 0]
  /\ built' = [built EXCEPT ![i] = MaxGen]
  /\ UNCHANGED <<hfile, job>>

Next ==
  \/ \E k \in 1 .. MaxIndexes : Evict(k)
  \/ \E i \in Indexes :
       \/ Load(i) \/ Download(i) \/ WarmupLoad(i)
       \/ (\E form \in Forms : Build(i, form)) \/ BuildRenameFails(i) \/ Compact(i)
       \/ SearchHnsw(i) \/ RefreshBf(i) \/ RefreshDelta(i)
       \/ Drop(i)

Spec == Init /\ [][Next]_vars

-----------------------------------------------------------------------------
(* Properties. *)

(* No index is registered twice: whatever has been loaded, evicted and     *)
(* rebuilt, find_index sees the only entry of an index, so DROP and        *)
(* REINDEX leave no copy behind.                                           *)
OnePerIndex == \A k, l \in Valid : reg.slots[k].id = reg.slots[l].id => k = l

(* An entry owns what it points to: no field holds a pointer that has been *)
(* freed, one that belongs to another index, or one that another entry     *)
(* holds as well - not after any sequence of evictions, loads and rebuilds *)
(* of the array's slots.                                                   *)
Holders(p) == Cardinality({k \in Valid : p \in Held(reg.slots[k])})

Owned(p, k) == p.id = reg.slots[k].id /\ Holders(p) <= Copies(p, reg.live)

OwnsPointers == \A k \in Valid : \A p \in Held(reg.slots[k]) : Owned(p, k)

(* The same for the fields other than hnsw_idx, whatever happens. *)
OwnsGpuPointers ==
  \A k \in Valid : \A p \in Held(reg.slots[k]) \ reg.slots[k].hn : Owned(p, k)

(* Nothing leaks: what is allocated is held by an entry, so eviction gives *)
(* all of it back.                                                         *)
NoLeak == \A p \in BagToSet(reg.live) : Copies(p, reg.live) <= Holders(p)

(* The same for graphs, delta copies and reverse maps, whatever happens.   *)
(* (A sharded rebuild forgets main_bf_idx, and DROP forgets hnsw_idx.)     *)
NoGraphLeak ==
  \A p \in BagToSet(reg.live) :
    p.f \in {"graph", "dl", "rev"} => Copies(p, reg.live) <= Holders(p)

(* The reverse map of an entry is the map of its current TIDs: a filtered  *)
(* search binary-searches n_vecs elements of it and uses the positions it  *)
(* finds to read .vectors.                                                 *)
MapMatches ==
  \A k \in Valid : \A p \in reg.slots[k].rev : p.gen = reg.slots[k].gen

(* An entry may be evicted at any time: what evict_lru does not save first *)
(* can be loaded from disk again, in the layout the entry has.             *)
EvictionLosesNothing ==
  \A k \in Valid : LET e == reg.slots[k] IN
    e.form # "cagra" => disk[e.id].gen = e.gen /\ disk[e.id].form = e.form
=============================================================================

----------------------------- MODULE VramBudget -----------------------------
(***************************************************************************)
(* GPU memory: the per-GPU budget, the reservations of builds that run     *)
(* outside g_index_mutex, and the eviction that makes room for a new one.  *)
(*                                                                         *)
(* Memory is a set of blocks.  A block lies on one GPU (at), takes some    *)
(* memory there (act), and is counted by total_vram_used for one GPU       *)
(* (cnt, 0 if for none) with an estimate (acc): the code keeps only the    *)
(* estimates, and these differences are what the properties are about.     *)
(*                                                                         *)
(* Whoever asks for memory holds g_index_mutex (variable task) from the    *)
(* choice of a GPU to the allocation; only the unsharded CAGRA build       *)
(* releases it, under a reservation (variables job and pend).  Which entry *)
(* was searched last is not modelled: any entry may be the least recently  *)
(* used one, since last_search counts whole seconds.                       *)
(***************************************************************************)
EXTENDS Integers, Sequences, FiniteSets, FiniteSetsExt

CONSTANTS
  NG,        \* GPUs 1 .. NG, in the order of usable_gpu
  Indexes,   \* names of indexes
  Kinds,     \* index -> the access methods considered: "cagra", "ivfpq" or "flat"
  Shards,    \* index -> the shard_count options it may be built with, 0 for automatic
  Degree,    \* index -> memory of a row of its graph as built
  Usual,     \* memory of a row of a graph of the default degree
  Light,     \* memory of a row as cuvs_auto_shard_count counts it
  Rows,      \* index -> the number of rows it is built with
  MaxExt,    \* bound on the rows EXTEND adds
  Budgets,   \* the budgets that can be set, 0 for unlimited
  Phys,      \* memory of a GPU
  MaxIdx,    \* g_max_indexes
  SizeMax    \* stands for 2^64: size_t arithmetic wraps there

ASSUME NGAssumption == NG \in Nat \ {0}
ASSUME IndexesAssumption == IsFiniteSet(Indexes)
ASSUME KindsAssumption == Kinds \in [Indexes -> SUBSET {"cagra", "ivfpq", "flat"}]
ASSUME ShardsAssumption ==
  /\ Shards \in [Indexes -> SUBSET Nat]
  /\ \A i \in Indexes : Kinds[i] # {"cagra"} => Shards[i] \subseteq {1}
ASSUME SizesAssumption ==
  /\ Degree \in [Indexes -> Nat \ {0}]
  /\ Usual \in Nat \ {0} /\ Light \in Nat \ {0} /\ Light < Usual /\ Rows \in [Indexes -> Nat \ {0}] /\ MaxExt \in Nat
  /\ Budgets \subseteq Nat /\ Phys \in Nat /\ MaxIdx \in Nat \ {0}
  /\ SizeMax \in Nat /\ \A b \in Budgets : b < SizeMax

Gpus == 1 .. NG
Spread == NG + 1     \* gpu_device_id of a sharded entry

VARIABLES
  kind,    \* index -> its access method, which never changes
  disk,    \* index -> rows (n) and shards (sc) of its stored artifacts, n = 0 if none
  home,    \* index -> gpu_device_id of its entry, Spread if sharded, 0 if not resident
  mem,     \* the blocks of resident entries and of the shards being placed
  pend,    \* GPU -> g_pending_build_vram
  job,     \* index -> the build that runs outside the mutex
  task,    \* what the holder of g_index_mutex is making room for
  budget   \* GPU -> g_max_vram_per_gpu

vars == <<kind, disk, home, mem, pend, job, task, budget>>

NoJob == [dev |-> 0, need |-> 0, n |-> 0, st |-> "none"]
NoTask == [op |-> "none", i |-> CHOOSE i \in Indexes : TRUE, ph |-> "none", dev |-> 0, need |-> 0,
           n |-> 0, s |-> 0, sc |-> 0, busy |-> {}, alt |-> FALSE, broke |-> FALSE, room |-> FALSE]

-----------------------------------------------------------------------------
(* What the daemon computes from its tables.                               *)

Blk(i, part, s, g, cnt, acc, act) ==
  [i |-> i, part |-> part, s |-> s, at |-> g, cnt |-> cnt, acc |-> acc, act |-> act]

\* The parts of a registered entry; "placed" is not registered yet, "leak" no more.
Parts(i, P) == {b \in mem : b.i = i /\ b.part \in P}
OfEntry(i) == Parts(i, {"graph", "bf", "delta"})
Placed == {b \in mem : b.part = "placed"}

\* The memory of blocks B, as the daemon estimates it and as it is.
Estimate(B) == SumFunction([b \in B |-> b.acc])
Actual(B) == SumFunction([b \in B |-> b.act])

\* The memory of the builds that run outside the mutex on GPU g.
Building(g) == SumFunction([i \in Indexes |-> IF job[i].dev = g THEN job[i].need ELSE 0])

\* Variant: the reservations are not counted.
UsedByEntries(g) == Estimate({b \in mem : b.cnt = g})

\* total_vram_used: entries and reservations; not the shards being placed.
Used(g) == Estimate({b \in mem : b.cnt = g}) + pend[g]

\* What really lies on GPU g, running builds included.
Real(g) == Actual({b \in mem : b.at = g}) + Building(g)

Free(g) == IF Real(g) > Phys THEN 0 ELSE Phys - Real(g)

OverBudget(g, need) == budget[g] > 0 /\ Used(g) + need > budget[g]

Headroom(g) == IF budget[g] > 0 THEN (budget[g] - Used(g)) % SizeMax ELSE Free(g)

Candidates(need) == {g \in Gpus : ~(budget[g] > 0 /\ need > budget[g])}

\* Variant: the first GPU whose budget is large enough.
PickFirst(need) == IF Candidates(need) = {} THEN 0 ELSE Min(Candidates(need))

\* pick_gpu_for_index: the first GPU of greatest headroom, 0 if none is possible.
Pick(need) ==
  IF Candidates(need) = {} THEN 0
  ELSE Min({g \in Candidates(need) : \A h \in Candidates(need) : Headroom(g) >= Headroom(h)})

\* Some GPU could take the request as things are.
HasRoom(need) == \E g \in Gpus : ~OverBudget(g, need) /\ need <= Free(g)

\* The daemon knows what is there, and it is within the budget.
Exact == \A g \in Gpus : Real(g) <= Used(g) /\ ~OverBudget(g, 0)

\* cuvs_auto_shard_count for n rows: 0 if it does not fit any number of shards.
AutoShardCount(n) ==
  LET positive == {budget[g] : g \in Gpus} \ {0}
      b == Min(positive)
      cap == Min({NG, n \div 2})
      want == Max({2, (n * Light + b - 1) \div b})
  IN IF positive = {} \/ n * Light <= b THEN 1
     ELSE IF cap < 2 \/ want > cap THEN 0 ELSE want

\* The shards a build makes: a given number is cut to two rows per shard.
ShardCount(asked, n) ==
  IF asked = 0 THEN AutoShardCount(n)
  ELSE IF asked = 1 THEN 1
  ELSE IF n < 4 THEN 0 ELSE Min({asked, n \div 2})

ShardRows(n, sc, s) == n \div sc + (IF s <= n % sc THEN 1 ELSE 0)

RoundRobin(s) == ((s - 1) % NG) + 1

Resident == {i \in Indexes : home[i] # 0}
Full == Cardinality(Resident) >= MaxIdx

OnDevice(i, g) ==
  IF home[i] = Spread THEN \E b \in Parts(i, {"graph"}) : b.at = g ELSE home[i] = g

\* Sharded entries that may have a search in flight (module ShardedSearch): busy
\* is one of these sets; inflight does not change while the mutex is held.
BusySets == SUBSET {i \in Indexes : home[i] = Spread}

\* find_lru_index: any of these may be the least recently used one.
Evictable(g, busy) == {i \in Resident : OnDevice(i, g) /\ ~(home[i] = Spread /\ i \in busy)}

\* The rows of the graph in block b.
GraphRows(b) == b.act \div Degree[b.i]

-----------------------------------------------------------------------------
Init ==
  /\ kind \in [Indexes -> {"cagra", "ivfpq", "flat"}]
  /\ \A i \in Indexes : kind[i] \in Kinds[i]
  /\ disk = [i \in Indexes |-> [n |-> 0, sc |-> 1]]
  /\ home = [i \in Indexes |-> 0]
  /\ mem = {}
  /\ pend = [g \in Gpus |-> 0]
  /\ job = [i \in Indexes |-> NoJob]
  /\ task = NoTask
  /\ \E b \in Budgets \ {0} : budget = [g \in Gpus |-> b]

Idle == task = NoTask

\* What evict_lru(g) returns when it evicts entry v.
Freed(v, g) ==
  Estimate(IF kind[v] = "flat" THEN Parts(v, {"bf"}) ELSE {b \in Parts(v, {"graph"}) : b.at = g})

\* evict_lru(g); go(f, out) follows, f the number it returns, out whether an entry
\* is gone.  Only an unsharded CAGRA entry is saved, with the rows EXTEND added;
\* a failed save keeps it.
EvictLru(g, busy, go(_, _)) ==
  \/ /\ Evictable(g, busy) = {}
     /\ go(0, FALSE)
     /\ UNCHANGED <<disk, home, mem>>
  \/ \E v \in Evictable(g, busy) :
       /\ go(Freed(v, g), TRUE)
       /\ home' = [home EXCEPT ![v] = 0]
       /\ mem' = mem \ OfEntry(v)
       /\ disk' = IF kind[v] = "cagra" /\ home[v] # Spread
                  THEN [disk EXCEPT ![v] = [n |-> GraphRows(CHOOSE b \in Parts(v, {"graph"}) : TRUE), sc |-> 1]]
                  ELSE disk
  \/ \E v \in Evictable(g, busy) :
       /\ kind[v] = "cagra" /\ home[v] # Spread
       /\ go(0, FALSE)
       /\ UNCHANGED <<disk, home, mem>>

-----------------------------------------------------------------------------
(* Asking for memory.                                                      *)

\* The memory of shard s of n rows in sc shards; a reload does not know the degree.
Need(op, i, n, sc, s) ==
  ShardRows(n, sc, s) * (IF op = "load" THEN Usual ELSE Degree[i])

Ask(op, i, n, sc, dev, busy) ==
  LET need == Need(op, i, n, sc, 1)
  IN [NoTask EXCEPT !.op = op, !.i = i, !.ph = "budget", !.dev = dev, !.need = need,
                    !.n = n, !.s = 1, !.sc = sc, !.busy = busy, !.room = sc = 1 /\ HasRoom(need) /\ Exact]

AskUnsharded(op, i, n, busy) ==
  LET dev == Pick(Need(op, i, n, 1, 1))
  IN /\ task' = IF dev = 0 THEN NoTask ELSE Ask(op, i, n, 1, dev, busy)
     /\ UNCHANGED <<disk, home, mem>>

\* load_index_sharded frees a slot first, on the first GPU only.
AskSharded(op, i, n, sc, busy) ==
  LET start == Ask(op, i, n, sc, RoundRobin(1), busy)
  IN IF op = "load" /\ Full
     THEN EvictLru(1, busy, LAMBDA f, out : task' = IF out THEN start ELSE NoTask)
     ELSE task' = start /\ UNCHANGED <<disk, home, mem>>

\* CREATE INDEX, REINDEX: handle_build, handle_build_multi, handle_build_ivfpq,
\* with the shard_count option asked.
Build(i, n, asked, busy) ==
  /\ Idle /\ job[i] = NoJob
  /\ kind[i] # "flat"
  /\ LET sc == ShardCount(asked, n)
     IN CASE sc = 0 -> UNCHANGED <<task, disk, home, mem>>
          [] sc = 1 -> AskUnsharded("build", i, n, busy)
          [] OTHER  -> AskSharded("build", i, n, sc, busy)
  /\ UNCHANGED <<pend, job, budget>>

\* A search finds no entry: load_index.
Load(i, busy) ==
  /\ Idle
  /\ disk[i].n > 0 /\ home[i] = 0
  /\ kind[i] # "flat"
  /\ IF disk[i].sc = 1 THEN AskUnsharded("load", i, disk[i].n, busy)
     ELSE AskSharded("load", i, disk[i].n, disk[i].sc, busy)
  /\ UNCHANGED <<pend, job, budget>>

\* ensure_vram has failed: a shard is tried on another GPU, once.
Failed(t) ==
  IF t.sc > 1 /\ ~t.alt /\ Pick(t.need) # 0
  THEN [t EXCEPT !.dev = Pick(t.need), !.ph = "budget", !.alt = TRUE]
  ELSE [t EXCEPT !.ph = "refused"]

\* evict_lru returned 0 with something left to evict.
Broke(f) == f = 0 /\ Evictable(task.dev, task.busy) # {}

\* Variant: one eviction is tried, not as many as it takes.
EnsureBudgetOnce ==
  /\ task.ph = "budget"
  /\ IF OverBudget(task.dev, task.need)
     THEN EvictLru(task.dev, task.busy,
            LAMBDA f, out : task' = [task EXCEPT !.ph = "check", !.broke = Broke(f)])
     ELSE /\ task' = [task EXCEPT !.ph = "free"]
          /\ UNCHANGED <<disk, home, mem>>
  /\ UNCHANGED <<pend, job, budget>>

\* ensure_vram: first the budget of the GPU ...
EnsureBudget ==
  /\ task.ph = "budget"
  /\ IF OverBudget(task.dev, task.need)
     THEN EvictLru(task.dev, task.busy,
            LAMBDA f, out : task' = IF f = 0 THEN [task EXCEPT !.ph = "check", !.broke = Broke(f)] ELSE task)
     ELSE /\ task' = [task EXCEPT !.ph = "free"]
          /\ UNCHANGED <<disk, home, mem>>
  /\ UNCHANGED <<pend, job, budget>>

EnsureCheck ==
  /\ task.ph = "check"
  /\ task' = IF OverBudget(task.dev, task.need) THEN Failed(task) ELSE [task EXCEPT !.ph = "free"]
  /\ UNCHANGED <<disk, home, mem, pend, job, budget>>

\* Variant: the loop goes on when evict_lru returns 0.
EnsureFreeForever ==
  /\ task.ph = "free"
  /\ IF task.need > Free(task.dev)
     THEN EvictLru(task.dev, task.busy, LAMBDA f, out : task' = task)
     ELSE /\ task' = [task EXCEPT !.ph = "granted"]
          /\ UNCHANGED <<disk, home, mem>>
  /\ UNCHANGED <<pend, job, budget>>

\* ... then what the driver reports as free.
EnsureFree ==
  /\ task.ph = "free"
  /\ IF task.need > Free(task.dev)
     THEN EvictLru(task.dev, task.busy,
            LAMBDA f, out : task' = IF f = 0 THEN Failed([task EXCEPT !.broke = Broke(f)]) ELSE task)
     ELSE /\ task' = [task EXCEPT !.ph = "granted"]
          /\ UNCHANGED <<disk, home, mem>>
  /\ UNCHANGED <<pend, job, budget>>

\* CUVS_STATUS_OOM_FALLBACK, or -2 from load_index.
Refuse ==
  /\ task.ph = "refused"
  /\ task' = NoTask
  /\ mem' = mem \ Placed
  /\ UNCHANGED <<disk, home, pend, job, budget>>

-----------------------------------------------------------------------------
(* Using what was granted.                                                 *)

\* The unsharded CAGRA build reserves and releases the mutex.
Reserve ==
  /\ task.ph = "granted"
  /\ task.op = "build" /\ task.sc = 1 /\ kind[task.i] = "cagra"
  /\ pend' = [pend EXCEPT ![task.dev] = @ + task.need]
  /\ job' = [job EXCEPT ![task.i] = [dev |-> task.dev, need |-> task.need, n |-> task.n, st |-> "gpu"]]
  /\ task' = NoTask
  /\ UNCHANGED <<disk, home, mem, budget>>

\* The build runs out of memory for its scratch space: evict one entry, retry.
BuildOom(i, busy) ==
  /\ job[i].st = "gpu"
  /\ Idle
  /\ EvictLru(job[i].dev, busy,
       LAMBDA f, out : job' = IF f = 0 THEN [job EXCEPT ![i].st = "failed"] ELSE job)
  /\ UNCHANGED <<pend, task, budget>>

\* Variant: a build that failed keeps its reservation.
BuildEndsLeaks(i, busy) ==
  /\ job[i] # NoJob
  /\ Idle
  /\ job' = [job EXCEPT ![i] = NoJob]
  /\ \/ UNCHANGED <<task, mem, pend>>
     \/ /\ job[i].st = "gpu"
        /\ pend' = [pend EXCEPT ![job[i].dev] = @ - job[i].need]
        /\ mem' = mem \cup {Blk(i, "placed", 1, job[i].dev, 0, job[i].need, job[i].n * Degree[i])}
        /\ task' = [Ask("build", i, job[i].n, 1, job[i].dev, busy) EXCEPT !.ph = "slot", !.room = FALSE]
  /\ UNCHANGED <<disk, home, budget>>

\* The handler takes the mutex again and gives the reservation back.
BuildEnds(i, busy) ==
  /\ job[i] # NoJob
  /\ Idle
  /\ pend' = [pend EXCEPT ![job[i].dev] = @ - job[i].need]
  /\ job' = [job EXCEPT ![i] = NoJob]
  /\ \/ UNCHANGED <<task, mem>>
     \/ /\ job[i].st = "gpu"
        /\ mem' = mem \cup {Blk(i, "placed", 1, job[i].dev, 0, job[i].need, job[i].n * Degree[i])}
        /\ task' = [Ask("build", i, job[i].n, 1, job[i].dev, busy) EXCEPT !.ph = "slot", !.room = FALSE]
  /\ UNCHANGED <<disk, home, budget>>

\* A shard, an IVF-PQ index or a loaded graph is allocated under the mutex.
Place ==
  /\ task.ph = "granted"
  /\ task.op = "load" \/ task.sc > 1 \/ kind[task.i] = "ivfpq"
  /\ mem' = mem \cup {Blk(task.i, "placed", task.s, task.dev, 0, task.need,
                          ShardRows(task.n, task.sc, task.s) * Degree[task.i])}
  /\ task' = IF task.s = task.sc THEN [task EXCEPT !.ph = "slot", !.room = FALSE]
             ELSE [task EXCEPT !.s = @ + 1, !.ph = "budget", !.alt = FALSE,
                               !.need = Need(task.op, task.i, task.n, task.sc, task.s + 1),
                               !.dev = RoundRobin(task.s + 1)]
  /\ UNCHANGED <<disk, home, pend, job, budget>>

\* The allocation, a checksum or the commit of the files fails.
GiveUp ==
  /\ task.ph \in {"granted", "slot"}
  /\ task' = NoTask
  /\ mem' = mem \ Placed
  /\ UNCHANGED <<disk, home, pend, job, budget>>

\* The files are committed; a new entry needs a slot.
MakeSlot ==
  /\ task.ph = "slot"
  /\ LET go == task' = [task EXCEPT !.ph = "register", !.room = FALSE]
     IN IF home[task.i] = 0 /\ Full
        THEN EvictLru(IF task.sc > 1 THEN 1 ELSE task.dev, task.busy, LAMBDA f, out : go)
        ELSE go /\ UNCHANGED <<disk, home, mem>>
  /\ UNCHANGED <<pend, job, budget>>

\* What is left of the previous entry: an unsharded CAGRA rebuild keeps the
\* brute-force copy and counts it where the new graph is; a rebuild into shards
\* forgets the pointer to it.
Kept(i, dev, sc) ==
  IF home[i] \in {0, Spread} \/ kind[i] # "cagra" THEN {}
  ELSE IF sc > 1 THEN {[b EXCEPT !.part = "leak", !.cnt = 0] : b \in Parts(i, {"bf"})}
  ELSE {[b EXCEPT !.cnt = dev] : b \in Parts(i, {"bf"})}

\* The entry replaces the one it finds, or is new; with no slot a build stays
\* on disk only and a load fails.
Register ==
  /\ task.ph = "register"
  /\ LET i == task.i
         fits == home[i] # 0 \/ ~Full
         keep == Kept(i, task.dev, task.sc)
     IN /\ home' = IF fits THEN [home EXCEPT ![i] = IF task.sc > 1 THEN Spread ELSE task.dev] ELSE home
        /\ mem' = IF fits
                  THEN ((mem \ Placed) \ OfEntry(i)) \cup keep
                       \cup {[b EXCEPT !.part = "graph", !.cnt = b.at] : b \in Placed}
                  ELSE mem \ Placed
        /\ disk' = IF task.op = "build" THEN [disk EXCEPT ![i] = [n |-> task.n, sc |-> task.sc]] ELSE disk
  /\ task' = NoTask
  /\ UNCHANGED <<pend, job, budget>>

-----------------------------------------------------------------------------
(* Everything else that allocates or frees.                                *)

\* A flat index is registered with its files only, on the GPU of most headroom;
\* the build first compares half the vectors with the largest budget.
FlatAdmitted(n) == (\E g \in Gpus : budget[g] = 0) \/ \E g \in Gpus : n \div 2 <= budget[g]

FlatBuild(i, n, busy) ==
  /\ Idle
  /\ kind[i] = "flat"
  /\ FlatAdmitted(n)
  /\ task' = [Ask("build", i, n, 1, Pick(0), busy) EXCEPT !.ph = "slot", !.need = 0, !.room = FALSE]
  /\ UNCHANGED <<disk, home, mem, pend, job, budget>>

FlatLoad(i, busy) ==
  /\ Idle
  /\ kind[i] = "flat"
  /\ disk[i].n > 0 /\ home[i] = 0
  /\ task' = [Ask("load", i, disk[i].n, 1, Pick(0), busy) EXCEPT !.ph = "slot", !.need = 0, !.room = FALSE]
  /\ UNCHANGED <<disk, home, mem, pend, job, budget>>

\* The GPU of the caches of an entry.
CacheGpu(i) ==
  IF home[i] = Spread THEN (CHOOSE b \in Parts(i, {"graph"}) : b.s = 1).at ELSE home[i]

Fits(g, need) == ~OverBudget(g, need) /\ need <= Free(g)

\* refresh_delta_cache: one row, never at the price of an entry.
RefreshDelta(i) ==
  /\ Idle
  /\ home[i] # 0 /\ kind[i] = "cagra"
  /\ LET g == CacheGpu(i)
         cnt == IF home[i] = Spread THEN 0 ELSE g
     IN \/ mem' = mem \ Parts(i, {"delta"})
        \/ /\ Fits(g, 1)
           /\ mem' = (mem \ Parts(i, {"delta"})) \cup {Blk(i, "delta", 1, g, cnt, 1, 1)}
  /\ UNCHANGED <<disk, home, pend, job, task, budget>>

\* Variant: total_vram_used without bf_vram_bytes and main_bf_vram_bytes.
BfUncounted(i) ==
  IF home[i] = Spread
  THEN {Blk(i, "bf", b.s, b.at, 0, GraphRows(b), GraphRows(b)) : b \in Parts(i, {"graph"})}
  ELSE {Blk(i, "bf", 1, home[i], 0, disk[i].n, disk[i].n)}

\* refresh_main_bf_cache and ensure_shard_bf: a copy of the vectors of every
\* piece, or none; the old copy is freed first.
BfBlocks(i) ==
  IF home[i] = Spread
  THEN {Blk(i, "bf", b.s, b.at, b.at, GraphRows(b), GraphRows(b)) : b \in Parts(i, {"graph"})}
  ELSE {Blk(i, "bf", 1, home[i], home[i], disk[i].n, disk[i].n)}

BfOn(i, g) == Estimate({b \in BfBlocks(i) : b.at = g})
OldBfOn(i, g) == Estimate({b \in Parts(i, {"bf"}) : b.cnt = g})
OldBfAt(i, g) == Actual({b \in Parts(i, {"bf"}) : b.at = g})

BfFits(i) ==
  \A g \in {b.at : b \in BfBlocks(i)} :
    /\ budget[g] > 0 => Used(g) - OldBfOn(i, g) + BfOn(i, g) <= budget[g]
    /\ BfOn(i, g) <= Free(g) + OldBfAt(i, g)

RefreshBf(i) ==
  /\ Idle
  /\ home[i] # 0 /\ kind[i] # "ivfpq"
  /\ mem' = (mem \ Parts(i, {"bf"})) \cup (IF BfFits(i) THEN BfBlocks(i) ELSE {})
  /\ UNCHANGED <<disk, home, pend, job, task, budget>>

Graph(i) == CHOOSE b \in Parts(i, {"graph"}) : TRUE

\* EXTEND adds a row to the graph if the budget allows it; it does not evict.
Extend(i) ==
  /\ Idle
  /\ kind[i] = "cagra" /\ home[i] \in Gpus
  /\ LET b == Graph(i)
         w == b.acc \div GraphRows(b)
     IN /\ GraphRows(b) < Rows[i] + MaxExt
        /\ ~OverBudget(home[i], w)
        /\ Degree[i] <= Free(home[i])
        /\ mem' = (mem \ {b}) \cup {[b EXCEPT !.acc = @ + w, !.act = @ + Degree[i]]}
  /\ UNCHANGED <<disk, home, pend, job, task, budget>>

\* COMPACT takes a row out and saves the graph.
Compact(i) ==
  /\ Idle
  /\ kind[i] = "cagra" /\ home[i] \in Gpus
  /\ LET b == Graph(i)
         w == b.acc \div GraphRows(b)
     IN /\ GraphRows(b) > Rows[i]
        /\ mem' = (mem \ {b}) \cup {[b EXCEPT !.acc = @ - w, !.act = @ - Degree[i]]}
        /\ disk' = [disk EXCEPT ![i] = [n |-> GraphRows(b) - 1, sc |-> 1]]
  /\ UNCHANGED <<home, pend, job, task, budget>>

Drop(i) ==
  /\ Idle
  /\ disk[i].n > 0 /\ job[i] = NoJob
  /\ home' = [home EXCEPT ![i] = 0]
  /\ mem' = mem \ OfEntry(i)
  /\ disk' = [disk EXCEPT ![i] = [n |-> 0, sc |-> 1]]
  /\ UNCHANGED <<pend, job, task, budget>>

\* pg_cuvs_set_vram_budget: every GPU gets the same budget, in use or not.
SetBudget(b) ==
  /\ Idle
  /\ budget # [g \in Gpus |-> b]
  /\ budget' = [g \in Gpus |-> b]
  /\ UNCHANGED <<disk, home, mem, pend, job, task>>

-----------------------------------------------------------------------------
Holder == EnsureBudget \/ EnsureCheck \/ EnsureFree \/ Refuse \/ Reserve \/ Place \/ GiveUp
          \/ MakeSlot \/ Register

Step ==
  \/ Holder
  \/ \E i \in Indexes, busy \in BusySets :
       \/ \E sc \in Shards[i] : Build(i, Rows[i], sc, busy)
       \/ Load(i, busy) \/ FlatBuild(i, Rows[i], busy) \/ FlatLoad(i, busy)
       \/ BuildOom(i, busy) \/ BuildEnds(i, busy)
  \/ \E i \in Indexes :
       RefreshDelta(i) \/ RefreshBf(i) \/ Extend(i) \/ Compact(i) \/ Drop(i)
  \/ \E b \in Budgets : SetBudget(b)

Next == Step /\ UNCHANGED kind

Spec == Init /\ [][Next]_vars /\ WF_vars(Holder /\ UNCHANGED kind)

-----------------------------------------------------------------------------
(* Properties.                                                             *)

\* Type invariant: also, every block of an entry belongs to a resident one, and
\* only the holder of the mutex has blocks that are not registered.
TypeOK ==
  /\ home \in [Indexes -> 0 .. Spread]
  /\ budget \in [Gpus -> Budgets]
  /\ \A g \in Gpus : pend[g] >= 0
  /\ \A b \in mem :
       /\ b.at \in Gpus /\ b.cnt \in 0 .. NG
       /\ b.part \in {"graph", "bf", "delta"} => home[b.i] # 0
       /\ b.part = "placed" => task.i = b.i
  /\ Cardinality(Resident) <= MaxIdx

\* The reservations are those of the builds that run, neither leaked nor given
\* back twice (handle_build, handle_build_multi).
ReservationsMatch == \A g \in Gpus : pend[g] = Building(g)

\* The budget is exceeded, counting also what is about to be registered.
Exceeded(g) ==
  budget[g] > 0 /\ Used(g) + Estimate({b \in Placed : b.at = g}) > budget[g]

\* No step takes a GPU over its budget, whatever is built, loaded, cached or
\* extended at the same time: but for a lower budget that is set, for a shard
\* placed on a GPU where the previous one is not counted yet, and for a
\* brute-force copy that a rebuild on another GPU counts there from now on.
StaysInBudget ==
  [][\A g \in Gpus :
       Exceeded(g)' =>
         \/ Exceeded(g)
         \/ budget' # budget
         \/ task.ph = "granted" /\ \E b \in Placed : b.at = g
         \/ task.ph = "register" /\ task.sc = 1 /\ home[task.i] \notin {0, task.dev}
              /\ Parts(task.i, {"bf"}) # {}]_vars

\* What lies on a GPU is counted for it and not underestimated, once the mutex
\* is free (total_vram_used): but for the delta cache of a sharded entry, a
\* reloaded graph of a degree above the default, the brute-force copy that an
\* unsharded CAGRA entry kept when it was rebuilt on another GPU, which is
\* counted on the new one, and the copy of an entry that was rebuilt into
\* shards, whose pointer is lost.
EverythingCounted ==
  Idle => \A b \in mem :
    \/ b.cnt = b.at /\ b.acc >= b.act
    \/ b.part = "delta" /\ home[b.i] = Spread
    \/ b.part = "graph" /\ b.cnt = b.at /\ b.acc = GraphRows(b) * Usual
    \/ b.part = "bf" /\ kind[b.i] = "cagra" /\ home[b.i] \in Gpus \ {b.at} /\ b.cnt = home[b.i]
    \/ b.part = "leak" /\ kind[b.i] = "cagra" /\ b.cnt = 0

\* A request is refused for want of memory only when nothing is left to evict
\* on the GPU: but if evict_lru returned 0 for a flat entry that held nothing,
\* or because it could not save its victim.
NoNeedlessRefusal ==
  task.ph = "refused" => Evictable(task.dev, task.busy) = {} \/ task.broke

\* A build or a load of one graph evicts nothing if some GPU has room for it, as
\* long as the counts are exact and within the budget: beyond it the headroom
\* that pick_gpu_for_index compares wraps to a huge number.
NoNeedlessEviction ==
  [][task.room /\ task.ph \in {"budget", "free"} => home' = home]_vars

\* ensure_vram ends and the mutex is released, whatever cannot be evicted.
AdmissionEnds == task # NoTask ~> task = NoTask
=============================================================================

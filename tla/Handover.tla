------------------------------ MODULE Handover ------------------------------
(***************************************************************************)
(* How a request and its data travel between a backend and the daemon:     *)
(* cuvs_ipc.c (one call per command), cuvs_build_corpus.c (the buffer of a *)
(* build, its reaper and the passing of descriptors), the heap scans of    *)
(* pg_cuvs.c that fill that buffer, alone or with parallel workers, and    *)
(* connection_thread() with the prologue and the reply of every handler of *)
(* pg_cuvs_server.c.                                                       *)
(*                                                                         *)
(* A call is a sequence of small steps of two processes (and, in a         *)
(* parallel build, of the leader and its workers) that share POSIX shared  *)
(* memory: named segments under /dev/shm, which survive every process, and *)
(* descriptors and mappings, which do not.  What a vector or a reply says  *)
(* is left out; so are the sizes, apart from the tests that reject a       *)
(* request.                                                                *)
(***************************************************************************)
EXTENDS Naturals, FiniteSets

CONSTANTS
    Calls,    \* calls that may be under way at the same time
    Parts,    \* participants of a parallel build
    Leader,   \* the one that is the calling backend
    KindSet,  \* the kinds of call that are made
    Reapers   \* backends that are loading the library

ASSUME PartsAssumption ==
    /\ Leader \in Parts
    /\ Parts \cap {"query", "filter", "corpus", "reply"} = {}

(***************************************************************************)
(* The commands, by what they exchange.  req: segments with the query, the *)
(* filter or the rows, named /pg_cuvs_<pid>_..; corpus: where the rows of  *)
(* a build are collected; frames: messages sent before the reply; reply:   *)
(* results in the message, in a segment of the daemon that has a name for  *)
(* a moment, or in an anonymous one.                                       *)
(***************************************************************************)
KindInfo(req, corpus, frames, reply) ==
    [req |-> req, corpus |-> corpus, frames |-> frames, reply |-> reply]

PlainCall     == KindInfo({}, FALSE, 1, "inline")  \* statistics, MARK_STALE, DROP, SET_VRAM_BUDGET
CompactCall   == KindInfo({}, FALSE, 2, "inline")
SearchCall    == KindInfo({"query"}, FALSE, 1, "inline")            \* also SEARCH_IVFPQ
FilteredCall  == KindInfo({"query", "filter"}, FALSE, 1, "inline")  \* also SEARCH_STREAM_BF
BatchCall     == KindInfo({"query"}, FALSE, 1, "named")
ExtendCall    == KindInfo({"query"}, FALSE, 2, "inline")            \* also BUILD_IVFPQ
AdjacencyCall == KindInfo({}, FALSE, 1, "named")
HnswCall      == KindInfo({}, FALSE, 1, "anon")
TransientCall == KindInfo({"query"}, TRUE, 2, "inline")
BuildCall     == KindInfo({}, TRUE, 2, "inline")                    \* also BUILD_FLAT
MultiCall     == KindInfo({}, FALSE, 3, "inline")                   \* a build from partials

Info == [plain |-> PlainCall, compact |-> CompactCall, search |-> SearchCall,
         filtered |-> FilteredCall, batch |-> BatchCall, extend |-> ExtendCall,
         export |-> AdjacencyCall, hnsw |-> HnswCall, transient |-> TransientCall,
         build |-> BuildCall, multi |-> MultiCall]
KindNames == {"plain", "compact", "search", "filtered", "batch", "extend", "export", "hnsw",
              "transient", "build", "multi"}

ASSUME KindAssumption == KindSet \subseteq KindNames

Tiers == {"memfd", "shm", "heap"}   \* CorpusKind

VARIABLES
    call,    \* the client's side of each call: [at, kind, tier, old]
    part,    \* state of each participant's partial corpus
    conn,    \* the socket: frames sent, whether the client's end is open, the reply
    thr,     \* the daemon's thread: [at, todo]
    names,   \* objects that have a name under /dev/shm
    locked,  \* named corpora whose flock is held
    young,   \* named corpora changed less than REAP_MIN_AGE_S ago
    refs,    \* <<"cli" or "srv", object>>: descriptors and mappings
    lost,    \* named objects whose process died or gave up a parallel build
    reap,    \* the name each reaper is at: [at, o]
    aged     \* history: the names that the stat of some reaper has found old enough
vars == <<call, part, conn, thr, names, locked, young, refs, lost, reap, aged>>
shm == <<names, locked, young, refs, lost>>

NoCall == [at |-> "idle", kind |-> "plain", tier |-> "heap", old |-> FALSE]
NoConn == [sent |-> 0, open |-> FALSE, reply |-> "none", fd |-> FALSE]
NoThread == [at |-> "none", todo |-> {}]
NoParts == [p \in Parts |-> "none"]
Resting == [at |-> "idle", o |-> <<>>]

Obj(c, role) == <<c, role>>
Of(c) == Info[call[c].kind]
\* The segments of the request; the rows of a heap-tier build are copied to one.
Requests(c) ==
    {Obj(c, r) : r \in Of(c).req \cup (IF call[c].kind = "build" /\ call[c].tier = "heap" THEN {"query"} ELSE {})}
Partials(c) == {Obj(c, p) : p \in {q \in Parts : part[c][q] = "detached"}}
Corpus(c) == Obj(c, "corpus")
Reply(c) == Obj(c, "reply")
\* What the daemon opens by name.
Needs(c) ==
    Requests(c) \cup Partials(c) \cup (IF Of(c).corpus /\ call[c].tier = "shm" THEN {Corpus(c)} ELSE {})
\* Everything the client's side of a call may have created.
Mine(c) == {Obj(c, r) : r \in {"query", "filter", "corpus"} \cup Parts}
Refs(side, c) == {r \in refs : r[1] = side /\ r[2][1] = c}

To(c, at) == call' = [call EXCEPT ![c].at = at]

-----------------------------------------------------------------------------
(***************************************************************************)
(* The client: staging                                                     *)
(***************************************************************************)

\* A backend starts a call; an extension built from an older header (old)
\* sends a shorter command frame.  Names hold the process id and a counter, so
\* what an earlier call left behind is out of the way, and is forgotten here.
Begin(c, k, t, old) ==
    /\ call[c].at = "idle" /\ thr[c].at = "none"
    /\ (t # "heap" => Info[k].corpus) /\ (k = "transient" => t # "heap")
    /\ call' = [call EXCEPT ![c] = [kind |-> k, tier |-> t, old |-> old,
           at |-> IF Info[k].corpus THEN "corpus" ELSE IF k = "multi" THEN "gather" ELSE "stage"]]
    /\ part' = [part EXCEPT ![c] = NoParts]
    /\ conn' = [conn EXCEPT ![c] = NoConn]
    /\ names' = {o \in names : o[1] # c} /\ lost' = {o \in lost : o[1] # c}
    /\ young' = {o \in young : o[1] # c} /\ aged' = {o \in aged : o[1] # c}
    /\ reap' = [r \in Reapers |-> IF reap[r].at # "idle" /\ reap[r].o[1] = c THEN Resting ELSE reap[r]]
    /\ UNCHANGED <<thr, locked, refs>>

\* open_memfd, open_shm up to its flock, or the heap buffer.
OpenCorpus(c) ==
    /\ call[c].at = "corpus"
    /\ names' = IF call[c].tier = "shm" THEN names \cup {Corpus(c)} ELSE names
    /\ young' = IF call[c].tier = "shm" THEN young \cup {Corpus(c)} ELSE young
    /\ refs' = IF call[c].tier = "heap" THEN refs ELSE refs \cup {<<"cli", Corpus(c)>>}
    /\ To(c, IF call[c].tier = "shm" THEN "lock" ELSE "scan")
    /\ UNCHANGED <<part, conn, thr, locked, lost, reap, aged>>

\* flock(LOCK_EX); ftruncate or mmap may still fail, and unlink the name: a
\* build goes on with the heap buffer, a transient search is not possible.
LockCorpus(c) ==
    /\ call[c].at = "lock"
    /\ \/ locked' = locked \cup {Corpus(c)} /\ To(c, "scan") /\ UNCHANGED <<names, young, refs>>
       \/ /\ names' = names \ {Corpus(c)} /\ young' = young \ {Corpus(c)}
          /\ refs' = refs \ {<<"cli", Corpus(c)>>}
          /\ call' = [call EXCEPT ![c].at = IF call[c].kind = "build" THEN "scan" ELSE "over",
                                  ![c].tier = "heap"]
          /\ UNCHANGED locked
    /\ UNCHANGED <<part, conn, thr, lost, reap, aged>>

\* grow_build_buffers during a scan; of a named corpus, the file changes.
Grow(o) ==
    /\ o \in locked
    /\ call[o[1]].at = "scan" \/ (o[2] \in Parts /\ part[o[1]][o[2]] = "scan")
    /\ young' = young \cup {o}
    /\ UNCHANGED <<call, part, conn, thr, names, locked, refs, lost, reap, aged>>

\* cuvs_corpus_resize to the exact size: the file changes, unless that is the
\* size it has already.
Resized(o) == young' \in {young, young \cup ({o} \cap names)}

\* The heap scan ends: the last resize and the hand-over, or an empty table, or
\* an ERROR; PG_FINALLY closes.
Scan(c) ==
    /\ call[c].at = "scan"
    /\ \/ To(c, "stage") /\ Resized(Corpus(c))
       \/ To(c, "over") /\ UNCHANGED young
    /\ UNCHANGED <<part, conn, thr, names, locked, refs, lost, reap, aged>>

\* make_shm_key and shm_write_query, shm_write_query_batch or
\* shm_write_build_payload for the next segment, or its failure.
Stage(c) ==
    /\ call[c].at = "stage"
    /\ LET missing == Requests(c) \ names IN
       \/ missing = {} /\ To(c, "connect") /\ UNCHANGED <<names, refs>>
       \/ \E o \in missing :
             /\ names' = names \cup {o} /\ refs' = refs \cup {<<"cli", o>>}
             /\ UNCHANGED call
       \/ missing # {} /\ To(c, "over") /\ UNCHANGED <<names, refs>>
    /\ UNCHANGED <<part, conn, thr, locked, young, lost, reap, aged>>

(***************************************************************************)
(* A parallel build: cuvs_scan_shm_partial in the leader and the workers   *)
(***************************************************************************)

PartOpen(c, p) ==
    /\ call[c].at = "gather" /\ part[c][p] = "none"
    /\ names' = names \cup {Obj(c, p)} /\ young' = young \cup {Obj(c, p)}
    /\ refs' = refs \cup {<<"cli", Obj(c, p)>>}
    /\ part' = [part EXCEPT ![c][p] = "open"]
    /\ UNCHANGED <<call, conn, thr, locked, lost, reap, aged>>

PartLock(c, p) ==
    /\ call[c].at = "gather" /\ part[c][p] = "open"
    /\ locked' = locked \cup {Obj(c, p)}
    /\ part' = [part EXCEPT ![c][p] = "scan"]
    /\ UNCHANGED <<call, conn, thr, names, young, refs, lost, reap, aged>>

\* The last resize, then cuvs_corpus_detach: the descriptor is closed, and
\* with it the lock is gone; the name stays for the daemon.
PartDetach(c, p) ==
    /\ call[c].at = "gather" /\ part[c][p] = "scan"
    /\ Resized(Obj(c, p))
    /\ locked' = locked \ {Obj(c, p)} /\ refs' = refs \ {<<"cli", Obj(c, p)>>}
    /\ part' = [part EXCEPT ![c][p] = "detached"]
    /\ UNCHANGED <<call, conn, thr, names, lost, reap, aged>>

\* An empty share: cuvs_corpus_close.
PartEmpty(c, p) ==
    /\ call[c].at = "gather" /\ part[c][p] = "scan"
    /\ names' = names \ {Obj(c, p)} /\ young' = young \ {Obj(c, p)} /\ locked' = locked \ {Obj(c, p)}
    /\ refs' = refs \ {<<"cli", Obj(c, p)>>}
    /\ part' = [part EXCEPT ![c][p] = "empty"]
    /\ UNCHANGED <<call, conn, thr, lost, reap, aged>>

\* LaunchParallelWorkers may start fewer workers than were requested.
PartNotLaunched(c, p) ==
    /\ call[c].at = "gather" /\ part[c][p] = "none" /\ p # Leader
    /\ part' = [part EXCEPT ![c][p] = "empty"]
    /\ UNCHANGED <<call, conn, thr, shm, reap, aged>>

\* WaitForParallelWorkersToFinish; an empty table ends the build.
Gathered(c) ==
    /\ call[c].at = "gather"
    /\ \A p \in Parts : part[c][p] \in {"detached", "empty"}
    /\ To(c, IF Partials(c) = {} THEN "idle" ELSE "connect")
    /\ UNCHANGED <<part, conn, thr, shm, reap, aged>>

\* An ERROR or a cancel in a participant: whoever fails closes and unlinks his
\* own segment, as the leader does; the other workers are terminated, and no
\* code path unlinks what they have or had.
GatherFails(c, p) ==
    /\ call[c].at = "gather" /\ part[c][p] \in {"none", "open", "scan"}
    /\ LET closed == {q \in {p, Leader} : part[c][q] \in {"open", "scan"}}
           gone == {Obj(c, q) : q \in closed}
           left == {Obj(c, q) : q \in Parts} \cap (names \ gone)
       IN /\ names' = names \ gone /\ young' = young \ gone
          /\ lost' = lost \cup left
          /\ locked' = locked \ {Obj(c, q) : q \in Parts}
          /\ refs' = refs \ Refs("cli", c)
    /\ To(c, "idle")
    /\ UNCHANGED <<part, conn, thr, reap, aged>>

(***************************************************************************)
(* The client: exchange                                                    *)
(***************************************************************************)

\* uds_connect: the daemon's listener starts a thread, or cannot be reached.
Connect(c) ==
    /\ call[c].at = "connect"
    /\ \/ /\ conn' = [conn EXCEPT ![c] = [NoConn EXCEPT !.open = TRUE]]
          /\ thr' = [thr EXCEPT ![c] = [at |-> "cmd", todo |-> {}]]
          /\ To(c, "send")
       \/ To(c, "over") /\ UNCHANGED <<conn, thr>>
    /\ UNCHANGED <<part, shm, reap, aged>>

\* send_cmd, then cuvs_fd_send with the index directory (and the memfd), then
\* the descriptors of the partials; a closed peer ends the call.
Send(c) ==
    /\ call[c].at = "send"
    /\ \/ /\ thr[c].at # "none"
          /\ conn' = [conn EXCEPT ![c].sent = @ + 1]
          /\ IF conn[c].sent + 1 = Of(c).frames THEN To(c, "wait") ELSE UNCHANGED call
       \/ thr[c].at = "none" /\ To(c, "over") /\ UNCHANGED conn
    /\ UNCHANGED <<part, thr, shm, reap, aged>>

\* recv_all, recv_all_interruptible or cuvs_fd_recv: a reply, or end of file.
Receive(c) ==
    /\ call[c].at = "wait"
    /\ conn[c].reply # "none" \/ thr[c].at = "none"
    /\ refs' = IF conn[c].fd THEN refs \cup {<<"cli", Reply(c)>>} ELSE refs
    /\ conn' = [conn EXCEPT ![c].fd = FALSE]
    /\ To(c, "over")
    /\ UNCHANGED <<part, thr, names, locked, young, lost, reap, aged>>

\* SO_RCVTIMEO (30, 120 or 600 s), or a cancel seen by the wait callback.
GiveUp(c) ==
    /\ call[c].at = "wait"
    /\ To(c, "over")
    /\ UNCHANGED <<part, conn, thr, shm, reap, aged>>

CleanupForgetsFilter(c) ==
    /\ call[c].at = "over"
    /\ conn' = [conn EXCEPT ![c].open = FALSE, ![c].fd = FALSE]
    /\ names' = names \ (Mine(c) \ {Obj(c, "filter")})
    /\ locked' = locked \ Mine(c) /\ young' = young \ Mine(c)
    /\ refs' = refs \ Refs("cli", c)
    /\ To(c, "idle")
    /\ UNCHANGED <<part, thr, lost, reap, aged>>

\* The cleanup label of every call, cuvs_corpus_close and the PG_FINALLY of
\* the parallel build: close, unlink, return.
Cleanup(c) ==
    /\ call[c].at = "over"
    /\ conn' = [conn EXCEPT ![c].open = FALSE, ![c].fd = FALSE]
    /\ names' = names \ Mine(c) /\ locked' = locked \ Mine(c) /\ young' = young \ Mine(c)
    /\ refs' = refs \ Refs("cli", c)
    /\ To(c, "idle")
    /\ UNCHANGED <<part, thr, lost, reap, aged>>

Client(c) ==
    \/ OpenCorpus(c) \/ LockCorpus(c) \/ Scan(c) \/ Stage(c)
    \/ \E p \in Parts : PartOpen(c, p) \/ PartLock(c, p) \/ PartDetach(c, p) \/ PartEmpty(c, p)
    \/ \E p \in Parts : PartNotLaunched(c, p)
    \/ Gathered(c) \/ Connect(c) \/ Send(c) \/ Receive(c) \/ Cleanup(c)

-----------------------------------------------------------------------------
(***************************************************************************)
(* The daemon's thread                                                     *)
(***************************************************************************)

\* Whether the thread has received its nth message, or end of file instead.
Got(c, n) == conn[c].sent >= n
Eof(c, n) == ~Got(c, n) /\ ~conn[c].open

\* The reply is written (and lost if the client is gone) and the socket closed;
\* the descriptor of a reply segment travels with it.
Answer(c, reply, fd) ==
    /\ conn' = IF conn[c].open THEN [conn EXCEPT ![c].reply = reply, ![c].fd = fd] ELSE conn
    /\ thr' = [thr EXCEPT ![c] = NoThread]
    /\ refs' = refs \ Refs("srv", c)

ThreadTo(c, at, todo) == thr' = [thr EXCEPT ![c] = [at |-> at, todo |-> todo]]

ReadCommandWhole(c) ==
    /\ thr[c].at = "cmd" /\ Got(c, 1) /\ ~call[c].old
    /\ IF Of(c).frames = 1 THEN ThreadTo(c, "open", Needs(c)) ELSE ThreadTo(c, "frame", {})
    /\ UNCHANGED <<conn, call, part, shm, reap, aged>>

\* The prologue is read and tested before the rest of the frame.
ReadCommand(c) ==
    /\ thr[c].at = "cmd" /\ Got(c, 1)
    /\ \/ call[c].old /\ Answer(c, "err", FALSE)
       \/ /\ ~call[c].old
          /\ IF Of(c).frames = 1 THEN ThreadTo(c, "open", Needs(c)) ELSE ThreadTo(c, "frame", {})
          /\ UNCHANGED <<conn, refs>>
    /\ UNCHANGED <<call, part, names, locked, young, lost, reap, aged>>

\* cuvs_fd_recv: the index directory, with the memfd of the corpus.
ReadFrame(c) ==
    /\ thr[c].at = "frame" /\ Got(c, 2)
    /\ refs' = IF Of(c).corpus /\ call[c].tier = "memfd" THEN refs \cup {<<"srv", Corpus(c)>>} ELSE refs
    /\ IF Of(c).frames = 2 THEN ThreadTo(c, "open", Needs(c)) ELSE ThreadTo(c, "descs", {})
    /\ UNCHANGED <<call, part, conn, names, locked, young, lost, reap, aged>>

\* handle_build_multi: the list of the partials.
ReadDescs(c) ==
    /\ thr[c].at = "descs" /\ Got(c, 3)
    /\ ThreadTo(c, "open", Needs(c))
    /\ UNCHANGED <<call, part, conn, shm, reap, aged>>

\* The client closed its end before it sent the next message.
ReadEof(c) ==
    /\ \E n \in 1 .. 3 : thr[c].at = <<"cmd", "frame", "descs">>[n] /\ Eof(c, n)
    /\ Answer(c, "err", FALSE)
    /\ UNCHANGED <<call, part, names, locked, young, lost, reap, aged>>

\* shm_open, the owner test and mmap of the next segment.
OpenNext(c) ==
    /\ thr[c].at = "open"
    /\ \E o \in thr[c].todo :
          IF o \in names
          THEN /\ refs' = refs \cup {<<"srv", o>>}
               /\ ThreadTo(c, "open", thr[c].todo \ {o})
               /\ UNCHANGED conn
          ELSE Answer(c, "err", FALSE)
    /\ UNCHANGED <<call, part, names, locked, young, lost, reap, aged>>

\* A request that is refused, before or after its segments are mapped: sizes,
\* an index that is not there, stale or of another metric, no VRAM, an error
\* of the GPU library.
Reject(c) ==
    /\ thr[c].at \in {"open", "descs"}
    /\ Answer(c, "err", FALSE)
    /\ UNCHANGED <<call, part, names, locked, young, lost, reap, aged>>

\* The work is done and the mappings of the request are gone.
Work(c) ==
    /\ thr[c].at = "open" /\ thr[c].todo = {}
    /\ IF Of(c).reply = "inline" THEN Answer(c, "ok", FALSE)
       ELSE refs' = refs \ Refs("srv", c) /\ ThreadTo(c, "reply", {}) /\ UNCHANGED conn
    /\ UNCHANGED <<call, part, names, locked, young, lost, reap, aged>>

\* The reply segment: shm_open under a name, or memfd_create.
MakeReply(c) ==
    /\ thr[c].at = "reply"
    /\ names' = IF Of(c).reply = "named" THEN names \cup {Reply(c)} ELSE names
    /\ refs' = refs \cup {<<"srv", Reply(c)>>}
    /\ ThreadTo(c, "fill", {})
    /\ UNCHANGED <<call, part, conn, locked, young, lost, reap, aged>>

\* The name is unlinked as soon as the second descriptor is open, on the error
\* paths too; the descriptor is sent and closed.
FillReply(c) ==
    /\ thr[c].at = "fill"
    /\ names' = names \ {Reply(c)}
    /\ Answer(c, "ok", TRUE) \/ Answer(c, "err", FALSE)
    /\ UNCHANGED <<call, part, locked, young, lost, reap, aged>>

Thread(c) ==
    \/ ReadCommand(c) \/ ReadFrame(c) \/ ReadDescs(c) \/ ReadEof(c) \/ OpenNext(c) \/ Work(c)
    \/ MakeReply(c) \/ FillReply(c)

-----------------------------------------------------------------------------
(***************************************************************************)
(* Time, the reaper and the deaths of processes                            *)
(***************************************************************************)

\* Named corpora: the prefix /pg_cuvs_bld_.
Reapable(o) == o[2] \in {"corpus"} \cup Parts

\* REAP_MIN_AGE_S pass.  A process does not stop for that long between the
\* shm_open and the flock of open_shm.
Age(o) ==
    /\ o \in young
    /\ o \in locked \/ o \in lost \/ (o[2] \in Parts /\ part[o[1]][o[2]] = "detached")
    /\ young' = young \ {o}
    /\ UNCHANGED <<call, part, conn, thr, names, locked, refs, lost, reap, aged>>

(***************************************************************************)
(* cuvs_corpus_reap_orphans, run when a process loads the library: one     *)
(* name after the other is looked at, opened, locked and unlinked, and a   *)
(* build may go on between any two of these calls.                         *)
(***************************************************************************)
ReapTo(r, at) == reap' = [reap EXCEPT ![r].at = at]
ReapNext(r) == reap' = [reap EXCEPT ![r] = Resting]

\* stat: a name that changed less than REAP_MIN_AGE_S ago is passed over.
ReapStat(r) ==
    /\ reap[r].at = "idle"
    /\ \E o \in names \ young :
          /\ Reapable(o)
          /\ reap' = [reap EXCEPT ![r] = [at |-> "old", o |-> o]]
          /\ aged' = aged \cup {o}
    /\ UNCHANGED <<call, part, conn, thr, shm>>

\* shm_open: the name may have vanished since.
ReapOpen(r) ==
    /\ reap[r].at = "old"
    /\ IF reap[r].o \in names THEN ReapTo(r, "open") ELSE ReapNext(r)
    /\ UNCHANGED <<call, part, conn, thr, shm, aged>>

ReapLockBlindly(r) ==
    /\ reap[r].at = "open"
    /\ ReapTo(r, "mine")
    /\ UNCHANGED <<call, part, conn, thr, shm, aged>>

\* flock(LOCK_EX | LOCK_NB): refused while the builder or another reaper has it.
ReapLock(r) ==
    /\ reap[r].at = "open"
    /\ IF reap[r].o \in locked \/ \E s \in Reapers : reap[s] = [at |-> "mine", o |-> reap[r].o]
       THEN ReapNext(r) ELSE ReapTo(r, "mine")
    /\ UNCHANGED <<call, part, conn, thr, shm, aged>>

\* shm_unlink and close.
ReapUnlink(r) ==
    /\ reap[r].at = "mine"
    /\ names' = names \ {reap[r].o} /\ lost' = lost \ {reap[r].o}
    /\ ReapNext(r)
    /\ UNCHANGED <<call, part, conn, thr, locked, young, refs, aged>>

Reap(r) == ReapStat(r) \/ ReapOpen(r) \/ ReapLock(r) \/ ReapUnlink(r)

\* Termination of a backend is served by the scan; no PG_FINALLY runs then.
Terminate(c) ==
    /\ call[c].at = "gather" \/ (call[c].at = "scan" /\ call[c].kind = "build")
    /\ lost' = lost \cup (Mine(c) \cap names)
    /\ locked' = locked \ Mine(c)
    /\ refs' = refs \ Refs("cli", c)
    /\ To(c, "idle")
    /\ UNCHANGED <<part, conn, thr, names, young, reap, aged>>

\* The death of one backend by a signal restarts all of them.
PgCrash ==
    /\ \E c \in Calls : call[c].at # "idle"
    /\ LET all == UNION {Mine(c) : c \in Calls} IN
          /\ lost' = lost \cup (all \cap names)
          /\ locked' = locked \ all
    /\ refs' = {r \in refs : r[1] = "srv"}
    /\ call' = [c \in Calls |-> [call[c] EXCEPT !.at = "idle"]]
    /\ conn' = [c \in Calls |-> [conn[c] EXCEPT !.open = FALSE, !.fd = FALSE]]
    /\ reap' = [r \in Reapers |-> Resting]
    /\ UNCHANGED <<part, thr, names, young, aged>>

\* The daemon stops or crashes; the next one starts with no threads.
DaemonDies ==
    /\ \E c \in Calls : thr[c].at # "none"
    /\ thr' = [c \in Calls |-> NoThread]
    /\ refs' = {r \in refs : r[1] = "cli"}
    /\ lost' = lost \cup ({Reply(c) : c \in Calls} \cap names)
    /\ UNCHANGED <<call, part, conn, names, locked, young, reap, aged>>

Init ==
    /\ call = [c \in Calls |-> NoCall]
    /\ part = [c \in Calls |-> NoParts]
    /\ conn = [c \in Calls |-> NoConn]
    /\ thr = [c \in Calls |-> NoThread]
    /\ names = {} /\ locked = {} /\ young = {} /\ refs = {} /\ lost = {}
    /\ reap = [r \in Reapers |-> Resting] /\ aged = {}

Next ==
    \/ \E c \in Calls :
          \/ \E k \in KindSet, t \in Tiers, old \in BOOLEAN : Begin(c, k, t, old)
          \/ Client(c) \/ Thread(c) \/ Reject(c) \/ GiveUp(c) \/ Terminate(c)
          \/ \E p \in Parts : GatherFails(c, p)
    \/ \E r \in Reapers : Reap(r)
    \/ \E o \in locked : Grow(o)
    \/ \E o \in young : Age(o)
    \/ PgCrash \/ DaemonDies

\* Neither time-outs nor failures are fair: a call ends because the other side
\* answers or closes, not because the clock runs out.
Spec ==
    /\ Init /\ [][Next]_vars
    /\ \A c \in Calls : WF_vars(Client(c)) /\ WF_vars(Thread(c))

-----------------------------------------------------------------------------
(***************************************************************************)
(* Properties                                                              *)
(***************************************************************************)

\* Every path out of a call, of the client or of the daemon's thread, closes
\* the descriptors and mappings it took and unlinks the names it made.  A name
\* stays behind only when its process died, or when a parallel build failed
\* before its partials were handed over; the reaper can take such a corpus,
\* since nobody holds its lock.
NothingLeftBehind ==
    /\ \A o \in names :
          o \in lost \/ (IF o[2] = "reply" THEN thr[o[1]].at # "none" ELSE call[o[1]].at # "idle")
    /\ \A r \in refs : IF r[1] = "srv" THEN thr[r[2][1]].at # "none" ELSE call[r[2][1]].at # "idle"
    /\ lost \subseteq names \ locked

\* From the moment its request is complete until the daemon has mapped it or
\* the client has given up, every segment the daemon will open by name is
\* still there, whatever reapers run meanwhile.  Only a partial of a parallel
\* build, which has no lock once it is detached, may be gone: when it has not
\* changed for REAP_MIN_AGE_S, or had not when the reaper looked at it, its
\* last resize and the detach coming after the stat.
LiveCorpusKept ==
    \A c \in Calls :
        call[c].at \in {"connect", "send", "wait"} =>
            \A o \in Needs(c) :
                \/ o \in names
                \/ o[2] \in Parts /\ (o \notin young \/ o \in aged)

\* Every call returns to its caller and every thread of the daemon ends, with
\* no help from a time-out: also when the other side dies, and when extension
\* and daemon were built from different headers.
CallsSettle ==
    \A c \in Calls : (call[c].at # "idle" \/ thr[c].at # "none")
                        ~> (call[c].at = "idle" /\ thr[c].at = "none")
=============================================================================

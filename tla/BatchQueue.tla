----------------------------- MODULE BatchQueue -----------------------------
(***************************************************************************)
(* The micro-batch search path of the daemon (pg_cuvs_server.c).           *)
(*                                                                         *)
(* A connection thread that wants its search coalesced leaves              *)
(* g_index_mutex, puts a POINTER TO A REQUEST ON ITS OWN STACK in          *)
(* g_batch_queue and sleeps until the single worker sets `done'.  The      *)
(* worker moves the queue into a local array, drops g_batch_mtx, runs one  *)
(* GPU dispatch per group of equal keys (taking g_index_mutex for each),   *)
(* and then wakes every member.  SIGTERM may arrive at any time: the       *)
(* worker fails what is still queued and leaves.  main leaves its accept   *)
(* loop when the signal interrupts accept(), or when it next tests         *)
(* g_shutdown, which may take until the next connection; then it joins the *)
(* worker and the warm-up threads and the process exits.                   *)
(*                                                                         *)
(* g_batch_mtx is not a variable: every action below is one critical       *)
(* section of it (or one critical section of g_index_mutex, for            *)
(* RunGroup).  The queue holds threads, since a thread has one request.    *)
(***************************************************************************)
EXTENDS Naturals, Sequences, FiniteSets

CONSTANTS
  Threads,    \* connection threads that issue batched searches
  Keys,       \* coalescing keys (index, precision, dim, mode, tuning)
  KeyOf,      \* the key of each thread's request
  BatchMax    \* CUVS_BATCH_MAX, the capacity of g_batch_queue

ASSUME KeyOfAssumption == KeyOf \in [Threads -> Keys]
ASSUME BatchMaxAssumption == BatchMax \in Nat \ {0}

VARIABLES
  pc,        \* where each connection thread is
  queue,     \* g_batch_queue[0 .. g_batch_queue_n - 1]
  batch,     \* the worker's local array, <<>> outside batch_process_locked
  ran,       \* keys of `batch' whose group has been dispatched
  status,    \* req.status of each thread
  done,      \* req.done of each thread
  wpc,       \* where the worker is; "exited" once the process has ended
  shutdown,  \* g_shutdown
  main,      \* main: at the test of its loop, past it up to the return of accept(), or past the loop
  warm       \* the warm-up thread that leaves last: waiting for a job, in one, or gone

vars == <<pc, queue, batch, ran, status, done, wpc, shutdown, main, warm>>
searches == <<pc, queue, batch, ran, status, done>>

\* "error" is the value the request is initialised with; a reply that
\* carries it was never computed.  "refused" stands for every computed answer
\* without results: not found, stale, no .vectors, no memory, a bad query.
Statuses == {"error", "ok", "refused", "unavailable"}

\* What find_index/load_index can give a caller that holds g_index_mutex: a
\* servable entry, a stale one, or none.  MARK_STALE, DROP, REINDEX, eviction
\* and reload run whenever that mutex is free, so two look-ups of one request
\* may disagree and each is a fresh choice.
IndexStates == {"fresh", "stale", "none"}

Members(s) == {s[i] : i \in DOMAIN s}

(* The two arrays have CUVS_BATCH_MAX slots; the worker's local array is   *)
(* filled from the queue without a test of its own.                        *)
TypeOK ==
  /\ pc \in [Threads -> {"idle", "connected", "unlocked", "wait", "direct", "replied", "closed"}]
  /\ queue \in Seq(Threads) /\ Len(queue) <= BatchMax
  /\ batch \in Seq(Threads) /\ Len(batch) <= BatchMax
  /\ ran \in SUBSET Keys
  /\ status \in [Threads -> Statuses]
  /\ done \in [Threads -> BOOLEAN]
  /\ wpc \in {"poll", "window", "dispatch", "gone", "exited"}
  /\ shutdown \in BOOLEAN
  /\ main \in {"test", "accept", "leaving"}
  /\ warm \in {"poll", "job", "gone"}

Init ==
  /\ pc = [t \in Threads |-> "idle"]
  /\ queue = <<>>
  /\ batch = <<>>
  /\ ran = {}
  /\ status = [t \in Threads |-> "error"]
  /\ done = [t \in Threads |-> FALSE]
  /\ wpc = "poll"
  /\ shutdown = FALSE
  /\ main = "test"
  /\ warm = "poll"

-----------------------------------------------------------------------------
(* Faulty variants of the actions below.  No specification uses them; they *)
(* show that the properties of this module notice the mistake.             *)

EnqueueOffByOne(t) ==        \* `<=' for `<' in the capacity test
  /\ pc[t] = "unlocked"
  /\ wpc # "exited"
  /\ Len(queue) <= BatchMax
  /\ queue' = Append(queue, t)
  /\ pc' = [pc EXCEPT ![t] = "wait"]
  /\ UNCHANGED <<batch, ran, status, done, wpc, shutdown, main, warm>>

TakeQueueKeepsQueue ==      \* g_batch_queue_n is not reset
  /\ wpc = "window"
  /\ batch' = queue
  /\ ran' = {}
  /\ wpc' = "dispatch"
  /\ UNCHANGED <<pc, queue, status, done, shutdown, main, warm>>

TakeQueueDropsTail ==       \* the copy loop stops one short of n
  /\ wpc = "window"
  /\ batch' = SubSeq(queue, 1, IF Len(queue) > 1 THEN Len(queue) - 1 ELSE 1)
  /\ queue' = <<>>
  /\ ran' = {}
  /\ wpc' = "dispatch"
  /\ UNCHANGED <<pc, status, done, shutdown, main, warm>>

FinishBatchEarly ==         \* producers are woken after any group
  /\ wpc = "dispatch"
  /\ done' = [t \in Threads |-> done[t] \/ t \in Members(batch)]
  /\ batch' = <<>>
  /\ ran' = {}
  /\ wpc' = "poll"
  /\ UNCHANGED <<pc, queue, status, shutdown, main, warm>>

SeeWorkFullOnly ==          \* the worker waits for a full queue
  /\ wpc = "poll"
  /\ ~shutdown
  /\ Len(queue) >= BatchMax
  /\ wpc' = "window"
  /\ UNCHANGED <<pc, queue, batch, ran, status, done, shutdown, main, warm>>

FailAllOnlyWhenQueued ==    \* the shutdown test is nested in the work test
  /\ wpc = "poll"
  /\ shutdown
  /\ queue # <<>>
  /\ status' = [t \in Threads |->
                  IF t \in Members(queue) THEN "unavailable" ELSE status[t]]
  /\ done' = [t \in Threads |-> done[t] \/ t \in Members(queue)]
  /\ queue' = <<>>
  /\ wpc' = "gone"
  /\ UNCHANGED <<pc, batch, ran, shutdown, main, warm>>

-----------------------------------------------------------------------------
(* Connection thread: the preamble of handle_search under g_index_mutex.   *)
(* The index must be servable when the thread decides to batch; a stale or *)
(* missing one, or a query that fails the metric, dimension or shm checks, *)
(* is answered at once and never reaches the queue.  Otherwise the lock is *)
(* released before g_batch_mtx is taken.                                   *)
SearchPreamble(t) ==
  /\ pc[t] = "connected"
  /\ wpc # "exited"
  /\ \E s \in IndexStates :
       \/ /\ s = "fresh"
          /\ pc' = [pc EXCEPT ![t] = "unlocked"]
          /\ status' = [status EXCEPT ![t] = "error"]
       \/ /\ pc' = [pc EXCEPT ![t] = "replied"]
          /\ status' = [status EXCEPT ![t] = "refused"]
  /\ done' = [done EXCEPT ![t] = FALSE]
  /\ UNCHANGED <<queue, batch, ran, wpc, shutdown, main, warm>>

(* There is room: the request is queued and the thread waits for `done'.   *)
(* Note that nothing looks at g_shutdown here.                             *)
Enqueue(t) ==
  /\ pc[t] = "unlocked"
  /\ wpc # "exited"
  /\ Len(queue) < BatchMax
  /\ queue' = Append(queue, t)
  /\ pc' = [pc EXCEPT ![t] = "wait"]
  /\ UNCHANGED <<batch, ran, status, done, wpc, shutdown, main, warm>>

(* The queue is full, or the result buffer could not be allocated: the     *)
(* thread re-takes g_index_mutex, looks the entry up again and serves the  *)
(* query itself.                                                           *)
Degrade(t) ==
  /\ pc[t] = "unlocked"
  /\ wpc # "exited"
  /\ pc' = [pc EXCEPT ![t] = "direct"]
  /\ UNCHANGED <<queue, batch, ran, status, done, wpc, shutdown, main, warm>>

(* The second look-up is not followed by a second staleness test.          *)
ServeDirect(t) ==
  /\ pc[t] = "direct"
  /\ wpc # "exited"
  /\ pc' = [pc EXCEPT ![t] = "replied"]
  /\ \E r \in {"ok", "refused"} :
       status' = [status EXCEPT ![t] = r]
  /\ UNCHANGED <<queue, batch, ran, done, wpc, shutdown, main, warm>>

(* The waiting thread sees `done' under g_batch_mtx and replies; its       *)
(* request, which lives in its stack frame, is gone after this step.       *)
WakeAndReply(t) ==
  /\ pc[t] = "wait"
  /\ wpc # "exited"
  /\ done[t]
  /\ pc' = [pc EXCEPT ![t] = "replied"]
  /\ UNCHANGED <<queue, batch, ran, status, done, wpc, shutdown, main, warm>>

-----------------------------------------------------------------------------
(* Worker: batch_worker_thread.  A poll that times out with an empty queue *)
(* is a stuttering step.                                                   *)
SeeWork ==
  /\ wpc = "poll"
  /\ ~shutdown
  /\ queue # <<>>
  /\ wpc' = "window"
  /\ UNCHANGED <<pc, queue, batch, ran, status, done, shutdown, main, warm>>

(* The accumulation window is over: batch_process_locked takes the queue,  *)
(* even if g_shutdown was set during the window.                           *)
TakeQueue ==
  /\ wpc = "window"
  /\ batch' = queue
  /\ queue' = <<>>
  /\ ran' = {}
  /\ wpc' = "dispatch"
  /\ UNCHANGED <<pc, status, done, shutdown, main, warm>>

(* cuvs_batch_group: the keys of the batch in first-seen order; two        *)
(* requests are in one group iff their keys are equal.                     *)
FirstSeen(k) ==
  CHOOSE i \in DOMAIN batch :
    /\ KeyOf[batch[i]] = k
    /\ \A j \in DOMAIN batch : KeyOf[batch[j]] = k => i <= j

GroupKeys == {KeyOf[t] : t \in Members(batch)}

NextGroup(k) ==
  /\ k \in GroupKeys \ ran
  /\ \A l \in GroupKeys \ ran : FirstSeen(k) <= FirstSeen(l)

Outcomes(s) == IF s = "fresh" THEN {"ok", "refused"} ELSE {"refused"}

(* bf_batch_run_group / cagra_batch_run_group: the entry is looked up      *)
(* again under g_index_mutex, staleness is re-checked, and the outcome is  *)
(* written to every member of the group (not `done').                      *)
RunGroup(k) ==
  /\ wpc = "dispatch"
  /\ NextGroup(k)
  /\ \E s \in IndexStates : \E r \in Outcomes(s) :
       status' = [t \in Threads |->
                    IF t \in Members(batch) /\ KeyOf[t] = k THEN r ELSE status[t]]
  /\ ran' = ran \cup {k}
  /\ UNCHANGED <<pc, queue, batch, done, wpc, shutdown, main, warm>>

(* All groups are done: g_batch_mtx is taken again and every producer of   *)
(* this batch is woken.                                                    *)
FinishBatch ==
  /\ wpc = "dispatch"
  /\ GroupKeys \subseteq ran
  /\ done' = [t \in Threads |-> done[t] \/ t \in Members(batch)]
  /\ batch' = <<>>
  /\ ran' = {}
  /\ wpc' = "poll"
  /\ UNCHANGED <<pc, queue, status, shutdown, main, warm>>

(* batch_fail_all_locked: on shutdown the still-queued requests are failed *)
(* and their producers woken; the worker thread returns.                   *)
FailAllAndLeave ==
  /\ wpc = "poll"
  /\ shutdown
  /\ status' = [t \in Threads |->
                  IF t \in Members(queue) THEN "unavailable" ELSE status[t]]
  /\ done' = [t \in Threads |-> done[t] \/ t \in Members(queue)]
  /\ queue' = <<>>
  /\ wpc' = "gone"
  /\ UNCHANGED <<pc, batch, ran, shutdown, main, warm>>

-----------------------------------------------------------------------------
(* The accept loop of main.  "accept" begins when g_shutdown has been      *)
(* tested: a signal that comes before accept() blocks interrupts nothing.  *)
TestShutdown ==
  /\ main = "test"
  /\ main' = IF shutdown THEN "leaving" ELSE "accept"
  /\ UNCHANGED <<searches, wpc, shutdown, warm>>

(* A backend opens a connection for one request; connection_thread starts. *)
Accept(t) ==
  /\ main = "accept"
  /\ pc[t] \in {"idle", "replied"}
  /\ pc' = [pc EXCEPT ![t] = "connected"]
  /\ main' = "test"
  /\ UNCHANGED <<queue, batch, ran, status, done, wpc, shutdown, warm>>

(* A connection for any other command also wakes main.                     *)
AcceptOther ==
  /\ main = "accept"
  /\ main' = "test"
  /\ UNCHANGED <<searches, wpc, shutdown, warm>>

(* accept() fails for another reason than a signal: main leaves the loop,  *)
(* although nothing has set g_shutdown.                                    *)
AcceptFails ==
  /\ main = "accept"
  /\ main' = "leaving"
  /\ UNCHANGED <<searches, wpc, shutdown, warm>>

(* SIGTERM or SIGINT, once or again: the handler runs in any thread of the *)
(* process; only if it is main, blocked in accept(), is the loop broken.   *)
Sigterm ==
  /\ wpc # "exited"
  /\ shutdown' = TRUE
  /\ \/ UNCHANGED main
     \/ main = "accept" /\ main' = "leaving"
  /\ UNCHANGED <<searches, wpc, warm>>

(* A warm-up thread takes a job, and ends it: downloads have time-outs.    *)
WarmupTake ==
  /\ warm = "poll"
  /\ ~shutdown
  /\ warm' = "job"
  /\ UNCHANGED <<searches, wpc, shutdown, main>>

WarmupDone ==
  /\ warm = "job"
  /\ wpc # "exited"
  /\ warm' = IF shutdown THEN "gone" ELSE "poll"
  /\ UNCHANGED <<searches, wpc, shutdown, main>>

(* It waits for jobs without a time-out: graceful_shutdown has to wake it, *)
(* and does so after it has joined the worker.                             *)
WarmupLeaves ==
  /\ warm = "poll"
  /\ main = "leaving" /\ wpc = "gone"
  /\ warm' = "gone"
  /\ UNCHANGED <<searches, wpc, shutdown, main>>

(* graceful_shutdown has joined the worker and the warm-up threads and     *)
(* saved the indexes, main returns: every remaining thread ends with the   *)
(* process and its client sees the socket closed (UNAVAILABLE on the       *)
(* backend).                                                               *)
ProcessExit ==
  /\ main = "leaving"
  /\ wpc = "gone"
  /\ warm = "gone"
  /\ wpc' = "exited"
  /\ pc' = [t \in Threads |-> IF pc[t] \in {"idle", "replied"} THEN pc[t] ELSE "closed"]
  /\ UNCHANGED <<queue, batch, ran, status, done, shutdown, main, warm>>

ThreadStep(t) ==
  \/ SearchPreamble(t)
  \/ Enqueue(t)
  \/ Degrade(t)
  \/ ServeDirect(t)
  \/ WakeAndReply(t)

WorkerStep ==
  \/ SeeWork
  \/ TakeQueue
  \/ \E k \in Keys : RunGroup(k)
  \/ FinishBatch
  \/ FailAllAndLeave

MainStep ==
  \/ TestShutdown
  \/ AcceptOther
  \/ AcceptFails
  \/ \E t \in Threads : Accept(t)
  \/ ProcessExit

WarmupStep == WarmupTake \/ WarmupDone \/ WarmupLeaves

Next ==
  \/ \E t \in Threads : ThreadStep(t)
  \/ WorkerStep
  \/ MainStep
  \/ WarmupStep
  \/ Sigterm

Spec == Init /\ [][Next]_vars

(* The worker, the warm-up threads and main are threads of the process and *)
(* are scheduled; a woken producer returns from pthread_cond_wait.  main   *)
(* gets out of accept() only if somebody connects or signals, which gets   *)
(* no fairness, as new requests and the fate of the indexes get none.      *)
Fairness ==
  /\ WF_vars(WorkerStep)
  /\ WF_vars(TestShutdown)
  /\ WF_vars(ProcessExit)
  /\ WF_vars(WarmupDone)
  /\ WF_vars(WarmupLeaves)
  /\ \A t \in Threads : WF_vars(WakeAndReply(t))

FairSpec == Spec /\ Fairness

-----------------------------------------------------------------------------
(* Properties. *)

(* No pointer to a dead stack frame: as long as the process lives, every   *)
(* request the queue or the worker's local array points to belongs to a    *)
(* thread that is still blocked in its pthread_cond_wait loop with `done'  *)
(* unset, and no request is pointed to twice.  (handle_search keeps the    *)
(* CuvsBatchRequest on its stack and returns as soon as it sees `done'.)   *)
NoDanglingRequest ==
  wpc # "exited" =>
    /\ \A t \in Members(queue) \cup Members(batch) : pc[t] = "wait" /\ ~done[t]
    /\ \A i, j \in DOMAIN queue : queue[i] = queue[j] => i = j
    /\ \A i, j \in DOMAIN batch : batch[i] = batch[j] => i = j
    /\ Members(queue) \cap Members(batch) = {}

(* No request is lost between the queue and the worker: a thread that      *)
(* waits and has not been woken is queued or in the batch being            *)
(* dispatched, so somebody still has to set its `done'.                    *)
NoOrphanRequest ==
  \A t \in Threads :
    pc[t] = "wait" /\ ~done[t] => t \in Members(queue) \cup Members(batch)

(* A woken producer finds an outcome: whatever batch it was in and         *)
(* whichever group ran first, the reply never carries the ERROR status     *)
(* the request was initialised with.                                       *)
RepliesAreComputed ==
  \A t \in Threads :
    (pc[t] = "replied" \/ (pc[t] = "wait" /\ done[t])) => status[t] # "error"

Left(t) == pc[t] \in {"replied", "closed"}

(* Every coalesced search comes to an end: its thread replies, or the      *)
(* process exits and the client sees the connection closed.  The exception *)
(* is a request that was queued after the worker's last look at the queue, *)
(* while main sleeps in accept() although SIGTERM has been handled, and    *)
(* nobody ever connects again (handle_search, batch_worker_thread).        *)
EveryWaiterLeaves ==
  \A t \in Threads :
    pc[t] = "wait" ~> (Left(t) \/ [](wpc = "gone" /\ main = "accept"))

(* SIGTERM leads to the exit of the process whatever the worker and the    *)
(* warm-up threads were doing, however many requests are under way, and    *)
(* also if an earlier failure of accept() has already sent main into       *)
(* graceful_shutdown, unless main sleeps in accept() for ever.             *)
ShutdownCompletes == shutdown ~> (wpc = "exited" \/ [](main = "accept"))
=============================================================================

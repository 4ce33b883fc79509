-------------------------- MODULE BatchQueueProofs --------------------------
(***************************************************************************)
(* Proofs about BatchQueue for any set of connection threads, any          *)
(* assignment of keys and any capacity of the queue.                       *)
(***************************************************************************)
EXTENDS BatchQueue, TLAPS

(* The worker's local array lives only while batch_process_locked runs. *)
BatchOnlyInDispatch == wpc # "dispatch" => batch = <<>>

(* Between the preamble and the enqueue the request is still untouched. *)
UnlockedNotDone == \A t \in Threads : pc[t] = "unlocked" => ~done[t]

(* A member of a group that has been dispatched has its outcome, although  *)
(* it is not woken before the other groups have run.                       *)
RanHaveOutcome ==
  \A t \in Members(batch) : KeyOf[t] \in ran => status[t] # "error"

(* The inductive invariant: the four invariants of the run need each other *)
(* and the three facts above.                                              *)
IInv ==
  /\ TypeOK
  /\ NoDanglingRequest
  /\ NoOrphanRequest
  /\ RepliesAreComputed
  /\ BatchOnlyInDispatch
  /\ UnlockedNotDone
  /\ RanHaveOutcome

-----------------------------------------------------------------------------
(* Facts about the sequences used as queues. *)

(* Appending a request adds exactly that request: g_batch_queue[n++].      *)
LEMMA MembersAppend ==
  ASSUME NEW S, NEW s \in Seq(S), NEW x \in S
  PROVE  /\ Append(s, x) \in Seq(S)
         /\ Len(Append(s, x)) = Len(s) + 1
         /\ Members(Append(s, x)) = Members(s) \cup {x}
<1>1. /\ Append(s, x) \in Seq(S)
      /\ Len(Append(s, x)) = Len(s) + 1
      /\ DOMAIN Append(s, x) = 1 .. Len(s) + 1
      /\ DOMAIN s = 1 .. Len(s)
      /\ Len(s) \in Nat
      /\ Append(s, x)[Len(s) + 1] = x
      /\ \A i \in 1 .. Len(s) : Append(s, x)[i] = s[i]
  OBVIOUS
<1>2. Members(Append(s, x)) = Members(s) \cup {x}
  BY <1>1 DEF Members
<1> QED BY <1>1, <1>2

(* A request that was not queued keeps the queue free of duplicates.       *)
LEMMA AppendDistinct ==
  ASSUME NEW S, NEW s \in Seq(S), NEW x \in S, x \notin Members(s),
         \A i, j \in DOMAIN s : s[i] = s[j] => i = j
  PROVE  \A i, j \in DOMAIN Append(s, x) :
           Append(s, x)[i] = Append(s, x)[j] => i = j
<1>1. /\ DOMAIN Append(s, x) = 1 .. Len(s) + 1
      /\ DOMAIN s = 1 .. Len(s)
      /\ Len(s) \in Nat
      /\ Append(s, x)[Len(s) + 1] = x
      /\ \A i \in 1 .. Len(s) : Append(s, x)[i] = s[i]
  OBVIOUS
<1>2. \A i \in 1 .. Len(s) : s[i] # x
  BY <1>1 DEF Members
<1> QED BY <1>1, <1>2

LEMMA MembersEmpty == Members(<<>>) = {}
  BY DEF Members

LEMMA EmptyDistinct == \A i, j \in DOMAIN <<>> : <<>>[i] = <<>>[j] => i = j
  OBVIOUS

LEMMA MembersSubset == ASSUME NEW S, NEW s \in Seq(S) PROVE Members(s) \subseteq S
  BY DEF Members

-----------------------------------------------------------------------------
(* The initial state satisfies the inductive invariant. *)
LEMMA InitIInv == Init => IInv
<1> SUFFICES ASSUME Init PROVE IInv
  OBVIOUS
<1>1. TypeOK
  <2>1. pc \in [Threads -> {"idle", "connected", "unlocked", "wait", "direct", "replied", "closed"}]
    BY DEF Init
  <2>2. queue \in Seq(Threads) /\ Len(queue) <= BatchMax
    BY BatchMaxAssumption DEF Init
  <2>3. batch \in Seq(Threads) /\ Len(batch) <= BatchMax
    BY BatchMaxAssumption DEF Init
  <2>4. status \in [Threads -> Statuses] /\ done \in [Threads -> BOOLEAN]
    BY DEF Init, Statuses
  <2> QED BY <2>1, <2>2, <2>3, <2>4 DEF Init, TypeOK
<1>2. Members(queue) = {} /\ Members(batch) = {}
  BY MembersEmpty DEF Init
<1>3. NoDanglingRequest
  BY <1>2, EmptyDistinct DEF Init, NoDanglingRequest
<1>4. NoOrphanRequest /\ RepliesAreComputed /\ UnlockedNotDone
  BY DEF Init, NoOrphanRequest, RepliesAreComputed, UnlockedNotDone
<1>5. BatchOnlyInDispatch /\ RanHaveOutcome
  BY <1>2 DEF Init, BatchOnlyInDispatch, RanHaveOutcome
<1> QED BY <1>1, <1>3, <1>4, <1>5 DEF IInv

(* Every step of a connection thread, of the worker, of the signal handler *)
(* and of main preserves it.                                               *)
LEMMA NextIInv == IInv /\ [Next]_vars => IInv'
<1> SUFFICES ASSUME IInv, [Next]_vars PROVE IInv'
  OBVIOUS
<1> USE DEF IInv
<1>q. Members(queue) \subseteq Threads /\ Members(batch) \subseteq Threads
  BY MembersSubset DEF TypeOK
<1>1. CASE UNCHANGED vars
  <2>1. UNCHANGED <<pc, queue, batch, ran, status, done, wpc, shutdown, main, warm>>
    BY <1>1 DEF vars
  <2>2. Members(queue)' = Members(queue) /\ Members(batch)' = Members(batch)
    BY <2>1 DEF Members
  <2>3. TypeOK'
    BY <2>1 DEF TypeOK
  <2>4. NoDanglingRequest' /\ NoOrphanRequest' /\ RepliesAreComputed'
    BY <2>1, <2>2 DEF NoDanglingRequest, NoOrphanRequest, RepliesAreComputed
  <2>5. BatchOnlyInDispatch' /\ UnlockedNotDone' /\ RanHaveOutcome'
    BY <2>1, <2>2 DEF BatchOnlyInDispatch, UnlockedNotDone, RanHaveOutcome
  <2> QED BY <2>3, <2>4, <2>5
<1>2. ASSUME NEW t \in Threads, SearchPreamble(t) PROVE IInv'
  <2>1. /\ pc[t] = "connected"
        /\ done' = [done EXCEPT ![t] = FALSE]
        /\ UNCHANGED <<queue, batch, ran, wpc, shutdown, main, warm>>
        /\ wpc # "exited"
    BY <1>2 DEF SearchPreamble
  <2>2. \E p \in {"unlocked", "replied"}, r \in Statuses :
          /\ pc' = [pc EXCEPT ![t] = p]
          /\ status' = [status EXCEPT ![t] = r]
          /\ p = "replied" => r # "error"
    <3>1. CASE pc' = [pc EXCEPT ![t] = "unlocked"] /\ status' = [status EXCEPT ![t] = "error"]
      BY <3>1 DEF Statuses
    <3>2. CASE pc' = [pc EXCEPT ![t] = "replied"] /\ status' = [status EXCEPT ![t] = "refused"]
      BY <3>2 DEF Statuses
    <3> QED BY <1>2, <3>1, <3>2 DEF SearchPreamble
  <2>3. PICK p \in {"unlocked", "replied"}, r \in Statuses :
          /\ pc' = [pc EXCEPT ![t] = p]
          /\ status' = [status EXCEPT ![t] = r]
          /\ p = "replied" => r # "error"
    BY <2>2
  <2>m. t \notin Members(queue) \cup Members(batch)
    BY <2>1 DEF NoDanglingRequest
  <2>4. TypeOK'
    BY <2>1, <2>3 DEF TypeOK
  <2>5. NoDanglingRequest'
    <3>1. Members(queue)' = Members(queue) /\ Members(batch)' = Members(batch)
      BY <2>1 DEF Members
    <3>2. \A u \in Members(queue) \cup Members(batch) :
            pc'[u] = pc[u] /\ done'[u] = done[u]
      BY <2>1, <2>3, <2>m, <1>q DEF TypeOK
    <3> QED BY <2>1, <3>1, <3>2 DEF NoDanglingRequest
  <2>6. NoOrphanRequest'
    BY <2>1, <2>3, <2>m DEF NoOrphanRequest, TypeOK, Members
  <2>7. RepliesAreComputed'
    BY <2>1, <2>3 DEF RepliesAreComputed, TypeOK
  <2>8. UnlockedNotDone' /\ BatchOnlyInDispatch'
    BY <2>1, <2>3 DEF UnlockedNotDone, BatchOnlyInDispatch, TypeOK
  <2>9. RanHaveOutcome'
    BY <2>1, <2>3, <2>m, <1>q DEF RanHaveOutcome, TypeOK, Members
  <2> QED BY <2>4, <2>5, <2>6, <2>7, <2>8, <2>9
<1>3. ASSUME NEW t \in Threads, Enqueue(t) PROVE IInv'
  <2>m. t \notin Members(queue) \cup Members(batch)
    BY <1>3 DEF NoDanglingRequest, Enqueue
  <2>a. /\ queue' \in Seq(Threads)
        /\ Len(queue') = Len(queue) + 1
        /\ Members(queue') = Members(queue) \cup {t}
        /\ Members(batch)' = Members(batch)
    <3>1. queue \in Seq(Threads) /\ queue' = Append(queue, t)
      BY <1>3 DEF Enqueue, TypeOK
    <3>2. Members(batch)' = Members(batch)
      BY <1>3 DEF Enqueue, Members
    <3> QED BY <3>1, <3>2, MembersAppend
  <2>d. \A i, j \in DOMAIN queue' : queue'[i] = queue'[j] => i = j
    <3>1. \A i, j \in DOMAIN queue : queue[i] = queue[j] => i = j
      BY <1>3 DEF NoDanglingRequest, Enqueue
    <3> QED BY <3>1, <2>m, <1>3, AppendDistinct DEF TypeOK, Enqueue
  <2>4. TypeOK'
    BY <1>3, <2>a, BatchMaxAssumption DEF TypeOK, Enqueue
  <2>5. NoDanglingRequest'
    BY <1>3, <2>a, <2>m, <2>d, <1>q DEF NoDanglingRequest, UnlockedNotDone, Enqueue, TypeOK
  <2>6. NoOrphanRequest'
    BY <1>3, <2>a DEF NoOrphanRequest, Enqueue, TypeOK
  <2>7. RepliesAreComputed'
    BY <1>3 DEF RepliesAreComputed, UnlockedNotDone, Enqueue, TypeOK
  <2>8. UnlockedNotDone' /\ BatchOnlyInDispatch' /\ RanHaveOutcome'
    BY <1>3, <2>a DEF UnlockedNotDone, BatchOnlyInDispatch, RanHaveOutcome, Enqueue, TypeOK
  <2> QED BY <2>4, <2>5, <2>6, <2>7, <2>8
<1>4. ASSUME NEW t \in Threads, Degrade(t) \/ ServeDirect(t) \/ WakeAndReply(t) PROVE IInv'
  <2>1. /\ UNCHANGED <<queue, batch, ran, done, wpc, shutdown, main, warm>>
        /\ wpc # "exited"
        /\ \/ pc[t] \in {"unlocked", "direct"}
           \/ pc[t] = "wait" /\ done[t]
    BY <1>4 DEF Degrade, ServeDirect, WakeAndReply
  <2>2. \E p \in {"direct", "replied"}, r \in Statuses :
          /\ pc' = [pc EXCEPT ![t] = p]
          /\ status' = [status EXCEPT ![t] = r]
          /\ p = "replied" => r # "error"
    <3>1. CASE Degrade(t)
      BY <3>1 DEF Degrade, TypeOK
    <3>2. CASE ServeDirect(t)
      BY <3>2 DEF ServeDirect, TypeOK, Statuses
    <3>3. CASE WakeAndReply(t)
      BY <3>3 DEF WakeAndReply, TypeOK, RepliesAreComputed
    <3> QED BY <1>4, <3>1, <3>2, <3>3
  <2>3. PICK p \in {"direct", "replied"}, r \in Statuses :
          /\ pc' = [pc EXCEPT ![t] = p]
          /\ status' = [status EXCEPT ![t] = r]
          /\ p = "replied" => r # "error"
    BY <2>2
  <2>m. t \notin Members(queue) \cup Members(batch)
    BY <2>1 DEF NoDanglingRequest
  <2>4. TypeOK'
    BY <2>1, <2>3 DEF TypeOK
  <2>5. NoDanglingRequest'
    <3>1. Members(queue)' = Members(queue) /\ Members(batch)' = Members(batch)
      BY <2>1 DEF Members
    <3>2. \A u \in Members(queue) \cup Members(batch) :
            pc'[u] = pc[u] /\ done'[u] = done[u]
      BY <2>1, <2>3, <2>m, <1>q DEF TypeOK
    <3> QED BY <2>1, <3>1, <3>2 DEF NoDanglingRequest
  <2>6. NoOrphanRequest'
    BY <2>1, <2>3, <2>m DEF NoOrphanRequest, TypeOK, Members
  <2>7. RepliesAreComputed'
    BY <2>1, <2>3 DEF RepliesAreComputed, TypeOK
  <2>8. UnlockedNotDone' /\ BatchOnlyInDispatch'
    BY <2>1, <2>3 DEF UnlockedNotDone, BatchOnlyInDispatch, TypeOK
  <2>9. RanHaveOutcome'
    BY <2>1, <2>3, <2>m, <1>q DEF RanHaveOutcome, TypeOK, Members
  <2> QED BY <2>4, <2>5, <2>6, <2>7, <2>8, <2>9
<1>5. CASE SeeWork
  BY <1>5 DEF SeeWork, TypeOK, NoDanglingRequest, NoOrphanRequest, RepliesAreComputed,
     BatchOnlyInDispatch, UnlockedNotDone, RanHaveOutcome, Members
<1>6. CASE TakeQueue
  <2>1. batch = <<>>
    BY <1>6 DEF TakeQueue, BatchOnlyInDispatch
  <2>2. /\ Members(batch') = Members(queue)
        /\ Members(queue') = {}
        /\ Members(batch) = {}
    BY <1>6, <2>1, MembersEmpty DEF TakeQueue
  <2>4. TypeOK'
    BY <1>6, BatchMaxAssumption DEF TypeOK, TakeQueue
  <2>5. NoDanglingRequest'
    BY <1>6, <2>2 DEF NoDanglingRequest, TakeQueue
  <2>6. NoOrphanRequest' /\ RepliesAreComputed' /\ UnlockedNotDone'
    BY <1>6, <2>2 DEF NoOrphanRequest, RepliesAreComputed, UnlockedNotDone, TakeQueue
  <2>7. BatchOnlyInDispatch' /\ RanHaveOutcome'
    BY <1>6 DEF BatchOnlyInDispatch, RanHaveOutcome, TakeQueue
  <2> QED BY <2>4, <2>5, <2>6, <2>7
<1>7. ASSUME NEW k \in Keys, RunGroup(k) PROVE IInv'
  <2>1. PICK r \in Statuses \ {"error"} :
          status' = [t \in Threads |->
                       IF t \in Members(batch) /\ KeyOf[t] = k THEN r ELSE status[t]]
    BY <1>7 DEF RunGroup, Outcomes, IndexStates, Statuses
  <2>2. /\ UNCHANGED <<pc, queue, batch, done, wpc, shutdown, main, warm>>
        /\ ran' = ran \cup {k}
    BY <1>7 DEF RunGroup
  <2>3. \A t \in Threads : status'[t] = status[t] \/ status'[t] # "error"
    BY <2>1
  <2>4. TypeOK'
    BY <2>1, <2>2 DEF TypeOK
  <2>5. NoDanglingRequest' /\ NoOrphanRequest' /\ BatchOnlyInDispatch' /\ UnlockedNotDone'
    BY <2>2 DEF NoDanglingRequest, NoOrphanRequest, BatchOnlyInDispatch, UnlockedNotDone, Members
  <2>6. RepliesAreComputed'
    BY <2>2, <2>3 DEF RepliesAreComputed
  <2>7. RanHaveOutcome'
    BY <2>1, <2>2, <1>q DEF RanHaveOutcome, Members
  <2> QED BY <2>4, <2>5, <2>6, <2>7
<1>8. CASE FinishBatch
  <2>1. \A t \in Members(batch) : status[t] # "error"
    BY <1>8 DEF FinishBatch, GroupKeys, RanHaveOutcome
  <2>2. Members(batch') = {} /\ Members(queue') = Members(queue)
    BY <1>8, MembersEmpty DEF FinishBatch, Members
  <2>3. \A t \in Threads : done'[t] = (done[t] \/ t \in Members(batch))
    BY <1>8 DEF FinishBatch
  <2>4. TypeOK'
    BY <1>8, BatchMaxAssumption DEF FinishBatch, TypeOK
  <2>5. NoDanglingRequest'
    <3>1. \A t \in Members(queue) : pc'[t] = "wait" /\ ~done'[t]
      BY <1>8, <2>3, <1>q DEF FinishBatch, NoDanglingRequest
    <3> QED BY <1>8, <2>2, <3>1, EmptyDistinct DEF FinishBatch, NoDanglingRequest
  <2>6. NoOrphanRequest'
    BY <1>8, <2>2, <2>3 DEF FinishBatch, NoOrphanRequest
  <2>7. RepliesAreComputed'
    BY <1>8, <2>1, <2>3 DEF FinishBatch, RepliesAreComputed
  <2>8. UnlockedNotDone'
    BY <1>8, <2>3 DEF FinishBatch, UnlockedNotDone, NoDanglingRequest
  <2>9. BatchOnlyInDispatch' /\ RanHaveOutcome'
    BY <1>8, <2>2 DEF FinishBatch, BatchOnlyInDispatch, RanHaveOutcome
  <2> QED BY <2>4, <2>5, <2>6, <2>7, <2>8, <2>9
<1>9. CASE FailAllAndLeave
  <2>1. Members(batch) = {}
    BY <1>9, MembersEmpty DEF FailAllAndLeave, BatchOnlyInDispatch
  <2>2. Members(queue') = {} /\ Members(batch') = {}
    BY <1>9, <2>1, MembersEmpty DEF FailAllAndLeave, Members
  <2>3. \A t \in Threads :
          /\ done'[t] = (done[t] \/ t \in Members(queue))
          /\ status'[t] = IF t \in Members(queue) THEN "unavailable" ELSE status[t]
    BY <1>9 DEF FailAllAndLeave
  <2>4. TypeOK'
    BY <1>9, BatchMaxAssumption DEF FailAllAndLeave, TypeOK, Statuses
  <2>5. NoDanglingRequest'
    BY <1>9, <2>2 DEF FailAllAndLeave, NoDanglingRequest, Members
  <2>6. NoOrphanRequest'
    BY <1>9, <2>1, <2>3 DEF FailAllAndLeave, NoOrphanRequest
  <2>7. RepliesAreComputed'
    BY <1>9, <2>3 DEF FailAllAndLeave, RepliesAreComputed
  <2>8. UnlockedNotDone'
    BY <1>9, <2>3 DEF FailAllAndLeave, UnlockedNotDone, NoDanglingRequest
  <2>9. BatchOnlyInDispatch' /\ RanHaveOutcome'
    BY <1>9, <2>2 DEF FailAllAndLeave, BatchOnlyInDispatch, RanHaveOutcome
  <2> QED BY <2>4, <2>5, <2>6, <2>7, <2>8, <2>9
<1>10. CASE Sigterm \/ TestShutdown \/ AcceptOther \/ AcceptFails \/ WarmupStep
  <2>1. UNCHANGED <<searches, wpc>>
    BY <1>10 DEF Sigterm, TestShutdown, AcceptOther, AcceptFails, WarmupStep, WarmupTake, WarmupDone, WarmupLeaves
  <2>2. TypeOK'
    BY <1>10, <2>1 DEF Sigterm, TestShutdown, AcceptOther, AcceptFails, WarmupStep, WarmupTake, WarmupDone,
       WarmupLeaves, searches, TypeOK
  <2>3. Members(queue)' = Members(queue) /\ Members(batch)' = Members(batch)
    BY <2>1 DEF searches, Members
  <2>4. NoDanglingRequest' /\ NoOrphanRequest' /\ RepliesAreComputed'
    BY <2>1, <2>3 DEF searches, NoDanglingRequest, NoOrphanRequest, RepliesAreComputed
  <2>5. BatchOnlyInDispatch' /\ UnlockedNotDone' /\ RanHaveOutcome'
    BY <2>1, <2>3 DEF searches, BatchOnlyInDispatch, UnlockedNotDone, RanHaveOutcome
  <2> QED BY <2>2, <2>4, <2>5
<1>12. ASSUME NEW t \in Threads, Accept(t) PROVE IInv'
  <2>1. /\ pc[t] \in {"idle", "replied"}
        /\ pc' = [pc EXCEPT ![t] = "connected"]
        /\ UNCHANGED <<queue, batch, ran, status, done, wpc, shutdown, warm>>
        /\ main' = "test"
    BY <1>12 DEF Accept
  <2>2. TypeOK'
    BY <2>1 DEF TypeOK
  <2>3. Members(queue)' = Members(queue) /\ Members(batch)' = Members(batch)
    BY <2>1 DEF Members
  <2>4. NoDanglingRequest'
    <3>1. wpc # "exited" => t \notin Members(queue) \cup Members(batch)
      BY <2>1 DEF NoDanglingRequest
    <3> QED BY <2>1, <2>3, <3>1, <1>q DEF NoDanglingRequest, TypeOK
  <2>5. NoOrphanRequest' /\ RepliesAreComputed' /\ UnlockedNotDone'
    BY <2>1, <2>3 DEF NoOrphanRequest, RepliesAreComputed, UnlockedNotDone, TypeOK
  <2>6. BatchOnlyInDispatch' /\ RanHaveOutcome'
    BY <2>1, <2>3 DEF BatchOnlyInDispatch, RanHaveOutcome
  <2> QED BY <2>2, <2>4, <2>5, <2>6
<1>11. CASE ProcessExit
  <2>1. \A t \in Threads : pc'[t] \in {"idle", "replied", "closed"} /\ (pc'[t] # "closed" => pc'[t] = pc[t])
    BY <1>11 DEF ProcessExit
  <2>2. TypeOK'
    BY <1>11 DEF ProcessExit, TypeOK
  <2>3. NoDanglingRequest' /\ NoOrphanRequest' /\ RepliesAreComputed' /\ UnlockedNotDone'
    BY <1>11, <2>1 DEF ProcessExit, NoDanglingRequest, NoOrphanRequest, RepliesAreComputed,
       UnlockedNotDone
  <2>4. BatchOnlyInDispatch' /\ RanHaveOutcome'
    BY <1>11 DEF ProcessExit, BatchOnlyInDispatch, RanHaveOutcome, Members
  <2> QED BY <2>2, <2>3, <2>4
<1> QED
  BY <1>1, <1>2, <1>3, <1>4, <1>5, <1>6, <1>7, <1>8, <1>9, <1>10, <1>11, <1>12
     DEF Next, ThreadStep, WorkerStep, MainStep

-----------------------------------------------------------------------------
(* Every reachable state satisfies the inductive invariant. *)
LEMMA SpecIInv == Spec => []IInv
  BY InitIInv, NextIInv, PTL DEF Spec

(* handle_search and batch_worker_thread keep their data in its declared   *)
(* ranges, and neither fixed-size array of requests overflows, for any     *)
(* number of threads and any capacity.                                     *)
THEOREM TypeCorrect == Spec => []TypeOK
<1>1. IInv => TypeOK
  BY DEF IInv
<1> QED BY <1>1, SpecIInv, PTL

(* The worker never holds a pointer into a stack frame that is gone: for   *)
(* any number of threads, every queued or dispatched request belongs to a  *)
(* thread that is blocked and not yet woken.                               *)
THEOREM NeverDangling == Spec => []NoDanglingRequest
<1>1. IInv => NoDanglingRequest
  BY DEF IInv
<1> QED BY <1>1, SpecIInv, PTL

(* No request is lost between the producers and the worker. *)
THEOREM NeverOrphaned == Spec => []NoOrphanRequest
<1>1. IInv => NoOrphanRequest
  BY DEF IInv
<1> QED BY <1>1, SpecIInv, PTL

(* No producer is woken, and none replies, before its group has run. *)
THEOREM RepliesComputed == Spec => []RepliesAreComputed
<1>1. IInv => RepliesAreComputed
  BY DEF IInv
<1> QED BY <1>1, SpecIInv, PTL
=============================================================================

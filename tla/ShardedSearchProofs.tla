------------------------- MODULE ShardedSearchProofs ------------------------
(***************************************************************************)
(* Proofs about ShardedSearch for any finite set of connection threads:    *)
(* IInv is inductive, and with it every property of the run holds.         *)
(***************************************************************************)
EXTENDS ShardedSearch, FiniteSetTheorems, TLAPS

-----------------------------------------------------------------------------
(* Identities and counts.                                                  *)

\* A non-empty set has the element that Fresh names.
LEMMA FreshIn == ASSUME NEW S, S # {} PROVE Fresh(S) \in S
  BY Zenon DEF Fresh

\* Unused memory is nobody's: nothing allocated or remembered has it.
LEMMA UnusedIsNew ==
  ASSUME NEW i \in Unused
  PROVE  /\ i \in Ids /\ i # NoId /\ i \notin live
         /\ \A t \in Threads : i # snap[t].mem /\ i # snap[t].bf
  BY BoundsAssumption DEF Unused, Ids, NoId

\* An unused build is no fan-out's.
LEMMA UnusedBuildIsNew ==
  ASSUME NEW i \in UnusedBuilds
  PROVE  i \in Builds /\ i # NoId /\ i # entry.build /\ i # disk.build
  BY BoundsAssumption DEF UnusedBuilds, Builds, NoId

\* The fan-outs on the resident entry can be counted.
LEMMA PinningFinite ==
  IsFiniteSet(Pinning) /\ Cardinality(Pinning) \in Nat
<1>1. Pinning \subseteq Threads
  BY DEF Pinning, InWindow
<1>2. IsFiniteSet(Pinning)
  BY <1>1, ThreadsAssumption, FS_Subset
<1> QED
  BY <1>2, FS_CardinalityType

\* The initial state satisfies the invariant.
LEMMA InitIInv == InitH => IInv
<1> SUFFICES ASSUME InitH PROVE IInv
  OBVIOUS
<1> USE DEF InitH, Init, NoEntry, NoSnap
<1>1. InWindow = {} /\ ~Resident /\ ~Sharded
  BY DEF InWindow, Resident, Sharded
<1>2. TypeOK
  BY DEF TypeOK, EntryType, DiskType, SnapType, Modes, NoId
<1>3. NothingLeaked
  BY DEF NothingLeaked, Freed
<1> QED
  BY <1>1, <1>2, <1>3
     DEF IInv, EntryShape, WindowShape, Held, CountExact, RobbedShape, DiskShape,
         PinsNeverStuck, AwaitedAnswersMapped

-----------------------------------------------------------------------------
(* One lemma per action.                                                   *)

\* A loaded entry has new shards, which no fan-out remembers.
LEMMA LoadIInv ==
  ASSUME IInv, Load, UNCHANGED <<excused, robbed, overtaken>> PROVE IInv'
<1> USE DEF IInv
<1> DEFINE m == IF disk.sharded THEN Fresh(Unused) ELSE NoId
<1>1. m = NoId \/ (m \in Unused /\ m \in Ids)
  BY FreshIn, UnusedIsNew DEF Load
<1>2. /\ entry' = [NoEntry EXCEPT !.build = disk.build, !.mem = m]
      /\ live' = live \cup ({m} \ {NoId})
      /\ disk' = disk /\ snap' = snap /\ wait' = wait
      /\ excused' = excused /\ robbed' = robbed /\ overtaken' = overtaken
      /\ ~Resident /\ disk.build # NoId
  BY DEF Load
<1> HIDE DEF m
<1>3. entry' = [build |-> disk.build, mem |-> m, inflight |-> 0, bf |-> NoId, prec |-> "graph"]
  BY <1>2 DEF NoEntry
<1>4. ~Sharded /\ entry.bf = NoId /\ live = {} /\ ~robbed
  BY <1>2 DEF EntryShape, NothingLeaked, Freed, RobbedShape, Sharded
<1>5. TypeOK'
  BY <1>1, <1>2, <1>3 DEF TypeOK, EntryType, DiskType, Modes, NoId, Ids
<1>6. InWindow' = InWindow
  BY <1>2 DEF InWindow
<1>7. Sharded' => Pinning' = {}
  <2> SUFFICES ASSUME Sharded', NEW t \in Pinning' PROVE FALSE
    OBVIOUS
  <2>1. m \in Unused /\ t \in Threads /\ snap[t].mem = m
    BY <1>1, <1>2, <1>3 DEF Sharded, Pinning, InWindow
  <2> QED
    BY <2>1, UnusedIsNew
<1>8. Held'
  <2>1. \A t \in InWindow : t \in excused
    BY <1>4 DEF Held, WindowShape, Sharded
  <2> QED
    BY <2>1, <1>6, <1>2 DEF Held
<1>9. (CountExact /\ PinsNeverStuck)'
  BY <1>3, <1>7, FS_EmptySet DEF CountExact, PinsNeverStuck
<1>10. (EntryShape /\ NothingLeaked)'
  <2>1. entry'.build = disk.build /\ entry'.mem = m /\ entry'.bf = NoId
    BY <1>3
  <2>2. EntryShape'
    BY <1>2, <2>1 DEF EntryShape, Resident, Sharded
  <2>3. NothingLeaked'
    BY <1>2, <1>4, <2>1 DEF NothingLeaked, Freed
  <2> QED
    BY <2>2, <2>3
<1>11. (WindowShape /\ RobbedShape /\ DiskShape)'
  BY <1>2, <1>3, <1>4, <1>6 DEF WindowShape, RobbedShape, DiskShape, Resident
<1>12. AwaitedAnswersMapped'
  BY <1>2, <1>3, <1>6 DEF AwaitedAnswersMapped, DiskShape, InWindow
<1> QED
  BY <1>5, <1>8, <1>9, <1>10, <1>11, <1>12

\* Eviction meets a count of zero, so that nobody without a cause is there.
LEMMA EvictIInv ==
  ASSUME IInv, Evict, excused' = excused, overtaken' = overtaken, robbed' = FALSE PROVE IInv'
<1> USE DEF IInv
<1>1. /\ entry' = [build |-> NoId, mem |-> NoId, inflight |-> 0, bf |-> NoId, prec |-> "graph"]
      /\ live' = live \ Freed
      /\ disk' = disk /\ snap' = snap /\ wait' = wait
      /\ ~(Sharded /\ entry.inflight > 0)
  BY DEF Evict, NoEntry
<1>2. InWindow' = InWindow
  BY <1>1 DEF InWindow
<1>3. \A t \in InWindow : t \in excused
  <2> SUFFICES ASSUME NEW t \in InWindow, t \notin excused PROVE FALSE
    OBVIOUS
  <2>1. t \in Pinning /\ Sharded
    BY DEF Held, WindowShape, Pinning, Sharded
  <2>2. ~robbed
    BY <2>1 DEF RobbedShape
  <2>3. Cardinality(Pinning) = 0
    BY <1>1, <2>1, <2>2 DEF CountExact, TypeOK, EntryType
  <2> QED
    BY <2>1, <2>3, PinningFinite, FS_EmptySet
<1>4. TypeOK'
  BY <1>1 DEF TypeOK, EntryType, DiskType, Modes
<1>5. ~Resident' /\ ~Sharded'
  BY <1>1 DEF Resident, Sharded
<1>6. NothingLeaked'
  BY <1>1 DEF NothingLeaked, Freed
<1>7. (EntryShape /\ WindowShape /\ Held)'
  BY <1>1, <1>2, <1>3, <1>5 DEF EntryShape, WindowShape, Held
<1> QED
  BY <1>1, <1>4, <1>5, <1>6, <1>7
     DEF CountExact, RobbedShape, DiskShape, PinsNeverStuck, AwaitedAnswersMapped

\* What a request for brute force leaves behind: the shards are untouched,
\* and copies that a fan-out without a cause reads are kept.
LEMMA RefreshKeeps ==
  ASSUME IInv, Resident, Sharded, NEW m \in Precisions, NEW x \in {0, 1},
         (BfKept(m) /\ x = 0) \/ BfRebuilt(m, x) \/ (BfUnavailable(m) /\ x = 0)
  PROVE  /\ entry' \in EntryType /\ live' \subseteq Ids
         /\ entry'.build = entry.build /\ entry'.mem = entry.mem
         /\ entry'.inflight = entry.inflight + x
         /\ entry'.bf # entry.mem
         /\ live' = {entry'.mem, entry'.bf} \ {NoId}
         /\ \A t \in InWindow \ (excused \cup Replaced(m)) :
              snap[t].bf # NoId => entry'.bf = snap[t].bf
<1> USE DEF IInv
<1>1. /\ entry \in EntryType /\ live \subseteq Ids /\ live = {entry.mem, entry.bf} \ {NoId}
      /\ entry.mem # NoId /\ entry.mem # entry.bf /\ entry.inflight + 0 = entry.inflight
  BY DEF TypeOK, EntryType, NothingLeaked, Freed, EntryShape, Sharded
<1>2. \A t \in InWindow \ (excused \cup Replaced(m)) : snap[t].bf # NoId => BfReady(m)
  BY DEF Held, Replaced, BfReady
<1>3. CASE BfKept(m) /\ x = 0
  BY <1>1, <1>3 DEF BfKept, Held
<1>4. CASE BfRebuilt(m, x)
  <2>1. PICK i \in Unused : /\ entry' = [entry EXCEPT !.bf = i, !.prec = m, !.inflight = @ + x]
                            /\ live' = (live \ {entry.bf}) \cup {i}
    BY <1>4, FreshIn DEF BfRebuilt
  <2>2. i \in Ids /\ i # NoId /\ i \notin live
    BY UnusedIsNew
  <2>3. entry' \in EntryType
    <3>1. entry.inflight + x \in Nat
      BY <1>1 DEF EntryType
    <3> QED
      BY <1>1, <2>1, <2>2, <3>1 DEF EntryType, Modes
  <2>4. /\ entry'.bf = i /\ entry'.mem = entry.mem /\ entry'.build = entry.build
        /\ entry'.inflight = entry.inflight + x
    BY <1>1, <2>1 DEF EntryType
  <2>5. i # entry.mem
    BY <1>1, <2>2
  <2>6. live' \subseteq Ids /\ live' = {entry'.mem, entry'.bf} \ {NoId}
    BY <1>1, <2>1, <2>2, <2>4
  <2>7. ~BfReady(m)
    BY <1>4 DEF BfRebuilt
  <2> QED
    BY <1>2, <2>3, <2>4, <2>5, <2>6, <2>7
<1>5. CASE BfUnavailable(m) /\ x = 0
  <2>1. /\ entry' = [entry EXCEPT !.bf = NoId, !.prec = IF disk.vecs THEN m ELSE @]
        /\ live' = live \ {entry.bf} /\ ~BfReady(m)
    BY <1>5 DEF BfUnavailable
  <2>2. entry' \in EntryType
    BY <1>1, <2>1 DEF EntryType, Modes
  <2>3. /\ entry'.bf = NoId /\ entry'.mem = entry.mem /\ entry'.build = entry.build
        /\ entry'.inflight = entry.inflight
    BY <1>1, <2>1 DEF EntryType
  <2>4. live' \subseteq Ids /\ live' = {entry'.mem, entry'.bf} \ {NoId}
    BY <1>1, <2>1, <2>3
  <2> QED
    BY <1>1, <1>2, <1>5, <2>1, <2>2, <2>3, <2>4
<1> QED
  BY <1>3, <1>4, <1>5

\* A request that refreshes the copies under the mutex.
LEMMA RefreshOnlyIInv ==
  ASSUME IInv, NEW m \in Precisions, RefreshOnlyH(m) PROVE IInv'
<1> USE DEF IInv
<1>1. /\ Resident /\ Sharded
      /\ disk' = disk /\ snap' = snap /\ wait' = wait /\ robbed' = robbed
      /\ overtaken' = overtaken
      /\ excused' = excused \cup Replaced(m)
      /\ BfKept(m) \/ BfRebuilt(m, 0) \/ BfUnavailable(m)
  BY DEF RefreshOnlyH, RefreshOnly
<1>2. /\ entry' \in EntryType /\ live' \subseteq Ids
      /\ entry'.build = entry.build /\ entry'.mem = entry.mem
      /\ entry'.inflight = entry.inflight + 0
      /\ entry'.bf # entry.mem
      /\ live' = {entry'.mem, entry'.bf} \ {NoId}
      /\ \A t \in InWindow \ (excused \cup Replaced(m)) :
           snap[t].bf # NoId => entry'.bf = snap[t].bf
  BY <1>1, RefreshKeeps
<1>3. entry'.inflight = entry.inflight
  BY <1>2 DEF TypeOK, EntryType
<1>4. InWindow' = InWindow /\ Pinning' = Pinning
  BY <1>1, <1>2 DEF InWindow, Pinning
<1>5. TypeOK'
  BY <1>1, <1>2 DEF TypeOK, Replaced, InWindow
<1>6. Held'
  BY <1>1, <1>2, <1>4 DEF Held
<1>7. (EntryShape /\ NothingLeaked)'
  BY <1>1, <1>2 DEF EntryShape, NothingLeaked, Freed, Resident, Sharded
<1>8. (CountExact /\ PinsNeverStuck)'
  BY <1>1, <1>2, <1>3, <1>4 DEF CountExact, PinsNeverStuck, Resident, Sharded
<1>9. (WindowShape /\ RobbedShape /\ DiskShape /\ AwaitedAnswersMapped)'
  BY <1>1, <1>2, <1>4
     DEF WindowShape, RobbedShape, DiskShape, AwaitedAnswersMapped, Resident, Sharded
<1> QED
  BY <1>5, <1>6, <1>7, <1>8, <1>9

\* A fan-out enters the window and is counted.
LEMMA OpenWindowIInv ==
  ASSUME IInv, NEW t \in Threads, NEW m \in Modes, OpenWindowH(t, m) PROVE IInv'
<1> USE DEF IInv
<1> DEFINE b == IF m = "graph" THEN NoId ELSE entry'.bf
<1>1. /\ Resident /\ Sharded /\ t \notin InWindow
      /\ disk' = disk /\ wait' = wait \cup {t} /\ robbed' = robbed /\ overtaken' = overtaken
      /\ snap' = [snap EXCEPT ![t] = [build |-> entry.build, mem |-> entry.mem, bf |-> b]]
      /\ excused' = excused \cup Replaced(m) \cup (IF robbed THEN {t} ELSE {})
  BY DEF OpenWindowH, OpenWindow
<1>2. /\ entry' \in EntryType /\ live' \subseteq Ids
      /\ entry'.build = entry.build /\ entry'.mem = entry.mem
      /\ entry'.inflight = entry.inflight + 1
      /\ entry'.bf # entry.mem
      /\ live' = {entry'.mem, entry'.bf} \ {NoId}
      /\ \A u \in InWindow \ (excused \cup Replaced(m)) :
           snap[u].bf # NoId => entry'.bf = snap[u].bf
      /\ m # "graph" => disk.vecs
  <2>1. CASE m = "graph" \/ BfReady(m)
    <3>1. CASE entry' = [entry EXCEPT !.inflight = @ + 1] /\ live' = live
      <4>1. entry \in EntryType /\ live \subseteq Ids /\ live = {entry.mem, entry.bf} \ {NoId}
            /\ entry.mem # entry.bf
        BY <1>1 DEF TypeOK, NothingLeaked, Freed, EntryShape
      <4>2. /\ entry' \in EntryType
            /\ entry'.build = entry.build /\ entry'.mem = entry.mem
            /\ entry'.inflight = entry.inflight + 1 /\ entry'.bf = entry.bf
        BY <3>1, <4>1 DEF EntryType
      <4>3. \A u \in InWindow \ excused : snap[u].bf # NoId => entry'.bf = snap[u].bf
        BY <4>2 DEF Held
      <4> QED
        BY <2>1, <3>1, <4>1, <4>2, <4>3 DEF BfReady
    <3>2. CASE m # "graph" /\ BfRebuilt(m, 1)
      BY <2>1, <3>2 DEF BfRebuilt
    <3> QED
      BY <3>1, <3>2 DEF OpenWindowH, OpenWindow
  <2>2. CASE ~(m = "graph" \/ BfReady(m))
    <3>1. m \in Precisions /\ BfRebuilt(m, 1)
      BY <2>2 DEF OpenWindowH, OpenWindow, Modes
    <3>2. disk.vecs
      BY <3>1 DEF BfRebuilt
    <3> QED
      BY <1>1, <3>1, <3>2, RefreshKeeps
  <2> QED
    BY <2>1, <2>2
<1> HIDE DEF b
<1>3. b \in Ids \cup {NoId} /\ (b # NoId => b = entry'.bf /\ disk.vecs)
  BY <1>2 DEF b, EntryType
<1>4. /\ snap' \in [Threads -> SnapType]
      /\ snap'[t] = [build |-> entry.build, mem |-> entry.mem, bf |-> b]
      /\ \A u \in Threads \ {t} : snap'[u] = snap[u]
  BY <1>1, <1>3 DEF TypeOK, EntryType, SnapType
<1>5. InWindow' = InWindow \cup {t}
  BY <1>1, <1>4 DEF InWindow, Resident
<1>6. Pinning' = Pinning \cup {t} /\ t \notin Pinning
  <2>1. \A u \in Threads : u \in Pinning' <=> u \in Pinning \/ u = t
    BY <1>1, <1>2, <1>4, <1>5 DEF Pinning, InWindow
  <2> QED
    BY <1>1, <2>1 DEF Pinning, InWindow
<1>7. Cardinality(Pinning') = Cardinality(Pinning) + 1
  BY <1>6, PinningFinite, FS_AddElement
<1>8. TypeOK'
  BY <1>1, <1>2, <1>4 DEF TypeOK, Replaced, InWindow
<1>9. Held'
  <2> SUFFICES ASSUME NEW u \in InWindow', u \notin excused'
               PROVE  /\ snap'[u].mem = entry'.mem
                      /\ snap'[u].bf # NoId => snap'[u].bf = entry'.bf /\ disk'.vecs
    BY DEF Held
  <2>1. CASE u = t
    BY <1>1, <1>2, <1>3, <1>4, <2>1
  <2>2. CASE u # t
    <3>1. u \in InWindow /\ u \notin excused /\ u \notin Replaced(m) /\ snap'[u] = snap[u]
      BY <1>1, <1>4, <1>5, <2>2 DEF InWindow
    <3> QED
      BY <1>1, <1>2, <3>1 DEF Held
  <2> QED
    BY <2>1, <2>2
<1>10. (EntryShape /\ NothingLeaked)'
  BY <1>1, <1>2 DEF EntryShape, NothingLeaked, Freed, Resident, Sharded
<1>11. (CountExact /\ PinsNeverStuck)'
  BY <1>1, <1>2, <1>7, PinningFinite
     DEF CountExact, PinsNeverStuck, Resident, Sharded, TypeOK, EntryType
<1>12. RobbedShape'
  BY <1>1, <1>2, <1>6 DEF RobbedShape, Sharded
<1>13. WindowShape'
  BY <1>1, <1>4, <1>5 DEF WindowShape, InWindow, Sharded
<1>14. (DiskShape /\ AwaitedAnswersMapped)'
  BY <1>1, <1>2, <1>4, <1>5
     DEF DiskShape, AwaitedAnswersMapped, WindowShape, Resident, InWindow, TypeOK
<1> QED
  BY <1>8, <1>9, <1>10, <1>11, <1>12, <1>13, <1>14

\* A fan-out returns.  If it was counted by the entry that it finds, the
\* count stays exact; if not, the entry is robbed and its fan-outs are
\* excused.
LEMMA FinishIInv ==
  ASSUME IInv, NEW t \in Threads, FinishH(t) PROVE IInv'
<1> USE DEF IInv
<1>1. /\ t \in InWindow
      /\ entry' = [entry EXCEPT !.inflight = IF Resident /\ @ > 0 THEN @ - 1 ELSE @]
      /\ snap' = [snap EXCEPT ![t] = NoSnap]
      /\ wait' = wait \ {t} /\ disk' = disk /\ live' = live
      /\ excused' = (excused \cup (IF Robs(t) THEN Pinning ELSE {})) \ {t}
      /\ robbed' = (robbed \/ Robs(t)) /\ overtaken' = overtaken \ {t}
  BY DEF FinishH, Finish
<1>2. /\ entry' \in EntryType
      /\ entry'.build = entry.build /\ entry'.mem = entry.mem /\ entry'.bf = entry.bf
      /\ entry'.inflight = IF Resident /\ entry.inflight > 0
                           THEN entry.inflight - 1 ELSE entry.inflight
  BY <1>1 DEF TypeOK, EntryType
<1>3. /\ snap' \in [Threads -> SnapType] /\ snap'[t].build = NoId
      /\ \A u \in Threads \ {t} : snap'[u] = snap[u]
  BY <1>1 DEF TypeOK, SnapType, NoSnap
<1>4. InWindow' = InWindow \ {t}
  BY <1>3 DEF InWindow
<1>5. Pinning' = Pinning \ {t}
  <2>1. \A u \in Threads : u \in Pinning' <=> u \in Pinning /\ u # t
    BY <1>2, <1>3, <1>4 DEF Pinning, InWindow
  <2> QED
    BY <2>1 DEF Pinning, InWindow
<1>6. /\ t \in Pinning => Cardinality(Pinning') = Cardinality(Pinning) - 1 /\ Cardinality(Pinning) > 0
      /\ t \notin Pinning => Cardinality(Pinning') = Cardinality(Pinning)
      /\ Cardinality(Pinning) \in Nat
  <2>1. CASE t \in Pinning
    <3>1. Cardinality(Pinning) # 0
      BY <2>1, PinningFinite, FS_EmptySet
    <3>2. Cardinality(Pinning') = Cardinality(Pinning) - 1
      BY <1>5, <2>1, PinningFinite, FS_RemoveElement
    <3> QED
      BY <2>1, <3>1, <3>2, PinningFinite
  <2>2. CASE t \notin Pinning
    <3>1. Pinning' = Pinning
      BY <1>5, <2>2
    <3> QED
      BY <2>2, <3>1, PinningFinite
  <2> QED
    BY <2>1, <2>2
<1>7. Sharded /\ entry.inflight > 0 /\ ~Robs(t) => t \in Pinning
  BY <1>1 DEF Robs, Pinning
<1>8. TypeOK'
  BY <1>1, <1>2, <1>3 DEF TypeOK, Pinning, InWindow
<1>9. Held'
  <2> SUFFICES ASSUME NEW u \in InWindow', u \notin excused'
               PROVE  /\ snap'[u].mem = entry'.mem
                      /\ snap'[u].bf # NoId => snap'[u].bf = entry'.bf /\ disk'.vecs
    BY DEF Held
  <2>1. u \in InWindow /\ u \notin excused /\ snap'[u] = snap[u]
    BY <1>1, <1>3, <1>4 DEF InWindow
  <2> QED
    BY <1>1, <1>2, <2>1 DEF Held
<1>10. (EntryShape /\ NothingLeaked)'
  BY <1>1, <1>2 DEF EntryShape, NothingLeaked, Freed, Resident, Sharded
<1>11. entry.inflight \in Nat /\ (Sharded' <=> Sharded) /\ (Sharded => Resident)
  BY <1>2 DEF TypeOK, EntryType, Sharded, EntryShape
<1>12. CountExact'
  <2> SUFFICES ASSUME Sharded', ~robbed' PROVE entry'.inflight = Cardinality(Pinning')
    BY DEF CountExact
  <2>1. Sharded /\ ~robbed /\ ~Robs(t)
    BY <1>1, <1>11
  <2>2. entry.inflight = Cardinality(Pinning)
    BY <2>1 DEF CountExact
  <2> QED
    BY <1>2, <1>6, <1>7, <1>11, <2>1, <2>2
<1>13. PinsNeverStuck'
  <2> SUFFICES ASSUME Sharded' PROVE entry'.inflight <= Cardinality(Pinning')
    BY DEF PinsNeverStuck
  <2>1. Resident /\ entry.inflight <= Cardinality(Pinning)
    BY <1>11 DEF PinsNeverStuck
  <2> QED
    BY <1>2, <1>6, <1>11, <2>1
<1>14. RobbedShape'
  BY <1>1, <1>5, <1>11 DEF RobbedShape, Robs
<1>15. WindowShape'
  BY <1>1, <1>3, <1>4 DEF WindowShape, InWindow
<1>16. (DiskShape /\ AwaitedAnswersMapped)'
  <2>1. \A u \in wait' \ overtaken' : u \in wait \ overtaken /\ u \in Threads \ {t} /\ snap'[u] = snap[u]
    BY <1>1, <1>3 DEF TypeOK, WindowShape
  <2> QED
    BY <1>1, <1>2, <2>1 DEF DiskShape, AwaitedAnswersMapped, Resident
<1> QED
  BY <1>8, <1>9, <1>10, <1>12, <1>13, <1>14, <1>15, <1>16

\* A backend that gives up changes nothing in the daemon.
LEMMA GiveUpIInv ==
  ASSUME IInv, NEW t \in Threads, GiveUp(t), overtaken' = overtaken \ {t},
         UNCHANGED <<excused, robbed>>
  PROVE  IInv'
<1>1. /\ wait' = wait \ {t} /\ entry' = entry /\ disk' = disk /\ live' = live /\ snap' = snap
      /\ excused' = excused /\ robbed' = robbed /\ overtaken' = overtaken \ {t}
  BY DEF GiveUp
<1> QED
  BY <1>1 DEF IInv, TypeOK, EntryShape, WindowShape, Held, CountExact, RobbedShape, DiskShape,
              NothingLeaked, Freed, PinsNeverStuck, AwaitedAnswersMapped,
              Resident, Sharded, InWindow, Pinning

-----------------------------------------------------------------------------
(* DDL excuses every fan-out in the window.  If its backend holds the lock *)
(* nobody waits, and if not, all who wait are overtaken by the new build.  *)

\* What is common to all DDL: it is enough to look at entry, disk and live,
\* and at who waits without having been overtaken.
LEMMA DdlCommon ==
  ASSUME IInv, snap' = snap, wait' = wait, excused' = InWindow,
         robbed' = (robbed /\ entry'.mem = entry.mem), overtaken' \subseteq Threads,
         \/ wait \subseteq overtaken'
         \/ entry' = entry /\ disk'.build \in {NoId, disk.build} /\ overtaken' = overtaken,
         entry' \in EntryType, disk' \in DiskType, EntryShape',
         NothingLeaked', live' \subseteq Ids,
         Resident' => disk'.build \in {NoId, entry'.build},
         \/ entry' = entry
         \/ Sharded' => entry'.inflight = 0 /\ entry'.mem \in Unused
  PROVE  IInv'
<1> USE DEF IInv
<1>1. InWindow' = InWindow /\ InWindow \subseteq Threads
  BY DEF InWindow
<1>2. TypeOK'
  BY <1>1 DEF TypeOK
<1>3. (WindowShape /\ Held /\ DiskShape /\ AwaitedAnswersMapped)'
  BY <1>1 DEF WindowShape, Held, DiskShape, AwaitedAnswersMapped, Resident
<1>4. RobbedShape'
  <2> SUFFICES ASSUME robbed' PROVE Sharded' /\ Pinning' \subseteq excused'
    BY DEF RobbedShape
  <2>1. entry'.mem = entry.mem /\ Sharded
    BY DEF RobbedShape
  <2> QED
    BY <1>1, <2>1 DEF Sharded, Pinning
<1>5. (CountExact /\ PinsNeverStuck)'
  <2>1. CASE entry' = entry
    <3>1. Pinning' = Pinning
      BY <1>1, <2>1 DEF Pinning
    <3> QED
      BY <2>1, <3>1 DEF CountExact, PinsNeverStuck, Resident, Sharded
  <2>2. CASE Sharded' => entry'.inflight = 0 /\ entry'.mem \in Unused
    <3>1. ASSUME Sharded' PROVE Pinning' = {}
      <4> SUFFICES ASSUME NEW t \in Pinning' PROVE FALSE
        OBVIOUS
      <4>1. t \in Threads /\ snap[t].mem = entry'.mem
        BY DEF Pinning, InWindow
      <4> QED
        BY <2>2, <3>1, <4>1, UnusedIsNew
    <3> QED
      BY <2>2, <3>1, FS_EmptySet DEF CountExact, PinsNeverStuck
  <2> QED
    BY <2>1, <2>2
<1> QED
  BY <1>2, <1>3, <1>4, <1>5

\* The three kinds of DDL differ in whom they overtake.
LEMMA DdlOvertakes ==
  ASSUME IInv, DdlH PROVE overtaken' \subseteq Threads
<1>1. wait \subseteq Threads /\ overtaken \subseteq Threads
  BY DEF IInv, TypeOK
<1> QED
  BY <1>1 DEF DdlH

\* CREATE INDEX and REINDEX with and without a lock, DROP INDEX, and builds
\* that fail.
LEMMA DdlIInv == ASSUME IInv, DdlH PROVE IInv'
<1>1. /\ TypeOK /\ EntryShape /\ NothingLeaked /\ DiskShape
      /\ excused' = InWindow /\ robbed' = (robbed /\ entry'.mem = entry.mem)
      /\ overtaken' \subseteq Threads
  BY DdlOvertakes DEF IInv, DdlH
<1>2. ASSUME NEW s \in BOOLEAN, NEW v \in BOOLEAN, NEW o \in BOOLEAN, Rebuild(s, v, o),
             wait \subseteq overtaken'
      PROVE  IInv'
  <2>1. PICK b \in UnusedBuilds, m \in Unused \cup {NoId} :
          /\ disk' = [build |-> b, sharded |-> s, vecs |-> v]
          /\ entry' = [NoEntry EXCEPT !.build = b, !.mem = m,
                                      !.inflight = IF s THEN 0 ELSE entry.inflight]
          /\ live' = (live \ Freed) \cup ({m} \ {NoId})
          /\ s \/ m = NoId
    BY <1>2, FreshIn DEF Rebuild
  <2>2. b \in Builds /\ b # NoId /\ m \in Ids \cup {NoId}
    BY UnusedIsNew, UnusedBuildIsNew
  <2> DEFINE n == IF s THEN 0 ELSE entry.inflight
  <2>3. entry' = [build |-> b, mem |-> m, inflight |-> n, bf |-> NoId, prec |-> "graph"]
    BY <2>1 DEF NoEntry
  <2>4. n \in Nat /\ (s => n = 0)
    BY <1>1 DEF TypeOK, EntryType
  <2> HIDE DEF n
  <2>5. entry' \in EntryType /\ disk' \in DiskType
    BY <2>1, <2>2, <2>3, <2>4 DEF EntryType, DiskType, Modes
  <2>6. /\ entry'.build = b /\ entry'.mem = m /\ entry'.bf = NoId /\ disk'.build = b
        /\ entry'.inflight = n
    <3>1. disk'.build = b
      BY <2>1
    <3> QED
      BY <2>3, <3>1
  <2>7. EntryShape' /\ (Resident' => disk'.build \in {NoId, entry'.build})
    BY <2>2, <2>6 DEF EntryShape, Resident, Sharded
  <2>8. live' = {m} \ {NoId}
    BY <1>1, <2>1 DEF NothingLeaked
  <2>9. NothingLeaked' /\ live' \subseteq Ids
    BY <2>2, <2>6, <2>8 DEF NothingLeaked, Freed
  <2>10. Sharded' => entry'.inflight = 0 /\ entry'.mem \in Unused
    BY <2>1, <2>4, <2>6 DEF Sharded
  <2>11. snap' = snap /\ wait' = wait
    BY <1>2 DEF Rebuild
  <2> QED
    BY <1>1, <1>2, <2>5, <2>7, <2>9, <2>10, <2>11, DdlCommon
<1>3. ASSUME NEW s \in BOOLEAN, NEW v \in BOOLEAN, NEW o \in BOOLEAN, RebuildDeferred(s, v, o),
             wait \subseteq overtaken'
      PROVE  IInv'
  <2>1. /\ ~Resident /\ entry' = entry /\ live' = live /\ snap' = snap /\ wait' = wait
        /\ disk' = [build |-> Fresh(UnusedBuilds), sharded |-> s, vecs |-> v]
        /\ Fresh(UnusedBuilds) \in Builds
    BY <1>3, FreshIn, UnusedBuildIsNew DEF RebuildDeferred
  <2>2. disk' \in DiskType /\ entry' \in EntryType /\ live' \subseteq Ids
    BY <1>1, <2>1 DEF DiskType, TypeOK
  <2>3. EntryShape' /\ NothingLeaked' /\ ~Resident'
    BY <1>1, <2>1 DEF EntryShape, NothingLeaked, Freed, Resident, Sharded
  <2> QED
    BY <1>1, <1>3, <2>1, <2>2, <2>3, DdlCommon
<1>4. ASSUME NEW v \in BOOLEAN, NEW c \in BOOLEAN, NEW o \in BOOLEAN, RebuildFails(v, c, o),
             overtaken' = overtaken
      PROVE  IInv'
  <2>1. /\ entry' = entry /\ live' = live /\ snap' = snap /\ wait' = wait
        /\ disk' = [build |-> IF c THEN NoId ELSE disk.build,
                    sharded |-> ~c /\ disk.sharded, vecs |-> v /\ disk.vecs]
    BY <1>4 DEF RebuildFails
  <2>2. disk' \in DiskType /\ disk'.build \in {NoId, disk.build}
    BY <1>1, <2>1 DEF DiskType, TypeOK
  <2>3. entry' \in EntryType /\ live' \subseteq Ids
    BY <1>1, <2>1 DEF TypeOK
  <2>4. EntryShape' /\ NothingLeaked' /\ (Resident' => disk'.build \in {NoId, entry'.build})
    BY <1>1, <2>1, <2>2 DEF EntryShape, NothingLeaked, Freed, Resident, Sharded, DiskShape
  <2> QED
    BY <1>1, <1>4, <2>1, <2>2, <2>3, <2>4, DdlCommon
<1>5. ASSUME Drop, wait \subseteq overtaken' PROVE IInv'
  <2>1. /\ snap' = snap /\ wait' = wait /\ live' = live \ Freed
        /\ entry' = [build |-> NoId, mem |-> NoId, inflight |-> 0, bf |-> NoId, prec |-> "graph"]
        /\ disk' = [build |-> NoId, sharded |-> FALSE, vecs |-> FALSE]
    BY <1>5 DEF Drop, NoEntry
  <2>2. entry' \in EntryType /\ disk' \in DiskType /\ live' \subseteq Ids
    BY <1>1, <2>1 DEF EntryType, DiskType, Modes, TypeOK
  <2>3. EntryShape' /\ NothingLeaked' /\ ~Resident' /\ ~Sharded'
    BY <1>1, <2>1 DEF EntryShape, NothingLeaked, Freed, Resident, Sharded
  <2> QED
    BY <1>1, <1>5, <2>1, <2>2, <2>3, DdlCommon
<1>6. CASE LockedDdl /\ overtaken' = overtaken
  <2>1. wait = {}
    BY <1>6 DEF LockedDdl, Rebuild, RebuildDeferred, RebuildFails, Drop, Commits, Exclusive
  <2> QED
    BY <1>2, <1>3, <1>4, <1>5, <1>6, <2>1 DEF LockedDdl
<1>7. CASE OverdueCommit /\ overtaken' = wait
  BY <1>2, <1>3, <1>7 DEF OverdueCommit
<1>8. CASE OverdueFailure /\ overtaken' = overtaken
  BY <1>4, <1>8 DEF OverdueFailure
<1> QED
  BY <1>6, <1>7, <1>8 DEF DdlH

-----------------------------------------------------------------------------
(* The theorems.                                                           *)

\* Every step preserves the invariant.
LEMMA NextIInv == IInv /\ [NextH]_hvars => IInv'
<1> SUFFICES ASSUME IInv, [NextH]_hvars PROVE IInv'
  OBVIOUS
<1>1. CASE UNCHANGED hvars
  BY <1>1 DEF hvars, vars, IInv, TypeOK, EntryShape, WindowShape, Held, CountExact, RobbedShape,
              DiskShape, NothingLeaked, Freed, PinsNeverStuck, AwaitedAnswersMapped,
              Resident, Sharded, InWindow, Pinning
<1>2. CASE NextH
  BY <1>2, DdlIInv, LoadIInv, EvictIInv, RefreshOnlyIInv, OpenWindowIInv, FinishIInv, GiveUpIInv
     DEF NextH
<1> QED
  BY <1>1, <1>2

\* The inductive invariant holds in every reachable state.
LEMMA Invariant == SpecH => []IInv
  BY InitIInv, NextIInv, PTL DEF SpecH

(* inflight never becomes negative, and the state keeps its types, for any *)
(* number of connection threads (handle_search, find_lru_index).           *)
THEOREM TypeCorrect == SpecH => []TypeOK
<1>1. IInv => TypeOK
  BY DEF IInv
<1> QED
  BY Invariant, <1>1, PTL

(* What a fan-out of handle_search reads without g_index_mutex is freed    *)
(* under it only through one of the four causes.                           *)
THEOREM FreedOnlyByCause == SpecH => []NothingFreedUnexplained
<1>1. IInv => NothingFreedUnexplained
  BY DEF IInv, NothingFreedUnexplained, NothingLeaked, Freed, Held
<1> QED
  BY Invariant, <1>1, PTL

(* No pin outlives the fan-outs on the entry, so that a sharded index      *)
(* without a search in flight can always be evicted (find_lru_index).      *)
THEOREM PinsReleased == SpecH => []PinsNeverStuck
<1>1. IInv => PinsNeverStuck
  BY DEF IInv
<1> QED
  BY Invariant, <1>1, PTL

(* Row numbers are mapped through the TIDs of the build they come from in  *)
(* every answer that a backend reads, unless a build that its own backend  *)
(* had given up was committed while it waited (handle_search).             *)
THEOREM AnswersMapped == SpecH => []AwaitedAnswersMapped
<1>1. IInv => AwaitedAnswersMapped
  BY DEF IInv
<1> QED
  BY Invariant, <1>1, PTL

(* No path that replaces, drops or evicts a sharded entry leaks its shards *)
(* or their brute-force copies (free_index_shards).                        *)
THEOREM ShardsFreed == SpecH => []NothingLeaked
<1>1. IInv => NothingLeaked
  BY DEF IInv
<1> QED
  BY Invariant, <1>1, PTL
=============================================================================

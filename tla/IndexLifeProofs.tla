-------------------------- MODULE IndexLifeProofs ---------------------------
(***************************************************************************)
(* Proofs about IndexLife for any finite set of indexes, any nesting of    *)
(* transactions, any queue length and any number of warm-up threads: IInv  *)
(* is inductive, and with it a live index keeps its files and a dropped    *)
(* one leaves nothing behind.                                              *)
(***************************************************************************)
EXTENDS IndexLife, FiniteSetTheorems, TLAPS

Frame == [mine : SUBSET Indexes, made : SUBSET Indexes]
ColdStates == {"queued", "downloading", "failed"}

PgType ==
    /\ kind \in [Indexes -> {"cagra", "flat", "ivfpq"}]
    /\ catalog \subseteq Indexes /\ fresh \subseteq Indexes
    /\ xact \in Seq(Frame) /\ mine \subseteq Indexes /\ made \subseteq Indexes
    /\ pending \subseteq [i : Indexes, sub : Nat] /\ notify \in Seq(Indexes)
    /\ prepared \in [on : BOOLEAN, adds : SUBSET Indexes, drops : SUBSET Indexes]
    /\ invalid \subseteq Indexes

DaemonType ==
    /\ building \subseteq Indexes /\ dropping \subseteq Indexes
    /\ daemon \in {"down", "starting", "up"}
    /\ files \in [Indexes -> SUBSET {"graph", "rfn"}] /\ resident \subseteq Indexes
    /\ cold \in [Indexes -> Seq(ColdStates)]

WarmupType ==
    /\ queue \in Seq(Indexes) /\ Len(queue) <= QMax /\ IsInjective(queue)
    /\ worker \in [Workers -> [at : {"idle", "download", "load"}, i : Indexes \cup {"none"}]]

WorkType ==
    /\ gc \in [at : {"idle", "act", "unlink"}, todo : SUBSET Indexes, i : Indexes \cup {"none"}]
    /\ comp \in [at : {"idle", "reindex", "built", "notify"}, todo : SUBSET Indexes,
                 old : Indexes \cup {"none"}, new : Indexes \cup {"none"}]

\* One transaction at a time: open, prepared or being committed.
SessionShape ==
    /\ xact = <<>> => mine = {} /\ made = {} /\ pending = {}
    /\ notify # <<>> => xact = <<>>
    /\ prepared.on => xact = <<>> /\ notify = <<>>
    /\ ~prepared.on => prepared.adds = {} /\ prepared.drops = {}
    /\ prepared.drops \subseteq marred

\* What the transaction sees is what it saw first and what it made.
StackShape ==
    /\ xact # <<>> => /\ xact[1].made = {} /\ made \cap xact[1].mine = {}
                      /\ mine \subseteq xact[1].mine \cup made
    /\ \A k \in 1 .. Len(xact) :
          /\ xact[k].made \subseteq made
          /\ xact[k].mine \cap fresh = {}
          /\ xact[k].mine \subseteq xact[1].mine \cup made

\* A pending drop belongs to an open subtransaction: neither it nor the ones
\* nested in it see the index.
PendingShape ==
    \A d \in pending :
        /\ d.sub \in 1 .. Len(xact) /\ d.i \notin mine
        /\ d.i \in xact[1].mine \cup made
        /\ \A k \in 1 .. Len(xact) : d.sub < k => d.i \notin xact[k].mine

\* The drop of index i has been recorded before level k, or never will be.
Recorded(i, k) ==
    i \in marred \/ kind[i] = "ivfpq" \/ \E d \in pending : d.i = i /\ d.sub < k

\* Every index that a level no longer sees has its drop recorded in an outer one.
DropShape ==
    /\ \A i \in made \ mine : Recorded(i, Len(xact) + 1)
    /\ xact # <<>> => \A i \in xact[1].mine \ mine : Recorded(i, Len(xact) + 1)
    /\ \A k \in 1 .. Len(xact) :
          \A i \in (xact[1].mine \cup xact[k].made) \ xact[k].mine : Recorded(i, k)

\* An OID is given to one index, which one transaction creates.
BirthShape ==
    /\ fresh \cap (catalog \cup made \cup prepared.adds \cup building) = {}
    /\ catalog \cap (made \cup prepared.adds) = {}
    /\ catalog \cap building \subseteq invalid
    /\ building \cap (made \cup prepared.adds) = {}
    /\ building \subseteq marred
    /\ ToSet(notify) \cap (catalog \cup fresh) = {}

\* What the compaction worker has replaced.
CompShape ==
    /\ comp.at \in {"idle", "reindex"} => comp.old = "none"
    /\ comp.at \in {"built", "notify"} =>
          comp.old \in Indexes \ (fresh \cup made \cup prepared.adds)
    /\ comp.at = "notify" => comp.old \notin catalog

\* gc unlinks the files of an index that was an orphan and not new.
GcShape ==
    /\ gc.todo \cap fresh = {}
    /\ gc.at = "unlink" =>
          /\ gc.i \in Indexes \ fresh
          /\ gc.i \in catalog \cup made \cup prepared.adds => gc.i \in taken

\* A DROP that the daemon comes to late is not of a live index, unless gc sent it.
LateShape ==
    /\ dropping \cap fresh = {}
    /\ dropping \cap (catalog \cup made \cup prepared.adds) \subseteq taken

\* The warm-up threads work on indexes that have existed.
JobShape ==
    /\ ToSet(queue) \cap fresh = {}
    /\ \A w \in Workers : IF worker[w].at = "idle" THEN worker[w].i = "none"
                          ELSE worker[w].i \in Indexes \ fresh
    /\ daemon = "down" => resident = {} /\ queue = <<>> /\ \A w \in Workers : worker[w].at = "idle"
    /\ \A i \in Indexes : i \notin marred => Len(cold[i]) <= 1

Whole(i) ==
    /\ kind[i] # "ivfpq" => "rfn" \in files[i]
    /\ i \notin Restored => "graph" \in files[i]

\* What is live and valid, or may become so, has its files, what is new has none yet, and
\* what is resident can be found by gc.
FileShape ==
    /\ \A i \in (catalog \cup made \cup prepared.adds) \ (taken \cup invalid) : Whole(i)
    /\ \A i \in fresh : files[i] = {}
    /\ \A i \in resident \ taken : "graph" \in files[i]

\* Somebody will still attend to the index, or it is one of the exceptions.
Attended(i) ==
    \/ i \in fresh \cup catalog \cup made \cup prepared.adds \cup building \cup dropping \cup marred
    \/ i \in ToSet(notify) \/ kind[i] = "ivfpq" \/ comp.old = i

Gone(i) == files[i] = {} /\ i \notin resident /\ cold[i] = <<>> /\ i \notin Jobs

GoneShape == \A i \in Indexes : Attended(i) \/ Gone(i)

Types == PgType /\ DaemonType /\ WarmupType /\ WorkType

IInv ==
    /\ Types /\ SessionShape /\ StackShape /\ PendingShape /\ DropShape /\ BirthShape
    /\ CompShape /\ GcShape /\ LateShape /\ JobShape /\ FileShape /\ GoneShape
-----------------------------------------------------------------------------
(* Facts about sequences and the stack of transactions.                    *)

\* Leaving a subtransaction.
LEMMA FrontFacts ==
  ASSUME NEW S, NEW s \in Seq(S), s # <<>>
  PROVE  /\ Front(s) \in Seq(S) /\ Len(Front(s)) = Len(s) - 1
         /\ \A k \in 1 .. Len(s) - 1 : Front(s)[k] = s[k]
         /\ Last(s) = s[Len(s)] /\ Last(s) \in S /\ Len(s) \in Nat \ {0}
<1>1. Len(s) \in Nat \ {0} /\ s = [k \in 1 .. Len(s) |-> s[k]] /\ \A k \in 1 .. Len(s) : s[k] \in S
  OBVIOUS
<1>2. Front(s) = [k \in 1 .. Len(s) - 1 |-> s[k]]
  BY <1>1 DEF Front
<1> QED
  BY <1>1, <1>2 DEF Last

\* Entering one.
LEMMA AppendFacts ==
  ASSUME NEW S, NEW s \in Seq(S), NEW x \in S
  PROVE  /\ Append(s, x) \in Seq(S) /\ Len(Append(s, x)) = Len(s) + 1 /\ Len(s) \in Nat
         /\ \A k \in 1 .. Len(s) : Append(s, x)[k] = s[k]
         /\ Append(s, x)[Len(s) + 1] = x
  OBVIOUS

\* A queue after its head is taken.
LEMMA TailFacts ==
  ASSUME NEW S, NEW s \in Seq(S), s # <<>>
  PROVE  /\ Tail(s) \in Seq(S) /\ Len(Tail(s)) = Len(s) - 1 /\ Len(s) \in Nat \ {0}
         /\ \A k \in 1 .. Len(s) - 1 : Tail(s)[k] = s[k + 1]
         /\ ToSet(s) = {Head(s)} \cup ToSet(Tail(s)) /\ Head(s) \in S
         /\ IsInjective(s) => IsInjective(Tail(s)) /\ Head(s) \notin ToSet(Tail(s))
<1>1. Len(s) \in Nat \ {0} /\ DOMAIN s = 1 .. Len(s) /\ Head(s) = s[1] /\ \A k \in 1 .. Len(s) : s[k] \in S
  OBVIOUS
<1>2. /\ Tail(s) \in Seq(S) /\ Len(Tail(s)) = Len(s) - 1 /\ DOMAIN Tail(s) = 1 .. Len(s) - 1
      /\ \A k \in 1 .. Len(s) - 1 : Tail(s)[k] = s[k + 1]
  BY <1>1
<1>3. ToSet(s) \subseteq {Head(s)} \cup ToSet(Tail(s))
  <2> SUFFICES ASSUME NEW k \in 1 .. Len(s), k # 1 PROVE s[k] \in ToSet(Tail(s))
    BY <1>1 DEF ToSet
  <2>1. k - 1 \in 1 .. Len(s) - 1 /\ Tail(s)[k - 1] = s[k]
    BY <1>1, <1>2
  <2> QED
    BY <1>2, <2>1 DEF ToSet
<1>4. ToSet(Tail(s)) \subseteq ToSet(s) /\ Head(s) \in ToSet(s)
  <2>1. \A k \in 1 .. Len(s) - 1 : k + 1 \in 1 .. Len(s) /\ 1 \in 1 .. Len(s)
    BY <1>1
  <2> QED
    BY <1>1, <1>2, <2>1 DEF ToSet
<1>5. ASSUME IsInjective(s) PROVE IsInjective(Tail(s)) /\ Head(s) \notin ToSet(Tail(s))
  <2>1. \A a, b \in 1 .. Len(s) : s[a] = s[b] => a = b
    BY <1>1, <1>5 DEF IsInjective
  <2>2. \A a, b \in 1 .. Len(s) - 1 : Tail(s)[a] = Tail(s)[b] => a = b
    BY <1>1, <1>2, <2>1
  <2>3. \A a \in 1 .. Len(s) - 1 : Tail(s)[a] # s[1]
    BY <1>1, <1>2, <2>1
  <2> QED
    BY <1>1, <1>2, <2>2, <2>3 DEF IsInjective, ToSet
<1> QED
  BY <1>1, <1>2, <1>3, <1>4, <1>5

\* What is left of a list of one.
LEMMA EmptyTail ==
  ASSUME NEW S, NEW s \in Seq(S), NEW t \in Seq(S), s # <<>>, Len(s) <= 1, Len(t) = Len(s) - 1
  PROVE  Len(t) <= 1 /\ t = <<>>
<1>1. Len(s) \in Nat \ {0} /\ Len(t) \in Nat
  OBVIOUS
<1>2. Len(t) = 0
  BY <1>1
<1> QED
  BY <1>2

\* handle_drop and warmup_load take the first cold entry, if there is one.
LEMMA TakeFirst ==
  ASSUME NEW S, NEW s \in Seq(S), NEW t, t = IF s = <<>> THEN s ELSE Tail(s)
  PROVE  t \in Seq(S) /\ (Len(s) <= 1 => Len(t) <= 1 /\ t = <<>>) /\ (s = <<>> => t = <<>>)
<1>1. CASE s = <<>>
  BY <1>1
<1>2. CASE s # <<>>
  <2>1. t \in Seq(S) /\ Len(t) = Len(s) - 1
    BY <1>2, TailFacts
  <2> QED
    BY <1>2, <2>1, EmptyTail
<1> QED
  BY <1>1, <1>2

\* A queue with one more element.
LEMMA AppendQueue ==
  ASSUME NEW S, NEW s \in Seq(S), NEW x \in S, IsInjective(s), x \notin ToSet(s)
  PROVE  IsInjective(Append(s, x)) /\ ToSet(Append(s, x)) = ToSet(s) \cup {x}
<1>1. /\ Len(s) \in Nat /\ DOMAIN s = 1 .. Len(s) /\ DOMAIN Append(s, x) = 1 .. Len(s) + 1
      /\ \A k \in 1 .. Len(s) : Append(s, x)[k] = s[k]
      /\ Append(s, x)[Len(s) + 1] = x
  OBVIOUS
<1>2. \A k \in 1 .. Len(s) + 1 : k \in 1 .. Len(s) \/ k = Len(s) + 1
  BY <1>1
<1>3. \A k \in 1 .. Len(s) : s[k] # x
  BY <1>1 DEF ToSet
<1>4. \A a, b \in 1 .. Len(s) + 1 : Append(s, x)[a] = Append(s, x)[b] => a = b
  BY <1>1, <1>2, <1>3 DEF IsInjective
<1>5. ToSet(Append(s, x)) \subseteq ToSet(s) \cup {x}
  BY <1>1, <1>2 DEF ToSet
<1>6. x \in ToSet(Append(s, x)) /\ ToSet(s) \subseteq ToSet(Append(s, x))
  <2>1. Len(s) + 1 \in 1 .. Len(s) + 1 /\ 1 .. Len(s) \subseteq 1 .. Len(s) + 1
    BY <1>1
  <2> QED
    BY <1>1, <2>1 DEF ToSet
<1> QED
  BY <1>1, <1>4, <1>5, <1>6 DEF IsInjective

\* cuvs_pending_drops as a list: every index once, and no other.
LEMMA SetToSeqFacts ==
  ASSUME NEW S \in SUBSET Indexes
  PROVE  SetToSeq(S) \in Seq(S) /\ ToSet(SetToSeq(S)) = S
<1>1. IsFiniteSet(S) /\ Cardinality(S) \in Nat /\ ExistsBijection(1 .. Cardinality(S), S)
  BY IndexesAssumption, FS_Subset, FS_CardinalityType
<1>2. PICK g \in Bijection(1 .. Cardinality(S), S) : TRUE
  BY <1>1 DEF ExistsBijection
<1>3. g \in [1 .. Cardinality(S) -> S] /\ IsInjective(g)
  BY <1>2 DEF Bijection, Injection, Surjection
<1>4. SetToSeq(S) \in [1 .. Cardinality(S) -> S] /\ IsInjective(SetToSeq(S))
  BY <1>3 DEF SetToSeq
<1>5. SetToSeq(S) \in Injection(1 .. Cardinality(S), S)
  BY <1>4 DEF Injection
<1>6. IsFiniteSet(1 .. Cardinality(S)) /\ Cardinality(1 .. Cardinality(S)) = Cardinality(S)
  BY <1>1, FS_Interval
<1>7. SetToSeq(S) \in Surjection(1 .. Cardinality(S), S)
  BY <1>1, <1>5, <1>6, FS_Injection
<1>8. ToSet(SetToSeq(S)) = S
  BY <1>4, <1>7 DEF Surjection, ToSet
<1> QED
  BY <1>1, <1>4, <1>8

\* The queue after start-up.
LEMMA QueueAtStartFacts ==
  ASSUME NEW S \in SUBSET Indexes, NEW todo \in SetToSeqs(S)
  PROVE  /\ QueueAtStart(todo) \in Seq(S) /\ Len(QueueAtStart(todo)) <= QMax
         /\ IsInjective(QueueAtStart(todo)) /\ ToSet(QueueAtStart(todo)) \subseteq S
<1>1. Cardinality(S) \in Nat
  BY IndexesAssumption, FS_Subset, FS_CardinalityType
<1>2. /\ todo \in [1 .. Cardinality(S) -> S]
      /\ \A a, b \in 1 .. Cardinality(S) : a # b => todo[a] # todo[b]
  BY DEF SetToSeqs
<1>3. todo \in Seq(S) /\ Len(todo) = Cardinality(S)
  BY <1>1, <1>2
<1>4. PICK n \in Nat : n <= Len(todo) /\ n <= QMax /\ QueueAtStart(todo) = SubSeq(todo, 1, n)
  BY <1>1, <1>3, BoundAssumption DEF QueueAtStart
<1>5. SubSeq(todo, 1, n) = [k \in 1 .. n |-> todo[k]] /\ Len(SubSeq(todo, 1, n)) = n
  BY <1>1, <1>3, <1>4
<1>6. \A k \in 1 .. n : k \in 1 .. Cardinality(S) /\ todo[k] \in S
  BY <1>1, <1>2, <1>3, <1>4
<1>7. QueueAtStart(todo) \in Seq(S)
  BY <1>4, <1>5, <1>6
<1>8. IsInjective(QueueAtStart(todo))
  BY <1>2, <1>4, <1>5, <1>6 DEF IsInjective
<1>9. ToSet(QueueAtStart(todo)) \subseteq S
  BY <1>4, <1>5, <1>6 DEF ToSet
<1> QED
  BY <1>4, <1>5, <1>7, <1>8, <1>9
-----------------------------------------------------------------------------
(* What a step leaves alone.                                               *)

\* A step of the daemon, of gc or of the compaction worker's list: the catalog
\* and the session are as they were.
LEMMA PgFrame ==
  ASSUME IInv, UNCHANGED pgvars, marred \subseteq marred', taken \subseteq taken', building' \subseteq building
  PROVE  /\ PgType' /\ SessionShape' /\ StackShape' /\ PendingShape' /\ DropShape' /\ BirthShape'
         /\ comp' = comp => CompShape'
         /\ gc' = gc => GcShape'
         /\ dropping' \subseteq dropping => LateShape'
<1> USE DEF IInv, Types, pgvars
<1>1. PgType' /\ SessionShape' /\ StackShape' /\ PendingShape'
  BY DEF PgType, SessionShape, StackShape, PendingShape
<1>2. DropShape'
  BY DEF DropShape, Recorded
<1>3. BirthShape'
  BY DEF BirthShape
<1>4. comp' = comp => CompShape'
  BY DEF CompShape
<1>5. gc' = gc => GcShape'
  BY DEF GcShape
<1>6. dropping' \subseteq dropping => LateShape'
  BY DEF LateShape
<1> QED
  BY <1>1, <1>2, <1>3, <1>4, <1>5, <1>6

\* Who is attended to when the catalog and the session are as they were.
LEMMA AttendedKept ==
  ASSUME IInv, UNCHANGED pgvars, marred \subseteq marred', building' \subseteq building, comp' = comp, NEW i, Attended(i),
         i \in dropping => i \in dropping' \cup marred'
  PROVE  Attended(i)'
  BY DEF pgvars, Attended, IInv, BirthShape

\* A step of the session that creates nothing.
LEMMA SessionFrame ==
  ASSUME IInv, UNCHANGED <<kind, invalid, building, dropping, daemon, files, resident, cold, queue, worker, gc, comp, taken>>,
         fresh' = fresh, marred \subseteq marred',
         catalog' \subseteq catalog \cup made \cup prepared.adds,
         made' \cup prepared'.adds \subseteq made \cup prepared.adds
  PROVE  /\ DaemonType' /\ WarmupType' /\ WorkType'
         /\ CompShape' /\ GcShape' /\ LateShape' /\ JobShape' /\ FileShape'
<1> USE DEF IInv, Types
<1>1. DaemonType' /\ WarmupType' /\ WorkType'
  BY DEF DaemonType, WarmupType, WorkType
<1>2. CompShape' /\ GcShape' /\ LateShape'
  BY DEF CompShape, GcShape, LateShape
<1>3. JobShape'
  BY DEF JobShape
<1>4. FileShape'
  BY DEF FileShape, Whole
<1> QED
  BY <1>1, <1>2, <1>3, <1>4

\* An index that nobody attends to is gone, and stays so while the daemon rests.
LEMMA GoneKept ==
  ASSUME IInv, UNCHANGED <<files, resident, cold, queue, worker>>,
         \A i \in Indexes : Attended(i) => Attended(i)'
  PROVE  GoneShape'
<1>1. \A i \in Indexes : Gone(i) => Gone(i)'
  BY DEF Gone, Jobs
<1> QED
  BY <1>1 DEF IInv, GoneShape

\* The invariant holds at first: the daemon is down, the session has no
\* transaction, and the indexes there are have their files.
LEMMA InitIInv == Init => IInv
<1> SUFFICES ASSUME Init PROVE IInv
  OBVIOUS
<1> USE DEF Init
<1>1. PgType
  BY OldAssumption DEF PgType, NoPrepared
<1>2. DaemonType
  BY OldAssumption DEF DaemonType
<1>3. WarmupType
  BY BoundAssumption DEF WarmupType, NoWork, IsInjective
<1>4. WorkType
  BY DEF WorkType, NoGc, NoComp
<1>5. SessionShape /\ StackShape /\ PendingShape /\ DropShape
  BY DEF SessionShape, StackShape, PendingShape, DropShape, NoPrepared
<1>6. ToSet(<<>>) = {}
  BY DEF ToSet
<1>7. BirthShape /\ CompShape /\ GcShape /\ LateShape
  BY <1>6 DEF BirthShape, CompShape, GcShape, LateShape, NoPrepared, NoComp, NoGc
<1>8. JobShape
  BY <1>6, OldAssumption DEF JobShape, NoWork
<1>9. FileShape
  <2>1. \A i \in Old : Whole(i)
    BY OldAssumption DEF Whole
  <2>2. \A i \in Indexes \ Old : files[i] = {}
    BY DEF Whole
  <2> QED
    BY <2>1, <2>2 DEF FileShape, NoPrepared
<1>10. GoneShape
  BY DEF GoneShape, Attended
<1> QED
  BY <1>1, <1>2, <1>3, <1>4, <1>5, <1>7, <1>8, <1>9, <1>10 DEF IInv, Types
-----------------------------------------------------------------------------
(* The session.                                                            *)

\* A transaction begins with the catalog as it is.
LEMMA BeginIInv == ASSUME IInv, Begin PROVE IInv'
<1> USE DEF IInv, Types
<1>1. /\ xact = <<>> /\ notify = <<>> /\ ~prepared.on
      /\ xact' = <<[mine |-> catalog, made |-> {}]>> /\ mine' = catalog
      /\ UNCHANGED <<kind, catalog, notify, prepared, invalid, fresh, made, pending, marred>>
      /\ UNCHANGED <<building, dropping, daemon, files, resident, cold, queue, worker, gc, comp, taken>>
  BY DEF Begin, TxVars, DaemonVars, Others
<1>2. made = {} /\ pending = {} /\ prepared.adds = {} /\ prepared.drops = {}
  BY <1>1 DEF SessionShape
<1>3. xact' \in Seq(Frame) /\ Len(xact') = 1 /\ xact'[1].mine = catalog /\ xact'[1].made = {}
  BY <1>1 DEF PgType, Frame
<1>4. PgType' /\ SessionShape'
  BY <1>1, <1>2, <1>3 DEF PgType, SessionShape
<1>5. StackShape' /\ PendingShape' /\ DropShape'
  BY <1>1, <1>2, <1>3 DEF StackShape, PendingShape, DropShape, BirthShape
<1>6. BirthShape'
  BY <1>1 DEF BirthShape
<1>7. DaemonType' /\ WarmupType' /\ WorkType' /\ CompShape' /\ GcShape' /\ LateShape' /\ JobShape' /\ FileShape'
  BY <1>1, SessionFrame
<1>8. GoneShape'
  BY <1>1, GoneKept DEF Attended
<1> QED
  BY <1>4, <1>5, <1>6, <1>7, <1>8

\* A subtransaction begins: what is recorded so far is recorded below it.
LEMMA SubBeginIInv == ASSUME IInv, SubBegin PROVE IInv'
<1> USE DEF IInv, Types
<1>1. /\ Len(xact) \in 1 .. MaxDepth - 1
      /\ xact' = Append(xact, [mine |-> mine, made |-> made])
      /\ UNCHANGED <<kind, catalog, notify, prepared, invalid, fresh, mine, made, pending, marred>>
      /\ UNCHANGED <<building, dropping, daemon, files, resident, cold, queue, worker, gc, comp, taken>>
  BY DEF SubBegin, TxVars, DaemonVars, Others
<1>2. /\ xact' \in Seq(Frame) /\ Len(xact') = Len(xact) + 1 /\ Len(xact) \in Nat \ {0}
      /\ \A k \in 1 .. Len(xact) : xact'[k] = xact[k]
      /\ xact'[Len(xact) + 1].mine = mine /\ xact'[Len(xact) + 1].made = made
  <2>1. [mine |-> mine, made |-> made] \in Frame /\ Len(xact) > 0
    BY <1>1 DEF PgType, Frame
  <2> QED
    BY <1>1, <2>1, AppendFacts DEF PgType
<1>3. xact # <<>> /\ xact' # <<>> /\ xact'[1] = xact[1]
  BY <1>2
<1>4. \A k \in 1 .. Len(xact') : k \in 1 .. Len(xact) \/ k = Len(xact) + 1
  BY <1>2
<1>5. PgType' /\ SessionShape'
  BY <1>1, <1>2, <1>3 DEF PgType, SessionShape
<1>6. mine \cap fresh = {}
  BY <1>2, <1>3 DEF StackShape, BirthShape
<1>7. StackShape'
  BY <1>1, <1>2, <1>3, <1>4, <1>6 DEF StackShape
<1>8. PendingShape'
  BY <1>1, <1>2, <1>3, <1>4 DEF PendingShape
<1>9. DropShape'
  <2>1. \A d \in pending : d.sub \in Nat /\ d.sub <= Len(xact)
    BY <1>2 DEF PendingShape
  <2>2. \A i : Recorded(i, Len(xact) + 1) => Recorded(i, Len(xact) + 1)'
    BY <1>1, <1>2, <2>1 DEF Recorded
  <2>3. \A i, k : Recorded(i, k) => Recorded(i, k)'
    BY <1>1 DEF Recorded
  <2>4. \A k \in 1 .. Len(xact') : \A i \in (xact'[1].mine \cup xact'[k].made) \ xact'[k].mine : Recorded(i, k)'
    BY <1>1, <1>2, <1>3, <1>4, <2>3 DEF DropShape
  <2>5. \A i \in (xact[1].mine \cup made) \ mine : Recorded(i, Len(xact) + 1)'
    BY <1>3, <2>2 DEF DropShape
  <2> QED
    BY <1>1, <1>2, <1>3, <2>4, <2>5 DEF DropShape
<1>10. BirthShape'
  BY <1>1 DEF BirthShape
<1>11. DaemonType' /\ WarmupType' /\ WorkType' /\ CompShape' /\ GcShape' /\ LateShape' /\ JobShape' /\ FileShape'
  BY <1>1, SessionFrame
<1>12. GoneShape'
  BY <1>1, GoneKept DEF Attended
<1> QED
  BY <1>5, <1>7, <1>8, <1>9, <1>10, <1>11, <1>12

\* A subtransaction commits: its drops move to the parent, which no longer sees
\* the indexes either (cuvs_subxact_callback).
LEMMA SubCommitIInv == ASSUME IInv, SubCommit PROVE IInv'
<1> USE DEF IInv, Types
<1>1. /\ Len(xact) > 1 /\ xact' = Front(xact)
      /\ pending' = {IF d.sub = Len(xact) THEN [d EXCEPT !.sub = @ - 1] ELSE d : d \in pending}
      /\ UNCHANGED <<kind, catalog, notify, prepared, invalid, fresh, mine, made, marred>>
      /\ UNCHANGED <<building, dropping, daemon, files, resident, cold, queue, worker, gc, comp, taken>>
  BY DEF SubCommit, TxVars, DaemonVars, Others
<1>2. /\ xact' \in Seq(Frame) /\ Len(xact') = Len(xact) - 1 /\ Len(xact) \in Nat \ {0, 1}
      /\ \A k \in 1 .. Len(xact) - 1 : xact'[k] = xact[k]
  <2>1. xact \in Seq(Frame) /\ xact # <<>> /\ Len(xact) \in Nat
    BY <1>1 DEF PgType
  <2> QED
    BY <1>1, <2>1, FrontFacts
<1>3. xact # <<>> /\ xact' # <<>> /\ xact'[1] = xact[1]
  BY <1>2
<1>4. \A d \in pending : d \in [i : Indexes, sub : Nat] /\ d.sub \in 1 .. Len(xact)
  BY DEF PgType, PendingShape
<1>5. \A d \in pending' : /\ d \in [i : Indexes, sub : Nat]
                          /\ \E e \in pending : e.i = d.i /\ d.sub = IF e.sub = Len(xact) THEN Len(xact) - 1 ELSE e.sub
  BY <1>1, <1>2, <1>4
<1>6. \A e \in pending : \E d \in pending' : e.i = d.i /\ d.sub = IF e.sub = Len(xact) THEN Len(xact) - 1 ELSE e.sub
  <2> SUFFICES ASSUME NEW e \in pending
               PROVE  \E d \in pending' : e.i = d.i /\ d.sub = IF e.sub = Len(xact) THEN Len(xact) - 1 ELSE e.sub
    OBVIOUS
  <2>1. CASE e.sub = Len(xact)
    <3>1. [e EXCEPT !.sub = @ - 1] \in pending'
      BY <1>1, <2>1
    <3>2. [e EXCEPT !.sub = @ - 1].i = e.i /\ [e EXCEPT !.sub = @ - 1].sub = Len(xact) - 1
      BY <1>4, <2>1
    <3> QED
      BY <2>1, <3>1, <3>2
  <2>2. CASE e.sub # Len(xact)
    BY <1>1, <2>2
  <2> QED
    BY <2>1, <2>2
<1>7. PgType'
  BY <1>1, <1>2, <1>5 DEF PgType
<1>8. SessionShape' /\ StackShape'
  BY <1>1, <1>2, <1>3 DEF SessionShape, StackShape
<1>9. PendingShape'
  <2> SUFFICES ASSUME NEW d \in pending'
               PROVE  /\ d.sub \in 1 .. Len(xact') /\ d.i \notin mine'
                      /\ d.i \in xact'[1].mine \cup made'
                      /\ \A k \in 1 .. Len(xact') : d.sub < k => d.i \notin xact'[k].mine
    BY DEF PendingShape
  <2>1. PICK e \in pending : e.i = d.i /\ d.sub = IF e.sub = Len(xact) THEN Len(xact) - 1 ELSE e.sub
    BY <1>5
  <2>2. e.sub \in 1 .. Len(xact) /\ d.sub \in 1 .. Len(xact) - 1
    BY <1>2, <1>4, <2>1
  <2>3. \A k \in 1 .. Len(xact) - 1 : d.sub < k => e.sub < k
    BY <1>2, <2>1, <2>2
  <2>4. /\ e.i \notin mine /\ e.i \in xact[1].mine \cup made
        /\ \A k \in 1 .. Len(xact) : e.sub < k => e.i \notin xact[k].mine
    BY DEF PendingShape
  <2>5. d.sub \in 1 .. Len(xact') /\ d.i \notin mine'
    BY <1>1, <1>2, <2>1, <2>2, <2>4
  <2>6. d.i \in xact'[1].mine \cup made'
    BY <1>1, <1>2, <1>3, <2>1, <2>4
  <2>7. ASSUME NEW k \in 1 .. Len(xact'), d.sub < k PROVE d.i \notin xact'[k].mine
    <3>1. k \in 1 .. Len(xact) - 1 /\ k \in 1 .. Len(xact) /\ e.sub < k
      BY <1>2, <2>3, <2>7
    <3>2. e.i \notin xact[k].mine
      BY <2>4, <3>1
    <3> QED
      BY <1>1, <1>2, <2>1, <3>1, <3>2
  <2> QED
    BY <2>5, <2>6, <2>7
<1>10. DropShape'
  <2>1. \A i : Recorded(i, Len(xact) + 1) => Recorded(i, Len(xact) + 1)'
    <3> SUFFICES ASSUME NEW e \in pending PROVE \E d \in pending' : d.i = e.i /\ d.sub < Len(xact') + 1
      BY <1>1 DEF Recorded
    <3>1. PICK d \in pending' : e.i = d.i /\ d.sub = IF e.sub = Len(xact) THEN Len(xact) - 1 ELSE e.sub
      BY <1>6
    <3>2. d.sub < Len(xact') + 1
      BY <1>2, <1>4, <3>1
    <3> QED
      BY <3>1, <3>2
  <2>2. ASSUME NEW k \in 1 .. Len(xact) - 1, NEW i, Recorded(i, k) PROVE Recorded(i, k)'
    BY <1>1, <1>2, <1>4, <1>6, <2>2 DEF Recorded
  <2> QED
    BY <1>1, <1>2, <1>3, <2>1, <2>2 DEF DropShape
<1>11. BirthShape'
  BY <1>1 DEF BirthShape
<1>12. DaemonType' /\ WarmupType' /\ WorkType' /\ CompShape' /\ GcShape' /\ LateShape' /\ JobShape' /\ FileShape'
  BY <1>1, SessionFrame
<1>13. GoneShape'
  BY <1>1, GoneKept DEF Attended
<1> QED
  BY <1>7, <1>8, <1>9, <1>10, <1>11, <1>12, <1>13

\* A subtransaction aborts: the drops it made are forgotten and the indexes are
\* seen again; the indexes it made are marred.
LEMMA SubAbortIInv == ASSUME IInv, SubAbort PROVE IInv'
<1> USE DEF IInv, Types
<1>1. /\ Len(xact) > 1 /\ xact' = Front(xact) /\ mine' = Last(xact).mine
      /\ pending' = {d \in pending : d.sub # Len(xact)}
      /\ marred' = marred \cup (made \ Last(xact).made)
      /\ UNCHANGED <<kind, catalog, notify, prepared, invalid, fresh, made>>
      /\ UNCHANGED <<building, dropping, daemon, files, resident, cold, queue, worker, gc, comp, taken>>
  BY DEF SubAbort, TxVars, DaemonVars, Others, Meets
<1>2. /\ xact' \in Seq(Frame) /\ Len(xact') = Len(xact) - 1 /\ Len(xact) \in Nat \ {0, 1}
      /\ \A k \in 1 .. Len(xact) - 1 : xact'[k] = xact[k]
      /\ Last(xact) = xact[Len(xact)] /\ Last(xact) \in Frame
  <2>1. xact \in Seq(Frame) /\ xact # <<>> /\ Len(xact) \in Nat
    BY <1>1 DEF PgType
  <2> QED
    BY <1>1, <2>1, FrontFacts
<1>3. xact # <<>> /\ xact' # <<>> /\ xact'[1] = xact[1] /\ Len(xact) \in 1 .. Len(xact)
  BY <1>2
<1>4. PgType'
  BY <1>1, <1>2 DEF PgType, Frame
<1>5. SessionShape' /\ StackShape'
  BY <1>1, <1>2, <1>3 DEF SessionShape, StackShape
<1>6. PendingShape'
  <2>1. \A d \in pending' : d.sub \in 1 .. Len(xact) - 1 /\ d \in pending /\ d.sub < Len(xact)
    BY <1>1, <1>2 DEF PendingShape
  <2> QED
    BY <1>1, <1>2, <1>3, <2>1 DEF PendingShape
<1>7. DropShape'
  <2>1. ASSUME NEW k \in 1 .. Len(xact), NEW i, Recorded(i, k) PROVE Recorded(i, k)'
    BY <1>1, <1>2, <2>1 DEF Recorded
  <2>4. \A i : Recorded(i, Len(xact)) => Recorded(i, Len(xact) + 1)'
    BY <1>1, <1>2 DEF Recorded
  <2>2. \A i \in made \ Last(xact).made : Recorded(i, Len(xact) + 1)'
    BY <1>1 DEF Recorded
  <2>3. \A i \in (xact[1].mine \cup made) \ mine' : Recorded(i, Len(xact) + 1)'
    BY <1>1, <1>2, <1>3, <2>2, <2>4 DEF DropShape
  <2> QED
    BY <1>1, <1>2, <1>3, <2>1, <2>3 DEF DropShape
<1>8. BirthShape'
  BY <1>1 DEF BirthShape
<1>9. DaemonType' /\ WarmupType' /\ WorkType' /\ CompShape' /\ GcShape' /\ LateShape' /\ JobShape' /\ FileShape'
  BY <1>1, SessionFrame
<1>10. GoneShape'
  BY <1>1, GoneKept DEF Attended
<1> QED
  BY <1>4, <1>5, <1>6, <1>7, <1>8, <1>9, <1>10

\* cuvs_object_access records a drop in the current subtransaction.
LEMMA DropIndexIInv == ASSUME IInv, NEW i \in Indexes, DropIndex(i) PROVE IInv'
<1> USE DEF IInv, Types
<1>1. /\ xact # <<>> /\ i \in mine /\ mine' = mine \ {i}
      /\ pending' = IF kind[i] = "ivfpq" THEN pending ELSE pending \cup {[i |-> i, sub |-> Len(xact)]}
      /\ UNCHANGED <<kind, catalog, notify, prepared, invalid, fresh, xact, made, marred>>
      /\ UNCHANGED <<building, dropping, daemon, files, resident, cold, queue, worker, gc, comp, taken>>
  BY DEF DropIndex, TxVars, DaemonVars, Others
<1>2. Len(xact) \in Nat \ {0} /\ Len(xact) \in 1 .. Len(xact)
  BY <1>1 DEF PgType
<1>3. \A d \in pending' : d \in pending \/ d = [i |-> i, sub |-> Len(xact)]
  BY <1>1
<1>4. pending \subseteq pending' /\ (kind[i] # "ivfpq" => [i |-> i, sub |-> Len(xact)] \in pending')
  BY <1>1
<1>5. PgType'
  BY <1>1, <1>2 DEF PgType
<1>6. SessionShape' /\ StackShape'
  BY <1>1 DEF SessionShape, StackShape
<1>7. PendingShape'
  <2>1. i \in xact[1].mine \cup made
    BY <1>1 DEF StackShape
  <2> QED
    BY <1>1, <1>2, <1>3, <2>1 DEF PendingShape
<1>8. DropShape'
  <2>1. \A j, k : Recorded(j, k) => Recorded(j, k)'
    BY <1>1, <1>4 DEF Recorded
  <2>2. Recorded(i, Len(xact) + 1)'
    BY <1>1, <1>2, <1>4 DEF Recorded
  <2>3. \A j : Recorded(j, Len(xact) + 1) => Recorded(j, Len(xact) + 1)'
    BY <1>1, <1>4 DEF Recorded
  <2> QED
    BY <1>1, <2>1, <2>2, <2>3 DEF DropShape
<1>9. BirthShape'
  BY <1>1 DEF BirthShape
<1>10. DaemonType' /\ WarmupType' /\ WorkType' /\ CompShape' /\ GcShape' /\ LateShape' /\ JobShape' /\ FileShape'
  BY <1>1, SessionFrame
<1>11. GoneShape'
  BY <1>1, GoneKept DEF Attended
<1> QED
  BY <1>5, <1>6, <1>7, <1>8, <1>9, <1>10, <1>11

\* At the end of a transaction the session's lists are empty.
LEMMA EndedFacts ==
  ASSUME Ended
  PROVE  /\ xact' = <<>> /\ mine' = {} /\ made' = {} /\ pending' = {} /\ Len(xact') = 0
         /\ StackShape' /\ PendingShape' /\ DropShape'
  BY DEF Ended, StackShape, PendingShape, DropShape

\* The transaction aborts: nothing is sent, what it built is marred.
LEMMA AbortIInv == ASSUME IInv, Abort PROVE IInv'
<1> USE DEF IInv, Types
<1>1. /\ Len(xact) = 1 /\ marred' = marred \cup made /\ Ended
      /\ UNCHANGED <<kind, catalog, notify, prepared, invalid, fresh>>
      /\ UNCHANGED <<building, dropping, daemon, files, resident, cold, queue, worker, gc, comp, taken>>
  BY DEF Abort, TxVars, DaemonVars, Others, Meets
<1>2. xact' = <<>> /\ mine' = {} /\ made' = {} /\ pending' = {} /\ StackShape' /\ PendingShape' /\ DropShape'
  BY <1>1, EndedFacts
<1>3. PgType' /\ SessionShape'
  BY <1>1, <1>2 DEF PgType, SessionShape
<1>4. BirthShape'
  BY <1>1, <1>2 DEF BirthShape
<1>5. DaemonType' /\ WarmupType' /\ WorkType' /\ CompShape' /\ GcShape' /\ LateShape' /\ JobShape' /\ FileShape'
  BY <1>1, <1>2, SessionFrame
<1>6. GoneShape'
  BY <1>1, <1>2, GoneKept DEF Attended
<1> QED
  BY <1>2, <1>3, <1>4, <1>5, <1>6

\* What the transaction dropped is in the list that is sent to the daemon.
LEMMA CommitIInv == ASSUME IInv, Commit PROVE IInv'
<1> USE DEF IInv, Types
<1>1. /\ Len(xact) = 1 /\ Ended
      /\ catalog' = (catalog \ (xact[1].mine \ mine)) \cup (mine \ xact[1].mine)
      /\ notify' = SetToSeq({d.i : d \in pending})
      /\ UNCHANGED <<kind, prepared, invalid, fresh, marred>>
      /\ UNCHANGED <<building, dropping, daemon, files, resident, cold, queue, worker, gc, comp, taken>>
  BY DEF Commit, DaemonVars, Others
<1>2. xact' = <<>> /\ mine' = {} /\ made' = {} /\ pending' = {} /\ StackShape' /\ PendingShape' /\ DropShape'
  BY <1>1, EndedFacts
<1>3. xact # <<>> /\ notify = <<>> /\ ~prepared.on /\ prepared.adds = {}
  BY <1>1 DEF SessionShape, PgType
<1>4. {d.i : d \in pending} \in SUBSET Indexes
  BY DEF PgType
<1>5. notify' \in Seq({d.i : d \in pending}) /\ ToSet(notify') = {d.i : d \in pending}
  BY <1>1, <1>4, SetToSeqFacts
<1>6. notify' \in Seq(Indexes)
  BY <1>4, <1>5
<1>7. mine \ xact[1].mine \subseteq made /\ made \cap xact[1].mine = {}
  BY <1>3 DEF StackShape
<1>8. PgType' /\ SessionShape'
  BY <1>1, <1>2, <1>3, <1>6 DEF PgType, SessionShape
<1>9. BirthShape'
  <2>1. \A d \in pending : d.i \notin catalog' /\ d.i \notin fresh
    BY <1>1, <1>3, <1>7 DEF PendingShape, BirthShape, StackShape
  <2>2. ToSet(notify)' \cap (catalog' \cup fresh') = {}
    BY <1>1, <1>5, <2>1
  <2>3. /\ fresh' \cap (catalog' \cup made' \cup prepared'.adds \cup building') = {}
        /\ catalog' \cap (made' \cup prepared'.adds) = {} /\ catalog' \cap building' \subseteq invalid'
        /\ building' \cap (made' \cup prepared'.adds) = {} /\ building' \subseteq marred'
    BY <1>1, <1>2, <1>3, <1>7 DEF BirthShape
  <2> QED
    BY <2>2, <2>3 DEF BirthShape
<1>10. DaemonType' /\ WarmupType' /\ WorkType' /\ CompShape' /\ GcShape' /\ LateShape' /\ JobShape' /\ FileShape'
  BY <1>1, <1>2, <1>7, SessionFrame
<1>11. GoneShape'
  <2>1. \A i \in (xact[1].mine \cup made) \ mine : i \in marred \/ kind[i] = "ivfpq" \/ i \in ToSet(notify)'
    BY <1>3, <1>5 DEF DropShape, Recorded
  <2>2. ToSet(notify) = {}
    BY <1>3 DEF ToSet
  <2>3. \A i \in Indexes : Attended(i) => Attended(i)'
    BY <1>1, <1>2, <1>3, <1>7, <2>1, <2>2 DEF Attended
  <2> QED
    BY <1>1, <2>3, GoneKept
<1> QED
  BY <1>2, <1>8, <1>9, <1>10, <1>11

\* PREPARE TRANSACTION discards the list, so that its drops are marred.
LEMMA PrepareIInv == ASSUME IInv, Prepare PROVE IInv'
<1> USE DEF IInv, Types
<1>1. /\ Len(xact) = 1 /\ Ended
      /\ prepared' = [on |-> TRUE, adds |-> mine \ xact[1].mine, drops |-> xact[1].mine \ mine]
      /\ marred' = marred \cup ((xact[1].mine \cup made) \ mine)
      /\ UNCHANGED <<kind, catalog, notify, fresh, invalid>>
      /\ UNCHANGED <<building, dropping, daemon, files, resident, cold, queue, worker, gc, comp, taken>>
  BY DEF Prepare, DaemonVars, Others, Meets
<1>2. xact' = <<>> /\ mine' = {} /\ made' = {} /\ pending' = {} /\ StackShape' /\ PendingShape' /\ DropShape'
  BY <1>1, EndedFacts
<1>3. xact # <<>> /\ notify = <<>> /\ ~prepared.on /\ prepared.adds = {}
  BY <1>1 DEF SessionShape, PgType
<1>4. mine \ xact[1].mine \subseteq made /\ made \cap xact[1].mine = {} /\ xact[1].mine \subseteq Indexes
  <2>1. xact[1] \in Frame
    BY <1>1 DEF PgType
  <2> QED
    BY <1>3, <2>1 DEF StackShape, Frame
<1>5. PgType' /\ SessionShape'
  BY <1>1, <1>2, <1>3, <1>4 DEF PgType, SessionShape
<1>6. BirthShape'
  BY <1>1, <1>2, <1>3, <1>4 DEF BirthShape
<1>7. DaemonType' /\ WarmupType' /\ WorkType' /\ CompShape' /\ GcShape' /\ LateShape' /\ JobShape' /\ FileShape'
  BY <1>1, <1>2, <1>4, SessionFrame
<1>8. GoneShape'
  BY <1>1, <1>2, <1>3, <1>4, GoneKept DEF Attended
<1> QED
  BY <1>2, <1>5, <1>6, <1>7, <1>8

\* Ending a prepared transaction.
LEMMA PreparedEnds ==
  ASSUME IInv, prepared.on, prepared' = NoPrepared, marred \subseteq marred',
         UNCHANGED <<kind, fresh, xact, mine, made, pending, notify, invalid>>,
         UNCHANGED <<building, dropping, daemon, files, resident, cold, queue, worker, gc, comp, taken>>,
         \/ catalog' = (catalog \ prepared.drops) \cup prepared.adds
         \/ catalog' = catalog /\ prepared.adds \subseteq marred'
  PROVE  IInv'
<1> USE DEF IInv, Types
<1>1. /\ xact = <<>> /\ notify = <<>> /\ mine = {} /\ made = {} /\ pending = {}
      /\ prepared.drops \subseteq marred
  BY DEF SessionShape
<1>2. prepared'.adds = {} /\ prepared'.drops = {} /\ ~prepared'.on /\ prepared' \in [on : BOOLEAN, adds : SUBSET Indexes, drops : SUBSET Indexes]
  BY DEF NoPrepared
<1>3. PgType'
  BY <1>1, <1>2 DEF PgType
<1>4. SessionShape' /\ StackShape' /\ PendingShape' /\ DropShape'
  BY <1>1, <1>2 DEF SessionShape, StackShape, PendingShape, DropShape
<1>5. ToSet(notify) = {}
  BY <1>1 DEF ToSet
<1>6. BirthShape'
  BY <1>1, <1>2, <1>5 DEF BirthShape
<1>7. DaemonType' /\ WarmupType' /\ WorkType' /\ CompShape' /\ GcShape' /\ LateShape' /\ JobShape' /\ FileShape'
  BY <1>1, <1>2, SessionFrame
<1>8. GoneShape'
  BY <1>1, <1>2, <1>5, GoneKept DEF Attended
<1> QED
  BY <1>3, <1>4, <1>6, <1>7, <1>8

\* COMMIT PREPARED tells the daemon nothing.
LEMMA CommitPreparedIInv == ASSUME IInv, CommitPrepared PROVE IInv'
  BY PreparedEnds DEF CommitPrepared, DaemonVars, Others

\* ROLLBACK PREPARED leaves the files of what was created.
LEMMA RollbackPreparedIInv == ASSUME IInv, RollbackPrepared PROVE IInv'
  BY PreparedEnds DEF RollbackPrepared, DaemonVars, Others, Meets
-----------------------------------------------------------------------------
(* The daemon's side of a DROP.                                            *)

\* handle_drop takes everything of the index but its warm-up jobs and all but
\* the first of its cold entries.
LEMMA HandleDropFacts ==
  ASSUME IInv, NEW i \in Indexes, HandleDrop(i)
  PROVE  /\ files' \in [Indexes -> SUBSET {"graph", "rfn"}] /\ cold' \in [Indexes -> Seq(ColdStates)]
         /\ resident' = resident \ {i} /\ UNCHANGED <<queue, worker>>
         /\ \A j \in Indexes : files'[j] = IF j = i THEN {} ELSE files[j]
         /\ \A j \in Indexes : j # i => cold'[j] = cold[j]
         /\ \A j \in Indexes : Len(cold[j]) <= 1 => Len(cold'[j]) <= 1
         /\ Len(cold[i]) <= 1 => cold'[i] = <<>>
<1>1. files \in [Indexes -> SUBSET {"graph", "rfn"}] /\ cold \in [Indexes -> Seq(ColdStates)]
  BY DEF IInv, Types, DaemonType
<1>2. PICK s \in Seq(ColdStates) : /\ cold' = [cold EXCEPT ![i] = s]
                                   /\ s = IF cold[i] = <<>> THEN cold[i] ELSE Tail(cold[i])
  <2>1. cold[i] \in Seq(ColdStates) /\ (cold[i] # <<>> => Tail(cold[i]) \in Seq(ColdStates))
    BY <1>1
  <2> QED
    BY <1>1, <2>1 DEF HandleDrop
<1>3. (Len(cold[i]) <= 1 => Len(s) <= 1 /\ s = <<>>)
  <2>1. cold[i] \in Seq(ColdStates)
    BY <1>1
  <2> QED
    BY <1>2, <2>1, TakeFirst
<1>4. cold' \in [Indexes -> Seq(ColdStates)] /\ \A j \in Indexes : cold'[j] = IF j = i THEN s ELSE cold[j]
  BY <1>1, <1>2
<1>5. files' \in [Indexes -> SUBSET {"graph", "rfn"}] /\ \A j \in Indexes : files'[j] = IF j = i THEN {} ELSE files[j]
  BY <1>1 DEF HandleDrop
<1> QED
  BY <1>3, <1>4, <1>5 DEF HandleDrop

\* A drop of an index that is neither live nor about to be, or that gc takes.
LEMMA DropStep ==
  ASSUME IInv, NEW i \in Indexes, HandleDrop(i), UNCHANGED <<kind, catalog, fresh, made, prepared, invalid, building, daemon>>,
         marred \subseteq marred', taken \subseteq taken', dropping' \subseteq dropping,
         i \in catalog \cup made \cup prepared.adds => i \in taken'
  PROVE  /\ DaemonType' /\ WarmupType' /\ JobShape' /\ FileShape'
         /\ \A j \in Indexes : Gone(j) => Gone(j)'
         /\ i \notin marred /\ i \notin Jobs => Gone(i)'
<1> USE DEF IInv, Types
<1>1. /\ files' \in [Indexes -> SUBSET {"graph", "rfn"}] /\ cold' \in [Indexes -> Seq(ColdStates)]
      /\ resident' = resident \ {i} /\ UNCHANGED <<queue, worker>>
      /\ \A j \in Indexes : files'[j] = IF j = i THEN {} ELSE files[j]
      /\ \A j \in Indexes : j # i => cold'[j] = cold[j]
      /\ \A j \in Indexes : Len(cold[j]) <= 1 => Len(cold'[j]) <= 1
      /\ Len(cold[i]) <= 1 => cold'[i] = <<>>
  BY HandleDropFacts
<1>2. DaemonType' /\ WarmupType'
  BY <1>1 DEF DaemonType, WarmupType
<1>3. JobShape'
  BY <1>1 DEF JobShape
<1>4. FileShape'
  <2>1. \A j \in (catalog' \cup made' \cup prepared'.adds) \ (taken' \cup invalid') : Whole(j)'
    BY <1>1 DEF FileShape, Whole, PgType
  <2>2. (\A j \in fresh' : files'[j] = {}) /\ (\A j \in resident' \ taken' : "graph" \in files'[j])
    BY <1>1 DEF FileShape, PgType, DaemonType
  <2> QED
    BY <2>1, <2>2 DEF FileShape
<1>5. Jobs' = Jobs
  BY <1>1 DEF Jobs
<1>6. \A j \in Indexes : Gone(j) => Gone(j)'
  BY <1>1, <1>5 DEF Gone
<1>7. i \notin marred /\ i \notin Jobs => Gone(i)'
  BY <1>1, <1>5 DEF Gone, JobShape
<1> QED
  BY <1>2, <1>3, <1>4, <1>6, <1>7

\* What becomes of a DROP that is sent: it is handled, late or lost.
LEMMA TellDaemonFacts ==
  ASSUME NEW i, TellDaemon(i)
  PROVE  \/ HandleDrop(i) /\ marred' = marred \cup ({i} \cap Jobs) /\ dropping' = dropping
         \/ /\ \/ marred' = marred \cup {i} /\ dropping' = dropping
               \/ marred' = marred /\ dropping' = dropping \cup {i}
            /\ UNCHANGED <<files, resident, cold, queue, worker>>
  BY DEF TellDaemon, Meets, Revived, coldvars

\* XACT_EVENT_COMMIT sends one drop.
LEMMA NotifyIInv == ASSUME IInv, Notify PROVE IInv'
<1> USE DEF IInv, Types
<1>1. notify # <<>> /\ notify' = Tail(notify)
  BY DEF Notify
<1>2. PICK i \in Indexes : /\ i = Head(notify) /\ notify' \in Seq(Indexes)
                          /\ ToSet(notify) = {i} \cup ToSet(notify)'
  BY <1>1, TailFacts DEF PgType
<1>3. /\ notify # <<>> /\ notify' = Tail(notify)
      /\ UNCHANGED <<kind, catalog, fresh, xact, mine, made, pending, prepared, invalid, building, daemon, gc, comp, taken>>
      /\ TellDaemon(i) /\ marred \subseteq marred' /\ dropping \subseteq dropping' /\ dropping' \subseteq dropping \cup {i}
  BY <1>2, TellDaemonFacts DEF Notify, Others
<1>4. i \notin catalog \cup fresh \cup made \cup prepared.adds /\ xact = <<>> /\ ~prepared.on
  BY <1>3, <1>2 DEF BirthShape, SessionShape, PgType
<1>5. PgType' /\ SessionShape' /\ StackShape' /\ PendingShape'
  BY <1>3, <1>2, <1>4 DEF PgType, SessionShape, StackShape, PendingShape
<1>6. DropShape'
  BY <1>3 DEF DropShape, Recorded
<1>7. BirthShape'
  BY <1>3, <1>2 DEF BirthShape
<1>8. WorkType' /\ CompShape' /\ GcShape' /\ LateShape'
  BY <1>3, <1>4 DEF WorkType, CompShape, GcShape, LateShape
<1>9. \A j \in Indexes : Attended(j) => Attended(j)' \/ j = i
  BY <1>3, <1>2 DEF Attended
<1>10. CASE HandleDrop(i) /\ marred' = marred \cup ({i} \cap Jobs) /\ dropping' = dropping
  <2>1. /\ DaemonType' /\ WarmupType' /\ JobShape' /\ FileShape'
        /\ \A j \in Indexes : Gone(j) => Gone(j)'
        /\ i \notin marred /\ i \notin Jobs => Gone(i)'
    BY <1>3, <1>2, <1>4, <1>10, DropStep
  <2>2. i \in marred \cup Jobs => Attended(i)'
    BY <1>10 DEF Attended
  <2>3. GoneShape'
    BY <1>9, <2>1, <2>2 DEF GoneShape
  <2> QED
    BY <1>5, <1>6, <1>7, <1>8, <2>1, <2>3
<1>11. CASE i \in marred' \cup dropping' /\ UNCHANGED <<files, resident, cold, queue, worker>>
  <2>1. DaemonType' /\ WarmupType' /\ JobShape' /\ FileShape'
    BY <1>3, <1>11 DEF DaemonType, WarmupType, JobShape, FileShape, Whole
  <2>2. Attended(i)'
    BY <1>11 DEF Attended
  <2>3. GoneShape'
    BY <1>9, <1>11, <2>2, GoneKept
  <2> QED
    BY <1>5, <1>6, <1>7, <1>8, <2>1, <2>3
<1> QED
  BY <1>3, <1>10, <1>11, TellDaemonFacts

\* A build that the backend waits for.
LEMMA BuiltFacts ==
  ASSUME IInv, NEW i \in Indexes, Built(i)
  PROVE  /\ files' \in [Indexes -> SUBSET {"graph", "rfn"}] /\ resident' = resident \cup {i}
         /\ \A j \in Indexes : j # i => files'[j] = files[j]
         /\ "graph" \in files'[i] /\ (kind[i] # "ivfpq" => "rfn" \in files'[i])
  BY DEF Built, IInv, Types, DaemonType

\* CREATE INDEX builds at once, in a transaction that may still roll back.
LEMMA CreateIndexIInv == ASSUME IInv, NEW i \in Indexes, CreateIndex(i) PROVE IInv'
<1> USE DEF IInv, Types
<1>1. /\ xact # <<>> /\ i \in fresh /\ daemon = "up" /\ fresh' = fresh \ {i} /\ mine' = mine \cup {i}
      /\ made' = made \cup {i} /\ Built(i)
      /\ UNCHANGED <<kind, catalog, notify, prepared, invalid, xact, pending, building, dropping, daemon, cold, queue, worker>>
      /\ UNCHANGED <<gc, comp, marred, taken>>
  BY DEF CreateIndex, TxVars, coldvars, Others
<1>2. /\ files' \in [Indexes -> SUBSET {"graph", "rfn"}] /\ resident' = resident \cup {i}
      /\ \A j \in Indexes : j # i => files'[j] = files[j]
      /\ "graph" \in files'[i] /\ (kind[i] # "ivfpq" => "rfn" \in files'[i])
  BY <1>1, BuiltFacts
<1>3. PgType' /\ DaemonType' /\ WarmupType' /\ WorkType'
  BY <1>1, <1>2 DEF PgType, DaemonType, WarmupType, WorkType
<1>4. ~prepared.on /\ prepared.adds = {} /\ notify = <<>>
  BY <1>1 DEF SessionShape, PgType
<1>5. SessionShape'
  BY <1>1, <1>4 DEF SessionShape
<1>6. 1 \in 1 .. Len(xact)
  BY <1>1 DEF PgType
<1>7. i \notin xact[1].mine /\ \A k \in 1 .. Len(xact) : i \notin xact[k].mine /\ i \notin xact[k].made
  BY <1>1, <1>6 DEF StackShape, BirthShape
<1>8. StackShape'
  BY <1>1, <1>7 DEF StackShape
<1>9. PendingShape'
  BY <1>1, <1>7 DEF PendingShape, BirthShape
<1>10. DropShape'
  BY <1>1, <1>7 DEF DropShape, Recorded
<1>11. BirthShape'
  BY <1>1 DEF BirthShape
<1>12. CompShape' /\ GcShape' /\ LateShape' /\ JobShape'
  BY <1>1 DEF CompShape, GcShape, LateShape, JobShape
<1>13. FileShape'
  <2>1. \A j \in (catalog' \cup made' \cup prepared'.adds) \ (taken' \cup invalid') : Whole(j)'
    BY <1>1, <1>2 DEF FileShape, Whole, PgType
  <2>2. (\A j \in fresh' : files'[j] = {}) /\ (\A j \in resident' \ taken' : "graph" \in files'[j])
    BY <1>1, <1>2 DEF FileShape, PgType, DaemonType
  <2> QED
    BY <2>1, <2>2 DEF FileShape
<1>14. GoneShape'
  <2>1. \A j \in Indexes : Attended(j) => Attended(j)'
    BY <1>1 DEF Attended
  <2>2. \A j \in Indexes : j # i /\ Gone(j) => Gone(j)'
    BY <1>1, <1>2 DEF Gone, Jobs
  <2>3. Attended(i)'
    BY <1>1 DEF Attended
  <2> QED
    BY <2>1, <2>2, <2>3 DEF GoneShape
<1> QED
  BY <1>3, <1>5, <1>8, <1>9, <1>10, <1>11, <1>12, <1>13, <1>14

\* The backend gives up and its transaction is rolled back.
LEMMA CreateGivesUpIInv == ASSUME IInv, NEW i \in Indexes, CreateGivesUp(i) PROVE IInv'
<1> USE DEF IInv, Types
<1>1. /\ Len(xact) = 1 /\ i \in fresh /\ fresh' = fresh \ {i} /\ building' = building \cup {i}
      /\ Ended /\ marred' = marred \cup made \cup {i}
      /\ UNCHANGED <<kind, catalog, notify, prepared, invalid, dropping, daemon, files, resident, cold, queue, worker>>
      /\ UNCHANGED <<gc, comp, taken>>
  BY DEF CreateGivesUp, TxVars, coldvars, Others, Meets, Ended
<1>2. xact' = <<>> /\ mine' = {} /\ made' = {} /\ pending' = {} /\ StackShape' /\ PendingShape' /\ DropShape'
  BY <1>1, EndedFacts
<1>3. PgType' /\ DaemonType' /\ WarmupType' /\ WorkType'
  BY <1>1, <1>2 DEF PgType, DaemonType, WarmupType, WorkType
<1>4. SessionShape'
  BY <1>1, <1>2 DEF SessionShape
<1>5. BirthShape'
  BY <1>1, <1>2 DEF BirthShape
<1>6. CompShape' /\ GcShape' /\ LateShape' /\ JobShape'
  BY <1>1, <1>2 DEF CompShape, GcShape, LateShape, JobShape
<1>7. FileShape'
  BY <1>1, <1>2 DEF FileShape, Whole
<1>8. GoneShape'
  BY <1>1, <1>2, GoneKept DEF Attended
<1> QED
  BY <1>2, <1>3, <1>4, <1>5, <1>6, <1>7, <1>8
-----------------------------------------------------------------------------
(* The daemon and its warm-up threads.                                     *)

\* What is left to show of a step of the daemon.
LEMMA DaemonStep ==
  ASSUME IInv, UNCHANGED pgvars, UNCHANGED <<gc, comp>>, marred \subseteq marred', taken' = taken,
         building' \subseteq building, DaemonType', WarmupType', JobShape', FileShape',
         dropping' \subseteq dropping, \A i \in dropping \ dropping' : i \in marred' \/ Gone(i)',
         \A i \in Indexes : ~Attended(i) /\ Gone(i) => Gone(i)'
  PROVE  IInv'
<1>1. /\ PgType' /\ SessionShape' /\ StackShape' /\ PendingShape' /\ DropShape' /\ BirthShape'
      /\ CompShape' /\ GcShape' /\ LateShape'
  BY PgFrame
<1>2. WorkType'
  BY DEF IInv, Types, WorkType
<1>3. GoneShape'
  BY AttendedKept DEF IInv, GoneShape
<1> QED
  BY <1>1, <1>2, <1>3 DEF IInv, Types

\* The daemon finishes a build that nobody waits for.
LEMMA LateBuildIInv == ASSUME IInv, NEW i \in Indexes, LateBuild(i) PROVE IInv'
<1> USE DEF IInv, Types
<1>1. /\ i \in building /\ daemon = "up" /\ building' = building \ {i} /\ resident' = resident \cup {i}
      /\ UNCHANGED pgvars /\ UNCHANGED <<dropping, daemon, cold, queue, worker, gc, comp, marred, taken>>
  BY DEF LateBuild, coldvars, Others
<1>2. UNCHANGED <<kind, catalog, fresh, made, prepared, invalid>>
  BY <1>1 DEF pgvars
<1>3. /\ files' \in [Indexes -> SUBSET {"graph", "rfn"}]
      /\ \A j \in Indexes : files'[j] = IF j = i THEN {"graph"} ELSE files[j]
  BY DEF LateBuild, DaemonType
<1>4. i \notin made \cup prepared.adds \cup fresh /\ (i \in catalog => i \in invalid) /\ i \in marred
  BY <1>1 DEF BirthShape
<1>5. DaemonType' /\ WarmupType' /\ JobShape'
  BY <1>1, <1>2, <1>3 DEF DaemonType, WarmupType, JobShape
<1>6. FileShape'
  <2>1. \A j \in (catalog' \cup made' \cup prepared'.adds) \ (taken' \cup invalid') : Whole(j)'
    BY <1>1, <1>2, <1>3, <1>4 DEF FileShape, Whole, PgType
  <2>2. ASSUME NEW j \in fresh' PROVE files'[j] = {}
    <3>1. j \in Indexes /\ j # i /\ files[j] = {}
      BY <1>2, <1>4, <2>2 DEF FileShape, PgType
    <3> QED
      BY <1>3, <3>1
  <2>3. ASSUME NEW j \in resident' \ taken' PROVE "graph" \in files'[j]
    <3>1. j \in Indexes /\ (j # i => "graph" \in files[j])
      BY <1>1, <2>3 DEF FileShape, DaemonType
    <3> QED
      BY <1>3, <3>1
  <2> QED
    BY <2>1, <2>2, <2>3 DEF FileShape
<1>7. \A j \in Indexes : ~Attended(j) /\ Gone(j) => Gone(j)'
  BY <1>1, <1>3, <1>4 DEF Attended, Gone, Jobs
<1> QED
  BY <1>1, <1>5, <1>6, <1>7, DaemonStep

\* The daemon comes to a DROP that nobody waits for.
LEMMA LateDropIInv == ASSUME IInv, NEW i \in Indexes, LateDrop(i) PROVE IInv'
<1> USE DEF IInv, Types
<1>1. /\ i \in dropping /\ dropping' = dropping \ {i} /\ HandleDrop(i) /\ marred' = marred \cup ({i} \cap Jobs)
      /\ UNCHANGED pgvars /\ UNCHANGED <<building, daemon, gc, comp, taken>>
  BY DEF LateDrop, Others, Meets, Revived
<1>2. UNCHANGED <<kind, catalog, fresh, made, prepared, invalid>>
  BY <1>1 DEF pgvars
<1>3. i \in catalog \cup made \cup prepared.adds => i \in taken'
  BY <1>1 DEF LateShape
<1>4. /\ DaemonType' /\ WarmupType' /\ JobShape' /\ FileShape'
      /\ \A j \in Indexes : Gone(j) => Gone(j)'
      /\ i \notin marred /\ i \notin Jobs => Gone(i)'
  BY <1>1, <1>2, <1>3, DropStep
<1>5. \A j \in dropping \ dropping' : j \in marred' \/ Gone(j)'
  BY <1>1, <1>4
<1> QED
  BY <1>1, <1>4, <1>5, DaemonStep

\* The daemon stops: what it had in memory is gone, the files stay.
LEMMA StopIInv == ASSUME IInv, Stop PROVE IInv'
<1> USE DEF IInv, Types
<1>1. /\ daemon' = "down" /\ resident' = {} /\ building' = {} /\ dropping' = {} /\ cold' = [i \in Indexes |-> <<>>]
      /\ queue' = <<>> /\ worker' = [w \in Workers |-> NoWork]
      /\ marred' = marred \cup dropping
      /\ UNCHANGED pgvars /\ UNCHANGED <<files, gc, comp, taken>>
  BY DEF Stop, PgVars, Others, Meets
<1>2. UNCHANGED <<kind, catalog, fresh, made, prepared, invalid>>
  BY <1>1 DEF pgvars
<1>3. ToSet(queue)' = {}
  BY <1>1 DEF ToSet
<1>4. DaemonType'
  BY <1>1, <1>2 DEF DaemonType
<1>5. WarmupType'
  BY <1>1, BoundAssumption DEF WarmupType, NoWork, IsInjective
<1>6. JobShape'
  BY <1>1, <1>3 DEF JobShape, NoWork
<1>7. FileShape'
  BY <1>1, <1>2 DEF FileShape, Whole
<1>8. \A j \in Indexes : j \notin Jobs'
  BY <1>1, <1>3, IndexesAssumption DEF Jobs, NoWork
<1>9. \A j \in Indexes : ~Attended(j) /\ Gone(j) => Gone(j)'
  BY <1>1, <1>8 DEF Gone
<1> QED
  BY <1>1, <1>4, <1>5, <1>6, <1>7, <1>9, DaemonStep

\* startup_load_indexes: what is loaded has a graph, what is left has a file, so
\* that an index whose files are gone stays gone.
LEMMA StartIInv == ASSUME IInv, Start PROVE IInv'
<1> USE DEF IInv, Types
<1>1. PICK loaded \in SUBSET {i \in Indexes : Startable(i)} :
        LET left == {i \in Indexes : files[i] # {} /\ i \notin loaded} IN
        \E todo \in SetToSeqs(left) :
          /\ resident' = loaded
          /\ cold' = [i \in Indexes |-> IF i \in left THEN [n \in 1 .. NFiles(i) |-> "queued"] ELSE <<>>]
          /\ queue' = QueueAtStart(todo)
          /\ Meets({i \in left : NFiles(i) > 1})
  BY DEF Start
<1> DEFINE left == {i \in Indexes : files[i] # {} /\ i \notin loaded}
<1>2. PICK todo \in SetToSeqs(left) :
          /\ resident' = loaded
          /\ cold' = [i \in Indexes |-> IF i \in left THEN [n \in 1 .. NFiles(i) |-> "queued"] ELSE <<>>]
          /\ queue' = QueueAtStart(todo)
          /\ marred' = marred \cup {i \in left : NFiles(i) > 1}
  BY <1>1 DEF Meets
<1>3. /\ daemon = "down" /\ daemon' = "starting"
      /\ UNCHANGED pgvars /\ UNCHANGED <<building, dropping, files, worker, taken, gc, comp>>
  BY DEF Start, PgVars, Others
<1>4. UNCHANGED <<kind, catalog, fresh, made, prepared, invalid>>
  BY <1>3 DEF pgvars
<1>5. \A i \in left : i \in Indexes /\ files[i] # {}
  OBVIOUS
<1>6. \A i \in loaded : i \in Indexes /\ "graph" \in files[i]
  BY DEF Startable
<1>7. left \in SUBSET Indexes
  OBVIOUS
<1> HIDE DEF left
<1>8. /\ queue' \in Seq(left) /\ Len(queue') <= QMax
      /\ IsInjective(queue') /\ ToSet(queue') \subseteq left
  BY <1>2, <1>7, QueueAtStartFacts
<1>9. /\ cold' \in [Indexes -> Seq(ColdStates)]
      /\ \A i \in Indexes : (i \notin left => cold'[i] = <<>>) /\ (i \notin marred' => Len(cold'[i]) <= 1)
  <2>1. \A i \in Indexes : NFiles(i) \in Nat
    BY DEF NFiles
  <2>2. \A i \in Indexes : [n \in 1 .. NFiles(i) |-> "queued"] \in Seq(ColdStates) /\ Len([n \in 1 .. NFiles(i) |-> "queued"]) = NFiles(i)
    BY <2>1 DEF ColdStates
  <2>3. cold' \in [Indexes -> Seq(ColdStates)]
    BY <1>2, <2>2
  <2>4. \A i \in Indexes : (i \notin left => cold'[i] = <<>>) /\ (i \in left => Len(cold'[i]) = NFiles(i))
    BY <1>2, <2>2
  <2>5. \A i \in Indexes : i \notin marred' => Len(cold'[i]) <= 1
    BY <1>2, <2>1, <2>4
  <2> QED
    BY <2>3, <2>4, <2>5
<1>10. DaemonType'
  BY <1>2, <1>3, <1>4, <1>6, <1>9 DEF DaemonType
<1>11. WarmupType'
  BY <1>3, <1>7, <1>8 DEF WarmupType
<1>12. \A w \in Workers : worker[w].at = "idle" /\ worker[w].i = "none"
  BY <1>3 DEF JobShape
<1>13. \A i \in fresh : i \notin left
  BY <1>5 DEF FileShape
<1>14. JobShape'
  BY <1>3, <1>4, <1>8, <1>9, <1>12, <1>13 DEF JobShape
<1>15. FileShape'
  BY <1>2, <1>3, <1>4, <1>6 DEF FileShape, Whole
<1>16. \A j \in Indexes : ~Attended(j) /\ Gone(j) => Gone(j)'
  <2> SUFFICES ASSUME NEW j \in Indexes, Gone(j) PROVE Gone(j)'
    OBVIOUS
  <2>1. files[j] = {} /\ j \notin left /\ j \notin loaded
    BY <1>5, <1>6 DEF Gone
  <2>2. j \notin Jobs'
    BY <1>3, <1>8, <1>12, <2>1, IndexesAssumption DEF Jobs
  <2> QED
    BY <1>2, <1>3, <1>9, <2>1, <2>2 DEF Gone
<1> QED
  BY <1>2, <1>3, <1>10, <1>11, <1>14, <1>15, <1>16, DaemonStep

\* The daemon begins to listen.
LEMMA ListenIInv == ASSUME IInv, Listen PROVE IInv'
<1> USE DEF IInv, Types
<1>1. /\ daemon = "starting" /\ daemon' = "up"
      /\ UNCHANGED pgvars /\ UNCHANGED <<building, dropping, files, resident, cold, queue, worker, marred, taken, gc, comp>>
  BY DEF Listen, PgVars, Others, coldvars
<1>2. UNCHANGED <<kind, catalog, fresh, made, prepared, invalid>>
  BY <1>1 DEF pgvars
<1>3. DaemonType' /\ WarmupType' /\ JobShape' /\ FileShape'
  BY <1>1, <1>2 DEF DaemonType, WarmupType, JobShape, FileShape, Whole
<1>4. \A j \in Indexes : ~Attended(j) /\ Gone(j) => Gone(j)'
  BY <1>1 DEF Gone, Jobs
<1> QED
  BY <1>1, <1>3, <1>4, DaemonStep

\* A search loads a live index from its files.
LEMMA SearchLoadsIInv == ASSUME IInv, NEW i \in Indexes, SearchLoads(i) PROVE IInv'
<1> USE DEF IInv, Types
<1>1. /\ daemon = "up" /\ i \in catalog /\ "graph" \in files[i] /\ resident' = resident \cup {i}
      /\ UNCHANGED pgvars /\ UNCHANGED <<building, dropping, daemon, files, cold, queue, worker, marred, taken, gc, comp>>
  BY DEF SearchLoads, PgVars, Others, coldvars
<1>2. UNCHANGED <<kind, catalog, fresh, made, prepared, invalid>>
  BY <1>1 DEF pgvars
<1>3. DaemonType' /\ WarmupType' /\ JobShape'
  BY <1>1, <1>2 DEF DaemonType, WarmupType, JobShape
<1>4. FileShape'
  BY <1>1, <1>2 DEF FileShape, Whole
<1>5. \A j \in Indexes : ~Attended(j) /\ Gone(j) => Gone(j)'
  BY <1>1 DEF Gone, Jobs
<1> QED
  BY <1>1, <1>3, <1>4, <1>5, DaemonStep

\* The first cold entry of an index changes its state.
LEMMA SetColdFacts ==
  ASSUME IInv, NEW i \in Indexes, NEW st \in ColdStates
  PROVE  /\ SetCold(i, st) \in [Indexes -> Seq(ColdStates)]
         /\ \A j \in Indexes : /\ Len(SetCold(i, st)[j]) = Len(cold[j])
                               /\ cold[j] = <<>> => SetCold(i, st)[j] = <<>>
<1>1. cold \in [Indexes -> Seq(ColdStates)] /\ cold[i] \in Seq(ColdStates)
  BY DEF IInv, Types, DaemonType
<1>2. cold[i] # <<>> => <<st>> \o Tail(cold[i]) \in Seq(ColdStates) /\ Len(<<st>> \o Tail(cold[i])) = Len(cold[i])
  BY <1>1, TailFacts
<1> QED
  BY <1>1, <1>2 DEF SetCold

\* A search queues a failed warm-up again.
LEMMA SearchMissesIInv == ASSUME IInv, NEW i \in Indexes, SearchMisses(i) PROVE IInv'
<1> USE DEF IInv, Types
<1>1. /\ daemon = "up" /\ i \in catalog /\ cold[i] # <<>>
      /\ cold' = [cold EXCEPT ![i] = <<"queued">> \o Tail(@)]
      /\ UNCHANGED pgvars /\ UNCHANGED <<building, dropping, daemon, files, resident, worker, marred, taken, gc, comp>>
      /\ queue' = queue \/ (queue' = Append(queue, i) /\ i \notin ToSet(queue) /\ ~(Len(queue) >= QMax))
  BY DEF SearchMisses, PgVars, Others
<1>2. UNCHANGED <<kind, catalog, fresh, made, prepared, invalid>>
  BY <1>1 DEF pgvars
<1>3. cold' = SetCold(i, "queued")
  BY <1>1 DEF SetCold
<1>4. /\ cold' \in [Indexes -> Seq(ColdStates)]
      /\ \A j \in Indexes : Len(cold'[j]) = Len(cold[j]) /\ (cold[j] = <<>> => cold'[j] = <<>>)
  BY <1>3, SetColdFacts DEF ColdStates
<1>5. /\ queue' \in Seq(Indexes) /\ Len(queue') <= QMax /\ IsInjective(queue')
      /\ ToSet(queue') \subseteq ToSet(queue) \cup {i}
  <2>1. queue \in Seq(Indexes) /\ Len(queue) \in Nat /\ Len(queue) <= QMax /\ IsInjective(queue) /\ QMax \in Nat
    BY BoundAssumption DEF WarmupType
  <2>2. CASE queue' = Append(queue, i) /\ i \notin ToSet(queue) /\ ~(Len(queue) >= QMax)
    BY <2>1, <2>2, AppendFacts, AppendQueue
  <2> QED
    BY <1>1, <2>1, <2>2
<1>6. DaemonType' /\ WarmupType'
  BY <1>1, <1>2, <1>4, <1>5 DEF DaemonType, WarmupType
<1>7. JobShape'
  BY <1>1, <1>2, <1>4, <1>5 DEF JobShape, BirthShape
<1>8. FileShape'
  BY <1>1, <1>2 DEF FileShape, Whole
<1>9. \A j \in Indexes : ~Attended(j) /\ Gone(j) => Gone(j)'
  BY <1>1, <1>4, <1>5 DEF Attended, Gone, Jobs
<1> QED
  BY <1>1, <1>6, <1>7, <1>8, <1>9, DaemonStep

\* What is left to show of a step of a warm-up thread that touches no file.
LEMMA WarmupStep ==
  ASSUME IInv, UNCHANGED <<WorkVars, files, marred, taken>>, NEW i \in Indexes \ fresh,
         cold' \in [Indexes -> Seq(ColdStates)],
         \A j \in Indexes : (Len(cold[j]) <= 1 => Len(cold'[j]) <= 1) /\ (cold[j] = <<>> => cold'[j] = <<>>),
         queue' \in Seq(Indexes), Len(queue') <= QMax, IsInjective(queue'), ToSet(queue') \subseteq ToSet(queue),
         NEW w \in Workers, worker' \in [Workers -> [at : {"idle", "download", "load"}, i : Indexes \cup {"none"}]],
         \A v \in Workers : v # w => worker'[v] = worker[v],
         worker'[w] = NoWork \/ (worker'[w].at # "idle" /\ worker'[w].i = i), i \in Jobs,
         daemon # "down",
         resident' = resident \/ (resident' = resident \cup {i} /\ "graph" \in files[i])
  PROVE  IInv'
<1> USE DEF IInv, Types
<1>1. UNCHANGED pgvars /\ UNCHANGED <<building, dropping, daemon, gc, comp>> /\ UNCHANGED <<kind, catalog, fresh, made, prepared, invalid>>
  BY DEF WorkVars, PgVars, Others, pgvars
<1>2. DaemonType' /\ WarmupType'
  BY <1>1 DEF DaemonType, WarmupType
<1>3. JobShape'
  BY <1>1 DEF JobShape, NoWork
<1>4. FileShape'
  BY <1>1 DEF FileShape, Whole
<1>5. ASSUME NEW j \in Indexes, j \in Jobs' PROVE j \in Jobs
  <2>1. j \in ToSet(queue') \/ \E v \in Workers : j = worker'[v].i
    BY <1>5 DEF Jobs
  <2>2. ASSUME NEW v \in Workers, j = worker'[v].i PROVE j = i \/ j = worker[v].i
    <3>1. NoWork.i = "none" /\ j # "none"
      BY IndexesAssumption DEF NoWork
    <3>2. CASE v = w
      BY <2>2, <3>1, <3>2
    <3>3. CASE v # w
      BY <2>2, <3>3
    <3> QED
      BY <3>2, <3>3
  <2> QED
    BY <2>1, <2>2 DEF Jobs
<1>6. \A j \in Indexes : ~Attended(j) /\ Gone(j) => Gone(j)'
  BY <1>5 DEF Gone
<1> QED
  BY <1>1, <1>2, <1>3, <1>4, <1>6, DaemonStep

\* A thread takes the head of the queue: the index remains among the jobs.
LEMMA DequeueIInv == ASSUME IInv, NEW w \in Workers, Dequeue(w) PROVE IInv'
<1> USE DEF IInv, Types
<1>1. /\ daemon = "up" /\ queue # <<>> /\ queue' = Tail(queue)
      /\ UNCHANGED <<WorkVars, files, resident, marred, taken>>
  BY DEF Dequeue
<1>2. PICK i \in Indexes : /\ i = Head(queue) /\ queue' \in Seq(Indexes) /\ IsInjective(queue')
                           /\ Len(queue') <= QMax /\ ToSet(queue) = {i} \cup ToSet(queue')
  <2>1. queue \in Seq(Indexes) /\ Len(queue) <= QMax /\ IsInjective(queue) /\ QMax \in Nat
    BY BoundAssumption DEF WarmupType
  <2>2. /\ queue' \in Seq(Indexes) /\ Len(queue') = Len(queue) - 1 /\ Len(queue) \in Nat \ {0} /\ IsInjective(queue')
        /\ ToSet(queue) = {Head(queue)} \cup ToSet(queue') /\ Head(queue) \in Indexes
    BY <1>1, <2>1, TailFacts
  <2> QED
    BY <2>1, <2>2
<1>3. cold' = SetCold(i, "downloading") /\ worker' = [worker EXCEPT ![w] = [at |-> "download", i |-> i]]
  BY <1>2 DEF Dequeue
<1>4. /\ cold' \in [Indexes -> Seq(ColdStates)]
      /\ \A j \in Indexes : Len(cold'[j]) = Len(cold[j]) /\ (cold[j] = <<>> => cold'[j] = <<>>)
  BY <1>3, SetColdFacts DEF ColdStates
<1>5. /\ worker' \in [Workers -> [at : {"idle", "download", "load"}, i : Indexes \cup {"none"}]]
      /\ \A v \in Workers : v # w => worker'[v] = worker[v]
      /\ worker'[w].at = "download" /\ worker'[w].i = i
  BY <1>3 DEF WarmupType
<1>6. i \in Indexes \ fresh /\ i \in Jobs
  BY <1>2 DEF JobShape, Jobs
<1> QED
  BY <1>1, <1>2, <1>4, <1>5, <1>6, WarmupStep

\* A thread that is at work has an index, and the daemon runs.
LEMMA AtWork ==
  ASSUME IInv, NEW w \in Workers, worker[w].at # "idle"
  PROVE  worker[w].i \in Indexes \ fresh /\ worker[w].i \in Jobs /\ daemon # "down"
  BY DEF IInv, JobShape, Jobs

\* The job of a thread ends; the queue stays.
LEMMA JobEnds ==
  ASSUME IInv, NEW w \in Workers, worker[w].at # "idle", worker' = [worker EXCEPT ![w] = NoWork],
         UNCHANGED <<WorkVars, files, queue, marred, taken>>,
         cold' \in [Indexes -> Seq(ColdStates)],
         \A j \in Indexes : (Len(cold[j]) <= 1 => Len(cold'[j]) <= 1) /\ (cold[j] = <<>> => cold'[j] = <<>>),
         resident' = resident \/ (resident' = resident \cup {worker[w].i} /\ "graph" \in files[worker[w].i])
  PROVE  IInv'
<1>1. PICK i \in Indexes \ fresh : i = worker[w].i /\ i \in Jobs /\ daemon # "down"
  BY AtWork
<1>2. worker' \in [Workers -> [at : {"idle", "download", "load"}, i : Indexes \cup {"none"}]]
  BY DEF IInv, Types, WarmupType, NoWork
<1>3. \A v \in Workers : v # w => worker'[v] = worker[v]
  BY DEF IInv, Types, WarmupType
<1>4. worker'[w] = NoWork \/ (worker'[w].at # "idle" /\ worker'[w].i = i)
  BY DEF IInv, Types, WarmupType
<1>5. queue' \in Seq(Indexes) /\ Len(queue') <= QMax /\ IsInjective(queue') /\ ToSet(queue') \subseteq ToSet(queue)
  BY DEF IInv, Types, WarmupType
<1>6. resident' = resident \/ (resident' = resident \cup {i} /\ "graph" \in files[i])
  BY <1>1
<1>7. UNCHANGED <<WorkVars, files, marred, taken>>
  OBVIOUS
<1> QED
  BY <1>1, <1>2, <1>3, <1>4, <1>5, <1>6, <1>7, WarmupStep

\* A job that fails leaves the first cold entry in state FAILED.
LEMMA FailIInv ==
  ASSUME IInv, NEW w \in Workers, DownloadFails(w) \/ LoadFails(w) PROVE IInv'
<1>1. /\ worker[w].at # "idle" /\ cold' = SetCold(worker[w].i, "failed") /\ worker' = [worker EXCEPT ![w] = NoWork]
      /\ UNCHANGED <<WorkVars, files, resident, queue, marred, taken>>
  BY DEF DownloadFails, LoadFails
<1>2. PICK i \in Indexes : i = worker[w].i
  BY <1>1, AtWork
<1>3. /\ cold' \in [Indexes -> Seq(ColdStates)]
      /\ \A j \in Indexes : Len(cold'[j]) = Len(cold[j]) /\ (cold[j] = <<>> => cold'[j] = <<>>)
  BY <1>1, <1>2, SetColdFacts DEF ColdStates
<1> QED
  BY <1>1, <1>3, JobEnds

\* A job that succeeds takes one cold entry and makes the index resident.
LEMMA LoadDownloadedIInv == ASSUME IInv, NEW w \in Workers, LoadDownloaded(w) PROVE IInv'
<1>1. /\ worker[w].at # "idle" /\ "graph" \in files[worker[w].i] /\ resident' = resident \cup {worker[w].i}
      /\ worker' = [worker EXCEPT ![w] = NoWork] /\ UNCHANGED <<WorkVars, files, queue, marred, taken>>
  BY DEF LoadDownloaded
<1>2. PICK i \in Indexes : i = worker[w].i
  BY <1>1, AtWork
<1>3. /\ cold' \in [Indexes -> Seq(ColdStates)]
      /\ \A j \in Indexes : (Len(cold[j]) <= 1 => Len(cold'[j]) <= 1) /\ (cold[j] = <<>> => cold'[j] = <<>>)
  <2>1. cold \in [Indexes -> Seq(ColdStates)] /\ cold[i] \in Seq(ColdStates)
    BY DEF IInv, Types, DaemonType
  <2>2. PICK s : cold' = [cold EXCEPT ![i] = s] /\ s = IF cold[i] = <<>> THEN cold[i] ELSE Tail(cold[i])
    BY <1>2, <2>1 DEF LoadDownloaded
  <2>3. s \in Seq(ColdStates) /\ (Len(cold[i]) <= 1 => Len(s) <= 1) /\ (cold[i] = <<>> => s = <<>>)
    BY <2>1, <2>2, TakeFirst
  <2> QED
    BY <2>1, <2>2, <2>3
<1> QED
  BY <1>1, <1>3, JobEnds

\* The files of a snapshot come back, but only those of an index with a job.
LEMMA DownloadedIInv == ASSUME IInv, NEW w \in Workers, Downloaded(w) PROVE IInv'
<1> USE DEF IInv, Types
<1>1. /\ worker[w].at = "download" /\ UNCHANGED <<WorkVars, resident, cold, queue, marred, taken>>
      /\ files' = [files EXCEPT ![worker[w].i] = @ \cup {"graph"}]
      /\ worker' = [worker EXCEPT ![w].at = "load"]
  BY DEF Downloaded
<1>2. PICK i \in Indexes \ fresh : i = worker[w].i /\ i \in Jobs /\ daemon # "down"
  BY <1>1, AtWork
<1>3. UNCHANGED pgvars /\ UNCHANGED <<building, dropping, daemon, gc, comp>> /\ UNCHANGED <<kind, catalog, fresh, made, prepared, invalid>>
  BY <1>1 DEF WorkVars, PgVars, Others, pgvars
<1>4. /\ files' \in [Indexes -> SUBSET {"graph", "rfn"}]
      /\ \A j \in Indexes : files'[j] = IF j = i THEN files[j] \cup {"graph"} ELSE files[j]
  BY <1>1, <1>2 DEF DaemonType
<1>5. /\ worker' \in [Workers -> [at : {"idle", "download", "load"}, i : Indexes \cup {"none"}]]
      /\ \A v \in Workers : /\ worker'[v].i = worker[v].i
                            /\ worker'[v].at = IF v = w THEN "load" ELSE worker[v].at
  BY <1>1 DEF WarmupType
<1>6. DaemonType' /\ WarmupType'
  BY <1>1, <1>3, <1>4, <1>5 DEF DaemonType, WarmupType
<1>7. JobShape'
  BY <1>1, <1>2, <1>3, <1>5 DEF JobShape
<1>8. FileShape'
  <2>1. \A j \in (catalog' \cup made' \cup prepared'.adds) \ (taken' \cup invalid') : Whole(j)'
    BY <1>1, <1>3, <1>4 DEF FileShape, Whole, PgType
  <2>2. (\A j \in fresh' : files'[j] = {}) /\ (\A j \in resident' \ taken' : "graph" \in files'[j])
    BY <1>1, <1>2, <1>3, <1>4 DEF FileShape, PgType, DaemonType
  <2> QED
    BY <2>1, <2>2 DEF FileShape
<1>9. \A j \in Indexes : j \in Jobs' => j \in Jobs
  BY <1>1, <1>5 DEF Jobs
<1>10. \A j \in Indexes : ~Attended(j) /\ Gone(j) => Gone(j)'
  BY <1>1, <1>2, <1>4, <1>9 DEF Gone
<1> QED
  BY <1>1, <1>3, <1>6, <1>7, <1>8, <1>10, DaemonStep
-----------------------------------------------------------------------------
(* gc and the compaction worker.                                           *)

\* gc lists the indexes that have a graph, none of which is new.
LEMMA GcScanIInv == ASSUME IInv, GcScan PROVE IInv'
<1> USE DEF IInv, Types
<1>1. /\ gc'.at = "act" /\ gc'.i = "none" /\ gc'.todo = {i \in Indexes : kind[i] = "cagra" /\ "graph" \in files[i]}
      /\ gc' \in [at : {"idle", "act", "unlink"}, todo : SUBSET Indexes, i : Indexes \cup {"none"}]
      /\ UNCHANGED pgvars /\ UNCHANGED <<building, dropping, daemon, comp, files, resident, cold, queue, worker, marred, taken>>
  BY DEF GcScan, GcVars, coldvars
<1>2. UNCHANGED <<kind, catalog, fresh, made, prepared, invalid>>
  BY <1>1 DEF pgvars
<1>3. PgType' /\ SessionShape' /\ StackShape' /\ PendingShape' /\ DropShape' /\ BirthShape' /\ CompShape' /\ LateShape'
  BY <1>1, PgFrame
<1>4. DaemonType' /\ WarmupType' /\ WorkType' /\ JobShape' /\ FileShape'
  BY <1>1, <1>2 DEF DaemonType, WarmupType, WorkType, JobShape, FileShape, Whole
<1>5. GcShape'
  BY <1>1, <1>2 DEF GcShape, FileShape
<1>6. GoneShape'
  BY <1>1, AttendedKept, GoneKept
<1> QED
  BY <1>3, <1>4, <1>5, <1>6

\* The steps of gc that touch no file.
LEMMA GcStep ==
  ASSUME IInv, UNCHANGED <<GcVars, files, resident, coldvars, marred>>, taken \subseteq taken',
         dropping \subseteq dropping', dropping' \subseteq Indexes, LateShape',
         gc' \in [at : {"idle", "act", "unlink"}, todo : SUBSET Indexes, i : Indexes \cup {"none"}], GcShape'
  PROVE  IInv'
<1> USE DEF IInv, Types
<1>1. UNCHANGED pgvars /\ UNCHANGED <<building, daemon, comp, files, resident, cold, queue, worker, marred>>
  BY DEF GcVars, coldvars
<1>2. UNCHANGED <<kind, catalog, fresh, made, prepared, invalid>>
  BY <1>1 DEF pgvars
<1>3. PgType' /\ SessionShape' /\ StackShape' /\ PendingShape' /\ DropShape' /\ BirthShape' /\ CompShape'
  BY <1>1, PgFrame
<1>4. DaemonType' /\ WarmupType' /\ WorkType' /\ JobShape' /\ FileShape'
  BY <1>1, <1>2 DEF DaemonType, WarmupType, WorkType, JobShape, FileShape, Whole
<1>5. GoneShape'
  BY <1>1, AttendedKept, GoneKept
<1> QED
  BY <1>3, <1>4, <1>5

\* gc had no answer of the daemon and goes on to unlink the files itself.
LEMMA GcDropFailsIInv == ASSUME IInv, NEW i \in Indexes, GcDropFails(i) PROVE IInv'
<1>1. /\ i \in gc.todo /\ i \notin catalog /\ gc' = [at |-> "unlink", todo |-> gc.todo \ {i}, i |-> i]
      /\ taken' = taken \cup ({i} \cap (made \cup prepared.adds))
      /\ dropping' = dropping \/ dropping' = dropping \cup {i}
      /\ UNCHANGED <<GcVars, files, resident, coldvars, marred>>
  BY DEF GcDropFails, IsOrphan, GcTakes, Uncommitted
<1>2. gc' \in [at : {"idle", "act", "unlink"}, todo : SUBSET Indexes, i : Indexes \cup {"none"}]
  BY <1>1 DEF IInv, Types, WorkType
<1>3. UNCHANGED <<catalog, fresh, made, prepared>>
  BY <1>1 DEF GcVars, pgvars
<1>4. GcShape' /\ LateShape'
  BY <1>1, <1>3 DEF GcShape, LateShape, IInv
<1>5. dropping \subseteq dropping' /\ dropping' \subseteq Indexes
  BY <1>1 DEF IInv, Types, DaemonType
<1> QED
  BY <1>1, <1>2, <1>4, <1>5, GcStep

\* gc ends.
LEMMA GcEndIInv == ASSUME IInv, GcEnd PROVE IInv'
<1>1. gc' = NoGc /\ UNCHANGED <<GcVars, dropping, files, resident, coldvars, marred, taken>>
  BY DEF GcEnd
<1>2. gc' \in [at : {"idle", "act", "unlink"}, todo : SUBSET Indexes, i : Indexes \cup {"none"}] /\ GcShape'
  BY <1>1 DEF NoGc, GcShape
<1>3. LateShape' /\ dropping \subseteq dropping' /\ dropping' \subseteq Indexes
  BY <1>1 DEF LateShape, GcVars, pgvars, IInv, Types, DaemonType
<1> QED
  BY <1>1, <1>2, <1>3, GcStep

\* gc sends a drop of an orphan; an index of an open transaction is taken.
LEMMA GcDropIInv == ASSUME IInv, NEW i \in Indexes, GcDrop(i) PROVE IInv'
<1> USE DEF IInv, Types
<1>1. /\ gc.at = "act" /\ i \notin catalog /\ HandleDrop(i)
      /\ taken' = taken \cup ({i} \cap (made \cup prepared.adds)) /\ gc' = [gc EXCEPT !.todo = @ \ {i}]
      /\ UNCHANGED pgvars /\ UNCHANGED <<building, dropping, daemon, comp, marred>>
  BY DEF GcDrop, IsOrphan, GcTakes, Uncommitted, GcVars
<1>2. UNCHANGED <<kind, catalog, fresh, made, prepared, invalid>>
  BY <1>1 DEF pgvars
<1>3. PgType' /\ SessionShape' /\ StackShape' /\ PendingShape' /\ DropShape' /\ BirthShape' /\ CompShape' /\ LateShape'
  BY <1>1, PgFrame
<1>4. /\ gc' \in [at : {"idle", "act", "unlink"}, todo : SUBSET Indexes, i : Indexes \cup {"none"}]
      /\ gc'.at = "act" /\ gc'.todo \subseteq gc.todo
  BY <1>1 DEF WorkType
<1>5. WorkType' /\ GcShape'
  BY <1>1, <1>2, <1>4 DEF WorkType, GcShape
<1>6. /\ DaemonType' /\ WarmupType' /\ JobShape' /\ FileShape'
      /\ \A j \in Indexes : Gone(j) => Gone(j)'
  BY <1>1, <1>2, DropStep
<1>7. GoneShape'
  BY <1>1, <1>6, AttendedKept DEF GoneShape
<1> QED
  BY <1>3, <1>5, <1>6, <1>7

\* The files of an orphan are unlinked while the daemon is away.
LEMMA GcUnlinkFamilyIInv == ASSUME IInv, GcUnlinkFamily PROVE IInv'
<1> USE DEF IInv, Types
<1>1. PICK i \in Indexes \ fresh : i = gc.i /\ (i \in catalog \cup made \cup prepared.adds => i \in taken)
  BY DEF GcUnlinkFamily, GcShape
<1>2. /\ taken' = taken \cup ({i} \cap resident) /\ gc' = [gc EXCEPT !.at = "act", !.i = "none"]
      /\ files' = [files EXCEPT ![i] = {}]
      /\ UNCHANGED pgvars /\ UNCHANGED <<building, dropping, daemon, comp, resident, cold, queue, worker, marred>>
  BY <1>1 DEF GcUnlinkFamily, GcVars, coldvars
<1>3. UNCHANGED <<kind, catalog, fresh, made, prepared, invalid>>
  BY <1>2 DEF pgvars
<1>4. PgType' /\ SessionShape' /\ StackShape' /\ PendingShape' /\ DropShape' /\ BirthShape' /\ CompShape' /\ LateShape'
  BY <1>2, PgFrame
<1>5. /\ gc' \in [at : {"idle", "act", "unlink"}, todo : SUBSET Indexes, i : Indexes \cup {"none"}]
      /\ gc'.at = "act" /\ gc'.todo = gc.todo
  BY <1>2 DEF WorkType
<1>6. WorkType' /\ GcShape'
  BY <1>2, <1>3, <1>5 DEF WorkType, GcShape
<1>7. /\ files' \in [Indexes -> SUBSET {"graph", "rfn"}]
      /\ \A j \in Indexes : files'[j] = IF j = i THEN {} ELSE files[j]
  BY <1>2 DEF DaemonType
<1>8. DaemonType' /\ WarmupType' /\ JobShape'
  BY <1>2, <1>3, <1>7 DEF DaemonType, WarmupType, JobShape
<1>9. FileShape'
  <2>1. \A j \in (catalog' \cup made' \cup prepared'.adds) \ (taken' \cup invalid') : Whole(j)'
    BY <1>1, <1>2, <1>3, <1>7 DEF FileShape, Whole, PgType
  <2>2. (\A j \in fresh' : files'[j] = {}) /\ (\A j \in resident' \ taken' : "graph" \in files'[j])
    BY <1>2, <1>3, <1>7 DEF FileShape, PgType, DaemonType
  <2> QED
    BY <2>1, <2>2 DEF FileShape
<1>10. \A j \in Indexes : Gone(j) => Gone(j)'
  BY <1>2, <1>7 DEF Gone, Jobs
<1>11. GoneShape'
  BY <1>2, <1>10, AttendedKept DEF GoneShape
<1> QED
  BY <1>4, <1>6, <1>8, <1>9, <1>11

\* Collecting candidates, and giving up on them.
LEMMA CompStep ==
  ASSUME IInv, UNCHANGED <<CompVars, dropping, catalog, files, resident, coldvars, marred, taken>>,
         comp.at \in {"idle", "reindex"}, comp'.at \in {"idle", "reindex"}, comp'.old = "none",
         comp' \in [at : {"idle", "reindex", "built", "notify"}, todo : SUBSET Indexes,
                    old : Indexes \cup {"none"}, new : Indexes \cup {"none"}]
  PROVE  IInv'
<1> USE DEF IInv, Types
<1>1. UNCHANGED pgvars /\ UNCHANGED <<building, dropping, daemon, gc, files, resident, cold, queue, worker, marred, taken>>
  BY DEF CompVars, pgvars, coldvars
<1>2. UNCHANGED <<kind, catalog, fresh, made, prepared, notify, invalid>>
  BY <1>1 DEF pgvars
<1>3. PgType' /\ SessionShape' /\ StackShape' /\ PendingShape' /\ DropShape' /\ BirthShape' /\ GcShape' /\ LateShape'
  BY <1>1, PgFrame
<1>4. DaemonType' /\ WarmupType' /\ WorkType' /\ JobShape' /\ FileShape'
  BY <1>1, <1>2 DEF DaemonType, WarmupType, WorkType, JobShape, FileShape, Whole
<1>5. CompShape'
  BY DEF CompShape
<1>6. comp.old = "none"
  BY DEF CompShape
<1>7. \A i \in Indexes : Attended(i) => Attended(i)'
  BY <1>1, <1>2, <1>6, IndexesAssumption DEF Attended
<1>8. GoneShape'
  BY <1>1, <1>7, GoneKept
<1> QED
  BY <1>3, <1>4, <1>5, <1>8

\* The compaction worker lists its candidates.
LEMMA CollectIInv == ASSUME IInv, Collect PROVE IInv'
<1>1. PICK cands \in SUBSET catalog : comp' = [NoComp EXCEPT !.at = "reindex", !.todo = cands]
  BY DEF Collect
<1>2. /\ comp'.at = "reindex" /\ comp'.old = "none"
      /\ comp' \in [at : {"idle", "reindex", "built", "notify"}, todo : SUBSET Indexes,
                    old : Indexes \cup {"none"}, new : Indexes \cup {"none"}]
  BY <1>1 DEF NoComp, IInv, Types, PgType
<1>3. comp.at = "idle" /\ UNCHANGED <<CompVars, dropping, catalog, files, resident, coldvars, marred, taken>>
  BY DEF Collect
<1> QED
  BY <1>2, <1>3, CompStep

\* The compaction worker ends on an error.
LEMMA ReindexFailsIInv == ASSUME IInv, ReindexFails PROVE IInv'
<1>1. /\ comp.at = "reindex" /\ comp' = NoComp
      /\ UNCHANGED <<CompVars, dropping, catalog, files, resident, coldvars, marred, taken>>
  BY DEF ReindexFails
<1>2. /\ comp'.at = "idle" /\ comp'.old = "none"
      /\ comp' \in [at : {"idle", "reindex", "built", "notify"}, todo : SUBSET Indexes,
                    old : Indexes \cup {"none"}, new : Indexes \cup {"none"}]
  BY <1>1 DEF NoComp
<1> QED
  BY <1>1, <1>2, CompStep

\* The new index is in the catalog and built; the old one awaits its drop.
LEMMA ReindexIInv ==
  ASSUME IInv, NEW old \in Indexes, NEW new \in Indexes, Reindex(old, new) PROVE IInv'
<1> USE DEF IInv, Types
<1>1. /\ comp.at = "reindex" /\ old \in catalog /\ new \in fresh /\ daemon = "up"
      /\ catalog' = catalog \cup {new} /\ fresh' = fresh \ {new} /\ Built(new)
      /\ comp' = [at |-> "built", todo |-> comp.todo \ {old}, old |-> old, new |-> new]
      /\ UNCHANGED <<kind, xact, mine, made, pending, notify, prepared, invalid, building, dropping, daemon, gc>>
      /\ UNCHANGED <<cold, queue, worker, marred, taken>>
  BY DEF Reindex, coldvars
<1>2. /\ files' \in [Indexes -> SUBSET {"graph", "rfn"}] /\ resident' = resident \cup {new}
      /\ \A j \in Indexes : j # new => files'[j] = files[j]
      /\ "graph" \in files'[new] /\ (kind[new] # "ivfpq" => "rfn" \in files'[new])
  BY <1>1, BuiltFacts
<1>3. /\ comp'.at = "built" /\ comp'.old = old
      /\ comp' \in [at : {"idle", "reindex", "built", "notify"}, todo : SUBSET Indexes,
                    old : Indexes \cup {"none"}, new : Indexes \cup {"none"}]
  BY <1>1 DEF WorkType
<1>4. PgType' /\ DaemonType' /\ WarmupType' /\ WorkType'
  BY <1>1, <1>2, <1>3 DEF PgType, DaemonType, WarmupType, WorkType
<1>5. SessionShape' /\ PendingShape'
  BY <1>1 DEF SessionShape, PendingShape
<1>6. StackShape'
  BY <1>1 DEF StackShape
<1>7. DropShape'
  BY <1>1 DEF DropShape, Recorded
<1>8. BirthShape'
  BY <1>1 DEF BirthShape
<1>9. CompShape'
  BY <1>1, <1>3 DEF CompShape, BirthShape
<1>10. GcShape' /\ LateShape' /\ JobShape'
  <2>1. GcShape'
    <3>1. new # gc.i \/ gc.at # "unlink"
      BY <1>1 DEF GcShape
    <3> QED
      BY <1>1, <3>1 DEF GcShape
  <2>2. LateShape' /\ JobShape'
    BY <1>1 DEF LateShape, JobShape
  <2> QED
    BY <2>1, <2>2
<1>11. FileShape'
  <2>1. ASSUME NEW j \in (catalog' \cup made' \cup prepared'.adds) \ (taken' \cup invalid') PROVE Whole(j)'
    <3>1. CASE j = new
      BY <1>1, <1>2, <3>1 DEF Whole
    <3>2. CASE j # new
      <4>1. j \in Indexes /\ Whole(j)
        BY <1>1, <2>1, <3>2 DEF FileShape, PgType
      <4> QED
        BY <1>1, <1>2, <3>2, <4>1 DEF Whole
    <3> QED
      BY <3>1, <3>2
  <2>2. ASSUME NEW j \in fresh' PROVE files'[j] = {}
    <3>1. j \in Indexes /\ j # new /\ files[j] = {}
      BY <1>1, <2>2 DEF FileShape, PgType
    <3> QED
      BY <1>2, <3>1
  <2>3. ASSUME NEW j \in resident' \ taken' PROVE "graph" \in files'[j]
    <3>1. j \in Indexes /\ (j # new => "graph" \in files[j])
      BY <1>1, <1>2, <2>3 DEF FileShape, DaemonType
    <3> QED
      BY <1>2, <3>1
  <2> QED
    BY <2>1, <2>2, <2>3 DEF FileShape
<1>12. GoneShape'
  <2>1. comp.old = "none"
    BY <1>1 DEF CompShape
  <2>2. \A j \in Indexes : Attended(j) => Attended(j)'
    BY <1>1, <2>1, IndexesAssumption DEF Attended
  <2>3. \A j \in Indexes : j # new /\ Gone(j) => Gone(j)'
    BY <1>1, <1>2 DEF Gone, Jobs
  <2>4. Attended(new)'
    BY <1>1 DEF Attended
  <2> QED
    BY <2>2, <2>3, <2>4 DEF GoneShape
<1> QED
  BY <1>4, <1>5, <1>6, <1>7, <1>8, <1>9, <1>10, <1>11, <1>12

\* The new index stays in the catalog, invalid, and a build may still be under way.
LEMMA RebuildFailsIInv ==
  ASSUME IInv, NEW old \in Indexes, NEW new \in Indexes, RebuildFails(old, new) PROVE IInv'
<1> USE DEF IInv, Types
<1>1. /\ comp.at = "reindex" /\ new \in fresh /\ comp' = NoComp
      /\ catalog' = catalog \cup {new} /\ invalid' = invalid \cup {new} /\ fresh' = fresh \ {new}
      /\ \/ building' = building /\ marred' = marred
         \/ building' = building \cup {new} /\ marred' = marred \cup {new}
      /\ UNCHANGED <<kind, xact, mine, made, pending, notify, prepared, dropping, daemon, gc>>
      /\ UNCHANGED <<files, resident, cold, queue, worker, taken>>
  BY DEF RebuildFails, Meets, coldvars
<1>2. /\ comp'.at = "idle" /\ comp'.old = "none"
      /\ comp' \in [at : {"idle", "reindex", "built", "notify"}, todo : SUBSET Indexes,
                    old : Indexes \cup {"none"}, new : Indexes \cup {"none"}]
  BY <1>1 DEF NoComp
<1>3. PgType' /\ DaemonType' /\ WarmupType' /\ WorkType'
  BY <1>1, <1>2 DEF PgType, DaemonType, WarmupType, WorkType
<1>4. SessionShape' /\ StackShape' /\ PendingShape'
  BY <1>1 DEF SessionShape, StackShape, PendingShape
<1>5. DropShape'
  BY <1>1 DEF DropShape, Recorded
<1>6. BirthShape'
  BY <1>1 DEF BirthShape
<1>7. CompShape'
  BY <1>2 DEF CompShape
<1>8. GcShape' /\ LateShape' /\ JobShape'
  <2>1. new # gc.i \/ gc.at # "unlink"
    BY <1>1 DEF GcShape
  <2> QED
    BY <1>1, <2>1 DEF GcShape, LateShape, JobShape
<1>9. FileShape'
  BY <1>1 DEF FileShape, Whole
<1>10. comp.old = "none"
  BY <1>1 DEF CompShape
<1>11. \A j \in Indexes : Attended(j) => Attended(j)'
  BY <1>1, <1>10, IndexesAssumption DEF Attended
<1>12. GoneShape'
  BY <1>1, <1>11, GoneKept
<1> QED
  BY <1>3, <1>4, <1>5, <1>6, <1>7, <1>8, <1>9, <1>12

\* The old index leaves the catalog, but not the attention of the worker.
LEMMA ReindexDropsOldIInv == ASSUME IInv, ReindexDropsOld PROVE IInv'
<1> USE DEF IInv, Types
<1>1. /\ comp.at = "built" /\ catalog' = catalog \ {comp.old} /\ comp' = [comp EXCEPT !.at = "notify"]
      /\ UNCHANGED <<kind, fresh, xact, mine, made, pending, notify, prepared, invalid, building, dropping, daemon, gc>>
      /\ UNCHANGED <<files, resident, cold, queue, worker, marred, taken>>
  BY DEF ReindexDropsOld, CompVars, coldvars
<1>2. /\ comp'.at = "notify" /\ comp'.old = comp.old
      /\ comp' \in [at : {"idle", "reindex", "built", "notify"}, todo : SUBSET Indexes,
                    old : Indexes \cup {"none"}, new : Indexes \cup {"none"}]
  BY <1>1 DEF WorkType
<1>3. PgType' /\ DaemonType' /\ WarmupType' /\ WorkType'
  BY <1>1, <1>2 DEF PgType, DaemonType, WarmupType, WorkType
<1>4. SessionShape' /\ StackShape' /\ PendingShape'
  BY <1>1 DEF SessionShape, StackShape, PendingShape
<1>5. DropShape'
  BY <1>1 DEF DropShape, Recorded
<1>6. BirthShape'
  BY <1>1 DEF BirthShape
<1>7. CompShape'
  BY <1>1, <1>2 DEF CompShape
<1>8. GcShape' /\ LateShape' /\ JobShape'
  BY <1>1 DEF GcShape, LateShape, JobShape
<1>9. FileShape'
  BY <1>1 DEF FileShape, Whole
<1>10. \A j \in Indexes : Attended(j) => Attended(j)'
  BY <1>1, <1>2 DEF Attended
<1>11. GoneShape'
  BY <1>1, <1>10, GoneKept
<1> QED
  BY <1>3, <1>4, <1>5, <1>6, <1>7, <1>8, <1>9, <1>11

\* The old index is dropped as by any other transaction.
LEMMA ReindexNotifiesIInv == ASSUME IInv, ReindexNotifies PROVE IInv'
<1> USE DEF IInv, Types
<1>1. PICK i \in Indexes : i = comp.old /\ i \notin fresh \cup made \cup prepared.adds /\ i \notin catalog
  BY DEF ReindexNotifies, CompShape
<1>2. /\ UNCHANGED pgvars /\ UNCHANGED <<building, daemon, gc, taken>>
      /\ TellDaemon(i) /\ marred \subseteq marred' /\ dropping \subseteq dropping' /\ dropping' \subseteq dropping \cup {i}
  BY <1>1, TellDaemonFacts DEF ReindexNotifies, CompVars, pgvars
<1>3. UNCHANGED <<kind, catalog, fresh, made, prepared, notify, invalid>>
  BY <1>2 DEF pgvars
<1>4. /\ comp'.at \in {"idle", "reindex"} /\ comp'.old = "none"
      /\ comp' \in [at : {"idle", "reindex", "built", "notify"}, todo : SUBSET Indexes,
                    old : Indexes \cup {"none"}, new : Indexes \cup {"none"}]
  BY DEF ReindexNotifies, NoComp, WorkType
<1>5. marred \subseteq marred' /\ taken \subseteq taken' /\ building' \subseteq building /\ gc' = gc
  BY <1>2
<1>6. PgType' /\ SessionShape' /\ StackShape' /\ PendingShape' /\ DropShape' /\ BirthShape' /\ GcShape'
  BY <1>2, <1>5, PgFrame
<1>7. WorkType' /\ CompShape' /\ LateShape'
  BY <1>1, <1>2, <1>3, <1>4 DEF WorkType, CompShape, LateShape
<1>8. \A j \in Indexes : Attended(j) => Attended(j)' \/ j = i
  BY <1>1, <1>2, <1>3, <1>5 DEF Attended
<1>9. CASE HandleDrop(i) /\ marred' = marred \cup ({i} \cap Jobs) /\ dropping' = dropping
  <2>1. /\ DaemonType' /\ WarmupType' /\ JobShape' /\ FileShape'
        /\ \A j \in Indexes : Gone(j) => Gone(j)'
        /\ i \notin marred /\ i \notin Jobs => Gone(i)'
    BY <1>1, <1>2, <1>3, <1>5, <1>9, DropStep
  <2>2. i \in marred \cup Jobs => Attended(i)'
    BY <1>9 DEF Attended
  <2>3. GoneShape'
    BY <1>8, <2>1, <2>2 DEF GoneShape
  <2> QED
    BY <1>6, <1>7, <2>1, <2>3
<1>10. CASE i \in marred' \cup dropping' /\ UNCHANGED <<files, resident, cold, queue, worker>>
  <2>1. DaemonType' /\ WarmupType' /\ JobShape' /\ FileShape'
    BY <1>2, <1>3, <1>10 DEF DaemonType, WarmupType, JobShape, FileShape, Whole
  <2>2. Attended(i)'
    BY <1>10 DEF Attended
  <2>3. GoneShape'
    BY <1>8, <1>10, <2>2, GoneKept
  <2> QED
    BY <1>6, <1>7, <2>1, <2>3
<1> QED
  BY <1>2, <1>9, <1>10, TellDaemonFacts
-----------------------------------------------------------------------------
(* The theorems.                                                           *)

\* A step that changes nothing.
LEMMA StutterIInv == ASSUME IInv, UNCHANGED vars PROVE IInv'
<1>1. UNCHANGED pgvars /\ UNCHANGED <<kind, catalog, fresh, made, prepared, notify, invalid>>
  BY DEF vars, pgvars
<1>2. UNCHANGED <<building, dropping, daemon, files, resident, cold, queue, worker, gc, comp, marred, taken>>
  BY DEF vars
<1>3. DaemonType' /\ WarmupType' /\ JobShape' /\ FileShape'
  BY <1>1, <1>2 DEF IInv, Types, DaemonType, WarmupType, JobShape, FileShape, Whole
<1>4. \A j \in Indexes : ~Attended(j) /\ Gone(j) => Gone(j)'
  BY <1>2 DEF Gone, Jobs
<1> QED
  BY <1>1, <1>2, <1>3, <1>4, DaemonStep

\* The steps of the session.
LEMMA SessionIInv == ASSUME IInv, Session PROVE IInv'
<1>1. CASE Begin \/ SubCommit \/ SubAbort \/ SubBegin
  BY <1>1, BeginIInv, SubCommitIInv, SubAbortIInv, SubBeginIInv
<1>2. CASE Commit \/ Abort \/ Notify \/ Prepare \/ CommitPrepared \/ RollbackPrepared
  BY <1>2, CommitIInv, AbortIInv, NotifyIInv, PrepareIInv, CommitPreparedIInv, RollbackPreparedIInv
<1>3. ASSUME NEW i \in Indexes, CreateIndex(i) \/ CreateGivesUp(i) \/ DropIndex(i) PROVE IInv'
  BY <1>3, CreateIndexIInv, CreateGivesUpIInv, DropIndexIInv
<1> QED
  BY <1>1, <1>2, <1>3 DEF Session

\* The steps of the daemon, gc and the compaction worker.
LEMMA ElsewhereIInv == ASSUME IInv, Elsewhere PROVE IInv'
<1>1. CASE Stop \/ Start \/ Listen
  BY <1>1, StopIInv, StartIInv, ListenIInv
<1>2. CASE GcScan \/ GcUnlinkFamily \/ GcEnd
  BY <1>2, GcScanIInv, GcUnlinkFamilyIInv, GcEndIInv
<1>3. CASE Collect \/ ReindexFails \/ ReindexDropsOld \/ ReindexNotifies
  BY <1>3, CollectIInv, ReindexFailsIInv, ReindexDropsOldIInv, ReindexNotifiesIInv
<1>4. ASSUME NEW w \in Workers, Warmup(w) PROVE IInv'
  BY <1>4, DequeueIInv, DownloadedIInv, FailIInv, LoadDownloadedIInv DEF Warmup
<1>5. ASSUME NEW i \in Indexes, LateBuild(i) \/ LateDrop(i) \/ SearchLoads(i) \/ SearchMisses(i) PROVE IInv'
  BY <1>5, LateBuildIInv, LateDropIInv, SearchLoadsIInv, SearchMissesIInv
<1>6. ASSUME NEW i \in Indexes, GcDrop(i) \/ GcDropFails(i) PROVE IInv'
  BY <1>6, GcDropIInv, GcDropFailsIInv
<1>7. ASSUME NEW i \in Indexes, NEW new \in Indexes, Reindex(i, new) \/ RebuildFails(i, new) PROVE IInv'
  BY <1>7, ReindexIInv, RebuildFailsIInv
<1> QED
  BY <1>1, <1>2, <1>3, <1>4, <1>5, <1>6, <1>7 DEF Elsewhere

\* The invariant holds of every state: whatever is no longer attended to is
\* gone, and whatever is live or may become so is whole.
THEOREM LifeInvariant == Spec => []IInv
<1>1. IInv /\ [Next]_vars => IInv'
  BY SessionIInv, ElsewhereIInv, StutterIInv DEF Next
<1> QED
  BY InitIInv, <1>1, PTL DEF Spec

\* The warm-up queue stays within WARMUP_QUEUE_MAX and has an index once, and
\* every pending drop belongs to an open subtransaction.
THEOREM LifeTypeOK == Spec => []TypeOK
<1>1. IInv => TypeOK
  <2> SUFFICES ASSUME IInv PROVE TypeOK
    OBVIOUS
  <2> USE DEF IInv, Types
  <2>1. catalog \subseteq Indexes \ fresh
    BY DEF PgType, BirthShape
  <2>2. Len(queue) <= QMax /\ IsInjective(queue)
    BY DEF WarmupType
  <2>3. \A d \in pending : d.i \notin mine /\ d.sub \in 1 .. Len(xact)
    BY DEF PendingShape
  <2>4. daemon = "down" => resident = {} /\ queue = <<>>
    BY DEF JobShape
  <2>5. \A i \in Indexes : files[i] \subseteq {"graph", "rfn"}
    BY DEF DaemonType
  <2>6. \A i \in Indexes : \A n \in 1 .. Len(cold[i]) : cold[i][n] \in {"queued", "downloading", "failed"}
    <3> SUFFICES ASSUME NEW i \in Indexes, NEW n \in 1 .. Len(cold[i]) PROVE cold[i][n] \in ColdStates
      BY DEF ColdStates
    <3>1. cold[i] \in Seq(ColdStates)
      BY DEF DaemonType
    <3> QED
      BY <3>1
  <2> QED
    BY <2>1, <2>2, <2>3, <2>4, <2>5, <2>6 DEF TypeOK
<1> QED
  BY LifeInvariant, <1>1, PTL

\* A valid index in the catalog has its files, however transactions, gc, restarts,
\* warm-up threads, the compaction worker and late DROPs and builds interleave.
THEOREM LiveIndexKeepsFiles == Spec => []LiveKeepsFiles
<1>1. IInv => LiveKeepsFiles
  BY DEF IInv, FileShape, Whole, LiveKeepsFiles
<1> QED
  BY LifeInvariant, <1>1, PTL

\* A dropped index that met none of the named accidents leaves nothing on disk,
\* in VRAM, in the cold registry or in the warm-up queue.
THEOREM DroppedIndexIsGone == Spec => []DroppedIsGone
<1>1. IInv => DroppedIsGone
  <2> SUFFICES ASSUME IInv, NEW i \in Indexes, Dead(i)
               PROVE  /\ kind[i] # "ivfpq" /\ i \notin marred => Gone(i)
                      /\ kind[i] = "cagra" /\ i \in resident \ taken => "graph" \in files[i]
    BY DEF DroppedIsGone, Gone
  <2>1. kind[i] # "ivfpq" /\ i \notin marred => Gone(i)
    BY DEF IInv, GoneShape, Attended, Dead, Uncommitted
  <2>2. i \in resident \ taken => "graph" \in files[i]
    BY DEF IInv, FileShape
  <2> QED
    BY <2>1, <2>2
<1> QED
  BY LifeInvariant, <1>1, PTL
=============================================================================

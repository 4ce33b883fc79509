--------------------------- MODULE HandoverProofs ---------------------------
(***************************************************************************)
(* Proofs about Handover for any set of calls, any participants of a       *)
(* parallel build and any kinds of call: IInv is inductive, and with it no *)
(* path out of a call leaves anything behind and no reaper takes what the  *)
(* daemon is about to open.                                                *)
(***************************************************************************)
EXTENDS Handover, TLAPS

Roles == {"query", "filter", "corpus", "reply"} \cup Parts
Objects == Calls \X Roles

CallStates == {"idle", "corpus", "lock", "scan", "stage", "gather", "connect", "send", "wait", "over"}
\* The states of a call that has not reached the daemon yet.
Before == {"corpus", "lock", "scan", "stage", "gather", "connect"}
\* Those in which its request is complete.
Asking == {"connect", "send", "wait"}

CallType == [Calls -> [at : CallStates, kind : KindNames, tier : Tiers, old : BOOLEAN]]
PartType == [Calls -> [Parts -> {"none", "open", "scan", "detached", "empty"}]]
ConnType == [Calls -> [sent : Nat, open : BOOLEAN, reply : {"none", "ok", "err"}, fd : BOOLEAN]]
ThreadStates == {"none", "cmd", "frame", "descs", "open", "reply", "fill"}
\* A thread opens segments of its own call only.
Todo(c) == {T \in SUBSET Objects : \A o \in T : o[1] = c}

ProcessType ==
    /\ call \in CallType /\ part \in PartType /\ conn \in ConnType
    /\ thr \in [Calls -> [at : ThreadStates, todo : SUBSET Objects]]
    /\ \A c \in Calls : thr[c].todo \in Todo(c)

ShmType ==
    /\ names \subseteq Objects /\ locked \subseteq Objects /\ young \subseteq Objects
    /\ lost \subseteq Objects /\ refs \subseteq {"cli", "srv"} \X Objects /\ aged \subseteq Objects

\* A thread exists only for a call that has been sent.
ThreadShape(c) == call[c].at \in Before => thr[c].at = "none"

\* Who answers for a name: a call under way, the thread that fills a reply, or nobody.
NameShape(c) ==
    \A r \in Roles : Obj(c, r) \in names =>
        \/ Obj(c, r) \in lost
        \/ IF r = "reply" THEN thr[c].at = "fill" ELSE call[c].at # "idle"

\* What is lost still has its name, and its process is gone.
LostShape(c) ==
    \A r \in Roles : Obj(c, r) \in lost =>
        /\ Obj(c, r) \in names
        /\ IF r = "reply" THEN thr[c].at = "none" /\ call[c].at \notin Before
           ELSE call[c].at = "idle"

\* Who holds a descriptor or a mapping.
RefShape(c) ==
    \A r \in Roles :
        /\ <<"srv", Obj(c, r)>> \in refs => thr[c].at # "none"
        /\ <<"cli", Obj(c, r)>> \in refs => call[c].at # "idle"

\* The objects with a lock have their name, and so have those too young for a
\* reaper, unless they were old when it looked at them; only a call past its
\* flock holds a lock.
LockShape(c) ==
    \A r \in Roles :
        /\ Obj(c, r) \in locked => Obj(c, r) \in names
        /\ Obj(c, r) \in young => Obj(c, r) \in names \cup aged
        /\ Obj(c, r) \in locked \cup young => r \in {"corpus"} \cup Parts
        /\ Obj(c, r) \in locked => call[c].at \notin {"idle", "corpus", "lock"}

\* A named corpus is new and young until it is locked, and locked until the
\* call is over.
CorpusShape(c) ==
    /\ call[c].at = "corpus" => Obj(c, "corpus") \notin names
    /\ call[c].at \in {"corpus", "lock"} => Obj(c, "corpus") \notin aged
    /\ call[c].at = "lock" => Obj(c, "corpus") \in young
    /\ call[c].at \in {"scan", "stage", "connect", "send", "wait"} /\ Of(c).corpus /\ call[c].tier = "shm"
         => Obj(c, "corpus") \in locked

\* While the partials are collected the call has no other object, and each
\* participant has what his state says.
GatherShape(c) ==
    call[c].at = "gather" =>
        /\ call[c].kind = "multi"
        /\ \A r \in Roles :
              /\ Obj(c, r) \in names => r \in Parts /\ part[c][r] \in {"open", "scan", "detached"}
              /\ <<"cli", Obj(c, r)>> \in refs => r \in Parts /\ part[c][r] \in {"open", "scan"}
              /\ Obj(c, r) \in locked => r \in Parts /\ part[c][r] = "scan"
        /\ \A p \in Parts : part[c][p] = "open" => Obj(c, p) \in young
        /\ \A p \in Parts : part[c][p] \in {"none", "open"} => Obj(c, p) \notin aged

\* The segments of a complete request have their names.
RequestShape(c) == call[c].at \in Asking => Requests(c) \subseteq names

CallInv(c) ==
    /\ ThreadShape(c) /\ NameShape(c) /\ LostShape(c) /\ RefShape(c)
    /\ LockShape(c) /\ CorpusShape(c) /\ GatherShape(c) /\ RequestShape(c)

IInv == ProcessType /\ ShmType /\ \A c \in Calls : CallInv(c)
-----------------------------------------------------------------------------
(* What the helpers of the actions do, call by call.                       *)

\* What the commands exchange.
LEMMA InfoFacts ==
    /\ \A k \in KindNames :
          Info[k] \in [req : SUBSET {"query", "filter"}, corpus : BOOLEAN, frames : 1 .. 3,
                      reply : {"inline", "named", "anon"}]
    /\ Info["multi"].req = {} /\ ~Info["multi"].corpus
    /\ Info["build"].req = {}
  BY DEF Info, KindNames, KindInfo, PlainCall, CompactCall, SearchCall, FilteredCall, BatchCall,
         ExtendCall, AdjacencyCall, HnswCall, TransientCall, BuildCall, MultiCall

\* Call c is in state a now, and nothing else about the calls has changed.
Moved(c, a) ==
    /\ call' \in CallType
    /\ \A d \in Calls : /\ d # c => call'[d] = call[d]
                        /\ call'[d].at = IF d = c THEN a ELSE call[d].at
                        /\ call'[d].kind = call[d].kind /\ call'[d].tier = call[d].tier

\* To(c, a) is such a move.
LEMMA ToMoves ==
  ASSUME call \in CallType, NEW c \in Calls, NEW a \in CallStates, To(c, a) PROVE Moved(c, a)
  BY DEF CallType, To, Moved

\* The segments of a request do not depend on the progress of the call.
LEMMA MovedRequests ==
  ASSUME NEW c, NEW a, Moved(c, a), NEW d \in Calls
  PROVE  Requests(d)' = Requests(d) /\ Of(d)' = Of(d)
  BY DEF Moved, Requests, Of

\* What a call needs are objects of its own.
LEMMA NeedsOwn == ASSUME ProcessType, NEW c \in Calls PROVE Needs(c) \in Todo(c)
<1>1. \A r \in Roles : Obj(c, r) \in Objects /\ Obj(c, r)[1] = c
  BY DEF Obj, Objects
<1>2. Of(c).req \subseteq Roles
  BY InfoFacts DEF ProcessType, CallType, Of, Roles
<1>3. \A o \in Requests(c) : \E r \in Roles : o = Obj(c, r)
  BY <1>2 DEF Requests, Roles
<1>4. \A o \in Partials(c) : \E r \in Roles : o = Obj(c, r)
  BY DEF Partials, Roles
<1>5. \A o \in Needs(c) : \E r \in Roles : o = Obj(c, r)
  BY <1>3, <1>4 DEF Needs, Corpus, Roles
<1> QED
  BY <1>1, <1>5 DEF Todo

\* Thread c is in state a now, and the other threads are where they were.
ThreadMoved(c, a) ==
    /\ thr' \in [Calls -> [at : ThreadStates, todo : SUBSET Objects]]
    /\ \A d \in Calls : thr'[d].todo \in Todo(d) /\ thr'[d].at = IF d = c THEN a ELSE thr[d].at

\* ThreadTo(c, a, T) is such a move.
LEMMA ThreadToMoves ==
  ASSUME ProcessType, NEW c \in Calls, NEW a \in ThreadStates, NEW T \in Todo(c), ThreadTo(c, a, T)
  PROVE  ThreadMoved(c, a)
<1>1. T \in SUBSET Objects
  BY DEF Todo
<1> QED
  BY <1>1 DEF ProcessType, ThreadTo, ThreadMoved

\* An answer ends the thread and closes its mappings.
LEMMA AnswerMoves ==
  ASSUME ProcessType, NEW c \in Calls, NEW reply \in {"ok", "err"}, NEW fd \in BOOLEAN, Answer(c, reply, fd)
  PROVE  ThreadMoved(c, "none") /\ conn' \in ConnType /\ refs' = refs \ Refs("srv", c)
<1>1. {} \in Todo(c) /\ "none" \in ThreadStates
  BY DEF Todo, ThreadStates
<1>2. ThreadTo(c, "none", {})
  BY DEF Answer, NoThread, ThreadTo
<1>3. conn' \in ConnType
  <2>1. conn \in ConnType
    BY DEF ProcessType
  <2>2. conn' = conn \/ conn' = [conn EXCEPT ![c].reply = reply, ![c].fd = fd]
    BY DEF Answer
  <2> QED
    BY <2>1, <2>2 DEF ConnType
<1> QED
  BY <1>1, <1>2, <1>3, ThreadToMoves DEF Answer

\* An object is a call and a role.
LEMMA ObjEq ==
  /\ \A c, d \in Calls, q, r \in Roles : Obj(d, r) = Obj(c, q) <=> (d = c /\ r = q)
  /\ \A c \in Calls, r \in Roles : Obj(c, r) \in Objects /\ Obj(c, r)[1] = c /\ Obj(c, r)[2] = r
  BY DEF Obj, Objects

\* Every object is that of some call, in some role.
LEMMA ObjOf == \A o \in Objects : \E c \in Calls, r \in Roles : o = Obj(c, r)
  BY DEF Obj, Objects

\* The participants are told apart from the other roles.
LEMMA RoleFacts ==
  /\ \A c \in Calls : Corpus(c) = Obj(c, "corpus") /\ Reply(c) = Obj(c, "reply")
  /\ {"query", "filter", "corpus", "reply"} \subseteq Roles
  /\ \A p \in Parts : p \in Roles /\ p \notin {"query", "filter", "corpus", "reply"}
  BY PartsAssumption DEF Corpus, Reply, Roles

\* A client's own are all but the reply.
LEMMA MineFacts ==
  ASSUME NEW c \in Calls, NEW d \in Calls, NEW r \in Roles
  PROVE  Obj(d, r) \in Mine(c) <=> (d = c /\ r # "reply")
<1>1. (\E q \in {"query", "filter", "corpus"} \cup Parts : Obj(d, r) = Obj(c, q)) <=> (d = c /\ r # "reply")
  BY ObjEq, RoleFacts DEF Roles
<1> QED
  BY <1>1 DEF Mine

\* A segment of a request holds the query or the filter.
LEMMA RequestRoles ==
  ASSUME ProcessType, NEW c \in Calls, NEW o \in Requests(c)
  PROVE  o = Obj(c, "query") \/ o = Obj(c, "filter")
<1>1. Of(c).req \subseteq {"query", "filter"}
  BY InfoFacts DEF ProcessType, CallType, Of
<1> QED
  BY <1>1 DEF Requests

\* The references after an answer, and after mapping one of its objects.
LEMMA RefsAfter ==
  ASSUME ShmType, NEW c \in Calls
  PROVE  /\ refs \ Refs("srv", c) \subseteq {"cli", "srv"} \X Objects
         /\ \A d \in Calls, r \in Roles :
              /\ <<"cli", Obj(d, r)>> \in refs \ Refs("srv", c) <=> <<"cli", Obj(d, r)>> \in refs
              /\ <<"srv", Obj(d, r)>> \in refs \ Refs("srv", c) <=> d # c /\ <<"srv", Obj(d, r)>> \in refs
         /\ refs \ Refs("cli", c) \subseteq {"cli", "srv"} \X Objects
         /\ \A d \in Calls, r \in Roles :
              /\ <<"srv", Obj(d, r)>> \in refs \ Refs("cli", c) <=> <<"srv", Obj(d, r)>> \in refs
              /\ <<"cli", Obj(d, r)>> \in refs \ Refs("cli", c) <=> d # c /\ <<"cli", Obj(d, r)>> \in refs
  BY DEF ShmType, Refs, Obj

\* The references after opening one object.
LEMMA RefsWith ==
  ASSUME ShmType, NEW c \in Calls, NEW q \in Roles, NEW side \in {"cli", "srv"}
  PROVE  /\ refs \cup {<<side, Obj(c, q)>>} \subseteq {"cli", "srv"} \X Objects
         /\ \A d \in Calls, r \in Roles, x \in {"cli", "srv"} :
              <<x, Obj(d, r)>> \in refs \cup {<<side, Obj(c, q)>>}
                <=> <<x, Obj(d, r)>> \in refs \/ (x = side /\ d = c /\ r = q)
  BY DEF ShmType, Obj, Objects

\* Nothing that belongs to call d has changed.
Same(d) ==
    /\ call'[d] = call[d] /\ part'[d] = part[d] /\ thr'[d].at = thr[d].at
    /\ \A r \in Roles :
          /\ Obj(d, r) \in names' <=> Obj(d, r) \in names
          /\ Obj(d, r) \in locked' <=> Obj(d, r) \in locked
          /\ Obj(d, r) \in young' <=> Obj(d, r) \in young
          /\ Obj(d, r) \in lost' <=> Obj(d, r) \in lost
          /\ Obj(d, r) \in aged' <=> Obj(d, r) \in aged
          /\ \A x \in {"cli", "srv"} : <<x, Obj(d, r)>> \in refs' <=> <<x, Obj(d, r)>> \in refs

\* What concerns call d alone is kept by steps of other calls.
LEMMA SameKeeps ==
  ASSUME ProcessType, NEW d \in Calls, CallInv(d), Same(d) PROVE CallInv(d)'
<1> USE DEF CallInv, Same
<1>1. ThreadShape(d)' /\ NameShape(d)' /\ LostShape(d)'
  BY DEF ThreadShape, NameShape, LostShape
<1>2. RefShape(d)' /\ LockShape(d)'
  BY DEF RefShape, LockShape
<1>3. CorpusShape(d)'
  BY RoleFacts DEF CorpusShape, Of
<1>4. GatherShape(d)'
  BY RoleFacts DEF GatherShape
<1>5. Requests(d)' = Requests(d)
  BY DEF Requests, Of
<1>6. RequestShape(d)'
  BY <1>5, RequestRoles, RoleFacts DEF RequestShape
<1> QED
  BY <1>1, <1>2, <1>3, <1>4, <1>6

\* The names of the request of call c are still there.
LEMMA RequestsKept ==
  ASSUME ProcessType, NEW c \in Calls, RequestShape(c), call'[c].kind = call[c].kind, call'[c].tier = call[c].tier,
         call'[c].at \in Asking => call[c].at \in Asking,
         \A r \in {"query", "filter"} : Obj(c, r) \in names => Obj(c, r) \in names'
  PROVE  RequestShape(c)'
<1>1. Requests(c)' = Requests(c)
  BY DEF Requests, Of
<1> QED
  BY <1>1, RequestRoles DEF RequestShape

\* Nothing is under way at the start.
LEMMA InitIInv == Init => IInv
<1> SUFFICES ASSUME Init PROVE IInv
  OBVIOUS
<1> USE DEF Init
<1>1. call \in CallType /\ \A c \in Calls : call[c].at = "idle"
  BY DEF NoCall, CallType, CallStates, KindNames, Tiers
<1>2. part \in PartType /\ conn \in ConnType
  BY DEF NoConn, NoParts, PartType, ConnType
<1>3. /\ thr \in [Calls -> [at : ThreadStates, todo : SUBSET Objects]]
      /\ \A c \in Calls : thr[c].todo \in Todo(c)
  BY DEF NoThread, ThreadStates, Todo
<1>4. ProcessType /\ ShmType
  BY <1>1, <1>2, <1>3 DEF ProcessType, ShmType
<1>5. \A c \in Calls : CallInv(c)
  BY <1>1 DEF CallInv, ThreadShape, NameShape, LostShape, RefShape, LockShape, CorpusShape,
     GatherShape, RequestShape, Before, Asking
<1> QED
  BY <1>4, <1>5 DEF IInv
-----------------------------------------------------------------------------
(* The daemon's thread.                                                    *)

\* A step of a thread that has no reply segment touches nothing but its own
\* mappings.
LEMMA ThreadStep ==
  ASSUME IInv, NEW c \in Calls, NEW a \in ThreadStates, ThreadMoved(c, a),
         thr[c].at \notin {"none", "fill"},
         UNCHANGED <<call, part, names, locked, young, lost, aged>>,
         conn' \in ConnType, refs' \subseteq {"cli", "srv"} \X Objects,
         \A d \in Calls, r \in Roles :
            /\ <<"cli", Obj(d, r)>> \in refs' <=> <<"cli", Obj(d, r)>> \in refs
            /\ d # c => (<<"srv", Obj(d, r)>> \in refs' <=> <<"srv", Obj(d, r)>> \in refs),
         \A r \in Roles : <<"srv", Obj(c, r)>> \in refs' => a # "none"
  PROVE  IInv'
<1> USE DEF IInv
<1>1. ProcessType' /\ ShmType'
  BY DEF ProcessType, ShmType, ThreadMoved
<1>2. ASSUME NEW d \in Calls, d # c PROVE CallInv(d)'
  BY <1>2, SameKeeps DEF Same, ThreadMoved
<1>3. CallInv(c)'
  <2> USE DEF CallInv
  <2>1. thr'[c].at = a /\ call[c].at \notin Before
    BY DEF ThreadMoved, ThreadShape
  <2>2. ThreadShape(c)' /\ NameShape(c)' /\ LostShape(c)' /\ RefShape(c)'
    BY <2>1 DEF ThreadShape, NameShape, LostShape, RefShape
  <2>3. LockShape(c)' /\ CorpusShape(c)'
    BY DEF LockShape, CorpusShape, Of
  <2>4. GatherShape(c)' /\ RequestShape(c)'
    BY <2>1, RequestsKept DEF GatherShape, Before
  <2> QED
    BY <2>2, <2>3, <2>4
<1> QED
  BY <1>1, <1>2, <1>3

\* An answer of a thread that has no reply segment keeps the invariant.
LEMMA AnswerStep ==
  ASSUME IInv, NEW c \in Calls, NEW reply \in {"ok", "err"}, Answer(c, reply, FALSE),
         thr[c].at \notin {"none", "fill"}, UNCHANGED <<call, part, names, locked, young, lost, aged>>
  PROVE  IInv'
<1>1. ThreadMoved(c, "none") /\ conn' \in ConnType /\ refs' = refs \ Refs("srv", c)
  BY AnswerMoves DEF IInv
<1> QED
  BY <1>1, RefsAfter, ThreadStep DEF IInv, ThreadStates

\* The prologue and the command frame.
LEMMA ReadCommandIInv ==
  ASSUME IInv, NEW c \in Calls, ReadCommand(c) PROVE IInv'
<1>1. thr[c].at = "cmd" /\ UNCHANGED <<call, part, names, locked, young, lost, aged>>
  BY DEF ReadCommand
<1>2. CASE Answer(c, "err", FALSE)
  BY <1>1, <1>2, AnswerStep
<1>3. ASSUME NEW a \in {"open", "frame"}, NEW T \in Todo(c), ThreadTo(c, a, T), UNCHANGED <<conn, refs>>
      PROVE  IInv'
  <2>1. ThreadMoved(c, a)
    BY <1>3, ThreadToMoves DEF IInv, ThreadStates
  <2> QED
    BY <1>1, <1>3, <2>1, ThreadStep DEF IInv, ThreadStates, ProcessType, ShmType, RefShape
<1>4. Needs(c) \in Todo(c) /\ {} \in Todo(c)
  BY NeedsOwn DEF IInv, Todo
<1> QED
  BY <1>2, <1>3, <1>4 DEF ReadCommand

\* The index directory, with the memfd of the corpus.
LEMMA ReadFrameIInv ==
  ASSUME IInv, NEW c \in Calls, ReadFrame(c) PROVE IInv'
<1>1. thr[c].at = "frame" /\ UNCHANGED <<call, part, conn, names, locked, young, lost, aged>>
  BY DEF ReadFrame
<1>2. Needs(c) \in Todo(c) /\ {} \in Todo(c)
  BY NeedsOwn DEF IInv, Todo
<1>3. PICK a \in {"open", "descs"} : ThreadMoved(c, a)
  BY <1>2, ThreadToMoves DEF ReadFrame, IInv, ThreadStates
<1>4. refs' \in {refs, refs \cup {<<"srv", Corpus(c)>>}}
  BY DEF ReadFrame
<1>5. /\ refs' \subseteq {"cli", "srv"} \X Objects
      /\ \A d \in Calls, r \in Roles :
            /\ <<"cli", Obj(d, r)>> \in refs' <=> <<"cli", Obj(d, r)>> \in refs
            /\ d # c => (<<"srv", Obj(d, r)>> \in refs' <=> <<"srv", Obj(d, r)>> \in refs)
  BY <1>4, RefsWith, RoleFacts DEF IInv, ShmType
<1> QED
  BY <1>1, <1>3, <1>5, ThreadStep DEF IInv, ThreadStates, ProcessType

\* The list of the partials.
LEMMA ReadDescsIInv ==
  ASSUME IInv, NEW c \in Calls, ReadDescs(c) PROVE IInv'
<1>1. thr[c].at = "descs" /\ UNCHANGED <<call, part, conn, names, locked, young, lost, refs, aged>>
  BY DEF ReadDescs, shm
<1>2. ThreadMoved(c, "open")
  BY NeedsOwn, ThreadToMoves DEF ReadDescs, IInv, ThreadStates
<1> QED
  BY <1>1, <1>2, ThreadStep DEF IInv, ThreadStates, ProcessType, ShmType

\* The client closed its end.
LEMMA ReadEofIInv ==
  ASSUME IInv, NEW c \in Calls, ReadEof(c) PROVE IInv'
<1>1. thr[c].at \in {"cmd", "frame", "descs"}
  BY DEF ReadEof
<1> QED
  BY <1>1, AnswerStep DEF ReadEof

\* shm_open and mmap of the next segment, or its absence.
LEMMA OpenNextIInv ==
  ASSUME IInv, NEW c \in Calls, OpenNext(c) PROVE IInv'
<1>1. thr[c].at = "open" /\ UNCHANGED <<call, part, names, locked, young, lost, aged>>
  BY DEF OpenNext
<1>2. PICK o \in thr[c].todo :
        \/ o \in names /\ refs' = refs \cup {<<"srv", o>>} /\ ThreadTo(c, "open", thr[c].todo \ {o}) /\ UNCHANGED conn
        \/ Answer(c, "err", FALSE)
  BY DEF OpenNext
<1>3. CASE Answer(c, "err", FALSE)
  BY <1>1, <1>3, AnswerStep
<1>4. CASE refs' = refs \cup {<<"srv", o>>} /\ ThreadTo(c, "open", thr[c].todo \ {o}) /\ UNCHANGED conn
  <2>1. thr[c].todo \ {o} \in Todo(c)
    BY DEF IInv, ProcessType, Todo
  <2>4. PICK q \in Roles : o = Obj(c, q)
    BY <1>2 DEF IInv, ProcessType, Todo, Obj, Objects
  <2>2. ThreadMoved(c, "open")
    BY <1>4, <2>1, ThreadToMoves DEF IInv, ThreadStates
  <2>3. /\ refs' \subseteq {"cli", "srv"} \X Objects
        /\ \A d \in Calls, r \in Roles :
              /\ <<"cli", Obj(d, r)>> \in refs' => <<"cli", Obj(d, r)>> \in refs
              /\ <<"srv", Obj(d, r)>> \in refs' => d = c \/ <<"srv", Obj(d, r)>> \in refs
    BY <1>4, <2>4, RefsWith DEF IInv
  <2> QED
    BY <1>1, <1>4, <2>2, <2>3, ThreadStep DEF IInv, ThreadStates, ProcessType
<1> QED
  BY <1>2, <1>3, <1>4

\* A refused request.
LEMMA RejectIInv ==
  ASSUME IInv, NEW c \in Calls, Reject(c) PROVE IInv'
  BY AnswerStep DEF Reject

\* The work is done and the request unmapped.
LEMMA WorkIInv ==
  ASSUME IInv, NEW c \in Calls, Work(c) PROVE IInv'
<1>1. thr[c].at = "open" /\ UNCHANGED <<call, part, names, locked, young, lost, aged>>
  BY DEF Work
<1>2. CASE Answer(c, "ok", FALSE)
  BY <1>1, <1>2, AnswerStep
<1>3. CASE refs' = refs \ Refs("srv", c) /\ ThreadTo(c, "reply", {}) /\ UNCHANGED conn
  <2>1. ThreadMoved(c, "reply")
    BY <1>3, ThreadToMoves DEF IInv, ThreadStates, Todo
  <2> QED
    BY <1>1, <1>3, <2>1, RefsAfter, ThreadStep DEF IInv, ThreadStates, ProcessType
<1> QED
  BY <1>2, <1>3 DEF Work

\* The reply segment gets its name, or is anonymous.
LEMMA MakeReplyIInv ==
  ASSUME IInv, NEW c \in Calls, MakeReply(c) PROVE IInv'
<1> USE DEF IInv
<1>1. /\ thr[c].at = "reply" /\ UNCHANGED <<call, part, conn, locked, young, lost, aged>>
      /\ names' \in {names, names \cup {Obj(c, "reply")}}
      /\ refs' = refs \cup {<<"srv", Obj(c, "reply")>>}
  BY DEF MakeReply, Reply
<1>2. ThreadMoved(c, "fill")
  BY ThreadToMoves DEF MakeReply, ThreadStates, Todo
<1>3. refs' \subseteq {"cli", "srv"} \X Objects /\ names' \subseteq Objects
  BY <1>1, RefsWith, ObjEq, RoleFacts DEF ShmType
<1>4. ProcessType' /\ ShmType'
  BY <1>1, <1>2, <1>3 DEF ProcessType, ShmType, ThreadMoved
<1>5. ASSUME NEW d \in Calls, d # c PROVE CallInv(d)'
  BY <1>1, <1>2, <1>5, RefsWith, ObjEq, RoleFacts, SameKeeps DEF Same, ThreadMoved
<1>6. CallInv(c)'
  <2> USE DEF CallInv
  <2>1. thr'[c].at = "fill" /\ call[c].at \notin Before
    BY <1>1, <1>2 DEF ThreadMoved, ThreadShape
  <2>2. \A r \in Roles : /\ Obj(c, r) \in names' => r = "reply" \/ Obj(c, r) \in names
                         /\ Obj(c, r) \in names => Obj(c, r) \in names'
                         /\ <<"cli", Obj(c, r)>> \in refs' => <<"cli", Obj(c, r)>> \in refs
    BY <1>1, RefsWith, ObjEq, RoleFacts
  <2>3. ThreadShape(c)' /\ NameShape(c)' /\ LostShape(c)' /\ RefShape(c)'
    BY <1>1, <2>1, <2>2 DEF ThreadShape, NameShape, LostShape, RefShape
  <2>4. LockShape(c)' /\ CorpusShape(c)'
    BY <1>1, <2>1, <2>2, RoleFacts DEF LockShape, CorpusShape, Of, Before
  <2>5. GatherShape(c)' /\ RequestShape(c)'
    BY <1>1, <2>1, <2>2, RoleFacts, RequestsKept DEF GatherShape, Before
  <2> QED
    BY <2>3, <2>4, <2>5
<1> QED
  BY <1>4, <1>5, <1>6

\* The reply segment loses its name before its thread ends.
LEMMA FillReplyIInv ==
  ASSUME IInv, NEW c \in Calls, FillReply(c) PROVE IInv'
<1> USE DEF IInv
<1>1. /\ thr[c].at = "fill" /\ UNCHANGED <<call, part, locked, young, lost, aged>>
      /\ names' = names \ {Obj(c, "reply")}
  BY DEF FillReply, Reply
<1>2. ThreadMoved(c, "none") /\ conn' \in ConnType /\ refs' = refs \ Refs("srv", c)
  BY AnswerMoves DEF FillReply
<1>3. ProcessType' /\ ShmType'
  BY <1>1, <1>2, RefsAfter DEF ProcessType, ShmType, ThreadMoved
<1>4. ASSUME NEW d \in Calls, d # c PROVE CallInv(d)'
  BY <1>1, <1>2, <1>4, RefsAfter, ObjEq, RoleFacts, SameKeeps DEF Same, ThreadMoved
<1>5. CallInv(c)'
  <2> USE DEF CallInv
  <2>1. thr'[c].at = "none" /\ call[c].at \notin Before
    BY <1>1, <1>2 DEF ThreadMoved, ThreadShape
  <2>2. \A r \in Roles : /\ Obj(c, r) \in names' <=> (r # "reply" /\ Obj(c, r) \in names)
                         /\ <<"cli", Obj(c, r)>> \in refs' => <<"cli", Obj(c, r)>> \in refs
                         /\ <<"srv", Obj(c, r)>> \notin refs'
    BY <1>1, <1>2, RefsAfter, ObjEq, RoleFacts
  <2>3. Obj(c, "reply") \notin lost \cup locked \cup young
    BY <1>1, RoleFacts DEF LostShape, LockShape
  <2>4. ThreadShape(c)' /\ NameShape(c)' /\ LostShape(c)' /\ RefShape(c)'
    BY <1>1, <2>1, <2>2, <2>3 DEF ThreadShape, NameShape, LostShape, RefShape
  <2>5. LockShape(c)' /\ CorpusShape(c)'
    BY <1>1, <2>2, <2>3 DEF LockShape, CorpusShape, Of
  <2>6. GatherShape(c)' /\ RequestShape(c)'
    BY <1>1, <2>1, <2>2, RoleFacts, RequestsKept DEF GatherShape, Before
  <2> QED
    BY <2>4, <2>5, <2>6
<1> QED
  BY <1>3, <1>4, <1>5

-----------------------------------------------------------------------------
(* The client.                                                             *)

\* A call starts with no object of its own.
LEMMA BeginIInv ==
  ASSUME IInv, NEW c \in Calls, NEW k \in KindSet, NEW t \in Tiers, NEW old \in BOOLEAN, Begin(c, k, t, old)
  PROVE  IInv'
<1> USE DEF IInv
<1> DEFINE a == IF Info[k].corpus THEN "corpus" ELSE IF k = "multi" THEN "gather" ELSE "stage"
<1>1. /\ call[c].at = "idle" /\ thr[c].at = "none" /\ UNCHANGED <<thr, locked, refs>>
      /\ call' = [call EXCEPT ![c] = [kind |-> k, tier |-> t, old |-> old, at |-> a]]
      /\ part' = [part EXCEPT ![c] = NoParts] /\ conn' = [conn EXCEPT ![c] = NoConn]
      /\ names' = {o \in names : o[1] # c} /\ lost' = {o \in lost : o[1] # c}
      /\ young' = {o \in young : o[1] # c} /\ aged' = {o \in aged : o[1] # c}
  BY DEF Begin
<1>2. /\ a \in {"corpus", "gather", "stage"} /\ k \in KindNames
      /\ (a = "gather" => k = "multi") /\ (a = "stage" => ~Info[k].corpus)
  BY KindAssumption
<1> HIDE DEF a
<1>3. /\ call' \in CallType /\ \A d \in Calls : d # c => call'[d] = call[d]
      /\ call'[c].at = a /\ call'[c].kind = k /\ call'[c].tier = t
  BY <1>1, <1>2 DEF ProcessType, CallType, CallStates
<1>4. /\ part' \in PartType /\ \A d \in Calls : d # c => part'[d] = part[d]
      /\ \A p \in Parts : part'[c][p] = "none"
  BY <1>1 DEF ProcessType, PartType, NoParts
<1>5. conn' \in ConnType
  BY <1>1 DEF ProcessType, ConnType, NoConn
<1>6. \A d \in Calls, r \in Roles :
         /\ Obj(d, r) \in names' <=> (d # c /\ Obj(d, r) \in names)
         /\ Obj(d, r) \in lost' <=> (d # c /\ Obj(d, r) \in lost)
         /\ Obj(d, r) \in young' <=> (d # c /\ Obj(d, r) \in young)
         /\ Obj(d, r) \in aged' <=> (d # c /\ Obj(d, r) \in aged)
  BY <1>1, ObjEq
<1>7. ProcessType' /\ ShmType'
  BY <1>1, <1>3, <1>4, <1>5 DEF ProcessType, ShmType
<1>8. ASSUME NEW d \in Calls, d # c PROVE CallInv(d)'
  BY <1>1, <1>3, <1>4, <1>6, <1>8, SameKeeps DEF Same
<1>9. CallInv(c)'
  <2> USE DEF CallInv
  <2>1. \A r \in Roles : /\ Obj(c, r) \notin locked
                         /\ <<"cli", Obj(c, r)>> \notin refs /\ <<"srv", Obj(c, r)>> \notin refs
    BY <1>1 DEF LockShape, RefShape
  <2>2. ThreadShape(c)' /\ NameShape(c)' /\ LostShape(c)' /\ RefShape(c)' /\ LockShape(c)'
    BY <1>1, <1>3, <1>6, <2>1 DEF ThreadShape, NameShape, LostShape, RefShape, LockShape
  <2>3. CorpusShape(c)' /\ GatherShape(c)' /\ RequestShape(c)'
    BY <1>1, <1>2, <1>3, <1>4, <1>6, <2>1, RoleFacts DEF CorpusShape, GatherShape, RequestShape, Of, Asking
  <2> QED
    BY <2>2, <2>3
<1> QED
  BY <1>7, <1>8, <1>9

\* open_memfd, open_shm or the heap buffer: a new name is young.
LEMMA OpenCorpusIInv ==
  ASSUME IInv, NEW c \in Calls, OpenCorpus(c) PROVE IInv'
<1> USE DEF IInv
<1>1. /\ call[c].at = "corpus" /\ UNCHANGED <<part, conn, thr, locked, lost, aged>>
      /\ \/ names' = names \cup {Obj(c, "corpus")} /\ young' = young \cup {Obj(c, "corpus")} /\ call[c].tier = "shm"
         \/ names' = names /\ young' = young /\ call[c].tier # "shm"
      /\ refs' \in {refs, refs \cup {<<"cli", Obj(c, "corpus")>>}}
  BY DEF OpenCorpus, Corpus
<1>2. PICK a \in {"lock", "scan"} : Moved(c, a) /\ (a = "lock" <=> call[c].tier = "shm")
  BY ToMoves DEF OpenCorpus, ProcessType, CallStates
<1>3. ProcessType' /\ ShmType'
  BY <1>1, <1>2, ObjEq, RoleFacts, RefsWith DEF ProcessType, ShmType, Moved
<1>4. ASSUME NEW d \in Calls, d # c PROVE CallInv(d)'
  BY <1>1, <1>2, <1>4, ObjEq, RoleFacts, RefsWith, SameKeeps DEF Same, Moved
<1>5. CallInv(c)'
  <2> USE DEF CallInv
  <2>1. call'[c].at = a /\ call'[c].kind = call[c].kind /\ call'[c].tier = call[c].tier
    BY <1>2 DEF Moved
  <2>2. \A r \in Roles :
          /\ Obj(c, r) \in names' <=> (Obj(c, r) \in names \/ (r = "corpus" /\ a = "lock"))
          /\ Obj(c, r) \in young' <=> (Obj(c, r) \in young \/ (r = "corpus" /\ a = "lock"))
          /\ <<"srv", Obj(c, r)>> \in refs' <=> <<"srv", Obj(c, r)>> \in refs
    BY <1>1, <1>2, ObjEq, RoleFacts, RefsWith
  <2>3. ThreadShape(c)' /\ NameShape(c)'
    BY <1>1, <1>2, <2>1, <2>2, RoleFacts DEF ThreadShape, NameShape, Before
  <2>4. LostShape(c)' /\ RefShape(c)'
    BY <1>1, <1>2, <2>1, <2>2, RoleFacts DEF LostShape, RefShape, Before
  <2>5. LockShape(c)' /\ CorpusShape(c)'
    BY <1>1, <1>2, <2>1, <2>2, RoleFacts DEF LockShape, CorpusShape, Of
  <2>6. GatherShape(c)'
    BY <1>1, <1>2, <2>1, <2>2, RoleFacts DEF GatherShape
  <2>7. RequestShape(c)'
    BY <1>1, <1>2, <2>1, <2>2, RequestsKept, RoleFacts DEF Asking
  <2> QED
    BY <2>3, <2>4, <2>5, <2>6, <2>7
<1> QED
  BY <1>3, <1>4, <1>5

\* The lock of a named corpus, or its removal.
LEMMA LockCorpusIInv ==
  ASSUME IInv, NEW c \in Calls, LockCorpus(c) PROVE IInv'
<1> USE DEF IInv
<1>1. call[c].at = "lock" /\ UNCHANGED <<part, conn, thr, lost, aged>>
  BY DEF LockCorpus
<1>2. CASE locked' = locked \cup {Obj(c, "corpus")} /\ To(c, "scan") /\ UNCHANGED <<names, young, refs>>
  <2>1. Moved(c, "scan")
    BY <1>2, ToMoves DEF ProcessType, CallStates
  <2>2. ProcessType' /\ ShmType'
    BY <1>1, <1>2, <2>1, ObjEq, RoleFacts DEF ProcessType, ShmType, Moved
  <2>3. ASSUME NEW d \in Calls, d # c PROVE CallInv(d)'
    BY <1>1, <1>2, <2>1, <2>3, ObjEq, RoleFacts, SameKeeps DEF Same, Moved
  <2>4. CallInv(c)'
    <3> USE DEF CallInv
    <3>1. call'[c].at = "scan" /\ call'[c].kind = call[c].kind /\ call'[c].tier = call[c].tier
      BY <2>1 DEF Moved
    <3>2. \A r \in Roles : Obj(c, r) \in locked' <=> (Obj(c, r) \in locked \/ r = "corpus")
      BY <1>2, ObjEq, RoleFacts
    <3>3. ThreadShape(c)' /\ NameShape(c)'
      BY <1>1, <1>2, <3>1 DEF ThreadShape, NameShape, Before
    <3>4. LostShape(c)' /\ RefShape(c)'
      BY <1>1, <1>2, <3>1 DEF LostShape, RefShape, Before
    <3>5. LockShape(c)' /\ CorpusShape(c)'
      BY <1>1, <1>2, <3>1, <3>2, RoleFacts DEF LockShape, CorpusShape
    <3>6. GatherShape(c)' /\ RequestShape(c)'
      BY <3>1 DEF GatherShape, RequestShape, Asking
    <3> QED
      BY <3>3, <3>4, <3>5, <3>6
  <2> QED
    BY <2>2, <2>3, <2>4
<1>3. CASE /\ names' = names \ {Obj(c, "corpus")} /\ young' = young \ {Obj(c, "corpus")}
           /\ refs' = refs \ {<<"cli", Obj(c, "corpus")>>}
           /\ call' = [call EXCEPT ![c].at = IF call[c].kind = "build" THEN "scan" ELSE "over", ![c].tier = "heap"]
           /\ UNCHANGED locked
  <2>1. /\ call' \in CallType /\ call'[c].at \in {"scan", "over"} /\ call'[c].tier = "heap"
        /\ \A d \in Calls : d # c => call'[d] = call[d]
    <3>1. PICK a \in {"scan", "over"} : call' = [call EXCEPT ![c].at = a, ![c].tier = "heap"]
      BY <1>3
    <3>2. call[c] \in [at : CallStates, kind : KindNames, tier : Tiers, old : BOOLEAN]
      BY DEF ProcessType, CallType
    <3>3. [[call[c] EXCEPT !.at = a] EXCEPT !.tier = "heap"] \in [at : CallStates, kind : KindNames, tier : Tiers, old : BOOLEAN]
      BY <3>2 DEF CallStates, Tiers
    <3>4. call' = [call EXCEPT ![c] = [[call[c] EXCEPT !.at = a] EXCEPT !.tier = "heap"]]
      BY <3>1 DEF ProcessType, CallType
    <3> QED
      BY <3>2, <3>3, <3>4 DEF ProcessType, CallType
  <2>2. ProcessType' /\ ShmType'
    BY <1>1, <1>3, <2>1 DEF ProcessType, ShmType
  <2>3. \A d \in Calls, r \in Roles :
          /\ Obj(d, r) \in names' <=> (Obj(d, r) \in names /\ ~(d = c /\ r = "corpus"))
          /\ Obj(d, r) \in young' <=> (Obj(d, r) \in young /\ ~(d = c /\ r = "corpus"))
          /\ \A x \in {"cli", "srv"} :
                <<x, Obj(d, r)>> \in refs' <=> (<<x, Obj(d, r)>> \in refs /\ ~(x = "cli" /\ d = c /\ r = "corpus"))
    BY <1>3, ObjEq, RoleFacts
  <2>4. ASSUME NEW d \in Calls, d # c PROVE CallInv(d)'
    BY <1>1, <1>3, <2>1, <2>3, <2>4, SameKeeps DEF Same
  <2>5. CallInv(c)'
    <3> USE DEF CallInv
    <3>1. \A r \in Roles : Obj(c, r) \notin locked
      BY <1>1 DEF LockShape
    <3>2. Obj(c, "corpus") \notin lost
      BY <1>1, RoleFacts DEF LostShape
    <3>3. ThreadShape(c)' /\ NameShape(c)'
      BY <1>1, <2>1, <2>3 DEF ThreadShape, NameShape, Before
    <3>4. LostShape(c)' /\ RefShape(c)'
      BY <1>1, <2>1, <2>3, <3>2 DEF LostShape, RefShape, Before
    <3>5. LockShape(c)' /\ CorpusShape(c)'
      BY <1>1, <1>3, <2>1, <2>3, <3>1 DEF LockShape, CorpusShape
    <3>6. GatherShape(c)' /\ RequestShape(c)'
      BY <2>1 DEF GatherShape, RequestShape, Asking
    <3> QED
      BY <3>3, <3>4, <3>5, <3>6
  <2> QED
    BY <2>2, <2>4, <2>5
<1> QED
  BY <1>2, <1>3 DEF LockCorpus, Corpus

\* The heap scan ends.
LEMMA ScanIInv ==
  ASSUME IInv, NEW c \in Calls, Scan(c) PROVE IInv'
<1> USE DEF IInv
<1>1. /\ call[c].at = "scan" /\ UNCHANGED <<part, conn, thr, names, locked, refs, lost, aged>>
      /\ young' \in {young, young \cup ({Obj(c, "corpus")} \cap names)}
  BY DEF Scan, Resized, Corpus
<1>2. PICK a \in {"stage", "over"} : Moved(c, a)
  BY ToMoves DEF Scan, ProcessType, CallStates
<1>3. ProcessType' /\ ShmType'
  BY <1>1, <1>2 DEF ProcessType, ShmType, Moved
<1>4. ASSUME NEW d \in Calls, d # c PROVE CallInv(d)'
  BY <1>1, <1>2, <1>4, ObjEq, RoleFacts, SameKeeps DEF Same, Moved
<1>5. CallInv(c)'
  <2> USE DEF CallInv
  <2>1. call'[c].at = a /\ call'[c].kind = call[c].kind /\ call'[c].tier = call[c].tier
    BY <1>2 DEF Moved
  <2>2. \A r \in Roles : Obj(c, r) \in young' => Obj(c, r) \in young \/ (r = "corpus" /\ Obj(c, r) \in names)
    BY <1>1, ObjEq, RoleFacts
  <2>3. ThreadShape(c)' /\ NameShape(c)'
    BY <1>1, <1>2, <2>1, <2>2, RoleFacts DEF ThreadShape, NameShape, Before
  <2>4. LostShape(c)' /\ RefShape(c)'
    BY <1>1, <1>2, <2>1, <2>2, RoleFacts DEF LostShape, RefShape, Before
  <2>5. LockShape(c)' /\ CorpusShape(c)'
    BY <1>1, <1>2, <2>1, <2>2, RoleFacts DEF LockShape, CorpusShape, Of
  <2>6. GatherShape(c)'
    BY <1>1, <1>2, <2>1, <2>2, RoleFacts DEF GatherShape
  <2>7. RequestShape(c)'
    BY <1>1, <1>2, <2>1, <2>2, RequestsKept, RoleFacts DEF Asking
  <2> QED
    BY <2>3, <2>4, <2>5, <2>6, <2>7
<1> QED
  BY <1>3, <1>4, <1>5

\* A step of the exchange moves the call, and may start its thread, but
\* leaves the shared memory alone.
LEMMA QuietStep ==
  ASSUME IInv, NEW c \in Calls, NEW a \in {"connect", "send", "wait", "over"}, NEW b \in ThreadStates,
         Moved(c, a), ThreadMoved(c, b), UNCHANGED <<part, names, locked, young, refs, lost, aged>>,
         conn' \in ConnType, call[c].at \in {"scan", "stage", "gather", "connect", "send", "wait"},
         b = thr[c].at \/ (thr[c].at = "none" /\ call[c].at \in Before /\ a # "connect"),
         a = "connect" => call[c].at \in Before,
         a \in Asking => call[c].at \in Asking \/ Requests(c) \subseteq names
  PROVE  IInv'
<1> USE DEF IInv
<1>1. ProcessType' /\ ShmType'
  BY DEF ProcessType, ShmType, Moved, ThreadMoved
<1>2. ASSUME NEW d \in Calls, d # c PROVE CallInv(d)'
  BY <1>2, SameKeeps DEF Same, Moved, ThreadMoved
<1>3. CallInv(c)'
  <2> USE DEF CallInv
  <2>1. /\ call'[c].at = a /\ call'[c].kind = call[c].kind /\ call'[c].tier = call[c].tier
        /\ thr'[c].at = b
    BY DEF Moved, ThreadMoved
  <2>2. ThreadShape(c)'
    BY <2>1 DEF ThreadShape, Before
  <2>3. NameShape(c)'
    BY <2>1 DEF NameShape, LostShape, Before
  <2>4. LostShape(c)' /\ RefShape(c)'
    BY <2>1 DEF LostShape, RefShape, Before
  <2>5. LockShape(c)'
    BY <2>1 DEF LockShape
  <2>6. Of(c)' = Of(c) /\ Requests(c)' = Requests(c)
    BY MovedRequests
  <2>7. CorpusShape(c)'
    BY <2>1, <2>6, InfoFacts DEF CorpusShape, GatherShape, Of
  <2>8. GatherShape(c)'
    BY <2>1 DEF GatherShape
  <2>9. RequestShape(c)'
    BY <2>1, <2>6 DEF RequestShape
  <2> QED
    BY <2>2, <2>3, <2>4, <2>5, <2>7, <2>8, <2>9
<1> QED
  BY <1>1, <1>2, <1>3

\* A thread that is left alone has not moved.
LEMMA ThreadStays == ASSUME ProcessType, UNCHANGED thr, NEW c \in Calls PROVE ThreadMoved(c, thr[c].at)
  BY DEF ProcessType, ThreadMoved

\* A time-out or a cancel.
LEMMA GiveUpIInv ==
  ASSUME IInv, NEW c \in Calls, GiveUp(c) PROVE IInv'
<1>1. call[c].at = "wait" /\ UNCHANGED <<part, conn, thr, names, locked, young, refs, lost, aged>>
  BY DEF GiveUp, shm
<1>2. Moved(c, "over")
  BY ToMoves DEF GiveUp, IInv, ProcessType, CallStates
<1>3. conn' \in ConnType /\ thr[c].at \in ThreadStates
  BY <1>1 DEF IInv, ProcessType
<1> QED
  BY <1>1, <1>2, <1>3, ThreadStays, QuietStep DEF IInv, Asking

\* The next frame, or a closed peer.
LEMMA SendIInv ==
  ASSUME IInv, NEW c \in Calls, Send(c) PROVE IInv'
<1>1. call[c].at = "send" /\ UNCHANGED <<part, thr, names, locked, young, refs, lost, aged>>
  BY DEF Send, shm
<1>2. PICK a \in {"send", "wait", "over"} : Moved(c, a)
  <2>1. CASE UNCHANGED call
    BY <1>1, <2>1 DEF Moved, IInv, ProcessType
  <2>2. CASE To(c, "wait") \/ To(c, "over")
    BY <2>2, ToMoves DEF IInv, ProcessType, CallStates
  <2> QED
    BY <2>1, <2>2 DEF Send
<1>3. conn' \in ConnType
  <2>1. conn \in ConnType
    BY DEF IInv, ProcessType
  <2>2. CASE conn' = [conn EXCEPT ![c].sent = @ + 1]
    <3>1. conn[c] \in [sent : Nat, open : BOOLEAN, reply : {"none", "ok", "err"}, fd : BOOLEAN]
      BY <2>1 DEF ConnType
    <3>2. conn[c].sent + 1 \in Nat
      BY <3>1
    <3>3. conn' = [conn EXCEPT ![c] = [conn[c] EXCEPT !.sent = conn[c].sent + 1]]
      BY <2>1, <2>2 DEF ConnType
    <3>4. [conn[c] EXCEPT !.sent = conn[c].sent + 1] \in [sent : Nat, open : BOOLEAN, reply : {"none", "ok", "err"}, fd : BOOLEAN]
      BY <3>1, <3>2
    <3> QED
      BY <2>1, <3>3, <3>4 DEF ConnType
  <2> QED
    BY <2>1, <2>2 DEF Send
<1>4. thr[c].at \in ThreadStates
  BY DEF IInv, ProcessType
<1> QED
  BY <1>1, <1>2, <1>3, <1>4, ThreadStays, QuietStep DEF IInv, Asking

\* A connection starts a thread.
LEMMA ConnectIInv ==
  ASSUME IInv, NEW c \in Calls, Connect(c) PROVE IInv'
<1>1. /\ call[c].at = "connect" /\ UNCHANGED <<part, names, locked, young, refs, lost, aged>>
      /\ thr[c].at = "none"
  BY DEF Connect, shm, IInv, CallInv, ThreadShape, Before
<1>2. CASE To(c, "over") /\ UNCHANGED <<conn, thr>>
  <2>1. Moved(c, "over")
    BY <1>2, ToMoves DEF IInv, ProcessType, CallStates
  <2>2. conn' \in ConnType
    BY <1>2 DEF IInv, ProcessType
  <2> QED
    BY <1>1, <1>2, <2>1, <2>2, ThreadStays, QuietStep DEF IInv, Asking, ThreadStates
<1>3. CASE /\ conn' = [conn EXCEPT ![c] = [NoConn EXCEPT !.open = TRUE]]
           /\ thr' = [thr EXCEPT ![c] = [at |-> "cmd", todo |-> {}]]
           /\ To(c, "send")
  <2>1. Moved(c, "send")
    BY <1>3, ToMoves DEF IInv, ProcessType, CallStates
  <2>2. conn' \in ConnType
    BY <1>3 DEF IInv, ProcessType, ConnType, NoConn
  <2>3. {} \in Todo(c) /\ "cmd" \in ThreadStates /\ ThreadTo(c, "cmd", {})
    BY <1>3 DEF ThreadTo, ThreadStates, Todo
  <2>4. ThreadMoved(c, "cmd")
    BY <2>3, ThreadToMoves DEF IInv
  <2> QED
    BY <1>1, <2>1, <2>2, <2>3, <2>4, QuietStep DEF IInv, Asking, Before
<1> QED
  BY <1>2, <1>3 DEF Connect

\* The next segment of the request, or the end of staging.
LEMMA StageIInv ==
  ASSUME IInv, NEW c \in Calls, Stage(c) PROVE IInv'
<1> USE DEF IInv
<1>1. call[c].at = "stage" /\ UNCHANGED <<part, conn, thr, locked, young, lost, aged>>
  BY DEF Stage
<1>2. CASE /\ UNCHANGED <<names, refs>>
           /\ (To(c, "connect") /\ Requests(c) \subseteq names) \/ To(c, "over")
  <2>1. PICK a \in {"connect", "over"} : Moved(c, a) /\ (a = "connect" => Requests(c) \subseteq names)
    BY <1>2, ToMoves DEF ProcessType, CallStates
  <2>2. conn' \in ConnType /\ thr[c].at \in ThreadStates
    BY <1>1 DEF ProcessType
  <2> QED
    BY <1>1, <1>2, <2>1, <2>2, ThreadStays, QuietStep DEF Asking, Before
<1>3. ASSUME NEW o \in Requests(c), names' = names \cup {o}, refs' = refs \cup {<<"cli", o>>}, UNCHANGED call
      PROVE  IInv'
  <2>1. PICK q \in {"query", "filter"} : o = Obj(c, q)
    BY RequestRoles
  <2>2. q \in Roles
    BY <2>1, RoleFacts
  <2>3. /\ names' \subseteq Objects /\ refs' \subseteq {"cli", "srv"} \X Objects
        /\ \A d \in Calls, r \in Roles :
              /\ Obj(d, r) \in names' <=> (Obj(d, r) \in names \/ (d = c /\ r = q))
              /\ <<"srv", Obj(d, r)>> \in refs' <=> <<"srv", Obj(d, r)>> \in refs
              /\ d # c => (<<"cli", Obj(d, r)>> \in refs' <=> <<"cli", Obj(d, r)>> \in refs)
    BY <1>3, <2>1, <2>2, ObjEq, RefsWith DEF ShmType
  <2>4. ProcessType' /\ ShmType'
    BY <1>1, <1>3, <2>3 DEF ProcessType, ShmType
  <2>5. ASSUME NEW d \in Calls, d # c PROVE CallInv(d)'
    BY <1>1, <1>3, <2>3, <2>5, SameKeeps DEF Same
  <2>6. CallInv(c)'
    <3> USE DEF CallInv
    <3>1. ThreadShape(c)' /\ NameShape(c)'
      BY <1>1, <1>3, <2>1, <2>3 DEF ThreadShape, NameShape, Before
    <3>2. LostShape(c)' /\ RefShape(c)'
      BY <1>1, <1>3, <2>3 DEF LostShape, RefShape, Before
    <3>3. LockShape(c)' /\ CorpusShape(c)'
      BY <1>1, <1>3, <2>3 DEF LockShape, CorpusShape, Of
    <3>4. GatherShape(c)' /\ RequestShape(c)'
      BY <1>1, <1>3 DEF GatherShape, RequestShape, Asking
    <3> QED
      BY <3>1, <3>2, <3>3, <3>4
  <2> QED
    BY <2>4, <2>5, <2>6
<1>4. \/ UNCHANGED <<names, refs>> /\ ((To(c, "connect") /\ Requests(c) \subseteq names) \/ To(c, "over"))
      \/ \E o \in Requests(c) : names' = names \cup {o} /\ refs' = refs \cup {<<"cli", o>>} /\ UNCHANGED call
  BY DEF Stage
<1> QED
  BY <1>2, <1>3, <1>4

\* The reply arrives, possibly with a descriptor.
LEMMA ReceiveIInv ==
  ASSUME IInv, NEW c \in Calls, Receive(c) PROVE IInv'
<1> USE DEF IInv
<1>1. /\ call[c].at = "wait" /\ UNCHANGED <<part, thr, names, locked, young, lost, aged>>
      /\ refs' \in {refs, refs \cup {<<"cli", Obj(c, "reply")>>}}
  BY DEF Receive, Reply
<1>2. Moved(c, "over")
  BY ToMoves DEF Receive, ProcessType, CallStates
<1>3. conn' \in ConnType
  BY DEF Receive, ProcessType, ConnType
<1>4. /\ refs' \subseteq {"cli", "srv"} \X Objects
      /\ \A d \in Calls, r \in Roles :
            /\ <<"srv", Obj(d, r)>> \in refs' <=> <<"srv", Obj(d, r)>> \in refs
            /\ d # c => (<<"cli", Obj(d, r)>> \in refs' <=> <<"cli", Obj(d, r)>> \in refs)
  BY <1>1, RefsWith, RoleFacts DEF ShmType
<1>5. ProcessType' /\ ShmType'
  BY <1>1, <1>2, <1>3, <1>4 DEF ProcessType, ShmType, Moved
<1>6. ASSUME NEW d \in Calls, d # c PROVE CallInv(d)'
  BY <1>1, <1>2, <1>4, <1>6, SameKeeps DEF Same, Moved
<1>7. CallInv(c)'
  <2> USE DEF CallInv
  <2>1. call'[c].at = "over"
    BY <1>2 DEF Moved
  <2>2. ThreadShape(c)' /\ NameShape(c)'
    BY <1>1, <2>1 DEF ThreadShape, NameShape, Before
  <2>3. LostShape(c)' /\ RefShape(c)'
    BY <1>1, <1>4, <2>1 DEF LostShape, RefShape, Before
  <2>4. LockShape(c)' /\ CorpusShape(c)'
    BY <1>1, <2>1 DEF LockShape, CorpusShape
  <2>5. GatherShape(c)' /\ RequestShape(c)'
    BY <2>1 DEF GatherShape, RequestShape, Asking
  <2> QED
    BY <2>2, <2>3, <2>4, <2>5
<1> QED
  BY <1>5, <1>6, <1>7

\* Cleanup takes every name, lock and descriptor of the call.
LEMMA CleanupIInv ==
  ASSUME IInv, NEW c \in Calls, Cleanup(c) PROVE IInv'
<1> USE DEF IInv
<1>1. /\ call[c].at = "over" /\ UNCHANGED <<part, thr, lost, aged>> /\ names' = names \ Mine(c)
      /\ locked' = locked \ Mine(c) /\ young' = young \ Mine(c) /\ refs' = refs \ Refs("cli", c)
  BY DEF Cleanup
<1>2. Moved(c, "idle")
  BY ToMoves DEF Cleanup, ProcessType, CallStates
<1>3. conn' \in ConnType
  <2>1. conn \in ConnType
    BY DEF ProcessType
  <2>2. conn' = [conn EXCEPT ![c].open = FALSE, ![c].fd = FALSE]
    BY DEF Cleanup
  <2> QED
    BY <2>1, <2>2 DEF ConnType
<1>4. \A d \in Calls, r \in Roles :
         /\ Obj(d, r) \in names' <=> (Obj(d, r) \in names /\ ~(d = c /\ r # "reply"))
         /\ Obj(d, r) \in locked' <=> (Obj(d, r) \in locked /\ ~(d = c /\ r # "reply"))
         /\ Obj(d, r) \in young' <=> (Obj(d, r) \in young /\ ~(d = c /\ r # "reply"))
  BY <1>1, MineFacts
<1>5. ProcessType' /\ ShmType'
  BY <1>1, <1>2, <1>3, RefsAfter DEF ProcessType, ShmType, Moved
<1>6. ASSUME NEW d \in Calls, d # c PROVE CallInv(d)'
  BY <1>1, <1>2, <1>4, <1>6, RefsAfter, SameKeeps DEF Same, Moved
<1>7. CallInv(c)'
  <2> USE DEF CallInv
  <2>1. call'[c].at = "idle"
    BY <1>2 DEF Moved
  <2>2. ThreadShape(c)' /\ NameShape(c)'
    BY <1>1, <1>4, <2>1 DEF ThreadShape, NameShape, Before
  <2>3. LostShape(c)'
    BY <1>1, <1>4, <2>1 DEF LostShape, Before
  <2>4. RefShape(c)'
    BY <1>1, RefsAfter DEF RefShape
  <2>5. LockShape(c)' /\ CorpusShape(c)'
    BY <1>4, <2>1, RoleFacts DEF LockShape, CorpusShape
  <2>6. GatherShape(c)' /\ RequestShape(c)'
    BY <2>1 DEF GatherShape, RequestShape, Asking
  <2> QED
    BY <2>2, <2>3, <2>4, <2>5, <2>6
<1> QED
  BY <1>5, <1>6, <1>7

\* A terminated backend leaves its names, without a lock.
LEMMA TerminateIInv ==
  ASSUME IInv, NEW c \in Calls, Terminate(c) PROVE IInv'
<1> USE DEF IInv
<1>1. /\ call[c].at \in {"gather", "scan"} /\ UNCHANGED <<part, conn, thr, names, young, aged>>
      /\ lost' = lost \cup (Mine(c) \cap names)
      /\ locked' = locked \ Mine(c) /\ refs' = refs \ Refs("cli", c)
  BY DEF Terminate
<1>2. Moved(c, "idle")
  BY ToMoves DEF Terminate, ProcessType, CallStates
<1>3. \A d \in Calls, r \in Roles :
         /\ Obj(d, r) \in lost' <=> (Obj(d, r) \in lost \/ (d = c /\ r # "reply" /\ Obj(d, r) \in names))
         /\ Obj(d, r) \in locked' <=> (Obj(d, r) \in locked /\ ~(d = c /\ r # "reply"))
  BY <1>1, MineFacts
<1>4. ProcessType' /\ ShmType'
  BY <1>1, <1>2, RefsAfter DEF ProcessType, ShmType, Moved
<1>5. ASSUME NEW d \in Calls, d # c PROVE CallInv(d)'
  BY <1>1, <1>2, <1>3, <1>5, RefsAfter, SameKeeps DEF Same, Moved
<1>6. CallInv(c)'
  <2> USE DEF CallInv
  <2>1. call'[c].at = "idle"
    BY <1>2 DEF Moved
  <2>2. ThreadShape(c)' /\ NameShape(c)'
    BY <1>1, <1>3, <2>1 DEF ThreadShape, NameShape, Before
  <2>3. LostShape(c)'
    BY <1>1, <1>3, <2>1 DEF LostShape, Before
  <2>4. RefShape(c)'
    BY <1>1, RefsAfter DEF RefShape
  <2>5. LockShape(c)' /\ CorpusShape(c)'
    BY <1>1, <1>3, <2>1, RoleFacts DEF LockShape, CorpusShape
  <2>6. GatherShape(c)' /\ RequestShape(c)'
    BY <2>1 DEF GatherShape, RequestShape, Asking
  <2> QED
    BY <2>2, <2>3, <2>4, <2>5, <2>6
<1> QED
  BY <1>4, <1>5, <1>6

\* Participant p of call c is in state s now, and nobody else has moved.
PartMoved(c, p, s) ==
    /\ part' \in PartType
    /\ \A d \in Calls : d # c => part'[d] = part[d]
    /\ \A q \in Parts : part'[c][q] = IF q = p THEN s ELSE part[c][q]

\* An update of the state of one participant is such a move.
LEMMA PartMoves ==
  ASSUME ProcessType, NEW c \in Calls, NEW p \in Parts, NEW s \in {"open", "scan", "detached", "empty"},
         part' = [part EXCEPT ![c][p] = s]
  PROVE  PartMoved(c, p, s)
  BY DEF ProcessType, PartType, PartMoved

\* A step of one participant: it may touch its own partial only.
LEMMA PartStep ==
  ASSUME IInv, NEW c \in Calls, NEW p \in Parts, NEW s \in {"open", "scan", "detached", "empty"},
         PartMoved(c, p, s), call[c].at = "gather", UNCHANGED <<call, conn, thr, lost, aged>>, ShmType',
         part[c][p] \in {"none", "open"} \/ s # "open",
         \A d \in Calls, r \in Roles : ~(d = c /\ r = p) =>
            /\ Obj(d, r) \in names' <=> Obj(d, r) \in names
            /\ Obj(d, r) \in locked' <=> Obj(d, r) \in locked
            /\ Obj(d, r) \in young' <=> Obj(d, r) \in young
            /\ <<"cli", Obj(d, r)>> \in refs' <=> <<"cli", Obj(d, r)>> \in refs,
         \A d \in Calls, r \in Roles : <<"srv", Obj(d, r)>> \in refs' <=> <<"srv", Obj(d, r)>> \in refs,
         Obj(c, p) \in names' => s # "empty",
         Obj(c, p) \in locked' => Obj(c, p) \in names',
         Obj(c, p) \in young' => Obj(c, p) \in names' \cup aged,
         Obj(c, p) \in locked' => s = "scan",
         s = "open" => Obj(c, p) \in young',
         <<"cli", Obj(c, p)>> \in refs' => s \in {"open", "scan"}
  PROVE  IInv'
<1> USE DEF IInv
<1>1. ProcessType'
  BY DEF ProcessType, PartMoved
<1>2. ASSUME NEW d \in Calls, d # c PROVE CallInv(d)'
  BY <1>2, SameKeeps DEF Same, PartMoved
<1>3. CallInv(c)'
  <2> USE DEF CallInv
  <2>1. \A r \in Roles : r # "reply" => Obj(c, r) \notin lost
    BY DEF LostShape
  <2>2. ThreadShape(c)' /\ NameShape(c)'
    BY RoleFacts DEF ThreadShape, NameShape
  <2>3. LostShape(c)' /\ RefShape(c)'
    BY <2>1, RoleFacts DEF LostShape, RefShape
  <2>4. LockShape(c)' /\ CorpusShape(c)'
    BY RoleFacts DEF LockShape, CorpusShape
  <2>5. GatherShape(c)'
    <3>1. call'[c].at = "gather" /\ call'[c].kind = "multi"
      BY DEF GatherShape
    <3>2. \A r \in Roles : Obj(c, r) \in names' => r \in Parts /\ part'[c][r] \in {"open", "scan", "detached"}
      BY DEF GatherShape, PartMoved
    <3>3. \A r \in Roles : <<"cli", Obj(c, r)>> \in refs' => r \in Parts /\ part'[c][r] \in {"open", "scan"}
      BY DEF GatherShape, PartMoved
    <3>4. \A r \in Roles : Obj(c, r) \in locked' => r \in Parts /\ part'[c][r] = "scan"
      BY DEF GatherShape, PartMoved
    <3>5. \A q \in Parts : part'[c][q] = "open" => Obj(c, q) \in young'
      <4> SUFFICES ASSUME NEW q \in Parts, part'[c][q] = "open" PROVE Obj(c, q) \in young'
        OBVIOUS
      <4>1. q \in Roles
        BY RoleFacts
      <4>2. CASE q # p
        <5>1. part[c][q] = "open"
          BY <4>2 DEF PartMoved
        <5> QED
          BY <4>1, <4>2, <5>1 DEF GatherShape
      <4>3. CASE q = p
        BY <4>3 DEF PartMoved
      <4> QED
        BY <4>2, <4>3
    <3>6. \A q \in Parts : part'[c][q] \in {"none", "open"} => Obj(c, q) \notin aged'
      BY RoleFacts DEF GatherShape, PartMoved
    <3> QED
      BY <3>1, <3>2, <3>3, <3>4, <3>5, <3>6 DEF GatherShape
  <2>6. RequestShape(c)'
    BY DEF RequestShape, Asking
  <2> QED
    BY <2>2, <2>3, <2>4, <2>5, <2>6
<1> QED
  BY <1>1, <1>2, <1>3

\* A new partial is young.
LEMMA PartOpenIInv ==
  ASSUME IInv, NEW c \in Calls, NEW p \in Parts, PartOpen(c, p) PROVE IInv'
<1>1. /\ call[c].at = "gather" /\ part[c][p] = "none" /\ UNCHANGED <<call, conn, thr, locked, lost, aged>>
      /\ names' = names \cup {Obj(c, p)} /\ young' = young \cup {Obj(c, p)}
      /\ refs' = refs \cup {<<"cli", Obj(c, p)>>}
  BY DEF PartOpen
<1>2. PartMoved(c, p, "open") /\ p \in Roles
  BY PartMoves, RoleFacts DEF PartOpen, IInv
<1>3. ShmType'
  BY <1>1, <1>2, RefsWith, ObjEq DEF IInv, ShmType
<1>4. \A d \in Calls, r \in Roles :
         /\ Obj(d, r) \in names' <=> (Obj(d, r) \in names \/ (d = c /\ r = p))
         /\ Obj(d, r) \in young' <=> (Obj(d, r) \in young \/ (d = c /\ r = p))
         /\ <<"cli", Obj(d, r)>> \in refs' <=> (<<"cli", Obj(d, r)>> \in refs \/ (d = c /\ r = p))
         /\ <<"srv", Obj(d, r)>> \in refs' <=> <<"srv", Obj(d, r)>> \in refs
  BY <1>1, <1>2, RefsWith, ObjEq DEF IInv
<1>5. Obj(c, p) \notin locked'
  BY <1>1, <1>2 DEF IInv, CallInv, GatherShape
<1>6. Obj(c, p) \in names' /\ Obj(c, p) \in young'
  BY <1>1
<1>7. \A d \in Calls, r \in Roles : ~(d = c /\ r = p) =>
         /\ Obj(d, r) \in names' <=> Obj(d, r) \in names
         /\ Obj(d, r) \in locked' <=> Obj(d, r) \in locked
         /\ Obj(d, r) \in young' <=> Obj(d, r) \in young
         /\ <<"cli", Obj(d, r)>> \in refs' <=> <<"cli", Obj(d, r)>> \in refs
  BY <1>1, <1>4
<1>8. \A d \in Calls, r \in Roles : <<"srv", Obj(d, r)>> \in refs' <=> <<"srv", Obj(d, r)>> \in refs
  BY <1>1, <1>4
<1>9. PICK s \in {"open", "scan", "detached", "empty"} : PartMoved(c, p, s) /\ s \in {"open", "scan"}
  BY <1>2
<1>10. part[c][p] \in {"none", "open"} /\ call[c].at = "gather" /\ UNCHANGED <<call, conn, thr, lost, aged>>
  BY <1>1
<1>11. /\ Obj(c, p) \in names' => s # "empty"
       /\ Obj(c, p) \in locked' => Obj(c, p) \in names'
       /\ Obj(c, p) \in young' => Obj(c, p) \in names' \cup aged
       /\ Obj(c, p) \in locked' => s = "scan"
       /\ s = "open" => Obj(c, p) \in young'
       /\ <<"cli", Obj(c, p)>> \in refs' => s \in {"open", "scan"}
       /\ part[c][p] \in {"none", "open"} \/ s # "open"
  BY <1>5, <1>6, <1>9, <1>10
<1> QED
  BY <1>3, <1>7, <1>8, <1>9, <1>10, <1>11, PartStep

\* A young partial gets its lock.
LEMMA PartLockIInv ==
  ASSUME IInv, NEW c \in Calls, NEW p \in Parts, PartLock(c, p) PROVE IInv'
<1>1. /\ call[c].at = "gather" /\ part[c][p] = "open" /\ UNCHANGED <<call, conn, thr, names, young, refs, lost, aged>>
      /\ locked' = locked \cup {Obj(c, p)}
  BY DEF PartLock
<1>2. PartMoved(c, p, "scan") /\ p \in Roles
  BY PartMoves, RoleFacts DEF PartLock, IInv
<1>3. ShmType'
  BY <1>1, <1>2, ObjEq DEF IInv, ShmType
<1>4. \A d \in Calls, r \in Roles : Obj(d, r) \in locked' <=> (Obj(d, r) \in locked \/ (d = c /\ r = p))
  BY <1>1, <1>2, ObjEq
<1>5. Obj(c, p) \in young' /\ Obj(c, p) \in names'
  BY <1>1, <1>2 DEF IInv, CallInv, GatherShape, LockShape
<1>6. \A d \in Calls, r \in Roles : ~(d = c /\ r = p) =>
         /\ Obj(d, r) \in names' <=> Obj(d, r) \in names
         /\ Obj(d, r) \in locked' <=> Obj(d, r) \in locked
         /\ Obj(d, r) \in young' <=> Obj(d, r) \in young
         /\ <<"cli", Obj(d, r)>> \in refs' <=> <<"cli", Obj(d, r)>> \in refs
  BY <1>1, <1>4
<1>7. \A d \in Calls, r \in Roles : <<"srv", Obj(d, r)>> \in refs' <=> <<"srv", Obj(d, r)>> \in refs
  BY <1>1, <1>4
<1> QED
  <2> PICK s \in {"open", "scan", "detached", "empty"} : s = "scan"
    OBVIOUS
  <2>1. PartMoved(c, p, s) /\ UNCHANGED <<call, conn, thr, lost, aged>> /\ call[c].at = "gather"
    BY <1>1, <1>2
  <2>2. s # "empty" /\ s # "open" /\ s \in {"open", "scan"}
    OBVIOUS
  <2> QED
    BY <1>3, <1>5, <1>6, <1>7, <2>1, <2>2, PartStep

\* A detached partial has a name and nothing else.
LEMMA PartDetachIInv ==
  ASSUME IInv, NEW c \in Calls, NEW p \in Parts, PartDetach(c, p) PROVE IInv'
<1>1. /\ call[c].at = "gather" /\ part[c][p] = "scan" /\ UNCHANGED <<call, conn, thr, names, lost, aged>>
      /\ young' \in {young, young \cup ({Obj(c, p)} \cap names)}
      /\ locked' = locked \ {Obj(c, p)} /\ refs' = refs \ {<<"cli", Obj(c, p)>>}
  BY DEF PartDetach, Resized
<1>2. PartMoved(c, p, "detached") /\ p \in Roles
  BY PartMoves, RoleFacts DEF PartDetach, IInv
<1>3. ShmType'
  BY <1>1 DEF IInv, ShmType
<1>4. \A d \in Calls, r \in Roles :
         /\ Obj(d, r) \in locked' <=> (Obj(d, r) \in locked /\ ~(d = c /\ r = p))
         /\ ~(d = c /\ r = p) => (Obj(d, r) \in young' <=> Obj(d, r) \in young)
         /\ Obj(d, r) \in young' => Obj(d, r) \in young \/ Obj(d, r) \in names
         /\ <<"cli", Obj(d, r)>> \in refs' <=> (<<"cli", Obj(d, r)>> \in refs /\ ~(d = c /\ r = p))
         /\ <<"srv", Obj(d, r)>> \in refs' <=> <<"srv", Obj(d, r)>> \in refs
  BY <1>1, <1>2, ObjEq
<1>5. Obj(c, p) \in young => Obj(c, p) \in names \cup aged
  BY <1>2 DEF IInv, CallInv, LockShape
<1>6. /\ Obj(c, p) \notin locked' /\ <<"cli", Obj(c, p)>> \notin refs'
      /\ Obj(c, p) \in young' => Obj(c, p) \in names' \cup aged
  BY <1>1, <1>2, <1>4, <1>5
<1>7. \A d \in Calls, r \in Roles : ~(d = c /\ r = p) =>
         /\ Obj(d, r) \in names' <=> Obj(d, r) \in names
         /\ Obj(d, r) \in locked' <=> Obj(d, r) \in locked
         /\ Obj(d, r) \in young' <=> Obj(d, r) \in young
         /\ <<"cli", Obj(d, r)>> \in refs' <=> <<"cli", Obj(d, r)>> \in refs
  BY <1>1, <1>4
<1>8. \A d \in Calls, r \in Roles : <<"srv", Obj(d, r)>> \in refs' <=> <<"srv", Obj(d, r)>> \in refs
  BY <1>4
<1>9. call[c].at = "gather" /\ UNCHANGED <<call, conn, thr, lost, aged>>
  BY <1>1
<1> QED
  BY <1>2, <1>3, <1>6, <1>7, <1>8, <1>9, PartStep

\* An empty share leaves nothing.
LEMMA PartEmptyIInv ==
  ASSUME IInv, NEW c \in Calls, NEW p \in Parts, PartEmpty(c, p) PROVE IInv'
<1>1. /\ call[c].at = "gather" /\ part[c][p] = "scan" /\ UNCHANGED <<call, conn, thr, lost, aged>>
      /\ names' = names \ {Obj(c, p)} /\ young' = young \ {Obj(c, p)}
      /\ locked' = locked \ {Obj(c, p)} /\ refs' = refs \ {<<"cli", Obj(c, p)>>}
  BY DEF PartEmpty
<1>2. PartMoved(c, p, "empty") /\ p \in Roles
  BY PartMoves, RoleFacts DEF PartEmpty, IInv
<1>3. ShmType'
  BY <1>1 DEF IInv, ShmType
<1>4. \A d \in Calls, r \in Roles :
         /\ Obj(d, r) \in names' <=> (Obj(d, r) \in names /\ ~(d = c /\ r = p))
         /\ Obj(d, r) \in locked' <=> (Obj(d, r) \in locked /\ ~(d = c /\ r = p))
         /\ Obj(d, r) \in young' <=> (Obj(d, r) \in young /\ ~(d = c /\ r = p))
         /\ <<"cli", Obj(d, r)>> \in refs' <=> (<<"cli", Obj(d, r)>> \in refs /\ ~(d = c /\ r = p))
         /\ <<"srv", Obj(d, r)>> \in refs' <=> <<"srv", Obj(d, r)>> \in refs
  BY <1>1, <1>2, ObjEq
<1>5. /\ Obj(c, p) \notin names' /\ Obj(c, p) \notin locked' /\ Obj(c, p) \notin young'
      /\ <<"cli", Obj(c, p)>> \notin refs'
  BY <1>2, <1>4
<1>6. \A d \in Calls, r \in Roles : ~(d = c /\ r = p) =>
         /\ Obj(d, r) \in names' <=> Obj(d, r) \in names
         /\ Obj(d, r) \in locked' <=> Obj(d, r) \in locked
         /\ Obj(d, r) \in young' <=> Obj(d, r) \in young
         /\ <<"cli", Obj(d, r)>> \in refs' <=> <<"cli", Obj(d, r)>> \in refs
  BY <1>1, <1>4
<1>7. \A d \in Calls, r \in Roles : <<"srv", Obj(d, r)>> \in refs' <=> <<"srv", Obj(d, r)>> \in refs
  BY <1>4
<1>8. call[c].at = "gather" /\ UNCHANGED <<call, conn, thr, lost, aged>>
  BY <1>1
<1> QED
  BY <1>2, <1>3, <1>5, <1>6, <1>7, <1>8, PartStep

\* A worker that never started has nothing.
LEMMA PartNotLaunchedIInv ==
  ASSUME IInv, NEW c \in Calls, NEW p \in Parts, PartNotLaunched(c, p) PROVE IInv'
<1>1. /\ call[c].at = "gather" /\ part[c][p] = "none"
      /\ UNCHANGED <<call, conn, thr, names, locked, young, refs, lost, aged>>
  BY DEF PartNotLaunched, shm
<1>2. PartMoved(c, p, "empty") /\ p \in Roles
  BY PartMoves, RoleFacts DEF PartNotLaunched, IInv
<1>3. ShmType'
  BY <1>1 DEF IInv, ShmType
<1>4. Obj(c, p) \notin names /\ Obj(c, p) \notin locked \cup young /\ <<"cli", Obj(c, p)>> \notin refs
  BY <1>1, <1>2 DEF IInv, CallInv, GatherShape, LockShape
<1> QED
  BY <1>1, <1>2, <1>3, <1>4, PartStep

\* All partials are handed over, or the table was empty.
LEMMA GatheredIInv ==
  ASSUME IInv, NEW c \in Calls, Gathered(c) PROVE IInv'
<1> USE DEF IInv
<1>1. /\ call[c].at = "gather" /\ UNCHANGED <<part, conn, thr, names, locked, young, refs, lost, aged>>
      /\ \A p \in Parts : part[c][p] \in {"detached", "empty"}
      /\ To(c, IF Partials(c) = {} THEN "idle" ELSE "connect")
  BY DEF Gathered, shm
<1>2. Requests(c) = {}
  BY <1>1, InfoFacts DEF CallInv, GatherShape, Requests, Of
<1>3. conn' \in ConnType /\ thr[c].at \in ThreadStates
  BY <1>1 DEF ProcessType
<1>4. CASE Partials(c) # {}
  <2>1. Moved(c, "connect")
    BY <1>1, <1>4, ToMoves DEF ProcessType, CallStates
  <2> QED
    BY <1>1, <1>2, <1>3, <2>1, ThreadStays, QuietStep DEF Asking, Before
<1>5. CASE Partials(c) = {}
  <2>1. Moved(c, "idle")
    BY <1>1, <1>5, ToMoves DEF ProcessType, CallStates
  <2>2. \A p \in Parts : part[c][p] = "empty"
    BY <1>1, <1>5 DEF Partials
  <2>3. \A r \in Roles : Obj(c, r) \notin names /\ Obj(c, r) \notin locked /\ <<"cli", Obj(c, r)>> \notin refs
    BY <1>1, <2>2 DEF CallInv, GatherShape
  <2>4. ProcessType' /\ ShmType'
    BY <1>1, <2>1 DEF ProcessType, ShmType, Moved
  <2>5. ASSUME NEW d \in Calls, d # c PROVE CallInv(d)'
    BY <1>1, <2>1, <2>5, SameKeeps DEF Same, Moved
  <2>6. CallInv(c)'
    <3> USE DEF CallInv
    <3>1. call'[c].at = "idle"
      BY <2>1 DEF Moved
    <3>2. ThreadShape(c)' /\ NameShape(c)' /\ LostShape(c)' /\ RefShape(c)'
      BY <1>1, <2>3, <3>1 DEF ThreadShape, NameShape, LostShape, RefShape, Before
    <3>3. LockShape(c)' /\ CorpusShape(c)' /\ GatherShape(c)' /\ RequestShape(c)'
      BY <1>1, <2>3, <3>1 DEF LockShape, CorpusShape, GatherShape, RequestShape, Asking
    <3> QED
      BY <3>2, <3>3
  <2> QED
    BY <2>4, <2>5, <2>6
<1> QED
  BY <1>4, <1>5

\* A failed gathering: what was not closed is lost, but has no lock.
LEMMA GatherFailsIInv ==
  ASSUME IInv, NEW c \in Calls, NEW p \in Parts, GatherFails(c, p) PROVE IInv'
<1> USE DEF IInv
<1> DEFINE closed == {q \in {p, Leader} : part[c][q] \in {"open", "scan"}}
           gone == {Obj(c, q) : q \in closed}
           left == {Obj(c, q) : q \in Parts} \cap (names \ gone)
<1>1. /\ call[c].at = "gather" /\ UNCHANGED <<part, conn, thr, aged>>
      /\ names' = names \ gone /\ young' = young \ gone /\ lost' = lost \cup left
      /\ locked' = locked \ {Obj(c, q) : q \in Parts} /\ refs' = refs \ Refs("cli", c)
  BY DEF GatherFails
<1>2. Moved(c, "idle")
  BY ToMoves DEF GatherFails, ProcessType, CallStates
<1>3. closed \subseteq Parts
  BY PartsAssumption
<1>4. \A d \in Calls, r \in Roles :
         /\ Obj(d, r) \in gone <=> (d = c /\ r \in closed)
         /\ Obj(d, r) \in {Obj(c, q) : q \in Parts} <=> (d = c /\ r \in Parts)
  BY <1>3, ObjEq, RoleFacts
<1> HIDE DEF closed, gone
<1>5. \A d \in Calls, r \in Roles :
         /\ Obj(d, r) \in names' <=> (Obj(d, r) \in names /\ ~(d = c /\ r \in closed))
         /\ Obj(d, r) \in young' <=> (Obj(d, r) \in young /\ ~(d = c /\ r \in closed))
         /\ Obj(d, r) \in locked' <=> (Obj(d, r) \in locked /\ ~(d = c /\ r \in Parts))
         /\ Obj(d, r) \in lost' <=> (Obj(d, r) \in lost \/ (d = c /\ r \in Parts /\ Obj(d, r) \in names'))
  BY <1>1, <1>4
<1> HIDE DEF left
<1>6. lost' \subseteq Objects
  BY <1>1 DEF ShmType, left
<1>7. ProcessType' /\ ShmType'
  BY <1>1, <1>2, <1>6, RefsAfter DEF ProcessType, ShmType, Moved
<1>8. ASSUME NEW d \in Calls, d # c PROVE CallInv(d)'
  BY <1>1, <1>2, <1>5, <1>8, RefsAfter, SameKeeps DEF Same, Moved
<1>9. CallInv(c)'
  <2> USE DEF CallInv
  <2>1. call'[c].at = "idle"
    BY <1>2 DEF Moved
  <2>2. \A r \in Roles : Obj(c, r) \in names => r \in Parts
    BY <1>1 DEF GatherShape
  <2>3. \A r \in Roles : Obj(c, r) \in lost => Obj(c, r) \in names /\ r = "reply"
    BY <1>1 DEF LostShape
  <2>4. ThreadShape(c)' /\ NameShape(c)' /\ LostShape(c)'
    BY <1>1, <1>5, <2>1, <2>2, <2>3, RoleFacts DEF ThreadShape, NameShape, LostShape, Before
  <2>5. RefShape(c)'
    BY <1>1, RefsAfter DEF RefShape
  <2>6. LockShape(c)' /\ CorpusShape(c)'
    BY <1>1, <1>5, <2>1, <2>2, RoleFacts DEF LockShape, CorpusShape
  <2>7. GatherShape(c)' /\ RequestShape(c)'
    BY <2>1 DEF GatherShape, RequestShape, Asking
  <2> QED
    BY <2>4, <2>5, <2>6, <2>7
<1> QED
  BY <1>7, <1>8, <1>9

-----------------------------------------------------------------------------
(* Time, the reaper and the deaths of processes.                           *)

\* A locked corpus that grows is young again.
LEMMA GrowIInv ==
  ASSUME IInv, NEW o \in locked, Grow(o) PROVE IInv'
<1> USE DEF IInv
<1>1. PICK c \in Calls, q \in Roles : o = Obj(c, q)
  BY ObjOf DEF ShmType
<1>2. young' = young \cup {Obj(c, q)} /\ UNCHANGED <<call, part, conn, thr, names, locked, refs, lost, aged>>
  BY <1>1 DEF Grow
<1>3. ProcessType' /\ ShmType'
  BY <1>1, <1>2 DEF ProcessType, ShmType
<1>4. \A d \in Calls, r \in Roles : Obj(d, r) \in young' <=> (Obj(d, r) \in young \/ (d = c /\ r = q))
  BY <1>1, <1>2, ObjEq
<1>5. ASSUME NEW d \in Calls, d # c PROVE CallInv(d)'
  BY <1>2, <1>4, <1>5, SameKeeps DEF Same
<1>6. CallInv(c)'
  <2> USE DEF CallInv
  <2>1. ThreadShape(c)' /\ NameShape(c)' /\ LostShape(c)' /\ RefShape(c)'
    BY <1>2 DEF ThreadShape, NameShape, LostShape, RefShape
  <2>2. LockShape(c)' /\ CorpusShape(c)'
    BY <1>1, <1>2, <1>4, RoleFacts DEF LockShape, CorpusShape, Of
  <2>3. GatherShape(c)' /\ RequestShape(c)'
    BY <1>2, <1>4, RoleFacts, RequestsKept DEF GatherShape
  <2> QED
    BY <2>1, <2>2, <2>3
<1> QED
  BY <1>3, <1>5, <1>6

\* Only a corpus that is locked, lost or detached grows old, and none of those
\* has to be young.
LEMMA AgeIInv ==
  ASSUME IInv, NEW o \in young, Age(o) PROVE IInv'
<1> USE DEF IInv
<1>1. PICK c \in Calls, q \in Roles : o = Obj(c, q)
  BY ObjOf DEF ShmType
<1>2. /\ young' = young \ {Obj(c, q)} /\ UNCHANGED <<call, part, conn, thr, names, locked, refs, lost, aged>>
      /\ Obj(c, q) \in locked \/ Obj(c, q) \in lost \/ (q \in Parts /\ part[c][q] = "detached")
  BY <1>1, ObjEq DEF Age
<1>3. ProcessType' /\ ShmType'
  BY <1>2 DEF ProcessType, ShmType
<1>4. \A d \in Calls, r \in Roles : Obj(d, r) \in young' <=> (Obj(d, r) \in young /\ ~(d = c /\ r = q))
  BY <1>1, <1>2, ObjEq
<1>5. ASSUME NEW d \in Calls, d # c PROVE CallInv(d)'
  BY <1>2, <1>4, <1>5, SameKeeps DEF Same
<1>6. CallInv(c)'
  <2> USE DEF CallInv
  <2>1. ThreadShape(c)' /\ NameShape(c)' /\ LostShape(c)' /\ RefShape(c)'
    BY <1>2 DEF ThreadShape, NameShape, LostShape, RefShape
  <2>2. LockShape(c)'
    BY <1>2, <1>4 DEF LockShape
  <2>3. call[c].at = "lock" => q # "corpus"
    BY <1>1, <1>2, RoleFacts DEF LockShape, LostShape
  <2>4. call[c].at = "gather" => (q \in Parts => part[c][q] # "open")
    BY <1>1, <1>2, RoleFacts DEF GatherShape, LostShape
  <2>5. CorpusShape(c)'
    BY <1>2, <1>4, <2>3, RoleFacts DEF CorpusShape, Of
  <2>6. GatherShape(c)' /\ RequestShape(c)'
    BY <1>2, <1>4, <2>4, RoleFacts, RequestsKept DEF GatherShape
  <2> QED
    BY <2>1, <2>2, <2>5, <2>6
<1> QED
  BY <1>3, <1>5, <1>6

\* What a reaper is at: a corpus that his stat found old enough, and whose
\* lock, once he has it, nobody else gets.
Findings == [at : {"idle"}, o : {<<>>}] \cup [at : {"old", "open", "mine"}, o : Objects]
ReapInv ==
    /\ reap \in [Reapers -> Findings]
    /\ \A r \in Reapers : reap[r].at # "idle" =>
          /\ reap[r].o \in aged /\ Reapable(reap[r].o)
          /\ reap[r].at = "mine" => reap[r].o \notin locked

\* A step that leaves the reapers alone, and locks nothing they have looked at.
LEMMA ReapInvKept ==
  ASSUME ReapInv, UNCHANGED <<reap, aged>>, \A o \in aged : o \in locked' => o \in locked
  PROVE  ReapInv'
  BY DEF ReapInv, Findings, Reapable

\* The stat: what a reaper finds old is neither about to be locked nor new.
LEMMA ReapStatIInv ==
  ASSUME IInv, NEW r \in Reapers, ReapStat(r) PROVE IInv'
<1> USE DEF IInv
<1>1. PICK o \in names \ young : aged' = aged \cup {o}
  BY DEF ReapStat
<1>2. UNCHANGED <<call, part, conn, thr, names, locked, young, refs, lost>>
  BY DEF ReapStat, shm
<1>3. PICK c \in Calls, q \in Roles : o = Obj(c, q)
  BY <1>1, ObjOf DEF ShmType
<1>4. ProcessType' /\ ShmType'
  BY <1>1, <1>2 DEF ProcessType, ShmType
<1>5. \A d \in Calls, x \in Roles : Obj(d, x) \in aged' <=> (Obj(d, x) \in aged \/ (d = c /\ x = q))
  BY <1>1, <1>3, ObjEq
<1>6. ASSUME NEW d \in Calls, d # c PROVE CallInv(d)'
  BY <1>2, <1>5, <1>6, SameKeeps DEF Same
<1>7. CallInv(c)'
  <2> USE DEF CallInv
  <2>1. ThreadShape(c)' /\ NameShape(c)' /\ LostShape(c)' /\ RefShape(c)'
    BY <1>2 DEF ThreadShape, NameShape, LostShape, RefShape
  <2>2. LockShape(c)'
    BY <1>2, <1>5 DEF LockShape
  <2>3. call[c].at \in {"corpus", "lock"} => q # "corpus"
    BY <1>1, <1>3 DEF CorpusShape
  <2>4. CorpusShape(c)'
    BY <1>2, <1>5, <2>3, RoleFacts DEF CorpusShape, Of
  <2>5. call[c].at = "gather" => q \in Parts /\ part[c][q] \in {"scan", "detached"}
    BY <1>1, <1>3 DEF GatherShape
  <2>6. GatherShape(c)' /\ RequestShape(c)'
    BY <1>2, <1>5, <2>5, RoleFacts, RequestsKept DEF GatherShape
  <2> QED
    BY <2>1, <2>2, <2>4, <2>6
<1> QED
  BY <1>4, <1>6, <1>7

\* The unlink: the name has no lock, so its build is dead or it was detached.
LEMMA ReapUnlinkIInv ==
  ASSUME IInv, ReapInv, NEW r \in Reapers, ReapUnlink(r) PROVE IInv'
<1> USE DEF IInv
<1>1. reap[r].at = "mine" /\ reap[r].o \in aged /\ Reapable(reap[r].o) /\ reap[r].o \notin locked
  BY DEF ReapUnlink, ReapInv
<1>2. PICK c \in Calls, q \in Roles : reap[r].o = Obj(c, q)
  BY <1>1, ObjOf DEF ShmType
<1>3. /\ names' = names \ {Obj(c, q)} /\ lost' = lost \ {Obj(c, q)}
      /\ UNCHANGED <<call, part, conn, thr, locked, young, refs, aged>>
      /\ Obj(c, q) \in aged /\ Obj(c, q) \notin locked /\ q \in {"corpus"} \cup Parts
  BY <1>1, <1>2, ObjEq DEF ReapUnlink, Reapable
<1>4. ProcessType' /\ ShmType'
  BY <1>3 DEF ProcessType, ShmType
<1>5. \A d \in Calls, x \in Roles :
         /\ Obj(d, x) \in names' <=> (Obj(d, x) \in names /\ ~(d = c /\ x = q))
         /\ Obj(d, x) \in lost' <=> (Obj(d, x) \in lost /\ ~(d = c /\ x = q))
  BY <1>3, ObjEq
<1>6. ASSUME NEW d \in Calls, d # c PROVE CallInv(d)'
  BY <1>3, <1>5, <1>6, SameKeeps DEF Same
<1>7. CallInv(c)'
  <2> USE DEF CallInv
  <2>1. ThreadShape(c)' /\ NameShape(c)' /\ LostShape(c)' /\ RefShape(c)'
    BY <1>3, <1>5 DEF ThreadShape, NameShape, LostShape, RefShape
  <2>2. LockShape(c)' /\ CorpusShape(c)'
    BY <1>3, <1>5, RoleFacts DEF LockShape, CorpusShape, Of
  <2>3. GatherShape(c)'
    BY <1>3, <1>5, RoleFacts DEF GatherShape
  <2>4. q # "query" /\ q # "filter"
    BY <1>3, RoleFacts
  <2>5. RequestShape(c)'
    BY <1>3, <1>5, <2>4, RoleFacts, RequestsKept
  <2> QED
    BY <2>1, <2>2, <2>3, <2>5
<1> QED
  BY <1>4, <1>6, <1>7

\* A reaper's step touches the shared memory at its unlink only.
LEMMA ReapIInv ==
  ASSUME IInv, ReapInv, NEW r \in Reapers, Reap(r) PROVE IInv'
<1>1. CASE ReapOpen(r) \/ ReapLock(r)
  <2>1. UNCHANGED <<call, part, conn, thr, names, locked, young, refs, lost, aged>>
    BY <1>1 DEF ReapOpen, ReapLock, shm
  <2>2. ProcessType' /\ ShmType'
    BY <2>1 DEF IInv, ProcessType, ShmType
  <2>3. \A c \in Calls : CallInv(c)'
    BY <2>1, SameKeeps DEF IInv, Same
  <2> QED
    BY <2>2, <2>3 DEF IInv
<1> QED
  BY <1>1, ReapStatIInv, ReapUnlinkIInv DEF Reap

\* What a reaper does to his own finding.
LEMMA ReapReapInv ==
  ASSUME IInv, ReapInv, NEW r \in Reapers, Reap(r) PROVE ReapInv'
<1>1. UNCHANGED locked /\ aged \subseteq aged'
  BY DEF Reap, ReapStat, ReapOpen, ReapLock, ReapUnlink, shm
<1>2. \A s \in Reapers : s # r => reap'[s] = reap[s]
  BY DEF Reap, ReapStat, ReapOpen, ReapLock, ReapUnlink, ReapTo, ReapNext, ReapInv
<1>3. /\ reap' \in [Reapers -> Findings]
      /\ reap'[r].at # "idle" =>
            /\ reap'[r].o \in aged' /\ Reapable(reap'[r].o)
            /\ reap'[r].at = "mine" => reap'[r].o \notin locked
  <2>1. CASE ReapStat(r)
    <3>1. PICK o \in names : /\ Reapable(o) /\ reap' = [reap EXCEPT ![r] = [at |-> "old", o |-> o]]
                             /\ aged' = aged \cup {o}
      BY <2>1 DEF ReapStat
    <3>2. o \in Objects
      BY DEF IInv, ShmType
    <3>3. [at |-> "old", o |-> o] \in Findings
      BY <3>2 DEF Findings
    <3> QED
      BY <3>1, <3>3 DEF ReapInv
  <2>2. ASSUME ReapNext(r) PROVE reap' \in [Reapers -> Findings] /\ reap'[r].at = "idle"
    <3>1. Resting \in Findings /\ Resting.at = "idle"
      BY DEF Findings, Resting
    <3> QED
      BY <2>2, <3>1 DEF ReapNext, ReapInv
  <2>3. ASSUME NEW a \in {"open", "mine"}, ReapTo(r, a), reap[r].at # "idle"
        PROVE  /\ reap' \in [Reapers -> Findings]
               /\ reap'[r].at = a /\ reap'[r].o = reap[r].o
    <3>1. reap[r] \in Findings /\ reap[r] \in [at : {"old", "open", "mine"}, o : Objects]
      BY <2>3 DEF ReapInv, Findings
    <3>2. [reap[r] EXCEPT !.at = a] = [at |-> a, o |-> reap[r].o] /\ [at |-> a, o |-> reap[r].o] \in Findings
      BY <3>1 DEF Findings
    <3>3. reap' = [reap EXCEPT ![r] = [at |-> a, o |-> reap[r].o]]
      BY <2>3, <3>2 DEF ReapTo, ReapInv
    <3> QED
      BY <3>2, <3>3 DEF ReapInv
  <2>4. CASE ReapOpen(r)
    BY <1>1, <2>2, <2>3, <2>4 DEF ReapOpen, ReapInv
  <2>5. CASE ReapLock(r)
    BY <1>1, <2>2, <2>3, <2>5 DEF ReapLock, ReapInv
  <2>6. CASE ReapUnlink(r)
    BY <2>2, <2>6 DEF ReapUnlink
  <2> QED
    BY <2>1, <2>4, <2>5, <2>6 DEF Reap
<1> QED
  BY <1>1, <1>2, <1>3 DEF ReapInv, Reapable

\* The backends that load the library and the names of a finished call.
LEMMA NextReapInv ==
  ASSUME IInv, ReapInv, [Next]_vars PROVE ReapInv'
<1>1. CASE UNCHANGED vars
  BY <1>1, ReapInvKept DEF vars
<1>2. ASSUME NEW c \in Calls, NEW k \in KindSet, NEW t \in Tiers, NEW old \in BOOLEAN, Begin(c, k, t, old) PROVE ReapInv'
  <2>1. /\ reap' = [r \in Reapers |-> IF reap[r].at # "idle" /\ reap[r].o[1] = c THEN Resting ELSE reap[r]]
        /\ aged' = {o \in aged : o[1] # c} /\ UNCHANGED locked
    BY <1>2 DEF Begin
  <2>2. Resting \in Findings /\ Resting.at = "idle"
    BY DEF Findings, Resting
  <2>3. \A r \in Reapers : reap'[r] = Resting \/ (reap'[r] = reap[r] /\ (reap[r].at # "idle" => reap[r].o[1] # c))
    BY <2>1
  <2>4. \A r \in Reapers : reap'[r].at # "idle" =>
           reap'[r].o \in aged' /\ Reapable(reap'[r].o) /\ (reap'[r].at = "mine" => reap'[r].o \notin locked')
    BY <2>1, <2>2, <2>3 DEF ReapInv
  <2>5. reap' \in [Reapers -> Findings]
    BY <2>1, <2>2 DEF ReapInv
  <2> QED
    BY <2>4, <2>5 DEF ReapInv, Reapable
<1>3. ASSUME NEW c \in Calls, LockCorpus(c) PROVE ReapInv'
  <2>1. Corpus(c) \notin aged
    BY <1>3, RoleFacts DEF LockCorpus, IInv, CallInv, CorpusShape
  <2> QED
    BY <1>3, <2>1, ReapInvKept DEF LockCorpus
<1>4. ASSUME NEW c \in Calls, NEW p \in Parts, PartLock(c, p) PROVE ReapInv'
  <2>1. Obj(c, p) \notin aged
    BY <1>4 DEF PartLock, IInv, CallInv, GatherShape
  <2> QED
    BY <1>4, <2>1, ReapInvKept DEF PartLock
<1>5. ASSUME NEW c \in Calls,
             \/ OpenCorpus(c) \/ Scan(c) \/ Stage(c) \/ Gathered(c) \/ Connect(c) \/ Send(c) \/ Receive(c) \/ Cleanup(c)
             \/ \E p \in Parts : PartOpen(c, p) \/ PartDetach(c, p) \/ PartEmpty(c, p) \/ PartNotLaunched(c, p)
             \/ GiveUp(c) \/ Terminate(c) \/ \E p \in Parts : GatherFails(c, p)
      PROVE  ReapInv'
  <2>1. UNCHANGED <<reap, aged>> /\ locked' \subseteq locked
    BY <1>5 DEF OpenCorpus, Scan, Stage, Gathered, Connect, Send, Receive, Cleanup, PartOpen, PartDetach, PartEmpty,
       PartNotLaunched, GiveUp, Terminate, GatherFails, shm
  <2> QED
    BY <2>1, ReapInvKept
<1>6. ASSUME NEW c \in Calls, Thread(c) \/ Reject(c) PROVE ReapInv'
  <2>1. UNCHANGED <<reap, aged, locked>>
    BY <1>6 DEF Thread, ReadCommand, ReadFrame, ReadDescs, ReadEof, OpenNext, Work, MakeReply, FillReply, Reject, shm
  <2> QED
    BY <2>1, ReapInvKept
<1>7. CASE (\E o \in locked : Grow(o)) \/ (\E o \in young : Age(o)) \/ DaemonDies
  BY <1>7, ReapInvKept DEF Grow, Age, DaemonDies
<1>8. CASE PgCrash
  <2>1. reap' = [r \in Reapers |-> Resting] /\ Resting \in Findings /\ Resting.at = "idle"
    BY <1>8 DEF PgCrash, Resting, Findings
  <2> QED
    BY <2>1 DEF ReapInv
<1> QED
  BY <1>1, <1>2, <1>3, <1>4, <1>5, <1>6, <1>7, <1>8, ReapReapInv DEF Next, Client

\* All backends die: their names stay, without a lock.
LEMMA PgCrashIInv == ASSUME IInv, PgCrash PROVE IInv'
<1> USE DEF IInv
<1> DEFINE all == UNION {Mine(c) : c \in Calls}
<1>1. /\ lost' = lost \cup (all \cap names) /\ locked' = locked \ all
      /\ refs' = {r \in refs : r[1] = "srv"} /\ UNCHANGED <<part, thr, names, young, aged>>
  BY DEF PgCrash
<1>2. call' \in CallType /\ \A c \in Calls : call'[c].at = "idle"
  BY DEF PgCrash, ProcessType, CallType, CallStates
<1>3. conn' \in ConnType
  BY DEF PgCrash, ProcessType, ConnType
<1>4. \A d \in Calls, r \in Roles : Obj(d, r) \in all <=> r # "reply"
  BY MineFacts
<1> HIDE DEF all
<1>5. \A d \in Calls, r \in Roles :
         /\ Obj(d, r) \in lost' <=> (Obj(d, r) \in lost \/ (r # "reply" /\ Obj(d, r) \in names))
         /\ Obj(d, r) \in locked' <=> (Obj(d, r) \in locked /\ r = "reply")
         /\ <<"cli", Obj(d, r)>> \notin refs'
         /\ <<"srv", Obj(d, r)>> \in refs' <=> <<"srv", Obj(d, r)>> \in refs
  BY <1>1, <1>4
<1>6. ProcessType' /\ ShmType'
  BY <1>1, <1>2, <1>3 DEF ProcessType, ShmType
<1>7. ASSUME NEW d \in Calls PROVE CallInv(d)'
  <2> USE DEF CallInv
  <2>1. call'[d].at = "idle"
    BY <1>2
  <2>2. ThreadShape(d)' /\ NameShape(d)' /\ LostShape(d)' /\ RefShape(d)'
    BY <1>1, <1>5, <2>1, RoleFacts DEF ThreadShape, NameShape, LostShape, RefShape, Before
  <2>3. LockShape(d)' /\ CorpusShape(d)' /\ GatherShape(d)' /\ RequestShape(d)'
    BY <1>1, <1>5, <2>1, RoleFacts DEF LockShape, CorpusShape, GatherShape, RequestShape, Asking
  <2> QED
    BY <2>2, <2>3
<1> QED
  BY <1>6, <1>7

\* The daemon dies: a reply that has a name is lost.
LEMMA DaemonDiesIInv == ASSUME IInv, DaemonDies PROVE IInv'
<1> USE DEF IInv
<1>1. /\ lost' = lost \cup ({Reply(c) : c \in Calls} \cap names)
      /\ refs' = {r \in refs : r[1] = "cli"} /\ UNCHANGED <<call, part, conn, names, locked, young, aged>>
      /\ thr' = [c \in Calls |-> NoThread]
  BY DEF DaemonDies
<1>2. \A d \in Calls, r \in Roles : Obj(d, r) \in {Reply(c) : c \in Calls} <=> r = "reply"
  BY ObjEq, RoleFacts
<1>3. \A d \in Calls, r \in Roles :
         /\ Obj(d, r) \in lost' <=> (Obj(d, r) \in lost \/ (r = "reply" /\ Obj(d, r) \in names))
         /\ <<"cli", Obj(d, r)>> \in refs' <=> <<"cli", Obj(d, r)>> \in refs
         /\ <<"srv", Obj(d, r)>> \notin refs'
  BY <1>1, <1>2
<1>4. /\ thr' \in [Calls -> [at : ThreadStates, todo : SUBSET Objects]]
      /\ \A c \in Calls : thr'[c].todo \in Todo(c) /\ thr'[c].at = "none"
  BY <1>1 DEF NoThread, ThreadStates, Todo
<1>5. ProcessType' /\ ShmType'
  BY <1>1, <1>4 DEF ProcessType, ShmType
<1>6. ASSUME NEW d \in Calls PROVE CallInv(d)'
  <2> USE DEF CallInv
  <2>1. thr'[d].at = "none"
    BY <1>4
  <2>2. ThreadShape(d)' /\ NameShape(d)' /\ RefShape(d)'
    BY <1>1, <1>3, <2>1 DEF ThreadShape, NameShape, RefShape
  <2>3. LostShape(d)'
    <3> SUFFICES ASSUME NEW r \in Roles, Obj(d, r) \in lost'
                 PROVE  /\ Obj(d, r) \in names
                        /\ IF r = "reply" THEN call[d].at \notin Before ELSE call[d].at = "idle"
      BY <1>1, <2>1 DEF LostShape
    <3>1. CASE Obj(d, r) \in lost
      BY <3>1 DEF LostShape
    <3>2. CASE Obj(d, r) \notin lost
      <4>1. r = "reply" /\ Obj(d, r) \in names
        BY <1>3, <3>2
      <4>2. thr[d].at = "fill"
        BY <3>2, <4>1 DEF NameShape
      <4> QED
        BY <4>1, <4>2 DEF ThreadShape
    <3> QED
      BY <3>1, <3>2
  <2>4. LockShape(d)' /\ CorpusShape(d)'
    BY <1>1 DEF LockShape, CorpusShape, Of
  <2>5. GatherShape(d)' /\ RequestShape(d)'
    BY <1>1, <1>3, RoleFacts, RequestsKept DEF GatherShape
  <2> QED
    BY <2>2, <2>3, <2>4, <2>5
<1> QED
  BY <1>5, <1>6

-----------------------------------------------------------------------------
(* The theorems.                                                           *)

\* Every step keeps the invariant.
LEMMA NextIInv == ASSUME IInv, ReapInv, [Next]_vars PROVE IInv'
<1>1. CASE UNCHANGED vars
  <2>1. UNCHANGED <<call, part, conn, thr, names, locked, young, refs, lost, aged>>
    BY <1>1 DEF vars
  <2>2. ProcessType' /\ ShmType'
    BY <2>1 DEF IInv, ProcessType, ShmType
  <2>3. \A c \in Calls : CallInv(c)'
    BY <2>1, SameKeeps DEF IInv, Same
  <2> QED
    BY <2>2, <2>3 DEF IInv
<1>2. ASSUME NEW c \in Calls, NEW k \in KindSet, NEW t \in Tiers, NEW old \in BOOLEAN, Begin(c, k, t, old) PROVE IInv'
  BY <1>2, BeginIInv
<1>3. ASSUME NEW c \in Calls, Client(c) PROVE IInv'
  BY <1>3, OpenCorpusIInv, LockCorpusIInv, ScanIInv, StageIInv, PartOpenIInv, PartLockIInv, PartDetachIInv,
     PartEmptyIInv, PartNotLaunchedIInv, GatheredIInv, ConnectIInv, SendIInv, ReceiveIInv, CleanupIInv DEF Client
<1>4. ASSUME NEW c \in Calls, Thread(c) PROVE IInv'
  BY <1>4, ReadCommandIInv, ReadFrameIInv, ReadDescsIInv, ReadEofIInv, OpenNextIInv, WorkIInv, MakeReplyIInv,
     FillReplyIInv DEF Thread
<1>5. ASSUME NEW c \in Calls, Reject(c) \/ GiveUp(c) \/ Terminate(c) \/ (\E p \in Parts : GatherFails(c, p)) PROVE IInv'
  BY <1>5, RejectIInv, GiveUpIInv, TerminateIInv, GatherFailsIInv
<1>6. CASE \/ \E r \in Reapers : Reap(r)
           \/ \E o \in locked : Grow(o)
           \/ \E o \in young : Age(o)
  BY <1>6, ReapIInv, GrowIInv, AgeIInv
<1>7. CASE PgCrash \/ DaemonDies
  BY <1>7, PgCrashIInv, DaemonDiesIInv
<1> QED
  BY <1>1, <1>2, <1>3, <1>4, <1>5, <1>6, <1>7 DEF Next

\* The inductive invariant: in every state the objects in shared memory belong to
\* the steps of the calls and of the daemon's threads (cuvs_ipc.c,
\* cuvs_build_corpus.c, connection_thread) that made them.
THEOREM SharedMemoryBelongs == Spec => [](IInv /\ ReapInv)
<1>1. Init => IInv /\ ReapInv
  <2>1. Init => ReapInv
    BY DEF Init, ReapInv, Findings, Resting
  <2> QED
    BY <2>1, InitIInv
<1>2. IInv /\ ReapInv /\ [Next]_vars => (IInv /\ ReapInv)'
  BY NextIInv, NextReapInv
<1> QED
  BY <1>1, <1>2, PTL DEF Spec

\* No exit of a call or of a thread leaves a name, a descriptor or a mapping
\* behind, except the names of a process that died or of a failed parallel
\* build, and nobody holds the lock of those (the cleanup labels of cuvs_ipc.c,
\* cuvs_corpus_close, the error paths of the handlers).
THEOREM NothingIsLeftBehind == Spec => []NothingLeftBehind
<1>1. IInv => NothingLeftBehind
  <2> SUFFICES ASSUME IInv PROVE NothingLeftBehind
    OBVIOUS
  <2> USE DEF IInv, CallInv
  <2>1. ASSUME NEW o \in names
        PROVE  o \in lost \/ (IF o[2] = "reply" THEN thr[o[1]].at # "none" ELSE call[o[1]].at # "idle")
    <3>1. PICK c \in Calls, r \in Roles : o = Obj(c, r)
      BY ObjOf DEF ShmType
    <3> QED
      BY <3>1, ObjEq DEF NameShape
  <2>2. ASSUME NEW x \in refs
        PROVE  IF x[1] = "srv" THEN thr[x[2][1]].at # "none" ELSE call[x[2][1]].at # "idle"
    <3>1. PICK s \in {"cli", "srv"}, o \in Objects : x = <<s, o>>
      BY DEF ShmType
    <3>2. PICK c \in Calls, r \in Roles : o = Obj(c, r)
      BY ObjOf
    <3>3. x[1] = s /\ x[2] = Obj(c, r) /\ x[2][1] = c
      BY <3>1, <3>2, ObjEq
    <3> QED
      BY <3>1, <3>2, <3>3 DEF RefShape
  <2>3. ASSUME NEW o \in lost PROVE o \in names /\ o \notin locked
    <3>1. PICK c \in Calls, r \in Roles : o = Obj(c, r)
      BY ObjOf DEF ShmType
    <3> QED
      BY <3>1, RoleFacts DEF LostShape, LockShape
  <2> QED
    BY <2>1, <2>2, <2>3 DEF NothingLeftBehind
<1> QED
  BY <1>1, SharedMemoryBelongs, PTL

\* What the daemon is about to open by name is there as long as the client
\* waits, whatever the reapers do: flock and the minimum age protect a corpus,
\* and only a detached partial loses that protection (cuvs_corpus_reap_orphans).
THEOREM LiveCorpusIsKept == Spec => []LiveCorpusKept
<1>1. IInv => LiveCorpusKept
  <2> SUFFICES ASSUME IInv, NEW c \in Calls, call[c].at \in Asking, NEW o \in Needs(c)
               PROVE  o \in names \/ (o[2] \in Parts /\ (o \notin young \/ o \in aged))
    BY DEF LiveCorpusKept, Asking
  <2> USE DEF IInv, CallInv
  <2>1. CASE o \in Requests(c)
    BY <2>1 DEF RequestShape
  <2>2. CASE o \in Partials(c)
    BY <2>2, RoleFacts, ObjEq DEF Partials, LockShape
  <2>3. CASE o = Corpus(c) /\ Of(c).corpus /\ call[c].tier = "shm"
    <3>1. Obj(c, "corpus") \in locked
      BY <2>3 DEF CorpusShape, Asking
    <3> QED
      BY <2>3, <3>1, RoleFacts DEF LockShape
  <2> QED
    BY <2>1, <2>2, <2>3 DEF Needs
<1> QED
  BY <1>1, SharedMemoryBelongs, PTL
=============================================================================

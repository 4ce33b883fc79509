------------------------ MODULE ArtifactCommitProofs ------------------------
(***************************************************************************)
(* Proofs about ArtifactCommit for any number of versions and shard files, *)
(* any choice of the access methods and any choice of the events.          *)
(*                                                                         *)
(* An operation of a commit changes one file, and what the files are worth *)
(* between two of them depends on which are left.  TypeInv therefore says  *)
(* of every list of operations under way that it is the rest of a commit:  *)
(* sorted, and with every operation that follows one that is left.  Intact *)
(* says what the others have left behind (Effect), and from it that graph  *)
(* and .tids fit unless the thread is in the one window that Crash counts  *)
(* as an accident.  Fitting says the same of graph and .vectors.           *)
(*                                                                         *)
(* The last part follows the steps of ArtifactCommit into RecoverableBuild *)
(* and states what holds for every value of the constants.                 *)
(***************************************************************************)
EXTENDS ArtifactCommit, SequenceTheorems, WellFoundedInduction, TLAPS

-----------------------------------------------------------------------------
(* Lists of operations.                                                    *)

\* What is in a list.
Ran(s) == {s[i] : i \in 1 .. Len(s)}

\* The first element of a list and the others.
LEMMA HeadTail ==
  ASSUME NEW S, NEW s \in Seq(S), s # <<>>
  PROVE  /\ Head(s) \in S /\ Head(s) = s[1] /\ Tail(s) \in Seq(S)
         /\ Len(s) \in Nat /\ Len(s) >= 1 /\ Len(Tail(s)) = Len(s) - 1
         /\ \A i \in 1 .. Len(Tail(s)) : Tail(s)[i] = s[i + 1]
         /\ Ran(s) = {Head(s)} \cup Ran(Tail(s))
         /\ Head(s) \in Ran(s)
<1>1. /\ Head(s) \in S /\ Tail(s) \in Seq(S) /\ Len(Tail(s)) = Len(s) - 1
      /\ \A i \in 1 .. Len(Tail(s)) : Tail(s)[i] = s[i + 1]
  BY HeadTailProperties
<1>2. Len(s) \in Nat \ {0}
  BY EmptySeq
<1>3. Head(s) = s[1]
  OBVIOUS
<1>4. Ran(s) = {Head(s)} \cup Ran(Tail(s))
  <2>1. ASSUME NEW x \in Ran(s) PROVE x \in {Head(s)} \cup Ran(Tail(s))
    <3>1. PICK i \in 1 .. Len(s) : x = s[i]
      BY DEF Ran
    <3>2. CASE i = 1
      BY <3>1, <3>2, <1>3
    <3>3. CASE i # 1
      <4>1. i - 1 \in 1 .. Len(Tail(s)) /\ (i - 1) + 1 = i
        BY <3>3, <1>1, <1>2
      <4>2. Tail(s)[i - 1] = x
        BY <4>1, <3>1, <1>1
      <4> QED
        BY <4>1, <4>2 DEF Ran
    <3> QED
      BY <3>2, <3>3
  <2>2. ASSUME NEW x \in Ran(Tail(s)) PROVE x \in Ran(s)
    <3>1. PICK i \in 1 .. Len(Tail(s)) : x = Tail(s)[i]
      BY DEF Ran
    <3>2. i + 1 \in 1 .. Len(s) /\ x = s[i + 1]
      BY <3>1, <1>1, <1>2
    <3> QED
      BY <3>2 DEF Ran
  <2>3. Head(s) \in Ran(s)
    <3>1. 1 \in 1 .. Len(s)
      BY <1>2
    <3> QED
      BY <3>1, <1>3 DEF Ran
  <2> QED
    BY <2>1, <2>2, <2>3
<1> QED
  BY <1>1, <1>2, <1>3, <1>4

\* What is in two lists, one after the other.
LEMMA RanConcat ==
  ASSUME NEW S, NEW s \in Seq(S), NEW t \in Seq(S)
  PROVE  Ran(s \o t) = Ran(s) \cup Ran(t)
<1>1. Ran(s \o t) = Range(s \o t) /\ Ran(s) = Range(s) /\ Ran(t) = Range(t)
  BY RangeEquality, ConcatProperties DEF Ran
<1> QED
  BY <1>1, RangeConcatenation

\* What is in a short list.
LEMMA RanShort ==
  /\ Ran(<<>>) = {}
  /\ \A a : Ran(<<a>>) = {a}
  /\ \A a, b : Ran(<<a, b>>) = {a, b}
  /\ \A a, b, c : Ran(<<a, b, c>>) = {a, b, c}
  /\ \A a, b, c, e : Ran(<<a, b, c, e>>) = {a, b, c, e}
<1>1. Ran(<<>>) = {}
  BY DEF Ran
<1>2. ASSUME NEW a PROVE Ran(<<a>>) = {a}
  <2>1. 1 .. Len(<<a>>) = {1}
    OBVIOUS
  <2> QED
    BY <2>1 DEF Ran
<1>3. ASSUME NEW a, NEW b PROVE Ran(<<a, b>>) = {a, b}
  <2>1. 1 .. Len(<<a, b>>) = {1, 2}
    OBVIOUS
  <2> QED
    BY <2>1 DEF Ran
<1>4. ASSUME NEW a, NEW b, NEW c PROVE Ran(<<a, b, c>>) = {a, b, c}
  <2>1. 1 .. Len(<<a, b, c>>) = {1, 2, 3}
    OBVIOUS
  <2> QED
    BY <2>1 DEF Ran
<1>5. ASSUME NEW a, NEW b, NEW c, NEW e PROVE Ran(<<a, b, c, e>>) = {a, b, c, e}
  <2>1. 1 .. Len(<<a, b, c, e>>) = {1, 2, 3, 4}
    OBVIOUS
  <2> QED
    BY <2>1 DEF Ran
<1> QED
  BY <1>1, <1>2, <1>3, <1>4, <1>5

\* An order of the operations that is given by a function rk on a set O of them.
InOrder(s, rk) == \A i, j \in 1 .. Len(s) : i < j => rk[s[i]] <= rk[s[j]] /\ s[i] # s[j]

LEMMA InOrderConcat ==
  ASSUME NEW O, NEW s \in Seq(O), NEW t \in Seq(O), NEW rk, InOrder(s, rk), InOrder(t, rk),
         \A x \in Ran(s), y \in Ran(t) : rk[x] <= rk[y] /\ x # y
  PROVE  InOrder(s \o t, rk)
<1>1. Len(s) \in Nat /\ Len(t) \in Nat
  BY LenProperties
<1>2. /\ Len(s \o t) = Len(s) + Len(t)
      /\ \A i \in 1 .. Len(s) : (s \o t)[i] = s[i]
      /\ \A i \in Len(s) + 1 .. Len(s) + Len(t) : (s \o t)[i] = t[i - Len(s)]
  BY <1>1, ConcatProperties
<1>3. ASSUME NEW i \in 1 .. Len(s \o t), NEW j \in 1 .. Len(s \o t), i < j
      PROVE  rk[(s \o t)[i]] <= rk[(s \o t)[j]] /\ (s \o t)[i] # (s \o t)[j]
  <2>1. CASE j <= Len(s)
    BY <2>1, <1>1, <1>2, <1>3 DEF InOrder
  <2>2. CASE i <= Len(s) /\ j > Len(s)
    <3>0. i \in 1 .. Len(s) /\ j - Len(s) \in 1 .. Len(t) /\ j \in Len(s) + 1 .. Len(s) + Len(t)
      BY <2>2, <1>1, <1>2
    <3>1. (s \o t)[i] = s[i] /\ (s \o t)[j] = t[j - Len(s)]
      BY <3>0, <1>2
    <3>2. s[i] \in Ran(s) /\ t[j - Len(s)] \in Ran(t)
      BY <3>0 DEF Ran
    <3> QED
      BY <3>1, <3>2
  <2>3. CASE i > Len(s)
    <3>1. i - Len(s) \in 1 .. Len(t) /\ j - Len(s) \in 1 .. Len(t) /\ i - Len(s) < j - Len(s)
      BY <2>3, <1>1, <1>2, <1>3
    <3>2. (s \o t)[i] = t[i - Len(s)] /\ (s \o t)[j] = t[j - Len(s)]
      BY <2>3, <1>1, <1>2, <1>3
    <3> QED
      BY <3>1, <3>2 DEF InOrder
  <2> QED
    BY <1>1, <1>2, <2>1, <2>2, <2>3
<1> QED
  BY <1>3 DEF InOrder

\* s is what is left of a list of all operations of O: in order, and with every
\* operation that comes after one that is left (but .vectors, which is optional).
Agenda(s, O, rk) ==
  /\ s \in Seq(O)
  /\ InOrder(s, rk)
  /\ \A o \in Ran(s), p \in O : rk[o] < rk[p] /\ p.do # "try" => p \in Ran(s)

\* A list with all operations is an agenda.
LEMMA AgendaNew ==
  ASSUME NEW O, NEW s \in Seq(O), NEW rk, InOrder(s, rk), \A p \in O : p.do # "try" => p \in Ran(s)
  PROVE  Agenda(s, O, rk)
BY DEF Agenda

\* It stays one when its first operation is done, which is then the only one of
\* its kind that was left, and nothing that comes before it was.
LEMMA AgendaTail ==
  ASSUME NEW O, NEW rk \in [O -> Nat], NEW s, Agenda(s, O, rk), s # <<>>
  PROVE  /\ Agenda(Tail(s), O, rk)
         /\ Head(s) \in O
         /\ Ran(s) = {Head(s)} \cup Ran(Tail(s)) /\ Head(s) \notin Ran(Tail(s))
         /\ \A o \in Ran(s) : rk[Head(s)] <= rk[o]
<1>1. s \in Seq(O)
  BY DEF Agenda
<1>2. /\ Head(s) \in O /\ Head(s) = s[1] /\ Tail(s) \in Seq(O)
      /\ Len(s) \in Nat /\ Len(s) >= 1 /\ Len(Tail(s)) = Len(s) - 1
      /\ \A i \in 1 .. Len(Tail(s)) : Tail(s)[i] = s[i + 1]
      /\ Ran(s) = {Head(s)} \cup Ran(Tail(s))
  BY <1>1, HeadTail
<1>3. \A o \in Ran(Tail(s)) : o \in O /\ rk[Head(s)] <= rk[o] /\ o # Head(s)
  <2> SUFFICES ASSUME NEW i \in 1 .. Len(Tail(s))
               PROVE  Tail(s)[i] \in O /\ rk[Head(s)] <= rk[Tail(s)[i]] /\ Tail(s)[i] # Head(s)
    BY DEF Ran
  <2>1. i + 1 \in 1 .. Len(s) /\ 1 \in 1 .. Len(s) /\ 1 < i + 1 /\ Tail(s)[i] = s[i + 1]
    BY <1>2
  <2>2. Tail(s)[i] \in O
    BY <1>2, ElementOfSeq
  <2> QED
    BY <1>2, <2>1, <2>2 DEF Agenda, InOrder
<1>4. InOrder(Tail(s), rk)
  <2> SUFFICES ASSUME NEW i \in 1 .. Len(Tail(s)), NEW j \in 1 .. Len(Tail(s)), i < j
               PROVE  rk[Tail(s)[i]] <= rk[Tail(s)[j]] /\ Tail(s)[i] # Tail(s)[j]
    BY DEF InOrder
  <2>1. /\ i + 1 \in 1 .. Len(s) /\ j + 1 \in 1 .. Len(s) /\ i + 1 < j + 1
        /\ Tail(s)[i] = s[i + 1] /\ Tail(s)[j] = s[j + 1]
    BY <1>2
  <2> QED
    BY <2>1 DEF Agenda, InOrder
<1>5. ASSUME NEW o \in Ran(Tail(s)), NEW p \in O, rk[o] < rk[p], p.do # "try" PROVE p \in Ran(Tail(s))
  <2>1. p \in Ran(s)
    BY <1>2, <1>5 DEF Agenda
  <2>2. rk[Head(s)] <= rk[o] /\ rk[Head(s)] \in Nat /\ rk[o] \in Nat /\ rk[p] \in Nat
    BY <1>2, <1>3
  <2>3. p # Head(s)
    BY <2>2, <1>5
  <2> QED
    BY <2>1, <2>3, <1>2
<1>6. rk[Head(s)] <= rk[Head(s)]
  BY <1>2
<1> QED
  BY <1>2, <1>3, <1>4, <1>5, <1>6 DEF Agenda

-----------------------------------------------------------------------------
(* The operations of a commit.                                             *)

OneOps == {Put("tids", {}), Put("cagra", {"tids"}), Try("vecs"), Del("shards"), Sweep(0)}
ShardPut(i) == Put(ShardFiles[i], ShardsUpTo(i - 1) \cup {"tids", "shards"})
ShardedOps(n) ==
  {ShardPut(i) : i \in 1 .. n}
  \cup {Put("tids", ShardsUpTo(n) \cup {"tids", "shards"}), Put("shards", ShardsUpTo(n) \cup {"tids", "shards"}),
        Try("vecs"), Del("cagra"), Sweep(n)}
FlatOps == {Put("vecs", {}), Put("tids", {"vecs"})}
IvfPqOps == {Put("tids", {}), Put("ivfpq", {"tids"}), Del("cagra")}
SaveOps == {Put("tids", {}), Put("cagra", {"tids"})}

\* Those of a thread that builds or saves a version with n shards.
OpsOf(a, op, n) ==
  CASE op # "build" -> SaveOps
    [] op = "build" /\ a = "flat" -> FlatOps
    [] op = "build" /\ a = "ivfpq" -> IvfPqOps
    [] op = "build" /\ a = "cagra" /\ n = 0 -> OneOps
    [] op = "build" /\ a = "cagra" /\ n # 0 -> ShardedOps(n)

\* Their order: the shards (or .vectors of a flat index), .tids, the file that
\* makes the version whole, and what only cleans up.
Rank(o) ==
  CASE o.do = "put" /\ o.f \in ShardSet \cup {"vecs"} -> 1
    [] o.do = "put" /\ o.f = "tids" -> 2
    [] o.do = "put" /\ o.f \in {"cagra", "ivfpq", "shards"} -> 3
    [] o.do = "try" -> 4
    [] o.do = "del" -> 5
    [] o.do = "sweep" -> 6

Ranks(O) == [o \in O |-> Rank(o)]

\* What is known of the names of the shard files.
LEMMA ShardNames ==
  /\ Len(ShardFiles) \in Nat
  /\ \A i \in 1 .. Len(ShardFiles) :
       ShardFiles[i] \in ShardSet /\ ShardFiles[i] \in Files
  /\ ShardSet \subseteq Files
  /\ ShardSet \cap {"tids", "cagra", "ivfpq", "shards", "vecs"} = {}
  /\ \A i, j \in 1 .. Len(ShardFiles) : ShardFiles[i] = ShardFiles[j] => i = j
  /\ {"tids", "cagra", "ivfpq", "shards", "vecs"} \subseteq Files
  /\ \A n \in 0 .. Len(ShardFiles) : ShardsUpTo(n) \subseteq ShardSet
  /\ \A n \in 0 .. Len(ShardFiles) : \A i \in 1 .. n : ShardFiles[i] \in ShardsUpTo(n)
  /\ \A n \in Widths : n \in 0 .. Len(ShardFiles) /\ (n # 0 => 1 \in 1 .. n)
<1>1. Len(ShardFiles) \in Nat
  BY ShardFilesAssumption, LenProperties
<1>2. \A n \in Widths : n \in 0 .. Len(ShardFiles) /\ (n # 0 => 1 \in 1 .. n)
  BY <1>1 DEF Widths
<1>3. \A n \in 0 .. Len(ShardFiles) : ShardsUpTo(n) \subseteq ShardSet
  BY <1>1 DEF ShardsUpTo, ShardSet
<1>4. \A i \in 1 .. Len(ShardFiles) : ShardFiles[i] \in ShardSet
  BY DEF ShardSet
<1>5. ShardSet \subseteq Files /\ {"tids", "cagra", "ivfpq", "shards", "vecs"} \subseteq Files
  BY DEF Files
<1>6. ShardSet \cap {"tids", "cagra", "ivfpq", "shards", "vecs"} = {}
  BY ShardFilesAssumption DEF ShardSet
<1>7. \A n \in 0 .. Len(ShardFiles) : \A i \in 1 .. n : ShardFiles[i] \in ShardsUpTo(n)
  BY DEF ShardsUpTo
<1> QED
  BY <1>1, <1>2, <1>3, <1>4, <1>5, <1>6, <1>7, ShardFilesAssumption

\* The place of each operation.
LEMMA RankFacts ==
  /\ \A u : Rank(Put("tids", u)) = 2 /\ Rank(Put("vecs", u)) = 1
  /\ \A u : \A f \in {"cagra", "ivfpq", "shards"} : Rank(Put(f, u)) = 3
  /\ \A u : \A f \in ShardSet : Rank(Put(f, u)) = 1
  /\ \A f : Rank(Try(f)) = 4 /\ Rank(Del(f)) = 5 /\ Rank(Sweep(f)) = 6
<1>1. "tids" \notin ShardSet \cup {"vecs"} /\ \A f \in {"cagra", "ivfpq", "shards"} : f \notin ShardSet \cup {"vecs"}
  BY ShardNames
<1>2. ASSUME NEW u PROVE Rank(Put("tids", u)) = 2 /\ Rank(Put("vecs", u)) = 1
  BY <1>1 DEF Rank, Put
<1>3. ASSUME NEW u, NEW f \in {"cagra", "ivfpq", "shards"} PROVE Rank(Put(f, u)) = 3
  <2>1. f \notin ShardSet \cup {"vecs"} /\ f # "tids"
    BY <1>1
  <2> QED
    BY <2>1 DEF Rank, Put
<1>4. ASSUME NEW u, NEW f \in ShardSet PROVE Rank(Put(f, u)) = 1
  <2>1. f \in ShardSet \cup {"vecs"} /\ f \notin {"tids", "cagra", "ivfpq", "shards"}
    BY ShardNames
  <2> QED
    BY <2>1 DEF Rank, Put
<1>5. ASSUME NEW f PROVE Rank(Try(f)) = 4 /\ Rank(Del(f)) = 5 /\ Rank(Sweep(f)) = 6
  BY DEF Rank, Try, Del, Sweep
<1> QED
  BY <1>2, <1>3, <1>4, <1>5

\* Short lists in order.
LEMMA InOrderShort ==
  ASSUME NEW O, NEW rk
  PROVE  /\ <<>> \in Seq(O) /\ InOrder(<<>>, rk)
         /\ \A a \in O : <<a>> \in Seq(O) /\ InOrder(<<a>>, rk)
         /\ \A a, b \in O : rk[a] <= rk[b] /\ a # b => <<a, b>> \in Seq(O) /\ InOrder(<<a, b>>, rk)
         /\ \A a, b, c \in O : rk[a] <= rk[b] /\ rk[b] <= rk[c] /\ rk[a] <= rk[c] /\ a # b /\ b # c /\ a # c =>
              <<a, b, c>> \in Seq(O) /\ InOrder(<<a, b, c>>, rk)
<1>1. <<>> \in Seq(O) /\ InOrder(<<>>, rk)
  BY DEF InOrder
<1>2. ASSUME NEW a \in O PROVE <<a>> \in Seq(O) /\ InOrder(<<a>>, rk)
  BY DEF InOrder
<1>3. ASSUME NEW a \in O, NEW b \in O, rk[a] <= rk[b], a # b PROVE <<a, b>> \in Seq(O) /\ InOrder(<<a, b>>, rk)
  <2>1. <<a, b>> \in Seq(O) /\ Len(<<a, b>>) = 2
    OBVIOUS
  <2>2. ASSUME NEW i \in 1 .. 2, NEW j \in 1 .. 2, i < j PROVE i = 1 /\ j = 2
    BY <2>2
  <2> QED
    BY <1>3, <2>1, <2>2 DEF InOrder
<1>4. ASSUME NEW a \in O, NEW b \in O, NEW c \in O, rk[a] <= rk[b], rk[b] <= rk[c], rk[a] <= rk[c], a # b, b # c, a # c
      PROVE  <<a, b, c>> \in Seq(O) /\ InOrder(<<a, b, c>>, rk)
  <2>1. <<a, b, c>> \in Seq(O) /\ Len(<<a, b, c>>) = 3
    OBVIOUS
  <2>2. ASSUME NEW i \in 1 .. 3, NEW j \in 1 .. 3, i < j PROVE (i = 1 /\ j = 2) \/ (i = 1 /\ j = 3) \/ (i = 2 /\ j = 3)
    BY <2>2
  <2> QED
    BY <1>4, <2>1, <2>2 DEF InOrder
<1> QED
  BY <1>1, <1>2, <1>3, <1>4

\* Two operations in order.
LEMMA InOrderPair ==
  ASSUME NEW O, NEW rk, NEW a \in O, NEW b \in O, rk[a] \in Nat, rk[b] \in Nat, rk[a] < rk[b]
  PROVE  <<a, b>> \in Seq(O) /\ InOrder(<<a, b>>, rk) /\ Ran(<<a, b>>) = {a, b}
<1>1. rk[a] <= rk[b] /\ a # b
  OBVIOUS
<1>2. <<a, b>> \in Seq(O) /\ InOrder(<<a, b>>, rk)
  BY <1>1, InOrderShort
<1> QED
  BY <1>2, RanShort

\* The ranks of the operations in a list.
Between(s, rk, i, j) == \A x \in Ran(s) : rk[x] \in i .. j

\* Two lists that are in order, the second after the first.
LEMMA InOrderJoin ==
  ASSUME NEW O, NEW s \in Seq(O), NEW t \in Seq(O), NEW rk,
         NEW i \in Nat, NEW j \in Nat, NEW k \in Nat, NEW l \in Nat, i <= j, j < k, k <= l,
         InOrder(s, rk), InOrder(t, rk), Between(s, rk, i, j), Between(t, rk, k, l)
  PROVE  s \o t \in Seq(O) /\ InOrder(s \o t, rk) /\ Ran(s \o t) = Ran(s) \cup Ran(t) /\ Between(s \o t, rk, i, l)
<1>1. \A x \in Ran(s), y \in Ran(t) : rk[x] <= rk[y] /\ x # y
  BY DEF Between
<1>2. InOrder(s \o t, rk)
  BY <1>1, InOrderConcat
<1>3. Ran(s \o t) = Ran(s) \cup Ran(t)
  BY RanConcat
<1>4. s \o t \in Seq(O)
  BY ConcatProperties
<1>5. Between(s \o t, rk, i, l)
  BY <1>3 DEF Between
<1> QED
  BY <1>2, <1>3, <1>4, <1>5

\* Three lists.
LEMMA InOrderJoin3 ==
  ASSUME NEW O, NEW p \in Seq(O), NEW m \in Seq(O), NEW e \in Seq(O), NEW rk,
         InOrder(p, rk), InOrder(m, rk), InOrder(e, rk),
         Between(p, rk, 1, 3), Between(m, rk, 4, 4), Between(e, rk, 5, 6)
  PROVE  p \o m \o e \in Seq(O) /\ InOrder(p \o m \o e, rk) /\ Ran(p \o m \o e) = Ran(p) \cup Ran(m) \cup Ran(e)
<1>1. PICK q : q = p \o m
  OBVIOUS
<1>2. q \in Seq(O) /\ InOrder(q, rk) /\ Ran(q) = Ran(p) \cup Ran(m) /\ Between(q, rk, 1, 4)
  <2>1. 1 <= 3 /\ 3 < 4 /\ 4 <= 4
    OBVIOUS
  <2> QED
    BY <1>1, <2>1, InOrderJoin
<1>3. q \o e \in Seq(O) /\ InOrder(q \o e, rk) /\ Ran(q \o e) = Ran(q) \cup Ran(e)
  <2>1. ASSUME NEW x \in Ran(q), NEW y \in Ran(e) PROVE rk[x] <= rk[y] /\ x # y
    <3>1. rk[x] \in 1 .. 4
      BY <1>2 DEF Between
    <3>2. rk[y] \in 5 .. 6
      BY DEF Between
    <3> QED
      BY <3>1, <3>2
  <2>2. q \in Seq(O) /\ InOrder(q, rk)
    BY <1>2
  <2>3. InOrder(q \o e, rk)
    BY <2>1, <2>2, InOrderConcat
  <2>4. q \o e \in Seq(O)
    BY <2>2, ConcatProperties
  <2>5. Ran(q \o e) = Ran(q) \cup Ran(e)
    BY <2>2, RanConcat
  <2> QED
    BY <2>3, <2>4, <2>5
<1> QED
  BY <1>1, <1>2, <1>3

\* The last operations of the commit of a graph.
LEMMA CleanupOps ==
  ASSUME NEW O, NEW f, NEW n, NEW vok \in BOOLEAN, NEW rk, rk = Ranks(O),
         Del(f) \in O, Sweep(n) \in O, Try("vecs") \in O,
         NEW m, m = IF vok THEN <<Try("vecs")>> ELSE <<>>,
         NEW e, e = <<Del(f), Sweep(n)>>
  PROVE  /\ m \in Seq(O) /\ InOrder(m, rk) /\ Between(m, rk, 4, 4) /\ (vok => Try("vecs") \in Ran(m))
         /\ e \in Seq(O) /\ InOrder(e, rk) /\ Between(e, rk, 5, 6) /\ Ran(e) = {Del(f), Sweep(n)}
<1>1. rk[Try("vecs")] = 4 /\ rk[Del(f)] = 5 /\ rk[Sweep(n)] = 6 /\ Del(f) # Sweep(n)
  BY RankFacts DEF Ranks, Del, Sweep
<1>2. m \in Seq(O) /\ InOrder(m, rk) /\ (\A x \in Ran(m) : rk[x] = 4) /\ (vok => Try("vecs") \in Ran(m))
  <2>1. CASE vok
    <3>1. m = <<Try("vecs")>>
      BY <2>1
    <3> QED BY <3>1, <1>1, InOrderShort, RanShort
  <2>2. CASE ~vok
    <3>1. m = <<>>
      BY <2>2
    <3> QED BY <3>1, <2>2, InOrderShort, RanShort
  <2> QED
    BY <2>1, <2>2
<1>3. e \in Seq(O) /\ InOrder(e, rk) /\ Ran(e) = {Del(f), Sweep(n)}
  <2>1. PICK a, b : a = Del(f) /\ b = Sweep(n)
    OBVIOUS
  <2>2. a \in O /\ b \in O /\ rk[a] \in Nat /\ rk[b] \in Nat /\ rk[a] < rk[b]
    BY <2>1, <1>1
  <2> QED
    BY <2>1, <2>2, InOrderPair
<1>4. Between(m, rk, 4, 4) /\ Between(e, rk, 5, 6)
  BY <1>1, <1>2, <1>3 DEF Between
<1> QED
  BY <1>2, <1>3, <1>4

LEMMA UnshardedAgenda ==
  ASSUME NEW vok \in BOOLEAN
  PROVE  /\ Agenda(CommitUnsharded(vok), OneOps, Ranks(OneOps))
         /\ \A o \in OneOps : o \in Ran(CommitUnsharded(vok)) \/ (~vok /\ o = Try("vecs"))
<1> DEFINE O == OneOps
<1> DEFINE p == <<Put("tids", {}), Put("cagra", {"tids"})>>
<1> DEFINE rk == Ranks(O)
<1>1. O = {Put("tids", {}), Put("cagra", {"tids"}), Try("vecs"), Del("shards"), Sweep(0)}
  BY DEF OneOps
<1>2. rk[Put("tids", {})] = 2 /\ rk[Put("cagra", {"tids"})] = 3 /\ Put("tids", {}) # Put("cagra", {"tids"})
  BY <1>1, RankFacts DEF Ranks, Put
<1>3. p \in Seq(O) /\ InOrder(p, rk) /\ Ran(p) = {Put("tids", {}), Put("cagra", {"tids"})}
  <2> HIDE DEF rk, O
  <2>1. PICK a, b : a = Put("tids", {}) /\ b = Put("cagra", {"tids"})
    OBVIOUS
  <2>2. a \in O /\ b \in O /\ rk[a] \in Nat /\ rk[b] \in Nat /\ rk[a] < rk[b]
    BY <2>1, <1>1, <1>2
  <2> QED
    BY <2>1, <2>2, InOrderPair
<1>4. CommitUnsharded(vok) = p \o (IF vok THEN <<Try("vecs")>> ELSE <<>>) \o <<Del("shards"), Sweep(0)>>
  BY DEF CommitUnsharded
<1>5. Between(p, rk, 1, 3)
  <2> HIDE DEF rk, p
  <2> QED BY <1>2, <1>3 DEF Between
<1>6. Try("vecs").do = "try"
  BY DEF Try
<1> HIDE DEF p, O
<1>7. /\ CommitUnsharded(vok) \in Seq(O) /\ InOrder(CommitUnsharded(vok), rk)
      /\ Ran(p) \cup {Del("shards"), Sweep(0)} \subseteq Ran(CommitUnsharded(vok))
      /\ vok => Try("vecs") \in Ran(CommitUnsharded(vok))
  <2>1. Del("shards") \in O /\ Sweep(0) \in O /\ Try("vecs") \in O
    BY <1>1
  <2>2. PICK r, m, e : r = rk /\ m = (IF vok THEN <<Try("vecs")>> ELSE <<>>) /\ e = <<Del("shards"), Sweep(0)>>
    OBVIOUS
  <2>3. r = Ranks(O) /\ InOrder(p, r) /\ Between(p, r, 1, 3) /\ CommitUnsharded(vok) = p \o m \o e
    BY <2>2, <1>3, <1>4, <1>5
  <2> HIDE DEF rk
  <2>4. /\ m \in Seq(O) /\ InOrder(m, r) /\ Between(m, r, 4, 4) /\ (vok => Try("vecs") \in Ran(m))
        /\ e \in Seq(O) /\ InOrder(e, r) /\ Between(e, r, 5, 6) /\ Ran(e) = {Del("shards"), Sweep(0)}
    BY <2>1, <2>2, <2>3, CleanupOps, SMTT(30)
  <2>5. p \o m \o e \in Seq(O) /\ InOrder(p \o m \o e, r) /\ Ran(p \o m \o e) = Ran(p) \cup Ran(m) \cup Ran(e)
    BY <2>3, <1>3, <2>4, InOrderJoin3
  <2> QED
    BY <2>2, <2>3, <2>4, <2>5
<1>8. \A o \in O : o \in Ran(CommitUnsharded(vok)) \/ (~vok /\ o = Try("vecs"))
  BY <1>1, <1>3, <1>7
<1>9. \A o \in O : o.do # "try" => o \in Ran(CommitUnsharded(vok))
  BY <1>6, <1>8
<1>10. Agenda(CommitUnsharded(vok), O, rk)
  <2> HIDE DEF rk
  <2> QED BY <1>7, <1>9, AgendaNew
<1> QED
  BY <1>8, <1>10 DEF O

LEMMA ShardedAgenda ==
  ASSUME NEW vok \in BOOLEAN, NEW n \in 1 .. Len(ShardFiles)
  PROVE  /\ Agenda(CommitSharded(n, vok), ShardedOps(n), Ranks(ShardedOps(n)))
         /\ \A o \in ShardedOps(n) : o \in Ran(CommitSharded(n, vok)) \/ (~vok /\ o = Try("vecs"))
<1> DEFINE O == ShardedOps(n)
<1> DEFINE u == ShardsUpTo(n) \cup {"tids", "shards"}
<1> DEFINE a == [i \in 1 .. n |-> Put(ShardFiles[i], ShardsUpTo(i - 1) \cup {"tids", "shards"})]
<1> DEFINE b == <<Put("tids", u), Put("shards", u)>>
<1> DEFINE rk == Ranks(O)
<1>0. n \in Nat /\ n <= Len(ShardFiles) /\ Len(ShardFiles) \in Nat
  BY ShardNames
<1>1. O = {ShardPut(i) : i \in 1 .. n} \cup {Put("tids", u), Put("shards", u), Try("vecs"), Del("cagra"), Sweep(n)}
  BY DEF ShardedOps
<1>2. rk[Put("tids", u)] = 2 /\ rk[Put("shards", u)] = 3 /\ Put("tids", u) # Put("shards", u)
  BY <1>1, RankFacts DEF Ranks, Put
<1>3. \A i \in 1 .. n : ShardPut(i) \in O /\ rk[ShardPut(i)] = 1
  <2> SUFFICES ASSUME NEW i \in 1 .. n PROVE ShardPut(i) \in O /\ rk[ShardPut(i)] = 1
    OBVIOUS
  <2>1. ShardFiles[i] \in ShardSet
    BY <1>0, ShardNames
  <2>2. Rank(ShardPut(i)) = 1
    BY <2>1, RankFacts DEF ShardPut
  <2> QED
    BY <1>1, <2>2 DEF Ranks
<1>4. a \in Seq(O) /\ Len(a) = n /\ \A i \in 1 .. n : a[i] = ShardPut(i)
  <2>1. \A i \in 1 .. n : a[i] = ShardPut(i)
    BY DEF ShardPut
  <2>2. a \in [1 .. n -> O]
    <3>1. \A i \in 1 .. n : Put(ShardFiles[i], ShardsUpTo(i - 1) \cup {"tids", "shards"}) \in O
      BY <1>3 DEF ShardPut
    <3> HIDE DEF O
    <3> QED BY <3>1
  <2> HIDE DEF a, O
  <2>3. a \in Seq(O) /\ Len(a) = n
    BY <2>2, <1>0
  <2> QED
    BY <2>1, <2>3
<1>5. Ran(a) = {ShardPut(i) : i \in 1 .. n}
  <2> HIDE DEF a
  <2> QED BY <1>4 DEF Ran
<1>6. InOrder(a, rk)
  <2> SUFFICES ASSUME NEW i \in 1 .. n, NEW j \in 1 .. n, i < j PROVE rk[a[i]] <= rk[a[j]] /\ a[i] # a[j]
    <3> HIDE DEF a, rk
    <3> QED BY <1>4 DEF InOrder
  <2>1. ShardFiles[i] # ShardFiles[j]
    BY <1>0, ShardNames
  <2>2. ShardPut(i) # ShardPut(j)
    BY <2>1 DEF ShardPut, Put
  <2> HIDE DEF a, rk
  <2> QED
    BY <2>2, <1>3, <1>4
<1>7. b \in Seq(O) /\ InOrder(b, rk) /\ Ran(b) = {Put("tids", u), Put("shards", u)}
  <2> HIDE DEF rk, O, u
  <2> QED BY <1>1, <1>2, InOrderShort, RanShort
<1>8. a \o b \in Seq(O) /\ InOrder(a \o b, rk) /\ Ran(a \o b) = Ran(a) \cup Ran(b) /\ Between(a \o b, rk, 1, 3)
  <2> HIDE DEF a, b, rk, O, u
  <2>1. Between(a, rk, 1, 1)
    BY <1>3, <1>5 DEF Between
  <2>2. Between(b, rk, 2, 3)
    BY <1>2, <1>7 DEF Between
  <2>3. 1 <= 1 /\ 1 < 2 /\ 2 <= 3
    OBVIOUS
  <2> QED BY <1>4, <1>6, <1>7, <2>1, <2>2, <2>3, InOrderJoin
<1>10. CommitSharded(n, vok) = (a \o b) \o (IF vok THEN <<Try("vecs")>> ELSE <<>>) \o <<Del("cagra"), Sweep(n)>>
  BY DEF CommitSharded
<1>11. Try("vecs").do = "try"
  BY DEF Try
<1> HIDE DEF a, b, O, u
<1>12. /\ CommitSharded(n, vok) \in Seq(O) /\ InOrder(CommitSharded(n, vok), rk)
       /\ Ran(a \o b) \cup {Del("cagra"), Sweep(n)} \subseteq Ran(CommitSharded(n, vok))
       /\ vok => Try("vecs") \in Ran(CommitSharded(n, vok))
  <2>1. Del("cagra") \in O /\ Sweep(n) \in O /\ Try("vecs") \in O
    BY <1>1
  <2>2. PICK r, p : r = rk /\ p = a \o b
    OBVIOUS
  <2>6. PICK m, e : m = (IF vok THEN <<Try("vecs")>> ELSE <<>>) /\ e = <<Del("cagra"), Sweep(n)>>
    OBVIOUS
  <2>7. r = Ranks(O)
    BY <2>2
  <2>3. /\ r = Ranks(O) /\ p \in Seq(O) /\ InOrder(p, r) /\ Between(p, r, 1, 3)
        /\ CommitSharded(n, vok) = p \o m \o e
    BY <2>2, <2>6, <1>8, <1>10
  <2> HIDE DEF rk
  <2>4. /\ m \in Seq(O) /\ InOrder(m, r) /\ Between(m, r, 4, 4) /\ (vok => Try("vecs") \in Ran(m))
        /\ e \in Seq(O) /\ InOrder(e, r) /\ Between(e, r, 5, 6) /\ Ran(e) = {Del("cagra"), Sweep(n)}
    BY <2>1, <2>6, <2>7, CleanupOps
  <2>5. p \o m \o e \in Seq(O) /\ InOrder(p \o m \o e, r) /\ Ran(p \o m \o e) = Ran(p) \cup Ran(m) \cup Ran(e)
    BY <2>3, <2>4, InOrderJoin3
  <2> QED
    BY <2>2, <2>3, <2>4, <2>5
<1>13. \A o \in O : o \in Ran(CommitSharded(n, vok)) \/ (~vok /\ o = Try("vecs"))
  BY <1>1, <1>5, <1>7, <1>8, <1>12
<1>14. \A o \in O : o.do # "try" => o \in Ran(CommitSharded(n, vok))
  BY <1>11, <1>13
<1>15. Agenda(CommitSharded(n, vok), O, rk)
  <2> HIDE DEF rk
  <2> QED BY <1>12, <1>14, AgendaNew
<1> QED
  BY <1>13, <1>15 DEF O

LEMMA FlatAgenda ==
  Agenda(CommitFlat, FlatOps, Ranks(FlatOps)) /\ \A o \in FlatOps : o \in Ran(CommitFlat)
<1> DEFINE rk == Ranks(FlatOps)
<1>2. rk[Put("vecs", {})] = 1 /\ rk[Put("tids", {"vecs"})] = 2 /\ Put("vecs", {}) # Put("tids", {"vecs"})
  BY RankFacts DEF Ranks, Put, FlatOps
<1>3. CommitFlat \in Seq(FlatOps) /\ InOrder(CommitFlat, rk) /\ Ran(CommitFlat) = FlatOps
  <2> HIDE DEF rk
  <2> QED BY <1>2, InOrderShort, RanShort DEF CommitFlat, FlatOps
<1> QED
  BY <1>3, AgendaNew

LEMMA IvfPqAgenda ==
  Agenda(CommitIvfPq, IvfPqOps, Ranks(IvfPqOps)) /\ \A o \in IvfPqOps : o \in Ran(CommitIvfPq)
<1> DEFINE rk == Ranks(IvfPqOps)
<1>2. /\ rk[Put("tids", {})] = 2 /\ rk[Put("ivfpq", {"tids"})] = 3 /\ rk[Del("cagra")] = 5
      /\ Put("tids", {}) # Put("ivfpq", {"tids"}) /\ Put("ivfpq", {"tids"}) # Del("cagra") /\ Put("tids", {}) # Del("cagra")
  BY RankFacts DEF Ranks, Put, Del, IvfPqOps
<1>3. CommitIvfPq \in Seq(IvfPqOps) /\ InOrder(CommitIvfPq, rk) /\ Ran(CommitIvfPq) = IvfPqOps
  <2> HIDE DEF rk
  <2> QED BY <1>2, InOrderShort, RanShort DEF CommitIvfPq, IvfPqOps
<1> QED
  BY <1>3, AgendaNew

LEMMA SaveAgenda ==
  Agenda(SaveIndex, SaveOps, Ranks(SaveOps)) /\ \A o \in SaveOps : o \in Ran(SaveIndex)
<1> DEFINE rk == Ranks(SaveOps)
<1>2. rk[Put("tids", {})] = 2 /\ rk[Put("cagra", {"tids"})] = 3 /\ Put("tids", {}) # Put("cagra", {"tids"})
  BY RankFacts DEF Ranks, Put, SaveOps
<1>3. SaveIndex \in Seq(SaveOps) /\ InOrder(SaveIndex, rk) /\ Ran(SaveIndex) = SaveOps
  <2> HIDE DEF rk
  <2> QED BY <1>2, InOrderShort, RanShort DEF SaveIndex, SaveOps
<1> QED
  BY <1>3, AgendaNew

\* Every commit of a build is an agenda with all its operations, but .vectors
\* when the temporary file is missing.
LEMMA CommitAgenda ==
  ASSUME am \in {"cagra", "flat", "ivfpq"}, NEW n \in Widths, NEW vok \in BOOLEAN, ~vok => am = "cagra"
  PROVE  /\ Agenda(Commit(n, vok), OpsOf(am, "build", n), Ranks(OpsOf(am, "build", n)))
         /\ \A o \in OpsOf(am, "build", n) : o \in Ran(Commit(n, vok)) \/ (~vok /\ o = Try("vecs"))
<1>1. CASE am = "flat"
  <2>1. Commit(n, vok) = CommitFlat /\ OpsOf(am, "build", n) = FlatOps
    BY <1>1 DEF Commit, OpsOf
  <2> QED
    BY <2>1, FlatAgenda
<1>2. CASE am = "ivfpq"
  <2>1. Commit(n, vok) = CommitIvfPq /\ OpsOf(am, "build", n) = IvfPqOps
    BY <1>2 DEF Commit, OpsOf
  <2> QED
    BY <2>1, IvfPqAgenda
<1>3. CASE am = "cagra" /\ n = 0
  <2>1. Commit(n, vok) = CommitUnsharded(vok) /\ OpsOf(am, "build", n) = OneOps
    BY <1>3 DEF Commit, OpsOf
  <2> QED
    BY <2>1, UnshardedAgenda
<1>4. CASE am = "cagra" /\ n # 0
  <2>1. Commit(n, vok) = CommitSharded(n, vok) /\ OpsOf(am, "build", n) = ShardedOps(n)
    BY <1>4 DEF Commit, OpsOf
  <2>2. n \in 1 .. Len(ShardFiles)
    BY <1>4, ShardNames DEF Widths
  <2> QED
    BY <2>1, <2>2, ShardedAgenda
<1> QED
  BY <1>1, <1>2, <1>3, <1>4

\* What the proofs use of the operations of one commit: they are about files, no
\* file is both written and removed, a sweep spares the shards of its version, and
\* what a failure unlinks is no graph without shards.
OpShape(O) ==
  /\ \A o \in O : o.do \in {"put", "try", "del", "sweep"}
  /\ \A o \in O : o.do \in {"put", "try", "del"} => o.f \in Files
  /\ \A o \in O : o.do = "try" => o.f = "vecs" /\ o.undo = {"vecs"}
  /\ \A o \in O : o.do = "sweep" => o.f \in 0 .. Len(ShardFiles)
  /\ \A o, p \in O : o.do \in {"put", "try"} /\ p.do = "del" => o.f # p.f
  /\ \A o, p \in O : o.do = "put" /\ p.do = "sweep" => \A i \in p.f + 1 .. Len(ShardFiles) : o.f # ShardFiles[i]
  /\ \A o \in O : o.undo \cap {"cagra", "ivfpq"} = {}

LEMMA OneShape == OpShape(OneOps)
<1>1. \A i \in 1 .. Len(ShardFiles) : ShardFiles[i] \notin {"tids", "cagra", "ivfpq", "shards", "vecs"}
  BY ShardFilesAssumption
<1>2. {"tids", "cagra", "ivfpq", "shards", "vecs"} \subseteq Files /\ 0 \in 0 .. Len(ShardFiles)
  BY ShardNames
<1>3. \A i \in 0 + 1 .. Len(ShardFiles) : i \in 1 .. Len(ShardFiles)
  OBVIOUS
<1> QED
  BY <1>1, <1>2, <1>3 DEF OpShape, OneOps, Put, Try, Del, Sweep

LEMMA FlatShape == OpShape(FlatOps)
BY ShardNames DEF OpShape, FlatOps, Put

LEMMA IvfPqShape == OpShape(IvfPqOps)
BY ShardNames DEF OpShape, IvfPqOps, Put, Del

LEMMA SaveShape == OpShape(SaveOps)
BY ShardNames DEF OpShape, SaveOps, Put

LEMMA ShardedShape == ASSUME NEW n \in 1 .. Len(ShardFiles) PROVE OpShape(ShardedOps(n))
<1> DEFINE O == ShardedOps(n)
<1> DEFINE u == ShardsUpTo(n) \cup {"tids", "shards"}
<1>1. /\ n \in 0 .. Len(ShardFiles) /\ Len(ShardFiles) \in Nat
      /\ {"tids", "cagra", "ivfpq", "shards", "vecs"} \subseteq Files
      /\ u \cap {"cagra", "ivfpq"} = {}
  BY ShardNames
<1>2. ASSUME NEW o \in O
      PROVE  \/ \E i \in 1 .. n : o = ShardPut(i)
             \/ o = Put("tids", u) \/ o = Put("shards", u) \/ o = Try("vecs") \/ o = Del("cagra") \/ o = Sweep(n)
  BY DEF ShardedOps
<1>3. ASSUME NEW i \in 1 .. n
      PROVE  /\ ShardPut(i).do = "put" /\ ShardPut(i).f = ShardFiles[i] /\ ShardPut(i).f \in Files
             /\ ShardPut(i).f \notin {"tids", "cagra", "ivfpq", "shards", "vecs"}
             /\ ShardPut(i).undo \cap {"cagra", "ivfpq"} = {}
             /\ \A j \in n + 1 .. Len(ShardFiles) : ShardPut(i).f # ShardFiles[j]
  <2>1. i \in 1 .. Len(ShardFiles) /\ i - 1 \in 0 .. Len(ShardFiles)
    BY <1>1
  <2>2. ShardPut(i).do = "put" /\ ShardPut(i).f = ShardFiles[i] /\ ShardPut(i).undo = ShardsUpTo(i - 1) \cup {"tids", "shards"}
    BY DEF ShardPut, Put
  <2>3. ShardFiles[i] \in Files /\ ShardFiles[i] \notin {"tids", "cagra", "ivfpq", "shards", "vecs"} /\ ShardsUpTo(i - 1) \cap {"cagra", "ivfpq"} = {}
    BY <2>1, ShardNames
  <2>4. \A j \in n + 1 .. Len(ShardFiles) : ShardFiles[i] # ShardFiles[j]
    BY <1>1, <2>1, ShardNames
  <2> QED
    BY <2>2, <2>3, <2>4
<1>4. \A j \in n + 1 .. Len(ShardFiles) : ShardFiles[j] \notin {"tids", "cagra", "ivfpq", "shards", "vecs"}
  BY <1>1, ShardFilesAssumption
<1> HIDE DEF O, u
<1>5. \A o \in O : o.do \in {"put", "try", "del", "sweep"}
  BY <1>2, <1>3 DEF Put, Try, Del, Sweep
<1>6. \A o \in O : o.do \in {"put", "try", "del"} => o.f \in Files
  BY <1>1, <1>2, <1>3 DEF Put, Try, Del, Sweep
<1>7. \A o \in O : o.do = "try" => o.f = "vecs" /\ o.undo = {"vecs"}
  BY <1>2, <1>3 DEF Put, Try, Del, Sweep
<1>8. \A o \in O : o.do = "sweep" => o.f = n
  BY <1>2, <1>3 DEF Put, Try, Del, Sweep
<1>9. \A o \in O : o.do \in {"put", "try"} => o.f # "cagra"
  BY <1>2, <1>3 DEF Put, Try, Del, Sweep
<1>10. \A o \in O : o.do = "del" => o.f = "cagra"
  BY <1>2, <1>3 DEF Put, Try, Del, Sweep
<1>11. \A o \in O : o.do = "put" => \A i \in n + 1 .. Len(ShardFiles) : o.f # ShardFiles[i]
  BY <1>2, <1>3, <1>4 DEF Put, Try, Del, Sweep
<1>12. \A o \in O : o.undo \cap {"cagra", "ivfpq"} = {}
  BY <1>1, <1>2, <1>3 DEF Put, Try, Del, Sweep
<1>13. OpShape(O)
  BY <1>1, <1>5, <1>6, <1>7, <1>8, <1>9, <1>10, <1>11, <1>12 DEF OpShape
<1> QED
  BY <1>13 DEF O

\* The operations of a commit, by kind.
LEMMA OpsOfCases ==
  ASSUME NEW a \in {"cagra", "flat", "ivfpq"}, NEW op, NEW n \in Widths
  PROVE  \/ op # "build" /\ OpsOf(a, op, n) = SaveOps
         \/ op = "build" /\ a = "flat" /\ OpsOf(a, op, n) = FlatOps
         \/ op = "build" /\ a = "ivfpq" /\ OpsOf(a, op, n) = IvfPqOps
         \/ op = "build" /\ a = "cagra" /\ n = 0 /\ OpsOf(a, op, n) = OneOps
         \/ op = "build" /\ a = "cagra" /\ n \in 1 .. Len(ShardFiles) /\ OpsOf(a, op, n) = ShardedOps(n)
<1>1. n = 0 \/ (n # 0 /\ n \in 1 .. Len(ShardFiles))
  BY ShardNames DEF Widths
<1> QED
  BY <1>1 DEF OpsOf

LEMMA OpsOfShape ==
  ASSUME NEW a \in {"cagra", "flat", "ivfpq"}, NEW op, NEW n \in Widths
  PROVE  OpShape(OpsOf(a, op, n))
BY OpsOfCases, OneShape, FlatShape, IvfPqShape, SaveShape, ShardedShape

\* The place of an operation, from what it does.
LEMMA RankOf ==
  ASSUME NEW o
  PROVE  /\ o.do = "put" /\ o.f \in ShardSet \cup {"vecs"} => Rank(o) = 1
         /\ o.do = "put" /\ o.f = "tids" => Rank(o) = 2
         /\ o.do = "put" /\ o.f \in {"cagra", "ivfpq", "shards"} => Rank(o) = 3
         /\ o.do = "try" => Rank(o) = 4
         /\ o.do = "del" => Rank(o) = 5
         /\ o.do = "sweep" => Rank(o) = 6
<1>1. "tids" \notin ShardSet \cup {"vecs"} /\ \A f \in {"cagra", "ivfpq", "shards"} : f \notin ShardSet \cup {"vecs"}
  BY ShardNames
<1>2. o.do = "put" /\ o.f \in ShardSet \cup {"vecs"} => Rank(o) = 1
  BY <1>1 DEF Rank
<1>3. o.do = "put" /\ o.f = "tids" => Rank(o) = 2
  BY <1>1 DEF Rank
<1>4. o.do = "put" /\ o.f \in {"cagra", "ivfpq", "shards"} => Rank(o) = 3
  BY <1>1 DEF Rank
<1>5. (o.do = "try" => Rank(o) = 4) /\ (o.do = "del" => Rank(o) = 5) /\ (o.do = "sweep" => Rank(o) = 6)
  BY DEF Rank
<1> QED
  BY <1>2, <1>3, <1>4, <1>5

LEMMA RanksType ==
  ASSUME NEW O, OpShape(O)
  PROVE  Ranks(O) \in [O -> Nat]
<1>1. ASSUME NEW o \in O PROVE Rank(o) \in Nat
  <2>1. o.do \in {"put", "try", "del", "sweep"} /\ (o.do = "put" => o.f \in Files)
    BY DEF OpShape
  <2>2. o.do = "put" => o.f \in ShardSet \cup {"vecs"} \/ o.f = "tids" \/ o.f \in {"cagra", "ivfpq", "shards"}
    BY <2>1 DEF Files
  <2> QED
    BY <2>1, <2>2, RankOf
<1> QED
  BY <1>1 DEF Ranks

-----------------------------------------------------------------------------
(* What the operations do to the files.                                    *)

\* What an operation that is done has left behind.
Effect(o, v, t, d) ==
  /\ o.do = "put" => d[o.f] = Content(v, t)[o.f]
  /\ o.do = "try" => d["vecs"] \in {0, v}
  /\ o.do = "del" => d[o.f] = 0

\* Unlinking and applying, file by file.
LEMMA UnlinkFacts ==
  ASSUME NEW S, 0 \in S, NEW d \in [Files -> S], NEW F
  PROVE  /\ Unlink(d, F) \in [Files -> S]
         /\ \A f \in Files : Unlink(d, F)[f] = IF f \in F THEN 0 ELSE d[f]
BY DEF Unlink

LEMMA ApplyFacts ==
  ASSUME NEW O, OpShape(O), NEW S, 0 \in S, NEW d \in [Files -> S], NEW c \in [Files -> S], NEW q \in O
  PROVE  /\ Apply(d, q, c) \in [Files -> S]
         /\ q.do \in {"put", "try"} => \A f \in Files : Apply(d, q, c)[f] = IF f = q.f THEN c[f] ELSE d[f]
         /\ q.do = "del" => \A f \in Files : Apply(d, q, c)[f] = IF f = q.f THEN 0 ELSE d[f]
         /\ q.do = "sweep" => \A f \in Files :
              /\ Apply(d, q, c)[f] \in {0, d[f]}
              /\ f \notin {ShardFiles[i] : i \in q.f + 1 .. Len(ShardFiles)} => Apply(d, q, c)[f] = d[f]
<1>1. q.do \in {"put", "try", "del", "sweep"} /\ (q.do \in {"put", "try", "del"} => q.f \in Files)
  BY DEF OpShape
<1>2. CASE q.do \in {"put", "try"}
  <2>1. Apply(d, q, c) = [d EXCEPT ![q.f] = c[q.f]]
    BY <1>2 DEF Apply
  <2> QED
    BY <1>1, <1>2, <2>1
<1>3. CASE q.do = "del"
  <2>1. Apply(d, q, c) = Unlink(d, {q.f})
    BY <1>3 DEF Apply
  <2> QED
    BY <1>3, <2>1, UnlinkFacts
<1>4. CASE q.do = "sweep"
  <2>1. Apply(d, q, c) = Unlink(d, Swept(d, q.f))
    BY <1>4 DEF Apply
  <2>2. Swept(d, q.f) \subseteq {ShardFiles[i] : i \in q.f + 1 .. Len(ShardFiles)}
    BY DEF Swept
  <2> QED
    BY <1>4, <2>1, <2>2, UnlinkFacts
<1> QED
  BY <1>1, <1>2, <1>3, <1>4

\* What is done stays done: an operation leaves its effect and keeps those of others.
LEMMA EffectKept ==
  ASSUME NEW O, OpShape(O), NEW S, 0 \in S, NEW d \in [Files -> S], NEW v \in S, NEW t \in S, NEW q \in O, NEW o \in O,
         o = q \/ Effect(o, v, t, d)
  PROVE  Effect(o, v, t, Apply(d, q, Content(v, t)))
<1> DEFINE c == Content(v, t)
<1> DEFINE e == Apply(d, q, c)
<1>1. c \in [Files -> S] /\ \A f \in Files : f # "tids" => c[f] = v
  BY DEF Content
<1>2. /\ o.do \in {"put", "try", "del", "sweep"} /\ q.do \in {"put", "try", "del", "sweep"}
      /\ (o.do \in {"put", "try", "del"} => o.f \in Files) /\ (q.do \in {"put", "try", "del"} => q.f \in Files)
      /\ (o.do = "try" => o.f = "vecs") /\ (q.do = "try" => q.f = "vecs")
      /\ (o.do \in {"put", "try"} /\ q.do = "del" => o.f # q.f)
      /\ (q.do \in {"put", "try"} /\ o.do = "del" => o.f # q.f)
      /\ (o.do = "put" /\ q.do = "sweep" => \A i \in q.f + 1 .. Len(ShardFiles) : o.f # ShardFiles[i])
  BY DEF OpShape
<1>3. "vecs" \in Files /\ "vecs" # "tids"
  BY ShardNames
<1>4. /\ q.do \in {"put", "try"} => \A f \in Files : e[f] = IF f = q.f THEN c[f] ELSE d[f]
      /\ q.do = "del" => \A f \in Files : e[f] = IF f = q.f THEN 0 ELSE d[f]
      /\ q.do = "sweep" => \A f \in Files :
           /\ e[f] \in {0, d[f]}
           /\ f \notin {ShardFiles[i] : i \in q.f + 1 .. Len(ShardFiles)} => e[f] = d[f]
  BY <1>1, ApplyFacts
<1> HIDE DEF c, e
<1>5. ASSUME o.do = "put" PROVE e[o.f] = c[o.f]
  <2>1. o = q \/ d[o.f] = c[o.f]
    BY <1>5 DEF Effect, c
  <2>2. CASE q.do \in {"put", "try"}
    BY <1>2, <1>4, <1>5, <2>1, <2>2
  <2>3. CASE q.do = "del"
    BY <1>2, <1>4, <1>5, <2>1, <2>3
  <2>4. CASE q.do = "sweep"
    <3>1. o.f \notin {ShardFiles[i] : i \in q.f + 1 .. Len(ShardFiles)}
      BY <1>2, <1>5, <2>4
    <3> QED
      BY <1>2, <1>4, <1>5, <2>1, <2>4, <3>1
  <2> QED
    BY <1>2, <2>2, <2>3, <2>4
<1>6. ASSUME o.do = "try" PROVE e["vecs"] \in {0, v}
  <2>1. o = q \/ d["vecs"] \in {0, v}
    BY <1>6 DEF Effect
  <2>2. c["vecs"] = v
    BY <1>1, <1>3
  <2>3. CASE q.do \in {"put", "try"}
    BY <1>2, <1>3, <1>4, <1>6, <2>1, <2>2, <2>3
  <2>4. CASE q.do \in {"del", "sweep"}
    BY <1>2, <1>3, <1>4, <1>6, <2>1, <2>4
  <2> QED
    BY <1>2, <2>3, <2>4
<1>7. ASSUME o.do = "del" PROVE e[o.f] = 0
  <2>1. o = q \/ d[o.f] = 0
    BY <1>7 DEF Effect
  <2>2. CASE q.do \in {"put", "try"}
    BY <1>2, <1>4, <1>7, <2>1, <2>2
  <2>3. CASE q.do \in {"del", "sweep"}
    BY <1>2, <1>4, <1>7, <2>1, <2>3
  <2> QED
    BY <1>2, <2>2, <2>3
<1> QED
  BY <1>5, <1>6, <1>7 DEF Effect, c, e

-----------------------------------------------------------------------------
(* The operations of a download.                                           *)

\* The file that makes a snapshot with n shards whole, and all its files.
Main(n) == IF n = 0 THEN "cagra" ELSE "shards"
SnapFiles(n) == {"tids", Main(n)} \cup ShardsUpTo(n)

DownloadSet(n) ==
  {Put("tids", {}), Check("tids", {"tids"}), Put(Main(n), {"tids"}), Check(Main(n), {"tids", Main(n)})}
  \cup {ShardPut(i) : i \in 1 .. n}

DRank(o) ==
  CASE o.do = "put" /\ o.f = "tids" -> 1
    [] o.do = "check" /\ o.f = "tids" -> 2
    [] o.do = "put" /\ o.f \in {"cagra", "shards"} -> 3
    [] o.do = "check" /\ o.f # "tids" -> 4
    [] o.do = "put" /\ o.f \notin {"tids", "cagra", "shards"} -> 5

DRanks(O) == [o \in O |-> DRank(o)]

LEMMA SnapFilesFacts ==
  ASSUME NEW n \in Widths
  PROVE  /\ SnapFiles(n) \subseteq Files /\ SnapFiles(n) \cap {"ivfpq", "vecs"} = {}
         /\ "tids" \in SnapFiles(n) /\ Main(n) \in SnapFiles(n) /\ Main(n) \in {"cagra", "shards"}
         /\ \A i \in 1 .. n : ShardFiles[i] \in SnapFiles(n) /\ ShardFiles[i] \in ShardSet
<1>1. n \in 0 .. Len(ShardFiles) /\ Len(ShardFiles) \in Nat
  BY ShardNames
<1>2. ShardsUpTo(n) \subseteq ShardSet /\ \A i \in 1 .. n : ShardFiles[i] \in ShardsUpTo(n)
  BY <1>1, ShardNames
<1> QED
  BY <1>2, ShardNames DEF SnapFiles, Main

\* Four operations in order.
LEMMA InOrderFour ==
  ASSUME NEW O, NEW rk, NEW a \in O, NEW b \in O, NEW c \in O, NEW e \in O,
         rk[a] = 1, rk[b] = 2, rk[c] = 3, rk[e] = 4
  PROVE  /\ <<a, b, c, e>> \in Seq(O) /\ InOrder(<<a, b, c, e>>, rk)
         /\ Ran(<<a, b, c, e>>) = {a, b, c, e} /\ Between(<<a, b, c, e>>, rk, 1, 4)
<1>1. <<a, b, c, e>> \in Seq(O)
  OBVIOUS
<1>2. Ran(<<a, b, c, e>>) = {a, b, c, e}
  BY RanShort
<1>3. PICK s : s = <<a, b, c, e>>
  OBVIOUS
<1>4. Len(s) = 4 /\ s[1] = a /\ s[2] = b /\ s[3] = c /\ s[4] = e
  BY <1>3
<1>5. \A i \in 1 .. 4 : rk[s[i]] = i
  <2>1. \A i \in 1 .. 4 : i = 1 \/ i = 2 \/ i = 3 \/ i = 4
    OBVIOUS
  <2> QED
    BY <2>1, <1>4
<1>6. InOrder(s, rk)
  BY <1>4, <1>5 DEF InOrder
<1>7. Between(<<a, b, c, e>>, rk, 1, 4)
  BY <1>2 DEF Between
<1> QED
  BY <1>1, <1>2, <1>3, <1>6, <1>7

\* What the proofs use of the operations of a download.
LEMMA DownloadSetFacts ==
  ASSUME NEW n \in Widths, NEW O, O = DownloadSet(n)
  PROVE  /\ DRanks(O) \in [O -> Nat]
         /\ \A o \in O : o.do \in {"put", "check"} /\ o.f \in SnapFiles(n)
         /\ Put("tids", {}) \in O /\ Check("tids", {"tids"}) \in O
         /\ Put(Main(n), {"tids"}) \in O /\ Check(Main(n), {"tids", Main(n)}) \in O
         /\ \A i \in 1 .. n : ShardPut(i) \in O /\ DRanks(O)[ShardPut(i)] = 5
         /\ DRanks(O)[Put("tids", {})] = 1 /\ DRanks(O)[Check("tids", {"tids"})] = 2
         /\ DRanks(O)[Put(Main(n), {"tids"})] = 3 /\ DRanks(O)[Check(Main(n), {"tids", Main(n)})] = 4
         /\ \A o \in O : o.do = "check" => o.f \in {"tids", Main(n)}
         /\ \A o \in O : o.do = "check" /\ o.f = "tids" => o = Check("tids", {"tids"})
         /\ \A o \in O : o.do = "check" /\ o.f # "tids" => o = Check(Main(n), {"tids", Main(n)})
         /\ \A o \in O : o.do = "put" /\ o.f = "tids" => o = Put("tids", {})
         /\ \A o \in O : o # Put("tids", {}) => DRanks(O)[o] >= 2
         /\ \A o \in O : o.do = "put" /\ o.f # "tids" =>
              "tids" \in o.undo /\ o.undo \cap {"cagra", "ivfpq", "vecs"} = {}
<1>1. /\ Main(n) \in {"cagra", "shards"} /\ Main(n) # "tids"
      /\ "tids" \in SnapFiles(n) /\ Main(n) \in SnapFiles(n)
      /\ \A i \in 1 .. n : ShardFiles[i] \in SnapFiles(n) /\ ShardFiles[i] \in ShardSet
  BY SnapFilesFacts
<1>2. ASSUME NEW i \in 1 .. n
      PROVE  /\ ShardPut(i).do = "put" /\ ShardPut(i).f \in SnapFiles(n) /\ DRank(ShardPut(i)) = 5
             /\ ShardPut(i).f \notin {"tids", "cagra", "shards"}
             /\ "tids" \in ShardPut(i).undo /\ ShardPut(i).undo \cap {"cagra", "ivfpq", "vecs"} = {}
  <2>1. ShardPut(i).do = "put" /\ ShardPut(i).f = ShardFiles[i] /\ ShardPut(i).undo = ShardsUpTo(i - 1) \cup {"tids", "shards"}
    BY DEF ShardPut, Put
  <2>2. ShardFiles[i] \notin {"tids", "cagra", "shards"} /\ ShardFiles[i] \in SnapFiles(n)
    BY <1>1, ShardNames
  <2>3. i - 1 \in 0 .. Len(ShardFiles)
    BY ShardNames
  <2>4. ShardsUpTo(i - 1) \cap {"cagra", "ivfpq", "vecs"} = {}
    BY <2>3, ShardNames
  <2>5. DRank(ShardPut(i)) = 5
    BY <2>1, <2>2 DEF DRank
  <2> QED
    BY <2>1, <2>2, <2>4, <2>5
<1>3. /\ DRank(Put("tids", {})) = 1 /\ DRank(Check("tids", {"tids"})) = 2
      /\ DRank(Put(Main(n), {"tids"})) = 3 /\ DRank(Check(Main(n), {"tids", Main(n)})) = 4
  BY <1>1 DEF DRank, Put, Check
<1>4. ASSUME NEW o \in O
      PROVE  \/ \E i \in 1 .. n : o = ShardPut(i)
             \/ o = Put("tids", {}) \/ o = Check("tids", {"tids"})
             \/ o = Put(Main(n), {"tids"}) \/ o = Check(Main(n), {"tids", Main(n)})
  BY DEF DownloadSet
<1>5. /\ Put("tids", {}) \in O /\ Check("tids", {"tids"}) \in O
      /\ Put(Main(n), {"tids"}) \in O /\ Check(Main(n), {"tids", Main(n)}) \in O
      /\ \A i \in 1 .. n : ShardPut(i) \in O
  BY DEF DownloadSet
<1>6. \A o \in O : DRank(o) \in Nat /\ (o # Put("tids", {}) => DRank(o) >= 2)
  BY <1>2, <1>3, <1>4
<1>7. \A o \in O : o.do \in {"put", "check"} /\ o.f \in SnapFiles(n)
  BY <1>1, <1>2, <1>4 DEF Put, Check
<1>8. \A o \in O : o.do = "check" => o.f \in {"tids", Main(n)}
  BY <1>1, <1>2, <1>4 DEF Put, Check
<1>9. \A o \in O : o.do = "check" /\ o.f = "tids" => o = Check("tids", {"tids"})
  BY <1>1, <1>2, <1>4 DEF Put, Check
<1>10. \A o \in O : o.do = "check" /\ o.f # "tids" => o = Check(Main(n), {"tids", Main(n)})
  BY <1>1, <1>2, <1>4 DEF Put, Check
<1>11. \A o \in O : o.do = "put" /\ o.f = "tids" => o = Put("tids", {})
  BY <1>1, <1>2, <1>4 DEF Put, Check
<1>12. \A o \in O : o.do = "put" /\ o.f # "tids" => "tids" \in o.undo /\ o.undo \cap {"cagra", "ivfpq", "vecs"} = {}
  BY <1>1, <1>2, <1>4 DEF Put, Check
<1>13. DRanks(O) \in [O -> Nat] /\ \A o \in O : DRanks(O)[o] = DRank(o)
  BY <1>6 DEF DRanks
<1>14. \A i \in 1 .. n : DRanks(O)[ShardPut(i)] = 5
  BY <1>2, <1>5, <1>13
<1>15. /\ DRanks(O)[Put("tids", {})] = 1 /\ DRanks(O)[Check("tids", {"tids"})] = 2
       /\ DRanks(O)[Put(Main(n), {"tids"})] = 3 /\ DRanks(O)[Check(Main(n), {"tids", Main(n)})] = 4
  BY <1>3, <1>5, <1>13
<1>16. \A o \in O : o # Put("tids", {}) => DRanks(O)[o] >= 2
  BY <1>6, <1>13
<1> QED
  BY <1>5, <1>7, <1>8, <1>9, <1>10, <1>11, <1>12, <1>13, <1>14, <1>15, <1>16

\* The list of a download is an agenda with all its operations.
LEMMA DownloadAgenda ==
  ASSUME NEW m, m.n \in Widths
  PROVE  /\ Agenda(DownloadOps(m), DownloadSet(m.n), DRanks(DownloadSet(m.n)))
         /\ \A o \in DownloadSet(m.n) : o \in Ran(DownloadOps(m))
<1>1. PICK n \in Widths : n = m.n
  OBVIOUS
<1>2. PICK O, rk : O = DownloadSet(n) /\ rk = DRanks(DownloadSet(n))
  OBVIOUS
<1>3. PICK a, b, c, e : /\ a = Put("tids", {}) /\ b = Check("tids", {"tids"})
                        /\ c = Put(Main(n), {"tids"}) /\ e = Check(Main(n), {"tids", Main(n)})
  OBVIOUS
<1>4. /\ a \in O /\ b \in O /\ c \in O /\ e \in O
      /\ rk[a] = 1 /\ rk[b] = 2 /\ rk[c] = 3 /\ rk[e] = 4
      /\ \A i \in 1 .. n : ShardPut(i) \in O /\ rk[ShardPut(i)] = 5
  BY <1>2, <1>3, DownloadSetFacts
<1>5. PICK s : s = <<a, b, c, e>>
  OBVIOUS
<1>6. s \in Seq(O) /\ InOrder(s, rk) /\ Ran(s) = {a, b, c, e} /\ Between(s, rk, 1, 4)
  <2>1. a \in O /\ b \in O /\ c \in O /\ e \in O /\ rk[a] = 1 /\ rk[b] = 2 /\ rk[c] = 3 /\ rk[e] = 4
    BY <1>4
  <2>2. /\ <<a, b, c, e>> \in Seq(O) /\ InOrder(<<a, b, c, e>>, rk)
        /\ Ran(<<a, b, c, e>>) = {a, b, c, e} /\ Between(<<a, b, c, e>>, rk, 1, 4)
    BY <2>1, InOrderFour, Zenon
  <2> QED
    BY <1>5, <2>2, Zenon
<1>7. n \in Nat /\ n <= Len(ShardFiles) /\ Len(ShardFiles) \in Nat
  BY ShardNames
<1>8. O = {a, b, c, e} \cup {ShardPut(i) : i \in 1 .. n}
  BY <1>2, <1>3 DEF DownloadSet
<1>9. CASE n = 0
  <2>1. DownloadOps(m) = s
    BY <1>1, <1>3, <1>5, <1>9 DEF DownloadOps, Main
  <2>2. \A o \in O : o \in Ran(s)
    BY <1>6, <1>8, <1>9
  <2>3. Agenda(s, O, rk)
    BY <1>6, <2>2, AgendaNew
  <2> QED
    BY <1>1, <1>2, <2>1, <2>2, <2>3
<1>10. CASE n # 0
  <2> DEFINE p == [i \in 1 .. n |-> Put(ShardFiles[i], ShardsUpTo(i - 1) \cup {"tids", "shards"})]
  <2>1. DownloadOps(m) = s \o p
    BY <1>1, <1>3, <1>5, <1>10 DEF DownloadOps, Main
  <2>2. \A i \in 1 .. n : p[i] = ShardPut(i)
    BY DEF ShardPut
  <2>3. p \in [1 .. n -> O]
    <3>1. \A i \in 1 .. n : Put(ShardFiles[i], ShardsUpTo(i - 1) \cup {"tids", "shards"}) \in O
      BY <1>4 DEF ShardPut
    <3> QED BY <3>1
  <2> HIDE DEF p
  <2>4. p \in Seq(O) /\ Len(p) = n
    BY <2>3, <1>7
  <2>5. Ran(p) = {ShardPut(i) : i \in 1 .. n}
    BY <2>2, <2>4 DEF Ran
  <2>6. InOrder(p, rk)
    <3> SUFFICES ASSUME NEW i \in 1 .. n, NEW j \in 1 .. n, i < j PROVE rk[p[i]] <= rk[p[j]] /\ p[i] # p[j]
      BY <2>4 DEF InOrder
    <3>1. ShardFiles[i] # ShardFiles[j]
      BY <1>7, ShardNames
    <3>2. ShardPut(i) # ShardPut(j)
      BY <3>1 DEF ShardPut, Put
    <3> QED
      BY <3>2, <1>4, <2>2
  <2>7. Between(p, rk, 5, 5)
    BY <1>4, <2>5 DEF Between
  <2>8. s \o p \in Seq(O) /\ InOrder(s \o p, rk) /\ Ran(s \o p) = Ran(s) \cup Ran(p)
    <3>1. 1 <= 4 /\ 4 < 5 /\ 5 <= 5
      OBVIOUS
    <3> QED
      BY <1>6, <2>4, <2>6, <2>7, <3>1, InOrderJoin
  <2>9. \A o \in O : o \in Ran(s \o p)
    BY <1>6, <1>8, <2>5, <2>8
  <2>10. Agenda(s \o p, O, rk)
    BY <2>8, <2>9, AgendaNew
  <2> QED
    BY <1>1, <1>2, <2>1, <2>9, <2>10
<1> QED
  BY <1>9, <1>10

-----------------------------------------------------------------------------
(* The inductive invariant.                                                *)

\* The operations of thread v.
Plan(v) == OpsOf(am, job[v].op, width[v])

IsJob(r) == r = [st |-> r.st, op |-> r.op, todo |-> r.todo, live |-> r.live, t |-> r.t]

JobOK(v) ==
  /\ IsJob(job[v])
  /\ job[v].st \in {"idle", "gpu", "commit"} /\ job[v].op \in {"build", "keep", "evict"}
  /\ job[v].live \in BOOLEAN /\ job[v].t \in 0 .. nv
  /\ v > nv => job[v].st = "idle"
  /\ job[v].st = "gpu" => job[v].op = "build" /\ job[v].t = tidl[v]
  /\ job[v].op # "build" => am = "cagra"
  /\ job[v].st = "commit" => Agenda(job[v].todo, Plan(v), Ranks(Plan(v)))
  /\ job[v].st = "commit" /\ am # "flat" => lock = v

IsUpload(r) == r = [on |-> r.on, todo |-> r.todo, got |-> r.got]

UploadOK(v) ==
  /\ IsUpload(ups[v])
  /\ ups[v].on =>
       /\ v <= nv /\ am = "cagra"
       /\ ups[v].todo \in Seq(Files) /\ ups[v].got \in Seq(0 .. nv)
       /\ Len(ups[v].todo) + Len(ups[v].got) = Len(Reads(v))

ManifestOK(m) ==
  m # NoManifest => am = "cagra" /\ m.n \in Widths /\ \A f \in SnapFiles(m.n) : m.obj[f] \in 0 .. nv

DownloadOK ==
  /\ dl = [on |-> dl.on, todo |-> dl.todo, m |-> dl.m]
  /\ dl.on =>
       /\ dl.m # NoManifest /\ ManifestOK(dl.m)
       /\ Agenda(dl.todo, DownloadSet(dl.m.n), DRanks(DownloadSet(dl.m.n)))

NamesOK ==
  /\ am \in Kinds /\ nv \in 0 .. MaxV
  /\ tidl \in [Versions -> 0 .. nv] /\ \A v \in Versions : v <= nv => tidl[v] # 0
  /\ width \in [Versions -> Widths]

RestOK ==
  /\ lock \in 0 .. nv /\ (lock # 0 => job[lock].st = "commit")
  /\ res \in [g : 0 .. nv, t : 0 .. nv]
  /\ acked \in 0 .. nv /\ open \in BOOLEAN /\ why \subseteq Accidents
  /\ cold \in {"none", "queued", "loading", "failed"}

\* The types, and that every list under way is the rest of a commit or a download.
TypeInv ==
  /\ NamesOK
  /\ disk \in [Files -> 0 .. nv]
  /\ DOMAIN job = Versions /\ \A v \in Versions : JobOK(v)
  /\ DOMAIN ups = Versions /\ \A v \in Versions : UploadOK(v)
  /\ RestOK
  /\ ManifestOK(latest)
  /\ DownloadOK

\* What TypeInv says, without its names.
LEMMA TypeFacts ==
  TypeInv =>
    /\ am \in {"cagra", "flat", "ivfpq"} /\ nv \in Nat /\ MaxV \in Nat /\ nv <= MaxV
    /\ \A v \in Versions : v \in Nat /\ v >= 1 /\ v <= MaxV /\ width[v] \in Widths /\ tidl[v] \in 0 .. nv
    /\ \A v \in 1 .. nv : v \in Versions /\ tidl[v] \in 1 .. nv
    /\ disk \in [Files -> 0 .. nv]
    /\ \A v \in Versions : OpShape(Plan(v)) /\ Ranks(Plan(v)) \in [Plan(v) -> Nat]
    /\ \A v \in Versions : job[v].st = "commit" => v \in 1 .. nv
    /\ lock = 0 /\ am # "flat" => \A v \in Versions : job[v].st # "commit"
    /\ lock # 0 => lock \in Versions /\ job[lock].st = "commit"
<1> SUFFICES ASSUME TypeInv
             PROVE  /\ am \in {"cagra", "flat", "ivfpq"} /\ nv \in Nat /\ MaxV \in Nat /\ nv <= MaxV
                    /\ \A v \in Versions : v \in Nat /\ v >= 1 /\ v <= MaxV /\ width[v] \in Widths /\ tidl[v] \in 0 .. nv
                    /\ \A v \in 1 .. nv : v \in Versions /\ tidl[v] \in 1 .. nv
                    /\ disk \in [Files -> 0 .. nv]
                    /\ \A v \in Versions : OpShape(Plan(v)) /\ Ranks(Plan(v)) \in [Plan(v) -> Nat]
                    /\ \A v \in Versions : job[v].st = "commit" => v \in 1 .. nv
                    /\ lock = 0 /\ am # "flat" => \A v \in Versions : job[v].st # "commit"
                    /\ lock # 0 => lock \in Versions /\ job[lock].st = "commit"
  OBVIOUS
<1>1. am \in {"cagra", "flat", "ivfpq"} /\ nv \in Nat /\ MaxV \in Nat /\ nv <= MaxV
  BY MaxVAssumption, KindsAssumption DEF TypeInv, NamesOK
<1>2. \A v \in Versions : v \in Nat /\ v >= 1 /\ v <= MaxV /\ width[v] \in Widths /\ tidl[v] \in 0 .. nv
  BY <1>1 DEF TypeInv, NamesOK, Versions
<1>3. \A v \in 1 .. nv : v \in Versions /\ tidl[v] \in 1 .. nv
  BY <1>1 DEF TypeInv, NamesOK, Versions
<1>4. disk \in [Files -> 0 .. nv]
  BY DEF TypeInv
<1>5. ASSUME NEW v \in Versions PROVE OpShape(Plan(v)) /\ Ranks(Plan(v)) \in [Plan(v) -> Nat]
  <2>1. OpShape(Plan(v))
    BY <1>1, <1>2, OpsOfShape DEF Plan
  <2> QED
    BY <2>1, RanksType
<1>6. ASSUME NEW v \in Versions PROVE (job[v].st = "commit" => v \in 1 .. nv) /\ (job[v].st = "commit" /\ am # "flat" => lock = v)
  <2>1. JobOK(v)
    BY DEF TypeInv
  <2> QED
    BY <2>1, <1>1, <1>2 DEF JobOK
<1>7. lock = 0 /\ am # "flat" => \A v \in Versions : job[v].st # "commit"
  BY <1>2, <1>6
<1>8. lock # 0 => lock \in Versions /\ job[lock].st = "commit"
  BY <1>1 DEF TypeInv, RestOK, Versions
<1> QED
  BY <1>1, <1>2, <1>3, <1>4, <1>5, <1>6, <1>7, <1>8

LEMMA InitType == Init => TypeInv
<1> SUFFICES ASSUME Init PROVE TypeInv
  OBVIOUS
<1>1. MaxV \in Nat /\ 0 \in Widths
  BY MaxVAssumption DEF Widths
<1>2. NamesOK
  BY <1>1 DEF Init, NamesOK, Versions
<1>3. disk \in [Files -> 0 .. nv]
  BY DEF Init
<1>4. ASSUME NEW v \in Versions PROVE JobOK(v)
  <2>1. job[v] = NoJob /\ nv = 0
    BY DEF Init
  <2>2. PICK e : e = <<>>
    OBVIOUS
  <2>3. job[v] = [st |-> "idle", op |-> "build", todo |-> e, live |-> FALSE, t |-> 0]
    BY <2>1, <2>2 DEF NoJob
  <2> QED
    BY <2>1, <2>3 DEF JobOK, IsJob
<1>5. ASSUME NEW v \in Versions PROVE UploadOK(v)
  <2>1. ups[v] = NoUpload
    BY DEF Init
  <2>2. PICK e : e = <<>>
    OBVIOUS
  <2>3. ups[v] = [on |-> FALSE, todo |-> e, got |-> e]
    BY <2>1, <2>2 DEF NoUpload
  <2> QED
    BY <2>3 DEF UploadOK, IsUpload
<1>6. DOMAIN job = Versions /\ DOMAIN ups = Versions
  BY DEF Init
<1>7. RestOK
  <2>1. nv = 0 /\ lock = 0 /\ res = [g |-> 0, t |-> 0] /\ acked = 0 /\ open = FALSE /\ why = {} /\ cold = "none"
    BY DEF Init, NoEntry
  <2>2. res \in [g : 0 .. nv, t : 0 .. nv]
    BY <2>1
  <2>3. open \in BOOLEAN
    BY <2>1, Zenon
  <2> QED
    BY <2>1, <2>2, <2>3 DEF RestOK
<1>8. ManifestOK(latest)
  BY DEF Init, ManifestOK
<1>9. DownloadOK
  <2>1. PICK e, x : e = <<>> /\ x = NoManifest
    OBVIOUS
  <2>2. dl = [on |-> FALSE, todo |-> e, m |-> x]
    BY <2>1 DEF Init, NoDownload
  <2> QED
    BY <2>2 DEF DownloadOK
<1> QED
  BY <1>2, <1>3, <1>4, <1>5, <1>6, <1>7, <1>8, <1>9 DEF TypeInv

-----------------------------------------------------------------------------
(* TypeInv is preserved.                                                   *)

\* What does not change.
LEMMA NamesSame == NamesOK /\ UNCHANGED names => NamesOK'
BY DEF NamesOK, names

LEMMA UploadsSame ==
  ASSUME TypeInv, am' = am, nv' >= nv, nv' \in Nat, NEW v \in Versions, ups'[v] = ups[v],
         v <= nv => width'[v] = width[v]
  PROVE  UploadOK(v)'
<1>1. UploadOK(v) /\ nv \in Nat /\ v \in Nat
  BY TypeFacts DEF TypeInv
<1>0. CASE v > nv
  <2>1. PICK u : u = ups[v]
    OBVIOUS
  <2>4. IsUpload(u) /\ (u.on => v <= nv)
    BY <1>1, <2>1 DEF UploadOK
  <2>5. ~(v <= nv)
    BY <1>0, <1>1
  <2>2. IsUpload(u) /\ ~u.on
    BY <2>4, <2>5
  <2>3. ups'[v] = u
    BY <2>1
  <2> QED
    BY <2>2, <2>3 DEF UploadOK
<1> SUFFICES ASSUME v <= nv PROVE UploadOK(v)'
  BY <1>0, <1>1
<1>2. Reads(v)' = Reads(v)
  BY DEF Reads
<1>3. ASSUME ups[v].got \in Seq(0 .. nv) PROVE ups[v].got \in Seq(0 .. nv')
  <2>1. 0 .. nv \subseteq 0 .. nv'
    BY <1>1
  <2> QED
    BY <1>3, <2>1, SeqMonotonic
<1>4. PICK r, u : r = Reads(v) /\ u = ups[v]
  OBVIOUS
<1>5. Reads(v)' = r /\ ups'[v] = u
  BY <1>2, <1>4
<1>6. IsUpload(u) /\ (u.on => v <= nv /\ am = "cagra" /\ u.todo \in Seq(Files) /\ Len(u.todo) + Len(u.got) = Len(r))
  BY <1>1, <1>4 DEF UploadOK
<1>7. u.on => u.got \in Seq(0 .. nv')
  BY <1>1, <1>3, <1>4 DEF UploadOK
<1>8. v <= nv => v <= nv'
  BY <1>1
<1> QED
  BY <1>5, <1>6, <1>7, <1>8 DEF UploadOK

LEMMA ManifestSame ==
  ASSUME NEW m, ManifestOK(m), am' = am, nv \in Nat, nv' \in Nat, nv' >= nv
  PROVE  ManifestOK(m)'
BY DEF ManifestOK

LEMMA DownloadSame ==
  ASSUME TypeInv, am' = am, nv' \in Nat, nv' >= nv, dl' = dl
  PROVE  DownloadOK'
<1>1. DownloadOK /\ nv \in Nat
  BY TypeFacts DEF TypeInv
<1>2. PICK m : m = dl.m
  OBVIOUS
<1>3. ManifestOK(m) => ManifestOK(m)'
  BY <1>1, ManifestSame
<1> QED
  BY <1>1, <1>2, <1>3 DEF DownloadOK, ManifestOK

\* A thread that is not involved.
LEMMA JobSame ==
  ASSUME TypeInv, am' = am, nv' \in Nat, nv' >= nv, NEW v \in Versions, job'[v] = job[v],
         v <= nv => width'[v] = width[v] /\ tidl'[v] = tidl[v], job[v].st = "commit" /\ am # "flat" => lock' = lock,
         v > nv => v > nv'
  PROVE  JobOK(v)'
<1>1. JobOK(v) /\ nv \in Nat /\ v \in Nat
  BY TypeFacts DEF TypeInv
<1>2. CASE v <= nv
  <2>1. Plan(v)' = Plan(v)
    BY <1>2 DEF Plan
  <2>2. PICK q : q = Plan(v)
    OBVIOUS
  <2>3. Plan(v)' = q
    BY <2>1, <2>2
  <2>4. job'[v].st = "commit" => Agenda(job'[v].todo, q, Ranks(q))
    BY <1>1, <2>2 DEF JobOK
  <2>5. IsJob(job'[v]) /\ job'[v].st \in {"idle", "gpu", "commit"} /\ job'[v].op \in {"build", "keep", "evict"}
        /\ job'[v].live \in BOOLEAN /\ job'[v].t \in 0 .. nv'
    BY <1>1 DEF JobOK
  <2>6. /\ v > nv' => job'[v].st = "idle"
        /\ job'[v].st = "gpu" => job'[v].op = "build" /\ job'[v].t = tidl'[v]
        /\ job'[v].op # "build" => am' = "cagra"
        /\ job'[v].st = "commit" /\ am' # "flat" => lock' = v
    BY <1>1, <1>2 DEF JobOK
  <2> QED
    BY <2>3, <2>4, <2>5, <2>6 DEF JobOK
<1>3. CASE v > nv
  <2>1. job'[v].st = "idle" /\ v > nv'
    BY <1>1, <1>3 DEF JobOK
  <2> QED
    BY <1>1, <2>1 DEF JobOK
<1> QED
  BY <1>1, <1>2, <1>3

\* A thread that is no more.
LEMMA JobGone ==
  ASSUME NEW v \in Versions, job'[v] = NoJob, nv' \in Nat
  PROVE  JobOK(v)'
<1>2. PICK e : e = <<>>
  OBVIOUS
<1>3. job'[v] = [st |-> "idle", op |-> "build", todo |-> e, live |-> FALSE, t |-> 0]
  BY <1>2 DEF NoJob
<1> QED
  BY <1>3 DEF JobOK, IsJob

\* A new version gets the next number and changes nothing of the others.
LEMMA Grow ==
  ASSUME TypeInv, NEW n \in Widths, NEW same, NewVersion(n, same)
  PROVE  /\ NamesOK' /\ nv' = nv + 1 /\ nv' \in Versions /\ nv' \in Nat /\ nv' >= nv /\ am' = am
         /\ \A v \in Versions : v # nv + 1 => tidl'[v] = tidl[v] /\ width'[v] = width[v]
         /\ width'[nv + 1] = n
         /\ tidl'[nv + 1] \in 1 .. nv' /\ (same = FALSE => tidl'[nv + 1] = nv + 1)
         /\ job[nv + 1].st = "idle" /\ 0 .. nv \subseteq 0 .. nv'
<1>1. nv \in Nat /\ MaxV \in Nat /\ nv < MaxV /\ nv' = nv + 1 /\ am' = am
  BY TypeFacts DEF NewVersion
<1>2. nv + 1 \in Versions
  BY <1>1 DEF Versions
<1>3. tidl \in [Versions -> 0 .. nv] /\ width \in [Versions -> Widths] /\ am \in Kinds /\ \A v \in Versions : v <= nv => tidl[v] # 0
  BY DEF TypeInv, NamesOK
<1>4. PICK x : x = IF same THEN tidl[nv] ELSE nv + 1
  OBVIOUS
<1>5. x \in 1 .. nv + 1 /\ (same = FALSE => x = nv + 1)
  <2>1. CASE same
    <3>1. nv \in Versions
      BY <1>1, <2>1 DEF NewVersion, Versions
    <3>2. tidl[nv] \in 0 .. nv /\ tidl[nv] # 0
      BY <1>1, <1>3, <3>1
    <3> QED
      BY <1>1, <1>4, <2>1, <3>2
  <2>2. CASE ~same
    BY <1>1, <1>4, <2>2
  <2> QED
    BY <2>1, <2>2
<1>6. tidl' = [tidl EXCEPT ![nv + 1] = x] /\ width' = [width EXCEPT ![nv + 1] = n]
  BY <1>4 DEF NewVersion
<1>7. /\ tidl' \in [Versions -> 0 .. nv'] /\ width' \in [Versions -> Widths]
      /\ \A v \in Versions : v # nv + 1 => tidl'[v] = tidl[v] /\ width'[v] = width[v]
      /\ width'[nv + 1] = n /\ tidl'[nv + 1] = x
  BY <1>1, <1>2, <1>3, <1>5, <1>6
<1>8. \A v \in Versions : v <= nv' => tidl'[v] # 0
  <2> SUFFICES ASSUME NEW v \in Versions, v <= nv' PROVE tidl'[v] # 0
    OBVIOUS
  <2>1. v \in Nat
    BY <1>1 DEF Versions
  <2>2. v = nv + 1 \/ (v # nv + 1 /\ v <= nv)
    BY <1>1, <2>1
  <2> QED
    BY <1>1, <1>3, <1>5, <1>7, <2>2
<1>9. NamesOK'
  BY <1>1, <1>3, <1>7, <1>8 DEF NamesOK
<1>10. job[nv + 1].st = "idle"
  <2>1. JobOK(nv + 1) /\ nv + 1 > nv
    BY <1>1, <1>2 DEF TypeInv
  <2> QED
    BY <2>1 DEF JobOK
<1> QED
  BY <1>1, <1>2, <1>5, <1>7, <1>9, <1>10

LEMMA AccidentType == \A v : Accident(v) \subseteq Accidents
BY DEF Accident, Accidents

\* A record with the fields of a thread is the record of them.
LEMMA JobFields ==
  ASSUME NEW k, DOMAIN k = {"st", "op", "todo", "live", "t"}, k = [y \in DOMAIN k |-> k[y]]
  PROVE  IsJob(k)
<1>1. PICK a, b, c, d, e : k.st = a /\ k.op = b /\ k.todo = c /\ k.live = d /\ k.t = e
  OBVIOUS
<1>2. k = [st |-> a, op |-> b, todo |-> c, live |-> d, t |-> e]
  BY <1>1
<1> QED
  BY <1>1, <1>2 DEF IsJob

\* A thread that begins to build, one that begins to save, and one that goes on.
BuildJob(c, x) == [NoJob EXCEPT !.st = "gpu", !.live = c, !.t = x]
SaveJob(o, d, x) == [NoJob EXCEPT !.st = "commit", !.op = o, !.todo = d, !.t = x]
Alone(j, l) == [j EXCEPT !.live = l]
Commits(j, d) == [j EXCEPT !.st = "commit", !.todo = d]
GoesOn(j, d) == [j EXCEPT !.todo = d]

LEMMA NewJobs ==
  /\ \A c, x : /\ IsJob(BuildJob(c, x)) /\ BuildJob(c, x).st = "gpu" /\ BuildJob(c, x).op = "build"
               /\ BuildJob(c, x).live = c /\ BuildJob(c, x).t = x
  /\ \A o, d, x : /\ IsJob(SaveJob(o, d, x)) /\ SaveJob(o, d, x).st = "commit" /\ SaveJob(o, d, x).op = o
                  /\ SaveJob(o, d, x).todo = d /\ SaveJob(o, d, x).live = FALSE /\ SaveJob(o, d, x).t = x
<1>1. PICK e, j, b : e = <<>> /\ j = NoJob /\ b = FALSE
  OBVIOUS
<1>2. j = [st |-> "idle", op |-> "build", todo |-> e, live |-> b, t |-> 0]
  BY <1>1 DEF NoJob
<1>3. ASSUME NEW c, NEW x
      PROVE  /\ IsJob(BuildJob(c, x)) /\ BuildJob(c, x).st = "gpu" /\ BuildJob(c, x).op = "build"
             /\ BuildJob(c, x).live = c /\ BuildJob(c, x).t = x
  <2>1. PICK k : k = [j EXCEPT !.st = "gpu", !.live = c, !.t = x]
    OBVIOUS
  <2>2. k.st = "gpu" /\ k.op = "build" /\ k.live = c /\ k.t = x /\ DOMAIN k = {"st", "op", "todo", "live", "t"}
    BY <1>2, <2>1
  <2>3. k = [y \in DOMAIN k |-> k[y]]
    BY <2>1
  <2>4. IsJob(k)
    BY <2>2, <2>3, JobFields
  <2>5. BuildJob(c, x) = k
    BY <1>1, <2>1 DEF BuildJob
  <2> QED
    BY <2>2, <2>4, <2>5
<1>4. ASSUME NEW o, NEW d, NEW x
      PROVE  /\ IsJob(SaveJob(o, d, x)) /\ SaveJob(o, d, x).st = "commit" /\ SaveJob(o, d, x).op = o
             /\ SaveJob(o, d, x).todo = d /\ SaveJob(o, d, x).live = FALSE /\ SaveJob(o, d, x).t = x
  <2>1. PICK k : k = [j EXCEPT !.st = "commit", !.op = o, !.todo = d, !.t = x]
    OBVIOUS
  <2>2. k.st = "commit" /\ k.op = o /\ k.todo = d /\ k.live = b /\ k.t = x /\ DOMAIN k = {"st", "op", "todo", "live", "t"}
    BY <1>2, <2>1
  <2>3. k = [y \in DOMAIN k |-> k[y]]
    BY <2>1
  <2>4. IsJob(k)
    BY <2>2, <2>3, JobFields
  <2>5. SaveJob(o, d, x) = k
    BY <1>1, <2>1 DEF SaveJob
  <2> QED
    BY <1>1, <2>2, <2>4, <2>5
<1> QED
  BY <1>3, <1>4

LEMMA OldJobs ==
  ASSUME NEW j, IsJob(j), NEW z
  PROVE  /\ IsJob(Alone(j, z)) /\ Alone(j, z).st = j.st /\ Alone(j, z).op = j.op
         /\ Alone(j, z).todo = j.todo /\ Alone(j, z).live = z /\ Alone(j, z).t = j.t
         /\ IsJob(Commits(j, z)) /\ Commits(j, z).st = "commit" /\ Commits(j, z).op = j.op
         /\ Commits(j, z).todo = z /\ Commits(j, z).live = j.live /\ Commits(j, z).t = j.t
         /\ IsJob(GoesOn(j, z)) /\ GoesOn(j, z).st = j.st /\ GoesOn(j, z).op = j.op
         /\ GoesOn(j, z).todo = z /\ GoesOn(j, z).live = j.live /\ GoesOn(j, z).t = j.t
<1>1. PICK a, b, c, d, e : j = [st |-> a, op |-> b, todo |-> c, live |-> d, t |-> e]
  BY DEF IsJob
<1>2. PICK k : k = Alone(j, z)
  OBVIOUS
<1>3. PICK l : l = Commits(j, z)
  OBVIOUS
<1>4. PICK m : m = GoesOn(j, z)
  OBVIOUS
<1>5. /\ DOMAIN k = {"st", "op", "todo", "live", "t"} /\ k = [y \in DOMAIN k |-> k[y]]
      /\ k.st = j.st /\ k.op = j.op /\ k.todo = j.todo /\ k.live = z /\ k.t = j.t
  BY <1>1, <1>2 DEF Alone
<1>6. /\ DOMAIN l = {"st", "op", "todo", "live", "t"} /\ l = [y \in DOMAIN l |-> l[y]]
      /\ l.st = "commit" /\ l.op = j.op /\ l.todo = z /\ l.live = j.live /\ l.t = j.t
  BY <1>1, <1>3 DEF Commits
<1>7. /\ DOMAIN m = {"st", "op", "todo", "live", "t"} /\ m = [y \in DOMAIN m |-> m[y]]
      /\ m.st = j.st /\ m.op = j.op /\ m.todo = z /\ m.live = j.live /\ m.t = j.t
  BY <1>1, <1>4 DEF GoesOn
<1>8. IsJob(k) /\ IsJob(l) /\ IsJob(m)
  BY <1>5, <1>6, <1>7, JobFields
<1> QED
  BY <1>2, <1>3, <1>4, <1>5, <1>6, <1>7, <1>8

LEMMA StartBuildType == ASSUME TypeInv, NEW n \in Widths, NEW same \in BOOLEAN, StartBuild(n, same) PROVE TypeInv'
<1>1. /\ NamesOK' /\ nv' = nv + 1 /\ nv' \in Versions /\ nv' \in Nat /\ nv' >= nv /\ am' = am
      /\ \A v \in Versions : v # nv + 1 => tidl'[v] = tidl[v] /\ width'[v] = width[v]
      /\ tidl'[nv + 1] \in 1 .. nv' /\ 0 .. nv \subseteq 0 .. nv'
  BY Grow DEF StartBuild
<1>2. nv \in Nat /\ \A v \in Versions : v \in Nat
  BY TypeFacts
<1>15. PICK x, c : x = tidl'[nv + 1] /\ c = TRUE
  OBVIOUS
<1>3. PICK k : k = BuildJob(c, x)
  OBVIOUS
<1>4. job' = [job EXCEPT ![nv + 1] = k]
  BY <1>3, <1>15 DEF StartBuild, BuildJob
<1>5. DOMAIN job' = Versions /\ \A v \in Versions : v # nv + 1 => job'[v] = job[v]
  BY <1>4 DEF TypeInv
<1>6. job'[nv + 1] = k /\ IsJob(k) /\ k.st = "gpu" /\ k.op = "build" /\ k.live = TRUE /\ k.t = x
  <2>1. job'[nv + 1] = k
    BY <1>1, <1>4 DEF TypeInv
  <2>2. IsJob(k) /\ k.st = "gpu" /\ k.op = "build" /\ k.live = c /\ k.t = x
    BY <1>3, NewJobs
  <2> QED
    BY <1>15, <2>1, <2>2
<1>7. disk' = disk /\ lock' = lock /\ res' = res /\ ups' = ups /\ latest' = latest /\ dl' = dl /\ cold' = cold
      /\ acked' = acked /\ why' = why /\ open' = TRUE
  BY DEF StartBuild, files, cloud
<1>8. ASSUME NEW v \in Versions PROVE JobOK(v)'
  <2>1. CASE v = nv + 1
    <3>1. tidl'[v] \in 0 .. nv' /\ ~(v > nv')
      BY <1>1, <1>2, <2>1
    <3>2. /\ job'[v].st = "gpu" /\ job'[v].op = "build" /\ job'[v].live = TRUE /\ job'[v].t = tidl'[v]
          /\ IsJob(job'[v])
      BY <1>15, <1>6, <2>1
    <3>3. job'[v].live \in BOOLEAN
      BY <3>2
    <3> QED
      BY <3>1, <3>2, <3>3 DEF JobOK
  <2>2. CASE v # nv + 1
    <3>1. v > nv => v > nv'
      BY <1>1, <1>2, <2>2
    <3> QED
      BY <1>1, <1>5, <1>7, <2>2, <3>1, JobSame
  <2> QED
    BY <2>1, <2>2
<1>9. ASSUME NEW v \in Versions PROVE UploadOK(v)'
  <2>1. v <= nv => v # nv + 1
    BY <1>2
  <2> QED
    BY <1>1, <1>7, <2>1, UploadsSame
<1>10. disk' \in [Files -> 0 .. nv'] /\ DOMAIN ups' = Versions
  BY <1>1, <1>7 DEF TypeInv
<1>11. RestOK'
  <2>1. lock # 0 => job'[lock].st = "commit"
    <3> SUFFICES ASSUME lock # 0 PROVE job'[lock].st = "commit"
      OBVIOUS
    <3>1. lock \in Versions /\ job[lock].st = "commit" /\ lock # nv + 1
      BY <1>2, TypeFacts DEF TypeInv, RestOK
    <3> QED
      BY <1>5, <3>1
  <2>2. RestOK
    BY DEF TypeInv
  <2> QED
    BY <1>1, <1>7, <2>1, <2>2 DEF RestOK
<1>12. ManifestOK(latest)'
  BY <1>1, <1>2, <1>7, ManifestSame DEF TypeInv, ManifestOK
<1>13. DownloadOK'
  BY <1>1, <1>7, DownloadSame
<1> QED
  BY <1>1, <1>5, <1>8, <1>9, <1>10, <1>11, <1>12, <1>13 DEF TypeInv

\* The other threads when thread v becomes k.
LEMMA JobsAfter ==
  ASSUME TypeInv, UNCHANGED names, NEW v \in Versions, NEW k, job' = [job EXCEPT ![v] = k],
         lock' = lock \/ lock \in {0, v}
  PROVE  /\ DOMAIN job' = Versions /\ job'[v] = k /\ \A w \in Versions : w # v => job'[w] = job[w]
         /\ JobOK(v)' => \A w \in Versions : JobOK(w)'
<1>1. DOMAIN job' = Versions /\ job'[v] = k /\ \A w \in Versions : w # v => job'[w] = job[w]
  BY DEF TypeInv
<1>2. ASSUME NEW w \in Versions, w # v PROVE JobOK(w)'
  <2>1. job[w].st = "commit" /\ am # "flat" => lock = w /\ w # 0
    <3>1. JobOK(w) /\ w # 0
      BY TypeFacts DEF TypeInv
    <3> QED
      BY <3>1 DEF JobOK
  <2>2. job[w].st = "commit" /\ am # "flat" => lock' = lock
    BY <1>2, <2>1
  <2>3. nv' \in Nat /\ nv' >= nv /\ am' = am /\ (w <= nv => width'[w] = width[w] /\ tidl'[w] = tidl[w]) /\ (w > nv => w > nv')
    BY TypeFacts DEF names
  <2> QED
    BY <1>1, <1>2, <2>2, <2>3, JobSame
<1> QED
  BY <1>1, <1>2

\* All parts that the names alone keep.
LEMMA SameType ==
  ASSUME TypeInv, UNCHANGED names
  PROVE  /\ NamesOK' /\ nv' = nv /\ am' = am /\ tidl' = tidl /\ width' = width /\ nv \in Nat
         /\ ups' = ups => DOMAIN ups' = Versions /\ \A v \in Versions : UploadOK(v)'
         /\ \A v \in Versions : ups'[v] = ups[v] => UploadOK(v)'
         /\ latest' = latest => ManifestOK(latest)'
         /\ dl' = dl => DownloadOK'
         /\ job' = job /\ lock' = lock => DOMAIN job' = Versions /\ \A v \in Versions : JobOK(v)'
         /\ disk' = disk => disk' \in [Files -> 0 .. nv]
<1>1. NamesOK' /\ nv' = nv /\ am' = am /\ tidl' = tidl /\ width' = width /\ nv \in Nat /\ nv' >= nv /\ nv' \in Nat
  BY NamesSame, TypeFacts DEF TypeInv, names
<1>2. \A v \in Versions : ups'[v] = ups[v] => UploadOK(v)'
  BY <1>1, UploadsSame
<1>3. ups' = ups => DOMAIN ups' = Versions /\ \A v \in Versions : UploadOK(v)'
  BY <1>2 DEF TypeInv
<1>4. latest' = latest => ManifestOK(latest)'
  BY <1>1 DEF TypeInv, ManifestOK
<1>5. dl' = dl => DownloadOK'
  BY <1>1, DownloadSame
<1>6. ASSUME job' = job, lock' = lock PROVE DOMAIN job' = Versions /\ \A v \in Versions : JobOK(v)'
  <2>1. ASSUME NEW v \in Versions PROVE JobOK(v)'
    BY <1>1, <1>6, JobSame
  <2> QED
    BY <1>6, <2>1 DEF TypeInv
<1>7. disk' = disk => disk' \in [Files -> 0 .. nv]
  BY DEF TypeInv
<1> QED
  BY <1>1, <1>2, <1>3, <1>4, <1>5, <1>6, <1>7

\* The entry that load_index makes is of versions that exist.
LEMMA ServedType == ASSUME TypeInv PROVE Served(disk) \in [g : 0 .. nv, t : 0 .. nv]
<1>1. disk \in [Files -> 0 .. nv] /\ nv \in Nat /\ {"tids", "cagra", "ivfpq", "shards", "vecs"} \subseteq Files
  BY TypeFacts, ShardNames
<1>2. disk["tids"] \in 0 .. nv /\ disk["cagra"] \in 0 .. nv /\ disk["ivfpq"] \in 0 .. nv /\ disk["shards"] \in 0 .. nv
      /\ disk["vecs"] \in 0 .. nv /\ 0 \in 0 .. nv
  BY <1>1
<1> QED
  BY <1>2 DEF Served, NoEntry

LEMMA CancelType == ASSUME TypeInv, NEW v \in Versions, Cancel(v) PROVE TypeInv'
<1>0. UNCHANGED <<names, files, cloud, acked, open, why>> /\ UNCHANGED names
  BY DEF Cancel
<1>1. disk' = disk /\ lock' = lock /\ res' = res /\ ups' = ups /\ latest' = latest /\ dl' = dl /\ cold' = cold
      /\ acked' = acked /\ open' = open /\ why' = why
  BY <1>0 DEF files, cloud
<1>2. PICK j, l : j = job[v] /\ l = FALSE
  OBVIOUS
<1>3. PICK k : k = Alone(j, l)
  OBVIOUS
<1>4. job' = [job EXCEPT ![v] = k]
  BY <1>2, <1>3 DEF Cancel, Alone
<1>5. JobOK(v)
  BY DEF TypeInv
<1>6. IsJob(k) /\ k.st = j.st /\ k.op = j.op /\ k.todo = j.todo /\ k.live = l /\ k.t = j.t
  <2>1. IsJob(j)
    BY <1>2, <1>5 DEF JobOK
  <2> QED
    BY <1>3, <2>1, OldJobs
<1>7. DOMAIN job' = Versions /\ job'[v] = k /\ \A w \in Versions : w # v => job'[w] = job[w]
  BY <1>0, <1>1, <1>4, JobsAfter
<1>8. JobOK(v)'
  <2>1. PICK p : p = Plan(v)
    OBVIOUS
  <2>2. Plan(v)' = p
    BY <1>0, <1>2, <1>6, <1>7, <2>1 DEF Plan, names
  <2>3. l \in BOOLEAN
    BY <1>2
  <2>4. job[v].st = "commit" => Agenda(job[v].todo, p, Ranks(p))
    BY <1>5, <2>1 DEF JobOK
  <2> QED
    BY <1>0, <1>1, <1>2, <1>5, <1>6, <1>7, <2>2, <2>3, <2>4 DEF JobOK, names
<1>9. \A w \in Versions : JobOK(w)'
  BY <1>0, <1>1, <1>4, <1>8, JobsAfter
<1>10. RestOK'
  <2>1. \A w \in Versions : job'[w].st = job[w].st
    BY <1>2, <1>6, <1>7
  <2>2. lock # 0 => job'[lock].st = "commit"
    BY <2>1, TypeFacts
  <2>3. RestOK /\ nv' = nv
    BY <1>0 DEF TypeInv, names
  <2> QED
    BY <1>1, <2>2, <2>3 DEF RestOK
<1> QED
  BY <1>0, <1>1, <1>7, <1>9, <1>10, SameType DEF TypeInv

LEMMA BuildFailsType == ASSUME TypeInv, NEW v \in Versions, BuildFails(v) PROVE TypeInv'
<1>0. UNCHANGED names
  BY DEF BuildFails
<1>1. lock' = lock /\ lock = 0 /\ res' = res /\ ups' = ups /\ latest' = latest /\ dl' = dl /\ cold' = cold
      /\ acked' = acked /\ open' = open /\ why' = why /\ job' = [job EXCEPT ![v] = NoJob]
      /\ (disk' = disk \/ disk' = Unlink(disk, {"vecs"}))
  BY DEF BuildFails, cloud
<1>2. nv \in Nat /\ nv' = nv
  BY <1>0, SameType
<1>3. DOMAIN job' = Versions /\ job'[v] = NoJob
  BY <1>0, <1>1, JobsAfter
<1>4. \A w \in Versions : JobOK(w)'
  BY <1>0, <1>1, <1>2, <1>3, JobsAfter, JobGone
<1>5. disk' \in [Files -> 0 .. nv]
  <2>1. disk \in [Files -> 0 .. nv] /\ 0 \in 0 .. nv
    BY <1>2 DEF TypeInv
  <2>2. Unlink(disk, {"vecs"}) \in [Files -> 0 .. nv]
    BY <2>1, UnlinkFacts
  <2> QED
    BY <1>1, <2>1, <2>2
<1>6. RestOK'
  BY <1>1, <1>2 DEF TypeInv, RestOK
<1> QED
  BY <1>0, <1>1, <1>2, <1>3, <1>4, <1>5, <1>6, SameType DEF TypeInv

LEMMA BeginCommitType == ASSUME TypeInv, NEW v \in Versions, NEW vok \in BOOLEAN, BeginCommit(v, vok) PROVE TypeInv'
<1>0. UNCHANGED names
  BY DEF BeginCommit
<1>1. /\ lock = 0 /\ job[v].st = "gpu" /\ (~vok => am = "cagra")
      /\ res' = res /\ ups' = ups /\ latest' = latest /\ dl' = dl /\ cold' = cold /\ acked' = acked /\ open' = open
      /\ why' = why \cup Accident(v) /\ lock' = (IF am = "flat" THEN 0 ELSE v)
      /\ disk' = (IF vok THEN disk ELSE Unlink(disk, {"vecs"}))
  BY DEF BeginCommit, cloud
<1>2. nv \in Nat /\ nv' = nv /\ v \in Nat
  BY <1>0, SameType, TypeFacts
<1>3. PICK j, d : j = job[v] /\ d = Commit(width[v], vok)
  OBVIOUS
<1>4. PICK k : k = Commits(j, d)
  OBVIOUS
<1>5. job' = [job EXCEPT ![v] = k]
  BY <1>3, <1>4 DEF BeginCommit, Commits, TypeInv
<1>6. JobOK(v)
  BY DEF TypeInv
<1>7. IsJob(k) /\ k.st = "commit" /\ k.op = j.op /\ k.todo = d /\ k.live = j.live /\ k.t = j.t
  <2>1. IsJob(j)
    BY <1>3, <1>6 DEF JobOK
  <2> QED
    BY <1>4, <2>1, OldJobs
<1>8. DOMAIN job' = Versions /\ job'[v] = k
  BY <1>0, <1>1, <1>5, JobsAfter
<1>9. JobOK(v)'
  <2>1. PICK p : p = Plan(v)
    OBVIOUS
  <2>2. Plan(v)' = p
    BY <1>0, <1>3, <1>7, <1>8, <2>1 DEF Plan, names
  <2>3. Agenda(d, p, Ranks(p))
    <3>1. am \in {"cagra", "flat", "ivfpq"} /\ width[v] \in Widths
      BY TypeFacts
    <3>2. p = OpsOf(am, "build", width[v])
      BY <1>1, <1>6, <2>1 DEF Plan, JobOK
    <3> QED
      BY <1>1, <1>3, <3>1, <3>2, CommitAgenda
  <2>4. am' # "flat" => lock' = v
    BY <1>0, <1>1 DEF names
  <2>5. ~(v > nv)
    BY <1>1, <1>6 DEF JobOK
  <2>6. am' = am /\ tidl' = tidl
    BY <1>0 DEF names
  <2> QED
    BY <1>2, <1>3, <1>6, <1>7, <1>8, <2>2, <2>3, <2>4, <2>5, <2>6 DEF JobOK
<1>10. \A w \in Versions : JobOK(w)'
  BY <1>0, <1>1, <1>5, <1>9, JobsAfter
<1>11. disk' \in [Files -> 0 .. nv]
  <2>1. disk \in [Files -> 0 .. nv] /\ 0 \in 0 .. nv
    BY <1>2 DEF TypeInv
  <2>2. Unlink(disk, {"vecs"}) \in [Files -> 0 .. nv]
    BY <2>1, UnlinkFacts
  <2> QED
    BY <1>1, <2>1, <2>2
<1>12. RestOK'
  <2>1. lock' \in 0 .. nv
    <3>1. v <= nv
      BY <1>1, <1>2, <1>6 DEF JobOK
    <3> QED
      BY <1>1, <1>2, <3>1
  <2>2. lock' # 0 => job'[lock'].st = "commit"
    BY <1>1, <1>7, <1>8
  <2>3. why' \subseteq Accidents
    BY <1>1, AccidentType DEF TypeInv, RestOK
  <2> QED
    BY <1>1, <1>2, <2>1, <2>2, <2>3 DEF TypeInv, RestOK
<1> QED
  BY <1>0, <1>1, <1>2, <1>8, <1>10, <1>11, <1>12, SameType DEF TypeInv

\* The contents that thread v puts are versions.
LEMMA ContentType ==
  ASSUME NEW S, NEW v \in S, NEW t \in S
  PROVE  Content(v, t) \in [Files -> S]
BY DEF Content

LEMMA CommitStepType == ASSUME TypeInv, NEW v \in Versions, CommitStep(v) PROVE TypeInv'
<1>0. UNCHANGED names
  BY DEF CommitStep
<1>1. /\ job[v].st = "commit" /\ job[v].todo # <<>>
      /\ lock' = lock /\ res' = res /\ ups' = ups /\ latest' = latest /\ dl' = dl /\ cold' = cold /\ acked' = acked /\ open' = open
      /\ why' = why \cup Accident(v)
      /\ disk' = Apply(disk, Head(job[v].todo), Content(v, job[v].t))
  BY DEF CommitStep, cloud
<1>2. nv \in Nat /\ nv' = nv /\ v \in Nat /\ v \in 0 .. nv /\ 0 \in 0 .. nv
  BY <1>0, <1>1, SameType, TypeFacts
<1>3. PICK j, d, q : j = job[v] /\ d = Tail(job[v].todo) /\ q = Head(job[v].todo)
  OBVIOUS
<1>4. PICK k : k = GoesOn(j, d)
  OBVIOUS
<1>5. job' = [job EXCEPT ![v] = k]
  BY <1>3, <1>4 DEF CommitStep, GoesOn, TypeInv
<1>6. JobOK(v) /\ OpShape(Plan(v)) /\ Ranks(Plan(v)) \in [Plan(v) -> Nat]
  BY TypeFacts DEF TypeInv
<1>7. IsJob(k) /\ k.st = j.st /\ k.op = j.op /\ k.todo = d /\ k.live = j.live /\ k.t = j.t
  <2>1. IsJob(j)
    BY <1>3, <1>6 DEF JobOK
  <2> QED
    BY <1>4, <2>1, OldJobs
<1>8. DOMAIN job' = Versions /\ job'[v] = k
  BY <1>0, <1>1, <1>5, JobsAfter
<1>9. PICK p : p = Plan(v)
  OBVIOUS
<1>10. Agenda(d, p, Ranks(p)) /\ q \in p
  <2>1. Agenda(job[v].todo, p, Ranks(p)) /\ Ranks(p) \in [p -> Nat]
    BY <1>1, <1>6, <1>9 DEF JobOK
  <2> QED
    BY <1>1, <1>3, <2>1, AgendaTail
<1>11. JobOK(v)'
  <2>1. Plan(v)' = p
    BY <1>0, <1>3, <1>7, <1>8, <1>9 DEF Plan, names
  <2>2. am' = am /\ tidl' = tidl
    BY <1>0 DEF names
  <2> QED
    BY <1>1, <1>2, <1>3, <1>6, <1>7, <1>8, <1>10, <2>1, <2>2 DEF JobOK
<1>12. \A w \in Versions : JobOK(w)'
  BY <1>0, <1>1, <1>5, <1>11, JobsAfter
<1>13. disk' \in [Files -> 0 .. nv]
  <2>1. disk \in [Files -> 0 .. nv] /\ OpShape(p)
    BY <1>6, <1>9 DEF TypeInv
  <2>2. Content(v, job[v].t) \in [Files -> 0 .. nv]
    BY <1>2, <1>6, ContentType DEF JobOK
  <2> QED
    BY <1>1, <1>2, <1>3, <1>10, <2>1, <2>2, ApplyFacts
<1>14. RestOK'
  <2>1. lock # 0 => job'[lock].st = "commit"
    <3>1. \A w \in Versions : job'[w].st = job[w].st
      BY <1>0, <1>1, <1>3, <1>5, <1>7, JobsAfter
    <3> QED
      BY <3>1, TypeFacts
  <2>2. why' \subseteq Accidents
    BY <1>1, AccidentType DEF TypeInv, RestOK
  <2> QED
    BY <1>1, <1>2, <2>1, <2>2 DEF TypeInv, RestOK
<1> QED
  BY <1>0, <1>1, <1>2, <1>8, <1>12, <1>13, <1>14, SameType DEF TypeInv

LEMMA CommitFailsType == ASSUME TypeInv, NEW v \in Versions, CommitFails(v) PROVE TypeInv'
<1>0. UNCHANGED names
  BY DEF CommitFails
<1>1. /\ job[v].st = "commit" /\ job[v].todo # <<>>
      /\ res' = res /\ ups' = ups /\ latest' = latest /\ dl' = dl /\ cold' = cold /\ acked' = acked /\ open' = open
      /\ why' = why \cup Accident(v)
      /\ disk' = Unlink(disk, Head(job[v].todo).undo)
  BY DEF CommitFails, cloud
<1>2. nv \in Nat /\ nv' = nv /\ v \in Nat /\ 0 \in 0 .. nv /\ v # 0
  BY <1>0, <1>1, SameType, TypeFacts
<1>3. disk' \in [Files -> 0 .. nv]
  <2>1. PICK F : F = Head(job[v].todo).undo
    OBVIOUS
  <2>2. disk \in [Files -> 0 .. nv]
    BY DEF TypeInv
  <2>3. Unlink(disk, F) \in [Files -> 0 .. nv]
    BY <1>2, <2>2, UnlinkFacts
  <2> QED
    BY <1>1, <2>1, <2>3
<1>4. why' \subseteq Accidents
  BY <1>1, AccidentType DEF TypeInv, RestOK
<1>5. CASE job' = [job EXCEPT ![v] = NoJob] /\ lock' = IF lock = v THEN 0 ELSE lock
  <2>1. lock' = lock \/ lock \in {0, v}
    BY <1>5
  <2>2. DOMAIN job' = Versions /\ job'[v] = NoJob /\ \A w \in Versions : w # v => job'[w] = job[w]
    BY <1>0, <1>5, <2>1, JobsAfter
  <2>3. \A w \in Versions : JobOK(w)'
    BY <1>0, <1>2, <1>5, <2>1, <2>2, JobsAfter, JobGone
  <2>4. RestOK'
    <3>1. lock' # 0 => lock' = lock /\ lock # v /\ lock \in Versions /\ job[lock].st = "commit"
      BY <1>5, TypeFacts
    <3>2. lock' # 0 => job'[lock'].st = "commit"
      BY <3>1, <2>2
    <3>3. lock' \in 0 .. nv
      BY <1>2, <1>5 DEF TypeInv, RestOK
    <3> QED
      BY <1>1, <1>2, <1>4, <3>2, <3>3 DEF TypeInv, RestOK
  <2> QED
    BY <1>0, <1>1, <1>2, <1>3, <2>2, <2>3, <2>4, SameType DEF TypeInv
<1>6. CASE job' = [job EXCEPT ![v].todo = Tail(@)] /\ lock' = lock
  <2>1. PICK j, d : j = job[v] /\ d = Tail(job[v].todo)
    OBVIOUS
  <2>2. PICK k : k = GoesOn(j, d)
    OBVIOUS
  <2>3. job' = [job EXCEPT ![v] = k]
    BY <2>1, <2>2, <1>6 DEF GoesOn, TypeInv
  <2>4. JobOK(v) /\ Ranks(Plan(v)) \in [Plan(v) -> Nat]
    BY TypeFacts DEF TypeInv
  <2>5. IsJob(k) /\ k.st = j.st /\ k.op = j.op /\ k.todo = d /\ k.live = j.live /\ k.t = j.t
    <3>1. IsJob(j)
      BY <2>1, <2>4 DEF JobOK
    <3> QED
      BY <2>2, <3>1, OldJobs
  <2>6. DOMAIN job' = Versions /\ job'[v] = k
    BY <1>0, <1>6, <2>3, JobsAfter
  <2>7. PICK p : p = Plan(v)
    OBVIOUS
  <2>8. Agenda(d, p, Ranks(p))
    <3>1. Agenda(job[v].todo, p, Ranks(p)) /\ Ranks(p) \in [p -> Nat]
      BY <1>1, <2>4, <2>7 DEF JobOK
    <3> QED
      BY <1>1, <2>1, <3>1, AgendaTail
  <2>9. JobOK(v)'
    <3>1. Plan(v)' = p
      BY <1>0, <2>1, <2>5, <2>6, <2>7 DEF Plan, names
    <3>2. am' = am /\ tidl' = tidl
      BY <1>0 DEF names
    <3> QED
      BY <1>1, <1>2, <1>6, <2>1, <2>4, <2>5, <2>6, <2>8, <3>1, <3>2 DEF JobOK
  <2>10. \A w \in Versions : JobOK(w)'
    BY <1>0, <1>6, <2>3, <2>9, JobsAfter
  <2>11. RestOK'
    <3>1. lock # 0 => job'[lock].st = "commit"
      <4>1. \A w \in Versions : job'[w].st = job[w].st
        BY <1>0, <1>6, <2>1, <2>3, <2>5, JobsAfter
      <4> QED
        BY <4>1, TypeFacts
    <3> QED
      BY <1>1, <1>2, <1>4, <1>6, <3>1 DEF TypeInv, RestOK
  <2> QED
    BY <1>0, <1>1, <1>2, <1>3, <2>6, <2>10, <2>11, SameType DEF TypeInv
<1> QED
  BY <1>5, <1>6 DEF CommitFails

\* The thread that uploads version v.
LEMMA UploadThreadOK ==
  ASSUME TypeInv, NEW v \in Versions, v <= nv, am = "cagra"
  PROVE  /\ Reads(v) \in Seq(Files) /\ IsUpload(UploadThread(v)) /\ UploadThread(v).todo = Reads(v)
         /\ UploadThread(v).got \in Seq(0 .. nv) /\ Len(UploadThread(v).todo) + Len(UploadThread(v).got) = Len(Reads(v))
<1>1. Reads(v) \in Seq(Files)
  <2>1. {"cagra", "tids", "shards"} \subseteq Files
    BY ShardNames
  <2>2. CASE width[v] = 0
    BY <2>1, <2>2 DEF Reads
  <2>3. CASE width[v] # 0
    <3>1. width[v] \in Nat /\ width[v] <= Len(ShardFiles)
      BY TypeFacts, ShardNames
    <3>2. SubSeq(ShardFiles, 1, width[v]) \in Seq(Files)
      <4>1. \A i \in 1 .. width[v] : ShardFiles[i] \in Files
        BY <3>1, ShardNames
      <4> QED
        BY <3>1, <4>1, SubSeqProperties
    <3>3. PICK a, b : a = <<"tids", "shards">> /\ b = SubSeq(ShardFiles, 1, width[v])
      OBVIOUS
    <3>4. a \in Seq(Files)
      BY <2>1, <3>3
    <3>5. (a \o b) \o a \in Seq(Files)
      BY <3>2, <3>3, <3>4, ConcatProperties
    <3>6. Reads(v) = (a \o b) \o a
      BY <2>3, <3>3 DEF Reads
    <3> QED
      BY <3>5, <3>6
  <2> QED
    BY <2>2, <2>3
<1>2. PICK r, e : r = Reads(v) /\ e = <<>>
  OBVIOUS
<1>3. UploadThread(v) = [on |-> TRUE, todo |-> r, got |-> e]
  BY <1>2 DEF UploadThread
<1>4. Len(e) = 0 /\ e \in Seq(0 .. nv) /\ Len(r) \in Nat
  BY <1>1, <1>2, LenProperties
<1>5. IsUpload(UploadThread(v)) /\ UploadThread(v).todo = r /\ UploadThread(v).got = e
  BY <1>3 DEF IsUpload
<1> QED
  BY <1>1, <1>2, <1>4, <1>5

LEMMA EndCommitType == ASSUME TypeInv, NEW v \in Versions, EndCommit(v) PROVE TypeInv'
<1>0. UNCHANGED names
  BY DEF EndCommit
<1>1. /\ job[v].st = "commit" /\ lock \in {0, v} /\ lock' = 0 /\ job' = [job EXCEPT ![v] = NoJob]
      /\ res' = (IF job[v].op = "evict" THEN NoEntry ELSE [g |-> v, t |-> job[v].t])
      /\ (acked' = acked \/ acked' = v)
      /\ (open' = open \/ open' = (\E w \in Versions \ {v} : job[w].st # "idle"))
      /\ ups' = (IF job[v].op = "build" /\ Uploads(v) THEN [ups EXCEPT ![v] = UploadThread(v)] ELSE ups)
      /\ why' = why \cup Accident(v)
      /\ disk' = disk /\ latest' = latest /\ dl' = dl /\ cold' = cold
  BY DEF EndCommit
<1>2. nv \in Nat /\ nv' = nv /\ v \in Nat /\ 0 \in 0 .. nv /\ v \in 0 .. nv /\ v <= nv /\ am' = am
  BY <1>0, <1>1, SameType, TypeFacts
<1>3. DOMAIN job' = Versions /\ job'[v] = NoJob
  BY <1>0, <1>1, JobsAfter
<1>4. \A w \in Versions : JobOK(w)'
  BY <1>0, <1>1, <1>2, <1>3, JobsAfter, JobGone
<1>5. DOMAIN ups' = Versions /\ \A w \in Versions : UploadOK(w)'
  <2>1. CASE ups' = ups
    BY <1>0, <2>1, SameType
  <2>2. CASE Uploads(v) /\ ups' = [ups EXCEPT ![v] = UploadThread(v)]
    <3>1. am = "cagra"
      BY <2>2 DEF Uploads
    <3>2. /\ Reads(v) \in Seq(Files) /\ IsUpload(UploadThread(v)) /\ UploadThread(v).todo = Reads(v)
          /\ UploadThread(v).got \in Seq(0 .. nv) /\ Len(UploadThread(v).todo) + Len(UploadThread(v).got) = Len(Reads(v))
      BY <1>2, <3>1, UploadThreadOK
    <3>3. DOMAIN ups' = Versions /\ ups'[v] = UploadThread(v) /\ \A w \in Versions : w # v => ups'[w] = ups[w]
      BY <2>2 DEF TypeInv
    <3>4. UploadOK(v)'
      <4>1. PICK r, u : r = Reads(v) /\ u = UploadThread(v)
        OBVIOUS
      <4>2. Reads(v)' = r
        BY <1>0, <4>1 DEF Reads, names
      <4>3. ups'[v] = u /\ IsUpload(u) /\ u.todo \in Seq(Files) /\ u.got \in Seq(0 .. nv) /\ Len(u.todo) + Len(u.got) = Len(r)
        BY <3>2, <3>3, <4>1
      <4> QED
        BY <1>2, <3>1, <4>2, <4>3 DEF UploadOK
    <3>5. \A w \in Versions : w # v => UploadOK(w)'
      BY <1>0, <3>3, SameType
    <3> QED
      BY <3>3, <3>4, <3>5
  <2> QED
    BY <1>1, <2>1, <2>2
<1>6. RestOK'
  <2>1. res' \in [g : 0 .. nv, t : 0 .. nv]
    <3>1. job[v].t \in 0 .. nv
      BY DEF TypeInv, JobOK
    <3> QED
      BY <1>1, <1>2, <3>1 DEF NoEntry
  <2>2. open' \in BOOLEAN
    <3>1. CASE open' = open
      BY <3>1 DEF TypeInv, RestOK
    <3>2. CASE open' = (\E w \in Versions \ {v} : job[w].st # "idle")
      BY <3>2
    <3> QED
      BY <1>1, <3>1, <3>2
  <2>3. why' \subseteq Accidents
    BY <1>1, AccidentType DEF TypeInv, RestOK
  <2>4. acked' \in 0 .. nv /\ cold' \in {"none", "queued", "loading", "failed"}
    BY <1>1, <1>2 DEF TypeInv, RestOK
  <2> QED
    BY <1>1, <1>2, <2>1, <2>2, <2>3, <2>4 DEF RestOK
<1> QED
  BY <1>0, <1>1, <1>2, <1>3, <1>4, <1>5, <1>6, SameType DEF TypeInv

\* All parts that a new version keeps.
LEMMA GrowSame ==
  ASSUME TypeInv, NEW n \in Widths, NEW same \in BOOLEAN, NewVersion(n, same), lock' = lock \/ lock = 0
  PROVE  /\ \A v \in Versions : v # nv + 1 /\ job'[v] = job[v] => JobOK(v)'
         /\ ups' = ups => DOMAIN ups' = Versions /\ \A v \in Versions : UploadOK(v)'
         /\ latest' = latest => ManifestOK(latest)'
         /\ dl' = dl => DownloadOK'
         /\ disk' = disk => disk' \in [Files -> 0 .. nv']
<1>1. /\ nv' = nv + 1 /\ nv' \in Nat /\ nv' >= nv /\ am' = am /\ 0 .. nv \subseteq 0 .. nv'
      /\ \A v \in Versions : v # nv + 1 => tidl'[v] = tidl[v] /\ width'[v] = width[v]
  BY Grow
<1>2. nv \in Nat /\ \A v \in Versions : v \in Nat
  BY TypeFacts
<1>3. ASSUME NEW v \in Versions, v # nv + 1, job'[v] = job[v] PROVE JobOK(v)'
  <2>1. v > nv => v > nv'
    BY <1>1, <1>2, <1>3
  <2>2. job[v].st = "commit" /\ am # "flat" => lock' = lock
    BY TypeFacts
  <2> QED
    BY <1>1, <1>3, <2>1, <2>2, JobSame
<1>4. ASSUME ups' = ups PROVE DOMAIN ups' = Versions /\ \A v \in Versions : UploadOK(v)'
  <2>1. ASSUME NEW v \in Versions PROVE UploadOK(v)'
    <3>1. v <= nv => v # nv + 1
      BY <1>2
    <3> QED
      BY <1>1, <1>4, <3>1, UploadsSame
  <2> QED
    BY <1>4, <2>1 DEF TypeInv
<1>5. latest' = latest => ManifestOK(latest)'
  BY <1>1, <1>2, ManifestSame DEF TypeInv, ManifestOK
<1>6. dl' = dl => DownloadOK'
  BY <1>1, DownloadSame
<1>7. disk' = disk => disk' \in [Files -> 0 .. nv']
  BY <1>1 DEF TypeInv
<1> QED
  BY <1>3, <1>4, <1>5, <1>6, <1>7

LEMMA ExtendType == ASSUME TypeInv, Extend PROVE TypeInv'
<1>0. PICK n, same : n = 0 /\ same = FALSE
  OBVIOUS
<1>1. NewVersion(n, same) /\ n \in Widths /\ same \in BOOLEAN
  BY <1>0 DEF Extend, Widths
<1>2. /\ NamesOK' /\ nv' = nv + 1 /\ nv' \in Nat /\ nv \in Nat
      /\ \A v \in Versions : v \in Nat
  BY <1>1, Grow, TypeFacts
<1>3. /\ disk' = disk /\ job' = job /\ lock' = lock /\ lock = 0 /\ ups' = ups /\ latest' = latest /\ dl' = dl /\ cold' = cold
      /\ acked' = acked /\ open' = open /\ why' = why /\ res' = [g |-> nv + 1, t |-> IF Whole(res) THEN nv + 1 ELSE res.t]
  BY DEF Extend, cloud
<1>4. ASSUME NEW v \in Versions PROVE JobOK(v)'
  <2>1. CASE v # nv + 1
    BY <1>1, <1>3, <2>1, GrowSame
  <2>2. CASE v = nv + 1
    <3>1. JobOK(v) /\ v > nv
      BY <1>2, <2>2 DEF TypeInv
    <3>2. job'[v].st = "idle" /\ ~(v > nv')
      BY <1>2, <1>3, <2>2, <3>1 DEF JobOK
    <3>3. am' = am
      BY <1>1, Grow
    <3> QED
      BY <1>2, <1>3, <3>1, <3>2, <3>3 DEF JobOK
  <2> QED
    BY <2>1, <2>2
<1>5. RestOK'
  <2>1. res' \in [g : 0 .. nv', t : 0 .. nv']
    BY <1>2, <1>3 DEF TypeInv, RestOK
  <2>2. lock' \in 0 .. nv' /\ lock' = 0 /\ acked' \in 0 .. nv'
    BY <1>2, <1>3 DEF TypeInv, RestOK
  <2> QED
    BY <1>3, <2>1, <2>2 DEF TypeInv, RestOK
<1>6. DOMAIN job' = Versions
  BY <1>3 DEF TypeInv
<1>7. (DOMAIN ups' = Versions /\ \A v \in Versions : UploadOK(v)') /\ ManifestOK(latest)' /\ DownloadOK' /\ disk' \in [Files -> 0 .. nv']
  BY <1>1, <1>3, GrowSame
<1> QED
  BY <1>2, <1>4, <1>5, <1>6, <1>7 DEF TypeInv

LEMMA CompactType == ASSUME TypeInv, Compact PROVE TypeInv'
<1>0. PICK n, same : n = 0 /\ same = FALSE
  OBVIOUS
<1>1. NewVersion(n, same) /\ n \in Widths /\ same \in BOOLEAN
  BY <1>0 DEF Compact, Widths
<1>2. /\ NamesOK' /\ nv' = nv + 1 /\ nv' \in Nat /\ nv \in Nat /\ am' = am /\ nv' \in Versions
      /\ \A v \in Versions : v \in Nat
  BY <1>1, Grow, TypeFacts
<1>8. PICK o, d, x : o = "keep" /\ d = SaveIndex /\ x = res'.t
  OBVIOUS
<1>9. PICK k : k = SaveJob(o, d, x)
  OBVIOUS
<1>3. /\ disk' = disk /\ lock' = nv + 1 /\ lock = 0 /\ ups' = ups /\ latest' = latest /\ dl' = dl /\ cold' = cold
      /\ acked' = acked /\ open' = TRUE /\ why' = why /\ res' = [g |-> nv + 1, t |-> IF Whole(res) THEN nv + 1 ELSE res.t]
      /\ am = "cagra"
  BY DEF Compact, cloud, Graph
<1>10. job' = [job EXCEPT ![nv + 1] = k]
  BY <1>8, <1>9 DEF Compact, SaveJob
<1>11. IsJob(k) /\ k.st = "commit" /\ k.op = o /\ k.todo = d /\ k.live = FALSE /\ k.t = x
  BY <1>9, NewJobs
<1>12. DOMAIN job' = Versions /\ job'[nv + 1] = k /\ \A v \in Versions : v # nv + 1 => job'[v] = job[v]
  BY <1>2, <1>10 DEF TypeInv
<1>13. res' \in [g : 0 .. nv', t : 0 .. nv']
  BY <1>2, <1>3 DEF TypeInv, RestOK
<1>4. ASSUME NEW v \in Versions PROVE JobOK(v)'
  <2>1. CASE v # nv + 1
    BY <1>1, <1>3, <1>12, <2>1, GrowSame
  <2>2. CASE v = nv + 1
    <3>1. Plan(v)' = SaveOps
      BY <1>8, <1>11, <1>12, <2>2 DEF Plan, OpsOf
    <3>2. Agenda(d, SaveOps, Ranks(SaveOps))
      BY <1>8, SaveAgenda
    <3>3. x \in 0 .. nv'
      BY <1>8, <1>13
    <3>5. k.live \in BOOLEAN
      BY <1>11
    <3>4. k.live \in BOOLEAN /\ ~(v > nv')
      BY <1>2, <2>2, <3>5
    <3> QED
      BY <1>2, <1>3, <1>8, <1>11, <1>12, <2>2, <3>1, <3>2, <3>3, <3>4 DEF JobOK
  <2> QED
    BY <2>1, <2>2
<1>5. RestOK'
  <2>1. lock' \in 0 .. nv' /\ acked' \in 0 .. nv' /\ job'[lock'].st = "commit"
    BY <1>2, <1>3, <1>11, <1>12 DEF TypeInv, RestOK
  <2>2. open' \in BOOLEAN
    BY <1>3
  <2> QED
    BY <1>3, <1>13, <2>1, <2>2 DEF TypeInv, RestOK
<1>7. (DOMAIN ups' = Versions /\ \A v \in Versions : UploadOK(v)') /\ ManifestOK(latest)' /\ DownloadOK' /\ disk' \in [Files -> 0 .. nv']
  BY <1>1, <1>3, GrowSame
<1> QED
  BY <1>2, <1>4, <1>5, <1>7, <1>12 DEF TypeInv

LEMMA EvictType == ASSUME TypeInv, Evict PROVE TypeInv'
<1>0. UNCHANGED names
  BY DEF Evict
<1>1. /\ disk' = disk /\ lock = 0 /\ ups' = ups /\ latest' = latest /\ dl' = dl /\ cold' = cold /\ acked' = acked /\ res.g # 0
  BY DEF Evict, cloud
<1>2. nv \in Nat /\ nv' = nv /\ am' = am /\ 0 \in 0 .. nv
  BY <1>0, SameType
<1>3. CASE Graph
  <2>1. /\ job[res.g].st = "idle" /\ lock' = res.g /\ open' = TRUE /\ why' = why \cup Accident(res.g) /\ res' = res
        /\ am = "cagra"
    BY <1>3 DEF Evict, Graph
  <2>2. PICK v, o, d, x : v = res.g /\ o = "evict" /\ d = SaveIndex /\ x = res.t
    OBVIOUS
  <2>3. PICK k : k = SaveJob(o, d, x)
    OBVIOUS
  <2>4. job' = [job EXCEPT ![v] = k]
    BY <1>3, <2>2, <2>3 DEF Evict, SaveJob
  <2>5. v \in Versions /\ v \in 1 .. nv /\ x \in 0 .. nv
    <3>1. res \in [g : 0 .. nv, t : 0 .. nv]
      BY DEF TypeInv, RestOK
    <3>2. res.g \in 0 .. nv /\ res.t \in 0 .. nv
      BY <3>1
    <3>3. v \in 1 .. nv
      BY <1>1, <1>2, <2>2, <3>2
    <3> QED
      BY <2>2, <3>2, <3>3, TypeFacts
  <2>6. IsJob(k) /\ k.st = "commit" /\ k.op = o /\ k.todo = d /\ k.live = FALSE /\ k.t = x
    BY <2>3, NewJobs
  <2>7. DOMAIN job' = Versions /\ job'[v] = k
    BY <1>0, <1>1, <2>4, <2>5, JobsAfter
  <2>8. JobOK(v)'
    <3>1. Plan(v)' = SaveOps
      BY <2>2, <2>6, <2>7 DEF Plan, OpsOf
    <3>2. Agenda(d, SaveOps, Ranks(SaveOps))
      BY <2>2, SaveAgenda
    <3>5. k.live \in BOOLEAN
      BY <2>6
    <3>4. k.live \in BOOLEAN /\ ~(v > nv')
      BY <1>2, <2>5, <3>5
    <3> QED
      BY <1>2, <2>1, <2>2, <2>5, <2>6, <2>7, <3>1, <3>2, <3>4 DEF JobOK
  <2>9. \A w \in Versions : JobOK(w)'
    BY <1>0, <1>1, <2>4, <2>5, <2>8, JobsAfter
  <2>10. RestOK'
    <3>1. lock' \in 0 .. nv /\ job'[lock'].st = "commit"
      BY <1>2, <2>1, <2>2, <2>5, <2>6, <2>7
    <3>2. open' \in BOOLEAN
      BY <2>1
    <3>3. why' \subseteq Accidents
      BY <2>1, AccidentType DEF TypeInv, RestOK
    <3> QED
      BY <1>1, <1>2, <2>1, <3>1, <3>2, <3>3 DEF TypeInv, RestOK
  <2> QED
    BY <1>0, <1>1, <1>2, <2>7, <2>9, <2>10, SameType DEF TypeInv
<1>4. CASE ~Graph
  <2>1. res' = NoEntry /\ job' = job /\ lock' = lock /\ open' = open /\ why' = why
    BY <1>4 DEF Evict
  <2>2. NoEntry \in [g : 0 .. nv, t : 0 .. nv]
    BY <1>2 DEF NoEntry
  <2>3. RestOK'
    BY <1>1, <1>2, <2>1, <2>2 DEF TypeInv, RestOK
  <2> QED
    BY <1>0, <1>1, <1>2, <2>1, <2>3, SameType DEF TypeInv
<1> QED
  BY <1>3, <1>4

LEMMA SearchMissType == ASSUME TypeInv, SearchMiss PROVE TypeInv'
<1>0. UNCHANGED names
  BY DEF SearchMiss
<1>1. /\ disk' = disk /\ job' = job /\ lock' = lock /\ ups' = ups /\ latest' = latest /\ dl' = dl /\ acked' = acked /\ open' = open
  BY DEF SearchMiss
<1>2. nv \in Nat /\ nv' = nv /\ am' = am
  BY <1>0, SameType
<1>3. Served(disk) \in [g : 0 .. nv, t : 0 .. nv]
  BY ServedType
<1>4. /\ res' = Served(disk) \/ res' = res
      /\ why' \subseteq why \cup {"race"}
      /\ cold' = cold \/ cold' = "queued"
  BY DEF SearchMiss
<1>5. RestOK'
  BY <1>1, <1>2, <1>3, <1>4 DEF TypeInv, RestOK, Accidents
<1> QED
  BY <1>0, <1>1, <1>2, <1>5, SameType DEF TypeInv

LEMMA CrashType == ASSUME TypeInv, Crash PROVE TypeInv'
<1>0. UNCHANGED names
  BY DEF Crash
<1>1. /\ disk' = disk /\ job' = [v \in Versions |-> NoJob] /\ lock' = 0 /\ ups' = [v \in Versions |-> NoUpload]
      /\ latest' = latest /\ dl' = NoDownload /\ acked' = acked /\ open' = open /\ res' = Served(disk)
      /\ cold' \in {"queued", "none"} /\ why' \subseteq why \cup {"tear", "twin"}
  BY DEF Crash
<1>2. nv \in Nat /\ nv' = nv /\ am' = am /\ 0 \in 0 .. nv
  BY <1>0, SameType
<1>3. Served(disk) \in [g : 0 .. nv, t : 0 .. nv]
  BY ServedType
<1>4. RestOK'
  <2>1. why' \subseteq Accidents /\ cold' \in {"none", "queued", "loading", "failed"} /\ lock' = 0
    BY <1>1 DEF TypeInv, RestOK, Accidents
  <2> QED
    BY <1>1, <1>2, <1>3, <2>1 DEF TypeInv, RestOK
<1>5. ASSUME NEW v \in Versions PROVE JobOK(v)' /\ UploadOK(v)'
  <2>1. job'[v] = NoJob /\ ups'[v] = NoUpload
    BY <1>1
  <2>2. PICK e : e = <<>>
    OBVIOUS
  <2>3. ups'[v] = [on |-> FALSE, todo |-> e, got |-> e]
    BY <2>1, <2>2 DEF NoUpload
  <2>4. UploadOK(v)'
    BY <2>3 DEF UploadOK, IsUpload
  <2> QED
    BY <1>2, <2>1, <2>4, JobGone
<1>6. DownloadOK'
  <2>1. PICK e, x : e = <<>> /\ x = NoManifest
    OBVIOUS
  <2>2. dl' = [on |-> FALSE, todo |-> e, m |-> x]
    BY <1>1, <2>1 DEF NoDownload
  <2> QED
    BY <2>2 DEF DownloadOK
<1>7. DOMAIN job' = Versions /\ DOMAIN ups' = Versions
  BY <1>1
<1> QED
  BY <1>0, <1>1, <1>2, <1>4, <1>5, <1>6, <1>7, SameType DEF TypeInv

\* A set of naturals that is not empty has a least element.
LEMMA LeastNat ==
  ASSUME NEW T \in SUBSET Nat, T # {}
  PROVE  \E x \in T : \A y \in T : x <= y
<1> DEFINE R == OpToRel(<, Nat)
<1>1. IsWellFoundedOn(R, Nat)
  BY NatLessThanWellFounded
<1>3. \A y, x \in Nat : <<y, x>> \in R <=> y < x
  BY DEF OpToRel
<1> HIDE DEF R
<1>2. PICK x \in T : \A y \in T : ~(<<y, x>> \in R)
  BY <1>1, WFMin
<1>4. ASSUME NEW y \in T PROVE x <= y
  <2>1. x \in Nat /\ y \in Nat /\ ~(y < x)
    BY <1>2, <1>3
  <2> QED
    BY <2>1
<1> QED
  BY <1>4

\* The files an upload reads are those of the snapshot.
LEMMA ReadSetFacts ==
  ASSUME TypeInv, NEW v \in Versions
  PROVE  Reads(v) \in Seq(Files) /\ Ran(Reads(v)) = SnapFiles(width[v]) /\ ReadSet(v) = SnapFiles(width[v])
<1>1. {"cagra", "tids", "shards"} \subseteq Files /\ width[v] \in Nat /\ width[v] <= Len(ShardFiles)
      /\ Len(ShardFiles) \in Nat
  BY TypeFacts, ShardNames
<1>2. CASE width[v] = 0
  <2>1. Reads(v) = <<"cagra", "tids", "cagra", "tids">>
    BY <1>2 DEF Reads
  <2>2. Ran(<<"cagra", "tids", "cagra", "tids">>) = {"cagra", "tids"}
    BY RanShort
  <2>3. SnapFiles(width[v]) = {"cagra", "tids"}
    BY <1>2 DEF SnapFiles, Main, ShardsUpTo
  <2>4. Reads(v) \in Seq(Files)
    BY <1>1, <2>1
  <2> QED
    BY <2>1, <2>2, <2>3, <2>4 DEF ReadSet, Ran
<1>3. CASE width[v] # 0
  <2>1. PICK a, b : a = <<"tids", "shards">> /\ b = SubSeq(ShardFiles, 1, width[v])
    OBVIOUS
  <2>2. Reads(v) = (a \o b) \o a
    BY <1>3, <2>1 DEF Reads
  <2>3. b \in Seq(Files) /\ Len(b) = width[v] /\ \A i \in 1 .. width[v] : b[i] = ShardFiles[i]
    <3>1. \A i \in 1 .. width[v] : ShardFiles[i] \in Files
      BY <1>1, ShardNames
    <3>2. /\ SubSeq(ShardFiles, 1, width[v]) \in Seq(Files)
          /\ Len(SubSeq(ShardFiles, 1, width[v])) = IF 1 <= width[v] THEN width[v] - 1 + 1 ELSE 0
          /\ \A i \in 1 .. width[v] - 1 + 1 : SubSeq(ShardFiles, 1, width[v])[i] = ShardFiles[1 + i - 1]
      BY <1>1, <3>1, SubSeqProperties
    <3> QED
      BY <1>1, <1>3, <2>1, <3>2
  <2>4. a \in Seq(Files) /\ Ran(a) = {"tids", "shards"}
    BY <1>1, <2>1, RanShort
  <2>5. Ran(b) = ShardsUpTo(width[v])
    BY <2>3 DEF Ran, ShardsUpTo
  <2>6. a \o b \in Seq(Files) /\ (a \o b) \o a \in Seq(Files) /\ Ran((a \o b) \o a) = Ran(a) \cup Ran(b) \cup Ran(a)
    <3>1. PICK c : c = a \o b
      OBVIOUS
    <3>2. c \in Seq(Files) /\ Ran(c) = Ran(a) \cup Ran(b)
      BY <2>3, <2>4, <3>1, RanConcat, ConcatProperties
    <3>3. c \o a \in Seq(Files) /\ Ran(c \o a) = Ran(c) \cup Ran(a)
      BY <2>4, <3>2, RanConcat, ConcatProperties
    <3> QED
      BY <3>1, <3>2, <3>3
  <2>7. SnapFiles(width[v]) = {"tids", "shards"} \cup ShardsUpTo(width[v])
    BY <1>3 DEF SnapFiles, Main
  <2>8. Reads(v) \in Seq(Files) /\ Ran(Reads(v)) = SnapFiles(width[v])
    BY <2>2, <2>4, <2>5, <2>6, <2>7
  <2> QED
    BY <2>8 DEF ReadSet, Ran
<1> QED
  BY <1>2, <1>3

\* The first and the last time it reads one of them.
LEMMA ReadPositions ==
  ASSUME TypeInv, NEW v \in Versions, NEW f \in ReadSet(v)
  PROVE  /\ FirstRead(v, f) \in 1 .. Len(Reads(v)) /\ Reads(v)[FirstRead(v, f)] = f
         /\ LastRead(v, f) \in 1 .. Len(Reads(v)) /\ Reads(v)[LastRead(v, f)] = f
<1>1. PICK r, n : r = Reads(v) /\ n = Len(r)
  OBVIOUS
<1>2. n \in Nat
  BY <1>1, ReadSetFacts, LenProperties
<1>3. PICK k \in 1 .. n : r[k] = f
  BY <1>1 DEF ReadSet
<1>4. \E i \in 1 .. n : r[i] = f /\ \A j \in 1 .. i - 1 : r[j] # f
  <2> DEFINE T == {i \in 1 .. n : r[i] = f}
  <2>1. T \in SUBSET Nat /\ T # {}
    BY <1>2, <1>3
  <2>2. PICK i \in T : \A y \in T : i <= y
    <3> HIDE DEF T
    <3> QED BY <2>1, LeastNat
  <2>3. ASSUME NEW j \in 1 .. i - 1 PROVE r[j] # f
    BY <1>2, <2>2, <2>3
  <2> QED
    BY <2>2, <2>3
<1>5. \E i \in 1 .. n : r[i] = f /\ \A j \in i + 1 .. n : r[j] # f
  <2> DEFINE T == {i \in 0 .. n : i < n /\ r[n - i] = f}
  <2>1. T \in SUBSET Nat /\ T # {}
    <3>1. n - k \in 0 .. n /\ n - k < n /\ n - (n - k) = k
      BY <1>2, <1>3
    <3>2. n - k \in T
      BY <1>3, <3>1
    <3> QED
      BY <1>2, <3>2
  <2>2. PICK x \in T : \A y \in T : x <= y
    <3> HIDE DEF T
    <3> QED BY <2>1, LeastNat
  <2>3. x \in 0 .. n /\ x < n /\ r[n - x] = f
    BY <2>2
  <2>4. n - x \in 1 .. n
    BY <1>2, <2>3
  <2>5. ASSUME NEW j \in n - x + 1 .. n, r[j] = f PROVE FALSE
    <3>1. n - j \in 0 .. n /\ n - j < n /\ n - (n - j) = j /\ n - j < x
      BY <1>2, <2>3, <2>5
    <3>2. n - j \in T
      BY <2>5, <3>1
    <3>3. x <= n - j
      BY <2>2, <3>2
    <3> QED
      BY <1>2, <2>3, <3>1, <3>3
  <2> QED
    BY <2>3, <2>4, <2>5
<1>6. FirstRead(v, f) \in 1 .. n /\ r[FirstRead(v, f)] = f
  BY <1>1, <1>4 DEF FirstRead
<1>7. LastRead(v, f) \in 1 .. n /\ r[LastRead(v, f)] = f
  BY <1>1, <1>5 DEF LastRead
<1> QED
  BY <1>1, <1>6, <1>7

\* The manifest that an upload publishes.
LEMMA ManifestFacts ==
  ASSUME TypeInv, NEW v \in Versions, ups[v].on, ups[v].todo = <<>>
  PROVE  /\ v \in 1 .. nv /\ am = "cagra" /\ Manifest(v).n = width[v]
         /\ \A f \in SnapFiles(width[v]) :
              \E i, j \in 1 .. Len(Reads(v)) :
                /\ Reads(v)[i] = f /\ Manifest(v).sha[f] = ups[v].got[i]
                /\ Reads(v)[j] = f /\ Manifest(v).obj[f] = ups[v].got[j] /\ ups[v].got[j] \in 0 .. nv
<1>1. UploadOK(v) /\ v \in Nat /\ v >= 1 /\ nv \in Nat
  BY TypeFacts DEF TypeInv
<1>2. v \in 1 .. nv /\ am = "cagra" /\ ups[v].got \in Seq(0 .. nv)
  BY <1>1 DEF UploadOK
<1>3. Len(ups[v].got) = Len(Reads(v))
  <2>1. PICK e, g : e = ups[v].todo /\ g = ups[v].got
    OBVIOUS
  <2>2. Len(e) = 0 /\ Len(g) \in Nat
    BY <1>2, <2>1, LenProperties
  <2>3. Len(e) + Len(g) = Len(Reads(v))
    BY <1>1, <2>1 DEF UploadOK
  <2> QED
    BY <2>1, <2>2, <2>3
<1>4. ReadSet(v) = SnapFiles(width[v])
  BY ReadSetFacts
<1>5. /\ Manifest(v).n = width[v]
      /\ \A f \in ReadSet(v) : Manifest(v).sha[f] = ups[v].got[FirstRead(v, f)] /\ Manifest(v).obj[f] = ups[v].got[LastRead(v, f)]
  BY DEF Manifest
<1>6. ASSUME NEW f \in ReadSet(v)
      PROVE  \E i, j \in 1 .. Len(Reads(v)) :
                /\ Reads(v)[i] = f /\ Manifest(v).sha[f] = ups[v].got[i]
                /\ Reads(v)[j] = f /\ Manifest(v).obj[f] = ups[v].got[j] /\ ups[v].got[j] \in 0 .. nv
  <2>1. PICK i, j : i = FirstRead(v, f) /\ j = LastRead(v, f)
    OBVIOUS
  <2>2. i \in 1 .. Len(Reads(v)) /\ j \in 1 .. Len(Reads(v)) /\ Reads(v)[i] = f /\ Reads(v)[j] = f
    BY <2>1, ReadPositions
  <2>3. ups[v].got[j] \in 0 .. nv
    BY <1>2, <1>3, <2>2, ElementOfSeq
  <2> QED
    BY <1>5, <2>1, <2>2, <2>3
<1> QED
  BY <1>2, <1>4, <1>5, <1>6

\* An upload that goes on.
ReadOn(u, x) == [u EXCEPT !.todo = Tail(@), !.got = Append(@, x)]

LEMMA ReadOnFacts ==
  ASSUME NEW u, IsUpload(u), NEW x
  PROVE  /\ IsUpload(ReadOn(u, x)) /\ ReadOn(u, x).on = u.on
         /\ ReadOn(u, x).todo = Tail(u.todo) /\ ReadOn(u, x).got = Append(u.got, x)
<1>1. PICK a, b, c, d, e : u = [on |-> a, todo |-> b, got |-> c] /\ d = Tail(u.todo) /\ e = Append(u.got, x)
  BY DEF IsUpload
<1>2. PICK k : k = [u EXCEPT !.todo = d, !.got = e]
  OBVIOUS
<1>3. /\ DOMAIN k = {"on", "todo", "got"} /\ k = [y \in DOMAIN k |-> k[y]]
      /\ k.on = u.on /\ k.todo = d /\ k.got = e
  BY <1>1, <1>2
<1>4. k = [on |-> u.on, todo |-> d, got |-> e]
  BY <1>3
<1>5. IsUpload(k)
  BY <1>3, <1>4 DEF IsUpload
<1>6. ReadOn(u, x) = k
  BY <1>1, <1>2 DEF ReadOn
<1> QED
  BY <1>1, <1>3, <1>5, <1>6

\* An upload that is no more.
LEMMA UploadGone ==
  ASSUME NEW v \in Versions, ups'[v] = NoUpload
  PROVE  UploadOK(v)'
<1>1. PICK e : e = <<>>
  OBVIOUS
<1>2. ups'[v] = [on |-> FALSE, todo |-> e, got |-> e]
  BY <1>1 DEF NoUpload
<1> QED
  BY <1>2 DEF UploadOK, IsUpload

\* When only uploads go on.
LEMMA UploadType ==
  ASSUME TypeInv, UNCHANGED names, UNCHANGED files, UNCHANGED <<job, dl, cold, acked, open>>,
         NEW v \in Versions, NEW u, ups' = [ups EXCEPT ![v] = u], UploadOK(v)', ManifestOK(latest)', why' \subseteq Accidents
  PROVE  TypeInv'
<1>1. /\ disk' = disk /\ job' = job /\ lock' = lock /\ res' = res /\ dl' = dl /\ cold' = cold /\ acked' = acked /\ open' = open
      /\ nv' = nv
  BY DEF files, names
<1>2. DOMAIN ups' = Versions /\ \A w \in Versions : w # v => ups'[w] = ups[w]
  BY DEF TypeInv
<1>3. \A w \in Versions : UploadOK(w)'
  BY <1>2, SameType
<1>4. RestOK'
  BY <1>1 DEF TypeInv, RestOK
<1> QED
  BY <1>1, <1>2, <1>3, <1>4, SameType DEF TypeInv

LEMMA UploadStepType == ASSUME TypeInv, NEW v \in Versions, UploadStep(v) PROVE TypeInv'
<1>1. /\ UNCHANGED names /\ UNCHANGED files /\ UNCHANGED <<job, dl, cold, acked, open>> /\ latest' = latest /\ why' = why
      /\ ups[v].on /\ ups[v].todo # <<>>
  BY DEF UploadStep
<1>2. UploadOK(v) /\ disk \in [Files -> 0 .. nv]
  BY DEF TypeInv
<1>3. PICK u : u = IF disk[Head(ups[v].todo)] = 0 THEN NoUpload ELSE ReadOn(ups[v], disk[Head(ups[v].todo)])
  OBVIOUS
<1>4. ups' = [ups EXCEPT ![v] = u]
  BY <1>3 DEF UploadStep, ReadOn
<1>5. ups'[v] = u
  BY <1>4 DEF TypeInv
<1>6. UploadOK(v)'
  <2>1. CASE disk[Head(ups[v].todo)] = 0
    BY <1>3, <1>5, <2>1, UploadGone
  <2>2. CASE disk[Head(ups[v].todo)] # 0
    <3>1. PICK o, x, r : o = ups[v] /\ x = disk[Head(ups[v].todo)] /\ r = Reads(v)
      OBVIOUS
    <3>2. IsUpload(o) /\ o.on /\ o.todo \in Seq(Files) /\ o.todo # <<>> /\ o.got \in Seq(0 .. nv) /\ Len(o.todo) + Len(o.got) = Len(r)
          /\ v <= nv /\ am = "cagra"
      BY <1>1, <1>2, <3>1 DEF UploadOK
    <3>3. Head(o.todo) \in Files /\ Tail(o.todo) \in Seq(Files) /\ Len(Tail(o.todo)) = Len(o.todo) - 1 /\ Len(o.todo) \in Nat
      BY <3>2, HeadTail
    <3>4. x \in 0 .. nv
      BY <1>2, <3>1, <3>3
    <3>5. Append(o.got, x) \in Seq(0 .. nv) /\ Len(Append(o.got, x)) = Len(o.got) + 1 /\ Len(o.got) \in Nat
      BY <3>2, <3>4, AppendProperties, LenProperties
    <3>6. IsUpload(u) /\ u.on = o.on /\ u.todo = Tail(o.todo) /\ u.got = Append(o.got, x)
      BY <1>3, <2>2, <3>1, <3>2, ReadOnFacts
    <3>7. Len(u.todo) + Len(u.got) = Len(r)
      <4>1. PICK i, j : i = Len(o.todo) /\ j = Len(o.got)
        OBVIOUS
      <4>2. Len(u.todo) = i - 1 /\ Len(u.got) = j + 1
        BY <3>3, <3>5, <3>6, <4>1
      <4>3. i \in Nat /\ j \in Nat /\ i + j = Len(r)
        BY <3>2, <3>3, <3>5, <4>1
      <4> QED
        BY <4>2, <4>3
    <3>8. Reads(v)' = r /\ nv' = nv /\ am' = am
      BY <1>1, <3>1 DEF Reads, names
    <3>9. u.todo \in Seq(Files) /\ u.got \in Seq(0 .. nv)
      BY <3>3, <3>5, <3>6
    <3> QED
      BY <1>5, <3>2, <3>6, <3>7, <3>8, <3>9 DEF UploadOK
  <2> QED
    BY <2>1, <2>2
<1>7. ManifestOK(latest)' /\ why' \subseteq Accidents
  BY <1>1, SameType DEF TypeInv, RestOK
<1> QED
  BY <1>1, <1>4, <1>6, <1>7, UploadType

LEMMA UploadFailsType == ASSUME TypeInv, NEW v \in Versions, UploadFails(v) PROVE TypeInv'
<1>1. /\ UNCHANGED names /\ UNCHANGED files /\ UNCHANGED <<job, dl, cold, acked, open>> /\ latest' = latest /\ why' = why
      /\ ups' = [ups EXCEPT ![v] = NoUpload]
  BY DEF UploadFails
<1>2. UploadOK(v)'
  <2>1. ups'[v] = NoUpload
    BY <1>1 DEF TypeInv
  <2> QED
    BY <2>1, UploadGone
<1>3. ManifestOK(latest)' /\ why' \subseteq Accidents
  BY <1>1, SameType DEF TypeInv, RestOK
<1> QED
  BY <1>1, <1>2, <1>3, UploadType

LEMMA PublishType == ASSUME TypeInv, NEW v \in Versions, Publish(v) PROVE TypeInv'
<1>1. /\ UNCHANGED names /\ UNCHANGED files /\ UNCHANGED <<job, dl, cold, acked, open>> /\ latest' = Manifest(v)
      /\ ups' = [ups EXCEPT ![v] = NoUpload] /\ why' \subseteq why \cup {"mixed"} /\ ups[v].on /\ ups[v].todo = <<>>
  BY DEF Publish
<1>2. UploadOK(v)'
  <2>1. ups'[v] = NoUpload
    BY <1>1 DEF TypeInv
  <2> QED
    BY <2>1, UploadGone
<1>3. ManifestOK(latest)'
  <2>1. PICK m : m = Manifest(v)
    OBVIOUS
  <2>2. am = "cagra" /\ m.n = width[v] /\ \A f \in SnapFiles(width[v]) : m.obj[f] \in 0 .. nv
    BY <1>1, <2>1, ManifestFacts
  <2>3. width[v] \in Widths
    BY TypeFacts
  <2>4. latest' = m /\ am' = am /\ nv' = nv
    BY <1>1, <2>1 DEF names
  <2> QED
    BY <2>2, <2>3, <2>4 DEF ManifestOK
<1>4. why' \subseteq Accidents
  BY <1>1 DEF TypeInv, RestOK, Accidents
<1> QED
  BY <1>1, <1>2, <1>3, <1>4, UploadType

\* When only the warm-up worker goes on.
LEMMA DownloadType ==
  ASSUME TypeInv, UNCHANGED names, UNCHANGED <<lock, job, ups, latest, acked>>, DownloadOK', disk' \in [Files -> 0 .. nv],
         res' \in [g : 0 .. nv, t : 0 .. nv], cold' \in {"none", "queued", "loading", "failed"}, open' \in BOOLEAN, why' \subseteq Accidents
  PROVE  TypeInv'
<1>1. RestOK' /\ nv' = nv
  BY SameType DEF TypeInv, RestOK
<1> QED
  BY <1>1, SameType DEF TypeInv

LEMMA DownloadGone ==
  ASSUME dl' = NoDownload
  PROVE  DownloadOK'
<1>1. PICK e, x : e = <<>> /\ x = NoManifest
  OBVIOUS
<1>2. dl' = [on |-> FALSE, todo |-> e, m |-> x]
  BY <1>1 DEF NoDownload
<1> QED
  BY <1>2 DEF DownloadOK

LEMMA StartDownloadType == ASSUME TypeInv, StartDownload PROVE TypeInv'
<1>1. UNCHANGED names /\ UNCHANGED files /\ UNCHANGED <<job, ups, latest, acked>>
  BY DEF StartDownload
<1>2. disk' = disk /\ res' = res /\ lock' = lock
  BY <1>1 DEF files
<1>3. disk' \in [Files -> 0 .. nv] /\ res' \in [g : 0 .. nv, t : 0 .. nv]
  BY <1>2 DEF TypeInv, RestOK
<1>4. CASE latest = NoManifest
  <2>1. cold' = "failed" /\ dl' = dl /\ why' = why /\ open' = open
    BY <1>4 DEF StartDownload
  <2>2. DownloadOK' /\ why' \subseteq Accidents /\ open' \in BOOLEAN
    BY <1>1, <2>1, SameType DEF TypeInv, RestOK
  <2> QED
    BY <1>1, <1>2, <1>3, <2>1, <2>2, DownloadType
<1>5. CASE latest # NoManifest
  <2>1. /\ cold' = "loading" /\ why' \subseteq why \cup {"old", "twin"} /\ open' = TRUE
        /\ dl' = [on |-> TRUE, todo |-> DownloadOps(latest), m |-> latest]
    BY <1>5 DEF StartDownload
  <2>2. ManifestOK(latest) /\ latest.n \in Widths
    BY <1>5 DEF TypeInv, ManifestOK
  <2>3. PICK d, m : d = DownloadOps(latest) /\ m = latest
    OBVIOUS
  <2>4. Agenda(d, DownloadSet(m.n), DRanks(DownloadSet(m.n)))
    BY <2>2, <2>3, DownloadAgenda
  <2>5. dl' = [on |-> TRUE, todo |-> d, m |-> m]
    BY <2>1, <2>3
  <2>6. ManifestOK(m)'
    BY <1>1, <2>2, <2>3 DEF ManifestOK, names
  <2>7. DownloadOK'
    <3>1. dl'.on = TRUE /\ dl'.todo = d /\ dl'.m = m
      BY <2>5
    <3> QED
      BY <1>5, <2>3, <2>4, <2>5, <2>6, <3>1 DEF DownloadOK, ManifestOK
  <2>8. why' \subseteq Accidents /\ open' \in BOOLEAN
    BY <2>1 DEF TypeInv, RestOK, Accidents
  <2> QED
    BY <1>1, <1>2, <1>3, <2>1, <2>7, <2>8, DownloadType
<1> QED
  BY <1>4, <1>5

\* A download that goes on.
Fetched(d) == [d EXCEPT !.todo = Tail(@)]

LEMMA FetchedFacts ==
  ASSUME NEW d, d = [on |-> d.on, todo |-> d.todo, m |-> d.m]
  PROVE  LET k == Fetched(d) IN
         k = [on |-> k.on, todo |-> k.todo, m |-> k.m] /\ k.on = d.on /\ k.todo = Tail(d.todo) /\ k.m = d.m
<1>1. PICK a, b, c, e : d = [on |-> a, todo |-> b, m |-> c] /\ e = Tail(d.todo)
  OBVIOUS
<1>2. PICK k : k = [d EXCEPT !.todo = e]
  OBVIOUS
<1>3. DOMAIN k = {"on", "todo", "m"} /\ k = [y \in DOMAIN k |-> k[y]] /\ k.on = a /\ k.todo = e /\ k.m = c
  BY <1>1, <1>2
<1>4. k = [on |-> a, todo |-> e, m |-> c]
  BY <1>3
<1>5. Fetched(d) = k
  BY <1>1, <1>2 DEF Fetched
<1> QED
  BY <1>1, <1>3, <1>4, <1>5

\* An operation of a download changes files to what the snapshot has of them, or to nothing.
LEMMA FetchFacts ==
  ASSUME TypeInv, dl.on, dl.todo # <<>>, NEW q, q = Head(dl.todo)
  PROVE  /\ q \in DownloadSet(dl.m.n) /\ q.f \in Files /\ q.f \in SnapFiles(dl.m.n) /\ q.do \in {"put", "check"}
         /\ Agenda(Tail(dl.todo), DownloadSet(dl.m.n), DRanks(DownloadSet(dl.m.n)))
         /\ dl.m.n \in Widths /\ dl.m.obj[q.f] \in 0 .. nv /\ am = "cagra"
         /\ Ran(dl.todo) = {q} \cup Ran(Tail(dl.todo)) /\ q \notin Ran(Tail(dl.todo))
         /\ \A o \in Ran(dl.todo) : DRanks(DownloadSet(dl.m.n))[q] <= DRanks(DownloadSet(dl.m.n))[o]
<1>1. dl.m # NoManifest /\ ManifestOK(dl.m) /\ Agenda(dl.todo, DownloadSet(dl.m.n), DRanks(DownloadSet(dl.m.n)))
  BY DEF TypeInv, DownloadOK
<1>2. am = "cagra" /\ dl.m.n \in Widths /\ \A f \in SnapFiles(dl.m.n) : dl.m.obj[f] \in 0 .. nv
  BY <1>1 DEF ManifestOK
<1>3. PICK O, n, s : O = DownloadSet(dl.m.n) /\ n = dl.m.n /\ s = dl.todo
  OBVIOUS
<1>4. DRanks(O) \in [O -> Nat] /\ \A o \in O : o.do \in {"put", "check"} /\ o.f \in SnapFiles(n)
  <2>1. n \in Widths /\ O = DownloadSet(n)
    BY <1>2, <1>3
  <2> QED
    BY <2>1, DownloadSetFacts
<1>5. SnapFiles(n) \subseteq Files
  BY <1>2, <1>3, SnapFilesFacts
<1>6. Agenda(s, O, DRanks(O)) /\ s # <<>>
  BY <1>1, <1>3
<1>7. /\ Agenda(Tail(s), O, DRanks(O)) /\ Head(s) \in O
      /\ Ran(s) = {Head(s)} \cup Ran(Tail(s)) /\ Head(s) \notin Ran(Tail(s))
      /\ \A o \in Ran(s) : DRanks(O)[Head(s)] <= DRanks(O)[o]
  BY <1>4, <1>6, AgendaTail
<1>8. q = Head(s)
  BY <1>3
<1> QED
  BY <1>2, <1>3, <1>4, <1>5, <1>7, <1>8

LEMMA DownloadStepType == ASSUME TypeInv, DownloadStep PROVE TypeInv'
<1>1. UNCHANGED names /\ UNCHANGED <<lock, job, ups, latest, acked>> /\ res' = res /\ open' = open /\ why' \subseteq why \cup {"race"}
      /\ dl.on /\ dl.todo # <<>>
  BY DEF DownloadStep
<1>2. PICK q, b : q = Head(dl.todo) /\ b = (q.do = "check" /\ disk[q.f] # dl.m.sha[q.f])
  OBVIOUS
<1>3. /\ disk' = Apply(disk, q, IF q.do = "check" THEN dl.m.sha ELSE dl.m.obj)
      /\ dl' = IF b THEN NoDownload ELSE Fetched(dl)
      /\ cold' = IF b THEN "failed" ELSE cold
  BY <1>2 DEF DownloadStep, Fetched
<1>4. /\ q \in DownloadSet(dl.m.n) /\ q.f \in Files /\ q.do \in {"put", "check"}
      /\ Agenda(Tail(dl.todo), DownloadSet(dl.m.n), DRanks(DownloadSet(dl.m.n)))
      /\ dl.m.obj[q.f] \in 0 .. nv
  BY <1>1, <1>2, FetchFacts
<1>5. disk \in [Files -> 0 .. nv] /\ nv \in Nat
  BY TypeFacts
<1>6. disk' \in [Files -> 0 .. nv]
  <2>1. CASE q.do = "put"
    <3>1. PICK x : x = dl.m.obj
      OBVIOUS
    <3>2. disk' = [disk EXCEPT ![q.f] = x[q.f]]
      BY <1>3, <2>1, <3>1 DEF Apply
    <3> QED
      BY <1>4, <1>5, <3>1, <3>2
  <2>2. CASE q.do = "check"
    <3>1. disk' = disk \/ disk' = Unlink(disk, q.undo)
      BY <1>3, <2>2 DEF Apply
    <3>2. 0 \in 0 .. nv
      BY <1>5
    <3> QED
      BY <1>5, <3>1, <3>2, UnlinkFacts
  <2> QED
    BY <1>4, <2>1, <2>2
<1>7. DownloadOK'
  <2>1. CASE b
    BY <1>3, <2>1, DownloadGone
  <2>2. CASE ~b
    <3>1. PICK k, t : k = Fetched(dl) /\ t = Tail(dl.todo)
      OBVIOUS
    <3>2. k = [on |-> k.on, todo |-> k.todo, m |-> k.m] /\ k.on = dl.on /\ k.todo = t /\ k.m = dl.m
      BY <3>1, FetchedFacts DEF TypeInv, DownloadOK
    <3>3. dl' = k
      BY <1>3, <2>2, <3>1
    <3>4. dl.m # NoManifest /\ ManifestOK(dl.m)
      BY <1>1 DEF TypeInv, DownloadOK
    <3>5. PICK m : m = dl.m
      OBVIOUS
    <3>6. am' = am /\ nv' = nv
      BY <1>1 DEF names
    <3>7. ManifestOK(m)' /\ m # NoManifest
      BY <3>4, <3>5, <3>6 DEF ManifestOK
    <3>8. Agenda(k.todo, DownloadSet(m.n), DRanks(DownloadSet(m.n))) /\ k.m = m
      BY <1>4, <3>1, <3>2, <3>5
    <3> QED
      BY <3>2, <3>3, <3>7, <3>8 DEF DownloadOK, ManifestOK
  <2> QED
    BY <2>1, <2>2
<1>8. res' \in [g : 0 .. nv, t : 0 .. nv] /\ open' \in BOOLEAN /\ why' \subseteq Accidents
  BY <1>1 DEF TypeInv, RestOK, Accidents
<1>9. cold' \in {"none", "queued", "loading", "failed"}
  BY <1>3 DEF TypeInv, RestOK
<1> QED
  BY <1>1, <1>6, <1>7, <1>8, <1>9, DownloadType

LEMMA DownloadFailsType == ASSUME TypeInv, DownloadFails PROVE TypeInv'
<1>1. UNCHANGED names /\ UNCHANGED <<lock, job, ups, latest, acked>> /\ res' = res /\ open' = open /\ why' \subseteq why \cup {"race"}
      /\ disk' = Unlink(disk, Head(dl.todo).undo) /\ dl' = NoDownload /\ cold' = "failed"
  BY DEF DownloadFails
<1>2. disk \in [Files -> 0 .. nv] /\ nv \in Nat /\ 0 \in 0 .. nv
  BY TypeFacts
<1>3. disk' \in [Files -> 0 .. nv]
  BY <1>1, <1>2, UnlinkFacts
<1>4. DownloadOK'
  BY <1>1, DownloadGone
<1>5. res' \in [g : 0 .. nv, t : 0 .. nv] /\ open' \in BOOLEAN /\ why' \subseteq Accidents
  BY <1>1 DEF TypeInv, RestOK, Accidents
<1> QED
  BY <1>1, <1>3, <1>4, <1>5, DownloadType

LEMMA EndDownloadType == ASSUME TypeInv, EndDownload PROVE TypeInv'
<1>1. UNCHANGED names /\ UNCHANGED <<lock, job, ups, latest, acked>> /\ disk' = disk /\ open' = open /\ why' = why
      /\ dl' = NoDownload /\ cold' \in {"failed", "none"} /\ res' \in {res, Served(disk)}
  BY DEF EndDownload
<1>2. disk' \in [Files -> 0 .. nv] /\ open' \in BOOLEAN /\ why' \subseteq Accidents /\ res \in [g : 0 .. nv, t : 0 .. nv]
  BY <1>1 DEF TypeInv, RestOK
<1>3. Served(disk) \in [g : 0 .. nv, t : 0 .. nv]
  BY ServedType
<1>4. DownloadOK'
  BY <1>1, DownloadGone
<1>5. res' \in [g : 0 .. nv, t : 0 .. nv] /\ cold' \in {"none", "queued", "loading", "failed"}
  BY <1>1, <1>2, <1>3
<1> QED
  BY <1>1, <1>2, <1>4, <1>5, DownloadType

\* Every step keeps the types.
LEMMA NextType == TypeInv /\ [Next]_vars => TypeInv'
<1> SUFFICES ASSUME TypeInv, [Next]_vars PROVE TypeInv'
  OBVIOUS
<1>1. ASSUME NEW n \in Widths, NEW same \in BOOLEAN, StartBuild(n, same) PROVE TypeInv'
  BY <1>1, StartBuildType
<1>2. ASSUME NEW v \in Versions, NEW vok \in BOOLEAN, BeginCommit(v, vok) PROVE TypeInv'
  BY <1>2, BeginCommitType
<1>3. ASSUME NEW v \in Versions, Cancel(v) \/ BuildFails(v) \/ CommitStep(v) \/ CommitFails(v) \/ EndCommit(v) PROVE TypeInv'
  BY <1>3, CancelType, BuildFailsType, CommitStepType, CommitFailsType, EndCommitType
<1>4. ASSUME NEW v \in Versions, UploadStep(v) \/ Publish(v) \/ UploadFails(v) PROVE TypeInv'
  BY <1>4, UploadStepType, PublishType, UploadFailsType
<1>5. CASE Extend \/ Compact \/ Evict \/ SearchMiss \/ Crash
  BY <1>5, ExtendType, CompactType, EvictType, SearchMissType, CrashType
<1>6. CASE StartDownload \/ DownloadStep \/ DownloadFails \/ EndDownload
  BY <1>6, StartDownloadType, DownloadStepType, DownloadFailsType, EndDownloadType
<1>7. CASE UNCHANGED vars
  <2>1. /\ UNCHANGED names /\ UNCHANGED files /\ UNCHANGED <<job, ups, latest, dl, cold, acked, open, why>>
    BY <1>7 DEF vars, names, files
  <2>2. /\ disk' = disk /\ lock' = lock /\ res' = res /\ nv' = nv /\ am' = am /\ nv \in Nat /\ width' = width /\ tidl' = tidl
    BY <2>1, TypeFacts DEF names, files
  <2>3. \A v \in Versions : JobOK(v)' /\ UploadOK(v)'
    BY <2>1, <2>2, SameType
  <2>4. RestOK' /\ ManifestOK(latest)' /\ DownloadOK' /\ NamesOK'
    BY <2>1, <2>2, SameType, NamesSame DEF TypeInv, RestOK
  <2> QED
    BY <2>1, <2>2, <2>3, <2>4 DEF TypeInv
<1> QED
  BY <1>1, <1>2, <1>3, <1>4, <1>5, <1>6, <1>7 DEF Next

-----------------------------------------------------------------------------
(* What the operations that are done have left behind.                     *)

\* The file that makes a version whole.
Target(a, op, n) ==
  CASE a = "flat" -> "vecs"
    [] a = "ivfpq" -> "ivfpq"
    [] a = "cagra" /\ op = "build" /\ n # 0 -> "shards"
    [] a = "cagra" /\ ~(op = "build" /\ n # 0) -> "cagra"

\* The operations of a commit as the invariants see them: they write .tids, the
\* target and the shards, and remove the files of the other kind.
PlanOK(O, op, T, n) ==
  /\ \E p \in O : p.do = "put" /\ p.f = "tids"
  /\ \E p \in O : p.do = "put" /\ p.f = T
  /\ T = "shards" => \A f \in ShardsUpTo(n) : \E p \in O : p.do = "put" /\ p.f = f
  /\ \A o, p \in O : o.do = "put" /\ p.do = "put" /\ o.f = p.f => o = p
  /\ \A o \in O : o.do = "put" => o.f \in {"tids", T} \/ (T = "shards" /\ o.f \in ShardSet)
  /\ \A o \in O : o.do = "del" => o.f = IF T = "cagra" THEN "shards" ELSE "cagra"
  /\ (T = "cagra" /\ op = "build") \/ T \in {"shards", "ivfpq"} => \E o \in O : o.do = "del"
  /\ T \in {"cagra", "shards"} /\ op = "build" => \E o \in O : o.do = "try"
  /\ op # "build" => T = "cagra" /\ \A o \in O : o.do = "put"
  /\ T = "vecs" => \A o \in O : o.do = "put"
  /\ T = "ivfpq" => \A o \in O : o.do # "try"
  /\ \A o \in O : o.do = "put" =>
       \/ "tids" \in o.undo
       \/ o.undo = {} /\ o.f = "tids"
       \/ o.undo \subseteq {"vecs"} /\ T = "vecs"

LEMMA PlanOne == PlanOK(OneOps, "build", "cagra", 0)
<1>1. PICK a, b, c, e, g : a = Put("tids", {}) /\ b = Put("cagra", {"tids"}) /\ c = Try("vecs") /\ e = Del("shards") /\ g = Sweep(0)
  OBVIOUS
<1>2. /\ a.do = "put" /\ a.f = "tids" /\ a.undo = {} /\ b.do = "put" /\ b.f = "cagra" /\ b.undo = {"tids"}
      /\ c.do = "try" /\ e.do = "del" /\ e.f = "shards" /\ g.do = "sweep"
  BY <1>1 DEF Put, Try, Del, Sweep
<1>3. OneOps = {a, b, c, e, g}
  BY <1>1 DEF OneOps
<1> QED
  BY <1>2, <1>3 DEF PlanOK

LEMMA PlanFlat == ASSUME NEW n PROVE PlanOK(FlatOps, "build", "vecs", n)
<1>1. PICK a, b : a = Put("vecs", {}) /\ b = Put("tids", {"vecs"})
  OBVIOUS
<1>2. a.do = "put" /\ a.f = "vecs" /\ a.undo = {} /\ b.do = "put" /\ b.f = "tids" /\ b.undo = {"vecs"}
  BY <1>1 DEF Put
<1>3. FlatOps = {a, b}
  BY <1>1 DEF FlatOps
<1> QED
  BY <1>2, <1>3 DEF PlanOK

LEMMA PlanIvfPq == ASSUME NEW n PROVE PlanOK(IvfPqOps, "build", "ivfpq", n)
<1>1. PICK a, b, c : a = Put("tids", {}) /\ b = Put("ivfpq", {"tids"}) /\ c = Del("cagra")
  OBVIOUS
<1>2. /\ a.do = "put" /\ a.f = "tids" /\ a.undo = {} /\ b.do = "put" /\ b.f = "ivfpq" /\ b.undo = {"tids"}
      /\ c.do = "del" /\ c.f = "cagra"
  BY <1>1 DEF Put, Del
<1>3. IvfPqOps = {a, b, c}
  BY <1>1 DEF IvfPqOps
<1> QED
  BY <1>2, <1>3 DEF PlanOK

LEMMA PlanSave == ASSUME NEW op, op # "build", NEW n PROVE PlanOK(SaveOps, op, "cagra", n)
<1>1. PICK a, b : a = Put("tids", {}) /\ b = Put("cagra", {"tids"})
  OBVIOUS
<1>2. a.do = "put" /\ a.f = "tids" /\ a.undo = {} /\ b.do = "put" /\ b.f = "cagra" /\ b.undo = {"tids"}
  BY <1>1 DEF Put
<1>3. SaveOps = {a, b}
  BY <1>1 DEF SaveOps
<1> QED
  BY <1>2, <1>3 DEF PlanOK

LEMMA PlanSharded == ASSUME NEW n \in 1 .. Len(ShardFiles) PROVE PlanOK(ShardedOps(n), "build", "shards", n)
<1>1. PICK u : u = ShardsUpTo(n) \cup {"tids", "shards"}
  OBVIOUS
<1>2. PICK a, b, c, e, g : a = Put("tids", u) /\ b = Put("shards", u) /\ c = Try("vecs") /\ e = Del("cagra") /\ g = Sweep(n)
  OBVIOUS
<1>3. /\ a.do = "put" /\ a.f = "tids" /\ a.undo = u /\ b.do = "put" /\ b.f = "shards" /\ b.undo = u
      /\ c.do = "try" /\ e.do = "del" /\ e.f = "cagra" /\ g.do = "sweep" /\ "tids" \in u
  BY <1>1, <1>2 DEF Put, Try, Del, Sweep
<1>4. PICK h : h = {ShardPut(i) : i \in 1 .. n}
  OBVIOUS
<1>5. \A i \in 1 .. n : ShardPut(i).do = "put" /\ ShardPut(i).f = ShardFiles[i] /\ "tids" \in ShardPut(i).undo /\ ShardFiles[i] \in ShardSet
  BY ShardNames DEF ShardPut, Put
<1>6. \A o \in h : o.do = "put" /\ o.f \in ShardSet /\ "tids" \in o.undo
  BY <1>4, <1>5
<1>10. \A i, j \in 1 .. n : ShardFiles[i] = ShardFiles[j] => i = j
  BY ShardNames
<1>11. \A o, p \in h : o.f = p.f => o = p
  BY <1>4, <1>5, <1>10
<1>12. \A o \in h : o.f \notin {"tids", "shards"}
  BY <1>6, ShardNames
<1>7. \A f \in ShardsUpTo(n) : \E p \in h : p.f = f
  BY <1>4, <1>5 DEF ShardsUpTo
<1>8. ShardedOps(n) = h \cup {a, b, c, e, g}
  BY <1>1, <1>2, <1>4 DEF ShardedOps
<1>9. \A o \in h \cup {a, b, c, e, g} : o \in h \/ o = a \/ o = b \/ o = c \/ o = e \/ o = g
  OBVIOUS
<1> QED
  BY <1>3, <1>6, <1>7, <1>8, <1>9, <1>11, <1>12 DEF PlanOK

LEMMA PlanFacts ==
  ASSUME NEW a \in {"cagra", "flat", "ivfpq"}, NEW op, op # "build" => a = "cagra", NEW n \in Widths
  PROVE  /\ PlanOK(OpsOf(a, op, n), op, Target(a, op, n), n)
         /\ a = "cagra" <=> Target(a, op, n) \in {"cagra", "shards"}
         /\ a = "flat" <=> Target(a, op, n) = "vecs"
         /\ a = "ivfpq" <=> Target(a, op, n) = "ivfpq"
<1>1. CASE op # "build"
  <2>1. OpsOf(a, op, n) = SaveOps /\ Target(a, op, n) = "cagra"
    BY <1>1 DEF OpsOf, Target
  <2> QED
    BY <1>1, <2>1, PlanSave
<1>2. CASE op = "build" /\ a = "flat"
  <2>1. OpsOf(a, op, n) = FlatOps /\ Target(a, op, n) = "vecs"
    BY <1>2 DEF OpsOf, Target
  <2> QED
    BY <1>2, <2>1, PlanFlat
<1>3. CASE op = "build" /\ a = "ivfpq"
  <2>1. OpsOf(a, op, n) = IvfPqOps /\ Target(a, op, n) = "ivfpq"
    BY <1>3 DEF OpsOf, Target
  <2> QED
    BY <1>3, <2>1, PlanIvfPq
<1>4. CASE op = "build" /\ a = "cagra" /\ n = 0
  <2>1. OpsOf(a, op, n) = OneOps /\ Target(a, op, n) = "cagra"
    BY <1>4 DEF OpsOf, Target
  <2> QED
    BY <1>4, <2>1, PlanOne
<1>5. CASE op = "build" /\ a = "cagra" /\ n # 0
  <2>1. OpsOf(a, op, n) = ShardedOps(n) /\ Target(a, op, n) = "shards"
    BY <1>5 DEF OpsOf, Target
  <2>2. n \in 1 .. Len(ShardFiles)
    BY <1>5 DEF Widths
  <2> QED
    BY <1>5, <2>1, <2>2, PlanSharded
<1> QED
  BY <1>1, <1>2, <1>3, <1>4, <1>5

\* List s writes file f.
Writes(s, f) == \E o \in Ran(s) : o.do = "put" /\ o.f = f

LEMMA PendingWrites == \A s, f : Pending(s, {f}) <=> Writes(s, f)
BY DEF Pending, Writes, Ran

\* The operations that are not in s have been done to the files d.
Staged(O, s, v, t, d) == \A o \in O : o \in Ran(s) \/ Effect(o, v, t, d)

\* The first operation of a list and the others.
First(s, q, r) == s # <<>> /\ q = Head(s) /\ r = Tail(s)

\* s is what is left of a commit with the operations O.
Course(O, op, T, n, s) ==
  OpShape(O) /\ T \in {"cagra", "shards", "ivfpq", "vecs"} /\ PlanOK(O, op, T, n) /\ Agenda(s, O, Ranks(O))

\* What is left after the first operation of a commit, by what that one does.
LEMMA AgendaOrder ==
  ASSUME NEW O, NEW op, NEW T, NEW n, NEW s, Course(O, op, T, n, s), NEW q, NEW r, First(s, q, r)
  PROVE  /\ q \in O /\ Course(O, op, T, n, r) /\ Ran(s) = {q} \cup Ran(r) /\ q \notin Ran(r) /\ Ran(s) \subseteq O
         /\ q.do \in {"put", "try", "del", "sweep"}
         /\ q.do = "put" => ~Writes(r, q.f)
         /\ q.do = "put" /\ q.f = "tids" /\ T # "vecs" => Writes(r, T)
         /\ q.do = "put" /\ q.f = T /\ T # "vecs" => ~Writes(s, "tids") /\ \A f : ~Writes(r, f)
         /\ q.do # "put" => \A f : ~Writes(s, f)
         /\ q.do = "del" => \A o \in Ran(s) : o.do # "try"
<1> USE DEF Course
<1>1. Ranks(O) \in [O -> Nat]
  BY RanksType
<1>0. s # <<>> /\ q = Head(s) /\ r = Tail(s)
  BY DEF First
<1>2. /\ Agenda(Tail(s), O, Ranks(O)) /\ Head(s) \in O
      /\ Ran(s) = {Head(s)} \cup Ran(Tail(s)) /\ Head(s) \notin Ran(Tail(s))
      /\ \A o \in Ran(s) : Ranks(O)[Head(s)] <= Ranks(O)[o]
  BY <1>0, <1>1, AgendaTail
<1>3. /\ q \in O /\ Agenda(r, O, Ranks(O)) /\ Ran(s) = {q} \cup Ran(r) /\ q \notin Ran(r)
      /\ \A o \in Ran(s) : Ranks(O)[q] <= Ranks(O)[o]
  BY <1>0, <1>2
<1>4. Ran(s) \subseteq O
  <2>1. s \in Seq(O)
    BY DEF Agenda
  <2> QED
    BY <2>1, ElementOfSeq DEF Ran
<1>5. \A o \in O : Ranks(O)[o] = Rank(o) /\ Rank(o) \in Nat
  BY <1>1 DEF Ranks
<1>6. \A o \in Ran(s) : Rank(q) <= Rank(o)
  BY <1>3, <1>4, <1>5
<1>7. q.do \in {"put", "try", "del", "sweep"}
  BY <1>3 DEF OpShape
<1>8. q.do = "put" => ~Writes(r, q.f)
  BY <1>3, <1>4 DEF PlanOK, Writes
<1>9. ASSUME q.do = "put", q.f = "tids", T # "vecs" PROVE Writes(r, T)
  <2>1. PICK p \in O : p.do = "put" /\ p.f = T
    BY DEF PlanOK
  <2>2. Rank(p) = 3 /\ Rank(q) = 2
    BY <1>9, <2>1, RankOf
  <2>3. p \in Ran(s) /\ p # q
    <3>1. q \in Ran(s) /\ Ranks(O)[q] < Ranks(O)[p] /\ p.do # "try"
      BY <1>3, <1>5, <2>1, <2>2
    <3> QED
      BY <2>2, <3>1 DEF Agenda
  <2> QED
    BY <1>3, <2>1, <2>3 DEF Writes
<1>10. ASSUME q.do = "put", q.f = T, T # "vecs" PROVE ~Writes(s, "tids")
  <2>1. Rank(q) = 3
    BY <1>10, RankOf
  <2>2. ASSUME NEW o \in Ran(s), o.do = "put", o.f = "tids" PROVE FALSE
    <3>1. Rank(o) = 2
      BY <2>2, RankOf
    <3> QED
      BY <1>6, <2>1, <2>2, <3>1
  <2> QED
    BY <2>2 DEF Writes
<1>11. ASSUME q.do # "put" PROVE \A f : ~Writes(s, f)
  <2>1. Rank(q) \in {4, 5, 6}
    BY <1>7, <1>11, RankOf
  <2>2. ASSUME NEW o \in Ran(s), o.do = "put" PROVE FALSE
    <3>1. o.f \in {"tids", T} \cup ShardSet
      BY <1>4, <2>2 DEF PlanOK
    <3>2. Rank(o) \in {1, 2, 3}
      BY <2>2, <3>1, RankOf
    <3> QED
      BY <1>6, <2>1, <2>2, <3>2
  <2> QED
    BY <2>2 DEF Writes
<1>12. ASSUME q.do = "del", NEW o \in Ran(s) PROVE o.do # "try"
  <2>1. Rank(q) = 5 /\ (o.do = "try" => Rank(o) = 4)
    BY <1>12, RankOf
  <2> QED
    BY <1>6, <2>1
<1>13. ASSUME q.do = "put", q.f = T, T # "vecs", NEW f PROVE ~Writes(r, f)
  <2>1. Rank(q) = 3 /\ ~Writes(r, T)
    BY <1>8, <1>13, RankOf
  <2>2. ASSUME NEW o \in Ran(r), o.do = "put" PROVE FALSE
    <3>1. o \in Ran(s) /\ o.f # T
      BY <1>3, <2>1, <2>2 DEF Writes
    <3>2. o.f = "tids" \/ o.f \in ShardSet
      BY <1>4, <2>2, <3>1 DEF PlanOK
    <3>3. Rank(o) \in {1, 2}
      BY <2>2, <3>2, RankOf
    <3> QED
      BY <1>6, <2>1, <3>1, <3>3
  <2> QED
    BY <2>2 DEF Writes
<1> QED
  BY <1>3, <1>4, <1>7, <1>8, <1>9, <1>10, <1>11, <1>12, <1>13

\* What the files are when nothing writes them any more.
LEMMA StagedFiles ==
  ASSUME NEW O, NEW op, NEW T \in {"cagra", "shards", "ivfpq", "vecs"}, NEW n \in Widths, PlanOK(O, op, T, n),
         NEW s, NEW v, NEW t, NEW d, Staged(O, s, v, t, d)
  PROVE  /\ ~Writes(s, "tids") => d["tids"] = t
         /\ ~Writes(s, T) => d[T] = v
         /\ T = "shards" => \A f \in ShardsUpTo(n) : ~Writes(s, f) => d[f] = v
         /\ (\A o \in Ran(s) : o.do # "del") /\ T = "cagra" /\ op = "build" => d["shards"] = 0
         /\ (\A o \in Ran(s) : o.do # "del") /\ T \in {"shards", "ivfpq"} => d["cagra"] = 0
         /\ (\A o \in Ran(s) : o.do # "try") /\ T \in {"cagra", "shards"} /\ op = "build" => d["vecs"] \in {0, v}
<1>1. /\ {"tids", "cagra", "shards", "ivfpq", "vecs"} \subseteq Files /\ ShardsUpTo(n) \subseteq Files
      /\ "tids" \notin ShardsUpTo(n)
  BY ShardNames
<1>2. ASSUME NEW p \in O, p.do = "put", p.f \in Files, ~Writes(s, p.f) PROVE d[p.f] = IF p.f = "tids" THEN t ELSE v
  <2>1. Effect(p, v, t, d)
    BY <1>2 DEF Staged, Writes
  <2> QED
    BY <1>2, <2>1 DEF Effect, Content
<1>3. ~Writes(s, "tids") => d["tids"] = t
  <2>1. PICK p \in O : p.do = "put" /\ p.f = "tids"
    BY DEF PlanOK
  <2> QED
    BY <1>1, <1>2, <2>1
<1>4. ~Writes(s, T) => d[T] = v
  <2>1. PICK p \in O : p.do = "put" /\ p.f = T
    BY DEF PlanOK
  <2> QED
    BY <1>1, <1>2, <2>1
<1>5. ASSUME T = "shards", NEW f \in ShardsUpTo(n), ~Writes(s, f) PROVE d[f] = v
  <2>1. PICK p \in O : p.do = "put" /\ p.f = f
    BY <1>5 DEF PlanOK
  <2> QED
    BY <1>1, <1>2, <1>5, <2>1
<1>6. ASSUME \A o \in Ran(s) : o.do # "del", (T = "cagra" /\ op = "build") \/ T \in {"shards", "ivfpq"}
      PROVE  d[IF T = "cagra" THEN "shards" ELSE "cagra"] = 0
  <2>1. PICK p \in O : p.do = "del"
    BY <1>6 DEF PlanOK
  <2>2. p.f = IF T = "cagra" THEN "shards" ELSE "cagra"
    BY <2>1 DEF PlanOK
  <2>3. Effect(p, v, t, d)
    BY <1>6, <2>1 DEF Staged
  <2> QED
    BY <2>1, <2>2, <2>3 DEF Effect
<1>7. ASSUME \A o \in Ran(s) : o.do # "try", T \in {"cagra", "shards"}, op = "build" PROVE d["vecs"] \in {0, v}
  <2>1. PICK p \in O : p.do = "try"
    BY <1>7 DEF PlanOK
  <2>2. Effect(p, v, t, d)
    BY <1>7, <2>1 DEF Staged
  <2> QED
    BY <2>1, <2>2 DEF Effect
<1> QED
  BY <1>3, <1>4, <1>5, <1>6, <1>7

\* The file that makes the version of thread v whole.
Goal(v) == Target(am, job[v].op, width[v])

\* A commit that no newer version has overtaken: the only one that may touch files.
Busy(v) == job[v].st = "commit" /\ (am = "flat" => v = nv)

StageOK(v) ==
  Busy(v) =>
    /\ job[v].t = tidl[v] /\ v >= acked
    /\ Staged(Plan(v), job[v].todo, v, tidl[v], disk)
    /\ job[v].op # "build" => res.g = v /\ res.t = tidl[v] /\ disk["shards"] = 0

OpenOK == (\E v \in Versions : job[v].st # "idle") \/ dl.on => open

\* A graph that carries no CRC is of the list of TIDs beside it.
PairOK(d) ==
  d["shards"] = 0 /\ d["tids"] # 0 =>
    \A f \in {"cagra", "ivfpq"} : d[f] # 0 => tidl[d[f]] = d["tids"]
PairsOK == PairOK(disk) \/ (\E v \in Versions : TearWindow(v)) \/ DownloadWindow

\* No load finds a version older than what was confirmed.
NewEnough(d) ==
  /\ \A f \in {"cagra", "ivfpq", "shards"} : d[f] # 0 => d[f] >= acked
  /\ d["vecs"] # 0 => d["vecs"] >= acked \/ (am = "cagra" /\ d["cagra"] # 0)

\* An index has no files of another access method.
OwnFiles(d) ==
  /\ am # "cagra" => d["cagra"] = 0 /\ d["shards"] = 0
  /\ am # "ivfpq" => d["ivfpq"] = 0
  /\ am = "ivfpq" => d["vecs"] = 0

ResOK == res.g # 0 => Whole(res) /\ res.g >= acked

\* Manifest m and its objects are of version s alone.
SnapOK(m, s) ==
  /\ m.n = width[s]
  /\ \A f \in SnapFiles(m.n) : m.obj[f] = Content(s, tidl[s])[f] /\ m.sha[f] = m.obj[f]

LatestOK == latest # NoManifest => \E s \in 1 .. nv : SnapOK(latest, s)

\* What a download has put is there, unless a commit has touched it.
RestoredOK ==
  \A o \in DownloadSet(dl.m.n) : o \in Ran(dl.todo) \/ (o.do = "put" => disk[o.f] = dl.m.obj[o.f])
RestoreOK ==
  dl.on =>
    /\ \E s \in 1 .. nv : s >= acked /\ SnapOK(dl.m, s)
    /\ (\A v \in Versions : job[v].st # "commit") => RestoredOK

\* What no accident has spoiled.
Intact ==
  /\ \A v \in Versions : StageOK(v)
  /\ OpenOK /\ PairsOK /\ NewEnough(disk) /\ OwnFiles(disk) /\ ResOK /\ LatestOK /\ RestoreOK

\* What is known of a thread that commits.
LEMMA ThreadFacts ==
  ASSUME TypeInv, NEW v \in Versions, job[v].st = "commit"
  PROVE  /\ PlanOK(Plan(v), job[v].op, Goal(v), width[v]) /\ OpShape(Plan(v))
         /\ Agenda(job[v].todo, Plan(v), Ranks(Plan(v)))
         /\ am = "cagra" <=> Goal(v) \in {"cagra", "shards"}
         /\ am = "flat" <=> Goal(v) = "vecs"
         /\ am = "ivfpq" <=> Goal(v) = "ivfpq"
         /\ Goal(v) \in {"cagra", "shards", "ivfpq", "vecs"} /\ width[v] \in Widths
         /\ v \in 1 .. nv /\ v \in Nat /\ v # 0 /\ tidl[v] \in 1 .. nv
         /\ am # "flat" => lock = v /\ \A w \in Versions : job[w].st = "commit" => w = v
         /\ job[v].op # "build" => am = "cagra"
<1>1. /\ am \in {"cagra", "flat", "ivfpq"} /\ width[v] \in Widths /\ v \in Nat /\ v >= 1 /\ v \in 1 .. nv /\ tidl[v] \in 1 .. nv
      /\ OpShape(Plan(v))
  BY TypeFacts
<1>2. ASSUME NEW w \in Versions, job[w].st = "commit", am # "flat" PROVE lock = w
  <2>1. JobOK(w)
    BY DEF TypeInv
  <2> QED
    BY <1>2, <2>1 DEF JobOK
<1>3. (job[v].op # "build" => am = "cagra") /\ Agenda(job[v].todo, Plan(v), Ranks(Plan(v)))
  <2>1. JobOK(v)
    BY DEF TypeInv
  <2> QED
    BY <2>1 DEF JobOK
<1>4. PICK a, op, n : a = am /\ op = job[v].op /\ n = width[v]
  OBVIOUS
<1>5. a \in {"cagra", "flat", "ivfpq"} /\ (op # "build" => a = "cagra") /\ n \in Widths
  BY <1>1, <1>3, <1>4
<1>6. /\ PlanOK(OpsOf(a, op, n), op, Target(a, op, n), n)
      /\ a = "cagra" <=> Target(a, op, n) \in {"cagra", "shards"}
      /\ a = "flat" <=> Target(a, op, n) = "vecs"
      /\ a = "ivfpq" <=> Target(a, op, n) = "ivfpq"
  BY <1>5, PlanFacts
<1>7. Plan(v) = OpsOf(a, op, n) /\ Goal(v) = Target(a, op, n)
  BY <1>4 DEF Plan, Goal
<1>8. v # 0
  BY <1>1
<1> QED
  BY <1>1, <1>2, <1>3, <1>4, <1>5, <1>6, <1>7, <1>8

\* A load that finds the files while nothing is torn serves a whole version.
LEMMA ServedOK ==
  ASSUME TypeInv, PairOK(disk), NewEnough(disk), OwnFiles(disk)
  PROVE  Served(disk).g # 0 => Whole(Served(disk)) /\ Served(disk).g >= acked
<1>1. PICK a, b, c, x, y : a = disk["tids"] /\ b = disk["shards"] /\ c = disk["cagra"] /\ x = disk["ivfpq"] /\ y = disk["vecs"]
  OBVIOUS
<1>2. /\ b = 0 /\ a # 0 => (c # 0 => tidl[c] = a) /\ (x # 0 => tidl[x] = a)
      /\ c # 0 => c >= acked
      /\ x # 0 => x >= acked
      /\ b # 0 => b >= acked
      /\ y # 0 => y >= acked \/ c # 0
  BY <1>1 DEF PairOK, NewEnough
<1>3. PICK z : z = Served(disk)
  OBVIOUS
<1>4. CASE a = 0
  <2>1. z = [g |-> 0, t |-> 0]
    BY <1>1, <1>3, <1>4 DEF Served, NoEntry
  <2> QED
    BY <1>3, <2>1
<1>5. CASE a # 0 /\ b # 0
  <2>1. z = [g |-> 0, t |-> 0] \/ (z = [g |-> b, t |-> a] /\ tidl[b] = a)
    BY <1>1, <1>3, <1>5 DEF Served, NoEntry, ShardsAccepted
  <2> QED
    BY <1>2, <1>3, <1>5, <2>1 DEF Whole
<1>6. CASE a # 0 /\ b = 0 /\ c = 0 /\ x = 0
  <2>1. z = [g |-> 0, t |-> 0] \/ (z = [g |-> y, t |-> a] /\ tidl[y] = a /\ y # 0)
    BY <1>1, <1>3, <1>6 DEF Served, NoEntry
  <2> QED
    BY <1>2, <1>3, <1>6, <2>1 DEF Whole
<1>7. CASE a # 0 /\ b = 0 /\ c # 0
  <2>1. z = [g |-> c, t |-> a]
    BY <1>1, <1>3, <1>7 DEF Served
  <2> QED
    BY <1>2, <1>3, <1>7, <2>1 DEF Whole
<1>8. CASE a # 0 /\ b = 0 /\ c = 0 /\ x # 0
  <2>1. z = [g |-> x, t |-> a]
    BY <1>1, <1>3, <1>8 DEF Served
  <2> QED
    BY <1>2, <1>3, <1>8, <2>1 DEF Whole
<1> QED
  BY <1>4, <1>5, <1>6, <1>7, <1>8

LEMMA InitIntact == ASSUME Init PROVE Intact
<1>1. /\ \A f \in {"tids", "cagra", "ivfpq", "shards", "vecs"} : disk[f] = 0
      /\ \A v \in Versions : job[v] = NoJob
      /\ res = [g |-> 0, t |-> 0] /\ latest = NoManifest /\ dl = NoDownload
  BY ShardNames DEF Init, NoEntry
<1>2. \A v \in Versions : job[v].st = "idle"
  <2>1. PICK e : e = <<>>
    OBVIOUS
  <2> QED
    BY <1>1, <2>1 DEF NoJob
<1>3. ~dl.on
  <2>1. PICK e, x : e = <<>> /\ x = NoManifest
    OBVIOUS
  <2>2. dl = [on |-> FALSE, todo |-> e, m |-> x]
    BY <1>1, <2>1 DEF NoDownload
  <2> QED
    BY <2>2
<1>4. \A v \in Versions : StageOK(v)
  BY <1>2 DEF StageOK, Busy
<1>5. OpenOK /\ LatestOK /\ RestoreOK
  BY <1>1, <1>2, <1>3 DEF OpenOK, LatestOK, RestoreOK
<1>6. PairsOK /\ NewEnough(disk) /\ OwnFiles(disk) /\ ResOK
  BY <1>1 DEF PairsOK, PairOK, NewEnough, OwnFiles, ResOK
<1> QED
  BY <1>4, <1>5, <1>6 DEF Intact

\* The accidents only add up.
LEMMA AccidentsStay == [Next]_vars => why \subseteq why'
BY DEF Next, vars, StartBuild, Cancel, BuildFails, BeginCommit, CommitStep, CommitFails, EndCommit, UploadStep, Publish,
       UploadFails, Extend, Compact, Evict, SearchMiss, Crash, StartDownload, DownloadStep, DownloadFails, EndDownload

\* What the names alone determine.
LEMMA SameNames ==
  ASSUME UNCHANGED names, acked' = acked
  PROVE  /\ nv' = nv /\ am' = am /\ tidl' = tidl /\ width' = width
         /\ \A m, s : SnapOK(m, s)' <=> SnapOK(m, s)
         /\ latest' = latest /\ LatestOK => LatestOK'
         /\ res' = res /\ ResOK => ResOK'
<1>1. nv' = nv /\ am' = am /\ tidl' = tidl /\ width' = width
  BY DEF names
<1>2. \A m, s : SnapOK(m, s)' <=> SnapOK(m, s)
  BY <1>1 DEF SnapOK
<1>3. latest' = latest /\ LatestOK => LatestOK'
  BY <1>1, <1>2 DEF LatestOK
<1>4. res' = res /\ ResOK => ResOK'
  BY <1>1 DEF ResOK, Whole
<1> QED
  BY <1>1, <1>2, <1>3, <1>4

\* The files are the same, but for the shards and .vectors.
LEMMA SameFiles ==
  ASSUME UNCHANGED names, acked' = acked, \A f \in {"tids", "cagra", "ivfpq", "shards"} : disk'[f] = disk[f]
  PROVE  /\ PairOK(disk) => PairOK(disk)'
         /\ disk'["vecs"] \in {0, disk["vecs"]} /\ NewEnough(disk) => NewEnough(disk)'
         /\ disk'["vecs"] \in {0, disk["vecs"]} /\ OwnFiles(disk) => OwnFiles(disk)'
         /\ dl' = dl /\ DownloadWindow => DownloadWindow'
<1>1. acked' = acked /\ am' = am /\ tidl' = tidl
  BY DEF names
<1>2. PairOK(disk) => PairOK(disk)'
  BY <1>1 DEF PairOK
<1>3. disk'["vecs"] \in {0, disk["vecs"]} /\ NewEnough(disk) => NewEnough(disk)'
  BY <1>1 DEF NewEnough
<1>4. disk'["vecs"] \in {0, disk["vecs"]} /\ OwnFiles(disk) => OwnFiles(disk)'
  BY <1>1 DEF OwnFiles
<1>5. dl' = dl /\ DownloadWindow => DownloadWindow'
  BY DEF DownloadWindow
<1> QED
  BY <1>2, <1>3, <1>4, <1>5

\* Nothing happens to the files, and no thread comes to a commit or leaves one.
LEMMA StageStays ==
  ASSUME Intact, UNCHANGED names, disk' = disk, res' = res, acked' = acked,
         \A v \in Versions : job'[v].st = job[v].st /\ job'[v].op = job[v].op /\ job'[v].todo = job[v].todo /\ job'[v].t = job[v].t
  PROVE  /\ \A v \in Versions : StageOK(v)' /\ (TearWindow(v) => TearWindow(v)')
         /\ NewEnough(disk)' /\ OwnFiles(disk)' /\ ResOK'
         /\ dl' = dl \/ ~dl.on => PairsOK'
         /\ dl' = dl => RestoreOK'
         /\ dl' = dl /\ open' = open => OpenOK'
<1>1. nv' = nv /\ am' = am /\ tidl' = tidl /\ width' = width
  BY DEF names
<1>2. ASSUME NEW v \in Versions PROVE StageOK(v)' /\ (TearWindow(v) => TearWindow(v)')
  <2>1. StageOK(v) /\ Plan(v)' = Plan(v) /\ (Busy(v)' <=> Busy(v))
    BY <1>1 DEF Intact, Plan, Busy
  <2>2. StageOK(v)'
    BY <1>1, <2>1 DEF StageOK
  <2>3. TearWindow(v) => TearWindow(v)'
    BY DEF TearWindow
  <2> QED
    BY <2>2, <2>3
<1>3. NewEnough(disk)' /\ OwnFiles(disk)' /\ ResOK'
  BY SameFiles, SameNames DEF Intact
<1>4. dl' = dl \/ ~dl.on => PairsOK'
  <2>1. PairsOK
    BY DEF Intact
  <2>2. PairOK(disk) => PairOK(disk)'
    BY SameFiles
  <2>3. dl' = dl => (DownloadWindow => DownloadWindow')
    BY DEF DownloadWindow
  <2>4. ~dl.on => ~DownloadWindow
    BY DEF DownloadWindow
  <2> QED
    BY <1>2, <2>1, <2>2, <2>3, <2>4 DEF PairsOK
<1>5. dl' = dl => RestoreOK'
  <2>1. RestoreOK
    BY DEF Intact
  <2>2. \A m, s : SnapOK(m, s)' <=> SnapOK(m, s)
    BY SameNames
  <2>3. dl' = dl => (RestoredOK => RestoredOK')
    BY DEF RestoredOK
  <2> QED
    BY <1>1, <2>1, <2>2, <2>3 DEF RestoreOK
<1>6. dl' = dl /\ open' = open => OpenOK'
  <2>1. OpenOK
    BY DEF Intact
  <2> QED
    BY <2>1 DEF OpenOK
<1> QED
  BY <1>2, <1>3, <1>4, <1>5, <1>6

LEMMA CancelIntact == ASSUME TypeInv, Intact, NEW v \in Versions, Cancel(v) PROVE Intact'
<1>1. /\ UNCHANGED names /\ disk' = disk /\ res' = res /\ acked' = acked /\ dl' = dl /\ latest' = latest /\ open' = open
      /\ job' = [job EXCEPT ![v].live = FALSE]
  BY DEF Cancel, files, cloud
<1>2. ASSUME NEW w \in Versions
      PROVE  job'[w].st = job[w].st /\ job'[w].op = job[w].op /\ job'[w].todo = job[w].todo /\ job'[w].t = job[w].t
  BY <1>1 DEF TypeInv
<1>3. /\ \A w \in Versions : StageOK(w)'
      /\ NewEnough(disk)' /\ OwnFiles(disk)' /\ ResOK' /\ PairsOK' /\ RestoreOK' /\ OpenOK'
  BY <1>1, <1>2, StageStays
<1>4. LatestOK'
  BY <1>1, SameNames DEF Intact
<1> QED
  BY <1>3, <1>4 DEF Intact

LEMMA UploadIntact == ASSUME TypeInv, Intact, NEW v \in Versions, UploadStep(v) \/ UploadFails(v) PROVE Intact'
<1>1. /\ UNCHANGED names /\ disk' = disk /\ res' = res /\ acked' = acked /\ dl' = dl /\ latest' = latest /\ open' = open
      /\ job' = job
  BY DEF UploadStep, UploadFails, files
<1>2. /\ \A w \in Versions : StageOK(w)'
      /\ NewEnough(disk)' /\ OwnFiles(disk)' /\ ResOK' /\ PairsOK' /\ RestoreOK' /\ OpenOK'
  BY <1>1, StageStays
<1>3. LatestOK'
  BY <1>1, SameNames DEF Intact
<1> QED
  BY <1>2, <1>3 DEF Intact

\* A snapshot that was read while nothing replaced the files is of one version.
LEMMA PublishIntact == ASSUME TypeInv, Intact, NEW v \in Versions, Publish(v), ~Spoiled' PROVE Intact'
<1>1. /\ UNCHANGED names /\ disk' = disk /\ res' = res /\ acked' = acked /\ dl' = dl /\ open' = open /\ job' = job
      /\ latest' = Manifest(v) /\ ups[v].on /\ ups[v].todo = <<>>
  BY DEF Publish, files
<1>2. /\ \A w \in Versions : StageOK(w)'
      /\ NewEnough(disk)' /\ OwnFiles(disk)' /\ ResOK' /\ PairsOK' /\ RestoreOK' /\ OpenOK'
  BY <1>1, StageStays
<1>3. ~Mixed(v)
  BY DEF Publish, Spoiled
<1>4. LatestOK'
  <2>1. PICK m : m = Manifest(v)
    OBVIOUS
  <2>2. ASSUME NEW f \in SnapFiles(width[v]) PROVE m.obj[f] = Content(v, tidl[v])[f] /\ m.sha[f] = m.obj[f]
    <3>0. \A g \in SnapFiles(width[v]) : \E i, j \in 1 .. Len(Reads(v)) :
            /\ Reads(v)[i] = g /\ Manifest(v).sha[g] = ups[v].got[i]
            /\ Reads(v)[j] = g /\ Manifest(v).obj[g] = ups[v].got[j] /\ ups[v].got[j] \in 0 .. nv
      BY <1>1, ManifestFacts
    <3>1. PICK i, j \in 1 .. Len(Reads(v)) :
            /\ Reads(v)[i] = f /\ Manifest(v).sha[f] = ups[v].got[i]
            /\ Reads(v)[j] = f /\ Manifest(v).obj[f] = ups[v].got[j]
      BY <3>0, ZenonT(30)
    <3> QED
      BY <1>3, <2>1, <3>1 DEF Mixed
  <2>7. m.n = width[v]
    BY <1>1, <2>1, ManifestFacts
  <2>3. SnapOK(m, v)
    BY <2>2, <2>7 DEF SnapOK
  <2>4. UploadOK(v)
    BY DEF TypeInv
  <2>5. v \in 1 .. nv /\ nv' = nv
    BY <1>1, <2>4, TypeFacts DEF UploadOK, names
  <2>6. SnapOK(m, v)'
    BY <1>1, <2>3, SameNames
  <2> QED
    BY <1>1, <2>1, <2>5, <2>6 DEF LatestOK
<1> QED
  BY <1>2, <1>4 DEF Intact

-----------------------------------------------------------------------------
(* Intact is preserved.                                                    *)

\* A new version changes nothing for the others.
LEMMA Growth ==
  ASSUME TypeInv, Intact, NEW n \in Widths, NEW same, NewVersion(n, same), disk' = disk, acked' = acked, UNCHANGED cloud
  PROVE  /\ nv' = nv + 1 /\ nv' \in Versions /\ nv \in Nat /\ am' = am /\ tidl'[0] = tidl[0]
         /\ \A v \in 0 .. nv : v # nv + 1 /\ tidl'[v] = tidl[v] /\ width'[v] = width[v]
         /\ PairOK(disk) => PairOK(disk)'
         /\ NewEnough(disk)' /\ OwnFiles(disk)' /\ LatestOK'
         /\ \A m, s : s \in 1 .. nv /\ SnapOK(m, s) => SnapOK(m, s)' /\ s \in 1 .. nv'
         /\ res.g # 0 => Whole(res) /\ tidl'[res.g] = tidl[res.g]
<1>1. /\ nv' = nv + 1 /\ nv' \in Versions /\ am' = am /\ nv \in Nat /\ (same = FALSE => tidl'[nv + 1] = nv + 1)
      /\ \A v \in Versions : v # nv + 1 => tidl'[v] = tidl[v] /\ width'[v] = width[v]
  BY Grow, TypeFacts
<1>2. \A v \in 0 .. nv : v # nv + 1 /\ tidl'[v] = tidl[v] /\ width'[v] = width[v]
  <2> SUFFICES ASSUME NEW v \in 0 .. nv PROVE v # nv + 1 /\ tidl'[v] = tidl[v] /\ width'[v] = width[v]
    OBVIOUS
  <2>1. v # nv + 1
    BY <1>1
  <2>2. CASE v \in Versions
    BY <1>1, <2>1, <2>2
  <2>3. CASE v \notin Versions
    <3>1. \E x : tidl' = [tidl EXCEPT ![nv + 1] = x] /\ width' = [width EXCEPT ![nv + 1] = n]
      BY DEF NewVersion
    <3> QED
      BY <2>1, <3>1
  <2> QED
    BY <2>2, <2>3
<1>3. disk \in [Files -> 0 .. nv] /\ {"tids", "cagra", "ivfpq", "shards", "vecs"} \subseteq Files
  BY TypeFacts, ShardNames
<1>4. PairOK(disk) => PairOK(disk)'
  BY <1>2, <1>3 DEF PairOK
<1>5. NewEnough(disk)' /\ OwnFiles(disk)'
  BY <1>1 DEF Intact, NewEnough, OwnFiles
<1>6. \A m, s : s \in 1 .. nv /\ SnapOK(m, s) => SnapOK(m, s)' /\ s \in 1 .. nv'
  <2> SUFFICES ASSUME NEW m, NEW s, s \in 1 .. nv, SnapOK(m, s) PROVE SnapOK(m, s)' /\ s \in 1 .. nv'
    OBVIOUS
  <2>1. s \in 0 .. nv /\ s \in 1 .. nv'
    BY <1>1
  <2>2. tidl'[s] = tidl[s] /\ width'[s] = width[s]
    BY <1>2, <2>1
  <2> QED
    BY <2>1, <2>2 DEF SnapOK
<1>7. LatestOK'
  <2>1. LatestOK /\ latest' = latest
    BY DEF Intact, cloud
  <2> QED
    BY <1>6, <2>1 DEF LatestOK
<1>8. res.g # 0 => Whole(res) /\ tidl'[res.g] = tidl[res.g]
  <2>1. res.g \in 0 .. nv
    BY DEF TypeInv, RestOK
  <2> QED
    BY <1>2, <2>1 DEF Intact, ResOK
<1>9. 0 \in 0 .. nv
  BY <1>1
<1> QED
  BY <1>1, <1>2, <1>4, <1>5, <1>6, <1>7, <1>8, <1>9

\* A download goes on while a new version is made.
LEMMA GrowthRestore ==
  ASSUME TypeInv, Intact, NEW n \in Widths, NEW same, NewVersion(n, same), disk' = disk, acked' = acked, UNCHANGED cloud,
         (\A v \in Versions : job'[v].st # "commit") => (\A v \in Versions : job[v].st # "commit")
  PROVE  RestoreOK'
<1>1. \A m, s : s \in 1 .. nv /\ SnapOK(m, s) => SnapOK(m, s)' /\ s \in 1 .. nv'
  BY Growth
<1>2. RestoreOK /\ dl' = dl
  BY DEF Intact, cloud
<1>3. RestoredOK => RestoredOK'
  BY <1>2 DEF RestoredOK
<1> QED
  BY <1>1, <1>2, <1>3 DEF RestoreOK

LEMMA StartBuildIntact ==
  ASSUME TypeInv, Intact, NEW n \in Widths, NEW same \in BOOLEAN, StartBuild(n, same) PROVE Intact'
<1>1. NewVersion(n, same) /\ disk' = disk /\ acked' = acked /\ UNCHANGED cloud /\ res' = res /\ lock' = lock /\ open' = TRUE /\ dl' = dl
  BY DEF StartBuild, files, cloud
<1>2. /\ nv' = nv + 1 /\ nv' \in Versions /\ nv \in Nat /\ am' = am
      /\ \A v \in 0 .. nv : v # nv + 1 /\ tidl'[v] = tidl[v] /\ width'[v] = width[v]
      /\ PairOK(disk) => PairOK(disk)'
      /\ NewEnough(disk)' /\ OwnFiles(disk)' /\ LatestOK'
      /\ res.g # 0 => Whole(res) /\ tidl'[res.g] = tidl[res.g]
  BY <1>1, Growth
<1>3. /\ \A v \in Versions : v # nv + 1 => job'[v] = job[v]
      /\ job'[nv + 1].st = "gpu" /\ job[nv + 1].st = "idle"
  <2>1. PICK x, c : x = tidl'[nv + 1] /\ c = TRUE
    OBVIOUS
  <2>2. job' = [job EXCEPT ![nv + 1] = BuildJob(c, x)]
    BY <2>1 DEF StartBuild, BuildJob
  <2>3. BuildJob(c, x).st = "gpu"
    BY NewJobs
  <2>4. DOMAIN job = Versions /\ nv + 1 \in Versions
    BY <1>2 DEF TypeInv
  <2>5. job[nv + 1].st = "idle"
    BY <1>1, Grow
  <2> QED
    BY <2>2, <2>3, <2>4, <2>5
<1>4. ASSUME NEW v \in Versions PROVE StageOK(v)'
  <2> SUFFICES ASSUME Busy(v)' PROVE StageOK(v)'
    BY DEF StageOK
  <2>1. v # nv + 1 /\ job'[v].st = "commit" /\ am # "flat" /\ job'[v] = job[v]
    BY <1>2, <1>3 DEF Busy
  <2>2. v \in 0 .. nv
    BY <1>2, <2>1, TypeFacts
  <2>3. Busy(v) /\ StageOK(v)
    BY <2>1 DEF Busy, Intact
  <2>4. tidl'[v] = tidl[v] /\ width'[v] = width[v]
    BY <1>2, <2>2
  <2>5. Plan(v)' = Plan(v)
    BY <1>2, <2>1, <2>4 DEF Plan
  <2> QED
    BY <1>1, <2>1, <2>3, <2>4, <2>5 DEF StageOK
<1>5. PairsOK'
  <2>1. ASSUME NEW v \in Versions, TearWindow(v) PROVE TearWindow(v)'
    <3>1. job'[v] = job[v]
      BY <1>3, <2>1 DEF TearWindow
    <3> QED
      BY <1>1, <2>1, <3>1 DEF TearWindow
  <2>2. DownloadWindow => DownloadWindow'
    BY <1>1 DEF DownloadWindow
  <2> QED
    BY <1>2, <2>1, <2>2 DEF Intact, PairsOK
<1>6. ResOK'
  BY <1>1, <1>2 DEF Intact, ResOK, Whole
<1>7. RestoreOK'
  <2>1. (\A v \in Versions : job'[v].st # "commit") => (\A v \in Versions : job[v].st # "commit")
    <3> SUFFICES ASSUME \A v \in Versions : job'[v].st # "commit", NEW v \in Versions PROVE job[v].st # "commit"
      OBVIOUS
    <3> QED
      BY <1>3
  <2> QED
    BY <1>1, <2>1, GrowthRestore
<1>8. OpenOK'
  BY <1>1 DEF OpenOK
<1> QED
  BY <1>2, <1>4, <1>5, <1>6, <1>7, <1>8 DEF Intact

LEMMA ExtendIntact == ASSUME TypeInv, Intact, Extend PROVE Intact'
<1>1. NewVersion(0, FALSE) /\ disk' = disk /\ acked' = acked /\ UNCHANGED cloud /\ lock = 0 /\ Graph /\ open' = open /\ dl' = dl
      /\ job' = job /\ res' = [g |-> nv + 1, t |-> IF Whole(res) THEN nv + 1 ELSE res.t] /\ 0 \in Widths
  BY DEF Extend, cloud, Widths
<1>2. /\ nv' = nv + 1 /\ nv' \in Versions /\ nv \in Nat /\ am' = am
      /\ \A v \in 0 .. nv : v # nv + 1 /\ tidl'[v] = tidl[v] /\ width'[v] = width[v]
      /\ PairOK(disk) => PairOK(disk)'
      /\ NewEnough(disk)' /\ OwnFiles(disk)' /\ LatestOK'
      /\ res.g # 0 => Whole(res)
  BY <1>1, Growth
<1>3. tidl'[nv + 1] = nv + 1
  BY <1>1, Grow
<1>4. am = "cagra" /\ res.g # 0 /\ \A v \in Versions : job[v].st # "commit"
  BY <1>1, TypeFacts DEF Graph
<1>5. \A v \in Versions : StageOK(v)'
  BY <1>1, <1>4 DEF StageOK, Busy
<1>6. PairsOK'
  <2>1. DownloadWindow => DownloadWindow'
    BY <1>1 DEF DownloadWindow
  <2> QED
    BY <1>2, <1>4, <2>1 DEF Intact, PairsOK, TearWindow
<1>7. ResOK'
  <2>1. res'.g = nv + 1 /\ res'.t = nv + 1
    BY <1>1, <1>2, <1>4
  <2>2. acked \in 0 .. nv
    BY DEF TypeInv, RestOK
  <2> QED
    BY <1>1, <1>2, <1>3, <2>1, <2>2 DEF ResOK, Whole
<1>8. RestoreOK'
  BY <1>1, GrowthRestore
<1>9. OpenOK'
  BY <1>1 DEF OpenOK, Intact
<1> QED
  BY <1>2, <1>5, <1>6, <1>7, <1>8, <1>9 DEF Intact

\* A save has everything left to do.
LEMMA SaveStaged ==
  ASSUME NEW a, NEW op, op # "build", NEW n, NEW v, NEW t, NEW d
  PROVE  Staged(OpsOf(a, op, n), SaveIndex, v, t, d)
<1>1. OpsOf(a, op, n) = SaveOps
  BY DEF OpsOf
<1> QED
  BY <1>1, SaveAgenda DEF Staged

LEMMA CompactIntact == ASSUME TypeInv, Intact, Compact PROVE Intact'
<1>1. NewVersion(0, FALSE) /\ disk' = disk /\ acked' = acked /\ UNCHANGED cloud /\ lock = 0 /\ Graph /\ open' = TRUE /\ dl' = dl
      /\ res' = [g |-> nv + 1, t |-> IF Whole(res) THEN nv + 1 ELSE res.t] /\ 0 \in Widths
  BY DEF Compact, cloud, Widths
<1>2. /\ nv' = nv + 1 /\ nv' \in Versions /\ nv \in Nat /\ am' = am
      /\ \A v \in 0 .. nv : v # nv + 1 /\ tidl'[v] = tidl[v] /\ width'[v] = width[v]
      /\ PairOK(disk) => PairOK(disk)'
      /\ NewEnough(disk)' /\ OwnFiles(disk)' /\ LatestOK'
      /\ res.g # 0 => Whole(res)
  BY <1>1, Growth
<1>3. tidl'[nv + 1] = nv + 1 /\ job[nv + 1].st = "idle"
  BY <1>1, Grow
<1>4. am = "cagra" /\ res.g # 0 /\ disk["shards"] = 0 /\ \A v \in Versions : job[v].st # "commit"
  BY <1>1, TypeFacts DEF Graph
<1>5. res'.g = nv + 1 /\ res'.t = nv + 1
  BY <1>1, <1>2, <1>4
<1>6. /\ \A v \in Versions : v # nv + 1 => job'[v] = job[v]
      /\ job'[nv + 1].st = "commit" /\ job'[nv + 1].op = "keep" /\ job'[nv + 1].todo = SaveIndex /\ job'[nv + 1].t = nv + 1
  <2>1. PICK x, o, s : x = res'.t /\ o = "keep" /\ s = SaveIndex
    OBVIOUS
  <2>2. job' = [job EXCEPT ![nv + 1] = SaveJob(o, s, x)]
    BY <2>1 DEF Compact, SaveJob
  <2>3. SaveJob(o, s, x).st = "commit" /\ SaveJob(o, s, x).op = o /\ SaveJob(o, s, x).todo = s /\ SaveJob(o, s, x).t = x
    BY NewJobs
  <2>4. DOMAIN job = Versions /\ nv + 1 \in Versions
    BY <1>2 DEF TypeInv
  <2> QED
    BY <1>5, <2>1, <2>2, <2>3, <2>4
<1>7. acked \in 0 .. nv
  BY DEF TypeInv, RestOK
<1>8. ASSUME NEW v \in Versions PROVE StageOK(v)'
  <2>1. CASE v = nv + 1
    <3>1. PICK a, op, n, d : a = am' /\ op = job'[v].op /\ n = width'[v] /\ d = disk'
      OBVIOUS
    <3>2. Staged(OpsOf(a, op, n), SaveIndex, v, tidl'[v], d)
      BY <1>6, <2>1, <3>1, SaveStaged
    <3>3. Plan(v)' = OpsOf(a, op, n)
      BY <3>1 DEF Plan
    <3>4. Staged(Plan(v)', job'[v].todo, v, tidl'[v], disk')
      BY <1>6, <2>1, <3>1, <3>2, <3>3
    <3>5. job'[v].t = tidl'[v] /\ v >= acked' /\ res'.g = v /\ res'.t = tidl'[v] /\ disk'["shards"] = 0
      BY <1>1, <1>2, <1>3, <1>4, <1>5, <1>6, <1>7, <2>1
    <3> QED
      BY <3>4, <3>5 DEF StageOK
  <2>2. CASE v # nv + 1
    BY <1>4, <1>6, <2>2 DEF StageOK, Busy
  <2> QED
    BY <2>1, <2>2
<1>9. PairsOK'
  <2>1. DownloadWindow => DownloadWindow'
    BY <1>1 DEF DownloadWindow
  <2> QED
    BY <1>2, <1>4, <2>1 DEF Intact, PairsOK, TearWindow
<1>10. ResOK'
  BY <1>1, <1>2, <1>3, <1>5, <1>7 DEF ResOK, Whole
<1>11. RestoreOK'
  BY <1>1, <1>4, GrowthRestore
<1>12. OpenOK'
  BY <1>1 DEF OpenOK
<1> QED
  BY <1>2, <1>8, <1>9, <1>10, <1>11, <1>12 DEF Intact

\* The two files of a flat index carry a CRC.
LEMMA FlatTear == ASSUME TypeInv, am = "flat", NEW v \in Versions PROVE ~TearWindow(v)
<1> SUFFICES ASSUME TearWindow(v) PROVE FALSE
  OBVIOUS
<1>1. job[v].st = "commit"
  BY DEF TearWindow
<1>2. Goal(v) = "vecs" /\ PlanOK(Plan(v), job[v].op, Goal(v), width[v]) /\ Agenda(job[v].todo, Plan(v), Ranks(Plan(v)))
  BY <1>1, ThreadFacts
<1>3. \A o \in Ran(job[v].todo) : o \in Plan(v)
  BY <1>2, ElementOfSeq DEF Agenda, Ran
<1>4. "vecs" \notin ShardSet /\ \A f \in {"cagra", "ivfpq", "shards"} : f \notin {"tids", "vecs"}
  BY ShardNames
<1>5. \A f \in {"cagra", "ivfpq", "shards"} : ~Writes(job[v].todo, f)
  BY <1>2, <1>3, <1>4 DEF PlanOK, Writes
<1> QED
  BY <1>5, PendingWrites DEF TearWindow

\* While no thread commits, only a download can be between two files.
LEMMA NoCommit ==
  ASSUME TypeInv, Intact, lock = 0
  PROVE  /\ am # "flat" => \A v \in Versions : job[v].st # "commit"
         /\ \A v \in Versions : ~TearWindow(v)
         /\ PairOK(disk) \/ DownloadWindow
         /\ dl.on => am = "cagra"
<1>1. am # "flat" => \A v \in Versions : job[v].st # "commit"
  BY TypeFacts
<1>2. \A v \in Versions : ~TearWindow(v)
  BY <1>1, FlatTear DEF TearWindow
<1>3. PairOK(disk) \/ DownloadWindow
  BY <1>2 DEF Intact, PairsOK
<1>4. dl.on => am = "cagra"
  BY DEF TypeInv, DownloadOK, ManifestOK
<1> QED
  BY <1>1, <1>2, <1>3, <1>4

LEMMA BuildFailsIntact == ASSUME TypeInv, Intact, NEW v \in Versions, BuildFails(v) PROVE Intact'
<1>1. /\ UNCHANGED names /\ lock = 0 /\ res' = res /\ acked' = acked /\ dl' = dl /\ latest' = latest /\ open' = open
      /\ job' = [job EXCEPT ![v] = NoJob] /\ job[v].st = "gpu"
      /\ disk' = disk \/ (am = "cagra" /\ disk' = Unlink(disk, {"vecs"}))
  BY DEF BuildFails, cloud
<1>2. am' = am /\ nv' = nv /\ tidl' = tidl /\ width' = width
  BY <1>1 DEF names
<1>3. job'[v].st = "idle" /\ \A w \in Versions : w # v => job'[w] = job[w]
  <2>1. PICK e : e = <<>>
    OBVIOUS
  <2>2. NoJob.st = "idle"
    BY <2>1 DEF NoJob
  <2> QED
    BY <1>1, <2>2 DEF TypeInv
<1>4. /\ am # "flat" => \A w \in Versions : job[w].st # "commit"
      /\ PairOK(disk) \/ DownloadWindow
  BY <1>1, NoCommit
<1>5. disk' = disk \/ (am = "cagra" /\ \A f \in Files : disk'[f] = IF f = "vecs" THEN 0 ELSE disk[f])
  <2>1. disk \in [Files -> 0 .. nv] /\ 0 \in 0 .. nv
    BY TypeFacts
  <2>2. \A f \in Files : Unlink(disk, {"vecs"})[f] = IF f \in {"vecs"} THEN 0 ELSE disk[f]
    BY <2>1, UnlinkFacts
  <2> QED
    BY <1>1, <2>2
<1>6. \A f \in {"tids", "cagra", "ivfpq", "shards"} : disk'[f] = disk[f]
  BY <1>5, ShardNames
<1>7. disk'["vecs"] \in {0, disk["vecs"]}
  BY <1>5, ShardNames
<1>8. ASSUME NEW w \in Versions PROVE StageOK(w)'
  <2> SUFFICES ASSUME Busy(w)' PROVE StageOK(w)'
    BY DEF StageOK
  <2>1. w # v /\ job'[w] = job[w] /\ job[w].st = "commit" /\ am = "flat" /\ Busy(w)
    BY <1>2, <1>3, <1>4 DEF Busy
  <2>2. disk' = disk
    BY <1>5, <2>1
  <2>3. StageOK(w) /\ Plan(w)' = Plan(w)
    BY <1>2, <2>1 DEF Intact, Plan
  <2> QED
    BY <1>1, <1>2, <2>1, <2>2, <2>3 DEF StageOK
<1>9. PairsOK'
  BY <1>1, <1>4, <1>6, SameFiles DEF PairsOK
<1>10. NewEnough(disk)' /\ OwnFiles(disk)'
  BY <1>1, <1>6, <1>7, SameFiles DEF Intact
<1>11. ResOK' /\ LatestOK'
  BY <1>1, SameNames DEF Intact
<1>12. RestoreOK'
  <2>1. RestoreOK
    BY DEF Intact
  <2>2. \A m, s : SnapOK(m, s)' <=> SnapOK(m, s)
    BY <1>1, SameNames
  <2>3. ASSUME dl.on PROVE RestoredOK => RestoredOK'
    <3>1. PICK n : n = dl.m.n
      OBVIOUS
    <3>2. n \in Widths
      BY <2>3, <3>1 DEF TypeInv, DownloadOK, ManifestOK
    <3>3. \A o \in DownloadSet(n) : o.f \in SnapFiles(n)
      BY <3>2, DownloadSetFacts
    <3>4. SnapFiles(n) \subseteq Files /\ SnapFiles(n) \cap {"ivfpq", "vecs"} = {}
      BY <3>2, SnapFilesFacts
    <3>5. \A o \in DownloadSet(n) : disk'[o.f] = disk[o.f]
      BY <1>5, <3>3, <3>4
    <3> QED
      BY <1>1, <3>1, <3>5 DEF RestoredOK
  <2>4. (\A w \in Versions : job'[w].st # "commit") => (\A w \in Versions : job[w].st # "commit")
    BY <1>1, <1>3
  <2> QED
    BY <1>1, <1>2, <2>1, <2>2, <2>3, <2>4 DEF RestoreOK
<1>13. OpenOK'
  <2>1. OpenOK
    BY DEF Intact
  <2>2. (\E w \in Versions : job'[w].st # "idle") => (\E w \in Versions : job[w].st # "idle")
    BY <1>3
  <2> QED
    BY <1>1, <2>1, <2>2 DEF OpenOK
<1> QED
  BY <1>8, <1>9, <1>10, <1>11, <1>12, <1>13 DEF Intact

\* Nothing that a download has put is disturbed before a commit begins.
LEMMA RestoreStays ==
  ASSUME Intact, UNCHANGED names, acked' = acked, dl' = dl, \E v \in Versions : job'[v].st = "commit"
  PROVE  RestoreOK'
<1>1. RestoreOK /\ nv' = nv
  BY DEF Intact, names
<1>2. \A m, s : SnapOK(m, s)' <=> SnapOK(m, s)
  BY SameNames
<1> QED
  BY <1>1, <1>2 DEF RestoreOK

\* A commit that begins has everything left to do, but for a .vectors that could
\* not be written and is gone.
LEMMA BeginCommitIntact ==
  ASSUME TypeInv, Intact, NEW v \in Versions, NEW vok \in BOOLEAN, BeginCommit(v, vok), ~Spoiled' PROVE Intact'
<1>1. /\ UNCHANGED names /\ lock = 0 /\ res' = res /\ acked' = acked /\ dl' = dl /\ latest' = latest /\ open' = open
      /\ job[v].st = "gpu" /\ (~vok => am = "cagra")
      /\ disk' = IF vok THEN disk ELSE Unlink(disk, {"vecs"})
  BY DEF BeginCommit, cloud
<1>2. am' = am /\ nv' = nv /\ tidl' = tidl /\ width' = width
  BY <1>1 DEF names
<1>3. v = nv /\ acked \in 0 .. nv /\ nv \in Nat
  <2>1. v \in 1 .. nv /\ nv \in Nat
    <3>1. JobOK(v) /\ v \in Nat /\ v >= 1 /\ nv \in Nat
      BY TypeFacts DEF TypeInv
    <3> QED
      BY <1>1, <3>1 DEF JobOK
  <2>2. ~(v < nv)
    BY <1>1 DEF BeginCommit, Accident, Spoiled
  <2>3. acked \in 0 .. nv
    BY DEF TypeInv, RestOK
  <2> QED
    BY <2>1, <2>2, <2>3
<1>4. job[v].op = "build" /\ job[v].t = tidl[v]
  <2>1. JobOK(v)
    BY DEF TypeInv
  <2> QED
    BY <1>1, <2>1 DEF JobOK
<1>5. /\ job'[v].st = "commit" /\ job'[v].op = "build" /\ job'[v].t = tidl[v] /\ job'[v].todo = Commit(width[v], vok)
      /\ \A w \in Versions : w # v => job'[w] = job[w]
  <2>1. PICK s : s = Commit(width[v], vok)
    OBVIOUS
  <2>2. job' = [job EXCEPT ![v] = Commits(job[v], s)]
    BY <2>1 DEF BeginCommit, Commits
  <2>3. IsJob(job[v]) /\ DOMAIN job = Versions
    BY DEF TypeInv, JobOK
  <2>4. Commits(job[v], s).st = "commit" /\ Commits(job[v], s).op = job[v].op /\ Commits(job[v], s).todo = s /\ Commits(job[v], s).t = job[v].t
    BY <2>3, OldJobs
  <2> QED
    BY <1>4, <2>1, <2>2, <2>3, <2>4
<1>6. /\ am # "flat" => \A w \in Versions : job[w].st # "commit"
      /\ PairOK(disk) \/ DownloadWindow
  BY <1>1, NoCommit
<1>7. /\ vok => disk' = disk
      /\ ~vok => \A f \in Files : disk'[f] = IF f = "vecs" THEN 0 ELSE disk[f]
  <2>1. disk \in [Files -> 0 .. nv] /\ 0 \in 0 .. nv
    BY TypeFacts
  <2>2. \A f \in Files : Unlink(disk, {"vecs"})[f] = IF f \in {"vecs"} THEN 0 ELSE disk[f]
    BY <2>1, UnlinkFacts
  <2> QED
    BY <1>1, <2>2
<1>8. /\ \A f \in {"tids", "cagra", "ivfpq", "shards"} : disk'[f] = disk[f]
      /\ disk'["vecs"] \in {0, disk["vecs"]} /\ (~vok => disk'["vecs"] = 0)
  BY <1>7, ShardNames
<1>9. ASSUME NEW w \in Versions PROVE StageOK(w)'
  <2>1. CASE w = v
    <3>1. PICK a, n, d, t : a = am /\ n = width[v] /\ d = disk' /\ t = tidl[v]
      OBVIOUS
    <3>2. a \in {"cagra", "flat", "ivfpq"} /\ n \in Widths
      BY <3>1, TypeFacts
    <3>3. \A o \in OpsOf(am, "build", n) : o \in Ran(Commit(n, vok)) \/ (~vok /\ o = Try("vecs"))
      BY <1>1, <3>1, <3>2, CommitAgenda
    <3>4. ~vok => Effect(Try("vecs"), v, t, d)
      BY <1>8, <3>1 DEF Effect, Try
    <3>5. Plan(v)' = OpsOf(a, "build", n) /\ job'[v].todo = Commit(n, vok)
      BY <1>2, <1>5, <3>1 DEF Plan
    <3>6. Staged(Plan(v)', job'[v].todo, v, tidl'[v], disk')
      BY <1>2, <3>1, <3>3, <3>4, <3>5 DEF Staged
    <3>7. job'[v].t = tidl'[v] /\ v >= acked'
      BY <1>1, <1>2, <1>3, <1>5
    <3> QED
      BY <1>5, <2>1, <3>6, <3>7 DEF StageOK
  <2>2. CASE w # v
    <3>1. job'[w] = job[w]
      BY <1>5, <2>2
    <3>2. am = "flat" => w # nv
      BY <1>3, <2>2
    <3> QED
      BY <1>2, <1>6, <3>1, <3>2 DEF StageOK, Busy
  <2> QED
    BY <2>1, <2>2
<1>10. PairsOK'
  BY <1>1, <1>6, <1>8, SameFiles DEF PairsOK
<1>11. NewEnough(disk)' /\ OwnFiles(disk)'
  BY <1>1, <1>8, SameFiles DEF Intact
<1>12. ResOK' /\ LatestOK'
  BY <1>1, SameNames DEF Intact
<1>13. RestoreOK'
  BY <1>1, <1>5, RestoreStays
<1>14. OpenOK'
  <2>1. OpenOK /\ job[v].st # "idle"
    BY <1>1 DEF Intact
  <2> QED
    BY <1>1, <2>1 DEF OpenOK
<1> QED
  BY <1>9, <1>10, <1>11, <1>12, <1>13, <1>14 DEF Intact

\* The entry goes, or is saved by a thread of its own.
LEMMA EvictIntact == ASSUME TypeInv, Intact, Evict, ~Spoiled' PROVE Intact'
<1>1. /\ UNCHANGED names /\ lock = 0 /\ disk' = disk /\ acked' = acked /\ dl' = dl /\ latest' = latest /\ res.g # 0
  BY DEF Evict, cloud
<1>2. am' = am /\ nv' = nv /\ tidl' = tidl /\ width' = width
  BY <1>1 DEF names
<1>3. /\ am # "flat" => \A w \in Versions : job[w].st # "commit"
      /\ PairOK(disk) \/ DownloadWindow
  BY <1>1, NoCommit
<1>4. NewEnough(disk)' /\ OwnFiles(disk)' /\ LatestOK' /\ PairsOK'
  <2>1. \A f \in {"tids", "cagra", "ivfpq", "shards"} : disk'[f] = disk[f]
    BY <1>1
  <2> QED
    BY <1>1, <1>3, <2>1, SameFiles, SameNames DEF Intact, PairsOK
<1>5. CASE ~Graph
  <2>1. res' = NoEntry /\ job' = job /\ lock' = lock /\ open' = open
    BY <1>5 DEF Evict
  <2>2. ResOK'
    BY <2>1 DEF ResOK, NoEntry
  <2>3. ASSUME NEW v \in Versions PROVE StageOK(v)'
    <3> SUFFICES ASSUME Busy(v)' PROVE StageOK(v)'
      BY DEF StageOK
    <3>1. job[v].st = "commit" /\ am = "flat" /\ Busy(v)
      BY <1>2, <1>3, <2>1 DEF Busy
    <3>2. job[v].op = "build"
      BY <3>1, ThreadFacts
    <3>3. StageOK(v) /\ Plan(v)' = Plan(v)
      BY <1>2, <2>1 DEF Intact, Plan
    <3> QED
      BY <1>1, <1>2, <2>1, <3>1, <3>2, <3>3 DEF StageOK
  <2>4. OpenOK'
    BY <1>1, <2>1 DEF Intact, OpenOK
  <2>5. RestoreOK'
    <3>1. RestoreOK
      BY DEF Intact
    <3>2. \A m, s : SnapOK(m, s)' <=> SnapOK(m, s)
      BY <1>1, SameNames
    <3>3. RestoredOK => RestoredOK'
      BY <1>1 DEF RestoredOK
    <3> QED
      BY <1>1, <1>2, <2>1, <3>1, <3>2, <3>3 DEF RestoreOK
  <2> QED
    BY <1>4, <2>2, <2>3, <2>4, <2>5 DEF Intact
<1>6. CASE Graph
  <2>1. res' = res /\ open' = TRUE /\ job[res.g].st = "idle" /\ am = "cagra" /\ disk["shards"] = 0
    BY <1>6 DEF Evict, Graph
  <2>2. PICK v : v = res.g
    OBVIOUS
  <2>3. v = nv /\ v \in Versions
    <3>1. v \in 0 .. nv /\ v # 0 /\ nv \in Nat
      BY <1>1, <2>2, TypeFacts DEF TypeInv, RestOK
    <3>2. v \in Versions
      BY <3>1, TypeFacts
    <3>3. ~(v < nv)
      BY <1>6, <2>1, <2>2 DEF Evict, Accident, Spoiled
    <3> QED
      BY <3>1, <3>2, <3>3
  <2>4. /\ job'[v].st = "commit" /\ job'[v].op = "evict" /\ job'[v].todo = SaveIndex /\ job'[v].t = res.t
        /\ \A w \in Versions : w # v => job'[w] = job[w]
    <3>1. PICK x, o, s : x = res.t /\ o = "evict" /\ s = SaveIndex
      OBVIOUS
    <3>2. job' = [job EXCEPT ![v] = SaveJob(o, s, x)]
      BY <1>6, <2>2, <3>1 DEF Evict, SaveJob
    <3>3. SaveJob(o, s, x).st = "commit" /\ SaveJob(o, s, x).op = o /\ SaveJob(o, s, x).todo = s /\ SaveJob(o, s, x).t = x
      BY NewJobs
    <3>4. DOMAIN job = Versions
      BY DEF TypeInv
    <3> QED
      BY <2>3, <3>1, <3>2, <3>3, <3>4
  <2>5. ResOK' /\ res.t = tidl[v] /\ v >= acked
    BY <1>1, <2>1, <2>2, SameNames DEF Intact, ResOK, Whole
  <2>6. ASSUME NEW w \in Versions PROVE StageOK(w)'
    <3>1. CASE w = v
      <4>1. PICK a, op, n, d : a = am' /\ op = job'[v].op /\ n = width'[v] /\ d = disk'
        OBVIOUS
      <4>2. Staged(OpsOf(a, op, n), SaveIndex, v, tidl'[v], d)
        BY <2>4, <4>1, SaveStaged
      <4>3. Plan(v)' = OpsOf(a, op, n)
        BY <4>1 DEF Plan
      <4>4. Staged(Plan(v)', job'[v].todo, v, tidl'[v], disk')
        BY <2>4, <4>1, <4>2, <4>3
      <4>5. job'[v].t = tidl'[v] /\ v >= acked' /\ res'.g = v /\ res'.t = tidl'[v] /\ disk'["shards"] = 0
        BY <1>1, <1>2, <2>1, <2>2, <2>4, <2>5
      <4> QED
        BY <3>1, <4>4, <4>5 DEF StageOK
    <3>2. CASE w # v
      BY <1>3, <2>1, <2>4, <3>2 DEF StageOK, Busy
    <3> QED
      BY <3>1, <3>2
  <2>7. RestoreOK'
    BY <1>1, <2>3, <2>4, RestoreStays
  <2>8. OpenOK'
    BY <2>1 DEF OpenOK
  <2> QED
    BY <1>4, <2>5, <2>6, <2>7, <2>8 DEF Intact
<1> QED
  BY <1>5, <1>6

\* What a search finds is whole: no thread and no download is between two files.
LEMMA SearchMissIntact == ASSUME TypeInv, Intact, SearchMiss, ~Spoiled' PROVE Intact'
<1>1. /\ UNCHANGED names /\ lock = 0 /\ disk' = disk /\ acked' = acked /\ dl' = dl /\ latest' = latest /\ job' = job /\ open' = open
      /\ res.g = 0
  BY DEF SearchMiss
<1>2. am' = am /\ nv' = nv /\ tidl' = tidl /\ width' = width
  BY <1>1 DEF names
<1>3. /\ am # "flat" => \A w \in Versions : job[w].st # "commit"
      /\ PairOK(disk) \/ DownloadWindow
  BY <1>1, NoCommit
<1>4. NewEnough(disk)' /\ OwnFiles(disk)' /\ LatestOK' /\ PairsOK'
  <2>1. \A f \in {"tids", "cagra", "ivfpq", "shards"} : disk'[f] = disk[f]
    BY <1>1
  <2> QED
    BY <1>1, <1>3, <2>1, SameFiles, SameNames DEF Intact, PairsOK
<1>5. ResOK'
  <2>1. CASE res' = res
    BY <1>1, <2>1, SameNames DEF Intact
  <2>2. CASE res' # res
    <3>1. res' = Served(disk) /\ ~DownloadWindow
      BY <2>2 DEF SearchMiss, Spoiled
    <3>2. PICK z : z = Served(disk)
      OBVIOUS
    <3>3. z.g # 0 => Whole(z) /\ z.g >= acked
      BY <1>3, <3>1, <3>2, ServedOK DEF Intact
    <3> QED
      BY <1>1, <1>2, <3>1, <3>2, <3>3 DEF ResOK, Whole
  <2> QED
    BY <2>1, <2>2
<1>6. ASSUME NEW v \in Versions PROVE StageOK(v)'
  <2> SUFFICES ASSUME Busy(v)' PROVE StageOK(v)'
    BY DEF StageOK
  <2>1. job[v].st = "commit" /\ am = "flat" /\ Busy(v)
    BY <1>1, <1>2, <1>3 DEF Busy
  <2>2. job[v].op = "build"
    BY <2>1, ThreadFacts
  <2>3. StageOK(v) /\ Plan(v)' = Plan(v)
    BY <1>1, <1>2 DEF Intact, Plan
  <2> QED
    BY <1>1, <1>2, <2>1, <2>2, <2>3 DEF StageOK
<1>7. OpenOK'
  BY <1>1 DEF Intact, OpenOK
<1>8. RestoreOK'
  <2>1. RestoreOK
    BY DEF Intact
  <2>2. \A m, s : SnapOK(m, s)' <=> SnapOK(m, s)
    BY <1>1, SameNames
  <2>3. RestoredOK => RestoredOK'
    BY <1>1 DEF RestoredOK
  <2> QED
    BY <1>1, <1>2, <2>1, <2>2, <2>3 DEF RestoreOK
<1> QED
  BY <1>4, <1>5, <1>6, <1>7, <1>8 DEF Intact

LEMMA NoDownloadOff == ~NoDownload.on
<1>1. PICK e, x : e = <<>> /\ x = NoManifest
  OBVIOUS
<1>2. NoDownload = [on |-> FALSE, todo |-> e, m |-> x]
  BY <1>1 DEF NoDownload
<1> QED
  BY <1>2

LEMMA NoJobIdle == NoJob.st = "idle"
<1>1. PICK e : e = <<>>
  OBVIOUS
<1> QED
  BY <1>1 DEF NoJob

\* The daemon restarts outside the windows, so what it loads is whole.
LEMMA CrashIntact == ASSUME TypeInv, Intact, Crash, ~Spoiled' PROVE Intact'
<1>1. /\ UNCHANGED names /\ disk' = disk /\ acked' = acked /\ dl' = NoDownload /\ latest' = latest
      /\ job' = [v \in Versions |-> NoJob] /\ res' = Served(disk)
  BY DEF Crash
<1>2. am' = am /\ nv' = nv /\ tidl' = tidl /\ width' = width
  BY <1>1 DEF names
<1>3. ~DownloadWindow /\ \A v \in Versions : ~TearWindow(v)
  BY DEF Crash, Spoiled
<1>4. PairOK(disk)
  BY <1>3 DEF Intact, PairsOK
<1>5. ~dl'.on /\ \A v \in Versions : job'[v].st = "idle"
  BY <1>1, NoDownloadOff, NoJobIdle
<1>6. NewEnough(disk)' /\ OwnFiles(disk)' /\ LatestOK' /\ PairsOK'
  <2>1. \A f \in {"tids", "cagra", "ivfpq", "shards"} : disk'[f] = disk[f]
    BY <1>1
  <2> QED
    BY <1>1, <1>4, <2>1, SameFiles, SameNames DEF Intact, PairsOK
<1>7. ResOK'
  <2>1. PICK z : z = Served(disk)
    OBVIOUS
  <2>2. z.g # 0 => Whole(z) /\ z.g >= acked
    BY <1>4, <2>1, ServedOK DEF Intact
  <2> QED
    BY <1>1, <1>2, <2>1, <2>2 DEF ResOK, Whole
<1>8. (\A v \in Versions : StageOK(v)') /\ OpenOK' /\ RestoreOK'
  BY <1>5 DEF StageOK, Busy, OpenOK, RestoreOK
<1> QED
  BY <1>6, <1>7, <1>8 DEF Intact

\* A download begins with a snapshot that is not older than what was confirmed.
LEMMA StartDownloadIntact == ASSUME TypeInv, Intact, StartDownload, ~Spoiled' PROVE Intact'
<1>1. /\ UNCHANGED names /\ disk' = disk /\ res' = res /\ acked' = acked /\ latest' = latest /\ job' = job /\ ~dl.on
  BY DEF StartDownload, files
<1>2. am' = am /\ nv' = nv /\ tidl' = tidl /\ width' = width
  BY <1>1 DEF names
<1>3. /\ \A v \in Versions : StageOK(v)'
      /\ NewEnough(disk)' /\ OwnFiles(disk)' /\ ResOK' /\ PairsOK'
  BY <1>1, StageStays
<1>4. LatestOK'
  BY <1>1, SameNames DEF Intact
<1>5. CASE latest = NoManifest
  <2>1. dl' = dl /\ open' = open
    BY <1>5 DEF StartDownload
  <2>2. RestoreOK' /\ OpenOK'
    BY <1>1, <2>1, StageStays
  <2> QED
    BY <1>3, <1>4, <2>2 DEF Intact
<1>6. CASE latest # NoManifest
  <2>1. dl' = [on |-> TRUE, todo |-> DownloadOps(latest), m |-> latest] /\ open' = TRUE /\ ~(SnapshotVersion(latest) < acked)
    BY <1>6 DEF StartDownload, Spoiled
  <2>2. PICK m, s : m = latest /\ s = DownloadOps(latest)
    OBVIOUS
  <2>3. dl'.todo = s /\ dl'.m = m
    BY <2>1, <2>2
  <2>4. PICK v \in 1 .. nv : SnapOK(m, v)
    BY <1>6, <2>2 DEF Intact, LatestOK
  <2>5. m.n \in Widths
    BY <1>6, <2>2 DEF TypeInv, ManifestOK
  <2>6. v >= acked
    <3>1. Main(m.n) \in SnapFiles(m.n) /\ Main(m.n) \in Files /\ Main(m.n) # "tids"
      BY <2>5, SnapFilesFacts
    <3>2. m.obj[Main(m.n)] = v
      BY <2>4, <3>1 DEF SnapOK, Content
    <3>3. SnapshotVersion(m) = v
      BY <3>2 DEF SnapshotVersion, Main
    <3>4. v \in Nat /\ acked \in Nat
      BY TypeFacts DEF TypeInv, RestOK
    <3> QED
      BY <2>1, <2>2, <3>3, <3>4
  <2>7. RestoredOK'
    <3>1. \A o \in DownloadSet(m.n) : o \in Ran(DownloadOps(m))
      BY <2>5, DownloadAgenda
    <3> QED
      BY <2>2, <2>3, <3>1 DEF RestoredOK
  <2>8. SnapOK(m, v)'
    BY <1>1, <2>4, SameNames
  <2>9. RestoreOK'
    BY <1>1, <1>2, <2>3, <2>4, <2>6, <2>7, <2>8 DEF RestoreOK
  <2>10. OpenOK'
    BY <2>1 DEF OpenOK
  <2> QED
    BY <1>3, <1>4, <2>9, <2>10 DEF Intact
<1> QED
  BY <1>5, <1>6

\* A thread that touches files without an accident is alone.
LEMMA BusyOnly ==
  ASSUME TypeInv, NEW v \in Versions, job[v].st = "commit", Accident(v) \subseteq why', ~Spoiled'
  PROVE  ~dl.on /\ Busy(v) /\ \A w \in Versions : w # v => ~Busy(w) /\ ~TearWindow(w)
<1>1. Accident(v) \subseteq {"twin"}
  BY DEF Spoiled
<1>2. ~dl.on /\ ~(v < nv /\ am = "flat")
  BY <1>1 DEF Accident
<1>3. v \in 1 .. nv /\ nv \in Nat /\ (am # "flat" => \A w \in Versions : job[w].st = "commit" => w = v)
  BY TypeFacts, ThreadFacts
<1>4. Busy(v)
  BY <1>2, <1>3 DEF Busy
<1>5. ASSUME NEW w \in Versions, w # v PROVE ~Busy(w) /\ ~TearWindow(w)
  <2>1. CASE am = "flat"
    <3>1. ~Busy(w)
      BY <1>2, <1>3, <1>5, <2>1 DEF Busy
    <3> QED
      BY <2>1, <3>1, FlatTear
  <2>2. CASE am # "flat"
    BY <1>3, <1>5, <2>2 DEF Busy, TearWindow
  <2> QED
    BY <2>1, <2>2
<1> QED
  BY <1>2, <1>4, <1>5

\* The files after an operation of a commit.
LEMMA StepFiles ==
  ASSUME TypeInv, NEW v \in Versions, job[v].st = "commit", job[v].todo # <<>>, NEW q, q = Head(job[v].todo),
         NEW t, t = job[v].t, disk' = Apply(disk, q, Content(v, t))
  PROVE  /\ q.do \in {"put", "try"} => q.f \in Files /\ \A f \in Files : disk'[f] = IF f # q.f THEN disk[f] ELSE IF f = "tids" THEN t ELSE v
         /\ q.do = "del" => \A f \in Files : disk'[f] = IF f = q.f THEN 0 ELSE disk[f]
         /\ q.do = "sweep" => \A f \in {"tids", "cagra", "ivfpq", "shards", "vecs"} : disk'[f] = disk[f]
         /\ q.do = "try" => q.f = "vecs"
         /\ \A o \in Plan(v) : o = q \/ Effect(o, v, t, disk) => Effect(o, v, t, disk')
<1>1. /\ OpShape(Plan(v)) /\ Agenda(job[v].todo, Plan(v), Ranks(Plan(v))) /\ v \in 0 .. nv /\ 0 \in 0 .. nv
      /\ disk \in [Files -> 0 .. nv] /\ job[v].t \in 0 .. nv
  <2>1. v \in 1 .. nv /\ nv \in Nat /\ disk \in [Files -> 0 .. nv]
    BY TypeFacts, ThreadFacts
  <2>2. job[v].t \in 0 .. nv
    BY DEF TypeInv, JobOK
  <2> QED
    BY <2>1, <2>2, ThreadFacts
<1>2. PICK O, d, S, c : O = Plan(v) /\ d = disk /\ S = 0 .. nv /\ c = Content(v, t)
  OBVIOUS
<1>3. c \in [Files -> S] /\ \A f \in Files : c[f] = IF f = "tids" THEN t ELSE v
  BY <1>1, <1>2 DEF Content
<1>4. q \in O
  <2>1. Ranks(O) \in [O -> Nat] /\ Agenda(job[v].todo, O, Ranks(O))
    BY <1>1, <1>2, RanksType
  <2> QED
    BY <2>1, AgendaTail
<1>5. 0 \in S /\ OpShape(O) /\ d \in [Files -> S] /\ v \in S /\ t \in S
  BY <1>1, <1>2
<1>6. /\ q.do \in {"put", "try"} => \A f \in Files : Apply(d, q, c)[f] = IF f = q.f THEN c[f] ELSE d[f]
      /\ q.do = "del" => \A f \in Files : Apply(d, q, c)[f] = IF f = q.f THEN 0 ELSE d[f]
      /\ q.do = "sweep" => \A f \in Files : f \notin {ShardFiles[i] : i \in q.f + 1 .. Len(ShardFiles)} => Apply(d, q, c)[f] = d[f]
  BY <1>3, <1>4, <1>5, ApplyFacts
<1>7. disk' = Apply(d, q, c)
  BY <1>2
<1>8. q.do = "sweep" => \A f \in {"tids", "cagra", "ivfpq", "shards", "vecs"} : disk'[f] = disk[f]
  <2> SUFFICES ASSUME q.do = "sweep", NEW f \in {"tids", "cagra", "ivfpq", "shards", "vecs"} PROVE disk'[f] = disk[f]
    OBVIOUS
  <2>1. q.f \in 0 .. Len(ShardFiles) /\ Len(ShardFiles) \in Nat
    BY <1>4, <1>5, ShardNames DEF OpShape
  <2>2. \A i \in q.f + 1 .. Len(ShardFiles) : f # ShardFiles[i]
    BY <2>1, ShardNames
  <2>3. f \in Files
    BY ShardNames
  <2> QED
    BY <1>2, <1>6, <1>7, <2>2, <2>3
<1>9. (q.do \in {"put", "try"} => q.f \in Files) /\ (q.do = "try" => q.f = "vecs")
  BY <1>4, <1>5 DEF OpShape
<1>10. ASSUME NEW o \in O, o = q \/ Effect(o, v, t, d) PROVE Effect(o, v, t, Apply(d, q, Content(v, t)))
  BY <1>4, <1>5, <1>10, EffectKept
<1> QED
  BY <1>2, <1>3, <1>6, <1>7, <1>8, <1>9, <1>10

\* What thread v is about, in one place.
Thread(v, O, T, op, n, t, s) ==
  O = Plan(v) /\ T = Goal(v) /\ op = job[v].op /\ n = width[v] /\ t = tidl[v] /\ s = job[v].todo

LEMMA StepFacts ==
  ASSUME TypeInv, Intact, NEW v \in Versions, job[v].st = "commit", Accident(v) \subseteq why', ~Spoiled',
         NEW O, NEW T, NEW op, NEW n, NEW t, NEW s, Thread(v, O, T, op, n, t, s)
  PROVE  /\ ~dl.on /\ Busy(v) /\ \A w \in Versions : w # v => ~Busy(w) /\ ~TearWindow(w)
         /\ Course(O, op, T, n, s) /\ PlanOK(O, op, T, n) /\ OpShape(O) /\ n \in Widths
         /\ T \in {"cagra", "shards", "ivfpq", "vecs"}
         /\ am = "cagra" <=> T \in {"cagra", "shards"}
         /\ am = "flat" <=> T = "vecs"
         /\ am = "ivfpq" <=> T = "ivfpq"
         /\ job[v].t = t /\ v >= acked /\ v # 0 /\ v \in 1 .. nv
         /\ Staged(O, s, v, t, disk)
         /\ op # "build" => res.g = v /\ res.t = t /\ disk["shards"] = 0
<1>1. ~dl.on /\ Busy(v) /\ \A w \in Versions : w # v => ~Busy(w) /\ ~TearWindow(w)
  BY BusyOnly
<1>2. StageOK(v)
  BY DEF Intact
<1>3. /\ job[v].t = tidl[v] /\ v >= acked /\ Staged(Plan(v), job[v].todo, v, tidl[v], disk)
      /\ job[v].op # "build" => res.g = v /\ res.t = tidl[v] /\ disk["shards"] = 0
  BY <1>1, <1>2 DEF StageOK
<1>4. /\ PlanOK(Plan(v), job[v].op, Goal(v), width[v]) /\ OpShape(Plan(v))
      /\ Agenda(job[v].todo, Plan(v), Ranks(Plan(v)))
      /\ am = "cagra" <=> Goal(v) \in {"cagra", "shards"}
      /\ am = "flat" <=> Goal(v) = "vecs"
      /\ am = "ivfpq" <=> Goal(v) = "ivfpq"
      /\ Goal(v) \in {"cagra", "shards", "ivfpq", "vecs"} /\ width[v] \in Widths /\ v # 0 /\ v \in 1 .. nv
  BY ThreadFacts
<1> QED
  BY <1>1, <1>3, <1>4 DEF Thread, Course

\* No thread of another version disturbs the stage of thread v.
LEMMA StageOfOthers ==
  ASSUME UNCHANGED names, NEW v \in Versions, \A w \in Versions : w # v => ~Busy(w) /\ job'[w] = job[w]
  PROVE  \A w \in Versions : w # v => StageOK(w)'
BY DEF StageOK, Busy, names

\* A file that is put is of version v, and every other is as it was or gone.
LEMMA CommitFiles ==
  ASSUME TypeInv, Intact, NEW v \in Versions, CommitStep(v), ~Spoiled',
         NEW O, NEW T, NEW op, NEW n, NEW t, NEW s, Thread(v, O, T, op, n, t, s), NEW q, NEW r, First(s, q, r)
  PROVE  /\ Staged(O, r, v, t, disk')
         /\ ~Writes(r, "tids") => disk'["tids"] = t
         /\ ~Writes(r, T) => disk'[T] = v
         /\ \A f \in {"cagra", "ivfpq", "shards", "vecs"} : disk'[f] \in {0, v, disk[f]}
         /\ am # "cagra" => disk'["cagra"] \in {0, disk["cagra"]} /\ disk'["shards"] = disk["shards"]
         /\ am # "ivfpq" => disk'["ivfpq"] = disk["ivfpq"]
         /\ am = "ivfpq" => disk'["vecs"] = disk["vecs"]
         /\ op # "build" => disk'["shards"] = disk["shards"]
         /\ disk["cagra"] # 0 => disk'["cagra"] # 0 \/ am # "cagra" \/ disk'["vecs"] \in {0, v}
         /\ ~(q.do = "put" /\ q.f \in {"tids", T}) /\ q.do # "del" =>
              \A f \in {"tids", "cagra", "ivfpq", "shards"} : disk'[f] = disk[f] /\ (Writes(r, f) <=> Writes(s, f))
<1>1. job[v].st = "commit" /\ s # <<>> /\ disk' = Apply(disk, q, Content(v, job[v].t)) /\ Accident(v) \subseteq why'
  BY DEF CommitStep, Thread, First
<1>2. /\ Course(O, op, T, n, s) /\ PlanOK(O, op, T, n) /\ OpShape(O) /\ n \in Widths
      /\ T \in {"cagra", "shards", "ivfpq", "vecs"}
      /\ am = "cagra" <=> T \in {"cagra", "shards"}
      /\ am = "flat" <=> T = "vecs"
      /\ am = "ivfpq" <=> T = "ivfpq"
      /\ job[v].t = t /\ v # 0 /\ Staged(O, s, v, t, disk)
  BY <1>1, StepFacts
<1>3. /\ q \in O /\ Ran(s) = {q} \cup Ran(r)
      /\ q.do \in {"put", "try", "del", "sweep"}
      /\ q.do = "del" => \A o \in Ran(s) : o.do # "try"
  BY <1>2, AgendaOrder
<1>4. /\ q.do \in {"put", "try"} => q.f \in Files /\ \A f \in Files : disk'[f] = IF f # q.f THEN disk[f] ELSE IF f = "tids" THEN t ELSE v
      /\ q.do = "del" => \A f \in Files : disk'[f] = IF f = q.f THEN 0 ELSE disk[f]
      /\ q.do = "sweep" => \A f \in {"tids", "cagra", "ivfpq", "shards", "vecs"} : disk'[f] = disk[f]
      /\ q.do = "try" => q.f = "vecs"
      /\ \A o \in O : o = q \/ Effect(o, v, t, disk) => Effect(o, v, t, disk')
  BY <1>1, <1>2, StepFiles DEF Thread, First
<1>5. Staged(O, r, v, t, disk')
  BY <1>2, <1>3, <1>4 DEF Staged
<1>6. /\ ~Writes(r, "tids") => disk'["tids"] = t
      /\ ~Writes(r, T) => disk'[T] = v
      /\ (\A o \in Ran(r) : o.do # "try") /\ T \in {"cagra", "shards"} /\ op = "build" => disk'["vecs"] \in {0, v}
  BY <1>2, <1>5, StagedFiles
<1>7. /\ q.do = "put" => q.f \in {"tids", T} \/ (T = "shards" /\ q.f \in ShardSet)
      /\ q.do = "del" => q.f = IF T = "cagra" THEN "shards" ELSE "cagra"
      /\ op # "build" => T = "cagra" /\ q.do = "put"
      /\ T = "vecs" => q.do = "put"
      /\ T = "ivfpq" => q.do # "try"
  BY <1>2, <1>3 DEF PlanOK
<1>8. /\ {"tids", "cagra", "ivfpq", "shards", "vecs"} \subseteq Files
      /\ \A f \in {"tids", "cagra", "ivfpq", "shards", "vecs"} : f \notin ShardSet
  BY ShardNames
<1>9. \A f \in {"cagra", "ivfpq", "shards", "vecs"} : disk'[f] \in {0, v, disk[f]}
  BY <1>3, <1>4, <1>8
<1>10. am # "cagra" => disk'["cagra"] \in {0, disk["cagra"]} /\ disk'["shards"] = disk["shards"]
  BY <1>2, <1>3, <1>4, <1>7, <1>8
<1>11. (am # "ivfpq" => disk'["ivfpq"] = disk["ivfpq"]) /\ (am = "ivfpq" => disk'["vecs"] = disk["vecs"])
  BY <1>2, <1>3, <1>4, <1>7, <1>8
<1>12. op # "build" => disk'["shards"] = disk["shards"]
  BY <1>2, <1>3, <1>4, <1>7, <1>8
<1>13. disk["cagra"] # 0 => disk'["cagra"] # 0 \/ am # "cagra" \/ disk'["vecs"] \in {0, v}
  <2> SUFFICES ASSUME disk["cagra"] # 0, disk'["cagra"] = 0, am = "cagra" PROVE disk'["vecs"] \in {0, v}
    OBVIOUS
  <2>1. q.do = "del" /\ T # "cagra"
    BY <1>2, <1>3, <1>4, <1>7, <1>8
  <2>2. op = "build" /\ T = "shards"
    BY <1>2, <1>7, <2>1
  <2>3. \A o \in Ran(r) : o.do # "try"
    BY <1>3, <2>1
  <2> QED
    BY <1>6, <2>2, <2>3
<1>14. ASSUME ~(q.do = "put" /\ q.f \in {"tids", T}), q.do # "del", NEW f \in {"tids", "cagra", "ivfpq", "shards"}
       PROVE  disk'[f] = disk[f] /\ (Writes(r, f) <=> Writes(s, f))
  <2>1. q.do = "put" => q.f \in ShardSet
    BY <1>7, <1>14
  <2>2. disk'[f] = disk[f]
    BY <1>3, <1>4, <1>8, <1>14, <2>1
  <2>3. ~(q.do = "put" /\ q.f = f)
    BY <1>8, <2>1
  <2> QED
    BY <1>3, <2>2, <2>3 DEF Writes
<1> QED
  BY <1>5, <1>6, <1>9, <1>10, <1>11, <1>12, <1>13, <1>14

\* Between two operations the pair of graph and .tids fits, or is in the window.
LEMMA CommitPairs ==
  ASSUME TypeInv, Intact, NEW v \in Versions, CommitStep(v), ~Spoiled', OwnFiles(disk)', job'[v].todo = Tail(job[v].todo), job'[v].st = "commit"
  PROVE  PairsOK'
<1>1. PICK O, T, op, n, t, s : Thread(v, O, T, op, n, t, s)
  BY DEF Thread
<1>2. PICK q, r : q = Head(s) /\ r = Tail(s)
  OBVIOUS
<1>3. /\ s # <<>> /\ First(s, q, r) /\ job[v].st = "commit" /\ Accident(v) \subseteq why'
      /\ UNCHANGED names /\ dl' = dl /\ acked' = acked /\ s = job[v].todo /\ job'[v].todo = r
  BY <1>1, <1>2 DEF CommitStep, Thread, First, cloud
<1>4. am' = am /\ tidl' = tidl
  BY <1>3 DEF names
<1>5. /\ ~dl.on /\ \A w \in Versions : w # v => ~TearWindow(w)
      /\ Course(O, op, T, n, s)
      /\ T \in {"cagra", "shards", "ivfpq", "vecs"}
      /\ am = "cagra" <=> T \in {"cagra", "shards"}
      /\ am = "flat" <=> T = "vecs"
      /\ am = "ivfpq" <=> T = "ivfpq"
      /\ v # 0 /\ t = tidl[v]
  BY <1>1, <1>3, StepFacts DEF Thread
<1>6. /\ Ran(s) = {q} \cup Ran(r)
      /\ q.do = "put" => ~Writes(r, q.f)
      /\ q.do = "put" /\ q.f = "tids" /\ T # "vecs" => Writes(r, T)
      /\ q.do = "put" /\ q.f = T /\ T # "vecs" => ~Writes(s, "tids")
      /\ q.do # "put" => \A f : ~Writes(s, f)
  BY <1>3, <1>5, AgendaOrder
<1>7. /\ ~Writes(r, "tids") => disk'["tids"] = t
      /\ ~Writes(r, T) => disk'[T] = v
      /\ ~(q.do = "put" /\ q.f \in {"tids", T}) /\ q.do # "del" =>
           \A f \in {"tids", "cagra", "ivfpq", "shards"} : disk'[f] = disk[f] /\ (Writes(r, f) <=> Writes(s, f))
  BY <1>1, <1>3, CommitFiles
<1>8. \A f : Writes(r, f) => Writes(s, f)
  BY <1>6 DEF Writes
<1>9. /\ am # "cagra" => disk'["cagra"] = 0 /\ disk'["shards"] = 0
      /\ am # "ivfpq" => disk'["ivfpq"] = 0
  BY <1>4 DEF OwnFiles
<1>10. CASE T = "vecs"
  BY <1>5, <1>9, <1>10 DEF PairsOK, PairOK
<1>11. CASE T # "vecs" /\ ~Writes(r, "tids") /\ ~Writes(r, T)
  <2>1. disk'["tids"] = t /\ disk'[T] = v
    BY <1>7, <1>11
  <2>2. CASE T = "shards"
    BY <1>5, <2>1, <2>2 DEF PairsOK, PairOK
  <2>3. CASE T \in {"cagra", "ivfpq"}
    <3>1. \A f \in {"cagra", "ivfpq"} : disk'[f] \in {0, v}
      BY <1>5, <1>9, <2>1, <2>3
    <3> QED
      BY <1>4, <1>5, <2>1, <3>1 DEF PairsOK, PairOK
  <2> QED
    BY <1>5, <1>11, <2>2, <2>3
<1>12. CASE T # "vecs" /\ q.do = "put" /\ q.f = "tids"
  <2>1. Writes(r, T) /\ ~Writes(r, "tids")
    BY <1>6, <1>12
  <2>2. disk'[IF T = "ivfpq" THEN "ivfpq" ELSE "cagra"] # 0 => TearWindow(v)'
    BY <1>3, <1>5, <1>12, <2>1, PendingWrites DEF TearWindow
  <2>3. ASSUME disk'[IF T = "ivfpq" THEN "ivfpq" ELSE "cagra"] = 0 PROVE PairOK(disk)'
    BY <1>5, <1>9, <1>12, <2>3 DEF PairOK
  <2> QED
    BY <2>2, <2>3 DEF PairsOK
<1>13. CASE ~(q.do = "put" /\ q.f \in {"tids", T}) /\ q.do # "del"
  <2>1. \A f \in {"tids", "cagra", "ivfpq", "shards"} : disk'[f] = disk[f] /\ (Writes(r, f) <=> Writes(s, f))
    BY <1>7, <1>13
  <2>2. PairOK(disk) => PairOK(disk)'
    BY <1>3, <2>1, SameFiles
  <2>3. TearWindow(v) => TearWindow(v)'
    <3>1. \A f \in {"tids", "cagra", "ivfpq", "shards"} : Pending(job'[v].todo, {f}) <=> Pending(job[v].todo, {f})
      BY <1>3, <2>1, PendingWrites
    <3> QED
      BY <1>3, <2>1, <3>1 DEF TearWindow
  <2>4. ~DownloadWindow
    BY <1>5 DEF DownloadWindow
  <2> QED
    BY <1>5, <2>2, <2>3, <2>4 DEF Intact, PairsOK
<1>14. CASE T # "vecs" /\ ((q.do = "put" /\ q.f = T) \/ q.do = "del")
  <2>1. ~Writes(r, "tids") /\ ~Writes(r, T)
    BY <1>6, <1>8, <1>14
  <2> QED
    BY <1>11, <1>14, <2>1
<1> QED
  BY <1>10, <1>12, <1>13, <1>14

LEMMA CommitStepIntact == ASSUME TypeInv, Intact, NEW v \in Versions, CommitStep(v), ~Spoiled' PROVE Intact'
<1>1. PICK O, T, op, n, t, s : Thread(v, O, T, op, n, t, s)
  BY DEF Thread
<1>2. PICK q, r : q = Head(s) /\ r = Tail(s)
  OBVIOUS
<1>3. /\ s # <<>> /\ First(s, q, r) /\ job[v].st = "commit" /\ Accident(v) \subseteq why'
      /\ UNCHANGED names /\ dl' = dl /\ acked' = acked /\ s = job[v].todo /\ open' = open /\ res' = res /\ latest' = latest
  BY <1>1, <1>2 DEF CommitStep, Thread, First, cloud
<1>4. am' = am /\ tidl' = tidl /\ nv' = nv /\ width' = width
  BY <1>3 DEF names
<1>5. /\ ~dl.on /\ (\A w \in Versions : w # v => ~Busy(w))
      /\ job[v].t = t /\ v >= acked /\ v # 0
      /\ op # "build" => res.g = v /\ res.t = t /\ disk["shards"] = 0
      /\ t = tidl[v] /\ O = Plan(v) /\ op = job[v].op
  BY <1>1, <1>3, StepFacts DEF Thread
<1>6. /\ job'[v].st = "commit" /\ job'[v].op = op /\ job'[v].t = t /\ job'[v].todo = r
      /\ \A w \in Versions : w # v => job'[w] = job[w]
  <2>1. job' = [job EXCEPT ![v] = GoesOn(job[v], r)]
    BY <1>2, <1>3 DEF CommitStep, GoesOn
  <2>2. IsJob(job[v]) /\ DOMAIN job = Versions
    BY DEF TypeInv, JobOK
  <2>3. GoesOn(job[v], r).st = job[v].st /\ GoesOn(job[v], r).op = job[v].op /\ GoesOn(job[v], r).todo = r /\ GoesOn(job[v], r).t = job[v].t
    BY <2>2, OldJobs
  <2> QED
    BY <1>3, <1>5, <2>1, <2>2, <2>3
<1>7. /\ Staged(O, r, v, t, disk')
      /\ \A f \in {"cagra", "ivfpq", "shards", "vecs"} : disk'[f] \in {0, v, disk[f]}
      /\ am # "cagra" => disk'["cagra"] \in {0, disk["cagra"]} /\ disk'["shards"] = disk["shards"]
      /\ am # "ivfpq" => disk'["ivfpq"] = disk["ivfpq"]
      /\ am = "ivfpq" => disk'["vecs"] = disk["vecs"]
      /\ op # "build" => disk'["shards"] = disk["shards"]
      /\ disk["cagra"] # 0 => disk'["cagra"] # 0 \/ am # "cagra" \/ disk'["vecs"] \in {0, v}
  BY <1>1, <1>3, CommitFiles
<1>8. OwnFiles(disk)'
  <2>1. OwnFiles(disk)
    BY DEF Intact
  <2> QED
    BY <1>4, <1>7, <2>1 DEF OwnFiles
<1>9. NewEnough(disk)'
  <2>1. NewEnough(disk)
    BY DEF Intact
  <2> QED
    BY <1>3, <1>4, <1>5, <1>7, <2>1 DEF NewEnough
<1>10. PairsOK'
  BY <1>2, <1>3, <1>6, <1>8, CommitPairs
<1>11. StageOK(v)'
  <2>1. Plan(v)' = O
    BY <1>4, <1>5, <1>6 DEF Plan
  <2> QED
    BY <1>3, <1>4, <1>5, <1>6, <1>7, <2>1 DEF StageOK
<1>12. \A w \in Versions : StageOK(w)'
  BY <1>3, <1>5, <1>6, <1>11, StageOfOthers
<1>13. ResOK' /\ LatestOK'
  BY <1>3, SameNames DEF Intact
<1>14. RestoreOK'
  BY <1>3, <1>5 DEF RestoreOK
<1>15. OpenOK'
  <2>1. OpenOK
    BY DEF Intact
  <2>2. open
    BY <1>3, <2>1 DEF OpenOK
  <2> QED
    BY <1>3, <2>2 DEF OpenOK
<1> QED
  BY <1>8, <1>9, <1>10, <1>12, <1>13, <1>14, <1>15 DEF Intact

\* A failed rename of a file that must be there ends the commit, and .tids is gone
\* or has not been touched; one of .vectors leaves it without them.
LEMMA CommitFailsIntact == ASSUME TypeInv, Intact, NEW v \in Versions, CommitFails(v), ~Spoiled' PROVE Intact'
<1>1. PICK O, T, op, n, t, s : Thread(v, O, T, op, n, t, s)
  BY DEF Thread
<1>2. PICK q, r : q = Head(s) /\ r = Tail(s)
  OBVIOUS
<1>3. /\ s # <<>> /\ First(s, q, r) /\ job[v].st = "commit" /\ Accident(v) \subseteq why' /\ q.do \in {"put", "try"}
      /\ UNCHANGED names /\ dl' = dl /\ acked' = acked /\ s = job[v].todo /\ open' = open /\ res' = res /\ latest' = latest
      /\ disk' = Unlink(disk, q.undo)
  BY <1>1, <1>2 DEF CommitFails, Thread, First, cloud
<1>4. am' = am /\ tidl' = tidl /\ nv' = nv /\ width' = width
  BY <1>3 DEF names
<1>5. /\ ~dl.on /\ \A w \in Versions : w # v => ~Busy(w) /\ ~TearWindow(w)
      /\ Course(O, op, T, n, s) /\ PlanOK(O, op, T, n) /\ OpShape(O)
      /\ am = "cagra" <=> T \in {"cagra", "shards"}
      /\ am = "flat" <=> T = "vecs"
      /\ job[v].t = t /\ v >= acked /\ v # 0 /\ Staged(O, s, v, t, disk)
      /\ op # "build" => res.g = v /\ res.t = t /\ disk["shards"] = 0
      /\ t = tidl[v] /\ O = Plan(v) /\ op = job[v].op
  BY <1>1, <1>3, StepFacts DEF Thread
<1>6. /\ q \in O /\ Ran(s) = {q} \cup Ran(r)
      /\ q.do = "put" => ~Writes(r, q.f)
      /\ q.do # "put" => \A f : ~Writes(s, f)
  BY <1>3, <1>5, AgendaOrder
<1>7. /\ \A f \in Files : disk'[f] = IF f \in q.undo THEN 0 ELSE disk[f]
      /\ {"tids", "cagra", "ivfpq", "shards", "vecs"} \subseteq Files
  <2>1. disk \in [Files -> 0 .. nv] /\ 0 \in 0 .. nv
    BY TypeFacts
  <2> QED
    BY <1>3, <2>1, UnlinkFacts, ShardNames
<1>8. /\ q.undo \cap {"cagra", "ivfpq"} = {}
      /\ q.do = "try" => q.undo = {"vecs"} /\ op = "build" /\ T \in {"cagra", "shards"}
      /\ q.do = "put" => \/ "tids" \in q.undo
                         \/ q.undo = {} /\ q.f = "tids"
                         \/ T = "vecs"
  <2>1. T \in {"cagra", "shards", "ivfpq", "vecs"}
    BY <1>5 DEF Course
  <2> QED
    BY <1>5, <1>6, <2>1 DEF PlanOK, OpShape
<1>9. \A w \in Versions : w # v => job'[w] = job[w]
  BY <1>3 DEF CommitFails, TypeInv
<1>10. disk'["cagra"] = disk["cagra"] /\ disk'["ivfpq"] = disk["ivfpq"] /\ disk'["shards"] \in {0, disk["shards"]}
       /\ disk'["vecs"] \in {0, disk["vecs"]}
  BY <1>7, <1>8
<1>11. NewEnough(disk)' /\ OwnFiles(disk)'
  <2>1. NewEnough(disk) /\ OwnFiles(disk)
    BY DEF Intact
  <2> QED
    BY <1>3, <1>4, <1>10, <2>1 DEF NewEnough, OwnFiles
<1>12. ResOK' /\ LatestOK'
  BY <1>3, SameNames DEF Intact
<1>13. RestoreOK'
  BY <1>3, <1>5 DEF RestoreOK
<1>14. OpenOK'
  <2>1. OpenOK
    BY DEF Intact
  <2>2. open
    BY <1>3, <2>1 DEF OpenOK
  <2> QED
    BY <1>3, <2>2 DEF OpenOK
<1>15. PairOK(disk) \/ TearWindow(v)
  <2>1. ~DownloadWindow
    BY <1>5 DEF DownloadWindow
  <2> QED
    BY <1>5, <2>1 DEF Intact, PairsOK
<1>16. CASE q.do = "put"
  <2>1. job'[v].st = "idle"
    <3>1. job' = [job EXCEPT ![v] = NoJob]
      BY <1>2, <1>3, <1>16 DEF CommitFails
    <3> QED
      BY <3>1, NoJobIdle DEF TypeInv
  <2>2. \A w \in Versions : StageOK(w)'
    <3>1. StageOK(v)'
      BY <2>1 DEF StageOK, Busy
    <3> QED
      BY <1>3, <1>5, <1>9, <3>1, StageOfOthers
  <2>3. PairOK(disk)'
    <3>1. CASE "tids" \in q.undo
      BY <1>7, <3>1 DEF PairOK
    <3>2. CASE q.undo = {} /\ q.f = "tids"
      <4>1. Writes(s, "tids")
        BY <1>6, <1>16, <3>2 DEF Writes
      <4>2. ~TearWindow(v)
        BY <1>3, <4>1, PendingWrites DEF TearWindow
      <4>3. \A f \in {"tids", "cagra", "ivfpq", "shards"} : disk'[f] = disk[f]
        BY <1>7, <3>2
      <4> QED
        BY <1>3, <1>15, <4>2, <4>3, SameFiles
    <3>3. CASE T = "vecs"
      <4>1. disk'["cagra"] = 0 /\ disk'["ivfpq"] = 0
        BY <1>4, <1>5, <1>11, <3>3 DEF OwnFiles
      <4> QED
        BY <4>1 DEF PairOK
    <3> QED
      BY <1>8, <1>16, <3>1, <3>2, <3>3
  <2> QED
    BY <1>11, <1>12, <1>13, <1>14, <2>2, <2>3 DEF Intact, PairsOK
<1>17. CASE q.do = "try"
  <2>1. job'[v].st = "commit" /\ job'[v].op = op /\ job'[v].t = t /\ job'[v].todo = r
    <3>1. job' = [job EXCEPT ![v] = GoesOn(job[v], r)]
      BY <1>2, <1>3, <1>17 DEF CommitFails, GoesOn
    <3>2. IsJob(job[v]) /\ DOMAIN job = Versions
      BY DEF TypeInv, JobOK
    <3>3. GoesOn(job[v], r).st = job[v].st /\ GoesOn(job[v], r).op = job[v].op /\ GoesOn(job[v], r).todo = r /\ GoesOn(job[v], r).t = job[v].t
      BY <3>2, OldJobs
    <3> QED
      BY <1>3, <1>5, <3>1, <3>2, <3>3
  <2>2. \A f \in Files : disk'[f] = IF f = "vecs" THEN 0 ELSE disk[f]
    BY <1>7, <1>8, <1>17
  <2>3. \A f \in {"tids", "cagra", "ivfpq", "shards"} : disk'[f] = disk[f]
    BY <1>7, <2>2
  <2>4. Staged(O, r, v, t, disk')
    <3> SUFFICES ASSUME NEW o \in O, o \notin Ran(r) PROVE Effect(o, v, t, disk')
      BY DEF Staged
    <3>1. o.do = "put" => o.f \in Files /\ o.f # "vecs"
      <4>1. T \in {"cagra", "shards"} /\ "vecs" \notin ShardSet
        BY <1>8, <1>17, ShardNames
      <4> QED
        BY <1>5, <4>1 DEF PlanOK, OpShape
    <3>2. o.do = "del" => o.f \in Files
      BY <1>5 DEF OpShape
    <3>3. disk'["vecs"] = 0
      BY <1>7, <2>2
    <3>4. o = q \/ Effect(o, v, t, disk)
      BY <1>5, <1>6 DEF Staged
    <3>5. CASE o = q
      BY <1>17, <3>3, <3>5 DEF Effect
    <3>6. CASE Effect(o, v, t, disk)
      BY <2>2, <3>1, <3>2, <3>3, <3>6 DEF Effect
    <3> QED
      BY <3>4, <3>5, <3>6
  <2>5. StageOK(v)'
    <3>1. Plan(v)' = O
      BY <1>4, <1>5, <2>1 DEF Plan
    <3> QED
      BY <1>3, <1>4, <1>5, <2>1, <2>3, <2>4, <3>1 DEF StageOK
  <2>6. \A w \in Versions : StageOK(w)'
    BY <1>3, <1>5, <1>9, <2>5, StageOfOthers
  <2>7. PairsOK'
    <3>1. \A f \in {"tids", "cagra", "ivfpq", "shards"} : Writes(s, f) <=> Writes(r, f)
      BY <1>6, <1>17 DEF Writes
    <3>2. \A f \in {"tids", "cagra", "ivfpq", "shards"} : Pending(job'[v].todo, {f}) <=> Pending(job[v].todo, {f})
      BY <1>3, <2>1, <3>1, PendingWrites
    <3>3. TearWindow(v) => TearWindow(v)'
      BY <2>1, <2>3, <3>2 DEF TearWindow
    <3>4. PairOK(disk) => PairOK(disk)'
      BY <1>3, <2>3, SameFiles
    <3> QED
      BY <1>15, <3>3, <3>4 DEF PairsOK
  <2> QED
    BY <1>11, <1>12, <1>13, <1>14, <2>6, <2>7 DEF Intact
<1> QED
  BY <1>3, <1>16, <1>17

\* A commit that is complete has left one whole version, its own.
LEMMA CommitEnds ==
  ASSUME TypeInv, Intact, NEW v \in Versions, job[v].st = "commit", Ran(job[v].todo) = {}, Accident(v) \subseteq why', ~Spoiled'
  PROVE  /\ ~dl.on /\ Busy(v) /\ (\A w \in Versions : w # v => ~Busy(w) /\ ~TearWindow(w)) /\ ~TearWindow(v)
         /\ job[v].t = tidl[v] /\ v >= acked /\ v \in 1 .. nv
         /\ disk["tids"] = tidl[v] /\ disk[Goal(v)] = v
         /\ Goal(v) = "shards" => \A f \in ShardsUpTo(width[v]) : disk[f] = v
         /\ Goal(v) = "cagra" => disk["shards"] = 0
         /\ Goal(v) \in {"shards", "ivfpq"} => disk["cagra"] = 0
         /\ Goal(v) \in {"cagra", "shards"} /\ job[v].op = "build" => disk["vecs"] \in {0, v}
         /\ Goal(v) \in {"cagra", "shards", "ivfpq", "vecs"}
         /\ am = "cagra" <=> Goal(v) \in {"cagra", "shards"}
         /\ am = "flat" <=> Goal(v) = "vecs"
         /\ am = "ivfpq" <=> Goal(v) = "ivfpq"
         /\ (Goal(v) = "shards") <=> (am = "cagra" /\ job[v].op = "build" /\ width[v] # 0)
         /\ job[v].op # "build" => am = "cagra" /\ res.g = v /\ res.t = tidl[v]
<1>1. PICK O, T, op, n, t, s : Thread(v, O, T, op, n, t, s)
  BY DEF Thread
<1>2. /\ ~dl.on /\ Busy(v) /\ (\A w \in Versions : w # v => ~Busy(w) /\ ~TearWindow(w))
      /\ Course(O, op, T, n, s) /\ PlanOK(O, op, T, n) /\ n \in Widths
      /\ T \in {"cagra", "shards", "ivfpq", "vecs"}
      /\ am = "cagra" <=> T \in {"cagra", "shards"}
      /\ am = "flat" <=> T = "vecs"
      /\ am = "ivfpq" <=> T = "ivfpq"
      /\ job[v].t = t /\ v >= acked /\ v # 0 /\ v \in 1 .. nv
      /\ Staged(O, s, v, t, disk)
      /\ op # "build" => res.g = v /\ res.t = t /\ disk["shards"] = 0
  BY <1>1, StepFacts
<1>3. T = Goal(v) /\ op = job[v].op /\ n = width[v] /\ t = tidl[v] /\ s = job[v].todo
  BY <1>1 DEF Thread
<1>4. Ran(s) = {}
  BY <1>3
<1>5. (\A f : ~Writes(s, f)) /\ \A o \in Ran(s) : o.do # "del" /\ o.do # "try"
  BY <1>4 DEF Writes
<1>6. /\ ~Writes(s, "tids") => disk["tids"] = t
      /\ ~Writes(s, T) => disk[T] = v
      /\ T = "shards" => \A f \in ShardsUpTo(n) : ~Writes(s, f) => disk[f] = v
      /\ (\A o \in Ran(s) : o.do # "del") /\ T = "cagra" /\ op = "build" => disk["shards"] = 0
      /\ (\A o \in Ran(s) : o.do # "del") /\ T \in {"shards", "ivfpq"} => disk["cagra"] = 0
      /\ (\A o \in Ran(s) : o.do # "try") /\ T \in {"cagra", "shards"} /\ op = "build" => disk["vecs"] \in {0, v}
  BY <1>2, StagedFiles
<1>7. /\ disk["tids"] = t /\ disk[T] = v
      /\ T = "shards" => \A f \in ShardsUpTo(n) : disk[f] = v
      /\ T = "cagra" => disk["shards"] = 0
      /\ T \in {"shards", "ivfpq"} => disk["cagra"] = 0
      /\ T \in {"cagra", "shards"} /\ op = "build" => disk["vecs"] \in {0, v}
  BY <1>2, <1>5, <1>6
<1>8. ~TearWindow(v)
  BY <1>3, <1>5, PendingWrites DEF TearWindow
<1>9. (op # "build" => am = "cagra") /\ am \in {"cagra", "flat", "ivfpq"}
  BY <1>3, ThreadFacts, TypeFacts
<1>10. (T = "shards") <=> (am = "cagra" /\ op = "build" /\ n # 0)
  BY <1>3, <1>9 DEF Goal, Target
<1> QED
  BY <1>2, <1>3, <1>7, <1>8, <1>9, <1>10

LEMMA EndCommitIntact == ASSUME TypeInv, Intact, NEW v \in Versions, EndCommit(v), ~Spoiled' PROVE Intact'
<1>1. /\ job[v].st = "commit" /\ Accident(v) \subseteq why' /\ UNCHANGED names /\ disk' = disk /\ latest' = latest /\ dl' = dl
      /\ job' = [job EXCEPT ![v] = NoJob]
      /\ acked' \in {acked, v} /\ (open' = open \/ open' = (\E w \in Versions \ {v} : job[w].st # "idle"))
  BY DEF EndCommit
<1>2. am' = am /\ tidl' = tidl /\ nv' = nv /\ width' = width
  BY <1>1 DEF names
<1>3. Ran(job[v].todo) = {}
  <2>1. job[v].todo = <<>>
    BY DEF EndCommit
  <2> QED
    BY <2>1, RanShort
<1>4. /\ ~dl.on /\ (\A w \in Versions : w # v => ~Busy(w) /\ ~TearWindow(w)) /\ ~TearWindow(v)
      /\ job[v].t = tidl[v] /\ v >= acked /\ v \in 1 .. nv
      /\ disk["tids"] = tidl[v] /\ disk[Goal(v)] = v
      /\ Goal(v) = "cagra" => disk["shards"] = 0
      /\ Goal(v) \in {"shards", "ivfpq"} => disk["cagra"] = 0
      /\ Goal(v) \in {"cagra", "shards"} /\ job[v].op = "build" => disk["vecs"] \in {0, v}
      /\ Goal(v) \in {"cagra", "shards", "ivfpq", "vecs"}
      /\ am = "cagra" <=> Goal(v) \in {"cagra", "shards"}
      /\ am = "flat" <=> Goal(v) = "vecs"
      /\ am = "ivfpq" <=> Goal(v) = "ivfpq"
      /\ (Goal(v) = "shards") <=> (am = "cagra" /\ job[v].op = "build" /\ width[v] # 0)
      /\ job[v].op # "build" => am = "cagra"
  BY <1>1, <1>3, CommitEnds
<1>5. job'[v].st = "idle" /\ \A w \in Versions : w # v => job'[w] = job[w]
  BY <1>1, NoJobIdle DEF TypeInv
<1>6. OwnFiles(disk) /\ v >= v /\ v # 0
  BY <1>4, TypeFacts DEF Intact
<1>7. \A f \in {"cagra", "ivfpq", "shards"} : disk[f] \in {0, v}
  BY <1>4, <1>6 DEF OwnFiles
<1>8. disk["vecs"] \in {0, v} \/ (am = "cagra" /\ disk["cagra"] = v)
  BY <1>4, <1>6 DEF OwnFiles
<1>9. v >= acked'
  BY <1>1, <1>4, <1>6
<1>10. NewEnough(disk)' /\ OwnFiles(disk)'
  BY <1>1, <1>2, <1>6, <1>7, <1>8, <1>9 DEF NewEnough, OwnFiles
<1>11. PairsOK'
  <2>1. PairOK(disk)
    BY <1>4, <1>7 DEF PairOK
  <2>2. PairOK(disk)'
    BY <1>1, <1>2, <2>1 DEF PairOK
  <2> QED
    BY <2>2 DEF PairsOK
<1>12. ResOK'
  <2>1. PICK t : t = job[v].t
    OBVIOUS
  <2>2. res' = [g |-> 0, t |-> 0] \/ res' = [g |-> v, t |-> t]
    BY <2>1 DEF EndCommit, NoEntry
  <2>3. t = tidl'[v]
    BY <1>2, <1>4, <2>1
  <2> QED
    BY <1>9, <2>2, <2>3 DEF ResOK, Whole
<1>13. \A w \in Versions : StageOK(w)'
  BY <1>1, <1>2, <1>4, <1>5 DEF StageOK, Busy
<1>14. LatestOK'
  <2>1. \A m, s : SnapOK(m, s)' <=> SnapOK(m, s)
    BY <1>2 DEF SnapOK
  <2> QED
    BY <1>1, <1>2, <2>1 DEF Intact, LatestOK
<1>15. RestoreOK'
  BY <1>1, <1>4 DEF RestoreOK
<1>16. OpenOK'
  <2>1. open
    BY <1>1 DEF Intact, OpenOK
  <2> QED
    BY <1>1, <1>4, <1>5, <2>1 DEF OpenOK
<1> QED
  BY <1>10, <1>11, <1>12, <1>13, <1>14, <1>15, <1>16 DEF Intact

\* The operations of a download: every check comes after the put of its file.
Fetch(n, O, rk) ==
  /\ rk \in [O -> Nat] /\ Put("tids", {}) \in O /\ rk[Put("tids", {})] = 1
  /\ \A o \in O : o # Put("tids", {}) => rk[o] >= 2
  /\ \A c \in O : c.do = "check" => \E o \in O : o.do = "put" /\ o.f = c.f /\ rk[o] < rk[c]
  /\ \A o \in O : o.do = "put" /\ o.f = "tids" => o = Put("tids", {}) /\ o.undo = {}
  /\ \A o \in O : o.do = "put" /\ o.f # "tids" => "tids" \in o.undo /\ o.undo \cap {"cagra", "ivfpq", "vecs"} = {}

LEMMA FetchSet == \A n \in Widths : Fetch(n, DownloadSet(n), DRanks(DownloadSet(n)))
<1> TAKE n \in Widths
<1>1. PICK a, c, b, d, e : /\ a = Put("tids", {}) /\ c = Check("tids", {"tids"}) /\ e = Main(n)
                           /\ b = Put(e, {"tids"}) /\ d = Check(e, {"tids", e})
  OBVIOUS
<1>2. PICK O : O = DownloadSet(n)
  OBVIOUS
<1>3. /\ DRanks(O) \in [O -> Nat] /\ a \in O /\ b \in O /\ c \in O /\ d \in O
      /\ DRanks(O)[a] = 1 /\ DRanks(O)[c] = 2 /\ DRanks(O)[b] = 3 /\ DRanks(O)[d] = 4
      /\ \A o \in O : o.do = "check" /\ o.f = "tids" => o = c
      /\ \A o \in O : o.do = "check" /\ o.f # "tids" => o = d
      /\ \A o \in O : o.do = "put" /\ o.f = "tids" => o = a
      /\ \A o \in O : o # a => DRanks(O)[o] >= 2
      /\ \A o \in O : o.do = "put" /\ o.f # "tids" =>
           "tids" \in o.undo /\ o.undo \cap {"cagra", "ivfpq", "vecs"} = {}
  BY <1>1, <1>2, DownloadSetFacts
<1>4. a.do = "put" /\ a.f = "tids" /\ a.undo = {} /\ b.do = "put" /\ b.f = e /\ d.f = e /\ c.f = "tids"
  BY <1>1 DEF Put, Check
<1>5. \A x \in O : x.do = "check" => \E o \in O : o.do = "put" /\ o.f = x.f /\ DRanks(O)[o] < DRanks(O)[x]
  <2> SUFFICES ASSUME NEW x \in O, x.do = "check" PROVE \E o \in O : o.do = "put" /\ o.f = x.f /\ DRanks(O)[o] < DRanks(O)[x]
    OBVIOUS
  <2>1. x = c \/ x = d
    BY <1>3
  <2>2. x = c => a.f = x.f /\ DRanks(O)[a] < DRanks(O)[x]
    BY <1>3, <1>4
  <2>3. x = d => b.f = x.f /\ DRanks(O)[b] < DRanks(O)[x]
    BY <1>3, <1>4
  <2> QED
    BY <1>3, <1>4, <2>1, <2>2, <2>3
<1>6. PICK rk : rk = DRanks(O)
  OBVIOUS
<1>7. Fetch(n, O, rk)
  BY <1>1, <1>3, <1>4, <1>5, <1>6 DEF Fetch
<1> QED
  BY <1>2, <1>6, <1>7

\* What a download puts is of one version, and its checks never find anything else.
LEMMA FetchOK ==
  ASSUME TypeInv, Intact, dl.on, NEW s, s = dl.todo, NEW q, NEW r, First(s, q, r), \A v \in Versions : job[v].st # "commit",
         NEW x \in 1 .. nv, SnapOK(dl.m, x), NEW n, n = dl.m.n
  PROVE  /\ q \in DownloadSet(n) /\ q.f \in Files /\ q.f \notin {"ivfpq", "vecs"} /\ q.do \in {"put", "check"} /\ am = "cagra"
         /\ Ran(s) = {q} \cup Ran(r) /\ n \in Widths
         /\ Put("tids", {}) \notin Ran(r)
         /\ dl.m.obj[q.f] = IF q.f = "tids" THEN tidl[x] ELSE x
         /\ q.do = "check" => disk[q.f] = dl.m.obj[q.f] /\ dl.m.sha[q.f] = dl.m.obj[q.f]
         /\ q.do = "put" /\ q.f # "tids" => "tids" \in q.undo /\ q.undo \cap {"cagra", "ivfpq", "vecs"} = {}
         /\ q.do = "put" /\ q.f = "tids" => q.undo = {} /\ Writes(s, "tids")
         /\ ~Writes(r, "tids")
<1>0. s # <<>> /\ q = Head(s) /\ r = Tail(s)
  BY DEF First
<1>1. /\ q \in DownloadSet(n) /\ q.f \in Files /\ q.f \in SnapFiles(n) /\ q.do \in {"put", "check"}
      /\ n \in Widths /\ am = "cagra"
      /\ Agenda(r, DownloadSet(n), DRanks(DownloadSet(n)))
      /\ Ran(s) = {q} \cup Ran(r) /\ q \notin Ran(r)
      /\ \A o \in Ran(s) : DRanks(DownloadSet(n))[q] <= DRanks(DownloadSet(n))[o]
  BY <1>0, FetchFacts
<1>2. PICK O, rk : O = DownloadSet(n) /\ rk = DRanks(O)
  OBVIOUS
<1>3. Fetch(n, O, rk)
  <2>1. n \in Widths
    BY <1>1
  <2>2. \A k \in Widths : Fetch(k, DownloadSet(k), DRanks(DownloadSet(k)))
    BY FetchSet
  <2> QED
    BY <1>2, <2>1, <2>2
<1>4. SnapFiles(n) \cap {"ivfpq", "vecs"} = {}
  BY <1>1, SnapFilesFacts
<1>5. q \in O /\ Ran(s) = {q} \cup Ran(r) /\ q \notin Ran(r) /\ \A o \in Ran(s) : rk[q] <= rk[o]
  BY <1>1, <1>2
<1>6. Put("tids", {}) \notin Ran(r)
  <2> SUFFICES ASSUME Put("tids", {}) \in Ran(r) PROVE FALSE
    OBVIOUS
  <2>1. q # Put("tids", {}) /\ rk[q] <= 1
    BY <1>3, <1>5 DEF Fetch
  <2>2. rk[q] >= 2 /\ rk[q] \in Nat
    BY <1>3, <1>5, <2>1 DEF Fetch
  <2> QED
    BY <2>1, <2>2
<1>7. dl.m.obj[q.f] = (IF q.f = "tids" THEN tidl[x] ELSE x) /\ dl.m.sha[q.f] = dl.m.obj[q.f]
  BY <1>1 DEF SnapOK, Content
<1>8. RestoredOK
  BY DEF Intact, RestoreOK
<1>9. ASSUME NEW o \in O, rk[o] < rk[q], o.do = "put" PROVE disk[o.f] = dl.m.obj[o.f]
  <2>1. rk[o] \in Nat /\ rk[q] \in Nat
    BY <1>3, <1>5 DEF Fetch
  <2>2. o \notin Ran(s)
    BY <1>5, <1>9, <2>1
  <2> QED
    BY <1>2, <1>8, <1>9, <2>2 DEF RestoredOK
<1>10. ASSUME q.do = "check" PROVE disk[q.f] = dl.m.obj[q.f]
  <2>1. PICK o \in O : o.do = "put" /\ o.f = q.f /\ rk[o] < rk[q]
    BY <1>3, <1>5, <1>10 DEF Fetch
  <2> QED
    BY <1>9, <2>1
<1>11. q.do = "put" /\ q.f = "tids" => q.undo = {} /\ Writes(s, "tids")
  BY <1>3, <1>5 DEF Fetch, Writes
<1>12. ~Writes(r, "tids")
  <2>1. \A o \in Ran(r) : o \in O
    BY <1>1, <1>2, ElementOfSeq DEF Agenda, Ran
  <2> QED
    BY <1>3, <1>6, <2>1 DEF Fetch, Writes
<1> QED
  BY <1>1, <1>3, <1>4, <1>5, <1>6, <1>7, <1>10, <1>11, <1>12 DEF Fetch

\* When a download has nothing left to do, the list of TIDs is that of the graph.
LEMMA RestoredPair ==
  (\E x \in 1 .. nv : SnapOK(dl.m, x)) /\ RestoredOK /\ Ran(dl.todo) = {} /\ OwnFiles(disk) /\ am = "cagra" /\ dl.m.n \in Widths
  => PairOK(disk)
<1> SUFFICES ASSUME \E x \in 1 .. nv : SnapOK(dl.m, x), RestoredOK, Ran(dl.todo) = {}, OwnFiles(disk), am = "cagra", dl.m.n \in Widths
             PROVE  PairOK(disk)
  OBVIOUS
<1>1. PICK m, n : m = dl.m /\ n = m.n
  OBVIOUS
<1>2. PICK x \in 1 .. nv : SnapOK(m, x)
  BY <1>1
<1>3. n \in Widths /\ "tids" \in SnapFiles(n) /\ Main(n) \in SnapFiles(n) /\ Main(n) # "tids" /\ SnapFiles(n) \subseteq Files
  BY <1>1, SnapFilesFacts
<1>4. m.obj["tids"] = tidl[x] /\ m.obj[Main(n)] = x
  BY <1>1, <1>2, <1>3 DEF SnapOK, Content
<1>5. \A o \in DownloadSet(n) : o.do = "put" => disk[o.f] = m.obj[o.f]
  BY <1>1 DEF RestoredOK
<1>6. PICK a, b : a = Put("tids", {}) /\ b = Put(Main(n), {"tids"})
  OBVIOUS
<1>7. a \in DownloadSet(n) /\ b \in DownloadSet(n) /\ a.do = "put" /\ a.f = "tids" /\ b.do = "put" /\ b.f = Main(n)
  BY <1>6 DEF DownloadSet, Put
<1>8. disk["tids"] = tidl[x] /\ disk[Main(n)] = x /\ x # 0 /\ disk["ivfpq"] = 0
  BY <1>4, <1>5, <1>7 DEF OwnFiles
<1> QED
  BY <1>8 DEF PairOK, Main

LEMMA RestoredPairAfter ==
  ((\E x \in 1 .. nv : SnapOK(dl.m, x)) /\ RestoredOK /\ Ran(dl.todo) = {} /\ OwnFiles(disk) /\ am = "cagra" /\ dl.m.n \in Widths)'
  => PairOK(disk)'
BY RestoredPair, PTL

\* What the worker has left to do.
Fetching(s, q, r, n) == s = dl.todo /\ First(s, q, r) /\ n = dl.m.n

\* A download puts files of one version, and goes on.
LEMMA FetchFiles ==
  ASSUME TypeInv, Intact, DownloadStep, ~Spoiled', NEW s, NEW q, NEW r, NEW n, Fetching(s, q, r, n), NEW x \in 1 .. nv, SnapOK(dl.m, x)
  PROVE  /\ q \in DownloadSet(n) /\ q.f \in Files /\ q.f \notin {"ivfpq", "vecs"} /\ am = "cagra"
         /\ Ran(s) = {q} \cup Ran(r) /\ n \in Widths
         /\ ~Writes(r, "tids")
         /\ dl.m.obj[q.f] = IF q.f = "tids" THEN tidl[x] ELSE x
         /\ \A f \in Files : disk'[f] = IF f = q.f /\ q.do = "put" THEN dl.m.obj[f] ELSE disk[f]
         /\ dl'.on /\ dl'.todo = r /\ dl'.m = dl.m
<1>1. dl.on /\ dl.todo # <<>> /\ \A v \in Versions : job[v].st # "commit"
  <2>1. why' = why \cup (IF Racing THEN {"race"} ELSE {})
    BY DEF DownloadStep
  <2>2. ~Racing
    BY <2>1 DEF Spoiled
  <2> QED
    BY <2>2 DEF DownloadStep, Racing
<1>2. s = dl.todo /\ q = Head(s) /\ r = Tail(s) /\ n = dl.m.n /\ First(s, q, r)
  BY DEF Fetching, First
<1>6. /\ q \in DownloadSet(n) /\ q.f \in Files /\ q.f \notin {"ivfpq", "vecs"} /\ q.do \in {"put", "check"} /\ am = "cagra"
      /\ Ran(s) = {q} \cup Ran(r) /\ n \in Widths
      /\ dl.m.obj[q.f] = IF q.f = "tids" THEN tidl[x] ELSE x
      /\ q.do = "check" => disk[q.f] = dl.m.obj[q.f] /\ dl.m.sha[q.f] = dl.m.obj[q.f]
      /\ ~Writes(r, "tids")
  BY <1>1, <1>2, FetchOK
<1>7. /\ disk' = Apply(disk, q, IF q.do = "check" THEN dl.m.sha ELSE dl.m.obj)
      /\ dl' = Fetched(dl)
  <2>1. ~(q.do = "check" /\ disk[q.f] # dl.m.sha[q.f])
    BY <1>6
  <2> QED
    BY <1>2, <2>1 DEF DownloadStep, Fetched
<1>8. disk \in [Files -> 0 .. nv]
  BY TypeFacts
<1>9. \A f \in Files : disk'[f] = IF f = q.f /\ q.do = "put" THEN dl.m.obj[f] ELSE disk[f]
  <2>1. CASE q.do = "put"
    <3>1. PICK c : c = dl.m.obj
      OBVIOUS
    <3>2. disk' = [disk EXCEPT ![q.f] = c[q.f]]
      BY <1>7, <2>1, <3>1 DEF Apply
    <3> QED
      BY <1>6, <1>8, <2>1, <3>1, <3>2
  <2>2. CASE q.do = "check"
    <3>1. disk' = disk
      BY <1>6, <1>7, <2>2 DEF Apply
    <3> QED
      BY <2>2, <3>1
  <2> QED
    BY <1>6, <2>1, <2>2
<1>10. dl'.on /\ dl'.todo = r /\ dl'.m = dl.m
  <2>1. PICK k : k = Fetched(dl)
    OBVIOUS
  <2>2. k.on = dl.on /\ k.todo = Tail(dl.todo) /\ k.m = dl.m
    BY <2>1, FetchedFacts DEF TypeInv, DownloadOK
  <2> QED
    BY <1>1, <1>2, <1>7, <2>1, <2>2
<1> QED
  BY <1>6, <1>9, <1>10

\* A download puts the files of one version in place, and until it ends a load that
\* would find an old graph beside the new .tids is an accident.
LEMMA DownloadStepIntact == ASSUME TypeInv, Intact, DownloadStep, ~Spoiled' PROVE Intact'
<1>1. /\ UNCHANGED names /\ job' = job /\ latest' = latest /\ acked' = acked /\ res' = res /\ open' = open
      /\ dl.on /\ dl.todo # <<>> /\ \A v \in Versions : job[v].st # "commit"
  BY DEF DownloadStep, Spoiled, Racing
<1>2. am' = am /\ nv' = nv /\ tidl' = tidl /\ width' = width
  BY <1>1 DEF names
<1>3. PICK s, q, r, n : s = dl.todo /\ q = Head(s) /\ r = Tail(s) /\ n = dl.m.n
  OBVIOUS
<1>4. Fetching(s, q, r, n)
  BY <1>1, <1>3 DEF First, Fetching
<1>5. PICK x \in 1 .. nv : x >= acked /\ SnapOK(dl.m, x)
  BY <1>1 DEF Intact, RestoreOK
<1>6. /\ q \in DownloadSet(n) /\ q.f \in Files /\ q.f \notin {"ivfpq", "vecs"} /\ am = "cagra"
      /\ Ran(s) = {q} \cup Ran(r) /\ n \in Widths
      /\ ~Writes(r, "tids")
      /\ dl.m.obj[q.f] = IF q.f = "tids" THEN tidl[x] ELSE x
      /\ \A f \in Files : disk'[f] = IF f = q.f /\ q.do = "put" THEN dl.m.obj[f] ELSE disk[f]
      /\ dl'.on /\ dl'.todo = r /\ dl'.m = dl.m
  BY <1>4, <1>5, FetchFiles
<1>11. {"tids", "cagra", "ivfpq", "shards", "vecs"} \subseteq Files /\ x # 0
  BY DEF Files
<1>12. disk'["cagra"] \in {disk["cagra"], x} /\ disk'["shards"] \in {disk["shards"], x} /\ disk'["ivfpq"] = disk["ivfpq"] /\ disk'["vecs"] = disk["vecs"]
  BY <1>6, <1>11
<1>13. NewEnough(disk)' /\ OwnFiles(disk)'
  <2>1. NewEnough(disk) /\ OwnFiles(disk)
    BY DEF Intact
  <2> QED
    BY <1>1, <1>2, <1>5, <1>6, <1>11, <1>12, <2>1 DEF NewEnough, OwnFiles
<1>14. SnapOK(dl.m, x)'
  <2>1. SnapOK(dl.m, x) <=> SnapOK(dl.m, x)'
    BY <1>2, <1>6 DEF SnapOK
  <2> QED
    BY <1>5, <2>1
<1>15. RestoredOK'
  <2>1. RestoredOK
    BY <1>1 DEF Intact, RestoreOK
  <2>2. \A o \in DownloadSet(n) : o.f \in Files
    <3>1. n \in Widths
      BY <1>6
    <3>2. SnapFiles(n) \subseteq Files
      BY <3>1, SnapFilesFacts
    <3>3. \A o \in DownloadSet(n) : o.f \in SnapFiles(n)
      BY <3>1, DownloadSetFacts
    <3> QED
      BY <3>2, <3>3
  <2>3. \A o \in DownloadSet(n) : o \in Ran(s) \/ (o.do = "put" => disk[o.f] = dl.m.obj[o.f])
    BY <1>3, <2>1 DEF RestoredOK
  <2>4. ASSUME NEW o \in DownloadSet(n), o \notin Ran(r), o.do = "put" PROVE disk'[o.f] = dl.m.obj[o.f]
    <3>1. o = q \/ disk[o.f] = dl.m.obj[o.f]
      BY <1>6, <2>3, <2>4
    <3> QED
      BY <1>6, <2>2, <2>4, <3>1
  <2> QED
    BY <1>3, <1>6, <2>4 DEF RestoredOK
<1>16. RestoreOK' /\ LatestOK' /\ ResOK'
  <2>1. LatestOK' /\ ResOK'
    BY <1>1, SameNames DEF Intact
  <2> QED
    BY <1>1, <1>2, <1>5, <1>14, <1>15, <2>1 DEF RestoreOK
<1>17. PairsOK'
  <2>1. CASE Ran(r) = {}
    <3>2. PairOK(disk)'
      BY <1>2, <1>3, <1>5, <1>6, <1>13, <1>14, <1>15, <2>1, RestoredPairAfter
    <3> QED
      BY <3>2 DEF PairsOK
  <2>2. CASE disk'["cagra"] = 0
    <3>1. disk'["ivfpq"] = 0
      BY <1>2, <1>6, <1>13 DEF OwnFiles
    <3>2. PairOK(disk)'
      BY <2>2, <3>1 DEF PairOK
    <3> QED
      BY <3>2 DEF PairsOK
  <2>3. CASE Ran(r) # {} /\ disk'["cagra"] # 0
    <3>1. ~Pending(r, {"tids"})
      BY <1>6, PendingWrites
    <3>2. r # <<>>
      BY <2>3, RanShort
    <3>3. DownloadWindow'
      BY <1>6, <2>3, <3>1, <3>2 DEF DownloadWindow, Pending
    <3> QED
      BY <3>3 DEF PairsOK
  <2> QED
    BY <2>1, <2>2, <2>3
<1>18. (\A v \in Versions : StageOK(v)') /\ OpenOK'
  BY <1>1 DEF StageOK, Busy, OpenOK, Intact
<1> QED
  BY <1>13, <1>16, <1>17, <1>18 DEF Intact

\* A download that fails has not touched .tids yet, or removes it.
LEMMA DownloadFailsIntact == ASSUME TypeInv, Intact, DownloadFails, ~Spoiled' PROVE Intact'
<1>1. /\ UNCHANGED names /\ job' = job /\ latest' = latest /\ acked' = acked /\ res' = res /\ open' = open
      /\ dl.on /\ dl.todo # <<>> /\ (\A v \in Versions : job[v].st # "commit") /\ dl' = NoDownload
  <2>1. why' = why \cup (IF Racing THEN {"race"} ELSE {})
    BY DEF DownloadFails
  <2>2. ~Racing
    BY <2>1 DEF Spoiled
  <2> QED
    BY <2>2 DEF DownloadFails, Racing
<1>2. am' = am /\ nv' = nv /\ tidl' = tidl /\ width' = width
  BY <1>1 DEF names
<1>3. PICK s, q, r, n : s = dl.todo /\ q = Head(s) /\ r = Tail(s) /\ n = dl.m.n
  OBVIOUS
<1>4. First(s, q, r)
  BY <1>1, <1>3 DEF First
<1>5. PICK x \in 1 .. nv : x >= acked /\ SnapOK(dl.m, x)
  BY <1>1 DEF Intact, RestoreOK
<1>6. /\ am = "cagra"
      /\ q.do = "put" /\ q.f # "tids" => "tids" \in q.undo /\ q.undo \cap {"cagra", "ivfpq", "vecs"} = {}
      /\ q.do = "put" /\ q.f = "tids" => q.undo = {} /\ Writes(s, "tids")
  <2>1. /\ s = dl.todo /\ n = dl.m.n /\ First(s, q, r)
    BY <1>3, <1>4
  <2> QED
    BY <1>1, <1>5, <2>1, FetchOK
<1>7. q.do = "put" /\ disk' = Unlink(disk, q.undo)
  BY <1>3 DEF DownloadFails
<1>8. disk' = [f \in Files |-> IF f \in q.undo THEN 0 ELSE disk[f]]
  BY <1>7 DEF Unlink
<1>9. ~dl'.on /\ {"tids", "cagra", "ivfpq", "shards", "vecs"} \subseteq Files /\ disk \in [Files -> 0 .. nv]
  BY <1>1, NoDownloadOff, TypeFacts DEF Files
<1>10. /\ disk'["cagra"] = disk["cagra"] /\ disk'["ivfpq"] = disk["ivfpq"] /\ disk'["vecs"] = disk["vecs"]
       /\ disk'["shards"] \in {0, disk["shards"]}
       /\ q.f # "tids" => disk'["tids"] = 0
       /\ q.f = "tids" => disk'["tids"] = disk["tids"] /\ disk'["shards"] = disk["shards"]
  BY <1>6, <1>7, <1>8, <1>9
<1>11. NewEnough(disk)' /\ OwnFiles(disk)'
  <2>1. NewEnough(disk) /\ OwnFiles(disk)
    BY DEF Intact
  <2> QED
    BY <1>1, <1>2, <1>10, <2>1 DEF NewEnough, OwnFiles
<1>12. PairsOK'
  <2>1. CASE q.f = "tids"
    <3>1. ~DownloadWindow
      BY <1>3, <1>6, <1>7, <2>1, PendingWrites DEF DownloadWindow
    <3>2. PairOK(disk)
      BY <1>1, <3>1 DEF Intact, PairsOK, TearWindow
    <3>3. PairOK(disk)'
      BY <1>2, <1>10, <2>1, <3>2 DEF PairOK
    <3> QED
      BY <3>3 DEF PairsOK
  <2>2. CASE q.f # "tids"
    <3>1. PairOK(disk)'
      BY <1>10, <2>2 DEF PairOK
    <3> QED
      BY <3>1 DEF PairsOK
  <2> QED
    BY <2>1, <2>2
<1>13. LatestOK' /\ ResOK'
  BY <1>1, SameNames DEF Intact
<1>14. (\A v \in Versions : StageOK(v)') /\ OpenOK' /\ RestoreOK'
  BY <1>1, <1>9 DEF StageOK, Busy, OpenOK, Intact, RestoreOK
<1> QED
  BY <1>11, <1>12, <1>13, <1>14 DEF Intact

\* The worker loads what it has put, in the turn of the mutex.
LEMMA EndDownloadIntact == ASSUME TypeInv, Intact, EndDownload PROVE Intact'
<1>1. /\ UNCHANGED names /\ disk' = disk /\ job' = job /\ latest' = latest /\ acked' = acked /\ open' = open
      /\ dl.on /\ dl.todo = <<>> /\ lock = 0 /\ dl' = NoDownload /\ res' \in {res, Served(disk)}
  BY DEF EndDownload
<1>2. am' = am /\ nv' = nv /\ tidl' = tidl /\ width' = width
  BY <1>1 DEF names
<1>3. ~dl'.on
  BY <1>1, NoDownloadOff
<1>4. (\A v \in Versions : job[v].st # "commit") /\ PairOK(disk)
  <2>1. ~DownloadWindow
    BY <1>1 DEF DownloadWindow
  <2> QED
    BY <1>1, <2>1, NoCommit
<1>5. NewEnough(disk)' /\ OwnFiles(disk)' /\ LatestOK' /\ PairsOK'
  <2>1. \A f \in {"tids", "cagra", "ivfpq", "shards"} : disk'[f] = disk[f]
    BY <1>1
  <2> QED
    BY <1>1, <1>4, <2>1, SameFiles, SameNames DEF Intact, PairsOK
<1>6. ResOK'
  <2>1. PICK z : z = Served(disk)
    OBVIOUS
  <2>2. z.g # 0 => Whole(z) /\ z.g >= acked
    BY <1>4, <2>1, ServedOK DEF Intact
  <2>3. ResOK
    BY DEF Intact
  <2> QED
    BY <1>1, <1>2, <2>1, <2>2, <2>3 DEF ResOK, Whole
<1>7. (\A v \in Versions : StageOK(v)') /\ OpenOK' /\ RestoreOK'
  BY <1>1, <1>3, <1>4 DEF StageOK, Busy, OpenOK, Intact, RestoreOK
<1> QED
  BY <1>5, <1>6, <1>7 DEF Intact

LEMMA SpoiledStays == Spoiled /\ [Next]_vars => Spoiled'
BY AccidentsStay DEF Spoiled

\* Every step keeps what no accident has spoiled, unless it is itself one.
LEMMA NextIntact == TypeInv /\ Intact /\ [Next]_vars /\ ~Spoiled' => Intact'
<1> SUFFICES ASSUME TypeInv, Intact, [Next]_vars, ~Spoiled' PROVE Intact'
  OBVIOUS
<1>1. ASSUME NEW n \in Widths, NEW same \in BOOLEAN, StartBuild(n, same) PROVE Intact'
  BY <1>1, StartBuildIntact
<1>2. ASSUME NEW v \in Versions, NEW vok \in BOOLEAN, BeginCommit(v, vok) PROVE Intact'
  BY <1>2, BeginCommitIntact
<1>3. ASSUME NEW v \in Versions, Cancel(v) \/ BuildFails(v) \/ CommitStep(v) \/ CommitFails(v) \/ EndCommit(v) PROVE Intact'
  BY <1>3, CancelIntact, BuildFailsIntact, CommitStepIntact, CommitFailsIntact, EndCommitIntact
<1>4. ASSUME NEW v \in Versions, UploadStep(v) \/ Publish(v) \/ UploadFails(v) PROVE Intact'
  BY <1>4, UploadIntact, PublishIntact
<1>5. CASE Extend \/ Compact \/ Evict \/ SearchMiss \/ Crash
  BY <1>5, ExtendIntact, CompactIntact, EvictIntact, SearchMissIntact, CrashIntact
<1>6. CASE StartDownload \/ DownloadStep \/ DownloadFails \/ EndDownload
  BY <1>6, StartDownloadIntact, DownloadStepIntact, DownloadFailsIntact, EndDownloadIntact
<1>7. CASE UNCHANGED vars
  <2>1. /\ UNCHANGED names /\ disk' = disk /\ res' = res /\ job' = job /\ latest' = latest /\ dl' = dl /\ open' = open /\ acked' = acked
    BY <1>7 DEF vars, names
  <2>2. LatestOK'
    BY <2>1, SameNames DEF Intact
  <2>3. /\ \A v \in Versions : StageOK(v)'
        /\ NewEnough(disk)' /\ OwnFiles(disk)' /\ ResOK' /\ PairsOK' /\ RestoreOK' /\ OpenOK'
    BY <2>1, StageStays
  <2> QED
    BY <2>2, <2>3 DEF Intact
<1> QED
  BY <1>1, <1>2, <1>3, <1>4, <1>5, <1>6, <1>7 DEF Next

-----------------------------------------------------------------------------
(* The refinement.                                                         *)

\* What a load makes of the same files does not change.
LEMMA ServedSame ==
  ASSUME TypeInv, disk' = disk, \A v \in 0 .. nv : tidl'[v] = tidl[v] /\ width'[v] = width[v]
  PROVE  /\ Served(disk)' = Served(disk)
         /\ Whole(Served(disk))' <=> Whole(Served(disk))
<1>1. disk \in [Files -> 0 .. nv] /\ "shards" \in Files /\ "vecs" \in Files
  BY TypeFacts DEF Files
<1>2. PICK b, y : b = disk["shards"] /\ y = disk["vecs"] /\ b \in 0 .. nv /\ y \in 0 .. nv
  BY <1>1
<1>3. tidl'[b] = tidl[b] /\ width'[b] = width[b] /\ tidl'[y] = tidl[y]
  BY <1>2
<1>4. ShardsAccepted(disk)' <=> ShardsAccepted(disk)
  BY <1>2, <1>3 DEF ShardsAccepted
<1>5. Served(disk)' = Served(disk)
  BY <1>2, <1>3, <1>4 DEF Served
<1>6. PICK z : z = Served(disk)
  OBVIOUS
<1>7. z.g \in 0 .. nv
  BY <1>6, ServedType
<1>8. Whole(Served(disk))' <=> Whole(Served(disk))
  BY <1>5, <1>6, <1>7 DEF Whole
<1> QED
  BY <1>5, <1>8

\* A load finds nothing, or one whole version that is not older than what was confirmed.
LEMMA StoredFacts ==
  TypeInv /\ Intact =>
    /\ acked \in Nat /\ MaxV \in Nat
    /\ Stored = 0 \/ (Stored \in acked .. MaxV /\ Stored = Served(disk).g /\ lock = 0 /\ ~DownloadWindow /\ Whole(Served(disk)))
    /\ lock = 0 /\ ~DownloadWindow => Stored = Served(disk).g
<1> SUFFICES ASSUME TypeInv, Intact
             PROVE  /\ acked \in Nat /\ MaxV \in Nat
                    /\ Stored = 0 \/ (Stored \in acked .. MaxV /\ Stored = Served(disk).g /\ lock = 0 /\ ~DownloadWindow /\ Whole(Served(disk)))
                    /\ lock = 0 /\ ~DownloadWindow => Stored = Served(disk).g
  OBVIOUS
<1>1. acked \in Nat /\ MaxV \in Nat /\ nv \in Nat /\ nv <= MaxV
  BY TypeFacts DEF TypeInv, RestOK
<1>2. CASE lock # 0 \/ DownloadWindow
  BY <1>1, <1>2 DEF Stored, Held
<1>3. CASE lock = 0 /\ ~DownloadWindow
  <2>1. PairOK(disk)
    BY <1>3, NoCommit
  <2>2. PICK z : z = Served(disk)
    OBVIOUS
  <2>3. z.g # 0 => Whole(z) /\ z.g >= acked
    BY <2>1, <2>2, ServedOK DEF Intact
  <2>4. z.g \in 0 .. nv
    BY <2>2, ServedType
  <2>5. Whole(z)
    BY <2>3 DEF Whole
  <2>6. Stored = z.g
    BY <1>3, <2>2, <2>5 DEF Stored, Held
  <2> QED
    BY <1>1, <1>3, <2>2, <2>3, <2>4, <2>5, <2>6
<1> QED
  BY <1>2, <1>3

LEMMA StoredFactsAfter ==
  (TypeInv /\ Intact)' =>
    (/\ acked \in Nat /\ MaxV \in Nat
     /\ Stored = 0 \/ (Stored \in acked .. MaxV /\ Stored = Served(disk).g /\ lock = 0 /\ ~DownloadWindow /\ Whole(Served(disk)))
     /\ lock = 0 /\ ~DownloadWindow => Stored = Served(disk).g)'
BY StoredFacts, PTL

\* What a load finds when a commit is complete.
LEMMA CommitServes ==
  ASSUME TypeInv, Intact, NEW v \in Versions, job[v].st = "commit", Ran(job[v].todo) = {}, Accident(v) \subseteq why', ~Spoiled'
  PROVE  Served(disk).g = v
<1>1. /\ v \in 1 .. nv /\ disk["tids"] = tidl[v] /\ disk[Goal(v)] = v
      /\ Goal(v) = "shards" => \A f \in ShardsUpTo(width[v]) : disk[f] = v
      /\ Goal(v) = "cagra" => disk["shards"] = 0
      /\ Goal(v) \in {"shards", "ivfpq"} => disk["cagra"] = 0
      /\ Goal(v) \in {"cagra", "shards", "ivfpq", "vecs"}
      /\ am = "cagra" <=> Goal(v) \in {"cagra", "shards"}
      /\ am = "flat" <=> Goal(v) = "vecs"
      /\ am = "ivfpq" <=> Goal(v) = "ivfpq"
  BY CommitEnds
<1>2. tidl[v] \in 1 .. nv /\ tidl[v] # 0 /\ v # 0
  BY <1>1, TypeFacts
<1>3. OwnFiles(disk)
  BY DEF Intact
<1>4. PICK a, b, c, x, y : a = disk["tids"] /\ b = disk["shards"] /\ c = disk["cagra"] /\ x = disk["ivfpq"] /\ y = disk["vecs"]
  OBVIOUS
<1>5. a # 0 /\ a = tidl[v]
  BY <1>1, <1>2, <1>4
<1>6. PICK z : z = Served(disk)
  OBVIOUS
<1>7. CASE Goal(v) = "cagra"
  <2>1. b = 0 /\ c = v
    BY <1>1, <1>4, <1>7
  <2>2. z = [g |-> c, t |-> a]
    BY <1>2, <1>4, <1>5, <1>6, <2>1 DEF Served
  <2> QED
    BY <1>6, <2>1, <2>2
<1>8. CASE Goal(v) = "shards"
  <2>1. b = v
    BY <1>1, <1>4, <1>8
  <2>2. ShardsAccepted(disk)
    BY <1>1, <1>4, <1>5, <1>8, <2>1 DEF ShardsAccepted
  <2>3. z = [g |-> b, t |-> a]
    BY <1>2, <1>4, <1>5, <1>6, <2>1, <2>2 DEF Served
  <2> QED
    BY <1>6, <2>1, <2>3
<1>9. CASE Goal(v) = "ivfpq"
  <2>1. b = 0 /\ c = 0 /\ x = v
    BY <1>1, <1>3, <1>4, <1>9 DEF OwnFiles
  <2>2. z = [g |-> x, t |-> a]
    BY <1>2, <1>4, <1>5, <1>6, <2>1 DEF Served
  <2> QED
    BY <1>6, <2>1, <2>2
<1>10. CASE Goal(v) = "vecs"
  <2>1. b = 0 /\ c = 0 /\ x = 0 /\ y = v
    BY <1>1, <1>3, <1>4, <1>10 DEF OwnFiles
  <2>2. z = [g |-> y, t |-> a]
    BY <1>2, <1>4, <1>5, <1>6, <2>1 DEF Served
  <2> QED
    BY <1>6, <2>1, <2>2
<1> QED
  BY <1>1, <1>7, <1>8, <1>9, <1>10

\* A step that leaves the files, the mutex and the worker alone changes nothing for a load.
LEMMA StoredSame ==
  ASSUME TypeInv, disk' = disk, lock' = lock, dl' = dl, \A v \in 0 .. nv : tidl'[v] = tidl[v] /\ width'[v] = width[v]
  PROVE  Stored' = Stored
<1>1. DownloadWindow' <=> DownloadWindow
  BY DEF DownloadWindow
<1>2. Served(disk)' = Served(disk) /\ (Whole(Served(disk))' <=> Whole(Served(disk)))
  BY ServedSame
<1> QED
  BY <1>1, <1>2 DEF Stored, Held

\* The steps of the abstract specification, by what a step does to the files.
LEMMA Refines ==
  ASSUME TypeInv, Intact, TypeInv', Intact', ~Spoiled, ~Spoiled'
  PROVE  /\ acked' = acked /\ open' = open /\ (Stored' = Stored \/ open) => Recoverable!Change \/ UNCHANGED <<Stored, acked, open, Spoiled>>
         /\ acked' = acked /\ open' /\ Stored' \in {Stored, 0} => Recoverable!Attempt
         /\ open /\ Stored' # 0 /\ acked' = Stored' /\ acked' >= acked => Recoverable!Confirm
<1>1. /\ Stored' = 0 \/ Stored' \in acked' .. MaxV
      /\ acked \in Nat /\ acked' \in Nat /\ MaxV \in Nat
  BY StoredFacts, StoredFactsAfter
<1>2. Spoiled' = Spoiled
  <2>1. why' \ {"twin"} = {} /\ why \ {"twin"} = {}
    BY DEF Spoiled
  <2> QED
    BY <2>1 DEF Spoiled
<1>3. open' \in BOOLEAN /\ open \in BOOLEAN
  BY DEF TypeInv, RestOK
<1>4. ASSUME acked' = acked, open' = open, Stored' = Stored \/ open
      PROVE  Recoverable!Change \/ UNCHANGED <<Stored, acked, open, Spoiled>>
  <2>1. CASE open
    BY <1>1, <1>2, <1>3, <1>4, <2>1 DEF Recoverable!Change
  <2>2. CASE Stored' = Stored
    BY <1>2, <1>4, <2>2
  <2> QED
    BY <1>4, <2>1, <2>2
<1>5. ASSUME acked' = acked, open', Stored' \in {Stored, 0}
      PROVE  Recoverable!Attempt
  BY <1>2, <1>5 DEF Recoverable!Attempt
<1>6. ASSUME open, Stored' # 0, acked' = Stored', acked' >= acked
      PROVE  Recoverable!Confirm
  <2>1. Stored' \in acked .. MaxV
    BY <1>1, <1>6
  <2> QED
    BY <1>2, <1>3, <1>6, <2>1 DEF Recoverable!Confirm
<1> QED
  BY <1>4, <1>5, <1>6

LEMMA InitRefines == Init => Recoverable!Init
<1> SUFFICES ASSUME Init PROVE Recoverable!Init
  OBVIOUS
<1>1. disk["tids"] = 0 /\ lock = 0 /\ acked = 0 /\ open = FALSE /\ why = {} /\ dl = NoDownload
  BY ShardNames DEF Init
<1>2. ~DownloadWindow
  BY <1>1, NoDownloadOff DEF DownloadWindow
<1>3. PICK z : z = Served(disk)
  OBVIOUS
<1>4. z = [g |-> 0, t |-> 0]
  BY <1>1, <1>3 DEF Served, NoEntry
<1>5. Stored = 0
  BY <1>1, <1>2, <1>3, <1>4 DEF Stored, Held, Whole
<1> QED
  BY <1>1, <1>5 DEF Recoverable!Init, Spoiled

\* What a thread does to the files, with an attempt under way.
LEMMA ThreadRefines ==
  ASSUME TypeInv, Intact, TypeInv', Intact', ~Spoiled, ~Spoiled', NEW v \in Versions,
         Cancel(v) \/ BuildFails(v) \/ (\E vok \in BOOLEAN : BeginCommit(v, vok)) \/ CommitStep(v) \/ CommitFails(v) \/ EndCommit(v)
  PROVE  Recoverable!Next \/ UNCHANGED <<Stored, acked, open, Spoiled>>
<1>1. job[v].st # "idle" => open
  BY DEF Intact, OpenOK
<1>2. CASE Cancel(v)
  <2>1. UNCHANGED names /\ disk' = disk /\ lock' = lock /\ dl' = dl /\ acked' = acked /\ open' = open
    BY <1>2 DEF Cancel, files, cloud
  <2>2. Stored' = Stored
    BY <2>1, StoredSame DEF names
  <2> QED
    BY <2>1, <2>2, Refines DEF Recoverable!Next
<1>3. CASE BuildFails(v) \/ (\E vok \in BOOLEAN : BeginCommit(v, vok)) \/ CommitStep(v) \/ CommitFails(v)
  <2>1. job[v].st # "idle" /\ acked' = acked /\ open' = open
    BY <1>3 DEF BuildFails, BeginCommit, CommitStep, CommitFails
  <2> QED
    BY <1>1, <2>1, Refines DEF Recoverable!Next
<1>4. CASE EndCommit(v)
  <2>1. /\ job[v].st = "commit" /\ Accident(v) \subseteq why' /\ lock' = 0 /\ disk' = disk /\ dl' = dl /\ UNCHANGED names
        /\ (acked' = v \/ (acked' = acked /\ open' = open))
    BY <1>4 DEF EndCommit
  <2>2. Ran(job[v].todo) = {}
    <3>1. job[v].todo = <<>>
      BY <1>4 DEF EndCommit
    <3> QED
      BY <3>1, RanShort
  <2>3. ~dl.on /\ v >= acked /\ v \in 1 .. nv
    BY <2>1, <2>2, CommitEnds
  <2>4. Served(disk).g = v
    BY <2>1, <2>2, CommitServes
  <2>5. Served(disk)' = Served(disk)
    BY <2>1, ServedSame DEF names
  <2>6. lock' = 0 /\ ~DownloadWindow'
    BY <2>1, <2>3 DEF DownloadWindow
  <2>7. Stored' = v
    BY <2>4, <2>5, <2>6, StoredFactsAfter
  <2>8. CASE acked' = v
    <3>1. open /\ v # 0
      BY <1>1, <2>1, <2>3
    <3>2. open /\ Stored' # 0 /\ acked' = Stored' /\ acked' >= acked
      BY <2>3, <2>7, <2>8, <3>1
    <3>3. Recoverable!Confirm
      BY <3>2, Refines
    <3> QED
      BY <3>3 DEF Recoverable!Next
  <2>9. CASE acked' = acked /\ open' = open
    BY <1>1, <2>1, <2>9, Refines DEF Recoverable!Next
  <2> QED
    BY <2>1, <2>8, <2>9
<1> QED
  BY <1>2, <1>3, <1>4

\* What happens to the resident entry, and a restart.
LEMMA EntryRefines ==
  ASSUME TypeInv, Intact, TypeInv', Intact', ~Spoiled, ~Spoiled',
         Extend \/ Compact \/ Evict \/ SearchMiss \/ Crash
  PROVE  Recoverable!Next \/ UNCHANGED <<Stored, acked, open, Spoiled>>
<1>1. CASE Extend
  <2>1. NewVersion(0, FALSE) /\ disk' = disk /\ lock' = lock /\ UNCHANGED cloud /\ acked' = acked /\ open' = open /\ 0 \in Widths
    BY <1>1 DEF Extend, Widths
  <2>2. (\A v \in 0 .. nv : tidl'[v] = tidl[v] /\ width'[v] = width[v]) /\ dl' = dl
    BY <2>1, Growth DEF cloud
  <2>3. Stored' = Stored
    BY <2>1, <2>2, StoredSame
  <2> QED
    BY <2>1, <2>3, Refines DEF Recoverable!Next
<1>2. CASE Compact
  <2>1. lock' = nv + 1 /\ nv \in Nat /\ acked' = acked /\ open'
    BY <1>2, TypeFacts DEF Compact
  <2>2. Stored' = 0
    BY <2>1 DEF Stored, Held
  <2> QED
    BY <2>1, <2>2, Refines DEF Recoverable!Next
<1>3. CASE Evict /\ Graph
  <2>1. lock' = res.g /\ res.g # 0 /\ acked' = acked /\ open'
    BY <1>3 DEF Evict
  <2>2. Stored' = 0
    BY <2>1 DEF Stored, Held
  <2> QED
    BY <2>1, <2>2, Refines DEF Recoverable!Next
<1>4. CASE (Evict /\ ~Graph) \/ SearchMiss
  <2>1. UNCHANGED names /\ disk' = disk /\ lock' = lock /\ dl' = dl /\ acked' = acked /\ open' = open
    BY <1>4 DEF Evict, SearchMiss, cloud
  <2>2. Stored' = Stored
    BY <2>1, StoredSame DEF names
  <2> QED
    BY <2>1, <2>2, Refines DEF Recoverable!Next
<1>5. CASE Crash
  <2>1. UNCHANGED names /\ disk' = disk /\ lock' = 0 /\ dl' = NoDownload /\ acked' = acked /\ open' = open
    BY <1>5 DEF Crash
  <2>2. CASE open
    BY <2>1, <2>2, Refines DEF Recoverable!Next
  <2>3. CASE ~open
    <3>1. ~dl.on /\ \A v \in Versions : job[v].st # "commit"
      BY <2>3 DEF Intact, OpenOK
    <3>2. lock = 0
      BY <3>1, TypeFacts
    <3>3. ~DownloadWindow /\ ~DownloadWindow'
      BY <2>1, <3>1, NoDownloadOff DEF DownloadWindow
    <3>4. Served(disk)' = Served(disk)
      BY <2>1, ServedSame DEF names
    <3>5. Stored' = Stored
      BY <2>1, <3>2, <3>3, <3>4, StoredFacts, StoredFactsAfter
    <3> QED
      BY <2>1, <3>5, Refines DEF Recoverable!Next
  <2> QED
    BY <2>2, <2>3
<1> QED
  BY <1>1, <1>2, <1>3, <1>4, <1>5

\* What the object store does.
LEMMA CloudRefines ==
  ASSUME TypeInv, Intact, TypeInv', Intact', ~Spoiled, ~Spoiled',
         \/ \E v \in Versions : UploadStep(v) \/ Publish(v) \/ UploadFails(v)
         \/ StartDownload \/ DownloadStep \/ DownloadFails \/ EndDownload
  PROVE  Recoverable!Next \/ UNCHANGED <<Stored, acked, open, Spoiled>>
<1>1. CASE (\E v \in Versions : UploadStep(v) \/ Publish(v) \/ UploadFails(v)) \/ (StartDownload /\ latest = NoManifest)
  <2>1. UNCHANGED names /\ disk' = disk /\ lock' = lock /\ dl' = dl /\ acked' = acked /\ open' = open
    BY <1>1 DEF UploadStep, Publish, UploadFails, StartDownload, files
  <2>2. Stored' = Stored
    BY <2>1, StoredSame DEF names
  <2> QED
    BY <2>1, <2>2, Refines DEF Recoverable!Next
<1>2. CASE StartDownload /\ latest # NoManifest
  <2>1. UNCHANGED names /\ disk' = disk /\ lock' = lock /\ acked' = acked /\ open' /\ ~dl.on
    BY <1>2 DEF StartDownload, files
  <2>2. ~DownloadWindow
    BY <2>1 DEF DownloadWindow
  <2>3. Served(disk)' = Served(disk)
    BY <2>1, ServedSame DEF names
  <2>4. Stored' \in {Stored, 0}
    BY <2>1, <2>2, <2>3, StoredFacts, StoredFactsAfter
  <2> QED
    BY <2>1, <2>4, Refines DEF Recoverable!Next
<1>3. CASE DownloadStep \/ DownloadFails \/ EndDownload
  <2>1. dl.on /\ acked' = acked /\ open' = open
    BY <1>3 DEF DownloadStep, DownloadFails, EndDownload
  <2>2. open
    BY <2>1 DEF Intact, OpenOK
  <2> QED
    BY <2>1, <2>2, Refines DEF Recoverable!Next
<1> QED
  BY <1>1, <1>2, <1>3

\* A build starts: what is stored stays, and may be replaced from now on.
LEMMA StartBuildRefines ==
  ASSUME TypeInv, Intact, TypeInv', Intact', ~Spoiled, ~Spoiled', NEW n \in Widths, NEW same \in BOOLEAN, StartBuild(n, same)
  PROVE  Recoverable!Next \/ UNCHANGED <<Stored, acked, open, Spoiled>>
<1>1. NewVersion(n, same) /\ disk' = disk /\ lock' = lock /\ UNCHANGED cloud /\ acked' = acked /\ open' /\ dl' = dl
  BY DEF StartBuild, files, cloud
<1>2. \A v \in 0 .. nv : tidl'[v] = tidl[v] /\ width'[v] = width[v]
  BY <1>1, Growth
<1>3. Stored' = Stored
  BY <1>1, <1>2, StoredSame
<1> QED
  BY <1>1, <1>3, Refines DEF Recoverable!Next

-----------------------------------------------------------------------------
(* Brute force and graph.                                                  *)

\* A .vectors and a graph with the same list of TIDs, of which neither is of version
\* x, are of one version.
Fits(d, x) ==
  \A f \in {"cagra", "shards"} :
    d["vecs"] # 0 /\ d[f] # 0 /\ tidl[d["vecs"]] = tidl[d[f]] /\ x \notin {d["vecs"], d[f]} => d["vecs"] = d[f]

\* Thread v has put the file that makes its version whole.
Placed(v) == \A f : ~Writes(job[v].todo, f)

FitsOK == Fits(disk, 0) \/ \E v \in Versions : job[v].st = "commit" /\ Placed(v) /\ Fits(disk, v)

\* .vectors is of the resident graph, or that of a build about to replace it.
FitsRes ==
  res.g # 0 /\ disk["vecs"] # 0 /\ tidl[disk["vecs"]] = tidl[res.g] =>
    \/ disk["vecs"] = res.g
    \/ \E v \in Versions : job[v].st = "commit" /\ job[v].op = "build" /\ Placed(v)

\* A .vectors that was there before the download is of the version that comes.
FitsDl ==
  dl.on /\ disk["vecs"] # 0 /\ tidl[disk["vecs"]] = dl.m.obj["tids"] => disk["vecs"] = SnapshotVersion(dl.m)

\* What no accident at all has spoiled.
Fitting == am = "cagra" => FitsOK /\ FitsRes /\ FitsDl

LEMMA InitFitting == ASSUME Init PROVE Fitting
<1>1. disk["vecs"] = 0
  BY ShardNames DEF Init
<1> QED
  BY <1>1 DEF Fitting, FitsOK, Fits, FitsRes, FitsDl

\* The names of the versions that exist stay.
Named == am' = am /\ nv \in Nat /\ disk \in [Files -> 0 .. nv] /\ \A v \in 0 .. nv : tidl'[v] = tidl[v]

LEMMA SameNamed == ASSUME TypeInv, UNCHANGED names PROVE Named
BY TypeFacts DEF names, Named

\* Files that go do no harm.
LEMMA FitsStay ==
  ASSUME Named, NEW x, disk'["vecs"] \in {0, disk["vecs"]}, \A f \in {"cagra", "shards"} : disk'[f] \in {0, disk[f]}, Fits(disk, x)
  PROVE  Fits(disk, x)'
<1>1. \A f \in {"vecs", "cagra", "shards"} : disk[f] \in 0 .. nv /\ tidl'[disk[f]] = tidl[disk[f]]
  BY DEF Named, Files
<1> QED
  BY <1>1 DEF Fits

\* The same for the entry, which a step without a change keeps.
LEMMA ResStays ==
  ASSUME TypeInv, Named, disk'["vecs"] \in {0, disk["vecs"]}, res' = res, res.g # 0 /\ disk["vecs"] # 0 /\ tidl[disk["vecs"]] = tidl[res.g] => disk["vecs"] = res.g
  PROVE  FitsRes'
<1>1. disk["vecs"] \in 0 .. nv /\ res.g \in 0 .. nv
  BY DEF Named, Files, TypeInv, RestOK
<1>2. tidl'[disk["vecs"]] = tidl[disk["vecs"]] /\ tidl'[res.g] = tidl[res.g]
  BY <1>1 DEF Named
<1> QED
  BY <1>2 DEF FitsRes

LEMMA DlStays ==
  ASSUME Named, disk'["vecs"] \in {0, disk["vecs"]}, dl' = dl \/ ~dl'.on, FitsDl
  PROVE  FitsDl'
<1>1. CASE ~dl'.on
  BY <1>1 DEF FitsDl
<1>2. CASE dl' = dl
  <2>1. tidl'[disk["vecs"]] = tidl[disk["vecs"]]
    BY DEF Named, Files
  <2>2. SnapshotVersion(dl.m)' = SnapshotVersion(dl.m) /\ dl'.on = dl.on /\ dl'.m = dl.m
    BY <1>2 DEF SnapshotVersion
  <2> QED
    BY <2>1, <2>2 DEF FitsDl
<1> QED
  BY <1>1, <1>2

\* Without a commit nothing is in between.
LEMMA FitsQuiet ==
  ASSUME Fitting, am = "cagra", \A v \in Versions : job[v].st # "commit"
  PROVE  /\ Fits(disk, 0) /\ FitsDl
         /\ res.g # 0 /\ disk["vecs"] # 0 /\ tidl[disk["vecs"]] = tidl[res.g] => disk["vecs"] = res.g
BY DEF Fitting, FitsOK, FitsRes

\* A step that leaves graphs, entry and the lists of the commits alone.
LEMMA FitStays ==
  ASSUME TypeInv, Fitting, Named, disk'["vecs"] \in {0, disk["vecs"]}, \A f \in {"cagra", "shards"} : disk'[f] \in {0, disk[f]},
         res' = res, dl' = dl \/ ~dl'.on,
         \A v \in Versions : job[v].st = "commit" => job'[v].st = "commit" /\ job'[v].todo = job[v].todo /\ job'[v].op = job[v].op
  PROVE  Fitting'
<1> SUFFICES ASSUME am' = "cagra" PROVE FitsOK' /\ FitsRes' /\ FitsDl'
  BY DEF Fitting
<1>1. FitsOK /\ FitsRes /\ FitsDl
  BY DEF Fitting, Named
<1>2. \A v \in Versions : job[v].st = "commit" /\ Placed(v) => job'[v].st = "commit" /\ Placed(v)' /\ job'[v].op = job[v].op
  BY DEF Placed
<1>3. FitsOK'
  <2>1. CASE Fits(disk, 0)
    BY <2>1, FitsStay DEF FitsOK
  <2>2. ASSUME NEW v \in Versions, job[v].st = "commit", Placed(v), Fits(disk, v) PROVE FitsOK'
    <3>1. Fits(disk, v)'
      BY <2>2, FitsStay
    <3> QED
      BY <1>2, <2>2, <3>1 DEF FitsOK
  <2> QED
    BY <1>1, <2>1, <2>2 DEF FitsOK
<1>4. FitsRes'
  <2>1. CASE res.g # 0 /\ disk["vecs"] # 0 /\ tidl[disk["vecs"]] = tidl[res.g] => disk["vecs"] = res.g
    BY <2>1, ResStays
  <2>2. CASE \E v \in Versions : job[v].st = "commit" /\ job[v].op = "build" /\ Placed(v)
    BY <1>2, <2>2 DEF FitsRes
  <2> QED
    BY <1>1, <2>1, <2>2 DEF FitsRes
<1>5. FitsDl'
  BY <1>1, DlStays
<1> QED
  BY <1>3, <1>4, <1>5

\* The same for a step that waits for the mutex, and may change the entry.
LEMMA FitAlone ==
  ASSUME TypeInv, Fitting, Named, disk'["vecs"] \in {0, disk["vecs"]}, \A f \in {"cagra", "shards"} : disk'[f] \in {0, disk[f]},
         lock = 0, dl' = dl \/ ~dl'.on, res' = res \/ (am = "cagra" => FitsRes')
  PROVE  Fitting'
<1> SUFFICES ASSUME am' = "cagra" PROVE FitsOK' /\ FitsRes' /\ FitsDl'
  BY DEF Fitting
<1>1. am = "cagra" /\ \A v \in Versions : job[v].st # "commit"
  BY TypeFacts DEF Named
<1>2. /\ Fits(disk, 0) /\ FitsDl
      /\ res.g # 0 /\ disk["vecs"] # 0 /\ tidl[disk["vecs"]] = tidl[res.g] => disk["vecs"] = res.g
  BY <1>1, FitsQuiet
<1>3. Fits(disk, 0)'
  BY <1>2, FitsStay
<1>4. FitsRes'
  BY <1>1, <1>2, ResStays
<1>5. FitsDl'
  BY <1>2, DlStays
<1> QED
  BY <1>3, <1>4, <1>5 DEF FitsOK

\* A load finds a .vectors that fits.
LEMMA ServedFits ==
  ASSUME Fits(disk, 0), OwnFiles(disk), am = "cagra", Served(disk).g # 0, disk["vecs"] # 0, tidl[disk["vecs"]] = tidl[Served(disk).g]
  PROVE  disk["vecs"] = Served(disk).g
<1>1. PICK a, b, c, x, y : a = disk["tids"] /\ b = disk["shards"] /\ c = disk["cagra"] /\ x = disk["ivfpq"] /\ y = disk["vecs"]
  OBVIOUS
<1>2. x = 0 /\ y # 0
  BY <1>1 DEF OwnFiles
<1>3. \A g \in {b, c} : g # 0 /\ tidl[y] = tidl[g] => y = g
  BY <1>1, <1>2 DEF Fits
<1>4. PICK z : z = Served(disk)
  OBVIOUS
<1>5. CASE a = 0
  <2>1. z = [g |-> 0, t |-> 0]
    BY <1>1, <1>4, <1>5 DEF Served, NoEntry
  <2> QED
    BY <1>4, <2>1
<1>6. CASE a # 0 /\ b # 0
  <2>1. z = [g |-> 0, t |-> 0] \/ z = [g |-> b, t |-> a]
    BY <1>1, <1>4, <1>6 DEF Served, NoEntry
  <2> QED
    BY <1>1, <1>3, <1>4, <1>6, <2>1
<1>7. CASE a # 0 /\ b = 0 /\ c = 0
  <2>1. z = [g |-> 0, t |-> 0] \/ z = [g |-> y, t |-> a]
    BY <1>1, <1>2, <1>4, <1>7 DEF Served, NoEntry
  <2> QED
    BY <1>1, <1>4, <2>1
<1>8. CASE a # 0 /\ b = 0 /\ c # 0
  <2>1. z = [g |-> c, t |-> a]
    BY <1>1, <1>4, <1>8 DEF Served
  <2> QED
    BY <1>1, <1>3, <1>4, <1>8, <2>1
<1> QED
  BY <1>5, <1>6, <1>7, <1>8

LEMMA LoadFits ==
  ASSUME TypeInv, Named, disk' = disk, res' = Served(disk), Fits(disk, 0), OwnFiles(disk), am = "cagra"
  PROVE  FitsRes'
<1>1. PICK z : z = Served(disk)
  OBVIOUS
<1>2. z.g \in 0 .. nv /\ disk["vecs"] \in 0 .. nv
  BY <1>1, ServedType DEF Named, Files
<1>3. tidl'[z.g] = tidl[z.g] /\ tidl'[disk["vecs"]] = tidl[disk["vecs"]]
  BY <1>2 DEF Named
<1>4. z.g # 0 /\ disk["vecs"] # 0 /\ tidl[disk["vecs"]] = tidl[z.g] => disk["vecs"] = z.g
  BY <1>1, ServedFits
<1> QED
  BY <1>1, <1>3, <1>4 DEF FitsRes

\* A row that is added has a TID that no version had.
LEMMA RowFits ==
  ASSUME TypeInv, Intact, NewVersion(0, FALSE), disk' = disk, acked' = acked, UNCHANGED cloud, res'.g = nv + 1
  PROVE  Named /\ FitsRes'
<1>1. 0 \in Widths
  BY DEF Widths
<1>2. am' = am /\ nv \in Nat /\ disk \in [Files -> 0 .. nv] /\ \A v \in 0 .. nv : tidl'[v] = tidl[v]
  BY <1>1, Growth, TypeFacts
<1>3. tidl'[nv + 1] = nv + 1
  BY <1>1, Grow
<1>4. disk["vecs"] # 0 => tidl[disk["vecs"]] \in 0 .. nv /\ tidl'[disk["vecs"]] = tidl[disk["vecs"]]
  <2>1. disk["vecs"] \in 0 .. nv
    BY <1>2 DEF Files
  <2> QED
    BY <1>2, <2>1, TypeFacts
<1>5. Named
  BY <1>2 DEF Named
<1>6. FitsRes'
  BY <1>2, <1>3, <1>4 DEF FitsRes
<1> QED
  BY <1>5, <1>6

LEMMA StartBuildFits ==
  ASSUME TypeInv, Intact, Fitting, NEW n \in Widths, NEW same \in BOOLEAN, StartBuild(n, same) PROVE Fitting'
<1>1. NewVersion(n, same) /\ disk' = disk /\ acked' = acked /\ UNCHANGED cloud /\ res' = res /\ dl' = dl
  BY DEF StartBuild, files, cloud
<1>2. nv + 1 \in Versions /\ job[nv + 1].st = "idle" /\ nv \in Nat /\ DOMAIN job = Versions
  <2>1. nv' = nv + 1 /\ nv' \in Versions /\ job[nv + 1].st = "idle"
    BY <1>1, Grow
  <2> QED
    BY <2>1, TypeFacts DEF TypeInv
<1>3. Named
  BY <1>1, Growth, TypeFacts DEF Named
<1>4. \A v \in Versions : v # nv + 1 => job'[v] = job[v]
  <2>1. PICK k : k = [NoJob EXCEPT !.st = "gpu", !.live = TRUE, !.t = tidl'[nv + 1]]
    OBVIOUS
  <2>2. job' = [job EXCEPT ![nv + 1] = k]
    BY <2>1 DEF StartBuild
  <2> QED
    BY <1>2, <2>2
<1>5. \A v \in Versions : job[v].st = "commit" => job'[v].st = "commit" /\ job'[v].todo = job[v].todo /\ job'[v].op = job[v].op
  BY <1>2, <1>4
<1> QED
  BY <1>1, <1>3, <1>5, FitStays

LEMMA OutsideFits ==
  ASSUME TypeInv, Intact, Fitting,
         \/ \E v \in Versions : Cancel(v) \/ UploadStep(v) \/ Publish(v) \/ UploadFails(v)
         \/ UNCHANGED vars
  PROVE  Fitting'
<1>1. UNCHANGED names /\ disk' = disk /\ res' = res /\ dl' = dl
  BY DEF Cancel, UploadStep, Publish, UploadFails, files, cloud, names, vars
<1>2. Named
  BY <1>1, SameNamed
<1>3. \A w \in Versions : job'[w].st = job[w].st /\ job'[w].op = job[w].op /\ job'[w].todo = job[w].todo
  <2>1. ASSUME NEW v \in Versions, Cancel(v), NEW w \in Versions
        PROVE  job'[w].st = job[w].st /\ job'[w].op = job[w].op /\ job'[w].todo = job[w].todo
    <3>1. job' = [job EXCEPT ![v].live = FALSE]
      BY <2>1 DEF Cancel
    <3> QED
      BY <3>1 DEF TypeInv
  <2>2. ASSUME NEW v \in Versions, UploadStep(v) \/ Publish(v) \/ UploadFails(v) PROVE job' = job
    BY <2>2 DEF UploadStep, Publish, UploadFails
  <2>3. UNCHANGED vars => job' = job
    BY DEF vars
  <2> QED
    BY <2>1, <2>2, <2>3
<1> QED
  BY <1>1, <1>2, <1>3, FitStays

\* What waits for the mutex: a build before its commit, rows that are added, eviction.
LEMMA AloneFits ==
  ASSUME TypeInv, Intact, Fitting,
         \/ \E v \in Versions : BuildFails(v) \/ \E vok \in BOOLEAN : BeginCommit(v, vok)
         \/ Extend \/ Compact \/ Evict
  PROVE  Fitting'
<1>1. CASE \E v \in Versions : BuildFails(v) \/ \E vok \in BOOLEAN : BeginCommit(v, vok)
  <2>1. UNCHANGED names /\ lock = 0 /\ res' = res /\ dl' = dl /\ (disk' = disk \/ disk' = Unlink(disk, {"vecs"}))
    BY <1>1 DEF BuildFails, BeginCommit, cloud
  <2>2. disk'["vecs"] \in {0, disk["vecs"]} /\ \A f \in {"cagra", "shards"} : disk'[f] \in {0, disk[f]}
    BY <2>1 DEF Unlink, Files
  <2> QED
    BY <2>1, <2>2, SameNamed, FitAlone
<1>2. CASE Extend \/ Compact
  <2>1. /\ NewVersion(0, FALSE) /\ disk' = disk /\ acked' = acked /\ UNCHANGED cloud /\ lock = 0 /\ dl' = dl
        /\ res' = [g |-> nv + 1, t |-> IF Whole(res) THEN nv + 1 ELSE res.t]
    BY <1>2 DEF Extend, Compact, cloud
  <2>2. res'.g = nv + 1
    BY <2>1
  <2>3. Named /\ FitsRes'
    BY <2>1, <2>2, RowFits
  <2> QED
    BY <2>1, <2>3, FitAlone
<1>3. CASE Evict
  <2>1. UNCHANGED names /\ lock = 0 /\ disk' = disk /\ dl' = dl /\ (res' = res \/ res' = NoEntry)
    BY <1>3 DEF Evict, cloud
  <2>2. res' = NoEntry => FitsRes'
    BY DEF FitsRes, NoEntry
  <2> QED
    BY <2>1, <2>2, SameNamed, FitAlone
<1> QED
  BY <1>1, <1>2, <1>3

\* What loads the files.
LEMMA LoadsFit ==
  ASSUME TypeInv, Intact, Fitting, why' = {}, SearchMiss \/ EndDownload
  PROVE  Fitting'
<1>1. /\ UNCHANGED names /\ disk' = disk /\ lock = 0 /\ (dl' = dl \/ dl' = NoDownload) /\ (res' = res \/ res' = Served(disk))
  BY DEF SearchMiss, EndDownload
<1>2. Named /\ (dl' = dl \/ ~dl'.on)
  BY <1>1, SameNamed, NoDownloadOff
<1>3. ASSUME am = "cagra", res' = Served(disk) PROVE FitsRes'
  <2>1. \A v \in Versions : job[v].st # "commit"
    BY <1>1, <1>3, TypeFacts
  <2>2. Fits(disk, 0) /\ OwnFiles(disk)
    BY <1>3, <2>1, FitsQuiet DEF Intact
  <2> QED
    BY <1>1, <1>2, <1>3, <2>2, LoadFits
<1> QED
  BY <1>1, <1>2, <1>3, FitAlone

\* A restart while no commit replaces files of another version with the same list of TIDs.
LEMMA CrashFits == ASSUME TypeInv, Intact, Fitting, Crash, why' = {} PROVE Fitting'
<1>1. UNCHANGED names /\ disk' = disk /\ dl' = NoDownload /\ res' = Served(disk) /\ \A v \in Versions : ~TwinWindow(v)
  BY DEF Crash
<1>2. Named /\ ~dl'.on
  BY <1>1, SameNamed, NoDownloadOff
<1> SUFFICES ASSUME am' = "cagra" PROVE FitsOK' /\ FitsRes' /\ FitsDl'
  BY DEF Fitting
<1>3. am = "cagra" /\ FitsOK
  BY <1>2 DEF Fitting, Named
<1>4. Fits(disk, 0)
  <2>1. ASSUME NEW v \in Versions, job[v].st = "commit", Fits(disk, v) PROVE Fits(disk, 0)
    <3>1. Busy(v) /\ StageOK(v)
      BY <1>3, <2>1 DEF Busy, Intact
    <3>2. job[v].t = tidl[v]
      BY <3>1 DEF StageOK
    <3>3. \A f \in {"cagra", "shards", "vecs"} : disk[f] \in {0, v} \/ tidl[disk[f]] # tidl[v]
      BY <1>1, <2>1, <3>2 DEF TwinWindow
    <3> QED
      BY <2>1, <3>3 DEF Fits
  <2> QED
    BY <1>3, <2>1 DEF FitsOK
<1>5. Fits(disk, 0)'
  BY <1>1, <1>2, <1>4, FitsStay
<1>6. FitsRes'
  BY <1>1, <1>2, <1>3, <1>4, LoadFits DEF Intact
<1>7. FitsDl'
  BY <1>2 DEF FitsDl
<1> QED
  BY <1>5, <1>6, <1>7 DEF FitsOK

\* A download whose snapshot is not a twin of the .vectors on the disk.
LEMMA StartDownloadFits == ASSUME TypeInv, Intact, Fitting, StartDownload, why' = {} PROVE Fitting'
<1>1. UNCHANGED names /\ disk' = disk /\ res' = res /\ job' = job
  BY DEF StartDownload, files
<1>2. Named
  BY <1>1, SameNamed
<1>3. CASE dl' = dl
  BY <1>1, <1>2, <1>3, FitStays
<1>4. CASE dl' # dl
  <2>1. dl' = [on |-> TRUE, todo |-> DownloadOps(latest), m |-> latest] /\ ~TwinSnapshot
    BY <1>4 DEF StartDownload
  <2>2. PICK m, s : m = latest /\ s = DownloadOps(latest)
    OBVIOUS
  <2>3. dl'.m = m
    BY <2>1, <2>2
  <2>4. disk["vecs"] # 0 /\ tidl[disk["vecs"]] = m.obj["tids"] => disk["vecs"] = SnapshotVersion(m)
    BY <2>1, <2>2 DEF TwinSnapshot
  <2>5. tidl' = tidl /\ SnapshotVersion(m)' = SnapshotVersion(m)
    BY <1>1 DEF names, SnapshotVersion
  <2>6. FitsDl'
    BY <1>1, <2>3, <2>4, <2>5 DEF FitsDl
  <2>7. am = "cagra" => FitsOK' /\ FitsRes'
    <3>1. \A v, x : (Placed(v)' <=> Placed(v)) /\ (Fits(disk, x)' <=> Fits(disk, x))
      BY <1>1, <2>5 DEF Placed, Fits
    <3> QED
      BY <1>1, <2>5, <3>1 DEF Fitting, FitsOK, FitsRes
  <2> QED
    BY <1>2, <2>6, <2>7 DEF Fitting, Named
<1> QED
  BY <1>3, <1>4

LEMMA DownloadStepFits == ASSUME TypeInv, Intact, Fitting, DownloadStep, why' = {} PROVE Fitting'
<1>1. /\ UNCHANGED names /\ res' = res /\ dl.on /\ dl.todo # <<>> /\ \A v \in Versions : job[v].st # "commit"
  BY DEF DownloadStep, Racing
<1>2. Named /\ ~Spoiled'
  BY <1>1, SameNamed DEF Spoiled
<1>3. PICK s, q, r, n : s = dl.todo /\ q = Head(s) /\ r = Tail(s) /\ n = dl.m.n
  OBVIOUS
<1>4. Fetching(s, q, r, n)
  BY <1>1, <1>3 DEF First, Fetching
<1>5. PICK x \in 1 .. nv : SnapOK(dl.m, x)
  BY <1>1 DEF Intact, RestoreOK
<1>6. /\ am = "cagra" /\ n \in Widths /\ q.f \notin {"ivfpq", "vecs"}
      /\ dl.m.obj[q.f] = IF q.f = "tids" THEN tidl[x] ELSE x
      /\ \A f \in Files : disk'[f] = IF f = q.f /\ q.do = "put" THEN dl.m.obj[f] ELSE disk[f]
      /\ dl'.on /\ dl'.m = dl.m
  BY <1>2, <1>4, <1>5, FetchFiles
<1>7. {"tids", "cagra", "ivfpq", "shards", "vecs"} \subseteq Files
  BY DEF Files
<1>8. disk'["cagra"] \in {disk["cagra"], x} /\ disk'["shards"] \in {disk["shards"], x} /\ disk'["vecs"] = disk["vecs"]
  BY <1>6, <1>7
<1>9. dl.m.obj["tids"] = tidl[x] /\ SnapshotVersion(dl.m) = x
  <2>1. PICK m : m = dl.m
    OBVIOUS
  <2>2. "tids" \in SnapFiles(n) /\ Main(n) \in SnapFiles(n) /\ SnapFiles(n) \subseteq Files /\ Main(n) # "tids"
    BY <1>6, SnapFilesFacts
  <2>3. m.obj["tids"] = tidl[x] /\ m.obj[Main(n)] = x
    BY <1>3, <1>5, <2>1, <2>2 DEF SnapOK, Content
  <2> QED
    BY <1>3, <2>1, <2>3 DEF SnapshotVersion, Main
<1>10. /\ Fits(disk, 0) /\ FitsDl
       /\ res.g # 0 /\ disk["vecs"] # 0 /\ tidl[disk["vecs"]] = tidl[res.g] => disk["vecs"] = res.g
  BY <1>1, <1>6, FitsQuiet
<1>11. disk["vecs"] # 0 /\ tidl[disk["vecs"]] = tidl[x] => disk["vecs"] = x
  BY <1>1, <1>9, <1>10 DEF FitsDl
<1>12. tidl' = tidl /\ am' = am
  BY <1>1 DEF names
<1>13. Fits(disk, 0)'
  BY <1>8, <1>10, <1>11, <1>12 DEF Fits
<1>14. FitsRes'
  BY <1>1, <1>2, <1>8, <1>10, ResStays
<1>15. FitsDl'
  <2>1. PICK m : m = dl.m
    OBVIOUS
  <2>2. SnapshotVersion(m)' = SnapshotVersion(m)
    BY DEF SnapshotVersion
  <2> QED
    BY <1>6, <1>8, <1>9, <1>11, <1>12, <2>1, <2>2 DEF FitsDl
<1> QED
  BY <1>13, <1>14, <1>15 DEF Fitting, FitsOK

LEMMA DownloadFailsFits == ASSUME TypeInv, Intact, Fitting, DownloadFails, why' = {} PROVE Fitting'
<1>1. /\ UNCHANGED names /\ res' = res /\ dl.on /\ dl.todo # <<>> /\ job' = job /\ dl' = NoDownload
  BY DEF DownloadFails
<1>2. \A f \in {"vecs", "cagra", "shards"} : disk'[f] \in {0, disk[f]}
  BY DEF DownloadFails, Unlink, Files
<1>3. Named /\ ~dl'.on
  BY <1>1, SameNamed, NoDownloadOff
<1> QED
  BY <1>1, <1>2, <1>3, FitStays

\* What the job of a thread is after a step of its commit.
LEMMA JobAfterStep ==
  ASSUME TypeInv, NEW v \in Versions, CommitStep(v), NEW r, r = Tail(job[v].todo)
  PROVE  /\ job'[v].st = "commit" /\ job'[v].op = job[v].op /\ job'[v].todo = r
         /\ \A w \in Versions : w # v => job'[w] = job[w]
<1>1. job[v].st = "commit" /\ job' = [job EXCEPT ![v] = GoesOn(job[v], r)]
  BY DEF CommitStep, GoesOn
<1>2. IsJob(job[v]) /\ DOMAIN job = Versions
  BY DEF TypeInv, JobOK
<1>3. GoesOn(job[v], r).st = job[v].st /\ GoesOn(job[v], r).op = job[v].op /\ GoesOn(job[v], r).todo = r
  BY <1>2, OldJobs
<1> QED
  BY <1>1, <1>2, <1>3

\* Before a thread has put all its files, what was there fits.
LEMMA FitsBefore ==
  ASSUME TypeInv, Fitting, am = "cagra", NEW v \in Versions, job[v].st = "commit"
  PROVE  /\ Fits(disk, v)
         /\ ~Placed(v) => Fits(disk, 0)
         /\ ~Placed(v) \/ job[v].op # "build" => (res.g # 0 /\ disk["vecs"] # 0 /\ tidl[disk["vecs"]] = tidl[res.g] => disk["vecs"] = res.g)
<1>1. \A w \in Versions : job[w].st = "commit" => w = v
  BY ThreadFacts
<1>2. Fits(disk, 0) \/ (Placed(v) /\ Fits(disk, v))
  BY <1>1 DEF Fitting, FitsOK
<1>3. Fits(disk, 0) => Fits(disk, v)
  BY DEF Fits
<1>4. ~Placed(v) \/ job[v].op # "build" => (res.g # 0 /\ disk["vecs"] # 0 /\ tidl[disk["vecs"]] = tidl[res.g] => disk["vecs"] = res.g)
  BY <1>1 DEF Fitting, FitsRes
<1> QED
  BY <1>2, <1>3, <1>4

\* A commit puts its graph before it replaces .vectors, and both are of its version.
LEMMA CommitStepFits == ASSUME TypeInv, Intact, Fitting, NEW v \in Versions, CommitStep(v), why' = {} PROVE Fitting'
<1> SUFFICES ASSUME am' = "cagra" PROVE FitsOK' /\ FitsRes' /\ FitsDl'
  BY DEF Fitting
<1>1. PICK O, T, op, n, t, s : Thread(v, O, T, op, n, t, s)
  BY DEF Thread
<1>2. PICK q, r : q = Head(s) /\ r = Tail(s)
  OBVIOUS
<1>3. /\ s # <<>> /\ First(s, q, r) /\ job[v].st = "commit" /\ Accident(v) \subseteq why' /\ ~Spoiled'
      /\ UNCHANGED names /\ dl' = dl /\ s = job[v].todo /\ res' = res /\ job[v].op = op
  BY <1>1, <1>2 DEF CommitStep, Thread, First, cloud, Spoiled
<1>4. am' = am /\ tidl' = tidl /\ am = "cagra" /\ Named
  BY <1>3, SameNamed DEF names
<1>5. /\ ~dl.on /\ Course(O, op, T, n, s) /\ PlanOK(O, op, T, n) /\ T \in {"cagra", "shards"} /\ v # 0 /\ job[v].t = t
  BY <1>1, <1>3, <1>4, StepFacts
<1>6. /\ q \in O /\ q \in Ran(s) /\ q.do \in {"put", "try", "del", "sweep"}
      /\ q.do = "put" /\ q.f = T /\ T # "vecs" => \A f : ~Writes(r, f)
      /\ q.do # "put" => \A f : ~Writes(s, f)
      /\ Ran(r) \subseteq Ran(s)
  BY <1>3, <1>5, AgendaOrder
<1>7. /\ job'[v].st = "commit" /\ job'[v].op = op /\ job'[v].todo = r
  BY <1>2, <1>3, JobAfterStep
<1>8. /\ q.do \in {"put", "try"} => q.f \in Files /\ \A f \in Files : disk'[f] = IF f # q.f THEN disk[f] ELSE IF f = "tids" THEN t ELSE v
      /\ q.do = "del" => \A f \in Files : disk'[f] = IF f = q.f THEN 0 ELSE disk[f]
      /\ q.do = "sweep" => \A f \in {"tids", "cagra", "ivfpq", "shards", "vecs"} : disk'[f] = disk[f]
      /\ q.do = "try" => q.f = "vecs"
  <2>1. disk' = Apply(disk, q, Content(v, t)) /\ t = job[v].t /\ q = Head(job[v].todo) /\ job[v].todo # <<>>
    BY <1>2, <1>3, <1>5 DEF CommitStep
  <2> QED
    BY <1>3, <2>1, StepFiles
<1>9. {"cagra", "shards", "vecs"} \subseteq Files /\ {"cagra", "shards", "vecs", "tids"} \cap ShardSet = {}
  BY ShardNames
<1>10. /\ Fits(disk, v)
       /\ ~Placed(v) => Fits(disk, 0)
       /\ ~Placed(v) \/ op # "build" => (res.g # 0 /\ disk["vecs"] # 0 /\ tidl[disk["vecs"]] = tidl[res.g] => disk["vecs"] = res.g)
  BY <1>3, <1>4, FitsBefore
<1>11. CASE q.do = "put"
  <2>1. ~Placed(v)
    BY <1>3, <1>6, <1>11 DEF Placed, Writes
  <2>2. q.f \in {"tids", T} \/ q.f \in ShardSet
    BY <1>5, <1>6, <1>11 DEF PlanOK
  <2>3. disk'["vecs"] = disk["vecs"] /\ \A f \in {"cagra", "shards"} : disk'[f] = IF f = q.f THEN v ELSE disk[f]
    BY <1>5, <1>8, <1>9, <1>11, <2>2
  <2>4. FitsRes'
    BY <1>3, <1>4, <1>10, <2>1, <2>3, ResStays
  <2>5. CASE q.f # T
    <3>1. \A f \in {"cagra", "shards"} : disk'[f] = disk[f]
      BY <1>5, <1>9, <2>2, <2>3, <2>5
    <3>2. Fits(disk, 0)'
      BY <1>4, <1>10, <2>1, <2>3, <3>1, FitsStay
    <3> QED
      BY <2>4, <3>2, <1>3, <1>5 DEF FitsOK, FitsDl
  <2>6. CASE q.f = T
    <3>1. Placed(v)'
      BY <1>5, <1>6, <1>7, <1>11, <2>6 DEF Placed
    <3>2. Fits(disk, v)'
      BY <1>4, <1>10, <2>3 DEF Fits
    <3> QED
      BY <1>3, <1>5, <1>7, <2>4, <3>1, <3>2 DEF FitsOK, FitsDl
  <2> QED
    BY <2>5, <2>6
<1>12. CASE q.do # "put"
  <2>1. Placed(v)'
    BY <1>6, <1>7, <1>12 DEF Placed, Writes
  <2>2. disk'["vecs"] \in {disk["vecs"], v, 0} /\ \A f \in {"cagra", "shards"} : disk'[f] \in {0, disk[f]}
    BY <1>6, <1>8, <1>9, <1>12
  <2>3. Fits(disk, v)'
    BY <1>4, <1>10, <2>2 DEF Fits
  <2>4. op = "build"
    BY <1>5, <1>6, <1>12 DEF PlanOK
  <2>5. FitsRes'
    BY <1>7, <2>1, <2>4 DEF FitsRes
  <2> QED
    BY <1>3, <1>5, <1>7, <2>1, <2>3, <2>5 DEF FitsOK, FitsDl
<1> QED
  BY <1>11, <1>12

LEMMA CommitFailsFits == ASSUME TypeInv, Intact, Fitting, NEW v \in Versions, CommitFails(v), why' = {} PROVE Fitting'
<1> SUFFICES ASSUME am' = "cagra" PROVE FitsOK' /\ FitsRes' /\ FitsDl'
  BY DEF Fitting
<1>1. PICK O, T, op, n, t, s : Thread(v, O, T, op, n, t, s)
  BY DEF Thread
<1>2. PICK q, r : q = Head(s) /\ r = Tail(s)
  OBVIOUS
<1>3. /\ s # <<>> /\ First(s, q, r) /\ job[v].st = "commit" /\ Accident(v) \subseteq why' /\ ~Spoiled' /\ q.do \in {"put", "try"}
      /\ UNCHANGED names /\ dl' = dl /\ s = job[v].todo /\ res' = res /\ job[v].op = op /\ disk' = Unlink(disk, q.undo)
  BY <1>1, <1>2 DEF CommitFails, Thread, First, cloud, Spoiled
<1>4. am' = am /\ tidl' = tidl /\ am = "cagra" /\ Named
  BY <1>3, SameNamed DEF names
<1>5. ~dl.on /\ Course(O, op, T, n, s) /\ OpShape(O)
  BY <1>1, <1>3, StepFacts
<1>6. q \in O /\ q \in Ran(s)
  BY <1>3, <1>5, AgendaOrder
<1>7. \A f \in {"vecs", "cagra", "shards"} : disk'[f] = IF f \in q.undo THEN 0 ELSE disk[f]
  BY <1>3 DEF Unlink, Files
<1>8. /\ ~Placed(v) => Fits(disk, 0)
      /\ ~Placed(v) => (res.g # 0 /\ disk["vecs"] # 0 /\ tidl[disk["vecs"]] = tidl[res.g] => disk["vecs"] = res.g)
  BY <1>3, <1>4, FitsBefore
<1>9. CASE q.do = "put"
  <2>1. ~Placed(v)
    BY <1>3, <1>6, <1>9 DEF Placed, Writes
  <2>2. Fits(disk, 0)'
    BY <1>4, <1>7, <1>8, <2>1, FitsStay
  <2>3. FitsRes'
    BY <1>3, <1>4, <1>7, <1>8, <2>1, ResStays
  <2> QED
    BY <1>3, <1>5, <2>2, <2>3 DEF FitsOK, FitsDl
<1>10. CASE q.do = "try"
  <2>1. disk'["vecs"] = 0
    BY <1>5, <1>6, <1>7, <1>10 DEF OpShape
  <2> QED
    BY <1>3, <1>5, <2>1 DEF FitsOK, Fits, FitsRes, FitsDl
<1> QED
  BY <1>3, <1>9, <1>10

\* A commit that is complete leaves no .vectors of another version beside its graph.
LEMMA EndCommitFits == ASSUME TypeInv, Intact, Fitting, NEW v \in Versions, EndCommit(v), why' = {} PROVE Fitting'
<1> SUFFICES ASSUME am' = "cagra" PROVE FitsOK' /\ FitsRes' /\ FitsDl'
  BY DEF Fitting
<1>1. /\ job[v].st = "commit" /\ Accident(v) \subseteq why' /\ UNCHANGED names /\ disk' = disk /\ dl' = dl /\ ~Spoiled'
  BY DEF EndCommit, Spoiled
<1>2. am' = am /\ tidl' = tidl /\ am = "cagra" /\ Named
  BY <1>1, SameNamed DEF names
<1>3. Ran(job[v].todo) = {}
  <2>1. job[v].todo = <<>>
    BY DEF EndCommit
  <2> QED
    BY <2>1, RanShort
<1>4. /\ ~dl.on /\ v \in 1 .. nv /\ disk[Goal(v)] = v
      /\ Goal(v) = "cagra" => disk["shards"] = 0
      /\ Goal(v) \in {"shards", "ivfpq"} => disk["cagra"] = 0
      /\ Goal(v) \in {"cagra", "shards"} /\ job[v].op = "build" => disk["vecs"] \in {0, v}
      /\ am = "cagra" <=> Goal(v) \in {"cagra", "shards"}
      /\ (Goal(v) = "shards") <=> (am = "cagra" /\ job[v].op = "build" /\ width[v] # 0)
      /\ job[v].op # "build" => res.g = v
  BY <1>1, <1>3, CommitEnds
<1>5. \A f \in {"cagra", "shards"} : disk[f] \in {0, v}
  BY <1>2, <1>4
<1>6. disk["vecs"] # 0 /\ tidl[disk["vecs"]] = tidl[v] => disk["vecs"] = v
  <2>1. CASE job[v].op = "build"
    BY <1>2, <1>4, <2>1
  <2>2. CASE job[v].op # "build"
    <3>1. res.g # 0 /\ disk["vecs"] # 0 /\ tidl[disk["vecs"]] = tidl[res.g] => disk["vecs"] = res.g
      BY <1>1, <1>2, <2>2, FitsBefore
    <3>2. res.g = v /\ v # 0
      BY <1>4, <2>2
    <3> QED
      BY <3>1, <3>2
  <2> QED
    BY <2>1, <2>2
<1>7. Fits(disk, 0)'
  BY <1>1, <1>2, <1>5, <1>6 DEF Fits
<1>8. res'.g \in {0, v}
  <2>1. PICK x : x = job[v].t
    OBVIOUS
  <2>2. res' = [g |-> 0, t |-> 0] \/ res' = [g |-> v, t |-> x]
    BY <2>1 DEF EndCommit, NoEntry
  <2> QED
    BY <2>2
<1>9. FitsRes'
  BY <1>1, <1>2, <1>6, <1>8 DEF FitsRes
<1> QED
  BY <1>1, <1>4, <1>7, <1>9 DEF FitsOK, FitsDl

LEMMA NextFits == TypeInv /\ Intact /\ Fitting /\ [Next]_vars /\ why' = {} => Fitting'
<1> SUFFICES ASSUME TypeInv, Intact, Fitting, [Next]_vars, why' = {} PROVE Fitting'
  OBVIOUS
<1>1. ASSUME NEW n \in Widths, NEW same \in BOOLEAN, StartBuild(n, same) PROVE Fitting'
  BY <1>1, StartBuildFits
<1>2. ASSUME NEW v \in Versions, Cancel(v) \/ UploadStep(v) \/ Publish(v) \/ UploadFails(v) PROVE Fitting'
  BY <1>2, OutsideFits
<1>3. ASSUME NEW v \in Versions, BuildFails(v) \/ \E vok \in BOOLEAN : BeginCommit(v, vok) PROVE Fitting'
  BY <1>3, AloneFits
<1>4. ASSUME NEW v \in Versions, CommitStep(v) \/ CommitFails(v) \/ EndCommit(v) PROVE Fitting'
  BY <1>4, CommitStepFits, CommitFailsFits, EndCommitFits
<1>5. CASE Extend \/ Compact \/ Evict
  BY <1>5, AloneFits
<1>6. CASE SearchMiss \/ EndDownload
  BY <1>6, LoadsFit
<1>7. CASE Crash \/ StartDownload \/ DownloadStep \/ DownloadFails
  BY <1>7, CrashFits, StartDownloadFits, DownloadStepFits, DownloadFailsFits
<1>8. CASE UNCHANGED vars
  BY <1>8, OutsideFits
<1> QED
  BY <1>1, <1>2, <1>3, <1>4, <1>5, <1>6, <1>7, <1>8 DEF Next

\* A .vectors that a load accepts is of the version it serves.
LEMMA FitsServed ==
  TypeInv /\ Intact /\ Fitting /\ am = "cagra" /\ Stored # 0 /\ disk["vecs"] # 0 /\ tidl[disk["vecs"]] = disk["tids"] => disk["vecs"] = Stored
<1> SUFFICES ASSUME TypeInv, Intact, Fitting, am = "cagra", Stored # 0, disk["vecs"] # 0, tidl[disk["vecs"]] = disk["tids"]
             PROVE  disk["vecs"] = Stored
  OBVIOUS
<1>1. Stored = Served(disk).g /\ lock = 0 /\ Whole(Served(disk))
  BY StoredFacts
<1>2. Fits(disk, 0) /\ OwnFiles(disk)
  <2>1. \A v \in Versions : job[v].st # "commit"
    BY <1>1, TypeFacts
  <2> QED
    BY <2>1, FitsQuiet DEF Intact
<1>3. PICK z : z = Served(disk)
  OBVIOUS
<1>4. z.g # 0 => z.t = disk["tids"]
  <2>1. PICK a, b, c, x, y : a = disk["tids"] /\ b = disk["shards"] /\ c = disk["cagra"] /\ x = disk["ivfpq"] /\ y = disk["vecs"]
    OBVIOUS
  <2>2. \/ z = [g |-> 0, t |-> 0] \/ z = [g |-> b, t |-> a] \/ z = [g |-> y, t |-> a]
        \/ z = [g |-> c, t |-> a] \/ z = [g |-> x, t |-> a]
    BY <1>3, <2>1 DEF Served, NoEntry
  <2> QED
    BY <2>1, <2>2
<1>5. tidl[disk["vecs"]] = tidl[z.g]
  BY <1>1, <1>3, <1>4 DEF Whole
<1> QED
  BY <1>1, <1>2, <1>3, <1>5, ServedFits

-----------------------------------------------------------------------------
(* The theorems.                                                           *)

\* The inductive invariant: the types, what holds until an accident spoils a pair of
\* graph and .tids, and what holds until any accident at all.
IInv == TypeInv /\ (~Spoiled => Intact) /\ (why = {} => Fitting)

LEMMA InitIInv == Init => IInv
BY InitType, InitIntact, InitFitting DEF IInv

LEMMA NextIInv == IInv /\ [Next]_vars => IInv'
<1> SUFFICES ASSUME IInv, [Next]_vars PROVE IInv'
  OBVIOUS
<1>1. TypeInv'
  BY NextType DEF IInv
<1>2. ASSUME ~Spoiled' PROVE Intact'
  BY <1>2, SpoiledStays, NextIntact DEF IInv
<1>3. ASSUME why' = {} PROVE Fitting'
  <2>1. why = {}
    BY <1>3, AccidentsStay
  <2>2. ~Spoiled
    BY <2>1 DEF Spoiled
  <2> QED
    BY <1>3, <2>1, <2>2, NextFits DEF IInv
<1> QED
  BY <1>1, <1>2, <1>3 DEF IInv

\* Every reachable state satisfies the inductive invariant: the list of a commit is always
\* a tail of the order in which handle_build_inner, save_index or the sharded build rename,
\* what it has renamed is there, and a pair of graph and .tids that do not belong together
\* exists only in the two windows in which the mutex or a download hides it.
THEOREM ArtifactInvariant == Spec => []IInv
<1>1. IInv /\ [Next]_vars => IInv'
  BY NextIInv
<1> QED
  BY InitIInv, <1>1, PTL DEF Spec

\* The type invariant for every number of versions, of shards and every set of events, with
\* it that only the thread that holds g_index_mutex commits (but for the flat build, which
\* does not take it).
THEOREM ArtifactTypeOK == Spec => []TypeOK
<1>1. IInv => TypeOK
  <2> SUFFICES ASSUME TypeInv PROVE TypeOK
    BY DEF IInv
  <2>1. \A v \in Versions : job[v].st = "commit" /\ am # "flat" => lock = v
    BY DEF TypeInv, JobOK
  <2>2. /\ am \in Kinds /\ nv \in 0 .. MaxV /\ tidl \in [Versions -> 0 .. nv] /\ width \in [Versions -> Widths]
        /\ disk \in [Files -> 0 .. nv]
    BY TypeFacts DEF TypeInv, NamesOK
  <2>3. /\ lock \in 0 .. nv /\ res \in [g : 0 .. nv, t : 0 .. nv] /\ cold \in {"none", "queued", "loading", "failed"}
        /\ acked \in 0 .. nv /\ open \in BOOLEAN /\ why \subseteq Accidents
    BY DEF TypeInv, RestOK
  <2> QED
    BY <2>1, <2>2, <2>3 DEF TypeOK
<1> QED
  BY <1>1, ArtifactInvariant, PTL

\* The entry that answers searches has graph and tids[] of one version, and one that is not
\* older than the last a client was told is persistent, whatever was killed, failed, evicted,
\* reloaded or downloaded before.
THEOREM ResidentAlwaysWhole == Spec => []ResidentIsWhole
<1>1. IInv => ResidentIsWhole
  BY DEF IInv, Intact, ResOK, ResidentIsWhole
<1> QED
  BY <1>1, ArtifactInvariant, PTL

\* A .vectors that a load accepts, by the CRC of .tids alone, is of the version of the graph
\* it would serve: brute force and graph search answer from the same rows.
THEOREM VectorsAlwaysFit == Spec => []VectorsFitGraph
<1>1. IInv => VectorsFitGraph
  BY FitsServed DEF IInv, Spoiled, VectorsFitGraph
<1> QED
  BY <1>1, ArtifactInvariant, PTL

\* Every step of the renames, unlinks, failures, restarts and downloads is a step of the
\* abstract specification of recoverable storage, or none.
LEMMA NextRefines == IInv /\ IInv' /\ [Next]_vars => [Recoverable!Next]_<<Stored, acked, open, Spoiled>>
<1> SUFFICES ASSUME IInv, IInv', [Next]_vars PROVE Recoverable!Next \/ UNCHANGED <<Stored, acked, open, Spoiled>>
  OBVIOUS
<1>1. CASE Spoiled'
  BY <1>1 DEF Recoverable!Next, Recoverable!Accident
<1>2. CASE ~Spoiled'
  <2>1. TypeInv /\ TypeInv' /\ Intact /\ Intact' /\ ~Spoiled
    BY <1>2, SpoiledStays DEF IInv
  <2>2. ASSUME NEW n \in Widths, NEW same \in BOOLEAN, StartBuild(n, same)
        PROVE  Recoverable!Next \/ UNCHANGED <<Stored, acked, open, Spoiled>>
    BY <1>2, <2>1, <2>2, StartBuildRefines
  <2>3. ASSUME NEW v \in Versions,
               Cancel(v) \/ BuildFails(v) \/ (\E vok \in BOOLEAN : BeginCommit(v, vok)) \/ CommitStep(v) \/ CommitFails(v) \/ EndCommit(v)
        PROVE  Recoverable!Next \/ UNCHANGED <<Stored, acked, open, Spoiled>>
    BY <1>2, <2>1, <2>3, ThreadRefines
  <2>4. ASSUME NEW v \in Versions, UploadStep(v) \/ Publish(v) \/ UploadFails(v)
        PROVE  Recoverable!Next \/ UNCHANGED <<Stored, acked, open, Spoiled>>
    BY <1>2, <2>1, <2>4, CloudRefines
  <2>5. CASE Extend \/ Compact \/ Evict \/ SearchMiss \/ Crash
    BY <1>2, <2>1, <2>5, EntryRefines
  <2>6. CASE StartDownload \/ DownloadStep \/ DownloadFails \/ EndDownload
    BY <1>2, <2>1, <2>6, CloudRefines
  <2>7. CASE UNCHANGED vars
    <3>1. /\ disk' = disk /\ lock' = lock /\ dl' = dl /\ acked' = acked /\ open' = open
          /\ \A v \in 0 .. nv : tidl'[v] = tidl[v] /\ width'[v] = width[v]
      BY <2>7 DEF vars
    <3>2. Stored' = Stored
      BY <2>1, <3>1, StoredSame
    <3> QED
      BY <1>2, <2>1, <3>1, <3>2, Refines DEF Recoverable!Next
  <2> QED
    BY <2>2, <2>3, <2>4, <2>5, <2>6, <2>7 DEF Next
<1> QED
  BY <1>1, <1>2

\* The files of an index implement recoverable storage: whatever is killed, fails or is
\* restored from a snapshot, and in any order, a load finds one whole version no older than
\* the last confirmed one, and loses it only to a rebuild or a save attempted since.
THEOREM FilesAlwaysRecoverable == Spec => FilesAreRecoverable
<1>1. Init => Recoverable!Init
  BY InitRefines
<1>2. IInv /\ IInv' /\ [Next]_vars => [Recoverable!Next]_<<Stored, acked, open, Spoiled>>
  BY NextRefines
<1> QED
  BY <1>1, <1>2, ArtifactInvariant, PTL DEF Spec, FilesAreRecoverable, Recoverable!Spec, Recoverable!vars
====

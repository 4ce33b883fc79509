-------------------------- MODULE WritePathProofs ---------------------------
(***************************************************************************)
(* Proofs about WritePath and WritePathCauses for any number of TIDs and   *)
(* versions, both access methods, any cuvs.max_delta_rows and any choice   *)
(* of the events that may happen.                                          *)
(*                                                                         *)
(* StateInv, the invariant of Spec, is about the files and the entry one   *)
(* by one: types, caps, and that marker, flag and daemon agree.  OwedInv,  *)
(* the invariant of SpecH, is about the rows a search must return, those   *)
(* that are live and not excused: all lists of rows there are - the saved  *)
(* base, the graph in VRAM, .delta and its GPU copy - have them with their *)
(* own version, graph and delta never both, tombstones never, and unless   *)
(* the index is stale one of them has each.                                *)
(***************************************************************************)
EXTENDS WritePathCauses, FiniteSetTheorems, SequenceTheorems, TLAPS

-----------------------------------------------------------------------------
(* What the helpers on row lists do.                                       *)

\* How many numbers of S are at most i.
Upto(S, i) == Cardinality({k \in S : k <= i})

\* It tells the numbers of S apart.
LEMMA UptoFacts ==
  ASSUME NEW S \in SUBSET Nat, IsFiniteSet(S)
  PROVE  /\ \A i \in S : Upto(S, i) \in 1 .. Cardinality(S)
         /\ \A i, j \in S : Upto(S, i) = Upto(S, j) => i = j
<1>0. Cardinality(S) \in Nat
  BY FS_CardinalityType
<1>1. ASSUME NEW i \in S PROVE Upto(S, i) \in 1 .. Cardinality(S)
  <2> DEFINE T == {k \in S : k <= i}
  <2>1. T \in SUBSET S /\ i \in T
    OBVIOUS
  <2>2. IsFiniteSet(T) /\ Cardinality(T) <= Cardinality(S)
    BY <2>1, FS_Subset
  <2>3. Cardinality(T) \in Nat /\ Cardinality(T) # 0
    BY <2>1, <2>2, FS_CardinalityType, FS_EmptySet
  <2> QED
    BY <1>0, <2>2, <2>3 DEF Upto
<1>2. ASSUME NEW i \in S, NEW j \in S, i < j PROVE Upto(S, i) # Upto(S, j)
  <2> DEFINE A == {k \in S : k <= i}
  <2> DEFINE B == {k \in S : k <= j}
  <2>0. j \in B /\ j \notin A
    BY <1>2
  <2>1. A \in SUBSET B /\ A # B
    <3>1. \A k \in A : k \in B
      BY <1>2
    <3> HIDE DEF A, B
    <3> QED BY <3>1, <2>0
  <2>2. IsFiniteSet(B)
    <3>1. B \in SUBSET S
      OBVIOUS
    <3> QED
      BY <3>1, FS_Subset
  <2>3. Cardinality(B) # Cardinality(A)
    <3> HIDE DEF A, B
    <3> QED BY <2>1, <2>2, FS_Subset
  <2> QED
    BY <2>3 DEF Upto
<1>3. \A i, j \in S : Upto(S, i) = Upto(S, j) => i = j
  BY <1>2
<1> QED
  BY <1>1, <1>3

\* It takes every value up to the size of S.
LEMMA UptoOnto ==
  ASSUME NEW S \in SUBSET Nat, IsFiniteSet(S), NEW n \in 1 .. Cardinality(S)
  PROVE  \E i \in S : Upto(S, i) = n
<1> DEFINE T == 1 .. Cardinality(S)
<1> DEFINE f == [i \in S |-> Upto(S, i)]
<1>1. IsFiniteSet(T) /\ Cardinality(T) = Cardinality(S)
  <2>1. Cardinality(S) \in Nat
    BY FS_CardinalityType
  <2> QED
    BY <2>1, FS_Interval
<1>2. f \in Injection(S, T)
  BY UptoFacts DEF Injection, IsInjective
<1>3. f \in Surjection(S, T)
  <2> HIDE DEF f, T
  <2> QED BY <1>1, <1>2, FS_Injection
<1> QED
  BY <1>3 DEF Surjection

\* InOrder lists every number of S once.
LEMMA InOrderFacts ==
  ASSUME NEW S \in SUBSET Nat, IsFiniteSet(S)
  PROVE  /\ Cardinality(S) \in Nat
         /\ DOMAIN InOrder(S) = 1 .. Cardinality(S)
         /\ \A j \in 1 .. Cardinality(S) : InOrder(S)[j] \in S
         /\ \A i, j \in 1 .. Cardinality(S) : InOrder(S)[i] = InOrder(S)[j] => i = j
         /\ \A i \in S : \E j \in 1 .. Cardinality(S) : InOrder(S)[j] = i
<1>1. Cardinality(S) \in Nat
  BY FS_CardinalityType
<1>2. DOMAIN InOrder(S) = 1 .. Cardinality(S)
  BY DEF InOrder
<1>3. ASSUME NEW j \in 1 .. Cardinality(S)
      PROVE  InOrder(S)[j] \in S /\ Upto(S, InOrder(S)[j]) = j
  <2>1. \E i \in S : Upto(S, i) = j
    BY UptoOnto
  <2>2. InOrder(S)[j] = CHOOSE i \in S : Upto(S, i) = j
    BY DEF InOrder, Upto
  <2> QED
    BY <2>1, <2>2, Zenon
<1>4. \A i \in S : \E j \in 1 .. Cardinality(S) : InOrder(S)[j] = i
  <2> SUFFICES ASSUME NEW i \in S PROVE \E j \in 1 .. Cardinality(S) : InOrder(S)[j] = i
    OBVIOUS
  <2> DEFINE j == Upto(S, i)
  <2>1. j \in 1 .. Cardinality(S)
    BY UptoFacts
  <2>2. InOrder(S)[j] \in S /\ Upto(S, InOrder(S)[j]) = j
    <3> HIDE DEF j
    <3> QED BY <2>1, <1>3
  <2>3. InOrder(S)[j] = i
    <3>1. \A a, b \in S : Upto(S, a) = Upto(S, b) => a = b
      BY UptoFacts
    <3> QED
      BY <2>2, <3>1
  <2> QED
    BY <2>1, <2>3
<1> QED
  BY <1>1, <1>2, <1>3, <1>4

\* Keep returns the rows whose TID is not in `dead', each of them once: f says
\* where in `rows' a kept row was.
LEMMA KeepFacts ==
  ASSUME NEW rows \in Seq(Row), NEW dead
  PROVE  /\ Keep(rows, dead) \in Seq(Row)
         /\ \E f \in [DOMAIN Keep(rows, dead) -> DOMAIN rows] :
               /\ \A j \in DOMAIN Keep(rows, dead) :
                     Keep(rows, dead)[j] = rows[f[j]] /\ rows[f[j]].tid \notin dead
               /\ \A i, j \in DOMAIN Keep(rows, dead) : f[i] = f[j] => i = j
               /\ \A i \in DOMAIN rows : rows[i].tid \notin dead =>
                     \E j \in DOMAIN Keep(rows, dead) : f[j] = i
<1> DEFINE P == {i \in DOMAIN rows : rows[i].tid \notin dead}
<1> DEFINE f == InOrder(P)
<1>1. P \in SUBSET Nat /\ IsFiniteSet(P)
  <2>1. DOMAIN rows = 1 .. Len(rows) /\ Len(rows) \in Nat
    OBVIOUS
  <2>2. IsFiniteSet(1 .. Len(rows))
    BY <2>1, FS_Interval
  <2>3. P \in SUBSET (1 .. Len(rows))
    BY <2>1
  <2> QED
    BY <2>2, <2>3, FS_Subset
<1>2. /\ Cardinality(P) \in Nat
      /\ DOMAIN f = 1 .. Cardinality(P)
      /\ \A j \in 1 .. Cardinality(P) : f[j] \in P
      /\ \A i, j \in 1 .. Cardinality(P) : f[i] = f[j] => i = j
      /\ \A i \in P : \E j \in 1 .. Cardinality(P) : f[j] = i
  <2> HIDE DEF P
  <2> QED BY <1>1, InOrderFacts
<1>3. Keep(rows, dead) = [j \in 1 .. Cardinality(P) |-> rows[f[j]]]
  BY <1>2 DEF Keep
<1>4. f = [j \in 1 .. Cardinality(P) |-> f[j]]
  BY <1>2 DEF InOrder
<1> HIDE DEF f
<1>5. f \in [1 .. Cardinality(P) -> DOMAIN rows]
  BY <1>2, <1>4
<1> HIDE DEF P
<1>6. DOMAIN Keep(rows, dead) = 1 .. Cardinality(P)
  BY <1>3
<1>7. \A i \in DOMAIN rows : rows[i] \in Row
  OBVIOUS
<1>8. \A j \in 1 .. Cardinality(P) : rows[f[j]] \in Row
  BY <1>5, <1>7
<1>9. Keep(rows, dead) \in Seq(Row)
  BY <1>2, <1>3, <1>8, IsASeq
<1>10. \A j \in 1 .. Cardinality(P) : Keep(rows, dead)[j] = rows[f[j]] /\ rows[f[j]].tid \notin dead
  BY <1>2, <1>3 DEF P
<1>11. \A i \in DOMAIN rows : rows[i].tid \notin dead => \E j \in 1 .. Cardinality(P) : f[j] = i
  BY <1>2 DEF P
<1>12. \A i, j \in 1 .. Cardinality(P) : f[i] = f[j] => i = j
  BY <1>2
<1> DEFINE K == DOMAIN Keep(rows, dead)
<1>13. f \in [K -> DOMAIN rows]
  BY <1>5, <1>6
<1>14. /\ \A j \in K : Keep(rows, dead)[j] = rows[f[j]] /\ rows[f[j]].tid \notin dead
       /\ \A i, j \in K : f[i] = f[j] => i = j
       /\ \A i \in DOMAIN rows : rows[i].tid \notin dead => \E j \in K : f[j] = i
  BY <1>6, <1>10, <1>11, <1>12
<1> QED
  BY <1>9, <1>13, <1>14
-----------------------------------------------------------------------------
(* The invariant of Spec.                                                  *)

\* The types of the files and of an entry.
LineStates == {"free", "live", "dead", "retired"}
VacType == [pc : {"idle", "bulk", "heap", "cleanup", "commit"}, dead : SUBSET Tids, marked : SUBSET Tids]
DeltaType == [gen : Seq(Tids), rows : Seq(Row)]
TombType == [gen : Seq(Tids), tids : SUBSET Tids, eff : SUBSET Tids]
EntryType == [rows : Seq(Row), stale : BOOLEAN, bload : BOOLEAN, bf : Seq(Row), bfkey : BOOLEAN,
              dload : BOOLEAN, dc : Seq(Row), dkey : BOOLEAN]

\* The heap: a line pointer with a row has a version.
HeapOK(H) ==
  /\ H \in [Tids -> [ver : 0 .. MaxVer, st : LineStates]]
  /\ \A t \in Tids : H[t].st \in {"live", "dead"} => H[t].ver >= 1
\* A row list that may be missing: .tids with .cagra, and .vectors.
BaseOK(b) == b \subseteq Seq(Row) /\ AtMostOne(b)
\* .delta never has more than max_delta_rows rows, ...
DeltaOK(dl) ==
  /\ dl \subseteq DeltaType /\ AtMostOne(dl)
  /\ \A d \in dl : Len(d.rows) <= MaxDelta
\* ... nor .tombstone more TIDs; what is dead to searches is in it.
TombOK(tb) ==
  /\ tb \subseteq TombType /\ AtMostOne(tb)
  /\ \A d \in tb : Cardinality(d.tids) <= MaxDelta /\ d.eff \subseteq d.tids
\* The registry has one entry of the index at most.
ResOK(rs) == rs \subseteq EntryType /\ AtMostOne(rs)
\* What VACUUM has collected stays dead until its second heap pass is over.
VacOK(v, H) ==
  /\ v \in VacType
  /\ v.pc \in {"bulk", "heap"} => \A t \in v.dead : H[t].st = "dead"
CompOK(cp) == cp \subseteq SUBSET Tids /\ AtMostOne(cp)
\* A flat index: .vectors is in step with .tids, and the entry and its copy of
\* .vectors with both.
FlatOK(b, v, rs) == v = b /\ \A e \in rs : e.rows \in b /\ (e.bload => e.bf = e.rows)
\* The entry is stale when the marker is there and only then; there is none while
\* the daemon is down, and none without a saved base.
EntryOK(b, rs, st, u) ==
  /\ \A e \in rs : e.stale = st
  /\ ~u => rs = {}
  /\ rs # {} => b # {}

\* What a build under way has read: each TID once, ...
Distinct(rows) == \A i, j \in DOMAIN rows : rows[i].tid = rows[j].tid => i = j
PendingOK(p) == BaseOK(p) /\ \A rows \in p : Distinct(rows)
\* ... and with the version the heap has.
ReadFrom(H, rows) ==
  \A i \in DOMAIN rows : H[rows[i].tid].st \in {"live", "dead"} /\ rows[i].ver = H[rows[i].tid].ver

\* CREATE INDEX CONCURRENTLY: VACUUM and COMPACT keep away; until the index is
\* ready there is nothing of it, and what the build has read stays true; then
\* the saved base never has more than the graph in VRAM, and the rows to be
\* validated stay in the heap.
ConcType == [pc : {"scan", "ready", "snapshot", "validate", "done"}, todo : SUBSET Tids]
ConcInv ==
  /\ conc \in ConcType /\ PendingOK(pending)
  /\ conc.pc = "done" => conc.todo = {}
  /\ conc.pc \in {"scan", "ready"} => conc.todo = Tids
  /\ conc.pc # "done" => vac.pc = "idle" /\ tomb = {} /\ comp = {}
  /\ conc.pc = "scan" =>
       base = {} /\ res = {} /\ delta = {} /\ \A rows \in pending : ReadFrom(heap, rows)
  /\ conc.pc \in {"ready", "snapshot"} =>
       \A rows \in base : \A t \in TidsOf(rows) : \A e \in res : t \in TidsOf(e.rows)
  /\ conc.pc \in {"snapshot", "validate"} => \A t \in conc.todo : heap[t].st \in {"live", "dead"}

\* The inductive invariant of Spec.
StateInv ==
  /\ kind \in Kinds /\ nextver \in 0 .. MaxVer /\ stale \in BOOLEAN
  /\ up \in BOOLEAN /\ sock \in BOOLEAN
  /\ HeapOK(heap) /\ BaseOK(base) /\ BaseOK(vecs) /\ DeltaOK(delta) /\ TombOK(tomb)
  /\ ResOK(res) /\ VacOK(vac, heap) /\ CompOK(comp)
  /\ kind = "flat" => FlatOK(base, vecs, res)
  /\ EntryOK(base, res, stale, up)
  /\ ConcInv
-----------------------------------------------------------------------------
(* Facts about the files, the entry and the helpers of the actions.        *)

\* A file that is there.
LEMMA OneOf == ASSUME NEW S, AtMostOne(S), NEW x \in S PROVE S = {x} /\ The(S) = x
<1>1. S = {x}
  BY DEF AtMostOne
<1>2. The(S) \in S
  BY Zenon DEF The
<1> QED
  BY <1>1, <1>2

\* A file that has just been written.
LEMMA OneIsOne == \A x : AtMostOne({x}) /\ The({x}) = x
<1> SUFFICES ASSUME NEW x PROVE AtMostOne({x}) /\ The({x}) = x
  OBVIOUS
<1>1. AtMostOne({x})
  BY DEF AtMostOne
<1> QED
  BY <1>1, OneOf

\* A generation token.
LEMMA GenType == ASSUME NEW rows \in Seq(Row) PROVE Gen(rows) \in Seq(Tids)
<1>0. DOMAIN rows = 1 .. Len(rows) /\ Len(rows) \in Nat /\ \A i \in 1 .. Len(rows) : rows[i] \in Row
  OBVIOUS
<1>1. \A i \in 1 .. Len(rows) : rows[i].tid \in Tids
  BY <1>0 DEF Row
<1>2. [i \in 1 .. Len(rows) |-> rows[i].tid] \in Seq(Tids)
  BY <1>0, <1>1, IsASeq
<1> QED
  BY <1>0, <1>2 DEF Gen

\* The TIDs of a row list are heap line pointers.
LEMMA RowTids == ASSUME NEW rows \in Seq(Row) PROVE \A i \in DOMAIN rows : rows[i].tid \in Tids
<1>1. \A i \in DOMAIN rows : rows[i] \in Row
  OBVIOUS
<1> QED
  BY <1>1 DEF Row

\* The invariant implies the type invariant of the model.
LEMMA TypeFromInv == StateInv => TypeOK
<1> SUFFICES ASSUME StateInv PROVE TypeOK
  OBVIOUS
<1>1. /\ heap \in [Tids -> [ver : 0 .. MaxVer, st : {"free", "live", "dead", "retired"}]]
      /\ kind \in Kinds /\ nextver \in 0 .. MaxVer /\ stale \in BOOLEAN
      /\ up \in BOOLEAN /\ sock \in BOOLEAN
      /\ base \subseteq Seq(Row) /\ AtMostOne(base) /\ vecs \subseteq Seq(Row) /\ AtMostOne(vecs)
  BY DEF StateInv, HeapOK, BaseOK, LineStates
<1>2. /\ AtMostOne(delta) /\ AtMostOne(tomb) /\ AtMostOne(res) /\ AtMostOne(comp)
      /\ comp \subseteq SUBSET Tids
  BY DEF StateInv, DeltaOK, TombOK, ResOK, CompOK
<1>3. \A d \in delta : d.gen \in Seq(Tids) /\ d.rows \in Seq(Row) /\ Len(d.rows) <= MaxDelta
  BY DEF StateInv, DeltaOK, DeltaType
<1>4. \A d \in tomb : /\ d.gen \in Seq(Tids)
                      /\ d.tids \subseteq Tids /\ Cardinality(d.tids) <= MaxDelta
                      /\ d.eff \subseteq d.tids
  BY DEF StateInv, TombOK, TombType
<1>5. \A e \in res :
        /\ e.rows \in Seq(Row) /\ e.bf \in Seq(Row) /\ e.dc \in Seq(Row)
        /\ {e.stale, e.bload, e.bfkey, e.dload, e.dkey} \subseteq BOOLEAN
  <2> SUFFICES ASSUME NEW e \in EntryType
               PROVE  /\ e.rows \in Seq(Row) /\ e.bf \in Seq(Row) /\ e.dc \in Seq(Row)
                      /\ {e.stale, e.bload, e.bfkey, e.dload, e.dkey} \subseteq BOOLEAN
    BY DEF StateInv, ResOK
  <2>1. /\ e.rows \in Seq(Row) /\ e.bf \in Seq(Row) /\ e.dc \in Seq(Row)
        /\ e.stale \in BOOLEAN /\ e.bload \in BOOLEAN /\ e.bfkey \in BOOLEAN
        /\ e.dload \in BOOLEAN /\ e.dkey \in BOOLEAN
    BY DEF EntryType
  <2> QED
    BY <2>1, Zenon
<1>6. vac \in [pc : {"idle", "bulk", "heap", "cleanup", "commit"},
               dead : SUBSET Tids, marked : SUBSET Tids]
  BY DEF StateInv, VacOK, VacType
<1>7. /\ pending \subseteq Seq(Row) /\ AtMostOne(pending)
      /\ conc \in [pc : {"scan", "ready", "snapshot", "validate", "done"}, todo : SUBSET Tids]
  BY DEF StateInv, ConcInv, ConcType, PendingOK, BaseOK
<1> QED
  BY <1>1, <1>2, <1>3, <1>4, <1>5, <1>6, <1>7 DEF TypeOK

\* A new entry.
LEMMA EntryFacts ==
  ASSUME NEW rows \in Seq(Row), NEW st \in BOOLEAN
  PROVE  /\ Entry(rows, st) \in EntryType
         /\ Entry(rows, st).rows = rows /\ Entry(rows, st).stale = st
         /\ ~Entry(rows, st).bload /\ ~Entry(rows, st).dload /\ ~Entry(rows, st).dkey
  BY DEF Entry, EntryType

\* c has the copies of .vectors and .delta that e has.
SameCopies(c, e) == c.bload = e.bload /\ c.bf = e.bf /\ c.dload = e.dload /\ c.dc = e.dc

\* The fields of an entry, and the edits the actions make.
LEMMA EditFacts ==
  ASSUME NEW e \in EntryType
  PROVE  /\ e.rows \in Seq(Row) /\ e.stale \in BOOLEAN /\ e.bf \in Seq(Row) /\ e.dc \in Seq(Row)
         /\ e.dkey \in BOOLEAN /\ e.dload \in BOOLEAN /\ e.bload \in BOOLEAN
         /\ \A rows \in Seq(Row) : LET c == [e EXCEPT !.rows = rows] IN
              c \in EntryType /\ c.rows = rows /\ c.stale = e.stale /\ c.dkey = e.dkey /\ SameCopies(c, e)
         /\ \A st \in BOOLEAN : LET c == [e EXCEPT !.stale = st] IN
              c \in EntryType /\ c.rows = e.rows /\ c.stale = st /\ c.dkey = e.dkey /\ SameCopies(c, e)
         /\ \A k \in BOOLEAN : LET c == [e EXCEPT !.dkey = k] IN
              c \in EntryType /\ c.rows = e.rows /\ c.stale = e.stale /\ c.dkey = k /\ SameCopies(c, e)
<1>1. /\ e.rows \in Seq(Row) /\ e.stale \in BOOLEAN /\ e.bf \in Seq(Row) /\ e.dc \in Seq(Row)
      /\ e.dkey \in BOOLEAN /\ e.dload \in BOOLEAN /\ e.bload \in BOOLEAN
  BY DEF EntryType
<1>2. ASSUME NEW rows \in Seq(Row)
      PROVE LET c == [e EXCEPT !.rows = rows] IN
            c \in EntryType /\ c.rows = rows /\ c.stale = e.stale /\ c.dkey = e.dkey /\ SameCopies(c, e)
  BY DEF EntryType, SameCopies
<1>3. ASSUME NEW st \in BOOLEAN
      PROVE LET c == [e EXCEPT !.stale = st] IN
            c \in EntryType /\ c.rows = e.rows /\ c.stale = st /\ c.dkey = e.dkey /\ SameCopies(c, e)
  BY DEF EntryType, SameCopies
<1>4. ASSUME NEW k \in BOOLEAN
      PROVE LET c == [e EXCEPT !.dkey = k] IN
            c \in EntryType /\ c.rows = e.rows /\ c.stale = e.stale /\ c.dkey = k /\ SameCopies(c, e)
  BY DEF EntryType, SameCopies
<1> QED
  BY <1>1, <1>2, <1>3, <1>4

\* refresh_delta_cache touches the copy of .delta only; if there is one
\* afterwards, it is new, or its key was still valid.
LEMMA DeltaCopiesFacts ==
  ASSUME NEW e \in EntryType, DeltaOK(delta), NEW c \in DeltaCopies(e)
  PROVE  /\ c \in EntryType /\ c.rows = e.rows /\ c.stale = e.stale
         /\ c.bload = e.bload /\ c.bf = e.bf
         /\ c.dload => /\ c.dkey
                       /\ \E d \in delta : c.dc = d.rows \/ (c = e /\ e.dkey)
<1> DEFINE none1 == [e EXCEPT !.dload = FALSE, !.dc = <<>>, !.dkey = FALSE]
<1> DEFINE none2 == [e EXCEPT !.dload = FALSE, !.dc = <<>>, !.dkey = TRUE]
<1> DEFINE full(d) == [e EXCEPT !.dload = TRUE, !.dc = d.rows, !.dkey = TRUE]
<1>1. \/ c = none1
      \/ delta # {} /\ e.dkey /\ c = e
      \/ c = none2
      \/ delta # {} /\ c = full(The(delta))
  BY DEF DeltaCopies
<1>2. \A d \in delta : d.rows \in Seq(Row)
  BY DEF DeltaOK, DeltaType
<1>3. CASE c = none1
  <2> PICK nil \in Seq(Row) : nil = <<>>
    BY EmptySeq
  <2> QED
    BY <1>3 DEF EntryType
<1>4. CASE c = none2
  <2> PICK nil \in Seq(Row) : nil = <<>>
    BY EmptySeq
  <2> QED
    BY <1>4 DEF EntryType
<1>5. CASE delta # {} /\ c = full(The(delta))
  <2> PICK d \in delta : TRUE
    BY <1>5
  <2>1. The(delta) = d /\ d.rows \in Seq(Row)
    BY <1>2, OneOf DEF DeltaOK
  <2>2. c = full(d)
    BY <2>1, <1>5
  <2> QED
    BY <2>1, <2>2 DEF EntryType
<1>6. CASE delta # {} /\ e.dkey /\ c = e
  BY <1>6
<1> QED
  BY <1>1, <1>3, <1>4, <1>5, <1>6

\* refresh_main_bf_cache touches the copy of .vectors only; if there is one
\* afterwards, it is the file, or the one there was.
LEMMA BfCopiesFacts ==
  ASSUME NEW e \in EntryType, BaseOK(vecs), vecs # {}, NEW c \in BfCopies(e)
  PROVE  /\ c \in EntryType /\ c.rows = e.rows /\ c.stale = e.stale
         /\ c.dload = e.dload /\ c.dc = e.dc /\ c.dkey = e.dkey
         /\ c.bload => (c.bf = The(vecs) \/ (e.bload /\ c.bf = e.bf))
<1> PICK v \in vecs : TRUE
  OBVIOUS
<1>0. The(vecs) = v /\ v \in Seq(Row)
  BY OneOf DEF BaseOK
<1> DEFINE none == [e EXCEPT !.bload = FALSE, !.bf = <<>>, !.bfkey = TRUE]
<1> DEFINE full == [e EXCEPT !.bload = TRUE, !.bf = v, !.bfkey = TRUE]
<1>1. \/ e.bload /\ c = e
      \/ c = none
      \/ c = full
  BY <1>0 DEF BfCopies
<1>2. CASE c = none
  <2> PICK nil \in Seq(Row) : nil = <<>>
    BY EmptySeq
  <2> QED
    BY <1>2 DEF EntryType
<1>3. CASE c = full
  BY <1>3, <1>0 DEF EntryType
<1> QED
  BY <1>1, <1>2, <1>3

\* The entry a search works on is the resident one, or fresh from the files.
LEMMA LoadedFacts ==
  ASSUME StateInv, NEW e \in Loaded
  PROVE  /\ e \in EntryType /\ e.stale = stale
         /\ \/ e \in res
            \/ res = {} /\ e.rows \in base /\ ~e.bload /\ ~e.dload /\ ~e.dkey
         /\ base # {}
<1>1. CASE res # {}
  BY <1>1 DEF Loaded, StateInv, ResOK, EntryOK
<1>2. CASE res = {}
  <2> PICK rows \in base : e = Entry(rows, stale)
    BY <1>2 DEF Loaded
  <2>1. rows \in Seq(Row) /\ stale \in BOOLEAN
    BY DEF StateInv, BaseOK
  <2> QED
    BY <2>1, <1>2, EntryFacts
<1> QED
  BY <1>1, <1>2

\* The entries of `ents' after a mark_stale.
Marked(ents) == {IF up THEN [e EXCEPT !.stale = TRUE] ELSE e : e \in ents}

\* c is e, but for the stale flag and the key of the copy of .vectors.
Like(c, e) == c \in EntryType /\ c.rows = e.rows /\ c.dkey = e.dkey /\ SameCopies(c, e)

\* A registry with one entry of the index.
LEMMA SingletonRes == ASSUME NEW c \in EntryType PROVE ResOK({c})
  BY OneIsOne DEF ResOK

\* mark_stale reaches the entry if the daemon is up.
LEMMA MarkedFacts ==
  ASSUME NEW ents, ResOK(ents), up \in BOOLEAN
  PROVE  /\ ResOK(Marked(ents)) /\ (Marked(ents) = {} <=> ents = {})
         /\ ~up => Marked(ents) = ents
         /\ \A c \in Marked(ents) : \E e \in ents : Like(c, e) /\ (up => c.stale)
<1>1. CASE ents = {}
  <2>1. Marked(ents) = {}
    BY <1>1 DEF Marked
  <2> QED
    BY <2>1, <1>1
<1>2. CASE ents # {}
  <2> PICK e \in ents : TRUE
    BY <1>2
  <2>1. ents = {e} /\ e \in EntryType
    BY OneOf DEF ResOK
  <2> DEFINE c == IF up THEN [e EXCEPT !.stale = TRUE] ELSE e
  <2>2. Marked(ents) = {c}
    BY <2>1 DEF Marked
  <2>3. c \in EntryType /\ Like(c, e) /\ (up => c.stale) /\ (~up => c = e)
    <3>1. CASE up
      <4>1. [e EXCEPT !.stale = TRUE] \in EntryType /\ Like([e EXCEPT !.stale = TRUE], e)
            /\ [e EXCEPT !.stale = TRUE].stale
        BY <2>1 DEF EntryType, Like, SameCopies
      <4> QED
        BY <3>1, <4>1
    <3>2. CASE ~up
      BY <2>1, <3>2 DEF Like, SameCopies
    <3> QED
      BY <3>1, <3>2
  <2> HIDE DEF c
  <2> QED
    BY <2>1, <2>2, <2>3, SingletonRes
<1> QED
  BY <1>1, <1>2

\* EXTEND appends the row to the graph, and touches nothing else of the entry.
LEMMA ExtendedFacts ==
  ASSUME NEW r \in Row, ResOK(res)
  PROVE  /\ ResOK(Extended(r)) /\ (Extended(r) = {} <=> res = {})
         /\ \A c \in Extended(r) : \E e \in res :
              /\ c.rows = Append(e.rows, r) /\ c.stale = e.stale
              /\ c.dkey = e.dkey /\ SameCopies(c, e)
<1>1. CASE res = {}
  <2>1. Extended(r) = {}
    BY <1>1 DEF Extended
  <2> QED
    BY <2>1, <1>1
<1>2. CASE res # {}
  <2> PICK e \in res : TRUE
    BY <1>2
  <2>1. res = {e} /\ e \in EntryType
    BY OneOf DEF ResOK
  <2> DEFINE c == [e EXCEPT !.rows = Append(e.rows, r)]
  <2>2. Extended(r) = {c}
    BY <2>1 DEF Extended
  <2>3. Append(e.rows, r) \in Seq(Row)
    BY <2>1, EditFacts
  <2>4. c \in EntryType /\ c.rows = Append(e.rows, r) /\ c.stale = e.stale /\ c.dkey = e.dkey /\ SameCopies(c, e)
    BY <2>1, <2>3, EditFacts
  <2> HIDE DEF c
  <2> QED
    BY <2>1, <2>2, <2>4, SingletonRes
<1> QED
  BY <1>1, <1>2

\* The two outcomes of cuvs_delta_append.
Appended(r, ents) ==
  /\ DeltaOK(delta') /\ stale' = stale /\ (delta = {} => base # {})
  /\ \E d2 \in DeltaType :
       /\ delta' = {d2}
       /\ \/ delta = {} /\ d2.rows = <<r>>
          \/ \E d \in delta : d2.rows = Append(d.rows, r)
  /\ \/ ents = {} /\ res' = {}
     \/ \E e \in ents, c \in EntryType :
          /\ res' = {c} /\ c.rows = e.rows /\ c.stale = e.stale /\ SameCopies(c, e)
          /\ c.dkey => e.dkey

\* cuvs_delta_append appends the row, or the index is marked stale as far as
\* there is someone to tell.
LEMMA DeltaAppendFacts ==
  ASSUME StateInv, NEW r \in Row, NEW ents, ResOK(ents), DeltaAppend(r, ents)
  PROVE  \/ Appended(r, ents)
         \/ delta' = delta /\ stale' = (stale \/ up) /\ res' = Marked(ents)
<1>1. CASE delta' = delta /\ stale' = (stale \/ up) /\ res' = {IF up THEN [e EXCEPT !.stale = TRUE] ELSE e : e \in ents}
  BY <1>1 DEF Marked
<1>2. CASE /\ \/ delta = {} /\ base # {}
                 /\ delta' = {[gen |-> Gen(The(base)), rows |-> <<r>>]}
              \/ \E d \in delta : /\ Len(d.rows) < MaxDelta
                                  /\ delta' = {[d EXCEPT !.rows = Append(@, r)]}
           /\ \/ ents = {} /\ res' = {}
              \/ \E e \in ents : \E k \in KeyAfterWrite(e.dkey) : res' = {[e EXCEPT !.dkey = k]}
           /\ UNCHANGED stale
  <2>1. /\ DeltaOK(delta') /\ (delta = {} => base # {})
        /\ \E d2 \in DeltaType :
             /\ delta' = {d2}
             /\ \/ delta = {} /\ d2.rows = <<r>>
                \/ \E d \in delta : d2.rows = Append(d.rows, r)
    <3>1. CASE delta = {} /\ base # {} /\ delta' = {[gen |-> Gen(The(base)), rows |-> <<r>>]}
      <4> PICK b \in base : TRUE
        BY <3>1
      <4>1. The(base) = b /\ b \in Seq(Row)
        BY OneOf DEF StateInv, BaseOK
      <4>2. PICK g \in Seq(Tids) : g = Gen(The(base))
        BY <4>1, GenType
      <4>3. <<r>> \in Seq(Row) /\ Len(<<r>>) = 1
        OBVIOUS
      <4>4. PICK q \in Seq(Row) : q = <<r>>
        BY <4>3
      <4> DEFINE d2 == [gen |-> g, rows |-> q]
      <4>5. delta' = {d2} /\ d2 \in DeltaType /\ d2.rows = q
        BY <3>1, <4>2, <4>4 DEF DeltaType
      <4> HIDE DEF d2
      <4>6. Len(d2.rows) <= MaxDelta
        BY <4>3, <4>4, <4>5, MaxDeltaAssumption
      <4> QED
        BY <3>1, <4>4, <4>5, <4>6, OneIsOne DEF DeltaOK
    <3>2. ASSUME NEW d \in delta, Len(d.rows) < MaxDelta, delta' = {[d EXCEPT !.rows = Append(@, r)]}
          PROVE  /\ DeltaOK(delta') /\ (delta = {} => base # {})
                 /\ \E d2 \in DeltaType : delta' = {d2} /\ d2.rows = Append(d.rows, r)
      <4>1. d \in DeltaType
        BY DEF StateInv, DeltaOK
      <4>2. d.rows \in Seq(Row)
        BY <4>1 DEF DeltaType
      <4>3. PICK q \in Seq(Row) : q = Append(d.rows, r) /\ Len(q) = Len(d.rows) + 1
        <5>1. Append(d.rows, r) \in Seq(Row) /\ Len(Append(d.rows, r)) = Len(d.rows) + 1
          BY <4>2
        <5> QED
          BY <5>1
      <4> DEFINE d2 == [d EXCEPT !.rows = q]
      <4>4. delta' = {d2} /\ d2 \in DeltaType /\ d2.rows = q
        BY <3>2, <4>1, <4>3 DEF DeltaType
      <4> HIDE DEF d2
      <4>5. Len(d2.rows) <= MaxDelta
        BY <3>2, <4>2, <4>3, <4>4, MaxDeltaAssumption
      <4> QED
        BY <4>3, <4>4, <4>5, OneIsOne DEF DeltaOK
    <3> QED
      BY <1>2, <3>1, <3>2
  <2>2. \/ ents = {} /\ res' = {}
        \/ \E e \in ents, c \in EntryType :
             /\ res' = {c} /\ c.rows = e.rows /\ c.stale = e.stale /\ SameCopies(c, e)
             /\ c.dkey => e.dkey
    <3> SUFFICES ASSUME NEW e \in ents, NEW k \in KeyAfterWrite(e.dkey), res' = {[e EXCEPT !.dkey = k]}
                 PROVE  \E c \in EntryType :
                          /\ res' = {c} /\ c.rows = e.rows /\ c.stale = e.stale /\ SameCopies(c, e)
                          /\ c.dkey => e.dkey
      BY <1>2
    <3>1. e \in EntryType
      BY DEF ResOK
    <3>2. k \in BOOLEAN /\ (k => e.dkey)
      <4>1. e.dkey \in BOOLEAN
        BY <3>1 DEF EntryType
      <4> QED
        BY <4>1 DEF KeyAfterWrite
    <3> QED
      BY <3>1, <3>2, EditFacts
  <2> QED
    BY <1>2, <2>1, <2>2 DEF Appended
<1> QED
  BY <1>1, <1>2 DEF DeltaAppend

\* handle_compact leaves graph and base alone, or filters the graph and, if it
\* can, saves it; the tombstones are then there as before or gone.
LEMMA CompactFacts ==
  ASSUME StateInv, NEW dead, NEW file, Compact(dead, file)
  PROVE  /\ tomb' = {} \/ tomb' = file
         /\ \/ base' = base /\ res' = res
            \/ \E e \in res, c \in EntryType :
                 /\ kind = "cagra" /\ res' = {c} /\ c.rows = Keep(e.rows, dead)
                 /\ c.stale = e.stale /\ c.dkey = e.dkey /\ SameCopies(c, e)
                 /\ base' = base \/ base' = {c.rows}
<1>1. CASE base' = base /\ res' = res
  BY <1>1 DEF Compact
<1>2. ASSUME NEW e \in res, kind = "cagra", res' = {[e EXCEPT !.rows = Keep(e.rows, dead)]},
             (base' = {Keep(e.rows, dead)} /\ tomb' = {}) \/ (tomb' = file /\ base' = base)
      PROVE  \E c \in EntryType :
                 /\ kind = "cagra" /\ res' = {c} /\ c.rows = Keep(e.rows, dead)
                 /\ c.stale = e.stale /\ c.dkey = e.dkey /\ SameCopies(c, e)
                 /\ base' = base \/ base' = {c.rows}
  <2>1. e \in EntryType
    BY DEF StateInv, ResOK
  <2>2. e.rows \in Seq(Row)
    BY <2>1, EditFacts
  <2>3. Keep(e.rows, dead) \in Seq(Row)
    BY <2>2, KeepFacts
  <2> QED
    <3> PICK kept \in Seq(Row) : kept = Keep(e.rows, dead)
      BY <2>3
    <3> DEFINE c == [e EXCEPT !.rows = kept]
    <3>1. c \in EntryType /\ c.rows = kept /\ c.stale = e.stale /\ c.dkey = e.dkey /\ SameCopies(c, e)
      BY <2>1, EditFacts
    <3>2. res' = {c}
      BY <1>2
    <3> HIDE DEF c
    <3> QED
      BY <1>2, <3>1, <3>2
<1> QED
  BY <1>1, <1>2 DEF Compact

\* handle_compact keeps what the invariant says about the files it touches.
LEMMA CompactInv ==
  ASSUME StateInv, NEW dead, NEW file, Compact(dead, file), vecs' = vecs, TombOK(file)
  PROVE  /\ BaseOK(base') /\ TombOK(tomb') /\ ResOK(res')
         /\ kind = "flat" => FlatOK(base', vecs', res')
         /\ EntryOK(base', res', stale, up)
<1>1. TombOK({})
  BY DEF TombOK, AtMostOne
<1>2. TombOK(tomb')
  BY <1>1, CompactFacts
<1>3. CASE base' = base /\ res' = res
  BY <1>3, <1>2 DEF StateInv
<1>4. ASSUME NEW e \in res, NEW c \in EntryType, kind = "cagra", res' = {c}, c.stale = e.stale,
             base' = base \/ base' = {c.rows}
      PROVE  /\ BaseOK(base') /\ ResOK(res') /\ kind # "flat"
             /\ EntryOK(base', res', stale, up)
  <2>1. BaseOK(base')
    <3>1. c.rows \in Seq(Row)
      BY EditFacts
    <3>2. BaseOK({c.rows})
      BY <3>1, OneIsOne DEF BaseOK
    <3> QED
      BY <1>4, <3>2 DEF StateInv
  <2>2. e.stale = stale /\ up /\ base # {} /\ base' # {}
    BY <1>4 DEF StateInv, EntryOK
  <2>3. EntryOK(base', res', stale, up)
    BY <2>2, <1>4 DEF EntryOK
  <2> QED
    BY <1>4, <2>1, <2>3, SingletonRes
<1> QED
  BY <1>2, <1>3, <1>4, CompactFacts

\* cuvs_tombstone_append within the cap.
LEMMA TombAfterOK ==
  ASSUME StateInv, NEW new \in SUBSET Tids, base # {}, Cardinality(Tombstoned \cup new) <= MaxDelta \/ new = {}
  PROVE  /\ TombOK(TombAfter(new))
         /\ \A d \in TombAfter(new) : d.tids \subseteq Tombstoned \cup new
<1>1. CASE tomb = {} /\ new # {}
  <2> PICK b \in base : TRUE
    OBVIOUS
  <2>1. The(base) = b /\ b \in Seq(Row)
    BY OneOf DEF StateInv, BaseOK
  <2>2. PICK g \in Seq(Tids) : g = Gen(The(base))
    BY <2>1, GenType
  <2>3. Tombstoned \cup new = new
    BY <1>1 DEF Tombstoned
  <2>4. Cardinality(new) <= MaxDelta
    BY <1>1, <2>3
  <2> DEFINE d == [gen |-> g, tids |-> new, eff |-> {}]
  <2>5. TombAfter(new) = {d} /\ d \in TombType /\ d.tids = new /\ d.eff = {}
    BY <1>1, <2>2 DEF TombAfter, TombType
  <2> HIDE DEF d
  <2> QED
    BY <2>3, <2>4, <2>5, OneIsOne DEF TombOK
<1>2. CASE tomb = {} /\ new = {}
  <2>1. TombAfter(new) = {}
    BY <1>2 DEF TombAfter
  <2> QED
    BY <2>1 DEF TombOK, AtMostOne
<1>3. CASE tomb # {}
  <2> PICK f \in tomb : TRUE
    BY <1>3
  <2>1. tomb = {f} /\ f \in TombType
    BY OneOf DEF StateInv, TombOK
  <2>2. Tombstoned = f.tids
    BY <2>1 DEF Tombstoned
  <2>3. f.gen \in Seq(Tids) /\ f.tids \in SUBSET Tids /\ f.eff \in SUBSET Tids /\ f.eff \subseteq f.tids
        /\ Cardinality(f.tids) <= MaxDelta
    BY <2>1 DEF StateInv, TombOK, TombType
  <2> PICK x \in SUBSET Tids : x = f.tids \cup new
    BY <2>3
  <2>4. Cardinality(x) <= MaxDelta
    <3>1. CASE new = {}
      <4>1. x = f.tids
        BY <3>1
      <4> QED
        BY <4>1, <2>3
    <3> QED
      BY <2>2, <3>1
  <2> DEFINE d == [f EXCEPT !.tids = x]
  <2>5. TombAfter(new) = {d}
    BY <2>1 DEF TombAfter
  <2>6. d \in TombType /\ d.tids = x /\ d.eff = f.eff
    BY <2>1 DEF TombType
  <2> HIDE DEF d
  <2> QED
    BY <2>2, <2>3, <2>4, <2>5, <2>6, OneIsOne DEF TombOK
<1> QED
  BY <1>1, <1>2, <1>3
-----------------------------------------------------------------------------
(* Every step keeps the invariant of Spec.                                 *)

\* The first rows, and who has them.
LEMMA InitRows ==
  ASSUME Init
  PROVE  \E n, first :
           /\ n \in Nat
           /\ first = [i \in 1 .. n |-> [tid |-> i, ver |-> i]]
           /\ n <= NTids /\ n <= MaxVer
           /\ heap = [t \in Tids |-> [ver |-> IF t <= n THEN t ELSE 0,
                                      st  |-> IF t <= n THEN "live" ELSE "free"]]
           /\ nextver = n
           /\ \/ /\ (n = 0 /\ base = {}) \/ base = {first}
                 /\ pending = {} /\ conc = [pc |-> "done", todo |-> {}]
              \/ /\ base = {}
                 /\ pending = {first} /\ conc = [pc |-> "scan", todo |-> Tids]
<1>1. PICK n \in {0, MinRows} :
        /\ n <= NTids /\ n <= MaxVer
        /\ heap = [t \in Tids |-> [ver |-> IF t <= n THEN t ELSE 0,
                                   st  |-> IF t <= n THEN "live" ELSE "free"]]
        /\ nextver = n
        /\ LET rows == [i \in 1 .. n |-> [tid |-> i, ver |-> i]] IN
             \/ /\ base = IF n = 0 THEN {} ELSE {rows}
                /\ pending = {} /\ conc = [pc |-> "done", todo |-> {}]
             \/ /\ "concurrently" \in events
                /\ base = {}
                /\ pending = {rows} /\ conc = [pc |-> "scan", todo |-> Tids]
  BY Zenon DEF Init
<1>2. n \in Nat
  BY DEF MinRows
<1> PICK first : first = [i \in 1 .. n |-> [tid |-> i, ver |-> i]]
  OBVIOUS
<1>3. \/ /\ (n = 0 /\ base = {}) \/ base = {first}
         /\ pending = {} /\ conc = [pc |-> "done", todo |-> {}]
      \/ /\ base = {}
         /\ pending = {first} /\ conc = [pc |-> "scan", todo |-> Tids]
  BY <1>1, Zenon
<1> QED
  BY <1>1, <1>2, <1>3, Zenon

\* The invariant holds after CREATE INDEX, and when it has just begun.
LEMMA InitStateInv == Init => StateInv
<1> SUFFICES ASSUME Init PROVE StateInv
  OBVIOUS
<1>1. /\ kind \in Kinds /\ stale \in BOOLEAN /\ up \in BOOLEAN /\ sock \in BOOLEAN
      /\ DeltaOK(delta) /\ TombOK(tomb) /\ VacOK(vac, heap) /\ CompOK(comp)
  BY DEF Init, DeltaOK, TombOK, VacOK, CompOK, AtMostOne, VacType
<1>2. PICK n, first :
        /\ n \in Nat
        /\ first = [i \in 1 .. n |-> [tid |-> i, ver |-> i]]
        /\ n <= NTids /\ n <= MaxVer
        /\ heap = [t \in Tids |-> [ver |-> IF t <= n THEN t ELSE 0,
                                   st  |-> IF t <= n THEN "live" ELSE "free"]]
        /\ nextver = n
        /\ \/ /\ (n = 0 /\ base = {}) \/ base = {first}
              /\ pending = {} /\ conc = [pc |-> "done", todo |-> {}]
           \/ /\ base = {}
              /\ pending = {first} /\ conc = [pc |-> "scan", todo |-> Tids]
  BY InitRows
<1>3. HeapOK(heap) /\ nextver \in 0 .. MaxVer
  BY <1>2, MaxVerAssumption, NTidsAssumption DEF HeapOK, LineStates, Tids
<1>4. first \in Seq(Row) /\ ReadFrom(heap, first) /\ Distinct(first)
  <2>1. \A i \in 1 .. n : [tid |-> i, ver |-> i] \in Row /\ i \in Tids
    BY <1>2, MaxVerAssumption, NTidsAssumption DEF Row, Tids
  <2>2. first \in Seq(Row)
    BY <1>2, <2>1, IsASeq
  <2>3. \A i \in 1 .. n : heap[i].st = "live" /\ heap[i].ver = i
    BY <1>2, <2>1
  <2>4. DOMAIN first = 1 .. n /\ \A i \in 1 .. n : first[i].tid = i /\ first[i].ver = i
    BY <1>2
  <2> QED
    BY <2>2, <2>3, <2>4 DEF ReadFrom, Distinct
<1>5. \/ /\ base = {} \/ base = {first}
         /\ pending = {} /\ conc = [pc |-> "done", todo |-> {}]
      \/ /\ base = {}
         /\ pending = {first} /\ conc = [pc |-> "scan", todo |-> Tids]
  BY <1>2
<1>6. BaseOK(base) /\ BaseOK(vecs) /\ PendingOK(pending)
  <2>1. BaseOK({}) /\ BaseOK({first}) /\ PendingOK({}) /\ PendingOK({first})
    BY <1>4 DEF PendingOK, BaseOK, AtMostOne
  <2> QED
    BY <1>5, <2>1 DEF Init
<1>7. /\ ResOK(res) /\ FlatOK(base, vecs, res) /\ EntryOK(base, res, stale, up)
      /\ base = {} => res = {}
  <2>1. res = {Entry(rows, FALSE) : rows \in base} /\ vecs = base /\ up /\ ~stale /\ stale = FALSE
    BY DEF Init
  <2>2. CASE base = {}
    BY <2>1, <2>2 DEF ResOK, FlatOK, EntryOK, AtMostOne
  <2>3. CASE base = {first}
    <3>1. PICK c \in EntryType : c = Entry(first, FALSE) /\ c.rows = first /\ c.stale = FALSE /\ ~c.bload
      BY <1>4, EntryFacts
    <3>2. res = {c}
      BY <2>1, <2>3, <3>1
    <3>3. ResOK(res)
      BY <3>2, SingletonRes
    <3> QED
      BY <2>1, <2>3, <3>1, <3>2, <3>3 DEF FlatOK, EntryOK
  <2> QED
    BY <1>5, <2>2, <2>3
<1>8. ConcInv
  <2>1. vac.pc = "idle" /\ tomb = {} /\ comp = {} /\ delta = {}
    BY DEF Init
  <2>2. CASE conc = [pc |-> "done", todo |-> {}]
    BY <1>6, <2>2 DEF ConcInv, ConcType
  <2>3. CASE base = {} /\ pending = {first} /\ conc = [pc |-> "scan", todo |-> Tids]
    BY <1>4, <1>6, <1>7, <2>1, <2>3 DEF ConcInv, ConcType
  <2> QED
    BY <1>5, <2>2, <2>3
<1> QED
  BY <1>1, <1>3, <1>6, <1>7, <1>8 DEF StateInv

\* Outside CREATE INDEX CONCURRENTLY there is nothing to keep.
LEMMA ConcDoneInv ==
  ASSUME conc.pc = "done", ConcInv, conc' = conc, PendingOK(pending')
  PROVE  ConcInv'
  BY DEF ConcInv

\* What VACUUM and COMPACT do is outside of it.
LEMMA MaintenanceInv ==
  ASSUME StateInv, UNCHANGED builds,
         \/ VacuumStart \/ VacuumHeap \/ VacuumCancel \/ VacuumCommit
         \/ BulkDelete \/ VacuumCleanup \/ CompactRead \/ CompactFinish
  PROVE  ConcInv'
<1>1. ConcInv
  BY DEF StateInv
<1>2. conc.pc = "done"
  BY <1>1 DEF ConcInv, VacuumStart, VacuumHeap, VacuumCancel, VacuumCommit, BulkDelete, VacuumCleanup,
              CompactRead, CompactFinish
<1> QED
  BY <1>1, <1>2, ConcDoneInv DEF builds, ConcInv

\* The row an INSERT adds.
LEMMA InsertRow ==
  ASSUME StateInv, NEW t \in Tids, Insert(t)
  PROVE  [tid |-> t, ver |-> nextver + 1] \in Row
  BY MaxVerAssumption DEF StateInv, Insert, Row

\* cuvs_aminsert keeps what the invariant says about the files it touches,
\* whichever way the row takes.
LEMMA AminsertInv ==
  ASSUME StateInv, NEW r \in Row, aminsert(r)
  PROVE  /\ stale' \in BOOLEAN /\ DeltaOK(delta') /\ ResOK(res')
         /\ kind = "flat" => FlatOK(base, vecs, res')
         /\ EntryOK(base, res', stale', up)
<1>0. ResOK(res) /\ up \in BOOLEAN /\ stale \in BOOLEAN
  BY DEF StateInv
<1>1. CASE stale /\ UNCHANGED <<delta, stale, res>>
  BY <1>1 DEF StateInv
<1>2. CASE /\ kind = "cagra" /\ up /\ res # {}
           /\ res' = Extended(r)
           /\ UNCHANGED <<delta, stale>>
  <2>1. ResOK(res') /\ \A c \in res' : \E e \in res : c.stale = e.stale
    BY <1>2, <1>0, ExtendedFacts
  <2>2. EntryOK(base, res', stale', up)
    BY <1>2, <2>1 DEF StateInv, EntryOK
  <2> QED
    BY <1>2, <2>1, <2>2 DEF StateInv
<1>3. ASSUME NEW ents, ResOK(ents), DeltaAppend(r, ents),
             EntryOK(base, ents, stale, up), kind = "flat" => FlatOK(base, vecs, ents)
      PROVE  /\ stale' \in BOOLEAN /\ DeltaOK(delta') /\ ResOK(res')
             /\ kind = "flat" => FlatOK(base, vecs, res')
             /\ EntryOK(base, res', stale', up)
  <2>1. CASE Appended(r, ents)
    <3>1. DeltaOK(delta') /\ stale' = stale
      BY <2>1 DEF Appended
    <3>2. CASE ents = {} /\ res' = {}
      BY <3>1, <3>2, <1>3, <1>0
    <3>3. ASSUME NEW e \in ents, NEW c \in EntryType, res' = {c}, c.rows = e.rows, c.stale = e.stale, SameCopies(c, e)
          PROVE  ResOK(res') /\ (kind = "flat" => FlatOK(base, vecs, res')) /\ EntryOK(base, res', stale', up)
      <4>1. ResOK(res')
        BY <3>3, SingletonRes
      <4>2. EntryOK(base, res', stale', up)
        BY <3>1, <3>3, <1>3 DEF EntryOK
      <4>3. kind = "flat" => FlatOK(base, vecs, res')
        BY <3>3, <1>3 DEF FlatOK, SameCopies
      <4> QED
        BY <4>1, <4>2, <4>3
    <3> QED
      BY <2>1, <3>1, <3>2, <3>3, <1>0 DEF Appended
  <2>2. CASE delta' = delta /\ stale' = (stale \/ up) /\ res' = Marked(ents)
    <3>1. /\ ResOK(res') /\ (res' = {} <=> ents = {}) /\ (~up => res' = ents)
          /\ \A c \in res' : \E e \in ents : Like(c, e) /\ (up => c.stale)
      BY <2>2, <1>3, <1>0, MarkedFacts
    <3>2. DeltaOK(delta') /\ stale' \in BOOLEAN
      BY <2>2, <1>0 DEF StateInv
    <3>3. EntryOK(base, res', stale', up)
      <4>1. CASE up
        <5>1. stale' = TRUE
          BY <4>1, <2>2
        <5>2. \A c \in res' : c.stale \in BOOLEAN
          BY <3>1 DEF ResOK, EntryType
        <5> QED
          BY <4>1, <5>1, <5>2, <3>1, <1>3 DEF EntryOK
      <4>2. CASE ~up
        <5>1. stale' = stale
          BY <4>2, <2>2, <1>0
        <5> QED
          BY <5>1, <4>2, <3>1, <1>3
      <4> QED
        BY <4>1, <4>2
    <3>4. kind = "flat" => FlatOK(base, vecs, res')
      BY <3>1, <1>3 DEF FlatOK, Like, SameCopies
    <3> QED
      BY <3>1, <3>2, <3>3, <3>4
  <2> QED
    BY <1>3, <2>1, <2>2, DeltaAppendFacts
<1>4. CASE DeltaAppend(r, res)
  BY <1>3, <1>4, <1>0 DEF StateInv
<1>5. CASE kind = "cagra" /\ DeltaAppend(r, Extended(r))
  <2>1. ResOK(Extended(r)) /\ (Extended(r) = {} <=> res = {}) /\ \A c \in Extended(r) : \E e \in res : c.stale = e.stale
    BY <1>0, ExtendedFacts
  <2>2. EntryOK(base, Extended(r), stale, up)
    BY <2>1 DEF StateInv, EntryOK
  <2> QED
    BY <1>3, <1>5, <2>1, <2>2
<1> QED
  BY <1>1, <1>2, <1>4, <1>5 DEF aminsert

\* The TIDs of a row list, and those of a longer one.
LEMMA TidsOfFact == \A rows, t : t \in TidsOf(rows) <=> \E i \in DOMAIN rows : rows[i].tid = t
  BY DEF TidsOf

LEMMA AppendTids ==
  ASSUME NEW rows \in Seq(Row), NEW r \in Row, NEW t \in TidsOf(rows)
  PROVE  t \in TidsOf(Append(rows, r))
<1> PICK i \in DOMAIN rows : rows[i].tid = t
  BY TidsOfFact
<1>1. i \in DOMAIN Append(rows, r) /\ Append(rows, r)[i] = rows[i]
  OBVIOUS
<1> QED
  BY <1>1, TidsOfFact

\* The graph in VRAM never loses a row to cuvs_aminsert.
LEMMA AminsertGrows ==
  ASSUME StateInv, NEW r \in Row, aminsert(r), NEW t, \A e \in res : t \in TidsOf(e.rows)
  PROVE  \A c \in res' : t \in TidsOf(c.rows)
<1>0. ResOK(res) /\ up \in BOOLEAN
  BY DEF StateInv
<1>1. ResOK(Extended(r)) /\ \A c \in Extended(r) : t \in TidsOf(c.rows)
  <2>1. ResOK(Extended(r)) /\ \A c \in Extended(r) : \E e \in res : c.rows = Append(e.rows, r)
    BY <1>0, ExtendedFacts
  <2>2. \A e \in res : e.rows \in Seq(Row)
    BY <1>0 DEF ResOK, EntryType
  <2> QED
    BY <2>1, <2>2, AppendTids
<1>2. ASSUME NEW ents, ResOK(ents), DeltaAppend(r, ents), \A e \in ents : t \in TidsOf(e.rows)
      PROVE  \A c \in res' : t \in TidsOf(c.rows)
  <2>1. CASE Appended(r, ents)
    BY <1>2, <2>1 DEF Appended
  <2>2. CASE res' = Marked(ents)
    <3>1. \A c \in Marked(ents) : \E e \in ents : Like(c, e)
      BY <1>0, <1>2, MarkedFacts
    <3> QED
      BY <1>2, <2>2, <3>1 DEF Like
  <2> QED
    BY <1>2, <2>1, <2>2, DeltaAppendFacts
<1> QED
  BY <1>0, <1>1, <1>2 DEF aminsert

\* Insert keeps the invariant.
LEMMA InsertInv == ASSUME StateInv, NEW t \in Tids, Insert(t) PROVE StateInv'
<1> PICK r \in Row : r = [tid |-> t, ver |-> nextver + 1]
  BY InsertRow
<1>0. UNCHANGED <<kind, base, vecs, tomb, up, sock, vac, comp, pending, conc>>
  BY DEF Insert, builds
<1>1. HeapOK(heap') /\ VacOK(vac', heap') /\ nextver' \in 0 .. MaxVer
  <2>1. PICK v \in 1 .. MaxVer : v = nextver + 1
    BY MaxVerAssumption DEF StateInv, Insert
  <2>2. heap' = [heap EXCEPT ![t] = [ver |-> v, st |-> "live"]] /\ nextver' = v /\ heap[t].st = "free" /\ vac' = vac
    BY <2>1 DEF Insert
  <2>3. HeapOK(heap')
    BY <2>2 DEF StateInv, HeapOK, LineStates
  <2>4. \A u \in Tids : heap[u].st = "dead" => heap'[u].st = "dead"
    BY <2>2 DEF StateInv, HeapOK
  <2>5. VacOK(vac', heap')
    BY <2>2, <2>4 DEF StateInv, VacOK, VacType
  <2> QED
    BY <2>1, <2>2, <2>3, <2>5
<1>2. \/ conc.pc = "scan" /\ UNCHANGED <<delta, stale, res>>
      \/ conc.pc # "scan" /\ aminsert(r)
  BY DEF Insert
<1>3. /\ stale' \in BOOLEAN /\ DeltaOK(delta') /\ ResOK(res')
      /\ kind = "flat" => FlatOK(base, vecs, res')
      /\ EntryOK(base, res', stale', up)
  <2>1. CASE UNCHANGED <<delta, stale, res>>
    BY <2>1 DEF StateInv
  <2> QED
    BY <1>2, <2>1, AminsertInv
<1>4. ConcInv'
  <2>0. ConcInv
    BY DEF StateInv
  <2>1. heap[t].st = "free" /\ \A u \in Tids : u # t => heap'[u] = heap[u]
    BY DEF Insert, StateInv, HeapOK
  <2>2. \A u \in Tids : heap[u].st \in {"live", "dead"} => heap'[u] = heap[u]
    BY <2>1
  <2>3. conc.pc \in {"snapshot", "validate"} => \A u \in conc.todo : heap'[u].st \in {"live", "dead"}
    BY <2>0, <2>2 DEF ConcInv, ConcType
  <2>4. conc.pc \in {"ready", "snapshot"} =>
          \A rows \in base : \A u \in TidsOf(rows) : \A e \in res' : u \in TidsOf(e.rows)
    BY <1>2, <2>0, AminsertGrows DEF ConcInv
  <2>5. ASSUME conc.pc = "scan"
        PROVE  delta' = delta /\ res' = res /\ \A rows \in pending : ReadFrom(heap', rows)
    <3>1. \A rows \in pending : rows \in Seq(Row)
      BY <2>0 DEF ConcInv, PendingOK, BaseOK
    <3>2. \A rows \in pending : \A i \in DOMAIN rows : rows[i].tid \in Tids
      BY <3>1, RowTids
    <3> QED
      BY <1>2, <2>0, <2>2, <2>5, <3>2 DEF ConcInv, ReadFrom
  <2> QED
    BY <1>0, <2>0, <2>3, <2>4, <2>5 DEF ConcInv
<1> QED
  BY <1>0, <1>1, <1>3, <1>4 DEF StateInv

\* Delete keeps the invariant.
LEMMA DeleteInv == ASSUME StateInv, NEW t \in Tids, Delete(t) PROVE StateInv'
<1>1. heap' = [heap EXCEPT ![t].st = "dead"] /\ heap[t].st = "live" /\ HeapOK(heap)
  BY DEF Delete, StateInv
<1>2. HeapOK(heap') /\ \A u \in Tids : heap[u].st = "dead" => heap'[u].st = "dead"
  BY <1>1 DEF HeapOK, LineStates
<1>3. VacOK(vac, heap')
  BY <1>2 DEF StateInv, VacOK, VacType
<1>4. ConcInv'
  <2>0. ConcInv
    BY DEF StateInv
  <2>1. \A u \in Tids : heap[u].st \in {"live", "dead"} =>
          heap'[u].st \in {"live", "dead"} /\ heap'[u].ver = heap[u].ver
    BY <1>1 DEF HeapOK
  <2>2. \A rows \in pending : \A i \in DOMAIN rows : rows[i].tid \in Tids
    BY <2>0, RowTids DEF ConcInv, PendingOK, BaseOK
  <2>3. \A rows \in pending : ReadFrom(heap, rows) => ReadFrom(heap', rows)
    BY <2>1, <2>2 DEF ReadFrom
  <2> QED
    BY <2>0, <2>1, <2>3 DEF ConcInv, ConcType, Delete, files, builds
<1> QED
  BY <1>2, <1>3, <1>4 DEF StateInv, Delete, files

\* The steps of VACUUM that touch the heap only keep the invariant.
LEMMA VacuumInv ==
  ASSUME StateInv, VacuumStart \/ VacuumHeap \/ VacuumCancel
  PROVE  StateInv'
<1>1. HeapOK(heap') /\ VacOK(vac', heap')
  <2>1. CASE VacuumStart
    <3>1. DeadTids \in SUBSET Tids /\ \A t \in DeadTids : heap[t].st = "dead"
      BY DEF DeadTids
    <3>2. vac' \in VacType /\ vac'.dead = DeadTids
      BY <2>1, <3>1 DEF VacuumStart, VacType
    <3> QED
      BY <2>1, <3>1, <3>2 DEF VacuumStart, VacOK, StateInv
  <2>2. CASE VacuumHeap
    <3>1. \A t \in Tids : heap'[t] = IF t \notin vac.dead THEN heap[t]
                ELSE [ver |-> 0, st |-> IF "reuse" \in events THEN "free" ELSE "retired"]
      BY <2>2 DEF VacuumHeap
    <3>2. HeapOK(heap')
      BY <2>2, <3>1, MaxVerAssumption DEF VacuumHeap, StateInv, HeapOK, LineStates
    <3>3. vac' \in VacType /\ vac'.pc = "cleanup"
      BY <2>2 DEF VacuumHeap, StateInv, VacOK, VacType
    <3> QED
      BY <3>2, <3>3 DEF VacOK
  <2>3. CASE VacuumCancel
    BY <2>3 DEF VacuumCancel, VacOK, VacType, StateInv
  <2> QED
    BY <2>1, <2>2, <2>3
<1>2. UNCHANGED <<kind, nextver, base, vecs, delta, tomb, stale, up, sock, res, comp, builds>>
  BY DEF VacuumStart, VacuumHeap, VacuumCancel, files
<1> QED
  BY <1>1, <1>2, MaintenanceInv DEF StateInv

\* VacuumCommit keeps the invariant.
LEMMA VacuumCommitInv == ASSUME StateInv, VacuumCommit PROVE StateInv'
<1>1. vac' \in VacType /\ VacOK(vac', heap')
  BY DEF VacuumCommit, VacOK, VacType
<1>2. TombOK(tomb')
  <2>1. CASE tomb = {}
    <3>1. tomb' = {}
      BY <2>1 DEF VacuumCommit
    <3> QED
      BY <3>1 DEF TombOK, AtMostOne
  <2>2. CASE tomb # {}
    <3> PICK f \in tomb : TRUE
      BY <2>2
    <3>1. tomb = {f} /\ f \in TombType
      BY OneOf DEF StateInv, TombOK
    <3>2. f.tids \in SUBSET Tids /\ f.eff \in SUBSET Tids /\ f.eff \subseteq f.tids
          /\ Cardinality(f.tids) <= MaxDelta
      BY <3>1 DEF StateInv, TombOK, TombType
    <3> PICK x \in SUBSET Tids : x = f.eff \cup (vac.marked \cap f.tids)
      BY <3>2
    <3> DEFINE d == [f EXCEPT !.eff = x]
    <3>3. tomb' = {d}
      BY <3>1 DEF VacuumCommit
    <3>4. d \in TombType /\ d.tids = f.tids /\ d.eff = x
      BY <3>1 DEF TombType
    <3> HIDE DEF d
    <3> QED
      BY <3>2, <3>3, <3>4, OneIsOne DEF TombOK
  <2> QED
    BY <2>1, <2>2
<1>3. UNCHANGED <<kind, heap, nextver, base, vecs, delta, stale, up, sock, res, comp, builds>>
  BY DEF VacuumCommit
<1> QED
  BY <1>1, <1>2, <1>3, MaintenanceInv DEF StateInv

\* mark_stale sets the marker and the flag together, or neither.
LEMMA MarkStaleInv ==
  ASSUME StateInv, MarkStale
  PROVE  /\ stale' \in BOOLEAN /\ ResOK(res') /\ (stale' <=> stale \/ up)
         /\ ~up => res' = res
         /\ \A c \in res' : \E e \in res : Like(c, e)
         /\ (res' = {}) <=> (res = {})
         /\ kind = "flat" => FlatOK(base, vecs, res')
         /\ EntryOK(base, res', stale', up)
<1>1. ResOK(res) /\ up \in BOOLEAN /\ stale \in BOOLEAN
  BY DEF StateInv
<1>2. res' = Marked(res) /\ stale' = (stale \/ up)
  BY DEF MarkStale, Marked
<1>3. /\ ResOK(res') /\ (res' = {} <=> res = {}) /\ (~up => res' = res)
      /\ \A c \in res' : \E e \in res : Like(c, e) /\ (up => c.stale)
  BY <1>1, <1>2, MarkedFacts
<1>4. EntryOK(base, res', stale', up)
  <2>1. CASE up
    <3>1. stale' = TRUE
      BY <2>1, <1>2
    <3>2. \A c \in res' : c.stale \in BOOLEAN
      BY <1>3 DEF ResOK, EntryType
    <3> QED
      BY <2>1, <3>1, <3>2, <1>3 DEF StateInv, EntryOK
  <2>2. CASE ~up
    <3>1. stale' = stale
      BY <2>2, <1>1, <1>2
    <3> QED
      BY <2>2, <3>1, <1>3 DEF StateInv
  <2> QED
    BY <2>1, <2>2
<1>5. kind = "flat" => FlatOK(base, vecs, res')
  BY <1>3 DEF StateInv, FlatOK, Like, SameCopies
<1> QED
  BY <1>1, <1>2, <1>3, <1>4, <1>5

\* The parts of the invariant that cuvs_ambulkdelete can disturb.
BulkInv ==
  /\ BaseOK(base') /\ TombOK(tomb') /\ ResOK(res') /\ stale' \in BOOLEAN
  /\ kind = "flat" => FlatOK(base', vecs', res')
  /\ EntryOK(base', res', stale', up)

\* BulkDelete keeps the invariant, wherever the loop stops.
LEMMA BulkDeleteInv == ASSUME StateInv, BulkDelete PROVE StateInv'
<1>0. UNCHANGED <<kind, heap, nextver, vecs, delta, up, sock, comp, builds>> /\ ConcInv'
  BY MaintenanceInv DEF BulkDelete
<1>1. CASE /\ stale
           /\ vac' = [vac EXCEPT !.pc = "heap"]
           /\ UNCHANGED <<base, tomb, stale, res>>
  <2>1. BulkInv
    BY <1>0, <1>1 DEF StateInv, BulkInv
  <2>2. VacOK(vac', heap')
    BY <1>0, <1>1 DEF StateInv, VacOK, VacType, BulkDelete
  <2> QED
    BY <1>0, <2>1, <2>2 DEF StateInv, BulkInv
<1>2. CASE /\ vac' = [vac EXCEPT !.pc = "heap"]
           /\ MarkStale
           /\ UNCHANGED <<base, tomb>>
  <2>1. BulkInv
    BY <1>0, <1>2, MarkStaleInv DEF StateInv, BulkInv
  <2>2. VacOK(vac', heap')
    BY <1>0, <1>2 DEF StateInv, VacOK, VacType, BulkDelete
  <2> QED
    BY <1>0, <2>1, <2>2 DEF StateInv, BulkInv
<1>3. ASSUME NEW file \in base, NEW n \in 0 .. Len(file), NEW new, new = {file[i].tid : i \in 1 .. n} \cap vac.dead,
             Cardinality(Tombstoned \cup new) <= MaxDelta \/ new = {},
             vac' = [vac EXCEPT !.pc = "heap", !.marked = new],
             \/ /\ n = Len(file)
                /\ tomb' = TombAfter(new)
                /\ UNCHANGED <<base, stale, res>>
             \/ /\ n = Len(file) /\ new # {} /\ up
                /\ Compact(Tombstoned \cup new, TombAfter(new))
                /\ UNCHANGED stale
             \/ /\ n < Len(file) /\ file[n + 1].tid \in vac.dead
                /\ \/ Cardinality(Tombstoned \cup new \cup {file[n + 1].tid}) > MaxDelta
                   \/ "io" \in events
                /\ tomb' = TombAfter(new)
                /\ MarkStale
                /\ UNCHANGED base
      PROVE  BulkInv /\ VacOK(vac', heap')
  <2>1. new \in SUBSET Tids /\ vac \in VacType
    BY <1>3 DEF StateInv, VacOK, VacType
  <2>2. TombOK(TombAfter(new)) /\ vecs' = vecs
    BY <1>0, <1>3, <2>1, TombAfterOK
  <2>3. BulkInv
    <3>1. CASE tomb' = TombAfter(new) /\ UNCHANGED <<base, stale, res>>
      BY <3>1, <2>2 DEF StateInv, BulkInv
    <3>2. CASE Compact(Tombstoned \cup new, TombAfter(new)) /\ UNCHANGED stale
      <4>1. PICK dead, f : Compact(dead, f) /\ TombOK(f)
        BY <3>2, <2>2
      <4>2. /\ BaseOK(base') /\ TombOK(tomb') /\ ResOK(res')
            /\ kind = "flat" => FlatOK(base', vecs', res')
            /\ EntryOK(base', res', stale, up)
        BY <4>1, <2>2, CompactInv
      <4> QED
        BY <3>2, <4>2 DEF StateInv, BulkInv
    <3>3. CASE tomb' = TombAfter(new) /\ MarkStale /\ UNCHANGED base
      BY <3>3, <2>2, MarkStaleInv DEF StateInv, BulkInv
    <3> QED
      BY <1>3, <3>1, <3>2, <3>3
  <2>4. vac' \in VacType /\ vac'.dead = vac.dead
    BY <1>3, <2>1 DEF VacType
  <2>5. VacOK(vac', heap')
    BY <1>0, <2>4 DEF StateInv, VacOK, BulkDelete
  <2> QED
    BY <2>3, <2>5
<1>4. CASE BulkInv /\ VacOK(vac', heap')
  BY <1>0, <1>4 DEF StateInv, BulkInv
<1> QED
  BY <1>1, <1>2, <1>3, <1>4 DEF BulkDelete

\* VacuumCleanup keeps the invariant.
LEMMA VacuumCleanupInv == ASSUME StateInv, VacuumCleanup PROVE StateInv'
<1>1. VacOK(vac', heap')
  BY DEF VacuumCleanup, StateInv, VacOK, VacType
<1>2. UNCHANGED <<kind, heap, nextver, vecs, delta, stale, up, sock, comp, builds>> /\ ConcInv'
  BY MaintenanceInv DEF VacuumCleanup
<1>3. CASE Compact(Tombstoned, tomb)
  <2>1. TombOK(tomb)
    BY DEF StateInv
  <2>2. /\ BaseOK(base') /\ TombOK(tomb') /\ ResOK(res')
        /\ kind = "flat" => FlatOK(base', vecs', res')
        /\ EntryOK(base', res', stale, up)
    BY <1>2, <1>3, <2>1, CompactInv
  <2> QED
    BY <1>1, <1>2, <2>2 DEF StateInv
<1>4. CASE UNCHANGED <<base, tomb, res>>
  BY <1>1, <1>2, <1>4 DEF StateInv
<1> QED
  BY <1>3, <1>4 DEF VacuumCleanup

\* CompactRead keeps the invariant.
LEMMA CompactReadInv == ASSUME StateInv, CompactRead PROVE StateInv'
<1>1. Tombstoned \in SUBSET Tids
  BY DEF StateInv, TombOK, TombType, Tombstoned
<1>2. CompOK(comp')
  BY <1>1, OneIsOne DEF CompactRead, CompOK
<1>3. ConcInv'
  BY MaintenanceInv DEF CompactRead
<1> QED
  BY <1>2, <1>3 DEF StateInv, CompactRead, files

\* CompactFinish keeps the invariant.
LEMMA CompactFinishInv == ASSUME StateInv, CompactFinish PROVE StateInv'
<1>1. UNCHANGED <<kind, heap, nextver, vecs, delta, stale, up, sock, vac>> /\ ConcInv'
  BY MaintenanceInv DEF CompactFinish
<1>2. TombOK(tomb)
  BY DEF StateInv
<1>3. /\ BaseOK(base') /\ TombOK(tomb') /\ ResOK(res')
      /\ kind = "flat" => FlatOK(base', vecs', res')
      /\ EntryOK(base', res', stale, up)
  BY <1>1, <1>2, CompactInv DEF CompactFinish
<1>4. CompOK(comp')
  BY DEF CompactFinish, CompOK, AtMostOne
<1> QED
  BY <1>1, <1>3, <1>4 DEF StateInv

\* The heap scan returns each live row once, as the heap has it.
LEMMA HeapScanFacts ==
  ASSUME HeapOK(heap)
  PROVE  /\ HeapScan \in Seq(Row) /\ Distinct(HeapScan)
         /\ \A i \in DOMAIN HeapScan : HeapScan[i].tid \in LiveTids /\ HeapScan[i] = RowAt(HeapScan[i].tid)
         /\ \A t \in LiveTids : \E i \in DOMAIN HeapScan : HeapScan[i].tid = t
<1>1. LiveTids \in SUBSET Nat /\ LiveTids \in SUBSET Tids
  BY NTidsAssumption DEF Tids, LiveTids
<1>2. IsFiniteSet(LiveTids)
  <2>1. IsFiniteSet(Tids)
    BY NTidsAssumption, FS_Interval DEF Tids
  <2> QED
    BY <1>1, <2>1, FS_Subset
<1>3. PICK n \in Nat : n = Cardinality(LiveTids)
  BY <1>1, <1>2, InOrderFacts
<1>4. PICK o : o = InOrder(LiveTids)
  OBVIOUS
<1>5. /\ DOMAIN o = 1 .. n
      /\ \A j \in 1 .. n : o[j] \in LiveTids
      /\ \A i, j \in 1 .. n : o[i] = o[j] => i = j
      /\ \A i \in LiveTids : \E j \in 1 .. n : o[j] = i
  BY <1>1, <1>2, <1>3, <1>4, InOrderFacts
<1>6. HeapScan = [i \in 1 .. n |-> RowAt(o[i])]
  BY <1>4, <1>5 DEF HeapScan
<1>7. \A t \in LiveTids : RowAt(t) \in Row /\ RowAt(t).tid = t
  BY <1>1, MaxVerAssumption DEF RowAt, Row, HeapOK, LiveTids
<1>8. \A i \in 1 .. n : RowAt(o[i]) \in Row /\ RowAt(o[i]).tid = o[i]
  BY <1>5, <1>7
<1>9. HeapScan \in Seq(Row)
  BY <1>6, <1>8, IsASeq
<1>10. DOMAIN HeapScan = 1 .. n /\ \A i \in 1 .. n : HeapScan[i] = RowAt(o[i]) /\ HeapScan[i].tid = o[i]
  BY <1>6, <1>8
<1> QED
  BY <1>5, <1>9, <1>10 DEF Distinct

\* The daemon's part of a build keeps what the invariant says about the files.
LEMMA CommitInv ==
  ASSUME NEW rows \in Seq(Row), Commit(rows)
  PROVE  /\ BaseOK(base') /\ BaseOK(vecs') /\ ResOK(res') /\ stale' = FALSE
         /\ FlatOK(base', vecs', res') /\ EntryOK(base', res', stale', TRUE)
         /\ base' = {rows} /\ \A c \in res' : c.rows = rows /\ ~c.dload
<1>0. base' = {rows} /\ vecs' = {rows} /\ stale' = FALSE
  BY DEF Commit
<1>1. res' = {} \/ res' = {Entry(rows, FALSE)}
  BY DEF Commit, AfterBuild
<1>2. BaseOK(base') /\ BaseOK(vecs')
  BY <1>0, OneIsOne DEF BaseOK
<1>3. CASE res' = {}
  BY <1>0, <1>2, <1>3 DEF ResOK, AtMostOne, FlatOK, EntryOK
<1>4. CASE res' = {Entry(rows, FALSE)}
  <2>1. PICK c \in EntryType : c = Entry(rows, FALSE) /\ c.rows = rows /\ c.stale = FALSE /\ ~c.bload /\ ~c.dload
    BY EntryFacts
  <2>2. ResOK(res')
    BY <1>4, <2>1, SingletonRes
  <2> QED
    BY <1>0, <1>2, <1>4, <2>1, <2>2 DEF FlatOK, EntryOK
<1> QED
  BY <1>1, <1>3, <1>4

\* Reindex keeps the invariant.
LEMMA ReindexInv == ASSUME StateInv, Reindex PROVE StateInv'
<1>0. /\ UNCHANGED <<kind, heap, nextver, up, sock, vac, comp, pending, conc>>
      /\ delta' = {} /\ tomb' = {} /\ up = TRUE /\ conc.pc = "done"
  BY DEF Reindex, Rebuildable, builds, StateInv
<1>1. PICK rows : rows = HeapScan /\ Commit(rows)
  BY DEF Reindex
<1>2. rows \in Seq(Row)
  BY <1>1, HeapScanFacts DEF StateInv
<1>3. /\ BaseOK(base') /\ BaseOK(vecs') /\ ResOK(res') /\ stale' = FALSE
      /\ FlatOK(base', vecs', res') /\ EntryOK(base', res', stale', TRUE)
  BY <1>1, <1>2, CommitInv
<1>4. DeltaOK(delta') /\ TombOK(tomb')
  BY <1>0 DEF DeltaOK, TombOK, AtMostOne
<1>5. ConcInv'
  BY <1>0, ConcDoneInv DEF StateInv, ConcInv
<1> QED
  BY <1>0, <1>3, <1>4, <1>5 DEF StateInv

\* A REINDEX given up keeps it: it only leaves a build behind.
LEMMA ReindexGivesUpInv == ASSUME StateInv, ReindexGivesUp PROVE StateInv'
<1>1. PICK rows : rows = HeapScan /\ pending' = {rows}
  BY DEF ReindexGivesUp
<1>2. PendingOK(pending')
  BY <1>1, HeapScanFacts, OneIsOne DEF StateInv, PendingOK, BaseOK
<1>3. ConcInv'
  BY <1>2, ConcDoneInv DEF StateInv, ReindexGivesUp, Rebuildable
<1> QED
  BY <1>3 DEF StateInv, ReindexGivesUp, files

\* The commit of such a build keeps it.
LEMMA OverdueBuildInv == ASSUME StateInv, OverdueBuild PROVE StateInv'
<1>0. /\ UNCHANGED <<kind, heap, nextver, delta, tomb, up, sock, vac, comp, conc>>
      /\ up = TRUE /\ conc.pc = "done" /\ pending' = {} /\ ConcInv
  BY DEF OverdueBuild, StateInv
<1>1. PICK rows \in pending : Commit(rows)
  BY DEF OverdueBuild
<1>2. rows \in Seq(Row)
  BY <1>0 DEF ConcInv, PendingOK, BaseOK
<1>3. /\ BaseOK(base') /\ BaseOK(vecs') /\ ResOK(res') /\ stale' = FALSE
      /\ FlatOK(base', vecs', res') /\ EntryOK(base', res', stale', TRUE)
  BY <1>1, <1>2, CommitInv
<1>4. PendingOK(pending')
  BY <1>0 DEF PendingOK, BaseOK, AtMostOne
<1>5. ConcInv'
  BY <1>0, <1>4, ConcDoneInv
<1> QED
  BY <1>0, <1>3, <1>5 DEF StateInv

\* ConcReady keeps the invariant: the saved base is the graph.
LEMMA ConcReadyInv == ASSUME StateInv, ConcReady PROVE StateInv'
<1>0. /\ UNCHANGED <<kind, heap, nextver, delta, tomb, up, sock, vac, comp>>
      /\ conc.pc = "scan" /\ pending' = {} /\ conc' = [pc |-> "ready", todo |-> Tids] /\ ConcInv
  BY DEF ConcReady, StateInv
<1>1. PICK rows \in pending : \/ UNCHANGED <<base, vecs, res, stale>>
                              \/ up /\ Commit(rows)
  BY DEF ConcReady
<1>2. rows \in Seq(Row) /\ base = {}
  BY <1>0 DEF ConcInv, PendingOK, BaseOK
<1>3. /\ BaseOK(base') /\ BaseOK(vecs') /\ ResOK(res') /\ stale' \in BOOLEAN
      /\ kind = "flat" => FlatOK(base', vecs', res')
      /\ EntryOK(base', res', stale', up)
      /\ \A b \in base' : \A t \in TidsOf(b) : \A e \in res' : t \in TidsOf(e.rows)
  <2>1. CASE UNCHANGED <<base, vecs, res, stale>>
    BY <1>2, <2>1 DEF StateInv
  <2>2. CASE up /\ Commit(rows)
    <3>1. up = TRUE
      BY <2>2 DEF StateInv
    <3> QED
      BY <1>2, <2>2, <3>1, CommitInv
  <2> QED
    BY <1>1, <2>1, <2>2
<1>4. ConcInv'
  <2>1. PendingOK({})
    BY DEF PendingOK, BaseOK, AtMostOne
  <2>2. vac.pc = "idle" /\ tomb = {} /\ comp = {}
    BY <1>0 DEF ConcInv
  <2> QED
    BY <1>0, <1>3, <2>1, <2>2 DEF ConcInv, ConcType
<1> QED
  BY <1>0, <1>3, <1>4 DEF StateInv

\* The steps of CREATE INDEX CONCURRENTLY that touch no file keep it.
LEMMA ConcQuietInv == ASSUME StateInv, ConcSnapshot \/ ConcValid PROVE StateInv'
<1>0. UNCHANGED <<kind, heap, nextver, base, vecs, delta, tomb, stale, up, sock, res, vac, comp, pending>>
  BY DEF ConcSnapshot, ConcValid, files
<1>1. ConcInv
  BY DEF StateInv
<1>2. CASE ConcSnapshot
  <2>1. LiveTids \in SUBSET Tids /\ \A t \in LiveTids : heap[t].st = "live"
    BY DEF LiveTids
  <2>2. conc.pc = "ready" /\ conc' = [pc |-> "snapshot", todo |-> LiveTids]
    BY <1>2 DEF ConcSnapshot
  <2>3. ConcInv'
    BY <1>0, <1>1, <2>1, <2>2 DEF ConcInv, ConcType
  <2> QED
    BY <1>0, <2>3 DEF StateInv
<1>3. CASE ConcValid
  <2>1. conc' \in ConcType /\ conc'.pc = "done" /\ conc'.todo = {}
    BY <1>1, <1>3 DEF ConcValid, ConcInv, ConcType
  <2>2. ConcInv'
    BY <1>0, <1>1, <2>1 DEF ConcInv
  <2> QED
    BY <1>0, <2>2 DEF StateInv
<1> QED
  BY <1>2, <1>3

\* ConcRead keeps the invariant.
LEMMA ConcReadInv == ASSUME StateInv, ConcRead PROVE StateInv'
<1>0. UNCHANGED <<kind, heap, nextver, base, vecs, delta, tomb, up, sock, vac, comp, pending>>
  BY DEF ConcRead
<1>1. ConcInv /\ conc.pc = "snapshot"
  BY DEF StateInv, ConcRead
<1>2. conc' \in ConcType /\ conc'.pc = "validate" /\ conc'.todo \subseteq conc.todo
  BY <1>1 DEF ConcRead, ConcInv, ConcType
<1>3. ConcInv'
  BY <1>0, <1>1, <1>2 DEF ConcInv
<1>4. CASE MarkStale
  BY <1>0, <1>3, <1>4, MarkStaleInv DEF StateInv
<1>5. CASE UNCHANGED <<stale, res>>
  BY <1>0, <1>3, <1>5 DEF StateInv
<1> QED
  BY <1>4, <1>5 DEF ConcRead

\* ConcInsert keeps the invariant: the row is still in the heap.
LEMMA ConcInsertInv ==
  ASSUME StateInv, NEW t \in Tids, ConcInsert(t)
  PROVE  StateInv' /\ RowAt(t) \in Row
<1>0. UNCHANGED <<kind, heap, nextver, base, vecs, tomb, up, sock, vac, comp, pending>> /\ aminsert(RowAt(t))
  BY DEF ConcInsert
<1>1. ConcInv /\ conc.pc = "validate" /\ heap[t].st \in {"live", "dead"}
  BY DEF StateInv, ConcInsert, ConcInv
<1>2. RowAt(t) \in Row
  BY <1>1, MaxVerAssumption DEF StateInv, HeapOK, RowAt, Row
<1>3. /\ stale' \in BOOLEAN /\ DeltaOK(delta') /\ ResOK(res')
      /\ kind = "flat" => FlatOK(base, vecs, res')
      /\ EntryOK(base, res', stale', up)
  BY <1>0, <1>2, AminsertInv
<1>4. conc' \in ConcType /\ conc'.pc = "validate" /\ conc'.todo \subseteq conc.todo
  BY <1>1 DEF ConcInsert, ConcInv, ConcType
<1>5. ConcInv'
  BY <1>0, <1>1, <1>4 DEF ConcInv
<1> QED
  BY <1>0, <1>2, <1>3, <1>5 DEF StateInv

\* Truncate keeps the invariant.
LEMMA TruncateInv == ASSUME StateInv, Truncate PROVE StateInv'
<1>1. heap' = [t \in Tids |-> [ver |-> 0, st |-> "free"]] /\ vac' = vac /\ vac.pc = "idle"
  BY DEF Truncate
<1>2. HeapOK(heap')
  BY <1>1, MaxVerAssumption DEF HeapOK, LineStates
<1>3. VacOK(vac', heap')
  BY <1>1 DEF StateInv, VacOK
<1>4. ConcInv'
  BY ConcDoneInv DEF StateInv, Truncate, builds, ConcInv
<1> QED
  BY <1>2, <1>3, <1>4 DEF StateInv, Truncate, files

\* The entry a search leaves: the rows are those of the entry it found or loaded.
LEMMA SearchFacts ==
  ASSUME StateInv, Search
  PROVE  \E e \in Loaded, c \in EntryType :
           /\ res' = {c} /\ c.rows = e.rows /\ c.stale = e.stale
           /\ kind = "flat" => (c.bload => (c.bf = The(vecs) \/ (e.bload /\ c.bf = e.bf)))
           /\ c.dload => \/ c.dc = e.dc /\ e.dload /\ c.dkey = e.dkey
                         \/ c.dkey /\ \E d \in delta : c.dc = d.rows
<1>1. PICK e \in Loaded :
           \/ e.stale /\ res' = {e}
           \/ ~e.stale /\ kind = "cagra" /\ \E c \in DeltaCopies(e) : res' = {c}
           \/ ~e.stale /\ kind = "flat" /\ \E c \in BfCopies(e) : res' = {c}
  BY DEF Search
<1>2. e \in EntryType /\ base # {}
  BY LoadedFacts
<1>3. CASE res' = {e}
  BY <1>2, <1>3
<1>4. ASSUME NEW c \in DeltaCopies(e), kind = "cagra", res' = {c}
      PROVE  /\ c \in EntryType /\ c.rows = e.rows /\ c.stale = e.stale /\ kind # "flat"
             /\ c.dload => \/ c.dc = e.dc /\ e.dload /\ c.dkey = e.dkey
                           \/ c.dkey /\ \E d \in delta : c.dc = d.rows
  <2>1. DeltaOK(delta)
    BY DEF StateInv
  <2> QED
    BY <1>2, <1>4, <2>1, DeltaCopiesFacts
<1>5. ASSUME NEW c \in BfCopies(e), kind = "flat", res' = {c}
      PROVE  /\ c \in EntryType /\ c.rows = e.rows /\ c.stale = e.stale
             /\ c.bload => (c.bf = The(vecs) \/ (e.bload /\ c.bf = e.bf))
             /\ c.dload = e.dload /\ c.dc = e.dc /\ c.dkey = e.dkey
  <2>1. BaseOK(vecs) /\ vecs # {}
    BY <1>2, <1>5 DEF StateInv, FlatOK
  <2> QED
    BY <1>2, <2>1, BfCopiesFacts
<1> QED
  BY <1>1, <1>3, <1>4, <1>5

\* Search keeps the invariant.
LEMMA SearchInv == ASSUME StateInv, Search PROVE StateInv'
<1>0. UNCHANGED <<kind, heap, nextver, base, vecs, delta, tomb, stale, up, sock, vac, comp>> /\ up /\ ConcInv'
  BY ConcDoneInv DEF Search, files, StateInv, builds, ConcInv
<1>1. PICK e \in Loaded, c \in EntryType :
           /\ res' = {c} /\ c.rows = e.rows /\ c.stale = e.stale
           /\ kind = "flat" => (c.bload => (c.bf = The(vecs) \/ (e.bload /\ c.bf = e.bf)))
  BY SearchFacts
<1>2. /\ e.stale = stale /\ base # {}
      /\ \/ e \in res
         \/ res = {} /\ e.rows \in base /\ ~e.bload /\ ~e.dload /\ ~e.dkey
  BY LoadedFacts
<1>3. ResOK(res') /\ EntryOK(base', res', stale', up')
  BY <1>0, <1>1, <1>2, SingletonRes DEF EntryOK
<1>4. ASSUME kind = "flat" PROVE FlatOK(base', vecs', res')
  <2>1. FlatOK(base, vecs, res)
    BY <1>4 DEF StateInv
  <2>2. e.rows \in base /\ (e.bload => e.bf = e.rows)
    BY <1>2, <2>1 DEF FlatOK
  <2>3. The(vecs) = e.rows
    BY <2>1, <2>2, OneOf DEF StateInv, BaseOK, FlatOK
  <2> QED
    BY <1>0, <1>1, <1>4, <2>1, <2>2, <2>3 DEF FlatOK
<1> QED
  BY <1>0, <1>3, <1>4 DEF StateInv

\* What evict_lru and graceful_shutdown save is a base.
LEMMA SavedBase == ASSUME StateInv PROVE BaseOK({e.rows : e \in res}) /\ (res # {} => {e.rows : e \in res} # {})
<1>1. \A e \in res : e.rows \in Seq(Row)
  BY DEF StateInv, ResOK, EntryType
<1> QED
  BY <1>1 DEF StateInv, ResOK, BaseOK, AtMostOne

\* Evict, Stop, Crash and Start keep the invariant.
LEMMA DownInv == ASSUME StateInv, Evict \/ Stop \/ Crash \/ Start PROVE StateInv'
<1>1. UNCHANGED <<kind, heap, nextver, vecs, delta, tomb, stale, vac>>
  BY DEF Evict, Stop, Crash, Start, files
<1>2. CompOK(comp') /\ up' \in BOOLEAN /\ sock' \in BOOLEAN /\ (comp' = comp \/ comp' = {})
  BY DEF StateInv, Evict, Stop, Crash, Start, CompOK, AtMostOne, files
<1>0. conc' = conc /\ PendingOK(pending') /\ pending' \subseteq pending /\ ConcInv
  <2>1. ConcInv /\ PendingOK(pending)
    BY DEF StateInv, ConcInv
  <2>2. conc' = conc /\ (pending' = pending \/ pending' = pending \cap {<<>>})
    BY DEF Evict, Stop, Crash, Start, BuildLost, builds
  <2> QED
    BY <2>1, <2>2 DEF PendingOK, BaseOK, AtMostOne
<1>3. CASE Start
  <2>1. ConcInv'
    BY <1>0, <1>1, <1>2, <1>3 DEF Start, files, ConcInv
  <2> QED
    BY <1>1, <1>2, <1>3, <2>1 DEF StateInv, Start, files, EntryOK
<1>4. CASE Evict \/ Stop \/ Crash
  <2>1. res' = {} /\ (base' = base \/ (kind = "cagra" /\ base' = {e.rows : e \in res}))
    BY <1>4 DEF Evict, Stop, Crash, files
  <2>2. BaseOK(base') /\ (kind = "flat" => FlatOK(base', vecs', res'))
    BY <1>1, <2>1, SavedBase DEF StateInv, FlatOK
  <2>3. ResOK(res') /\ EntryOK(base', res', stale', up')
    BY <2>1 DEF ResOK, EntryOK, AtMostOne
  <2>4. ConcInv'
    <3>1. conc.pc = "scan" => base' = {}
      BY <1>0, <1>4 DEF ConcInv, Evict, Stop, Crash, files
    <3> QED
      BY <1>0, <1>1, <1>2, <2>1, <3>1 DEF ConcInv
  <2> QED
    BY <1>1, <1>2, <2>2, <2>3, <2>4 DEF StateInv
<1> QED
  BY <1>3, <1>4

\* Every step keeps the invariant.
LEMMA NextInv == StateInv /\ [Next]_vars => StateInv'
<1> SUFFICES ASSUME StateInv, [Next]_vars PROVE StateInv'
  OBVIOUS
<1>1. CASE UNCHANGED vars
  BY <1>1 DEF vars, StateInv, ConcInv
<1>2. CASE Next
  BY <1>2, InsertInv, DeleteInv, VacuumInv, VacuumCommitInv, BulkDeleteInv, VacuumCleanupInv,
     CompactReadInv, CompactFinishInv, ReindexInv, ReindexGivesUpInv, OverdueBuildInv, TruncateInv, ConcReadyInv,
     ConcQuietInv, ConcReadInv, ConcInsertInv, SearchInv, DownInv DEF Next, Step
<1> QED
  BY <1>1, <1>2

\* The invariant of Spec holds in every state.
LEMMA StateInvHolds == Spec => []StateInv
  BY InitStateInv, NextInv, PTL DEF Spec

\* The state is well formed and neither sidecar ever outgrows max_delta_rows,
\* whichever of INSERT, VACUUM and COMPACT touches it (cuvs_delta_append,
\* cuvs_tombstone_append), for any table, any cap and any faults.
THEOREM WritePathTypeOK == Spec => []TypeOK
  BY StateInvHolds, TypeFromInv, PTL
-----------------------------------------------------------------------------
(* The planner and the daemon agree.                                       *)

\* Open gates mean a base and no marker, so an entry that is not stale; .delta is
\* usable, so a graph answers with or without a GPU copy of it.
LEMMA GatesFromInv == StateInv => OpenGatesServe
<1> SUFFICES ASSUME StateInv, GatesOpen
             PROVE  /\ \E e \in Loaded : ~e.stale
                    /\ up /\ kind = "cagra" => Answers # {}
  BY DEF OpenGatesServe
<1>1. ~stale /\ base # {} /\ DeltaUsable /\ conc.pc = "done"
  BY DEF GatesOpen
<1>2. PICK e \in Loaded : TRUE
  BY <1>1 DEF Loaded
<1>3. e \in EntryType /\ e.stale = stale
  BY LoadedFacts
<1>4. ASSUME up, kind = "cagra" PROVE Answers # {}
  <2>1. PICK c : c \in DeltaCopies(e)
    BY DEF DeltaCopies
  <2>2. GraphAnswers(e) # {}
    BY <1>1, <2>1 DEF GraphAnswers
  <2>3. Answers = UNION {GraphAnswers(d) : d \in {f \in Loaded : ~f.stale}}
    BY <1>1, <1>4 DEF Answers
  <2> QED
    BY <1>1, <1>2, <1>3, <2>2, <2>3
<1> QED
  BY <1>1, <1>2, <1>3, <1>4

\* When the gates of cuvsamcostestimate are open, handle_search has or can load
\* an entry that is not stale, and a graph of a running daemon yields an answer,
\* whatever daemon crashes (they leave the socket file the gates look for), I/O
\* failures, concurrent writes and overdue or concurrent builds came before.
THEOREM GatesServe == Spec => []OpenGatesServe
  BY StateInvHolds, GatesFromInv, PTL
-----------------------------------------------------------------------------
(* What it means for row lists to be right about a set V of TIDs.          *)

\* A row of `rows' that is in V has the version H gives it.
Faithful(V, H, rows) == \A i \in DOMAIN rows : rows[i].tid \in V => rows[i].ver = H[rows[i].tid].ver
\* A TID of V is in `rows' once at most.
Once(V, rows) == \A i, j \in DOMAIN rows : rows[i].tid = rows[j].tid /\ rows[i].tid \in V => i = j
Sound(V, H, rows) == Faithful(V, H, rows) /\ Once(V, rows)
\* No TID of V is in both.
Apart(V, r1, r2) == \A i \in DOMAIN r1, j \in DOMAIN r2 : r1[i].tid = r2[j].tid => r1[i].tid \notin V

\* Removing rows does no harm, and loses only the TIDs it is told to remove.
LEMMA KeepSound ==
  ASSUME NEW rows \in Seq(Row), NEW dead, NEW V, NEW H
  PROVE  /\ Sound(V, H, rows) => Sound(V, H, Keep(rows, dead))
         /\ \A q : Apart(V, rows, q) => Apart(V, Keep(rows, dead), q)
         /\ \A t : t \in TidsOf(rows) /\ t \notin dead => t \in TidsOf(Keep(rows, dead))
<1> PICK k : k = Keep(rows, dead)
  OBVIOUS
<1>1. PICK f \in [DOMAIN k -> DOMAIN rows] :
               /\ \A j \in DOMAIN k : k[j] = rows[f[j]] /\ rows[f[j]].tid \notin dead
               /\ \A i, j \in DOMAIN k : f[i] = f[j] => i = j
               /\ \A i \in DOMAIN rows : rows[i].tid \notin dead => \E j \in DOMAIN k : f[j] = i
  BY KeepFacts
<1>2. Faithful(V, H, rows) => Faithful(V, H, k)
  BY <1>1 DEF Faithful
<1>3. Once(V, rows) => Once(V, k)
  <2> SUFFICES ASSUME Once(V, rows), NEW i \in DOMAIN k, NEW j \in DOMAIN k, k[i].tid = k[j].tid, k[i].tid \in V
               PROVE  i = j
    BY DEF Once
  <2>1. f[i] \in DOMAIN rows /\ f[j] \in DOMAIN rows /\ rows[f[i]].tid = rows[f[j]].tid /\ rows[f[i]].tid \in V
    BY <1>1
  <2>2. f[i] = f[j]
    BY <2>1 DEF Once
  <2> QED
    BY <2>2, <1>1
<1>4. ASSUME NEW q, Apart(V, rows, q) PROVE Apart(V, k, q)
  BY <1>1, <1>4 DEF Apart
<1>5. ASSUME NEW t, t \in TidsOf(rows), t \notin dead PROVE t \in TidsOf(k)
  <2>1. PICK i \in DOMAIN rows : rows[i].tid = t
    BY <1>5, TidsOfFact
  <2>2. PICK j \in DOMAIN k : f[j] = i
    BY <1>1, <1>5, <2>1
  <2>3. k[j].tid = t
    BY <1>1, <2>1, <2>2
  <2> QED
    BY <2>3, TidsOfFact
<1> QED
  BY <1>2, <1>3, <1>4, <1>5 DEF Sound

\* What Append does, element by element.
LEMMA AppendSeq ==
  ASSUME NEW rows \in Seq(Row), NEW r \in Row
  PROVE  /\ DOMAIN rows = 1 .. Len(rows) /\ Len(rows) \in Nat
         /\ DOMAIN Append(rows, r) = 1 .. Len(rows) + 1
         /\ \A i \in 1 .. Len(rows) : Append(rows, r)[i] = rows[i]
         /\ Append(rows, r)[Len(rows) + 1] = r
  OBVIOUS

\* Appending a row does no harm if its TID is not in V, or is new and has the
\* version H gives it.
LEMMA AppendSound ==
  ASSUME NEW rows \in Seq(Row), NEW r \in Row, NEW V, NEW H
  PROVE  /\ Sound(V, H, rows) /\ (r.tid \in V => r.tid \notin TidsOf(rows) /\ r.ver = H[r.tid].ver)
              => Sound(V, H, Append(rows, r))
         /\ \A q : Apart(V, rows, q) /\ (r.tid \in V => r.tid \notin TidsOf(q))
                     => Apart(V, Append(rows, r), q)
         /\ \A q : Apart(V, q, rows) /\ (r.tid \in V => r.tid \notin TidsOf(q))
                     => Apart(V, q, Append(rows, r))
         /\ \A t : t \in TidsOf(Append(rows, r)) <=> t \in TidsOf(rows) \/ t = r.tid
<1> PICK a : a = Append(rows, r)
  OBVIOUS
<1> PICK n \in Nat : n = Len(rows)
  OBVIOUS
<1>1. /\ DOMAIN rows = 1 .. n /\ DOMAIN a = 1 .. n + 1
      /\ \A i \in 1 .. n : a[i] = rows[i]
      /\ a[n + 1] = r
  BY AppendSeq
<1>2. \A i \in DOMAIN a : (i \in DOMAIN rows /\ a[i] = rows[i]) \/ (i = n + 1 /\ a[i] = r)
  BY <1>1
<1>3. \A i \in DOMAIN rows : i \in DOMAIN a
  BY <1>1
<1>4. ASSUME Sound(V, H, rows), r.tid \in V => r.tid \notin TidsOf(rows) /\ r.ver = H[r.tid].ver
      PROVE  Sound(V, H, a)
  <2>1. Faithful(V, H, a)
    BY <1>2, <1>4 DEF Sound, Faithful
  <2>2. \A i \in DOMAIN rows : r.tid \in V => rows[i].tid # r.tid
    BY <1>4, TidsOfFact
  <2>3. Once(V, a)
    BY <1>2, <1>4, <2>2 DEF Sound, Once
  <2> QED
    BY <2>1, <2>3 DEF Sound
<1>5. ASSUME NEW q, r.tid \in V => r.tid \notin TidsOf(q)
      PROVE  /\ Apart(V, rows, q) => Apart(V, a, q)
             /\ Apart(V, q, rows) => Apart(V, q, a)
  <2>1. \A j \in DOMAIN q : r.tid \in V => q[j].tid # r.tid
    BY <1>5, TidsOfFact
  <2> QED
    BY <1>2, <2>1 DEF Apart
<1>6. \A t : t \in TidsOf(a) <=> t \in TidsOf(rows) \/ t = r.tid
  <2>1. n + 1 \in DOMAIN a /\ a[n + 1] = r
    BY <1>1
  <2>2. ASSUME NEW t, t \in TidsOf(a) PROVE t \in TidsOf(rows) \/ t = r.tid
    <3> PICK i \in DOMAIN a : a[i].tid = t
      BY <2>2, TidsOfFact
    <3> QED
      BY <1>2, TidsOfFact
  <2>3. ASSUME NEW t, t \in TidsOf(rows) PROVE t \in TidsOf(a)
    <3> PICK i \in DOMAIN rows : rows[i].tid = t
      BY <2>3, TidsOfFact
    <3>1. i \in DOMAIN a /\ a[i].tid = t
      BY <1>1
    <3> QED
      BY <3>1, TidsOfFact
  <2>4. r.tid \in TidsOf(a)
    BY <2>1, TidsOfFact
  <2> QED
    BY <2>2, <2>3, <2>4
<1> QED
  BY <1>4, <1>5, <1>6

\* Merging two lists that have no TID of V in common does no harm.
LEMMA ConcatSound ==
  ASSUME NEW p \in Seq(Row), NEW q \in Seq(Row), NEW V, NEW H,
         Sound(V, H, p), Sound(V, H, q), Apart(V, p, q)
  PROVE  /\ p \o q \in Seq(Row)
         /\ Sound(V, H, p \o q)
         /\ \A t : t \in TidsOf(p) \/ t \in TidsOf(q) => t \in TidsOf(p \o q)
<1> PICK c \in Seq(Row) : c = p \o q
  BY ConcatProperties
<1> PICK n \in Nat : n = Len(p)
  OBVIOUS
<1> PICK m \in Nat : m = Len(q)
  OBVIOUS
<1>1. DOMAIN p = 1 .. n /\ DOMAIN q = 1 .. m
  OBVIOUS
<1>2. Len(c) = n + m /\ \A i \in 1 .. n + m : c[i] = IF i <= n THEN p[i] ELSE q[i - n]
  BY ConcatProperties
<1>3. DOMAIN c = 1 .. n + m
  BY <1>2
<1>4. \A i \in DOMAIN c : \/ i \in DOMAIN p /\ c[i] = p[i]
                          \/ i - n \in DOMAIN q /\ i > n /\ c[i] = q[i - n]
  BY <1>1, <1>2, <1>3
<1>5. Faithful(V, H, c)
  BY <1>4 DEF Sound, Faithful
<1>6. Once(V, c)
  <2> SUFFICES ASSUME NEW i \in DOMAIN c, NEW j \in DOMAIN c, c[i].tid = c[j].tid, c[i].tid \in V PROVE i = j
    BY DEF Once
  <2>1. CASE i \in DOMAIN p /\ c[i] = p[i] /\ j \in DOMAIN p /\ c[j] = p[j]
    BY <2>1 DEF Sound, Once
  <2>2. CASE i - n \in DOMAIN q /\ c[i] = q[i - n] /\ j - n \in DOMAIN q /\ c[j] = q[j - n]
    <3>1. i - n = j - n
      BY <2>2 DEF Sound, Once
    <3> QED
      BY <3>1, <1>3
  <2>3. CASE i \in DOMAIN p /\ c[i] = p[i] /\ j - n \in DOMAIN q /\ c[j] = q[j - n]
    BY <2>3 DEF Apart
  <2>4. CASE j \in DOMAIN p /\ c[j] = p[j] /\ i - n \in DOMAIN q /\ c[i] = q[i - n]
    BY <2>4 DEF Apart
  <2> QED
    BY <1>4, <2>1, <2>2, <2>3, <2>4
<1>7. \A i \in DOMAIN p : i \in DOMAIN c /\ c[i] = p[i]
  BY <1>1, <1>2, <1>3
<1>8. \A i \in DOMAIN q : n + i \in DOMAIN c /\ c[n + i] = q[i]
  BY <1>1, <1>2, <1>3
<1>9. \A t : t \in TidsOf(p) \/ t \in TidsOf(q) => t \in TidsOf(c)
  <2>1. ASSUME NEW t, t \in TidsOf(p) PROVE t \in TidsOf(c)
    <3> PICK i \in DOMAIN p : p[i].tid = t
      BY <2>1, TidsOfFact
    <3>1. i \in DOMAIN c /\ c[i].tid = t
      BY <1>7
    <3> QED
      BY <3>1, TidsOfFact
  <2>2. ASSUME NEW t, t \in TidsOf(q) PROVE t \in TidsOf(c)
    <3> PICK i \in DOMAIN q : q[i].tid = t
      BY <2>2, TidsOfFact
    <3>1. n + i \in DOMAIN c /\ c[n + i].tid = t
      BY <1>8
    <3> QED
      BY <3>1, TidsOfFact
  <2> QED
    BY <2>1, <2>2
<1> QED
  BY <1>5, <1>6, <1>9 DEF Sound
-----------------------------------------------------------------------------
(* The same for the artifacts of the index.                                *)

\* A graph may be merged with .delta.
GraphOK(V, H, rows, dl) == Sound(V, H, rows) /\ \A d \in dl : Apart(V, rows, d.rows)
\* So may every graph there is: the saved one and the one in VRAM.
RowsOK(V, H, b, dl, rs) ==
  /\ \A rows \in b : GraphOK(V, H, rows, dl)
  /\ \A e \in rs : GraphOK(V, H, e.rows, dl)
  /\ \A d \in dl : Sound(V, H, d.rows)
\* t is in the graph a search uses, ...
InGraph(t, b, rs) ==
  IF rs = {} THEN \E rows \in b : t \in TidsOf(rows) ELSE \E e \in rs : t \in TidsOf(e.rows)
\* ... or in .delta.
InDelta(t, dl) == \E d \in dl : t \in TidsOf(d.rows)
\* Every TID of V is found.
Reach(V, b, dl, rs) == \A t \in V : InGraph(t, b, rs) \/ InDelta(t, dl)
Prefix(p, q) == Len(p) <= Len(q) /\ \A i \in DOMAIN p : p[i] = q[i]
\* The GPU copy of .delta is the file as it was at some time; if its key is still
\* valid, what has been appended since is not in V.
CopyOK(V, dl, rs) ==
  \A e \in rs : e.dload => \E d \in dl :
    /\ Prefix(e.dc, d.rows)
    /\ e.dkey => \A i \in DOMAIN d.rows : i > Len(e.dc) => d.rows[i].tid \notin V
\* No TID of V is tombstoned, or about to be compacted away.
GoneOK(V, tb, cp) == \A t \in V : (\A d \in tb : t \notin d.tids) /\ (\A x \in cp : t \notin x)

\* The index holds nothing called u.
Unknown(u, b, dl, rs, tb, cp) ==
  /\ \A rows \in b : u \notin TidsOf(rows)
  /\ \A e \in rs : u \notin TidsOf(e.rows)
  /\ \A d \in dl : u \notin TidsOf(d.rows)
  /\ \A d \in tb : u \notin d.tids
  /\ \A x \in cp : u \notin x

\* When a TID is new to V, nothing may be called so yet.
LEMMA SoundMove ==
  ASSUME NEW V, NEW H, NEW V2, NEW H2, NEW rows, Sound(V, H, rows),
         \A u \in V2 : (u \in V /\ H2[u].ver = H[u].ver) \/ u \notin TidsOf(rows)
  PROVE  Sound(V2, H2, rows)
<1>1. \A i \in DOMAIN rows : rows[i].tid \in TidsOf(rows)
  BY TidsOfFact
<1> QED
  BY <1>1 DEF Sound, Faithful, Once

\* The same for two lists with nothing in common.
LEMMA ApartMove ==
  ASSUME NEW V, NEW V2, NEW p, NEW q, Apart(V, p, q),
         \A u \in V2 : u \in V \/ u \notin TidsOf(p)
  PROVE  Apart(V2, p, q)
<1>1. \A i \in DOMAIN p : p[i].tid \in TidsOf(p)
  BY TidsOfFact
<1> QED
  BY <1>1 DEF Apart

\* The same for all artifacts at once: the TIDs of V2 are TIDs of V whose version
\* is the same, or unknown to the index.
LEMMA Move ==
  ASSUME NEW V, NEW H, NEW V2, NEW H2, NEW b, NEW dl, NEW rs, NEW tb, NEW cp,
         \A u \in V2 : (u \in V /\ H2[u].ver = H[u].ver) \/ Unknown(u, b, dl, rs, tb, cp)
  PROVE  /\ RowsOK(V, H, b, dl, rs) => RowsOK(V2, H2, b, dl, rs)
         /\ CopyOK(V, dl, rs) => CopyOK(V2, dl, rs)
         /\ GoneOK(V, tb, cp) => GoneOK(V2, tb, cp)
<1>1. ASSUME RowsOK(V, H, b, dl, rs) PROVE RowsOK(V2, H2, b, dl, rs)
  <2>1. ASSUME NEW rows, rows \in b \/ (\E e \in rs : rows = e.rows) PROVE GraphOK(V2, H2, rows, dl)
    <3>1. GraphOK(V, H, rows, dl)
      BY <1>1, <2>1 DEF RowsOK
    <3>2. \A u \in V2 : (u \in V /\ H2[u].ver = H[u].ver) \/ u \notin TidsOf(rows)
      BY <2>1 DEF Unknown
    <3>3. Sound(V2, H2, rows)
      BY <3>1, <3>2, SoundMove DEF GraphOK
    <3>4. ASSUME NEW d \in dl PROVE Apart(V2, rows, d.rows)
      <4>1. Apart(V, rows, d.rows)
        BY <3>1 DEF GraphOK
      <4> QED
        BY <4>1, <3>2, ApartMove
    <3> QED
      BY <3>3, <3>4 DEF GraphOK
  <2>2. ASSUME NEW d \in dl PROVE Sound(V2, H2, d.rows)
    <3>1. \A u \in V2 : (u \in V /\ H2[u].ver = H[u].ver) \/ u \notin TidsOf(d.rows)
      BY DEF Unknown
    <3>2. Sound(V, H, d.rows)
      BY <1>1 DEF RowsOK
    <3> QED
      BY <3>1, <3>2, SoundMove
  <2> QED
    BY <2>1, <2>2 DEF RowsOK
<1>2. ASSUME CopyOK(V, dl, rs) PROVE CopyOK(V2, dl, rs)
  <2> SUFFICES ASSUME NEW e \in rs, e.dload
               PROVE  \E d \in dl :
                        /\ Prefix(e.dc, d.rows)
                        /\ e.dkey => \A i \in DOMAIN d.rows : i > Len(e.dc) => d.rows[i].tid \notin V2
    BY DEF CopyOK
  <2>1. PICK d \in dl :
                        /\ Prefix(e.dc, d.rows)
                        /\ e.dkey => \A i \in DOMAIN d.rows : i > Len(e.dc) => d.rows[i].tid \notin V
    BY <1>2 DEF CopyOK
  <2>2. \A i \in DOMAIN d.rows : d.rows[i].tid \in TidsOf(d.rows)
    BY TidsOfFact
  <2>3. \A u \in V2 : u \in V \/ u \notin TidsOf(d.rows)
    BY DEF Unknown
  <2> QED
    BY <2>1, <2>2, <2>3
<1>3. ASSUME GoneOK(V, tb, cp) PROVE GoneOK(V2, tb, cp)
  BY <1>3 DEF GoneOK, Unknown
<1> QED
  BY <1>1, <1>2, <1>3
-----------------------------------------------------------------------------
(* What the steps do to artifacts that are right about V.                  *)

\* The artifacts are right about the TIDs of V, whose versions are in H, ...
Held(V, H) == RowsOK(V, H, base, delta, res) /\ CopyOK(V, delta, res) /\ GoneOK(V, tomb, comp)
\* ... and a search that is not refused finds them all, ...
Reached(V) == ~stale => Reach(V, base, delta, res)
\* ... before the step and after it.
HeldNext(V, H) == RowsOK(V, H, base', delta', res') /\ CopyOK(V, delta', res') /\ GoneOK(V, tomb', comp')
ReachedNext(V) == ~stale' => Reach(V, base', delta', res')

\* The graph of the entry a search works on is the one InGraph speaks of.
LEMMA GraphOf ==
  ASSUME StateInv, NEW e \in Loaded, NEW t
  PROVE  InGraph(t, base, res) <=> t \in TidsOf(e.rows)
<1>1. CASE e \in res
  <2>1. res = {e}
    BY <1>1, OneOf DEF StateInv, ResOK
  <2> QED
    BY <2>1 DEF InGraph
<1>2. CASE res = {} /\ e.rows \in base
  <2>1. base = {e.rows}
    BY <1>2, OneOf DEF StateInv, BaseOK
  <2> QED
    BY <1>2, <2>1 DEF InGraph
<1> QED
  BY <1>1, <1>2, LoadedFacts

\* The graph a search uses is the one in VRAM if there is one, ...
LEMMA InSingleton ==
  ASSUME NEW t, NEW b, NEW c
  PROVE  InGraph(t, b, {c}) <=> t \in TidsOf(c.rows)
  BY DEF InGraph

\* ... and else the saved one.
LEMMA InSaved ==
  ASSUME NEW t, NEW rows
  PROVE  InGraph(t, {rows}, {}) <=> t \in TidsOf(rows)
  BY DEF InGraph

\* Loading the index and refreshing its caches does no harm.
LEMMA SearchHeld ==
  ASSUME StateInv, Search, NEW V, NEW H, Held(V, H), NEW U, Reached(U)
  PROVE  HeldNext(V, H) /\ ReachedNext(U)
<1>0. UNCHANGED <<base, delta, tomb, stale, comp>>
  BY DEF Search, files
<1>1. PICK e \in Loaded, c \in EntryType :
           /\ res' = {c} /\ c.rows = e.rows
           /\ c.dload => \/ c.dc = e.dc /\ e.dload /\ c.dkey = e.dkey
                         \/ c.dkey /\ \E d \in delta : c.dc = d.rows
  BY SearchFacts
<1>2. e \in res \/ (res = {} /\ e.rows \in base /\ ~e.dload)
  BY LoadedFacts
<1>3. GraphOK(V, H, c.rows, delta)
  BY <1>1, <1>2 DEF Held, RowsOK
<1>4. RowsOK(V, H, base', delta', res')
  BY <1>0, <1>1, <1>3 DEF Held, RowsOK
<1>5. CopyOK(V, delta', res')
  <2> SUFFICES ASSUME c.dload
               PROVE  \E d \in delta :
                        /\ Prefix(c.dc, d.rows)
                        /\ c.dkey => \A i \in DOMAIN d.rows : i > Len(c.dc) => d.rows[i].tid \notin V
    BY <1>0, <1>1 DEF CopyOK
  <2>1. CASE c.dc = e.dc /\ e.dload /\ c.dkey = e.dkey
    BY <2>1, <1>2 DEF Held, CopyOK
  <2>2. ASSUME NEW d \in delta, c.dc = d.rows
        PROVE  /\ Prefix(c.dc, d.rows)
               /\ \A i \in DOMAIN d.rows : ~(i > Len(c.dc))
    <3>1. d.rows \in Seq(Row)
      BY DEF StateInv, DeltaOK, DeltaType
    <3> QED
      BY <2>2, <3>1 DEF Prefix
  <2> QED
    BY <1>1, <2>1, <2>2
<1>6. GoneOK(V, tomb', comp')
  BY <1>0 DEF Held
<1>7. ReachedNext(U)
  BY <1>0, <1>1, GraphOf, InSingleton DEF Reached, ReachedNext, Reach
<1> QED
  BY <1>4, <1>5, <1>6, <1>7 DEF HeldNext

\* When the entry goes, the base has its rows, or they are lost with the daemon.
LEMMA DownHeld ==
  ASSUME StateInv, Evict \/ Stop \/ Crash \/ Start, NEW V, NEW H, Held(V, H), NEW U, Reached(U),
         \A t \in U : t \notin LostWithDaemon
  PROVE  HeldNext(V, H) /\ ReachedNext(U)
<1>0. UNCHANGED <<delta, tomb, stale>> /\ (comp' = comp \/ comp' = {})
  BY DEF Evict, Stop, Crash, Start, files
<1>1. GoneOK(V, tomb', comp')
  BY <1>0 DEF Held, GoneOK
<1>2. CASE Start
  BY <1>0, <1>1, <1>2 DEF Start, files, Held, HeldNext, Reached, ReachedNext
<1>3. CASE Evict \/ Stop \/ Crash
  <2>1. res' = {} /\ (base' = base \/ base' = {e.rows : e \in res})
    BY <1>3 DEF Evict, Stop, Crash, files
  <2>2. RowsOK(V, H, base', delta', res')
    BY <1>0, <2>1 DEF Held, RowsOK
  <2>3. CopyOK(V, delta', res')
    BY <2>1 DEF CopyOK
  <2>4. ASSUME NEW t \in U, InGraph(t, base, res) PROVE InGraph(t, base', res')
    <3>1. CASE res = {}
      <4>1. base' = base
        BY <3>1, <1>3 DEF Evict, Stop, Crash, files
      <4> QED
        BY <2>1, <2>4, <3>1, <4>1
    <3>2. CASE res # {}
      <4> PICK e \in res : TRUE
        BY <3>2
      <4>1. res = {e} /\ up /\ base # {}
        BY OneOf DEF StateInv, ResOK, EntryOK
      <4>2. t \in TidsOf(e.rows)
        BY <4>1, <2>4, InSingleton
      <4>3. CASE base' = {e.rows}
        BY <2>1, <4>2, <4>3, InSaved
      <4>4. CASE Evict /\ base' # {e.rows}
        <5>1. {f.rows : f \in res} = {e.rows}
          BY <4>1
        <5>2. kind # "cagra" /\ base' = base
          BY <4>4, <5>1 DEF Evict
        <5>3. kind = "flat"
          BY <5>2, KindsAssumption DEF StateInv
        <5>4. e.rows \in base
          BY <5>3 DEF StateInv, FlatOK
        <5>5. base = {e.rows}
          BY <5>4, OneOf DEF StateInv, BaseOK
        <5> QED
          BY <5>2, <5>5, <4>4
      <4>5. CASE Stop \/ Crash
        <5>1. up /\ ~up'
          BY <4>5 DEF Stop, Crash
        <5>2. t \in UNION {TidsOf(f.rows) : f \in res}
          BY <4>1, <4>2
        <5>3. t \in UNION {TidsOf(rows) : rows \in base'}
          BY <5>1, <5>2 DEF LostWithDaemon
        <5> QED
          BY <2>1, <5>3 DEF InGraph
      <4> QED
        BY <1>3, <4>3, <4>4, <4>5
    <3> QED
      BY <3>1, <3>2
  <2>5. ReachedNext(U)
    BY <1>0, <2>4 DEF Reached, ReachedNext, Reach
  <2> QED
    BY <1>1, <2>2, <2>3, <2>5 DEF HeldNext
<1> QED
  BY <1>2, <1>3

\* handle_compact removes nothing that is owed, if the tombstones it read are of
\* no owed TID, however long ago that was.
LEMMA CompactHeld ==
  ASSUME StateInv, NEW dead, NEW file, Compact(dead, file), NEW V, NEW H, Held(V, H),
         NEW U, \A t \in U : t \in V, Reached(U),
         \A t \in V : t \notin dead /\ \A d \in file : t \notin d.tids,
         delta' = delta, stale' = stale, comp' = comp \/ comp' = {}
  PROVE  HeldNext(V, H) /\ ReachedNext(U)
<1>1. GoneOK(V, tomb', comp')
  <2>1. tomb' = {} \/ tomb' = file
    BY CompactFacts
  <2> QED
    BY <2>1 DEF Held, GoneOK
<1>2. CASE base' = base /\ res' = res
  BY <1>1, <1>2 DEF Held, HeldNext, Reached, ReachedNext
<1>3. ASSUME NEW e \in res, NEW c \in EntryType,
             res' = {c}, c.rows = Keep(e.rows, dead), c.dkey = e.dkey, SameCopies(c, e),
             base' = base \/ base' = {c.rows}
      PROVE  HeldNext(V, H) /\ ReachedNext(U)
  <2>1. e.rows \in Seq(Row)
    BY DEF StateInv, ResOK, EntryType
  <2>2. GraphOK(V, H, e.rows, delta)
    BY DEF Held, RowsOK
  <2>3. GraphOK(V, H, c.rows, delta)
    BY <1>3, <2>1, <2>2, KeepSound DEF GraphOK
  <2>4. RowsOK(V, H, base', delta', res')
    BY <1>3, <2>3 DEF Held, RowsOK
  <2>5. CopyOK(V, delta', res')
    BY <1>3 DEF Held, CopyOK, SameCopies
  <2>6. res = {e}
    BY OneOf DEF StateInv, ResOK
  <2>7. \A t \in U : InGraph(t, base, res) => InGraph(t, base', res')
    BY <1>3, <2>1, <2>6, KeepSound, InSingleton
  <2> QED
    BY <1>1, <2>4, <2>5, <2>7 DEF HeldNext, Reached, ReachedNext, Reach
<1> QED
  BY <1>2, <1>3, CompactFacts

\* A mark_stale that does not arrive changes nothing, one that does closes the gates.
LEMMA MarkStaleHeld ==
  ASSUME StateInv, MarkStale, NEW V, NEW H, Held(V, H), NEW U, Reached(U),
         base' = base, delta' = delta, comp' = comp, GoneOK(V, tomb', comp)
  PROVE  HeldNext(V, H) /\ ReachedNext(U)
<1>1. /\ stale' <=> stale \/ up
      /\ ~up => res' = res
      /\ \A c \in res' : \E e \in res : Like(c, e)
  BY MarkStaleInv
<1>2. RowsOK(V, H, base', delta', res')
  BY <1>1 DEF Held, RowsOK, Like
<1>3. CopyOK(V, delta', res')
  <2> SUFFICES ASSUME NEW c \in res', c.dload
               PROVE  \E d \in delta :
                        /\ Prefix(c.dc, d.rows)
                        /\ c.dkey => \A i \in DOMAIN d.rows : i > Len(c.dc) => d.rows[i].tid \notin V
    BY DEF CopyOK
  <2>1. PICK e \in res : Like(c, e)
    BY <1>1
  <2>2. e.dload /\ c.dc = e.dc /\ c.dkey = e.dkey
    BY <2>1 DEF Like, SameCopies
  <2> QED
    BY <2>2 DEF Held, CopyOK
<1>4. ReachedNext(U)
  BY <1>1 DEF Reached, ReachedNext
<1> QED
  BY <1>2, <1>3, <1>4 DEF HeldNext

\* cuvs_ambulkdelete tombstones dead TIDs only, and a COMPACT right after it
\* removes only what is tombstoned.
LEMMA BulkDeleteHeld ==
  ASSUME StateInv, BulkDelete, NEW V, NEW H, Held(V, H), \A t \in V : t \notin vac.dead,
         NEW U, \A t \in U : t \in V, Reached(U)
  PROVE  HeldNext(V, H) /\ ReachedNext(U)
<1>0. UNCHANGED <<delta, comp>> /\ GoneOK(V, tomb, comp)
  BY DEF BulkDelete, Held
<1>1. CASE UNCHANGED <<base, tomb, stale, res>>
  BY <1>0, <1>1 DEF Held, HeldNext, Reached, ReachedNext
<1>2. CASE MarkStale /\ UNCHANGED <<base, tomb>>
  BY <1>0, <1>2, MarkStaleHeld
<1>3. ASSUME NEW file \in base, NEW n \in 0 .. Len(file), NEW new, new = {file[i].tid : i \in 1 .. n} \cap vac.dead,
             Cardinality(Tombstoned \cup new) <= MaxDelta \/ new = {},
             \/ /\ tomb' = TombAfter(new)
                /\ UNCHANGED <<base, stale, res>>
             \/ /\ Compact(Tombstoned \cup new, TombAfter(new))
                /\ UNCHANGED stale
             \/ /\ tomb' = TombAfter(new)
                /\ MarkStale
                /\ UNCHANGED base
      PROVE  HeldNext(V, H) /\ ReachedNext(U)
  <2>1. new \in SUBSET Tids
    BY <1>3 DEF StateInv, VacOK, VacType
  <2>2. \A d \in TombAfter(new) : d.tids \subseteq Tombstoned \cup new
    BY <1>3, <2>1, TombAfterOK
  <2>3. \A t \in V : t \notin Tombstoned /\ t \notin new
    BY <1>0, <1>3 DEF GoneOK, Tombstoned
  <2>4. PICK dead : dead = Tombstoned \cup new
    OBVIOUS
  <2>5. PICK f : f = TombAfter(new)
    OBVIOUS
  <2>6. \A t \in V : t \notin dead /\ \A d \in f : t \notin d.tids
    BY <2>2, <2>3, <2>4, <2>5
  <2>7. GoneOK(V, f, comp)
    BY <1>0, <2>6 DEF GoneOK
  <2>8. CASE tomb' = f /\ UNCHANGED <<base, stale, res>>
    BY <1>0, <2>7, <2>8 DEF Held, HeldNext, Reached, ReachedNext
  <2>9. CASE Compact(dead, f) /\ UNCHANGED stale
    BY <1>0, <2>6, <2>9, CompactHeld
  <2>10. CASE tomb' = f /\ MarkStale /\ UNCHANGED base
    BY <1>0, <2>7, <2>10, MarkStaleHeld
  <2> QED
    BY <1>3, <2>4, <2>5, <2>8, <2>9, <2>10
<1>4. CASE HeldNext(V, H) /\ ReachedNext(U)
  BY <1>4
<1> QED
  BY <1>1, <1>2, <1>3, <1>4 DEF BulkDelete

\* Steps that touch neither graph nor delta.
LEMMA QuietHeld ==
  ASSUME StateInv, NEW V, NEW H, Held(V, H), NEW U, Reached(U),
         VacuumCommit \/ CompactRead \/ UNCHANGED <<base, delta, res, stale, tomb, comp>>,
         UNCHANGED <<base, delta, res, stale>>
  PROVE  HeldNext(V, H) /\ ReachedNext(U)
<1>1. GoneOK(V, tomb, comp)
  BY DEF Held
<1>2. GoneOK(V, tomb', comp')
  <2>1. CASE VacuumCommit
    <3>1. comp' = comp /\ tomb' = {[d EXCEPT !.eff = @ \cup (vac.marked \cap d.tids)] : d \in tomb}
      BY <2>1 DEF VacuumCommit
    <3>2. \A f \in tomb' : \E d \in tomb : f.tids = d.tids
      BY <3>1 DEF StateInv, TombOK, TombType
    <3> QED
      BY <1>1, <3>1, <3>2 DEF GoneOK
  <2>2. CASE CompactRead
    BY <1>1, <2>2 DEF CompactRead, files, GoneOK, Tombstoned
  <2>3. CASE UNCHANGED <<tomb, comp>>
    BY <1>1, <2>3
  <2> QED
    BY <2>1, <2>2, <2>3
<1> QED
  BY <1>2 DEF Held, HeldNext, Reached, ReachedNext

\* What an INSERT of row r finds: r's TID is either not owed or new to the index.
Fresh(V, H, r) ==
  r.tid \in V => Unknown(r.tid, base, delta, res, tomb, comp) /\ r.ver = H[r.tid].ver
\* All but t are found.
ReachedBut(V, t, b, dl, rs) == \A u \in V : u = t \/ InGraph(u, b, rs) \/ InDelta(u, dl)

\* A new row may be appended to the graph in VRAM, and is then found there.
LEMMA ExtendRows ==
  ASSUME StateInv, NEW r \in Row, NEW V, NEW H, Held(V, H), Fresh(V, H, r)
  PROVE  /\ RowsOK(V, H, base, delta, Extended(r)) /\ CopyOK(V, delta, Extended(r))
         /\ \A u : (Extended(r) # {} /\ u = r.tid) \/ InGraph(u, base, res) => InGraph(u, base, Extended(r))
<1>1. /\ Extended(r) = {} <=> res = {}
      /\ \A c \in Extended(r) : \E e \in res :
              /\ c.rows = Append(e.rows, r) /\ c.stale = e.stale
              /\ c.dkey = e.dkey /\ SameCopies(c, e)
  BY ExtendedFacts DEF StateInv
<1>2. ASSUME NEW c \in Extended(r)
      PROVE  /\ GraphOK(V, H, c.rows, delta)
             /\ \A u : u = r.tid \/ InGraph(u, base, res) => u \in TidsOf(c.rows)
  <2>1. PICK e \in res : c.rows = Append(e.rows, r)
    BY <1>1
  <2>2. e.rows \in Seq(Row)
    BY DEF StateInv, ResOK, EntryType
  <2>3. GraphOK(V, H, e.rows, delta)
    BY DEF Held, RowsOK
  <2>4. r.tid \in V => /\ r.tid \notin TidsOf(e.rows) /\ r.ver = H[r.tid].ver
                       /\ \A d \in delta : r.tid \notin TidsOf(d.rows)
    BY DEF Fresh, Unknown
  <2>5. GraphOK(V, H, c.rows, delta)
    BY <2>1, <2>2, <2>3, <2>4, AppendSound DEF GraphOK
  <2>6. \A u : InGraph(u, base, res) => u \in TidsOf(e.rows)
    <3>1. res = {e}
      BY OneOf DEF StateInv, ResOK
    <3> QED
      BY <3>1, InSingleton
  <2> QED
    BY <2>1, <2>2, <2>5, <2>6, AppendSound
<1>3. RowsOK(V, H, base, delta, Extended(r))
  BY <1>2 DEF Held, RowsOK
<1>4. CopyOK(V, delta, Extended(r))
  <2> SUFFICES ASSUME NEW c \in Extended(r), c.dload
               PROVE  \E d \in delta :
                        /\ Prefix(c.dc, d.rows)
                        /\ c.dkey => \A i \in DOMAIN d.rows : i > Len(c.dc) => d.rows[i].tid \notin V
    BY DEF CopyOK
  <2>1. PICK e \in res : c.dkey = e.dkey /\ SameCopies(c, e)
    BY <1>1
  <2>2. e.dload /\ c.dc = e.dc /\ c.dkey = e.dkey
    BY <2>1 DEF SameCopies
  <2> QED
    BY <2>2 DEF Held, CopyOK
<1>5. ASSUME NEW u, (Extended(r) # {} /\ u = r.tid) \/ InGraph(u, base, res) PROVE InGraph(u, base, Extended(r))
  <2>1. CASE Extended(r) = {}
    BY <1>1, <1>5, <2>1
  <2>2. CASE Extended(r) # {}
    BY <1>2, <1>5, <2>2 DEF InGraph
  <2> QED
    BY <2>1, <2>2
<1> QED
  BY <1>3, <1>4, <1>5

\* mark_stale does not touch rows or copies.
LEMMA MarkedHeld ==
  ASSUME StateInv, NEW ents, ResOK(ents), NEW V, NEW H,
         RowsOK(V, H, base, delta, ents), CopyOK(V, delta, ents)
  PROVE  RowsOK(V, H, base, delta, Marked(ents)) /\ CopyOK(V, delta, Marked(ents))
<1>1. \A c \in Marked(ents) : \E e \in ents : Like(c, e)
  BY MarkedFacts DEF StateInv
<1>2. RowsOK(V, H, base, delta, Marked(ents))
  BY <1>1 DEF RowsOK, Like
<1>3. CopyOK(V, delta, Marked(ents))
  <2> SUFFICES ASSUME NEW c \in Marked(ents), c.dload
               PROVE  \E d \in delta :
                        /\ Prefix(c.dc, d.rows)
                        /\ c.dkey => \A i \in DOMAIN d.rows : i > Len(c.dc) => d.rows[i].tid \notin V
    BY DEF CopyOK
  <2>1. PICK e \in ents : Like(c, e)
    BY <1>1
  <2>2. e.dload /\ c.dc = e.dc /\ c.dkey = e.dkey
    BY <2>1 DEF Like, SameCopies
  <2> QED
    BY <2>2 DEF CopyOK
<1> QED
  BY <1>2, <1>3

\* A row appended to .delta: it is either not owed, or in no graph.
LEMMA AppendedHeld ==
  ASSUME StateInv, NEW r \in Row, NEW ents, ResOK(ents), Appended(r, ents), NEW V, NEW H,
         RowsOK(V, H, base, delta, ents), CopyOK(V, delta, ents),
         r.tid \in V =>
            /\ r.ver = H[r.tid].ver
            /\ \A rows \in base : r.tid \notin TidsOf(rows)
            /\ \A e \in ents : r.tid \notin TidsOf(e.rows)
            /\ \A d \in delta : r.tid \notin TidsOf(d.rows)
            /\ \A c \in res' : ~(c.dkey /\ c.dload)
  PROVE  /\ RowsOK(V, H, base, delta', res') /\ CopyOK(V, delta', res')
         /\ \A u : InGraph(u, base, ents) => InGraph(u, base, res')
         /\ \A u : u = r.tid \/ InDelta(u, delta) => InDelta(u, delta')
<1>1. PICK d2 \in DeltaType :
        /\ delta' = {d2}
        /\ \/ delta = {} /\ d2.rows = <<r>>
           \/ \E d \in delta : d2.rows = Append(d.rows, r)
  BY DEF Appended
<1>2. PICK old \in Seq(Row) :
        /\ d2.rows = Append(old, r) /\ Sound(V, H, old) /\ (r.tid \in V => r.tid \notin TidsOf(old))
        /\ \A rows : (\A d \in delta : Apart(V, rows, d.rows)) => Apart(V, rows, old)
        /\ \A u : InDelta(u, delta) => u \in TidsOf(old)
        /\ \A d \in delta : d.rows = old
  <2>1. CASE delta = {} /\ d2.rows = <<r>>
    <3>1. <<>> \in Seq(Row) /\ Append(<<>>, r) = <<r>>
      OBVIOUS
    <3>2. Sound(V, H, <<>>) /\ TidsOf(<<>>) = {} /\ \A rows : Apart(V, rows, <<>>)
      BY DEF Sound, Faithful, Once, TidsOf, Apart
    <3> QED
      BY <2>1, <3>1, <3>2 DEF InDelta
  <2>2. ASSUME NEW d \in delta, d2.rows = Append(d.rows, r)
        PROVE  /\ d.rows \in Seq(Row) /\ Sound(V, H, d.rows) /\ (r.tid \in V => r.tid \notin TidsOf(d.rows))
               /\ delta = {d}
    BY OneOf DEF StateInv, DeltaOK, DeltaType, RowsOK
  <2> QED
    BY <1>1, <2>1, <2>2 DEF InDelta
<1>3. Sound(V, H, d2.rows)
  BY <1>2, AppendSound
<1>4. ASSUME NEW rows, GraphOK(V, H, rows, delta), r.tid \in V => r.tid \notin TidsOf(rows)
      PROVE  GraphOK(V, H, rows, {d2})
  <2>1. Apart(V, rows, old)
    BY <1>2, <1>4 DEF GraphOK
  <2>2. Apart(V, rows, d2.rows)
    BY <1>2, <1>4, <2>1, AppendSound
  <2> QED
    BY <2>2, <1>4 DEF GraphOK
<1>5. \A c \in res' : \E e \in ents : c.rows = e.rows /\ SameCopies(c, e) /\ (c.dkey => e.dkey)
  BY DEF Appended
<1>6. RowsOK(V, H, base, delta', res')
  BY <1>1, <1>3, <1>4, <1>5 DEF RowsOK
<1>7. CopyOK(V, delta', res')
  <2> SUFFICES ASSUME NEW c \in res', c.dload
               PROVE  /\ Prefix(c.dc, d2.rows)
                      /\ c.dkey => \A i \in DOMAIN d2.rows : i > Len(c.dc) => d2.rows[i].tid \notin V
    BY <1>1 DEF CopyOK
  <2>1. PICK e \in ents : c.rows = e.rows /\ SameCopies(c, e) /\ (c.dkey => e.dkey)
    BY <1>5
  <2>2. e.dload /\ c.dc = e.dc /\ e.dc \in Seq(Row)
    BY <2>1 DEF SameCopies, ResOK, EntryType
  <2>3. /\ Prefix(e.dc, old)
        /\ e.dkey => \A i \in DOMAIN old : i > Len(e.dc) => old[i].tid \notin V
    BY <1>2, <2>2 DEF CopyOK
  <2>4. PICK n \in Nat : n = Len(old) /\ DOMAIN old = 1 .. n /\ DOMAIN d2.rows = 1 .. n + 1
                         /\ (\A i \in 1 .. n : d2.rows[i] = old[i]) /\ d2.rows[n + 1] = r
    BY <1>2, AppendSeq
  <2>5. PICK k \in Nat : k = Len(e.dc) /\ DOMAIN e.dc = 1 .. k
    BY <2>2
  <2>6. Len(d2.rows) = n + 1
    BY <1>2, <2>4
  <2>7. Prefix(c.dc, d2.rows)
    BY <2>2, <2>3, <2>4, <2>5, <2>6 DEF Prefix
  <2>8. ASSUME c.dkey, NEW i \in DOMAIN d2.rows, i > Len(c.dc) PROVE d2.rows[i].tid \notin V
    <3>1. CASE i \in 1 .. n
      BY <2>1, <2>2, <2>3, <2>4, <2>8, <3>1
    <3>2. CASE i = n + 1
      BY <2>4, <2>8, <3>2
    <3> QED
      BY <2>4, <3>1, <3>2
  <2> QED
    BY <2>7, <2>8
<1>8. ASSUME NEW u, InGraph(u, base, ents) PROVE InGraph(u, base, res')
  <2>1. CASE ents = {}
    <3>1. res' = {}
      BY <2>1 DEF Appended
    <3> QED
      BY <2>1, <3>1, <1>8
  <2>2. CASE ents # {}
    <3>1. PICK e \in ents, c \in EntryType : res' = {c} /\ c.rows = e.rows
      BY <2>2 DEF Appended
    <3>2. ents = {e}
      BY <3>1, OneOf DEF ResOK
    <3> QED
      BY <1>8, <3>1, <3>2, InSingleton
  <2> QED
    BY <2>1, <2>2
<1>9. ASSUME NEW u, u = r.tid \/ InDelta(u, delta) PROVE InDelta(u, delta')
  <2>1. u \in TidsOf(d2.rows)
    BY <1>2, <1>9, AppendSound
  <2> QED
    BY <1>1, <2>1 DEF InDelta
<1> QED
  BY <1>6, <1>7, <1>8, <1>9

\* An append changes .delta.
LEMMA DeltaGrows ==
  ASSUME StateInv, NEW r \in Row, NEW ents, Appended(r, ents)
  PROVE  delta' # delta
<1>1. PICK d2 \in DeltaType :
        /\ delta' = {d2}
        /\ \/ delta = {} /\ d2.rows = <<r>>
           \/ \E d \in delta : d2.rows = Append(d.rows, r)
  BY DEF Appended
<1>2. ASSUME NEW d \in delta, d2.rows = Append(d.rows, r) PROVE delta' # delta
  <2>1. delta = {d} /\ d.rows \in Seq(Row)
    BY OneOf DEF StateInv, DeltaOK, DeltaType
  <2>2. Len(d2.rows) = Len(d.rows) + 1 /\ Len(d.rows) \in Nat
    BY <2>1, <1>2
  <2>3. d2 # d
    BY <2>2
  <2> QED
    BY <2>1, <2>3, <1>1
<1> QED
  BY <1>1, <1>2

\* After cuvs_aminsert the new row is found too, unless one of the causes excuses
\* it: via EXTEND, via .delta, via both when the reply is lost, or because the
\* index is marked stale.
LEMMA AminsertHeld ==
  ASSUME StateInv, NEW r \in Row, aminsert(r), UNCHANGED <<base, tomb, up, comp>>,
         NEW V, NEW H, Held(V, H), Fresh(V, H, r),
         NEW U, \A u \in U : u \in V, ~stale => ReachedBut(U, r.tid, base, delta, res),
         r.tid \in V =>
            /\ delta' # delta => \A e \in res' : ~(e.dkey /\ e.dload) /\ r.tid \notin TidsOf(e.rows)
            /\ ~(~up /\ ~stale /\ delta' = delta)
  PROVE  HeldNext(V, H) /\ ReachedNext(U)
<1>1. GoneOK(V, tomb', comp')
  BY DEF Held
<1>3. CASE stale /\ UNCHANGED <<delta, stale, res>>
  BY <1>1, <1>3 DEF Held, HeldNext, ReachedNext
<1>4. CASE res # {} /\ ~stale /\ res' = Extended(r) /\ UNCHANGED <<delta, stale>>
  <2>1. Extended(r) # {}
    BY <1>4, ExtendedFacts DEF StateInv
  <2> QED
    BY <1>1, <1>4, <2>1, ExtendRows DEF HeldNext, ReachedNext, ReachedBut, Reach
<1>5. ASSUME NEW ents, ~stale, DeltaAppend(r, ents), ResOK(ents),
             RowsOK(V, H, base, delta, ents), CopyOK(V, delta, ents), ReachedBut(U, r.tid, base, delta, ents),
             ~up => ents = {}
      PROVE  HeldNext(V, H) /\ ReachedNext(U)
  <2>1. CASE Appended(r, ents)
    <3>1. delta' # delta
      BY <2>1, DeltaGrows
    <3>2. \A e \in ents : \E c \in res' : c.rows = e.rows
      <4> SUFFICES ASSUME NEW e \in ents PROVE \E c \in res' : c.rows = e.rows
        OBVIOUS
      <4>1. PICK f \in ents, c \in EntryType : res' = {c} /\ c.rows = f.rows
        BY <2>1 DEF Appended
      <4>2. f = e
        BY <1>5 DEF ResOK, AtMostOne
      <4> QED
        BY <4>1, <4>2
    <3>3. r.tid \in V =>
            /\ r.ver = H[r.tid].ver
            /\ \A rows \in base : r.tid \notin TidsOf(rows)
            /\ \A e \in ents : r.tid \notin TidsOf(e.rows)
            /\ \A d \in delta : r.tid \notin TidsOf(d.rows)
            /\ \A c \in res' : ~(c.dkey /\ c.dload)
      BY <3>1, <3>2 DEF Fresh, Unknown
    <3>4. /\ RowsOK(V, H, base, delta', res') /\ CopyOK(V, delta', res')
          /\ \A u : InGraph(u, base, ents) => InGraph(u, base, res')
          /\ \A u : u = r.tid \/ InDelta(u, delta) => InDelta(u, delta')
      BY <1>5, <2>1, <3>3, AppendedHeld
    <3> QED
      BY <1>1, <1>5, <3>4 DEF HeldNext, ReachedNext, ReachedBut, Reach
  <2>2. CASE delta' = delta /\ stale' = (stale \/ up) /\ res' = Marked(ents)
    <3>1. RowsOK(V, H, base, delta, res') /\ CopyOK(V, delta, res')
      BY <1>5, <2>2, MarkedHeld
    <3>2. HeldNext(V, H)
      BY <1>1, <2>2, <3>1 DEF HeldNext
    <3>3. ASSUME ~up PROVE ReachedNext(U)
      <4>1. r.tid \notin U
        BY <1>5, <2>2, <3>3
      <4>2. res' = ents
        BY <1>5, <2>2, <3>3, MarkedFacts DEF StateInv
      <4> QED
        BY <1>5, <2>2, <4>1, <4>2 DEF ReachedNext, ReachedBut, Reach
    <3>4. ASSUME up PROVE ReachedNext(U)
      BY <2>2, <3>4 DEF ReachedNext
    <3> QED
      BY <3>2, <3>3, <3>4
  <2> QED
    BY <1>5, <2>1, <2>2, DeltaAppendFacts
<1>6. CASE ~stale /\ DeltaAppend(r, res)
  <2>1. ResOK(res) /\ (~up => res = {})
    BY DEF StateInv, EntryOK
  <2> QED
    BY <1>5, <1>6, <2>1 DEF Held
<1>7. CASE ~stale /\ up /\ DeltaAppend(r, Extended(r))
  <2>1. ResOK(Extended(r))
    BY ExtendedFacts DEF StateInv
  <2>2. ReachedBut(U, r.tid, base, delta, Extended(r))
    BY <1>7, ExtendRows DEF ReachedBut
  <2>3. RowsOK(V, H, base, delta, Extended(r)) /\ CopyOK(V, delta, Extended(r))
    BY ExtendRows
  <2> QED
    BY <1>5, <1>7, <2>1, <2>2, <2>3
<1> QED
  BY <1>3, <1>4, <1>6, <1>7 DEF aminsert

\* A build that is committed: its rows are right about V, and so is .delta, which
\* has no row of V that is among them.
LEMMA CommitHeld ==
  ASSUME NEW rows \in Seq(Row), Commit(rows), NEW V, NEW H, Sound(V, H, rows),
         \A d \in delta' : Sound(V, H, d.rows) /\ Apart(V, rows, d.rows),
         GoneOK(V, tomb', comp')
  PROVE  /\ HeldNext(V, H)
         /\ \A t : t \in TidsOf(rows) => InGraph(t, base', res')
<1>1. base' = {rows} /\ \A c \in res' : c.rows = rows /\ ~c.dload
  BY CommitInv
<1>2. GraphOK(V, H, rows, delta')
  BY DEF GraphOK
<1>3. RowsOK(V, H, base', delta', res')
  BY <1>1, <1>2 DEF RowsOK
<1>4. CopyOK(V, delta', res')
  BY <1>1 DEF CopyOK
<1> QED
  BY <1>1, <1>3, <1>4 DEF HeldNext, InGraph
-----------------------------------------------------------------------------
(* The invariant of SpecH.                                                 *)

\* The rows a search must return.
Owed == LiveTids \ excused

\* Those it must return already: CREATE INDEX CONCURRENTLY still has to account for
\* the others.
Due == Owed \ conc.todo

\* The inductive invariant of SpecH, besides that of Spec.
OwedInv == Held(Owed, heap) /\ Reached(Due)

\* The invariant in the next state.
LEMMA OwedInvNext ==
  ASSUME HeldNext(Owed', heap'), ReachedNext(Due') PROVE OwedInv'
  BY DEF OwedInv, Held, Reached, HeldNext, ReachedNext

\* It holds after CREATE INDEX, and when it has just begun.
LEMMA InitOwedInv == InitH => OwedInv
<1> SUFFICES ASSUME InitH PROVE OwedInv
  OBVIOUS
<1>0. StateInv /\ delta = {} /\ tomb = {} /\ comp = {} /\ ~stale
  BY InitStateInv DEF InitH, Init
<1>1. Owed \subseteq LiveTids /\ \A t \in Due : t \in Owed /\ t \notin conc.todo
  BY DEF Owed, Due
<1> PICK V : V = Owed
  OBVIOUS
<1> PICK U : U = Due
  OBVIOUS
<1>2. PICK n, rows :
        /\ n \in Nat
        /\ rows = [i \in 1 .. n |-> [tid |-> i, ver |-> i]]
        /\ heap = [t \in Tids |-> [ver |-> IF t <= n THEN t ELSE 0,
                                   st  |-> IF t <= n THEN "live" ELSE "free"]]
        /\ \/ n = 0 /\ base = {}
           \/ base = {rows}
           \/ base = {} /\ conc.todo = Tids
  BY InitRows DEF InitH
<1>3. \A t \in V : t \in 1 .. n /\ t \in Tids /\ heap[t].ver = t
  <2> SUFFICES ASSUME NEW t \in V PROVE t \in 1 .. n /\ t \in Tids /\ heap[t].ver = t
    OBVIOUS
  <2>1. t \in Tids /\ heap[t].st = "live"
    BY <1>1 DEF LiveTids
  <2>2. t \in Nat \ {0}
    BY <2>1, NTidsAssumption DEF Tids
  <2>3. heap[t] = [ver |-> IF t <= n THEN t ELSE 0, st |-> IF t <= n THEN "live" ELSE "free"]
    BY <1>2, <2>1
  <2>4. t <= n
    BY <2>1, <2>3
  <2> QED
    BY <2>1, <2>2, <2>3, <2>4
<1>4. CASE base = {} /\ (n = 0 \/ conc.todo = Tids)
  <2>1. U = {}
    BY <1>1, <1>3, <1>4
  <2>2. res = {}
    BY <1>4 DEF InitH, Init
  <2> QED
    BY <1>0, <1>4, <2>1, <2>2 DEF OwedInv, Held, Reached, RowsOK, CopyOK, GoneOK, Reach
<1>5. CASE base = {rows}
  <2>1. DOMAIN rows = 1 .. n /\ \A i \in 1 .. n : rows[i].tid = i /\ rows[i].ver = i
    BY <1>2
  <2>2. rows \in Seq(Row)
    BY <1>0, <1>5 DEF StateInv, BaseOK
  <2>3. PICK c : res = {c} /\ c.rows = rows /\ ~c.dload
    <3>1. res = {Entry(rows, FALSE)}
      BY <1>5 DEF InitH, Init
    <3> QED
      BY <2>2, <3>1, EntryFacts
  <2>4. Sound(V, heap, rows)
    BY <1>3, <2>1 DEF Sound, Faithful, Once
  <2>5. GraphOK(V, heap, rows, delta)
    BY <1>0, <2>4 DEF GraphOK
  <2>6. RowsOK(V, heap, base, delta, res)
    BY <1>0, <1>5, <2>3, <2>5 DEF RowsOK
  <2>7. CopyOK(V, delta, res) /\ GoneOK(V, tomb, comp)
    BY <1>0, <2>3 DEF CopyOK, GoneOK
  <2>8. \A t \in V : t \in TidsOf(rows)
    BY <1>3, <2>1, TidsOfFact
  <2>9. Reach(U, base, delta, res)
    BY <1>1, <2>3, <2>8, InSingleton DEF Reach
  <2> QED
    BY <2>6, <2>7, <2>9 DEF OwedInv, Held, Reached
<1> QED
  BY <1>2, <1>4, <1>5

\* A REINDEX restores everything, but for what a COMPACT under way still remembers.
LEMMA ReindexOwedInv ==
  ASSUME StateInv, Reindex, excused' = LiveTids \cap UNION comp PROVE OwedInv'
<1>0. /\ heap' = heap /\ delta' = {} /\ tomb' = {} /\ comp' = comp
  BY DEF Reindex
<1>1. PICK rows : rows = HeapScan /\ Commit(rows)
  BY DEF Reindex
<1>2. rows \in Seq(Row)
  BY <1>1, HeapScanFacts DEF StateInv
<1>4. /\ \A i \in DOMAIN rows : rows[i].tid \in LiveTids /\ rows[i] = RowAt(rows[i].tid)
      /\ \A i, j \in DOMAIN rows : rows[i].tid = rows[j].tid => i = j
      /\ \A t \in LiveTids : \E i \in DOMAIN rows : rows[i].tid = t
  BY <1>1, HeapScanFacts DEF StateInv, Distinct
<1> PICK V : V = Owed'
  OBVIOUS
<1>5. \A t \in V : t \in LiveTids /\ \A x \in comp : t \notin x
  <2>1. LiveTids' = LiveTids
    BY <1>0 DEF LiveTids
  <2> QED
    BY <2>1 DEF Owed
<1>6. \A t : RowAt(t).ver = heap[t].ver
  BY DEF RowAt
<1>7. Sound(V, heap, rows)
  BY <1>4, <1>6 DEF Sound, Faithful, Once
<1>8. GoneOK(V, tomb', comp')
  BY <1>0, <1>5 DEF GoneOK
<1>9. HeldNext(V, heap) /\ \A t \in V : InGraph(t, base', res')
  <2>1. \A t \in V : t \in TidsOf(rows)
    BY <1>4, <1>5, TidsOfFact
  <2> QED
    BY <1>0, <1>1, <1>2, <1>7, <1>8, <2>1, CommitHeld
<1>10. ReachedNext(Due')
  BY <1>9 DEF Due, ReachedNext, Reach
<1> QED
  BY <1>0, <1>9, <1>10, OwedInvNext

\* Owing less does no harm.
LEMMA OwedShrinks ==
  ASSUME StateInv, OwedInv, NEW V, NEW H, \A u \in V : u \in Owed /\ H[u].ver = heap[u].ver,
         NEW U, \A u \in U : u \in Due
  PROVE  Held(V, H) /\ Reached(U)
<1>1. Held(Owed, heap) /\ Reached(Due)
  BY DEF OwedInv
<1>2. \A u \in V : (u \in Owed /\ H[u].ver = heap[u].ver) \/ Unknown(u, base, delta, res, tomb, comp)
  OBVIOUS
<1>3. Held(V, H)
  <2> PICK V1 : V1 = Owed
    OBVIOUS
  <2> QED
    BY <1>1, <1>2, Move DEF Held
<1>4. Reached(U)
  BY <1>1 DEF Reached, Reach
<1> QED
  BY <1>3, <1>4

\* Only an INSERT adds to what is owed.
LEMMA NoNewRow ==
  ASSUME StateInv, Step, ~(\E t \in Tids : Insert(t)), excused \subseteq excused'
  PROVE  \A u \in Owed' : u \in Owed /\ heap'[u].ver = heap[u].ver
<1>1. \A u \in LiveTids' : u \in LiveTids /\ heap'[u].ver = heap[u].ver
  <2>1. CASE heap' = heap
    BY <2>1 DEF LiveTids
  <2>2. ASSUME NEW t \in Tids, Delete(t) PROVE \A u \in LiveTids' : u \in LiveTids /\ heap'[u].ver = heap[u].ver
    <3>1. heap' = [heap EXCEPT ![t].st = "dead"] /\ HeapOK(heap)
      BY <2>2 DEF Delete, StateInv
    <3>2. \A u \in Tids : heap'[u].ver = heap[u].ver /\ (heap'[u].st = "live" => heap[u].st = "live")
      BY <3>1 DEF HeapOK
    <3> QED
      BY <3>2 DEF LiveTids
  <2>3. CASE VacuumHeap
    <3>1. \A u \in Tids : heap'[u] = IF u \notin vac.dead THEN heap[u]
                ELSE [ver |-> 0, st |-> IF "reuse" \in events THEN "free" ELSE "retired"]
      BY <2>3 DEF VacuumHeap
    <3> QED
      BY <3>1 DEF LiveTids
  <2>4. CASE Truncate
    <3>1. \A u \in Tids : heap'[u].st = "free"
      BY <2>4 DEF Truncate
    <3> QED
      BY <3>1 DEF LiveTids
  <2> QED
    BY <2>1, <2>2, <2>3, <2>4
       DEF Step, VacuumStart, BulkDelete, VacuumCleanup, VacuumCommit, VacuumCancel, CompactRead, CompactFinish,
           ReindexGivesUp, OverdueBuild, ConcReady, ConcSnapshot, ConcRead, ConcInsert, ConcValid,
           Search, Evict, Stop, Crash, Start
<1> QED
  BY <1>1 DEF Owed

\* The steps that add to what is owed or due, or put a build in place.
Adding ==
  \/ OverdueBuild \/ ConcReady \/ ConcSnapshot \/ ConcRead
  \/ \E t \in Tids : Insert(t) \/ ConcInsert(t)

\* No other step does.
LEMMA NothingAdded ==
  ASSUME StateInv, Step, ~Adding, excused \subseteq excused'
  PROVE  /\ \A u \in Owed' : u \in Owed /\ heap'[u].ver = heap[u].ver
         /\ \A u \in Due' : u \in Owed' /\ u \in Due
<1>1. \A u \in Owed' : u \in Owed /\ heap'[u].ver = heap[u].ver
  BY NoNewRow DEF Adding
<1>2. conc'.todo = conc.todo
  <2>1. CASE ConcValid
    BY <2>1 DEF ConcValid, StateInv, ConcInv, ConcType
  <2>2. CASE conc' = conc
    BY <2>2
  <2> QED
    BY <2>1, <2>2
       DEF Step, Adding, Delete, VacuumStart, BulkDelete, VacuumHeap, VacuumCleanup, VacuumCommit, VacuumCancel,
           CompactRead, CompactFinish, ReindexGivesUp, Truncate, Search, Evict, Stop, Crash, Start, BuildLost, builds
<1> QED
  BY <1>1, <1>2 DEF Due

\* Such a step keeps the invariant.
LEMMA QuietStepOwedInv ==
  ASSUME StateInv, OwedInv, Step, ~Adding, excused \subseteq excused', LostWithDaemon \subseteq excused'
  PROVE  OwedInv'
<1> PICK V : V = Owed'
  OBVIOUS
<1> PICK H : H = heap'
  OBVIOUS
<1> PICK U : U = Due'
  OBVIOUS
<1>1. (\A u \in V : u \in Owed /\ H[u].ver = heap[u].ver) /\ \A u \in U : u \in V /\ u \in Due
  BY NothingAdded
<1>2. Held(V, H) /\ Reached(U) /\ \A u \in U : u \in V
  BY <1>1, OwedShrinks
<1>3. \A u \in V : heap[u].st = "live"
  BY <1>1 DEF Owed, LiveTids
<1>4. \A u \in U : u \notin LostWithDaemon
  BY DEF Owed, Due
<1>5. CASE Search
  BY <1>2, <1>5, SearchHeld, OwedInvNext
<1>6. CASE Evict \/ Stop \/ Crash \/ Start
  BY <1>2, <1>4, <1>6, DownHeld, OwedInvNext
<1>7. CASE BulkDelete
  <2>1. \A t \in vac.dead : heap[t].st = "dead"
    BY <1>7 DEF BulkDelete, StateInv, VacOK
  <2>2. \A t \in V : t \notin vac.dead
    BY <1>3, <2>1
  <2> QED
    BY <1>2, <1>7, <2>2, BulkDeleteHeld, OwedInvNext
<1>8. ASSUME NEW dead, Compact(dead, tomb), \A t \in V : t \notin dead,
             delta' = delta, stale' = stale, comp' = comp \/ comp' = {}
      PROVE  OwedInv'
  <2>1. \A t \in V : t \notin dead /\ \A d \in tomb : t \notin d.tids
    BY <1>2, <1>8 DEF Held, GoneOK
  <2> QED
    BY <1>2, <1>8, <2>1, CompactHeld, OwedInvNext
<1>9. \A t \in V : t \notin Tombstoned
  BY <1>2 DEF Held, GoneOK, Tombstoned
<1>10. CASE VacuumCleanup
  <2>1. CASE Compact(Tombstoned, tomb)
    BY <1>8, <1>9, <1>10, <2>1 DEF VacuumCleanup
  <2>2. CASE UNCHANGED <<base, tomb, res>>
    BY <1>2, <1>10, <2>2, QuietHeld, OwedInvNext DEF VacuumCleanup
  <2> QED
    BY <1>10, <2>1, <2>2 DEF VacuumCleanup
<1>11. CASE CompactFinish
  <2>1. PICK x \in comp : The(comp) = x
    BY <1>11, OneOf DEF CompactFinish, StateInv, CompOK
  <2>2. \A t \in V : t \notin x
    BY <1>2, <2>1 DEF Held, GoneOK
  <2> QED
    BY <1>8, <1>11, <2>1, <2>2 DEF CompactFinish
<1>12. CASE VacuumCommit
  BY <1>2, <1>12, QuietHeld, OwedInvNext DEF VacuumCommit
<1>13. CASE CompactRead
  BY <1>2, <1>13, QuietHeld, OwedInvNext DEF CompactRead, files
<1>14. CASE UNCHANGED <<base, delta, res, stale, tomb, comp>>
  BY <1>2, <1>14, QuietHeld, OwedInvNext
<1>15. CASE \/ VacuumStart \/ VacuumHeap \/ VacuumCancel \/ ReindexGivesUp \/ Truncate \/ ConcValid
            \/ \E t \in Tids : Delete(t)
  BY <1>14, <1>15 DEF VacuumStart, VacuumHeap, VacuumCancel, ReindexGivesUp, Truncate, ConcValid, Delete, files
<1> QED
  BY <1>5, <1>6, <1>7, <1>10, <1>11, <1>12, <1>13, <1>15 DEF Step, Adding

\* What a step adds to the excused.
Excuses ==
  LostWithDaemon \cup Unmarked \cup SameSecond \cup Reused \cup Doubled \cup Overtaken \cup Revalidated

\* A TID that KnownTids does not have.
LEMMA NotKnown ==
  ASSUME NEW t, t \notin KnownTids PROVE Unknown(t, base, delta, res, tomb, comp)
<1>1. \A rows \in base : t \notin TidsOf(rows)
  BY DEF KnownTids
<1>2. ASSUME NEW e \in res PROVE t \notin TidsOf(e.rows)
  <2> PICK x : x = TidsOf(e.rows) \cup TidsOf(e.dc)
    OBVIOUS
  <2>1. x \in {TidsOf(f.rows) \cup TidsOf(f.dc) : f \in res}
    OBVIOUS
  <2>2. t \notin x
    BY <2>1 DEF KnownTids
  <2> QED
    BY <2>2
<1>3. \A d \in delta : t \notin TidsOf(d.rows)
  BY DEF KnownTids
<1>4. t \notin Tombstoned /\ \A x \in comp : t \notin x
  BY DEF KnownTids
<1> QED
  BY <1>1, <1>2, <1>3, <1>4 DEF Unknown, Tombstoned

\* A TID that cuvs_aminsert is called with, and that is not excused.
LEMMA GivenNotExcused ==
  ASSUME NEW t, t \in GivenTids, t \notin Excuses
  PROVE  /\ delta' # delta => \A e \in res' : ~(e.dkey /\ e.dload) /\ t \notin TidsOf(e.rows)
         /\ ~(~up /\ ~stale /\ delta' = delta)
<1>1. t \notin Unmarked /\ t \notin SameSecond /\ t \notin Doubled
  BY DEF Excuses
<1>2. ASSUME delta' # delta, NEW e \in res' PROVE ~(e.dkey /\ e.dload)
  BY <1>1, <1>2 DEF SameSecond
<1>3. ASSUME delta' # delta, NEW e \in res' PROVE t \notin TidsOf(e.rows)
  BY <1>1, <1>3 DEF Doubled
<1>4. ~(~up /\ ~stale /\ delta' = delta)
  BY <1>1 DEF Unmarked
<1> QED
  BY <1>2, <1>3, <1>4

\* An INSERT keeps the invariant: a TID that is owed is new to the index, and met
\* no cause.
LEMMA InsertOwedInv ==
  ASSUME StateInv, OwedInv, NEW t \in Tids, Insert(t), excused' = excused \cup Excuses
  PROVE  OwedInv'
<1> PICK V : V = Owed'
  OBVIOUS
<1> PICK H : H = heap'
  OBVIOUS
<1> PICK U : U = Due'
  OBVIOUS
<1>0. /\ heap[t].st = "free" /\ heap'[t].st = "live" /\ heap'[t].ver = nextver + 1
      /\ \A u \in Tids : u # t => heap'[u] = heap[u]
      /\ UNCHANGED <<base, tomb, up, comp, conc>>
  BY DEF Insert, StateInv, HeapOK, builds
<1> PICK r \in Row : r = [tid |-> t, ver |-> nextver + 1]
  BY InsertRow
<1>1. \A u \in V : u = t \/ (u \in Owed /\ H[u].ver = heap[u].ver)
  BY <1>0 DEF Owed, LiveTids
<1>2. \A u \in U : u \in V /\ (u = t \/ u \in Due)
  BY <1>0, <1>1 DEF Due
<1>3. t \in InsertedTids
  BY <1>0 DEF InsertedTids
<1>4. ASSUME t \in V PROVE Unknown(t, base, delta, res, tomb, comp)
  <2>1. t \notin KnownTids
    BY <1>3, <1>4 DEF Owed, Excuses, Reused
  <2> QED
    BY <2>1, NotKnown
<1>5. Held(Owed, heap) /\ Reached(Due)
  BY DEF OwedInv
<1>6. Held(V, H)
  <2> PICK V1 : V1 = Owed
    OBVIOUS
  <2>1. \A u \in V : (u \in V1 /\ H[u].ver = heap[u].ver) \/ Unknown(u, base, delta, res, tomb, comp)
    BY <1>1, <1>4
  <2> QED
    BY <1>5, <2>1, Move DEF Held
<1>7. CASE conc.pc = "scan" /\ UNCHANGED <<delta, stale, res>>
  <2>1. conc'.todo = Tids
    BY <1>0, <1>7 DEF StateInv, ConcInv
  <2>2. \A u \in U : u \notin Tids
    BY <2>1 DEF Due
  <2>3. \A u \in V : u \in Tids
    BY DEF Owed, LiveTids
  <2>4. ReachedNext(U)
    BY <1>2, <2>2, <2>3 DEF ReachedNext, Reach
  <2>5. HeldNext(V, H)
    BY <1>0, <1>6, <1>7 DEF Held, HeldNext
  <2> QED
    BY <2>4, <2>5, OwedInvNext
<1>8. CASE conc.pc # "scan" /\ aminsert(r)
  <2>1. ~stale => ReachedBut(U, r.tid, base, delta, res)
    BY <1>2, <1>5 DEF Reached, Reach, ReachedBut
  <2>2. Fresh(V, H, r)
    BY <1>0, <1>4 DEF Fresh
  <2>3. t \in V => /\ delta' # delta => \A e \in res' : ~(e.dkey /\ e.dload) /\ t \notin TidsOf(e.rows)
                   /\ ~(~up /\ ~stale /\ delta' = delta)
    <3>1. t \in GivenTids
      BY <1>3, <1>8 DEF GivenTids
    <3>2. t \in V => t \notin Excuses
      BY DEF Owed
    <3> QED
      BY <3>1, <3>2, GivenNotExcused
  <2>4. HeldNext(V, H) /\ ReachedNext(U)
    BY <1>0, <1>2, <1>6, <1>8, <2>1, <2>2, <2>3, AminsertHeld
  <2> QED
    BY <2>4, OwedInvNext
<1> QED
  BY <1>7, <1>8 DEF Insert

\* The row that validate_index inserts: if it is owed, its writer has not inserted
\* it before.
LEMMA ConcInsertOwedInv ==
  ASSUME StateInv, OwedInv, NEW t \in Tids, ConcInsert(t), excused' = excused \cup Excuses
  PROVE  OwedInv'
<1> PICK V : V = Owed'
  OBVIOUS
<1> PICK U : U = Due'
  OBVIOUS
<1>0. /\ UNCHANGED <<heap, base, tomb, up, comp>>
      /\ conc.pc = "validate" /\ t \in conc.todo /\ conc'.todo = conc.todo \ {t}
  BY DEF ConcInsert, StateInv, ConcInv, ConcType
<1> PICK r \in Row : r = RowAt(t)
  BY ConcInsertInv
<1>1. r.tid = t /\ r.ver = heap[t].ver /\ aminsert(r)
  BY DEF RowAt, ConcInsert
<1>2. \A u \in V : u \in Owed
  BY <1>0 DEF Owed, LiveTids
<1>3. \A u \in U : u \in V /\ (u = t \/ u \in Due)
  BY <1>0, <1>2 DEF Due
<1>4. t \in ValidatedTids
  BY <1>0 DEF ValidatedTids
<1>5. Fresh(V, heap, r)
  <2>1. t \in V => t \notin KnownTids
    BY <1>4 DEF Owed, Excuses, Revalidated
  <2> QED
    BY <1>1, <2>1, NotKnown DEF Fresh
<1>6. t \in V => /\ delta' # delta => \A e \in res' : ~(e.dkey /\ e.dload) /\ t \notin TidsOf(e.rows)
                 /\ ~(~up /\ ~stale /\ delta' = delta)
  <2>1. t \in GivenTids
    BY <1>4 DEF GivenTids
  <2>2. t \in V => t \notin Excuses
    BY DEF Owed
  <2> QED
    BY <2>1, <2>2, GivenNotExcused
<1>7. Held(V, heap) /\ Reached(Due)
  BY <1>2, OwedShrinks DEF OwedInv
<1>8. ~stale => ReachedBut(U, r.tid, base, delta, res)
  BY <1>1, <1>3, <1>7 DEF Reached, Reach, ReachedBut
<1>9. HeldNext(V, heap) /\ ReachedNext(U)
  BY <1>0, <1>1, <1>3, <1>5, <1>6, <1>7, <1>8, AminsertHeld
<1> QED
  BY <1>0, <1>9, OwedInvNext

\* The commit of an overdue build: a row that is owed has been read by the build or
\* is in .delta, and not both.
LEMMA OverdueBuildOwedInv ==
  ASSUME StateInv, OwedInv, OverdueBuild, excused' = excused \cup Excuses
  PROVE  OwedInv'
<1> PICK V : V = Owed'
  OBVIOUS
<1>0. /\ UNCHANGED <<heap, delta, tomb, up, comp>>
      /\ up /\ conc.pc = "done" /\ pending' = {}
  BY DEF OverdueBuild
<1>1. PICK rows \in pending : Commit(rows)
  BY DEF OverdueBuild
<1>2. rows \in Seq(Row) /\ Distinct(rows)
  BY DEF StateInv, ConcInv, PendingOK, BaseOK
<1>3. \A u \in V : u \in Owed /\ u \in LiveTids /\ u \notin Overtaken
  BY <1>0 DEF Owed, LiveTids, Excuses
<1>4. ASSUME NEW u \in V
      PROVE  \/ (\E i \in DOMAIN rows : rows[i] = RowAt(u)) /\ ~InDelta(u, delta)
             \/ u \notin TidsOf(rows) /\ InDelta(u, delta)
  <2>1. KeptBy(rows, u)
    BY <1>0, <1>1, <1>3 DEF Overtaken
  <2> QED
    BY <2>1 DEF KeptBy, InDelta
<1>5. Held(V, heap)
  BY <1>3, OwedShrinks
<1>6. \A u : RowAt(u).tid = u /\ RowAt(u).ver = heap[u].ver
  BY DEF RowAt
<1>7. Sound(V, heap, rows)
  <2>1. Faithful(V, heap, rows)
    <3> SUFFICES ASSUME NEW i \in DOMAIN rows, rows[i].tid \in V PROVE rows[i].ver = heap[rows[i].tid].ver
      BY DEF Faithful
    <3>1. rows[i].tid \in TidsOf(rows)
      BY TidsOfFact
    <3>2. PICK j \in DOMAIN rows : rows[j] = RowAt(rows[i].tid)
      BY <1>4, <3>1
    <3>3. rows[j].tid = rows[i].tid
      BY <1>6, <3>2
    <3>4. j = i
      BY <1>2, <3>3 DEF Distinct
    <3> QED
      BY <1>6, <3>2, <3>4
  <2> QED
    BY <1>2, <2>1 DEF Distinct, Sound, Once
<1>8. ASSUME NEW d \in delta PROVE Sound(V, heap, d.rows) /\ Apart(V, rows, d.rows)
  <2>1. Sound(V, heap, d.rows)
    BY <1>5 DEF Held, RowsOK
  <2>2. \A i \in DOMAIN rows : rows[i].tid \in V => rows[i].tid \notin TidsOf(d.rows)
    BY <1>4, TidsOfFact DEF InDelta
  <2>3. Apart(V, rows, d.rows)
    BY <2>2, TidsOfFact DEF Apart
  <2> QED
    BY <2>1, <2>3
<1>9. GoneOK(V, tomb', comp')
  BY <1>0, <1>5 DEF Held
<1>10. HeldNext(V, heap) /\ \A u : u \in TidsOf(rows) => InGraph(u, base', res')
  BY <1>0, <1>1, <1>2, <1>7, <1>8, <1>9, CommitHeld
<1>11. \A u \in V : InGraph(u, base', res') \/ InDelta(u, delta')
  <2>1. \A u \in V : u \in TidsOf(rows) \/ InDelta(u, delta)
    BY <1>4, <1>6, TidsOfFact
  <2> QED
    BY <1>0, <1>10, <2>1
<1>12. ReachedNext(Due')
  BY <1>11 DEF Due, ReachedNext, Reach
<1> QED
  BY <1>0, <1>10, <1>12, OwedInvNext

\* The index becomes ready: what the build has read is still right, and nothing is
\* due before the snapshot.
LEMMA ConcReadyOwedInv ==
  ASSUME StateInv, OwedInv, ConcReady, excused' = excused \cup Excuses
  PROVE  OwedInv'
<1> PICK V : V = Owed'
  OBVIOUS
<1>0. /\ UNCHANGED <<heap, delta, tomb, comp>> /\ conc.pc = "scan" /\ conc'.todo = Tids
      /\ delta = {} /\ tomb = {} /\ comp = {}
  BY DEF ConcReady, StateInv, ConcInv
<1>1. ReachedNext(Due')
  <2>1. \A u \in Owed' : u \in Tids
    BY DEF Owed, LiveTids
  <2> QED
    BY <1>0, <2>1 DEF Due, ReachedNext, Reach
<1>2. PICK rows \in pending : UNCHANGED <<base, res>> \/ Commit(rows)
  BY DEF ConcReady
<1>3. rows \in Seq(Row) /\ Distinct(rows) /\ ReadFrom(heap, rows)
  BY <1>0 DEF StateInv, ConcInv, PendingOK, BaseOK
<1>4. HeldNext(V, heap)
  <2>1. CASE UNCHANGED <<base, res>>
    <3>1. \A u \in V : u \in Owed
      BY <1>0 DEF Owed, LiveTids
    <3>2. Held(V, heap)
      BY <3>1, OwedShrinks
    <3> QED
      BY <1>0, <2>1, <3>2 DEF Held, HeldNext
  <2>2. CASE Commit(rows)
    <3>1. Sound(V, heap, rows)
      BY <1>3 DEF Sound, Faithful, Once, ReadFrom, Distinct
    <3>2. GoneOK(V, tomb', comp')
      BY <1>0 DEF GoneOK
    <3> QED
      BY <1>0, <1>3, <2>2, <3>1, <3>2, CommitHeld
  <2> QED
    BY <1>2, <2>1, <2>2
<1> QED
  BY <1>0, <1>1, <1>4, OwedInvNext

\* The snapshot makes due the rows that come after it only.
LEMMA ConcSnapshotOwedInv ==
  ASSUME StateInv, OwedInv, ConcSnapshot, excused' = excused \cup Excuses
  PROVE  OwedInv'
<1> PICK V : V = Owed'
  OBVIOUS
<1>0. UNCHANGED <<heap, base, delta, tomb, stale, res, comp>> /\ conc'.todo = LiveTids
  BY DEF ConcSnapshot, files
<1>1. \A u \in V : u \in Owed /\ u \in LiveTids
  BY <1>0 DEF Owed, LiveTids
<1>2. Held(V, heap)
  BY <1>1, OwedShrinks
<1>3. HeldNext(V, heap)
  BY <1>0, <1>2 DEF Held, HeldNext
<1>4. ReachedNext(Due')
  BY <1>0, <1>1 DEF Due, ReachedNext, Reach
<1> QED
  BY <1>0, <1>3, <1>4, OwedInvNext

\* The rows whose TIDs .tids reports are in the graph, whichever a search uses.
LEMMA ConcReadOwedInv ==
  ASSUME StateInv, OwedInv, ConcRead, excused' = excused \cup Excuses
  PROVE  OwedInv'
<1> PICK V : V = Owed'
  OBVIOUS
<1> PICK U : U = Due'
  OBVIOUS
<1>0. /\ UNCHANGED <<heap, base, delta, tomb, up, comp>> /\ conc.pc = "snapshot"
      /\ \A u \in conc.todo : u \in conc'.todo \/ (~stale /\ \E rows \in base : u \in TidsOf(rows))
  BY DEF ConcRead
<1>1. \A u \in V : u \in Owed
  BY <1>0 DEF Owed, LiveTids
<1>2. Held(V, heap) /\ Reached(Due)
  BY <1>1, OwedShrinks DEF OwedInv
<1>3. \A u \in U : u \in Due \/ \E rows \in base : u \in TidsOf(rows)
  BY <1>0, <1>1 DEF Due
<1>4. ASSUME NEW rows \in base, NEW u \in TidsOf(rows) PROVE InGraph(u, base, res)
  <2>1. \A e \in res : u \in TidsOf(e.rows)
    BY <1>0 DEF StateInv, ConcInv
  <2> QED
    BY <2>1 DEF InGraph
<1>5. Reached(U)
  BY <1>2, <1>3, <1>4 DEF Reached, Reach
<1>6. CASE MarkStale
  <2>1. GoneOK(V, tomb', comp)
    BY <1>0, <1>2 DEF Held
  <2> QED
    BY <1>0, <1>2, <1>5, <1>6, <2>1, MarkStaleHeld, OwedInvNext
<1>7. CASE UNCHANGED <<stale, res>>
  BY <1>0, <1>2, <1>5, <1>7, QuietHeld, OwedInvNext
<1> QED
  BY <1>6, <1>7 DEF ConcRead

\* Every step of SpecH keeps the invariant.
LEMMA NextOwedInv == StateInv /\ OwedInv /\ [NextH]_hvars => OwedInv'
<1> SUFFICES ASSUME StateInv, OwedInv, [NextH]_hvars PROVE OwedInv'
  OBVIOUS
<1>1. CASE UNCHANGED hvars
  BY <1>1 DEF hvars, vars, OwedInv, Held, Reached, Owed, Due, LiveTids
<1>2. CASE Reindex /\ excused' = LiveTids \cap UNION comp
  BY <1>2, ReindexOwedInv
<1>3. CASE Step /\ excused' = excused \cup Excuses
  <2>1. CASE Adding
    BY <1>3, <2>1, InsertOwedInv, ConcInsertOwedInv, OverdueBuildOwedInv, ConcReadyOwedInv, ConcSnapshotOwedInv,
       ConcReadOwedInv DEF Adding
  <2>2. excused \subseteq excused' /\ LostWithDaemon \subseteq excused'
    BY <1>3 DEF Excuses
  <2> QED
    BY <1>3, <2>1, <2>2, QuietStepOwedInv
<1> QED
  BY <1>1, <1>2, <1>3 DEF NextH, Excuses

\* The history variable adds no behaviour.
LEMMA HistoryOnly == SpecH => Spec
<1>1. InitH => Init
  BY DEF InitH
<1>2. [NextH]_hvars => [Next]_vars
  BY DEF NextH, hvars, Next
<1> QED
  BY <1>1, <1>2, PTL DEF SpecH, Spec

\* Both invariants hold in every state of SpecH.
LEMMA OwedInvHolds == SpecH => [](StateInv /\ OwedInv)
<1>1. InitH => OwedInv
  BY InitOwedInv
<1>2. StateInv /\ OwedInv /\ [NextH]_hvars => OwedInv'
  BY NextOwedInv
<1>3. SpecH => []StateInv
  BY HistoryOnly, StateInvHolds, PTL
<1> QED
  BY <1>1, <1>2, <1>3, PTL DEF SpecH
-----------------------------------------------------------------------------
(* From the invariants to the answers of a search.                         *)

\* What NoUnexplainedLoss, NoUnexplainedDuplicate and NoUnexplainedDistance say of
\* one answer.
Good(a) ==
  /\ \A t \in Owed : \E i \in DOMAIN a : a[i] = RowAt(t)
  /\ \A i, j \in DOMAIN a : a[i].tid = a[j].tid /\ a[i].tid \in Owed => i = j
  /\ \A i \in DOMAIN a : a[i].tid \in Owed => a[i].ver = heap[a[i].tid].ver

\* A list of rows that has them all and is right about them.
LEMMA GoodFrom ==
  ASSUME NEW a, Sound(Owed, heap, a), \A t \in Owed : t \in TidsOf(a),
         \A i \in DOMAIN a : a[i] = [tid |-> a[i].tid, ver |-> a[i].ver]
  PROVE  Good(a)
<1>1. ASSUME NEW t \in Owed PROVE \E i \in DOMAIN a : a[i] = RowAt(t)
  <2>1. PICK i \in DOMAIN a : a[i].tid = t
    BY <1>1, TidsOfFact
  <2>2. a[i].ver = heap[t].ver
    BY <1>1, <2>1 DEF Sound, Faithful
  <2>3. a[i] = [tid |-> a[i].tid, ver |-> a[i].ver]
    BY Zenon
  <2>4. a[i] = [tid |-> t, ver |-> heap[t].ver]
    BY <2>1, <2>2, <2>3, Zenon
  <2> QED
    BY <2>4, Zenon DEF RowAt
<1>2. \A i, j \in DOMAIN a : a[i].tid = a[j].tid /\ a[i].tid \in Owed => i = j
  BY Zenon DEF Sound, Once
<1>3. \A i \in DOMAIN a : a[i].tid \in Owed => a[i].ver = heap[a[i].tid].ver
  BY Zenon DEF Sound, Faithful
<1> QED
  BY <1>1, <1>2, <1>3, Zenon DEF Good

\* An answer merged from a graph and a delta that are right about what is owed.
LEMMA MergeGood ==
  ASSUME StateInv, OwedInv, NEW p \in Seq(Row), NEW q \in Seq(Row),
         Sound(Owed, heap, p), Sound(Owed, heap, q), Apart(Owed, p, q),
         \A t \in Owed : t \in TidsOf(p) \/ t \in TidsOf(q)
  PROVE  Good(Filtered(p \o q))
<1> PICK V : V = Owed
  OBVIOUS
<1> PICK gone : gone = UNION {d.eff : d \in {f \in tomb : f.gen = Gen(The(base))}}
  OBVIOUS
<1> PICK c \in Seq(Row) : c = p \o q
  BY ConcatProperties
<1>1. Sound(V, heap, c) /\ \A t \in V : t \in TidsOf(c)
  BY ConcatSound
<1>2. \A t \in V : t \notin gone
  <2>1. \A d \in tomb : d.eff \subseteq d.tids
    BY DEF StateInv, TombOK
  <2>2. \A t \in V : \A d \in tomb : t \notin d.tids
    BY DEF OwedInv, Held, GoneOK
  <2> QED
    BY <2>1, <2>2
<1> PICK a \in Seq(Row) : a = Keep(c, gone)
  BY KeepFacts
<1>3. Filtered(p \o q) = a
  BY DEF Filtered
<1>4. Sound(V, heap, a) /\ \A t \in V : t \in TidsOf(a)
  BY <1>1, <1>2, KeepSound
<1>5. \A i \in DOMAIN a : a[i] = [tid |-> a[i].tid, ver |-> a[i].ver]
  <2> SUFFICES ASSUME NEW i \in DOMAIN a PROVE a[i] = [tid |-> a[i].tid, ver |-> a[i].ver]
    OBVIOUS
  <2>0. DOMAIN a = 1 .. Len(a)
    BY LenProperties
  <2> PICK r \in Row : r = a[i]
    BY <2>0, ElementOfSeq
  <2>1. r = [tid |-> r.tid, ver |-> r.ver]
    BY DEF Row
  <2> QED
    BY <2>1
<1>6. Good(a)
  BY <1>4, <1>5, GoodFrom
<1> QED
  BY <1>3, <1>6

\* .delta itself is such a delta ...
LEMMA DeltaRowsFacts ==
  ASSUME StateInv, OwedInv, NEW rows, GraphOK(Owed, heap, rows, delta)
  PROVE  /\ DeltaRows \in Seq(Row) /\ Sound(Owed, heap, DeltaRows) /\ Apart(Owed, rows, DeltaRows)
         /\ \A t : InDelta(t, delta) => t \in TidsOf(DeltaRows)
<1> PICK V : V = Owed
  OBVIOUS
<1>1. CASE delta = {}
  <2>1. DeltaRows = <<>>
    BY <1>1 DEF DeltaRows
  <2>2. <<>> \in Seq(Row) /\ Sound(V, heap, <<>>) /\ Apart(V, rows, <<>>)
    BY EmptySeq DEF Sound, Faithful, Once, Apart
  <2> QED
    BY <1>1, <2>1, <2>2 DEF InDelta
<1>2. CASE delta # {}
  <2> PICK d \in delta : TRUE
    BY <1>2
  <2>1. delta = {d} /\ The(delta) = d /\ d.rows \in Seq(Row)
    BY OneOf DEF StateInv, DeltaOK, DeltaType
  <2>2. DeltaRows = d.rows
    BY <1>2, <2>1 DEF DeltaRows
  <2>3. Sound(V, heap, d.rows) /\ Apart(V, rows, d.rows)
    BY DEF OwedInv, Held, RowsOK, GraphOK
  <2> QED
    BY <2>1, <2>2, <2>3 DEF InDelta
<1> QED
  BY <1>1, <1>2

\* ... and so is a GPU copy of it.
LEMMA PrefixSound ==
  ASSUME NEW p \in Seq(Row), NEW q \in Seq(Row), Prefix(p, q), NEW V, NEW H, Sound(V, H, q),
         NEW rows, Apart(V, rows, q)
  PROVE  Sound(V, H, p) /\ Apart(V, rows, p)
<1>1. \A i \in DOMAIN p : i \in DOMAIN q /\ p[i] = q[i]
  BY DEF Prefix
<1> QED
  BY <1>1 DEF Sound, Faithful, Once, Apart

\* The graph of the entry is such a graph.
LEMMA LoadedGraph ==
  ASSUME StateInv, OwedInv, NEW e \in Loaded
  PROVE  GraphOK(Owed, heap, e.rows, delta) /\ e.rows \in Seq(Row)
<1>1. e \in EntryType /\ (e \in res \/ (res = {} /\ e.rows \in base))
  BY LoadedFacts
<1> PICK V : V = Owed
  OBVIOUS
<1>2. RowsOK(V, heap, base, delta, res)
  BY DEF OwedInv, Held
<1> QED
  BY <1>1, <1>2 DEF RowsOK, EntryType

\* Once the index is valid, whatever is owed is due.
LEMMA AllFound ==
  ASSUME StateInv, OwedInv, conc.pc = "done", ~stale, NEW e \in Loaded
  PROVE  \A t \in Owed : t \in TidsOf(e.rows) \/ InDelta(t, delta)
<1>1. conc.todo = {}
  BY DEF StateInv, ConcInv
<1>2. Reached(Due) /\ \A t \in Owed : t \in Due
  BY <1>1 DEF OwedInv, Due
<1> QED
  BY <1>2, GraphOf DEF Reached, Reach

\* Every answer of a graph, from a copy of .delta or from the file.
LEMMA GraphAnswersGood ==
  ASSUME StateInv, OwedInv, conc.pc = "done", NEW e \in Loaded, ~e.stale, NEW a \in GraphAnswers(e)
  PROVE  Good(a)
<1> PICK V : V = Owed
  OBVIOUS
<1>0. PICK c \in DeltaCopies(e) : a = Filtered(c.rows \o (IF c.dload THEN c.dc ELSE DeltaRows))
  BY DEF GraphAnswers
<1>1. e \in EntryType /\ e.stale = stale /\ (e \in res \/ (res = {} /\ e.rows \in base /\ ~e.dload /\ ~e.dkey))
  BY LoadedFacts
<1>2. /\ c \in EntryType /\ c.rows = e.rows
      /\ c.dload => /\ c.dkey
                    /\ \E d \in delta : c.dc = d.rows \/ (c = e /\ e.dkey)
  BY <1>1, DeltaCopiesFacts DEF StateInv
<1>3. GraphOK(V, heap, e.rows, delta) /\ e.rows \in Seq(Row)
  BY LoadedGraph
<1>4. \A t \in V : t \in TidsOf(e.rows) \/ InDelta(t, delta)
  BY <1>1, AllFound
<1>5. Sound(V, heap, e.rows)
  BY <1>3 DEF GraphOK
<1>6. CASE ~c.dload
  <2>1. a = Filtered(e.rows \o DeltaRows)
    BY <1>0, <1>2, <1>6
  <2>2. /\ DeltaRows \in Seq(Row) /\ Sound(V, heap, DeltaRows) /\ Apart(V, e.rows, DeltaRows)
        /\ \A t : InDelta(t, delta) => t \in TidsOf(DeltaRows)
    BY <1>3, DeltaRowsFacts
  <2>3. \A t \in V : t \in TidsOf(e.rows) \/ t \in TidsOf(DeltaRows)
    BY <1>4, <2>2
  <2> QED
    BY <1>3, <1>5, <2>1, <2>2, <2>3, MergeGood
<1>7. CASE c.dload
  <2>1. a = Filtered(e.rows \o c.dc) /\ c.dc \in Seq(Row)
    BY <1>0, <1>2, <1>7 DEF EntryType
  <2>2. PICK d \in delta : /\ Prefix(c.dc, d.rows)
                           /\ \A i \in DOMAIN d.rows : i > Len(c.dc) => d.rows[i].tid \notin V
    <3>1. CASE c = e /\ e.dkey
      <4>1. e \in res /\ e.dload
        BY <1>1, <1>7, <3>1
      <4>2. CopyOK(V, delta, res)
        BY DEF OwedInv, Held
      <4> QED
        BY <3>1, <4>1, <4>2 DEF CopyOK
    <3>2. ASSUME NEW d \in delta, c.dc = d.rows
          PROVE  Prefix(c.dc, d.rows) /\ \A i \in DOMAIN d.rows : ~(i > Len(c.dc))
      <4>1. d.rows \in Seq(Row)
        BY DEF StateInv, DeltaOK, DeltaType
      <4> QED
        BY <3>2, <4>1 DEF Prefix
    <3> QED
      BY <1>2, <1>7, <3>1, <3>2
  <2>3. d.rows \in Seq(Row) /\ Sound(V, heap, d.rows) /\ Apart(V, e.rows, d.rows) /\ delta = {d}
    BY <1>3, OneOf DEF StateInv, DeltaOK, DeltaType, OwedInv, Held, RowsOK, GraphOK
  <2>4. Sound(V, heap, c.dc) /\ Apart(V, e.rows, c.dc)
    BY <2>1, <2>2, <2>3, PrefixSound
  <2>5. ASSUME NEW t \in V, InDelta(t, delta) PROVE t \in TidsOf(c.dc)
    <3>1. PICK i \in DOMAIN d.rows : d.rows[i].tid = t
      BY <2>3, <2>5, TidsOfFact DEF InDelta
    <3>2. i \in Nat /\ i >= 1 /\ DOMAIN c.dc = 1 .. Len(c.dc) /\ Len(c.dc) \in Nat /\ ~(i > Len(c.dc))
      BY <2>1, <2>2, <2>3, <3>1
    <3>3. i \in DOMAIN c.dc
      BY <3>2
    <3>4. c.dc[i].tid = t
      BY <2>2, <3>1, <3>3 DEF Prefix
    <3> QED
      BY <3>3, <3>4, TidsOfFact
  <2>6. \A t \in V : t \in TidsOf(e.rows) \/ t \in TidsOf(c.dc)
    BY <1>4, <2>5
  <2> QED
    BY <1>3, <1>5, <2>1, <2>4, <2>6, MergeGood
<1> QED
  BY <1>6, <1>7

\* Every answer by brute force: the copy of .vectors belongs to the TIDs.
LEMMA FlatAnswersGood ==
  ASSUME StateInv, OwedInv, conc.pc = "done", kind = "flat", NEW e \in Loaded, ~e.stale, NEW a \in BruteForceAnswers(e)
  PROVE  Good(a)
<1> PICK V : V = Owed
  OBVIOUS
<1>0. PICK c \in BfCopies(e) : c.bload /\ a = BruteForceAnswer(c)
  BY DEF BruteForceAnswers
<1>1. /\ e \in EntryType /\ e.stale = stale /\ base # {}
      /\ e \in res \/ (res = {} /\ e.rows \in base /\ ~e.bload)
  BY LoadedFacts
<1>2. FlatOK(base, vecs, res) /\ BaseOK(base) /\ BaseOK(vecs) /\ vecs # {}
  BY <1>1 DEF StateInv, FlatOK
<1>3. /\ c \in EntryType /\ c.rows = e.rows
      /\ c.bf = The(vecs) \/ (e.bload /\ c.bf = e.bf)
  BY <1>0, <1>1, <1>2, BfCopiesFacts
<1>4. The(vecs) = e.rows
  <2>1. e.rows \in base
    BY <1>1, <1>2 DEF FlatOK
  <2> QED
    BY <1>2, <2>1, OneOf DEF FlatOK, BaseOK
<1>5. c.bf = e.rows
  BY <1>1, <1>2, <1>3, <1>4 DEF FlatOK
<1>6. GraphOK(V, heap, e.rows, delta) /\ e.rows \in Seq(Row)
  BY LoadedGraph
<1> PICK rows \in Seq(Row) : rows = e.rows
  BY <1>6
<1>7. [i \in 1 .. Len(rows) |-> [tid |-> rows[i].tid, ver |-> rows[i].ver]] = rows
  <2>1. DOMAIN rows = 1 .. Len(rows) /\ \A i \in 1 .. Len(rows) : rows[i] \in Row
    OBVIOUS
  <2>2. \A r \in Row : [tid |-> r.tid, ver |-> r.ver] = r
    BY DEF Row
  <2>3. \A i \in 1 .. Len(rows) : [tid |-> rows[i].tid, ver |-> rows[i].ver] = rows[i]
    BY <2>1, <2>2
  <2>4. rows = [i \in 1 .. Len(rows) |-> rows[i]]
    BY <2>1
  <2> QED
    BY <2>3, <2>4
<1>8. BruteForceAnswer(c) = Filtered(rows \o DeltaRows)
  <2>1. c.rows = rows /\ c.bf = rows
    BY <1>3, <1>5
  <2>2. (IF Len(c.bf) < Len(c.rows) THEN Len(c.bf) ELSE Len(c.rows)) = Len(rows)
    BY <2>1
  <2> QED
    BY <2>1, <2>2, <1>7 DEF BruteForceAnswer
<1>9. \A t \in V : t \in TidsOf(rows) \/ InDelta(t, delta)
  BY <1>1, AllFound
<1>10. /\ DeltaRows \in Seq(Row) /\ Sound(V, heap, DeltaRows) /\ Apart(V, rows, DeltaRows)
       /\ \A t : InDelta(t, delta) => t \in TidsOf(DeltaRows)
  BY <1>6, DeltaRowsFacts
<1>11. Sound(V, heap, rows) /\ \A t \in V : t \in TidsOf(rows) \/ t \in TidsOf(DeltaRows)
  BY <1>6, <1>9, <1>10 DEF GraphOK
<1> QED
  BY <1>0, <1>8, <1>10, <1>11, MergeGood

\* Every answer.
LEMMA AnswersGood ==
  ASSUME StateInv, OwedInv, NEW a \in Answers PROVE Good(a)
<1>1. CASE ~(up /\ conc.pc = "done")
  BY <1>1 DEF Answers
<1>2. CASE up /\ conc.pc = "done"
  <2>1. PICK e \in Loaded : ~e.stale /\ a \in (IF kind = "flat" THEN BruteForceAnswers(e) ELSE GraphAnswers(e))
    BY <1>2 DEF Answers
  <2> QED
    BY <1>2, <2>1, GraphAnswersGood, FlatAnswersGood
<1> QED
  BY <1>1, <1>2

\* The invariants imply the three properties.
LEMMA PropertiesFromInv ==
  StateInv /\ OwedInv => NoUnexplainedLoss /\ NoUnexplainedDuplicate /\ NoUnexplainedDistance
<1> SUFFICES ASSUME StateInv, OwedInv PROVE NoUnexplainedLoss /\ NoUnexplainedDuplicate /\ NoUnexplainedDistance
  OBVIOUS
<1>1. \A a \in Answers : Good(a)
  BY AnswersGood
<1> QED
  BY <1>1 DEF Good, Owed, NoUnexplainedLoss, NoUnexplainedDuplicate, NoUnexplainedDistance

\* A search that is served returns every committed row that none of the seven
\* causes has hit, wherever its vector is, for any table and any interleaving of
\* INSERT, DELETE, VACUUM, REINDEX, also given up or concurrent, COMPACT, eviction,
\* stop and crash ("the row is never lost", cuvs_aminsert).
THEOREM NoRowIsLost == SpecH => []NoUnexplainedLoss
  BY OwedInvHolds, PropertiesFromInv, PTL

\* It returns no such row twice, although neither handle_search nor
\* cuvs_merge_delta removes duplicates.
THEOREM NoRowIsDoubled == SpecH => []NoUnexplainedDuplicate
  BY OwedInvHolds, PropertiesFromInv, PTL

\* It returns no such row with the distance of another vector, for graph and flat
\* indexes alike: positions of tids[], the graph, .vectors and their copies agree.
THEOREM DistancesAreOwn == SpecH => []NoUnexplainedDistance
  BY OwedInvHolds, PropertiesFromInv, PTL
=============================================================================

------------------------ MODULE IndexRegistryProofs -------------------------
(***************************************************************************)
(* Proofs about IndexRegistry for any set of indexes, any g_max_indexes,   *)
(* any number of layouts and any choice of the events that may happen: who *)
(* owns what the entries of g_indexes point to.                            *)
(*                                                                         *)
(* Ownership is a matter of counting: for each pointer, the number of      *)
(* entries that hold it is compared with the number of times it is         *)
(* allocated.  The first part says how an append, a removal and an         *)
(* overwrite change the two numbers, the second that each action keeps the *)
(* inductive invariant, the third draws the conclusions.                   *)
(***************************************************************************)
EXTENDS IndexRegistry, FiniteSetTheorems, SequenceTheorems, WellFoundedInduction, TLAPS

\* The pointers that were allocated for field f.
PtrOf(f) == {p \in Ptr : p.f = f}

\* An entry of the array: a field holds pointers of its own kind ...
Entries ==
  [id : Indexes, gen : Gens, form : Forms, graph : SUBSET PtrOf("graph"), rev : SUBSET PtrOf("rev"),
   bf : SUBSET PtrOf("bf"), dl : SUBSET PtrOf("dl"), hn : SUBSET PtrOf("hn")]

\* ... and at most one.
One(S) == \A p, q \in S : p = q

Single(e) == One(e.graph) /\ One(e.rev) /\ One(e.bf) /\ One(e.dl) /\ One(e.hn)

\* The fields of a pointer that is neither leaked nor copied, whatever happens.
Exact == {"graph", "rev", "dl"} \cup (IF "reshard" \in Events THEN {} ELSE {"bf"})

\* The slots whose entry holds p.
Holds(R, p) == {k \in 1 .. R.n : p \in Held(R.slots[k])}

\* The array: g_n_indexes is within it, and it has at most g_max_indexes slots.
ArrayOK(R) ==
  /\ R = [slots |-> R.slots, n |-> R.n, live |-> R.live]
  /\ R.slots \in Seq(Entries) /\ R.n \in Nat /\ R.n <= Len(R.slots) /\ Len(R.slots) <= MaxIndexes
  /\ \A k \in 1 .. Len(R.slots) : Single(R.slots[k])

\* What is held is allocated, once for each entry that holds it; for some
\* fields nothing else is.
CountOK(R) ==
  /\ IsABag(R.live) /\ DOMAIN R.live \subseteq Ptr
  /\ \A p \in Ptr : p.f # "hn" => Cardinality(Holds(R, p)) <= Copies(p, R.live)
  /\ \A p \in Ptr : p.f \in Exact => Copies(p, R.live) <= Cardinality(Holds(R, p))

\* Without cuvs.cpu_hnsw_fallback no slot, not even one past the end, has an
\* hnsw_idx that the next entry could inherit.
HnswOK(R) ==
  "hnsw" \notin Events =>
    /\ \A k \in 1 .. Len(R.slots) : R.slots[k].hn = {}
    /\ \A p \in DOMAIN R.live : p.f # "hn"

\* An entry of index i, of layouts that have been made.
Good(e, b) ==
  /\ e.gen <= b[e.id]
  /\ \A p \in Held(e) : p.f # "hn" => p.id = e.id /\ p.gen <= b[e.id]

GoodAll(R, b) == \A k \in 1 .. R.n : Good(R.slots[k], b)

\* Without warmup jobs an index has one entry.
UniqueOK(R) ==
  "warmup" \notin Events => \A k, l \in 1 .. R.n : R.slots[k].id = R.slots[l].id => k = l

\* Without sharded builds the reverse map is that of the current TIDs.
MapOK(R) ==
  "reshard" \notin Events =>
    \A k \in 1 .. R.n : R.slots[k].form # "sharded" /\ \A p \in R.slots[k].rev : p.gen = R.slots[k].gen

\* Without warmup jobs and I/O failures, an entry that evict_lru does not save
\* is on disk.
SavedOK(R, D) ==
  {"warmup", "io"} \cap Events = {} =>
    \A k \in 1 .. R.n :
      R.slots[k].form # "cagra" =>
        D[R.slots[k].id].gen = R.slots[k].gen /\ D[R.slots[k].id].form = R.slots[k].form

\* What is on disk is a layout that was made.
DiskOK(D, b) ==
  /\ D \in [Indexes -> [gen : 0 .. MaxGen, form : Forms, vgen : 0 .. MaxGen]]
  /\ \A i \in Indexes : D[i].gen <= b[i]
  /\ "reshard" \notin Events => \A i \in Indexes : D[i].form # "sharded"

\* The array, whatever is on disk.
RegOK(R, b) == ArrayOK(R) /\ CountOK(R) /\ HnswOK(R) /\ GoodAll(R, b) /\ UniqueOK(R) /\ MapOK(R)

\* The inductive invariant.
IInv ==
  /\ built \in [Indexes -> 0 .. MaxGen]
  /\ RegOK(reg, built) /\ SavedOK(reg, disk) /\ DiskOK(disk, built)
  /\ hfile \in [Indexes -> 0 .. MaxGen]
  /\ job \in [Indexes -> {"none", "cold", "fetched"}]
  /\ \A i \in Indexes : job[i] # "none" => built[i] >= 1 /\ "warmup" \in Events /\ AmOf[i] = "cagra"

\* A set of naturals that is not empty has a least element.
LEMMA LeastNat ==
  ASSUME NEW T \in SUBSET Nat, T # {}
  PROVE  \E x \in T : \A y \in T : x <= y
<1> DEFINE R == OpToRel(<, Nat)
<1>1. IsWellFoundedOn(R, Nat)
  BY NatLessThanWellFounded
<1>2. \A y, x \in Nat : <<y, x>> \in R <=> y < x
  BY DEF OpToRel
<1> HIDE DEF R
<1>3. PICK x \in T : \A y \in T : ~(<<y, x>> \in R)
  BY <1>1, WFMin
<1>4. ASSUME NEW y \in T PROVE x <= y
  <2>1. x \in Nat /\ y \in Nat /\ ~(y < x)
    BY <1>2, <1>3
  <2> QED
    BY <2>1
<1> QED
  BY <1>4

\* 1 if p is in S.
Nr(p, S) == IF p \in S THEN 1 ELSE 0

\* The number of copies of an element of a bag.
LEMMA CopiesNat ==
  ASSUME NEW B, IsABag(B)
  PROVE  \A p : Copies(p, B) \in Nat /\ (Copies(p, B) > 0 <=> p \in DOMAIN B)
BY DEF IsABag, Copies, BagIn, BagToSet

\* What an entry holds besides hnsw_idx.
Gpu(e) == Held(e) \ e.hn

\* What an allocation and a free do to the bag of what is allocated.
Plus(B, S) == B (+) SetToBag(S)
Minus(B, S) == B (-) SetToBag(S)

\* One more copy of each element of S.
LEMMA BagMore ==
  ASSUME NEW B, IsABag(B), NEW S
  PROVE  /\ IsABag(Plus(B, S)) /\ DOMAIN (Plus(B, S)) = DOMAIN B \cup S
         /\ \A p : Copies(p, Plus(B, S)) = Copies(p, B) + Nr(p, S)
BY DEF Plus, IsABag, (+), Copies, BagIn, BagToSet, SetToBag, Nr

\* One copy less, if there is one.
LEMMA BagLess ==
  ASSUME NEW B, IsABag(B), NEW S
  PROVE  /\ IsABag(Minus(B, S)) /\ DOMAIN (Minus(B, S)) \subseteq DOMAIN B
         /\ \A p : Copies(p, Minus(B, S)) =
                     IF p \in S /\ Copies(p, B) > 0 THEN Copies(p, B) - 1 ELSE Copies(p, B)
BY DEF Minus, IsABag, (-), Copies, BagIn, BagToSet, SetToBag

\* Which field holds a pointer is known from the pointer.
LEMMA HeldBy ==
  ASSUME NEW e \in Entries
  PROVE  /\ Held(e) \subseteq Ptr
         /\ \A p \in Held(e) : /\ (p.f = "graph" <=> p \in e.graph) /\ (p.f = "rev" <=> p \in e.rev)
                               /\ (p.f = "bf" <=> p \in e.bf) /\ (p.f = "dl" <=> p \in e.dl) /\ (p.f = "hn" <=> p \in e.hn)
BY DEF Entries, Held, PtrOf, Ptr, Fields

\* Finitely many slots hold a pointer.
LEMMA HoldsCard ==
  ASSUME NEW R, R.n \in Nat, NEW p
  PROVE  IsFiniteSet(Holds(R, p)) /\ Cardinality(Holds(R, p)) \in Nat /\ Holds(R, p) \subseteq 1 .. R.n
<1>1. IsFiniteSet(1 .. R.n) /\ Holds(R, p) \in SUBSET (1 .. R.n)
  BY FS_Interval DEF Holds
<1> QED
  BY <1>1, FS_Subset, FS_CardinalityType

\* Appending an entry.
LEMMA PushShape ==
  ASSUME NEW R, ArrayOK(R), NEW e \in Entries, Single(e), R.n < MaxIndexes, NEW Q, Q = Push(R, e)
  PROVE  /\ Q.n = R.n + 1 /\ Q.live = Plus(R.live, Gpu(e))
         /\ Q = [slots |-> Q.slots, n |-> Q.n, live |-> Q.live]
         /\ Q.slots \in Seq(Entries) /\ Q.n <= Len(Q.slots) /\ Len(Q.slots) <= MaxIndexes
         /\ Q.slots[R.n + 1] = e /\ \A l \in 1 .. R.n : Q.slots[l] = R.slots[l]
         /\ \A l \in 1 .. Len(Q.slots) : Q.slots[l] = e \/ (l \in 1 .. Len(R.slots) /\ Q.slots[l] = R.slots[l])
<1>0. R.slots \in Seq(Entries) /\ R.n \in Nat /\ R.n <= Len(R.slots) /\ Len(R.slots) <= MaxIndexes /\ MaxIndexes \in Nat
      /\ Len(R.slots) \in Nat
  BY BoundAssumption DEF ArrayOK
<1>1. CASE R.n < Len(R.slots)
  <2>1. PICK s : s = [R.slots EXCEPT ![R.n + 1] = e]
    OBVIOUS
  <2>2. s \in Seq(Entries) /\ Len(s) = Len(R.slots) /\ s[R.n + 1] = e
        /\ \A l \in 1 .. Len(R.slots) : l # R.n + 1 => s[l] = R.slots[l]
    BY <1>0, <1>1, <2>1
  <2>3. Q = [slots |-> s, n |-> R.n + 1, live |-> Plus(R.live, Gpu(e))]
    BY <1>1, <2>1 DEF Push, Plus, Gpu
  <2> QED
    BY <1>0, <1>1, <2>2, <2>3
<1>2. CASE ~(R.n < Len(R.slots))
  <2>1. PICK s : s = Append(R.slots, e)
    OBVIOUS
  <2>2. s \in Seq(Entries) /\ Len(s) = Len(R.slots) + 1 /\ s[Len(R.slots) + 1] = e
        /\ \A l \in 1 .. Len(R.slots) : s[l] = R.slots[l]
    BY <1>0, <2>1, AppendProperties
  <2>3. Q = [slots |-> s, n |-> R.n + 1, live |-> Plus(R.live, Gpu(e))]
    BY <1>2, <2>1 DEF Push, Plus, Gpu
  <2>4. Len(R.slots) = R.n
    BY <1>0, <1>2
  <2> QED
    BY <1>0, <1>2, <2>2, <2>3, <2>4
<1> QED
  BY <1>1, <1>2

\* Who holds a pointer then.
LEMMA PushHolds ==
  ASSUME NEW R, R.n \in Nat, NEW Q, NEW e, Q.n = R.n + 1, Q.slots[R.n + 1] = e,
         \A l \in 1 .. R.n : Q.slots[l] = R.slots[l], NEW p
  PROVE  Cardinality(Holds(Q, p)) = Cardinality(Holds(R, p)) + Nr(p, Held(e))
<1>1. IsFiniteSet(Holds(R, p)) /\ Cardinality(Holds(R, p)) \in Nat /\ Holds(R, p) \subseteq 1 .. R.n
  BY HoldsCard
<1>2. CASE p \in Held(e)
  <2>1. Holds(Q, p) = Holds(R, p) \cup {R.n + 1} /\ R.n + 1 \notin Holds(R, p)
    BY <1>2 DEF Holds
  <2> QED
    BY <1>1, <1>2, <2>1, FS_AddElement DEF Nr
<1>3. CASE p \notin Held(e)
  <2>1. Holds(Q, p) = Holds(R, p)
    BY <1>3 DEF Holds
  <2> QED
    BY <1>1, <1>3, <2>1 DEF Nr
<1> QED
  BY <1>2, <1>3

\* Removing entry k.
LEMMA RemoveShape ==
  ASSUME NEW R, ArrayOK(R), NEW k \in 1 .. R.n, NEW c \in Entries, Single(c), NEW S, NEW Q, Q = Remove(R, k, c, S)
  PROVE  /\ Q.n = R.n - 1 /\ Q.live = Minus(R.live, S)
         /\ Q = [slots |-> Q.slots, n |-> Q.n, live |-> Q.live]
         /\ Q.slots \in Seq(Entries) /\ Len(Q.slots) = Len(R.slots)
         /\ \A l \in 1 .. Q.n : Q.slots[l] = R.slots[IF l < k THEN l ELSE l + 1]
         /\ \A l \in 1 .. Len(Q.slots) : Q.slots[l] = c \/ \E m \in 1 .. Len(R.slots) : Q.slots[l] = R.slots[m]
<1>0. R.slots \in Seq(Entries) /\ R.n \in Nat /\ R.n <= Len(R.slots) /\ Len(R.slots) \in Nat
      /\ DOMAIN R.slots = 1 .. Len(R.slots) /\ k \in Nat
  BY DEF ArrayOK
<1>1. PICK s : s = [m \in 1 .. Len(R.slots) |->
                IF m >= k /\ m < R.n THEN R.slots[m + 1]
                ELSE IF m = k THEN c ELSE R.slots[m]]
  OBVIOUS
<1>2. Q = [slots |-> s, n |-> R.n - 1, live |-> Minus(R.live, S)]
  BY <1>0, <1>1 DEF Remove, Minus
<1>3. \A m \in 1 .. Len(R.slots) : s[m] \in Entries /\ (s[m] = c \/ \E l \in 1 .. Len(R.slots) : s[m] = R.slots[l])
  <2>1. ASSUME NEW m \in 1 .. Len(R.slots)
        PROVE  s[m] = c \/ \E l \in 1 .. Len(R.slots) : s[m] = R.slots[l]
    <3>1. m >= k /\ m < R.n => m + 1 \in 1 .. Len(R.slots)
      BY <1>0
    <3> QED
      BY <1>1, <3>1
  <2>2. \A l \in 1 .. Len(R.slots) : R.slots[l] \in Entries
    BY <1>0
  <2> QED
    BY <2>1, <2>2
<1>4. s \in [1 .. Len(R.slots) -> Entries] /\ s \in Seq(Entries) /\ Len(s) = Len(R.slots)
  <2>1. s \in [1 .. Len(R.slots) -> Entries]
    BY <1>1, <1>3
  <2> QED
    BY <1>0, <2>1
<1>5. \A l \in 1 .. R.n - 1 : s[l] = R.slots[IF l < k THEN l ELSE l + 1]
  BY <1>0, <1>1
<1> QED
  BY <1>2, <1>3, <1>4, <1>5

\* Who holds a pointer then: the slots that are moved are renumbered.
LEMMA RemoveHolds ==
  ASSUME NEW R, R.n \in Nat, NEW k \in 1 .. R.n, NEW Q, Q.n = R.n - 1,
         \A l \in 1 .. Q.n : Q.slots[l] = R.slots[IF l < k THEN l ELSE l + 1], NEW p
  PROVE  Cardinality(Holds(Q, p)) = Cardinality(Holds(R, p)) - Nr(p, Held(R.slots[k]))
<1>1. IsFiniteSet(Holds(R, p)) /\ Cardinality(Holds(R, p)) \in Nat /\ Holds(R, p) \subseteq 1 .. R.n
  BY HoldsCard
<1> DEFINE T == Holds(R, p) \ {k}
           f == [l \in T |-> IF l < k THEN l ELSE l - 1]
<1>2. f \in [T -> Holds(Q, p)]
  <2>1. ASSUME NEW l \in T PROVE f[l] \in Holds(Q, p)
    <3>1. l \in 1 .. R.n /\ l # k /\ p \in Held(R.slots[l])
      BY DEF Holds
    <3>2. f[l] \in 1 .. Q.n /\ (IF f[l] < k THEN f[l] ELSE f[l] + 1) = l
      BY <3>1
    <3> QED
      BY <3>1, <3>2 DEF Holds
  <2> QED
    BY <2>1
<1>3. \A l, m \in T : f[l] = f[m] => l = m
  <2>1. \A l \in T : l \in Nat /\ l # k
    BY DEF Holds
  <2> QED
    BY <2>1
<1>4. ASSUME NEW m \in Holds(Q, p) PROVE \E l \in T : f[l] = m
  <2>1. PICK l : l = IF m < k THEN m ELSE m + 1
    OBVIOUS
  <2>2. m \in 1 .. Q.n /\ p \in Held(R.slots[l]) /\ l \in 1 .. R.n /\ l # k
    BY <2>1 DEF Holds
  <2>3. l \in T
    BY <2>2 DEF Holds
  <2>4. f[l] = m
    BY <2>1, <2>2, <2>3
  <2> QED
    BY <2>3, <2>4
<1>5. ExistsBijection(T, Holds(Q, p))
  <2> HIDE DEF T, f
  <2>1. f \in Bijection(T, Holds(Q, p))
    BY <1>2, <1>3, <1>4 DEF Bijection, Injection, Surjection, IsInjective
  <2> QED
    BY <2>1 DEF ExistsBijection
<1>6. IsFiniteSet(T) /\ Cardinality(T) = IF k \in Holds(R, p) THEN Cardinality(Holds(R, p)) - 1 ELSE Cardinality(Holds(R, p))
  BY <1>1, FS_RemoveElement
<1> HIDE DEF T, f
<1>7. Cardinality(Holds(Q, p)) = Cardinality(T)
  BY <1>5, <1>6, FS_Bijection
<1>8. k \in Holds(R, p) <=> p \in Held(R.slots[k])
  BY DEF Holds
<1> QED
  BY <1>1, <1>6, <1>7, <1>8 DEF Nr

\* Overwriting entry k.
LEMMA ReplaceHolds ==
  ASSUME NEW R, R.n \in Nat, NEW k \in 1 .. R.n, NEW Q, NEW c, Q.n = R.n, Q.slots[k] = c,
         \A l \in 1 .. R.n : l # k => Q.slots[l] = R.slots[l], NEW p
  PROVE  Cardinality(Holds(Q, p)) = Cardinality(Holds(R, p)) - Nr(p, Held(R.slots[k])) + Nr(p, Held(c))
<1>1. IsFiniteSet(Holds(R, p)) /\ Cardinality(Holds(R, p)) \in Nat
  BY HoldsCard
<1>2. IsFiniteSet(Holds(R, p) \ {k})
      /\ Cardinality(Holds(R, p) \ {k}) = IF k \in Holds(R, p) THEN Cardinality(Holds(R, p)) - 1 ELSE Cardinality(Holds(R, p))
  BY <1>1, FS_RemoveElement
<1>3. k \in Holds(R, p) <=> p \in Held(R.slots[k])
  BY DEF Holds
<1>4. CASE p \in Held(c)
  <2>1. Holds(Q, p) = (Holds(R, p) \ {k}) \cup {k}
    BY <1>4 DEF Holds
  <2>2. Cardinality(Holds(Q, p)) = Cardinality(Holds(R, p) \ {k}) + 1
    BY <1>2, <2>1, FS_AddElement
  <2> QED
    BY <1>1, <1>2, <1>3, <1>4, <2>2 DEF Nr
<1>5. CASE p \notin Held(c)
  <2>1. Holds(Q, p) = Holds(R, p) \ {k}
    BY <1>5 DEF Holds
  <2> QED
    BY <1>1, <1>2, <1>3, <1>5, <2>1 DEF Nr
<1> QED
  BY <1>4, <1>5

\* The two numbers that CountOK compares.
LEMMA CountsNat ==
  ASSUME NEW R, R.n \in Nat, IsABag(R.live), NEW p
  PROVE  Cardinality(Holds(R, p)) \in Nat /\ Copies(p, R.live) \in Nat
BY HoldsCard, CopiesNat

\* Appending an entry of fresh pointers.
LEMMA PushOK ==
  ASSUME NEW R, NEW b, RegOK(R, b), R.n < MaxIndexes, NEW e \in Entries, Single(e), Good(e, b),
         "hnsw" \notin Events => e.hn = {},
         "warmup" \notin Events => \A l \in 1 .. R.n : R.slots[l].id # e.id,
         "reshard" \notin Events => e.form # "sharded" /\ \A p \in e.rev : p.gen = e.gen
  PROVE  RegOK(Push(R, e), b)
<1>1. PICK Q : Q = Push(R, e)
  OBVIOUS
<1>2. ArrayOK(R) /\ R.n \in Nat /\ IsABag(R.live) /\ DOMAIN R.live \subseteq Ptr
  BY DEF RegOK, ArrayOK, CountOK
<1>3. /\ Q.n = R.n + 1 /\ Q.live = Plus(R.live, Gpu(e))
      /\ Q = [slots |-> Q.slots, n |-> Q.n, live |-> Q.live]
      /\ Q.slots \in Seq(Entries) /\ Q.n <= Len(Q.slots) /\ Len(Q.slots) <= MaxIndexes
      /\ Q.slots[R.n + 1] = e /\ \A l \in 1 .. R.n : Q.slots[l] = R.slots[l]
      /\ \A l \in 1 .. Len(Q.slots) : Q.slots[l] = e \/ (l \in 1 .. Len(R.slots) /\ Q.slots[l] = R.slots[l])
  BY <1>1, <1>2, PushShape
<1>4. /\ IsABag(Q.live) /\ DOMAIN Q.live = DOMAIN R.live \cup Gpu(e)
      /\ \A p : Copies(p, Q.live) = Copies(p, R.live) + Nr(p, Gpu(e))
  <2>1. Q.live = Plus(R.live, Gpu(e)) /\ IsABag(R.live)
    BY <1>2, <1>3
  <2> QED
    BY <2>1, BagMore
<1>5. Held(e) \subseteq Ptr /\ Gpu(e) = {p \in Held(e) : p.f # "hn"}
  BY HeldBy DEF Gpu
<1>6. ArrayOK(Q)
  <2>1. \A k \in 1 .. Len(Q.slots) : Single(Q.slots[k])
    BY <1>2, <1>3 DEF ArrayOK
  <2> QED
    BY <1>2, <1>3, <2>1 DEF ArrayOK
<1>7. CountOK(Q)
  <2>1. \A p \in Ptr : p.f # "hn" => Cardinality(Holds(Q, p)) - Cardinality(Holds(R, p)) = Copies(p, Q.live) - Copies(p, R.live)
    <3> SUFFICES ASSUME NEW p \in Ptr, p.f # "hn"
                 PROVE  Cardinality(Holds(Q, p)) - Cardinality(Holds(R, p)) = Copies(p, Q.live) - Copies(p, R.live)
      OBVIOUS
    <3>1. Cardinality(Holds(Q, p)) = Cardinality(Holds(R, p)) + Nr(p, Held(e))
      BY <1>2, <1>3, PushHolds
    <3>2. Copies(p, Q.live) = Copies(p, R.live) + Nr(p, Gpu(e))
      BY <1>4
    <3>3. (p \in Held(e)) <=> (p \in Gpu(e))
      BY <1>5
    <3>4. Cardinality(Holds(R, p)) \in Nat /\ Copies(p, R.live) \in Nat
      BY <1>2, CountsNat
    <3> QED
      BY <3>1, <3>2, <3>3, <3>4 DEF Nr
  <2>2. \A p \in Ptr : /\ Cardinality(Holds(R, p)) \in Nat /\ Copies(p, R.live) \in Nat
                       /\ Cardinality(Holds(Q, p)) \in Nat /\ Copies(p, Q.live) \in Nat
    <3>1. R.n \in Nat /\ Q.n \in Nat /\ IsABag(R.live) /\ IsABag(Q.live)
      BY <1>2, <1>3, <1>4
    <3> QED
      BY <3>1, CountsNat
  <2>3. ASSUME NEW p \in Ptr, p.f # "hn"
        PROVE  /\ Cardinality(Holds(Q, p)) <= Copies(p, Q.live)
               /\ p.f \in Exact => Copies(p, Q.live) <= Cardinality(Holds(Q, p))
    <3>1. Cardinality(Holds(R, p)) <= Copies(p, R.live) /\ (p.f \in Exact => Copies(p, R.live) <= Cardinality(Holds(R, p)))
      BY <2>3 DEF RegOK, CountOK
    <3> QED
      BY <2>1, <2>2, <2>3, <3>1
  <2>4. \A p : p.f \in Exact => p.f # "hn"
    BY DEF Exact
  <2> QED
    BY <1>2, <1>4, <1>5, <2>3, <2>4 DEF CountOK
<1>8. HnswOK(Q)
  BY <1>3, <1>4, <1>5 DEF HnswOK, RegOK
<1>9. \A k \in 1 .. Q.n : (k = R.n + 1 /\ Q.slots[k] = e) \/ (k \in 1 .. R.n /\ Q.slots[k] = R.slots[k])
  BY <1>2, <1>3
<1>10. GoodAll(Q, b)
  BY <1>9 DEF GoodAll, RegOK
<1>11. UniqueOK(Q)
  BY <1>9 DEF UniqueOK, RegOK
<1>12. MapOK(Q)
  BY <1>9 DEF MapOK, RegOK
<1> QED
  BY <1>1, <1>6, <1>7, <1>8, <1>10, <1>11, <1>12 DEF RegOK

\* Removing an entry; what it holds besides hnsw_idx is freed.
LEMMA RemoveOK ==
  ASSUME NEW R, NEW b, RegOK(R, b), NEW k \in 1 .. R.n, NEW c \in Entries, Single(c),
         "hnsw" \notin Events => c.hn = {},
         NEW S, S \subseteq Held(R.slots[k]), Held(R.slots[k]) \ R.slots[k].hn \subseteq S
  PROVE  RegOK(Remove(R, k, c, S), b)
<1>1. PICK Q : Q = Remove(R, k, c, S)
  OBVIOUS
<1>2. ArrayOK(R) /\ R.n \in Nat /\ R.n <= Len(R.slots) /\ Len(R.slots) \in Nat /\ Len(R.slots) <= MaxIndexes
      /\ IsABag(R.live) /\ DOMAIN R.live \subseteq Ptr /\ R.slots[k] \in Entries
  BY DEF RegOK, ArrayOK, CountOK
<1>3. /\ Q.n = R.n - 1 /\ Q.live = Minus(R.live, S)
      /\ Q = [slots |-> Q.slots, n |-> Q.n, live |-> Q.live]
      /\ Q.slots \in Seq(Entries) /\ Len(Q.slots) = Len(R.slots)
      /\ \A l \in 1 .. Q.n : Q.slots[l] = R.slots[IF l < k THEN l ELSE l + 1]
      /\ \A l \in 1 .. Len(Q.slots) : Q.slots[l] = c \/ \E m \in 1 .. Len(R.slots) : Q.slots[l] = R.slots[m]
  BY <1>1, <1>2, RemoveShape
<1>4. /\ IsABag(Q.live) /\ DOMAIN Q.live \subseteq DOMAIN R.live
      /\ \A p : Copies(p, Q.live) = IF p \in S /\ Copies(p, R.live) > 0 THEN Copies(p, R.live) - 1 ELSE Copies(p, R.live)
  BY <1>2, <1>3, BagLess
<1>5. \A p \in Held(R.slots[k]) : (p.f = "hn" <=> p \in R.slots[k].hn)
  BY <1>2, HeldBy
<1>6. ArrayOK(Q) /\ Q.n \in Nat
  <2>1. \A l \in 1 .. Len(Q.slots) : Single(Q.slots[l])
    BY <1>2, <1>3 DEF ArrayOK
  <2>2. Q.n \in Nat /\ Q.n <= Len(Q.slots)
    BY <1>2, <1>3
  <2> QED
    BY <1>2, <1>3, <2>1, <2>2 DEF ArrayOK
<1>7. CountOK(Q)
  <2>1. ASSUME NEW p \in Ptr, p.f # "hn"
        PROVE  /\ Cardinality(Holds(Q, p)) <= Copies(p, Q.live)
               /\ p.f \in Exact => Copies(p, Q.live) <= Cardinality(Holds(Q, p))
    <3>1. Cardinality(Holds(R, p)) <= Copies(p, R.live) /\ (p.f \in Exact => Copies(p, R.live) <= Cardinality(Holds(R, p)))
      BY <2>1 DEF RegOK, CountOK
    <3>2. Cardinality(Holds(Q, p)) = Cardinality(Holds(R, p)) - Nr(p, Held(R.slots[k]))
      BY <1>2, <1>3, RemoveHolds
    <3>3. Copies(p, Q.live) = IF p \in S /\ Copies(p, R.live) > 0 THEN Copies(p, R.live) - 1 ELSE Copies(p, R.live)
      BY <1>4
    <3>4. (p \in Held(R.slots[k])) <=> (p \in S)
      BY <1>5, <2>1
    <3>5. Cardinality(Holds(R, p)) \in Nat /\ Copies(p, R.live) \in Nat /\ Cardinality(Holds(Q, p)) \in Nat
      BY <1>2, <1>4, <1>6, CountsNat
    <3>6. CASE p \in S
      BY <3>1, <3>2, <3>3, <3>4, <3>5, <3>6 DEF Nr
    <3>7. CASE p \notin S
      BY <3>1, <3>2, <3>3, <3>4, <3>5, <3>7 DEF Nr
    <3> QED
      BY <3>6, <3>7
  <2>4. \A p : p.f \in Exact => p.f # "hn"
    BY DEF Exact
  <2> QED
    BY <1>2, <1>4, <2>1, <2>4 DEF CountOK
<1>8. HnswOK(Q)
  BY <1>3, <1>4 DEF HnswOK, RegOK
<1>9. \A l \in 1 .. Q.n : (IF l < k THEN l ELSE l + 1) \in 1 .. R.n
  BY <1>2, <1>3
<1>10. GoodAll(Q, b)
  BY <1>3, <1>9 DEF GoodAll, RegOK
<1>11. UniqueOK(Q)
  <2>1. ASSUME "warmup" \notin Events, NEW l \in 1 .. Q.n, NEW m \in 1 .. Q.n, Q.slots[l].id = Q.slots[m].id
        PROVE  l = m
    <3>1. PICK x, y : x = (IF l < k THEN l ELSE l + 1) /\ y = (IF m < k THEN m ELSE m + 1)
      OBVIOUS
    <3>2. x \in 1 .. R.n /\ y \in 1 .. R.n /\ Q.slots[l] = R.slots[x] /\ Q.slots[m] = R.slots[y]
      BY <1>3, <1>9, <3>1
    <3>3. x = y
      BY <2>1, <3>2 DEF UniqueOK, RegOK
    <3> QED
      BY <1>2, <1>6, <3>1, <3>3
  <2> QED
    BY <2>1 DEF UniqueOK
<1>12. MapOK(Q)
  BY <1>3, <1>9 DEF MapOK, RegOK
<1> QED
  BY <1>1, <1>6, <1>7, <1>8, <1>10, <1>11, <1>12 DEF RegOK

\* Overwriting an entry: S is freed, T is allocated.  What the new entry holds
\* is kept or allocated, and what the old one alone held is freed.
LEMMA ReplaceOK ==
  ASSUME NEW R, NEW b, RegOK(R, b), NEW k \in 1 .. R.n, NEW c \in Entries, Single(c), Good(c, b), c.id = R.slots[k].id,
         NEW S, NEW T, T \subseteq Ptr,
         "hnsw" \notin Events => c.hn = {} /\ \A p \in T : p.f # "hn",
         "reshard" \notin Events => c.form # "sharded" /\ \A p \in c.rev : p.gen = c.gen,
         S \subseteq Held(R.slots[k]),
         \A p \in Ptr : p.f # "hn" /\ p \in Held(c) /\ (p \in S \/ p \notin Held(R.slots[k])) => p \in T,
         \A p \in Ptr : p.f \in Exact /\ p \in T => p \in Held(c) /\ (p \in S \/ p \notin Held(R.slots[k])),
         \A p \in Ptr : p.f \in Exact /\ p \in Held(R.slots[k]) /\ p \notin Held(c) => p \in S,
         NEW Q, Q = [slots |-> [R.slots EXCEPT ![k] = c], n |-> R.n,
                     live |-> Plus(Minus(R.live, S), T)]
  PROVE  RegOK(Q, b)
<1>2. ArrayOK(R) /\ R.n \in Nat /\ R.n <= Len(R.slots) /\ Len(R.slots) \in Nat /\ Len(R.slots) <= MaxIndexes
      /\ IsABag(R.live) /\ DOMAIN R.live \subseteq Ptr /\ R.slots[k] \in Entries /\ R.slots \in Seq(Entries) /\ k \in 1 .. Len(R.slots)
  BY DEF RegOK, ArrayOK, CountOK
<1>3. /\ Q.n = R.n /\ Q.live = Plus(Minus(R.live, S), T)
      /\ Q = [slots |-> Q.slots, n |-> Q.n, live |-> Q.live]
      /\ Q.slots \in Seq(Entries) /\ Len(Q.slots) = Len(R.slots) /\ Q.slots[k] = c
      /\ \A l \in 1 .. Len(R.slots) : l # k => Q.slots[l] = R.slots[l]
  <2>1. PICK s : s = [R.slots EXCEPT ![k] = c]
    OBVIOUS
  <2>2. s \in Seq(Entries) /\ Len(s) = Len(R.slots) /\ s[k] = c /\ \A l \in 1 .. Len(R.slots) : l # k => s[l] = R.slots[l]
    BY <1>2, <2>1
  <2>3. PICK v : v = Plus(Minus(R.live, S), T)
    OBVIOUS
  <2>4. Q = [slots |-> s, n |-> R.n, live |-> v]
    BY <2>1, <2>3, Zenon
  <2>5. Q.n = R.n /\ Q.live = v /\ Q = [slots |-> Q.slots, n |-> Q.n, live |-> Q.live] /\ Q.slots = s
    BY <2>4
  <2> QED
    BY <2>2, <2>3, <2>5, Zenon
<1>4. PICK B : B = Minus(R.live, S)
  OBVIOUS
<1>5. /\ IsABag(B) /\ DOMAIN B \subseteq DOMAIN R.live
      /\ \A p : Copies(p, B) = IF p \in S /\ Copies(p, R.live) > 0 THEN Copies(p, R.live) - 1 ELSE Copies(p, R.live)
  BY <1>2, <1>4, BagLess
<1>6. /\ IsABag(Q.live) /\ DOMAIN Q.live = DOMAIN B \cup T
      /\ \A p : Copies(p, Q.live) = Copies(p, B) + Nr(p, T)
  <2>1. Q.live = Plus(B, T)
    BY <1>3, <1>4
  <2> PICK M : M = Plus(B, T)
    OBVIOUS
  <2>2. IsABag(M) /\ DOMAIN M = DOMAIN B \cup T /\ \A p : Copies(p, M) = Copies(p, B) + Nr(p, T)
    BY <1>5, BagMore, Zenon
  <2> QED
    BY <2>1, <2>2, Zenon
<1>7. ArrayOK(Q)
  <2>1. \A l \in 1 .. Len(Q.slots) : Single(Q.slots[l])
    BY <1>2, <1>3 DEF ArrayOK
  <2> QED
    BY <1>2, <1>3, <2>1 DEF ArrayOK
<1>8. CountOK(Q)
  <2>1. ASSUME NEW p \in Ptr, p.f # "hn"
        PROVE  /\ Cardinality(Holds(Q, p)) <= Copies(p, Q.live)
               /\ p.f \in Exact => Copies(p, Q.live) <= Cardinality(Holds(Q, p))
    <3>1. Cardinality(Holds(R, p)) <= Copies(p, R.live) /\ (p.f \in Exact => Copies(p, R.live) <= Cardinality(Holds(R, p)))
      BY <2>1 DEF RegOK, CountOK
    <3>2. Cardinality(Holds(Q, p)) = Cardinality(Holds(R, p)) - Nr(p, Held(R.slots[k])) + Nr(p, Held(c))
      <4>1. \A l \in 1 .. R.n : l # k => Q.slots[l] = R.slots[l]
        BY <1>2, <1>3
      <4> QED
        BY <1>2, <1>3, <4>1, ReplaceHolds, SMTT(30)
    <3>3. Copies(p, B) = IF p \in S /\ Copies(p, R.live) > 0 THEN Copies(p, R.live) - 1 ELSE Copies(p, R.live)
      BY <1>5
    <3>4. Copies(p, Q.live) = Copies(p, B) + Nr(p, T)
      BY <1>6
    <3>5. Cardinality(Holds(R, p)) \in Nat /\ Copies(p, R.live) \in Nat
      BY <1>2, CountsNat
    <3>6. p \in Held(R.slots[k]) => Cardinality(Holds(R, p)) >= 1
      <4>1. ASSUME p \in Held(R.slots[k]) PROVE Holds(R, p) # {}
        BY <4>1 DEF Holds
      <4>2. IsFiniteSet(Holds(R, p))
        BY <1>2, HoldsCard
      <4> QED
        BY <3>5, <4>1, <4>2, FS_EmptySet
    <3>7. PICK s, t, o, w : s = Nr(p, S) /\ t = Nr(p, T) /\ o = Nr(p, Held(R.slots[k])) /\ w = Nr(p, Held(c))
      OBVIOUS
    <3>8. s \in {0, 1} /\ t \in {0, 1} /\ o \in {0, 1} /\ w \in {0, 1}
      BY <3>7 DEF Nr
    <3>9. s <= o /\ s + w <= o + t
      BY <2>1, <3>7 DEF Nr
    <3>10. p.f \in Exact => t + o <= s + w
      BY <2>1, <3>7 DEF Nr
    <3>11. Copies(p, Q.live) = Copies(p, R.live) - s + t
      <4>1. s = 1 => Copies(p, R.live) > 0
        BY <3>1, <3>5, <3>6, <3>7 DEF Nr
      <4>2. Copies(p, B) = Copies(p, R.live) - s
        BY <3>3, <3>5, <3>7, <4>1 DEF Nr
      <4> QED
        BY <3>4, <3>5, <3>7, <3>8, <4>2
    <3>12. Cardinality(Holds(Q, p)) = Cardinality(Holds(R, p)) - o + w
      BY <3>2, <3>7
    <3> QED
      BY <3>1, <3>5, <3>8, <3>9, <3>10, <3>11, <3>12
  <2>2. \A p : p.f \in Exact => p.f # "hn"
    BY DEF Exact
  <2> QED
    BY <1>2, <1>5, <1>6, <2>1, <2>2 DEF CountOK
<1>9. HnswOK(Q)
  BY <1>3, <1>5, <1>6 DEF HnswOK, RegOK
<1>10. \A l \in 1 .. Q.n : l \in 1 .. R.n /\ ((l = k /\ Q.slots[l] = c) \/ Q.slots[l] = R.slots[l])
  BY <1>2, <1>3
<1>11. GoodAll(Q, b)
  BY <1>10 DEF GoodAll, RegOK
<1>12. UniqueOK(Q)
  BY <1>10 DEF UniqueOK, RegOK
<1>13. MapOK(Q)
  BY <1>10 DEF MapOK, RegOK
<1> QED
  BY <1>7, <1>8, <1>9, <1>11, <1>12, <1>13 DEF RegOK

\* The entries, out of the invariant.
LEMMA RegOKFacts ==
  ASSUME NEW R, NEW b, RegOK(R, b)
  PROVE  /\ R.n \in Nat /\ R.n <= Len(R.slots) /\ Len(R.slots) <= MaxIndexes /\ Len(R.slots) \in Nat /\ R.slots \in Seq(Entries)
         /\ \A k \in 1 .. R.n : /\ k \in 1 .. Len(R.slots) /\ R.slots[k] \in Entries /\ Single(R.slots[k]) /\ Good(R.slots[k], b)
                                /\ "hnsw" \notin Events => R.slots[k].hn = {}
<1>1. R.n \in Nat /\ R.n <= Len(R.slots) /\ Len(R.slots) <= MaxIndexes /\ Len(R.slots) \in Nat /\ R.slots \in Seq(Entries)
  BY DEF RegOK, ArrayOK
<1>2. ASSUME NEW k \in 1 .. R.n
      PROVE  /\ k \in 1 .. Len(R.slots) /\ R.slots[k] \in Entries /\ Single(R.slots[k]) /\ Good(R.slots[k], b)
             /\ "hnsw" \notin Events => R.slots[k].hn = {}
  <2>1. k \in 1 .. Len(R.slots)
    BY <1>1
  <2>2. R.slots[k] \in Entries
    BY <1>1, <2>1
  <2>3. Single(R.slots[k]) /\ Good(R.slots[k], b) /\ ("hnsw" \notin Events => R.slots[k].hn = {})
    BY <2>1 DEF RegOK, ArrayOK, GoodAll, HnswOK
  <2> QED
    BY <2>1, <2>2, <2>3
<1> QED
  BY <1>1, <1>2

\* The types of the fields.
LEMMA EntryFields ==
  ASSUME NEW e \in Entries
  PROVE  /\ e.id \in Indexes /\ e.gen \in Gens /\ e.form \in Forms
         /\ e.graph \subseteq PtrOf("graph") /\ e.rev \subseteq PtrOf("rev") /\ e.bf \subseteq PtrOf("bf")
         /\ e.dl \subseteq PtrOf("dl") /\ e.hn \subseteq PtrOf("hn")
BY DEF Entries

\* A new layout does not disturb the array.
LEMMA Monotone ==
  ASSUME NEW R, NEW b \in [Indexes -> 0 .. MaxGen], NEW c \in [Indexes -> 0 .. MaxGen],
         \A i \in Indexes : b[i] <= c[i], RegOK(R, b)
  PROVE  RegOK(R, c)
<1>1. ASSUME NEW k \in 1 .. R.n PROVE Good(R.slots[k], c)
  <2>1. PICK e : e = R.slots[k]
    OBVIOUS
  <2>2. e \in Entries /\ Good(e, b) /\ e.id \in Indexes /\ e.gen \in Nat
    BY <2>1, RegOKFacts, EntryFields, BoundAssumption DEF Gens
  <2>3. \A p \in Held(e) : p.gen \in Nat
    BY <2>2, HeldBy DEF Ptr, Gens
  <2>4. b[e.id] \in Nat /\ c[e.id] \in Nat /\ b[e.id] <= c[e.id]
    BY <2>2, BoundAssumption
  <2>5. e.gen <= c[e.id]
    BY <2>2, <2>4 DEF Good
  <2>6. \A p \in Held(e) : p.f # "hn" => p.id = e.id /\ p.gen <= b[e.id]
    BY <2>2 DEF Good
  <2>7. \A p \in Held(e) : p.f # "hn" => p.id = e.id /\ p.gen <= c[e.id]
    BY <2>3, <2>4, <2>6
  <2> QED
    BY <2>1, <2>5, <2>7 DEF Good
<1> QED
  BY <1>1 DEF RegOK, GoodAll

\* evict_lru, with the save before it.
LEMMA EvictOK ==
  ASSUME NEW R, NEW D, NEW b \in [Indexes -> 0 .. MaxGen], RegOK(R, b), SavedOK(R, D), DiskOK(D, b), NEW k \in 1 .. R.n,
         NEW Q, NEW E, Q = Evicted(R, k), E = DiskSaved(D, R.slots[k])
  PROVE  /\ RegOK(Q, b) /\ SavedOK(Q, E) /\ DiskOK(E, b)
         /\ \A l \in 1 .. Q.n : \E m \in 1 .. R.n : Q.slots[l] = R.slots[m]
         /\ \A i \in Indexes : (\A l \in 1 .. R.n : R.slots[l].id # i) => E[i] = D[i]
<1>1. PICK e : e = R.slots[k]
  OBVIOUS
<1>2. e \in Entries /\ Single(e) /\ Good(e, b) /\ R.n \in Nat
  BY <1>1, RegOKFacts
<1>3. PICK c : c = [e EXCEPT !.rev = {}, !.bf = {}, !.dl = {}, !.hn = {}]
  OBVIOUS
<1>4. c \in Entries /\ Single(c) /\ c.hn = {}
  <2>1. c = [id |-> e.id, gen |-> e.gen, form |-> e.form, graph |-> e.graph, rev |-> {}, bf |-> {}, dl |-> {}, hn |-> {}]
    BY <1>2, <1>3 DEF Entries
  <2> QED
    BY <1>2, <2>1, EntryFields DEF Entries, Single, One
<1>5. Q = Remove(R, k, c, Held(e))
  BY <1>1, <1>3 DEF Evicted
<1>6. RegOK(Q, b)
  BY <1>1, <1>2, <1>4, <1>5, RemoveOK
<1>7. Q.n = R.n - 1 /\ \A l \in 1 .. Q.n : Q.slots[l] = R.slots[IF l < k THEN l ELSE l + 1]
  <2>1. ArrayOK(R)
    BY DEF RegOK
  <2> QED
    BY <1>2, <1>4, <1>5, <2>1, RemoveShape
<1>8. \A l \in 1 .. Q.n : (IF l < k THEN l ELSE l + 1) \in 1 .. R.n /\ (IF l < k THEN l ELSE l + 1) # k
  BY <1>2, <1>7
<1>9. \A l \in 1 .. Q.n : \E m \in 1 .. R.n : m # k /\ Q.slots[l] = R.slots[m]
  BY <1>7, <1>8
<1>10. e.id \in Indexes /\ e.gen \in Gens /\ e.gen <= b[e.id]
  BY <1>2, EntryFields DEF Good
<1>11. D \in [Indexes -> [gen : 0 .. MaxGen, form : Forms, vgen : 0 .. MaxGen]]
  BY DEF DiskOK
<1>12. CASE e.form = "cagra"
  <2>1. E = [D EXCEPT ![e.id].gen = e.gen, ![e.id].form = "cagra"]
    BY <1>1, <1>12 DEF DiskSaved
  <2>2. PICK r : r = D[e.id]
    OBVIOUS
  <2>3. r \in [gen : 0 .. MaxGen, form : Forms, vgen : 0 .. MaxGen]
    BY <1>10, <1>11, <2>2
  <2>4. E = [D EXCEPT ![e.id] = [gen |-> e.gen, form |-> "cagra", vgen |-> r.vgen]]
    BY <1>10, <1>11, <2>1, <2>2, <2>3
  <2>5. e.gen \in 0 .. MaxGen /\ "cagra" \in Forms /\ r.vgen \in 0 .. MaxGen
    BY <1>10, <2>3, BoundAssumption DEF Gens, Forms
  <2>6. DiskOK(E, b)
    <3>1. E \in [Indexes -> [gen : 0 .. MaxGen, form : Forms, vgen : 0 .. MaxGen]]
      <4>1. PICK x : x = [gen |-> e.gen, form |-> "cagra", vgen |-> r.vgen]
        OBVIOUS
      <4>2. x \in [gen : 0 .. MaxGen, form : Forms, vgen : 0 .. MaxGen] /\ E = [D EXCEPT ![e.id] = x]
        BY <2>4, <2>5, <4>1
      <4> QED
        BY <1>11, <4>2
    <3>2. \A i \in Indexes : E[i].gen <= b[i]
      BY <1>10, <1>11, <2>4 DEF DiskOK
    <3>3. "reshard" \notin Events => \A i \in Indexes : E[i].form # "sharded"
      BY <1>11, <2>4 DEF DiskOK
    <3> QED
      BY <3>1, <3>2, <3>3 DEF DiskOK
  <2>7. \A i \in Indexes : i # e.id => E[i] = D[i]
    BY <1>11, <2>4
  <2>8. ASSUME {"warmup", "io"} \cap Events = {}, NEW l \in 1 .. Q.n, Q.slots[l].form # "cagra"
        PROVE  E[Q.slots[l].id].gen = Q.slots[l].gen /\ E[Q.slots[l].id].form = Q.slots[l].form
    <3>1. PICK m \in 1 .. R.n : m # k /\ Q.slots[l] = R.slots[m]
      BY <1>9
    <3>2. R.slots[m].id \in Indexes
      BY RegOKFacts, EntryFields
    <3>3. R.slots[m].id # e.id
      BY <1>1, <2>8, <3>1 DEF RegOK, UniqueOK
    <3>4. D[R.slots[m].id].gen = R.slots[m].gen /\ D[R.slots[m].id].form = R.slots[m].form
      BY <2>8, <3>1 DEF SavedOK
    <3> QED
      BY <2>7, <3>1, <3>2, <3>3, <3>4
  <2>9. SavedOK(Q, E)
    BY <2>8 DEF SavedOK
  <2>10. \A i \in Indexes : (\A l \in 1 .. R.n : R.slots[l].id # i) => E[i] = D[i]
    BY <1>1, <2>7
  <2> QED
    BY <1>6, <1>9, <2>6, <2>9, <2>10
<1>13. CASE e.form # "cagra"
  <2>1. E = D
    BY <1>1, <1>13 DEF DiskSaved
  <2>2. SavedOK(Q, E)
    BY <1>9, <2>1 DEF SavedOK
  <2> QED
    BY <1>6, <1>9, <2>1, <2>2
<1> QED
  BY <1>12, <1>13

\* Making room, with or without an eviction.
LEMMA RoomsOK ==
  ASSUME NEW R, NEW D, NEW b \in [Indexes -> 0 .. MaxGen], RegOK(R, b), SavedOK(R, D), DiskOK(D, b), NEW m \in Rooms(R, D)
  PROVE  /\ RegOK(m.reg, b) /\ SavedOK(m.reg, m.disk) /\ DiskOK(m.disk, b)
         /\ \A l \in 1 .. m.reg.n : \E j \in 1 .. R.n : m.reg.slots[l] = R.slots[j]
         /\ \A i \in Indexes : (\A l \in 1 .. R.n : R.slots[l].id # i) => m.disk[i] = D[i]
<1>1. m = [reg |-> R, disk |-> D] \/ \E k \in 1 .. R.n : m = [reg |-> Evicted(R, k), disk |-> DiskSaved(D, R.slots[k])]
  BY DEF Rooms
<1>2. CASE m = [reg |-> R, disk |-> D]
  <2>1. m.reg = R /\ m.disk = D
    BY <1>2
  <2> QED
    BY <2>1
<1>3. ASSUME NEW k \in 1 .. R.n, m = [reg |-> Evicted(R, k), disk |-> DiskSaved(D, R.slots[k])]
      PROVE  /\ RegOK(m.reg, b) /\ SavedOK(m.reg, m.disk) /\ DiskOK(m.disk, b)
             /\ \A l \in 1 .. m.reg.n : \E j \in 1 .. R.n : m.reg.slots[l] = R.slots[j]
             /\ \A i \in Indexes : (\A l \in 1 .. R.n : R.slots[l].id # i) => m.disk[i] = D[i]
  <2>1. m.reg = Evicted(R, k) /\ m.disk = DiskSaved(D, R.slots[k])
    BY <1>3
  <2> QED
    BY <2>1, EvictOK
<1> QED
  BY <1>1, <1>2, <1>3

\* find_index returns an entry of the index.
LEMMA FirstSlotOK ==
  ASSUME IInv, NEW i \in Indexes, Resident(i)
  PROVE  FirstSlot(i) \in 1 .. reg.n /\ reg.slots[FirstSlot(i)].id = i
<1>1. SlotsOf(i) \in SUBSET Nat /\ SlotsOf(i) # {}
  <2>1. reg.n \in Nat
    BY RegOKFacts DEF IInv
  <2> QED
    BY <2>1 DEF Resident, SlotsOf, Valid
<1>2. \E k \in SlotsOf(i) : \A l \in SlotsOf(i) : k <= l
  BY <1>1, LeastNat
<1>3. FirstSlot(i) \in SlotsOf(i)
  BY <1>2, Zenon DEF FirstSlot
<1> QED
  BY <1>3 DEF SlotsOf, Valid

\* A field that points to something.
LEMMA AtOK ==
  ASSUME NEW f \in Fields, NEW i \in Indexes, NEW g \in Gens
  PROVE  /\ At(f, i, g) \subseteq PtrOf(f) /\ One(At(f, i, g))
         /\ \A p \in At(f, i, g) : p.id = i /\ p.gen = g /\ p.f = f
BY DEF At, PtrOf, Ptr, One

\* The entry that load_index and the builds make.
LEMMA EntryOK ==
  ASSUME NEW i \in Indexes, NEW g \in Gens, NEW form \in Forms,
         NEW rev \in SUBSET PtrOf("rev"), NEW hn \in SUBSET PtrOf("hn"), One(rev), One(hn)
  PROVE  /\ Entry(i, g, form, rev, hn) \in Entries /\ Single(Entry(i, g, form, rev, hn))
         /\ Entry(i, g, form, rev, hn).id = i /\ Entry(i, g, form, rev, hn).gen = g /\ Entry(i, g, form, rev, hn).form = form
         /\ Entry(i, g, form, rev, hn).rev = rev /\ Entry(i, g, form, rev, hn).hn = hn
         /\ Entry(i, g, form, rev, hn).bf = {} /\ Entry(i, g, form, rev, hn).dl = {}
         /\ Entry(i, g, form, rev, hn).graph \subseteq At("graph", i, g)
<1>1. PICK gr : gr = IF form = "flat" THEN {} ELSE At("graph", i, g)
  OBVIOUS
<1>2. gr \subseteq PtrOf("graph") /\ One(gr) /\ gr \subseteq At("graph", i, g)
  <2>1. "graph" \in Fields
    BY DEF Fields
  <2>2. At("graph", i, g) \subseteq PtrOf("graph") /\ One(At("graph", i, g))
    BY <2>1, AtOK
  <2> QED
    BY <1>1, <2>2 DEF One
<1>3. Entry(i, g, form, rev, hn) = [id |-> i, gen |-> g, form |-> form, graph |-> gr, rev |-> rev, bf |-> {}, dl |-> {}, hn |-> hn]
  BY <1>1 DEF Entry
<1>4. PICK e : e = Entry(i, g, form, rev, hn)
  OBVIOUS
<1>5. e \in Entries /\ Single(e)
  BY <1>2, <1>3, <1>4 DEF Entries, Single, One
<1> QED
  BY <1>2, <1>3, <1>4, <1>5

\* The hnsw_idx a reused slot may still have.
LEMMA ResidueOK ==
  ASSUME NEW R, NEW b, RegOK(R, b)
  PROVE  Residue(R) \in SUBSET PtrOf("hn") /\ One(Residue(R)) /\ ("hnsw" \notin Events => Residue(R) = {})
<1>1. CASE R.n < Len(R.slots)
  <2>1. R.n + 1 \in 1 .. Len(R.slots) /\ R.slots \in Seq(Entries)
    BY <1>1, RegOKFacts
  <2>2. R.slots[R.n + 1] \in Entries
    BY <2>1
  <2>3. Single(R.slots[R.n + 1]) /\ ("hnsw" \notin Events => R.slots[R.n + 1].hn = {})
    BY <2>1 DEF RegOK, ArrayOK, HnswOK
  <2>4. R.slots[R.n + 1].hn \in SUBSET PtrOf("hn")
    BY <2>2, EntryFields
  <2> QED
    BY <1>1, <2>3, <2>4 DEF Residue, Single
<1>2. CASE ~(R.n < Len(R.slots))
  BY <1>2 DEF Residue, One
<1> QED
  BY <1>1, <1>2

\* An entry with a graph and a map of layout g.
LEMMA GoodEntry ==
  ASSUME NEW e \in Entries, NEW b, NEW i, NEW g, e.id = i, e.gen = g, g <= b[i], e.graph \subseteq At("graph", i, g),
         e.rev \subseteq At("rev", i, g), e.bf = {}, e.dl = {}
  PROVE  Good(e, b)
<1>1. \A p \in At("graph", i, g) \cup At("rev", i, g) : p.id = i /\ p.gen = g
  BY DEF At
<1>2. \A p \in Held(e) : p.f # "hn" => p \in At("graph", i, g) \cup At("rev", i, g)
  <2>1. \A p \in Held(e) : p \in e.graph \/ p \in e.rev \/ p \in e.hn
    BY DEF Held
  <2>2. \A p \in e.hn : p.f = "hn"
    BY EntryFields DEF PtrOf
  <2> QED
    BY <2>1, <2>2
<1> QED
  BY <1>1, <1>2 DEF Good

\* The types of what is on disk for an index.
LEMMA DiskFacts ==
  ASSUME NEW D, NEW b \in [Indexes -> 0 .. MaxGen], DiskOK(D, b), NEW i \in Indexes
  PROVE  /\ D[i] \in [gen : 0 .. MaxGen, form : Forms, vgen : 0 .. MaxGen]
         /\ D[i].gen \in 0 .. MaxGen /\ D[i].form \in Forms /\ D[i].vgen \in 0 .. MaxGen /\ D[i].gen <= b[i]
         /\ b[i] \in Nat /\ b[i] <= MaxGen /\ MaxGen \in Nat
         /\ "reshard" \notin Events => D[i].form # "sharded"
<1>1. PICK r : r = D[i]
  OBVIOUS
<1>2. r \in [gen : 0 .. MaxGen, form : Forms, vgen : 0 .. MaxGen]
  BY <1>1 DEF DiskOK
<1>3. r.gen \in 0 .. MaxGen /\ r.form \in Forms /\ r.vgen \in 0 .. MaxGen
  BY <1>2
<1>4. b[i] \in Nat /\ b[i] <= MaxGen /\ MaxGen \in Nat
  BY BoundAssumption
<1> QED
  BY <1>1, <1>2, <1>3, <1>4 DEF DiskOK

\* A save.
LEMMA DiskPut ==
  ASSUME NEW D, NEW b \in [Indexes -> 0 .. MaxGen], DiskOK(D, b), NEW i \in Indexes,
         NEW r \in [gen : 0 .. MaxGen, form : Forms, vgen : 0 .. MaxGen], r.gen <= b[i],
         "reshard" \notin Events => r.form # "sharded", NEW E, E = [D EXCEPT ![i] = r]
  PROVE  DiskOK(E, b) /\ E[i] = r /\ \A j \in Indexes : j # i => E[j] = D[j]
<1>1. D \in [Indexes -> [gen : 0 .. MaxGen, form : Forms, vgen : 0 .. MaxGen]]
  BY DEF DiskOK
<1>2. E \in [Indexes -> [gen : 0 .. MaxGen, form : Forms, vgen : 0 .. MaxGen]] /\ E[i] = r /\ \A j \in Indexes : j # i => E[j] = D[j]
  BY <1>1
<1>3. \A j \in Indexes : E[j].gen <= b[j] /\ ("reshard" \notin Events => E[j].form # "sharded")
  BY <1>2 DEF DiskOK
<1> QED
  BY <1>2, <1>3 DEF DiskOK

\* A new layout does not disturb what is on disk.
LEMMA MoreBuilt ==
  ASSUME NEW D, NEW b \in [Indexes -> 0 .. MaxGen], NEW c \in [Indexes -> 0 .. MaxGen],
         \A i \in Indexes : b[i] <= c[i], DiskOK(D, b)
  PROVE  DiskOK(D, c)
<1>1. \A i \in Indexes : D[i].gen \in 0 .. MaxGen /\ D[i].gen <= b[i]
  BY DiskFacts
<1>2. \A i \in Indexes : b[i] \in Nat /\ c[i] \in Nat
  BY BoundAssumption
<1>3. \A i \in Indexes : D[i].gen <= c[i]
  <2> SUFFICES ASSUME NEW i \in Indexes PROVE D[i].gen <= c[i]
    OBVIOUS
  <2>1. D[i].gen \in 0 .. MaxGen /\ D[i].gen <= b[i] /\ b[i] \in Nat /\ c[i] \in Nat /\ b[i] <= c[i]
    BY <1>1, <1>2
  <2> QED
    BY <2>1
<1> QED
  BY <1>3 DEF DiskOK

\* Appending an entry in the layout that is on disk.
LEMMA PushSaved ==
  ASSUME NEW R, NEW b, RegOK(R, b), R.n < MaxIndexes, NEW D, SavedOK(R, D), NEW e \in Entries, Single(e),
         {"warmup", "io"} \cap Events = {} => D[e.id].gen = e.gen /\ D[e.id].form = e.form
  PROVE  SavedOK(Push(R, e), D)
<1>1. ArrayOK(R) /\ R.n \in Nat
  BY DEF RegOK, ArrayOK
<1>2. PICK Q : Q = Push(R, e)
  OBVIOUS
<1>3. Q.n = R.n + 1 /\ Q.slots[R.n + 1] = e /\ \A l \in 1 .. R.n : Q.slots[l] = R.slots[l]
  BY <1>1, <1>2, PushShape
<1>4. \A l \in 1 .. Q.n : Q.slots[l] = e \/ (l \in 1 .. R.n /\ Q.slots[l] = R.slots[l])
  BY <1>1, <1>3
<1> QED
  BY <1>2, <1>4 DEF SavedOK

\* load_index after making room.
LEMMA LoadIntoOK ==
  ASSUME IInv, NEW i \in Indexes, disk[i].gen # 0, LoadInto(i), "warmup" \notin Events => ~Resident(i)
  PROVE  RegOK(reg', built) /\ SavedOK(reg', disk') /\ DiskOK(disk', built)
<1>1. PICK m \in Rooms(reg, disk) : m.reg.n < MaxIndexes /\ reg' = Push(m.reg, LoadedEntry(i, m.reg)) /\ disk' = m.disk
  BY DEF LoadInto
<1>2. built \in [Indexes -> 0 .. MaxGen] /\ RegOK(reg, built) /\ SavedOK(reg, disk) /\ DiskOK(disk, built)
  BY DEF IInv
<1>3. /\ RegOK(m.reg, built) /\ SavedOK(m.reg, m.disk) /\ DiskOK(m.disk, built)
      /\ \A l \in 1 .. m.reg.n : \E j \in 1 .. reg.n : m.reg.slots[l] = reg.slots[j]
      /\ \A x \in Indexes : (\A l \in 1 .. reg.n : reg.slots[l].id # x) => m.disk[x] = disk[x]
  BY <1>2, RoomsOK
<1>4. PICK R, g, form, hn : R = m.reg /\ g = disk[i].gen /\ form = disk[i].form
                            /\ hn = IF disk[i].form \in {"cagra", "ivfpq"} THEN Residue(R) ELSE {}
  OBVIOUS
<1>5. g \in Gens /\ form \in Forms /\ g <= built[i] /\ ("reshard" \notin Events => form # "sharded")
  <2>1. g \in 0 .. MaxGen /\ form \in Forms /\ g <= built[i] /\ ("reshard" \notin Events => form # "sharded") /\ MaxGen \in Nat
    BY <1>2, <1>4, DiskFacts
  <2>2. g \in Gens
    BY <1>4, <2>1 DEF Gens
  <2> QED
    BY <2>1, <2>2
<1>6. hn \in SUBSET PtrOf("hn") /\ One(hn) /\ ("hnsw" \notin Events => hn = {})
  BY <1>3, <1>4, ResidueOK DEF One
<1>7. PICK rev : rev = At("rev", i, g)
  OBVIOUS
<1>8. rev \in SUBSET PtrOf("rev") /\ One(rev) /\ \A p \in rev : p.gen = g
  BY <1>5, <1>7, AtOK DEF Fields
<1>9. PICK e : e = Entry(i, g, form, rev, hn)
  OBVIOUS
<1>10. e = LoadedEntry(i, R)
  BY <1>4, <1>7, <1>9 DEF LoadedEntry
<1>11. e \in Entries /\ Single(e) /\ e.id = i /\ e.gen = g /\ e.form = form /\ e.rev = rev /\ e.hn = hn
       /\ e.bf = {} /\ e.dl = {} /\ e.graph \subseteq At("graph", i, g)
  BY <1>5, <1>6, <1>8, <1>9, EntryOK
<1>12. Good(e, built)
  <2>1. e.rev \subseteq At("rev", i, g)
    BY <1>7, <1>11
  <2> QED
    BY <1>5, <1>11, <2>1, GoodEntry
<1>13. "warmup" \notin Events => \A l \in 1 .. reg.n : reg.slots[l].id # i
  BY DEF Resident, SlotsOf, Valid
<1>14. "warmup" \notin Events => \A l \in 1 .. R.n : R.slots[l].id # e.id
  BY <1>3, <1>4, <1>11, <1>13
<1>15. "reshard" \notin Events => e.form # "sharded" /\ \A p \in e.rev : p.gen = e.gen
  BY <1>5, <1>8, <1>11
<1>16. RegOK(Push(R, e), built)
  BY <1>1, <1>3, <1>4, <1>6, <1>11, <1>12, <1>14, <1>15, PushOK
<1>17. {"warmup", "io"} \cap Events = {} => m.disk[e.id].gen = e.gen /\ m.disk[e.id].form = e.form
  BY <1>3, <1>4, <1>11, <1>13
<1>18. SavedOK(Push(R, e), m.disk)
  BY <1>1, <1>3, <1>4, <1>11, <1>17, PushSaved
<1> QED
  BY <1>1, <1>3, <1>4, <1>10, <1>16, <1>18

\* Overwriting the entry of an index and what is on disk for it.
LEMMA SavedReplace ==
  ASSUME NEW R, NEW b, RegOK(R, b), NEW k \in 1 .. R.n, NEW D, SavedOK(R, D), NEW c, c.id = R.slots[k].id,
         NEW Q, Q.n = R.n, Q.slots = [R.slots EXCEPT ![k] = c], NEW E, \A j \in Indexes : j # c.id => E[j] = D[j],
         {"warmup", "io"} \cap Events = {} /\ c.form # "cagra" => E[c.id].gen = c.gen /\ E[c.id].form = c.form
  PROVE  SavedOK(Q, E)
<1>1. R.n \in Nat /\ R.n <= Len(R.slots) /\ Len(R.slots) \in Nat /\ R.slots \in Seq(Entries)
  BY RegOKFacts
<1>2. \A l \in 1 .. R.n : Q.slots[l] = IF l = k THEN c ELSE R.slots[l]
  BY <1>1
<1>3. ASSUME {"warmup", "io"} \cap Events = {}, NEW l \in 1 .. Q.n, Q.slots[l].form # "cagra"
      PROVE  E[Q.slots[l].id].gen = Q.slots[l].gen /\ E[Q.slots[l].id].form = Q.slots[l].form
  <2>1. CASE l = k
    BY <1>2, <1>3, <2>1
  <2>2. CASE l # k
    <3>1. Q.slots[l] = R.slots[l]
      BY <1>2, <2>2
    <3>2. R.slots[l].id \in Indexes
      BY RegOKFacts, EntryFields
    <3>3. R.slots[l].id # c.id
      BY <1>3, <2>2 DEF RegOK, UniqueOK
    <3>4. D[R.slots[l].id].gen = R.slots[l].gen /\ D[R.slots[l].id].form = R.slots[l].form
      BY <1>3, <3>1 DEF SavedOK
    <3> QED
      BY <3>1, <3>2, <3>3, <3>4
  <2> QED
    BY <2>1, <2>2
<1> QED
  BY <1>3 DEF SavedOK

\* What a rebuild makes of entry e is new, kept or freed.
LEMMA RebuiltOK ==
  ASSUME NEW e \in Entries, Single(e), NEW b \in [Indexes -> 0 .. MaxGen], Good(e, b),
         NEW g \in Gens, g > b[e.id], NEW d, d[e.id] = g,
         NEW form \in Forms, form = "sharded" => "reshard" \in Events, NEW c, c = Rebuilt(e, g, form),
         "hnsw" \notin Events => e.hn = {}
  PROVE  /\ c \in Entries /\ Single(c) /\ Good(c, d) /\ c.id = e.id /\ c.gen = g /\ c.form = form
         /\ "hnsw" \notin Events => c.hn = {}
         /\ "reshard" \notin Events => c.form # "sharded" /\ \A p \in c.rev : p.gen = c.gen
         /\ FreedByRebuild(e, form) \subseteq Held(e)
         /\ \A p \in Ptr : p.f # "hn" /\ p \in Held(c) => p \notin FreedByRebuild(e, form)
         /\ \A p \in Ptr : p.f \in Exact /\ p \in Held(e) /\ p \notin Held(c) => p \in FreedByRebuild(e, form)
<1>1. PICK i : i = e.id
  OBVIOUS
<1>2. i \in Indexes /\ e.gen \in Gens /\ e.form \in Forms /\ b[i] \in Nat /\ g \in Nat /\ b[i] < g /\ Gens \subseteq Nat
      /\ e.rev \subseteq PtrOf("rev") /\ e.bf \subseteq PtrOf("bf") /\ e.hn \subseteq PtrOf("hn")
  BY <1>1, EntryFields, BoundAssumption DEF Gens
<1>3. ASSUME NEW p \in Held(e), p.f # "hn" PROVE p.id = i /\ p.gen < g /\ p.gen # g /\ p.gen <= g /\ p \in Ptr
  <2>1. p \in Ptr
    BY HeldBy
  <2>2. p.gen \in Nat
    BY <1>2, <2>1 DEF Ptr
  <2>3. p.id = i /\ p.gen <= b[i]
    BY <1>1, <1>3 DEF Good
  <2> QED
    BY <1>2, <2>1, <2>2, <2>3
<1>4. /\ \A p \in e.graph : p.f = "graph"
      /\ \A p \in e.rev : p.f = "rev"
      /\ \A p \in e.bf : p.f = "bf"
      /\ \A p \in e.dl : p.f = "dl"
      /\ \A p \in e.hn : p.f = "hn"
  BY EntryFields DEF PtrOf
<1>5. PICK rv : rv = At("rev", i, g)
  OBVIOUS
<1>6. rv \in SUBSET PtrOf("rev") /\ One(rv) /\ \A p \in rv : p.gen = g /\ p.id = i
  BY <1>2, <1>5, AtOK DEF Fields
<1>7. \A p \in At("graph", i, g) : p.gen = g /\ p.id = i
  BY DEF At
<1>8. g <= d[i] /\ d[i] = g
  BY <1>1, <1>2
<1>9. CASE form = "cagra"
  <2>1. PICK X : X = IF e.form = "sharded" THEN {} ELSE e.bf
    OBVIOUS
  <2>2. PICK n : n = Entry(i, g, form, rv, {})
    OBVIOUS
  <2>3. One({}) /\ {} \in SUBSET PtrOf("hn")
    BY DEF One
  <2>4. n \in Entries /\ Single(n) /\ n.id = i /\ n.gen = g /\ n.form = form /\ n.rev = rv /\ n.hn = {}
        /\ n.bf = {} /\ n.dl = {} /\ n.graph \subseteq At("graph", i, g)
    BY <1>2, <1>6, <2>2, <2>3, EntryOK
  <2>5. X \subseteq PtrOf("bf") /\ One(X) /\ X \subseteq e.bf
    BY <1>2, <2>1 DEF Single, One
  <2>6. c = [n EXCEPT !.bf = X]
    BY <1>1, <1>5, <1>9, <2>1, <2>2 DEF Rebuilt
  <2>7. c = [id |-> i, gen |-> g, form |-> form, graph |-> n.graph, rev |-> rv, bf |-> X, dl |-> {}, hn |-> {}]
    BY <2>4, <2>6 DEF Entries
  <2>8. c.id = i /\ c.gen = g /\ c.form = form /\ c.graph = n.graph /\ c.rev = rv /\ c.bf = X /\ c.dl = {} /\ c.hn = {}
    BY <2>7
  <2>9. c \in Entries
    BY <1>2, <1>6, <2>4, <2>5, <2>7, EntryFields DEF Entries
  <2>10. Single(c)
    BY <1>6, <2>4, <2>5, <2>8 DEF Single, One
  <2>11. \A p \in Held(c) : p \in n.graph \/ p \in rv \/ p \in X
    BY <2>8 DEF Held
  <2>12. \A p \in Held(c) : p.id = i /\ p.gen <= g
    <3>1. \A p \in X : p \in Held(e) /\ p.f # "hn"
      BY <1>4, <2>5 DEF Held
    <3> QED
      BY <1>2, <1>3, <1>6, <1>7, <2>4, <2>11, <3>1
  <2>13. Good(c, d)
    BY <1>8, <2>8, <2>12 DEF Good
  <2>14. FreedByRebuild(e, form) = Held(e) \ X
    BY <1>9, <2>1 DEF FreedByRebuild
  <2>15. ASSUME NEW p \in Ptr, p.f # "hn", p \in Held(c) PROVE p \notin Held(e) \ X
    BY <1>3, <1>6, <1>7, <2>4, <2>11, <2>15
  <2>16. ASSUME NEW p \in Ptr, p \in Held(e), p \notin Held(c) PROVE p \in Held(e) \ X
    BY <2>8, <2>16 DEF Held
  <2> QED
    BY <1>1, <1>6, <1>9, <2>8, <2>9, <2>10, <2>13, <2>14, <2>15, <2>16
<1>10. CASE form = "sharded"
  <2>1. c = Entry(i, g, form, e.rev, e.hn)
    BY <1>1, <1>10 DEF Rebuilt
  <2>2. One(e.rev) /\ One(e.hn)
    BY DEF Single
  <2>3. c \in Entries /\ Single(c) /\ c.id = i /\ c.gen = g /\ c.form = form /\ c.rev = e.rev /\ c.hn = e.hn
        /\ c.bf = {} /\ c.dl = {} /\ c.graph \subseteq At("graph", i, g)
    BY <1>2, <2>1, <2>2, EntryOK
  <2>4. \A p \in Held(c) : p \in c.graph \/ p \in e.rev \/ p \in e.hn
    BY <2>3 DEF Held
  <2>5. \A p \in Held(c) : p.f # "hn" => p.id = i /\ p.gen <= g
    <3>1. \A p \in e.rev : p \in Held(e) /\ p.f # "hn"
      BY <1>4 DEF Held
    <3> QED
      BY <1>2, <1>3, <1>4, <1>7, <2>3, <2>4, <3>1
  <2>6. Good(c, d)
    BY <1>8, <2>3, <2>5 DEF Good
  <2>7. PICK Y : Y = IF e.form = "sharded" THEN e.bf ELSE {}
    OBVIOUS
  <2>8. FreedByRebuild(e, form) = e.graph \cup e.dl \cup Y /\ Y \subseteq e.bf
    BY <1>10, <2>7 DEF FreedByRebuild
  <2>9. e.graph \cup e.dl \cup Y \subseteq Held(e)
    BY <2>8 DEF Held
  <2>10. ASSUME NEW p \in Ptr, p.f # "hn", p \in Held(c) PROVE p \notin e.graph \cup e.dl \cup Y
    BY <1>3, <1>4, <1>7, <2>3, <2>4, <2>8, <2>9, <2>10
  <2>11. "bf" \notin Exact /\ "hn" \notin Exact
    BY <1>10 DEF Exact
  <2>12. ASSUME NEW p \in Ptr, p.f \in Exact, p \in Held(e), p \notin Held(c) PROVE p \in e.graph \cup e.dl \cup Y
    <3>1. p \notin e.rev /\ p \notin e.hn
      BY <2>3, <2>12 DEF Held
    <3>2. p \notin e.bf
      BY <1>4, <2>11, <2>12
    <3> QED
      BY <2>12, <3>1, <3>2 DEF Held
  <2> QED
    BY <1>1, <1>10, <2>3, <2>6, <2>8, <2>9, <2>10, <2>12
<1>11. CASE form # "cagra" /\ form # "sharded"
  <2>1. c = Entry(i, g, form, rv, {})
    BY <1>1, <1>5, <1>11 DEF Rebuilt
  <2>2. One({}) /\ {} \in SUBSET PtrOf("hn")
    BY DEF One
  <2>3. c \in Entries /\ Single(c) /\ c.id = i /\ c.gen = g /\ c.form = form /\ c.rev = rv /\ c.hn = {}
        /\ c.bf = {} /\ c.dl = {} /\ c.graph \subseteq At("graph", i, g)
    BY <1>2, <1>6, <2>1, <2>2, EntryOK
  <2>4. \A p \in Held(c) : p.gen = g /\ p.id = i
    BY <1>6, <1>7, <2>3 DEF Held
  <2>5. Good(c, d)
    BY <1>8, <1>2, <2>3, <2>4 DEF Good
  <2>6. FreedByRebuild(e, form) = Held(e)
    BY <1>11 DEF FreedByRebuild
  <2>7. ASSUME NEW p \in Ptr, p.f # "hn", p \in Held(c) PROVE p \notin Held(e)
    BY <1>3, <2>4, <2>7
  <2> QED
    BY <1>1, <1>6, <1>11, <2>3, <2>5, <2>6, <2>7
<1> QED
  BY <1>9, <1>10, <1>11

\* The layouts made so far.
LEMMA BuiltMore ==
  ASSUME NEW b \in [Indexes -> 0 .. MaxGen], NEW i \in Indexes, NEW g \in 0 .. MaxGen, b[i] <= g, NEW c, c = [b EXCEPT ![i] = g]
  PROVE  c \in [Indexes -> 0 .. MaxGen] /\ c[i] = g /\ \A j \in Indexes : b[j] <= c[j]
<1>1. \A j \in Indexes : b[j] \in Nat
  BY BoundAssumption
<1> QED
  BY <1>1

\* The invariant holds when the daemon starts.
LEMMA InitOK == Init => IInv
<1> SUFFICES ASSUME Init PROVE IInv
  OBVIOUS
<1>0. MaxIndexes \in Nat /\ MaxGen \in Nat /\ 0 \in 0 .. MaxGen /\ 1 \in 0 .. MaxGen
  BY BoundAssumption
<1>1. PICK C \in SUBSET {i \in Indexes : "warmup" \in Events /\ AmOf[i] = "cagra"} :
        /\ job = [i \in Indexes |-> IF i \in C THEN "cold" ELSE "none"]
        /\ built = [i \in Indexes |-> IF i \in C THEN 1 ELSE 0]
  BY DEF Init
<1>2. built \in [Indexes -> 0 .. MaxGen] /\ \A i \in Indexes : 0 <= built[i]
  BY <1>0, <1>1
<1>3. job \in [Indexes -> {"none", "cold", "fetched"}]
      /\ \A i \in Indexes : job[i] # "none" => built[i] >= 1 /\ "warmup" \in Events /\ AmOf[i] = "cagra"
  BY <1>1
<1>4. hfile \in [Indexes -> 0 .. MaxGen]
  BY <1>0 DEF Init
<1>5. DiskOK(disk, built)
  <2>1. \A i \in Indexes : AmOf[i] \in Forms /\ AmOf[i] # "sharded"
    BY AmAssumption DEF Forms
  <2>2. ASSUME NEW i \in Indexes
        PROVE  disk[i] \in [gen : 0 .. MaxGen, form : Forms, vgen : 0 .. MaxGen] /\ disk[i].gen = 0 /\ disk[i].form # "sharded"
    <3>1. disk[i] = [gen |-> 0, form |-> AmOf[i], vgen |-> 0]
      BY DEF Init
    <3> QED
      BY <1>0, <2>1, <3>1
  <2>3. disk \in [Indexes -> [gen : 0 .. MaxGen, form : Forms, vgen : 0 .. MaxGen]]
    <3>1. disk = [i \in Indexes |-> disk[i]]
      BY DEF Init
    <3> QED
      BY <2>2, <3>1
  <2> QED
    BY <1>2, <2>2, <2>3 DEF DiskOK
<1>6. reg.slots = <<>> /\ reg.n = 0 /\ reg.live = EmptyBag /\ reg = [slots |-> reg.slots, n |-> reg.n, live |-> reg.live]
  BY DEF Init
<1>7. \A S : S \subseteq 1 .. reg.n => S = {}
  BY <1>6
<1>8. ArrayOK(reg)
  BY <1>0, <1>6 DEF ArrayOK
<1>9. IsABag(reg.live) /\ DOMAIN reg.live = {} /\ \A p : Copies(p, reg.live) = 0
  BY <1>6 DEF EmptyBag, SetToBag, IsABag, Copies, BagIn, BagToSet
<1>10. CountOK(reg)
  <2>1. \A p : Holds(reg, p) = {}
    BY <1>6 DEF Holds
  <2>2. \A p : Cardinality(Holds(reg, p)) = 0
    BY <2>1, FS_EmptySet
  <2> QED
    BY <1>9, <2>2 DEF CountOK
<1>11. HnswOK(reg) /\ GoodAll(reg, built) /\ UniqueOK(reg) /\ MapOK(reg) /\ SavedOK(reg, disk)
  BY <1>6, <1>9 DEF HnswOK, GoodAll, UniqueOK, MapOK, SavedOK
<1> QED
  BY <1>2, <1>3, <1>4, <1>5, <1>8, <1>10, <1>11 DEF IInv, RegOK

\* Evict keeps the invariant.
LEMMA EvictStep ==
  ASSUME IInv, NEW k, Evict(k)
  PROVE  IInv'
<1>1. k \in 1 .. reg.n /\ reg' = Evicted(reg, k) /\ disk' = DiskSaved(disk, reg.slots[k]) /\ UNCHANGED <<hfile, built, job>>
  BY DEF Evict, Valid
<1>2. RegOK(reg', built) /\ SavedOK(reg', disk') /\ DiskOK(disk', built)
  BY <1>1, EvictOK DEF IInv
<1> QED
  BY <1>1, <1>2 DEF IInv

\* Load keeps the invariant.
LEMMA LoadStep ==
  ASSUME IInv, NEW i \in Indexes, Load(i)
  PROVE  IInv'
<1>1. ~Resident(i) /\ disk[i].gen # 0 /\ LoadInto(i) /\ UNCHANGED <<hfile, built, job>>
  BY DEF Load
<1>2. RegOK(reg', built) /\ SavedOK(reg', disk') /\ DiskOK(disk', built)
  BY <1>1, LoadIntoOK
<1> QED
  BY <1>1, <1>2 DEF IInv

\* Download keeps the invariant.
LEMMA DownloadStep ==
  ASSUME IInv, NEW i \in Indexes, Download(i)
  PROVE  IInv'
<1>1. /\ job[i] = "cold" /\ job' = [job EXCEPT ![i] = "fetched"]
      /\ disk' = [disk EXCEPT ![i] = [gen |-> 1, form |-> "cagra", vgen |-> disk[i].vgen]] /\ UNCHANGED <<reg, hfile, built>>
  BY DEF Download
<1>2. built \in [Indexes -> 0 .. MaxGen] /\ RegOK(reg, built) /\ DiskOK(disk, built) /\ built[i] >= 1 /\ "warmup" \in Events
  BY <1>1 DEF IInv
<1>3. disk[i].vgen \in 0 .. MaxGen /\ 1 \in 0 .. MaxGen /\ "cagra" \in Forms /\ 1 <= built[i]
  BY <1>2, DiskFacts, BoundAssumption DEF Forms
<1>4. PICK r : r = [gen |-> 1, form |-> "cagra", vgen |-> disk[i].vgen]
  OBVIOUS
<1>5. r \in [gen : 0 .. MaxGen, form : Forms, vgen : 0 .. MaxGen] /\ r.gen <= built[i] /\ r.form # "sharded" /\ disk' = [disk EXCEPT ![i] = r]
  BY <1>1, <1>3, <1>4
<1>6. DiskOK(disk', built)
  BY <1>2, <1>5, DiskPut
<1>7. SavedOK(reg, disk')
  BY <1>2 DEF SavedOK
<1>8. job' \in [Indexes -> {"none", "cold", "fetched"}]
      /\ \A j \in Indexes : job'[j] # "none" => built[j] >= 1 /\ "warmup" \in Events /\ AmOf[j] = "cagra"
  BY <1>1 DEF IInv
<1> QED
  BY <1>1, <1>2, <1>6, <1>7, <1>8 DEF IInv

\* WarmupLoad keeps the invariant.
LEMMA WarmupStep ==
  ASSUME IInv, NEW i \in Indexes, WarmupLoad(i)
  PROVE  IInv'
<1>1. job[i] = "fetched" /\ job' = [job EXCEPT ![i] = "none"] /\ UNCHANGED <<hfile, built>>
      /\ ((disk[i].gen # 0 /\ LoadInto(i)) \/ UNCHANGED <<reg, disk>>)
  BY DEF WarmupLoad
<1>2. "warmup" \in Events
  BY <1>1 DEF IInv
<1>3. RegOK(reg', built) /\ SavedOK(reg', disk') /\ DiskOK(disk', built)
  <2>1. CASE disk[i].gen # 0 /\ LoadInto(i)
    BY <1>2, <2>1, LoadIntoOK
  <2>2. CASE UNCHANGED <<reg, disk>>
    BY <2>2 DEF IInv
  <2> QED
    BY <1>1, <2>1, <2>2
<1>4. job' \in [Indexes -> {"none", "cold", "fetched"}]
      /\ \A j \in Indexes : job'[j] # "none" => built[j] >= 1 /\ "warmup" \in Events /\ AmOf[j] = "cagra"
  BY <1>1 DEF IInv
<1> QED
  BY <1>1, <1>3, <1>4 DEF IInv

\* BuildRenameFails keeps the invariant.
LEMMA RenameFailsStep ==
  ASSUME IInv, NEW i \in Indexes, BuildRenameFails(i)
  PROVE  IInv'
<1>1. "io" \in Events /\ disk' = [disk EXCEPT ![i].gen = 0] /\ UNCHANGED <<reg, hfile, built, job>>
  BY DEF BuildRenameFails
<1>2. built \in [Indexes -> 0 .. MaxGen] /\ RegOK(reg, built) /\ DiskOK(disk, built)
  BY DEF IInv
<1>3. PICK d : d = disk[i]
  OBVIOUS
<1>4. d \in [gen : 0 .. MaxGen, form : Forms, vgen : 0 .. MaxGen] /\ ("reshard" \notin Events => d.form # "sharded")
      /\ built[i] \in Nat /\ MaxGen \in Nat
  BY <1>2, <1>3, DiskFacts
<1>5. PICK r : r = [gen |-> 0, form |-> d.form, vgen |-> d.vgen]
  OBVIOUS
<1>6. disk' = [disk EXCEPT ![i] = r]
  <2>1. r = [d EXCEPT !.gen = 0]
    BY <1>4, <1>5
  <2>2. disk' = [disk EXCEPT ![i] = [d EXCEPT !.gen = 0]]
    BY <1>1, <1>3
  <2> QED
    BY <2>1, <2>2
<1>7. 0 \in 0 .. MaxGen /\ 0 <= built[i]
  BY <1>4
<1>8. r \in [gen : 0 .. MaxGen, form : Forms, vgen : 0 .. MaxGen] /\ r.gen <= built[i] /\ r.form = d.form
  BY <1>4, <1>5, <1>7
<1>9. DiskOK(disk', built)
  BY <1>2, <1>4, <1>6, <1>8, DiskPut
<1>10. SavedOK(reg, disk')
  BY <1>1 DEF SavedOK
<1> QED
  BY <1>1, <1>2, <1>9, <1>10 DEF IInv

\* Drop keeps the invariant.
LEMMA DropStep ==
  ASSUME IInv, NEW i \in Indexes, Drop(i)
  PROVE  IInv'
<1>1. /\ disk' = [disk EXCEPT ![i].gen = 0, ![i].vgen = 0] /\ built' = [built EXCEPT ![i] = MaxGen] /\ UNCHANGED <<hfile, job>>
  BY DEF Drop
<1>2. built \in [Indexes -> 0 .. MaxGen] /\ RegOK(reg, built) /\ DiskOK(disk, built) /\ SavedOK(reg, disk)
  BY DEF IInv
<1>3. PICK d : d = disk[i]
  OBVIOUS
<1>4. d \in [gen : 0 .. MaxGen, form : Forms, vgen : 0 .. MaxGen] /\ ("reshard" \notin Events => d.form # "sharded")
      /\ built[i] \in Nat /\ built[i] <= MaxGen /\ MaxGen \in Nat
  BY <1>2, <1>3, DiskFacts
<1>5. PICK r : r = [gen |-> 0, form |-> d.form, vgen |-> 0]
  OBVIOUS
<1>6. disk' = [disk EXCEPT ![i] = r]
  <2>1. r = [d EXCEPT !.gen = 0, !.vgen = 0]
    <3>1. d = [gen |-> d.gen, form |-> d.form, vgen |-> d.vgen]
      BY <1>4
    <3>2. PICK x : x = [d EXCEPT !.gen = 0]
      OBVIOUS
    <3>3. x = [gen |-> 0, form |-> d.form, vgen |-> d.vgen]
      BY <3>1, <3>2
    <3>4. [x EXCEPT !.vgen = 0] = r
      BY <1>5, <3>3
    <3> QED
      BY <3>2, <3>4
  <2>2. disk' = [disk EXCEPT ![i] = [d EXCEPT !.gen = 0, !.vgen = 0]]
    BY <1>1, <1>3
  <2> QED
    BY <2>1, <2>2
<1>7. 0 \in 0 .. MaxGen /\ 0 <= built[i] /\ MaxGen \in 0 .. MaxGen
  BY <1>4
<1>8. r \in [gen : 0 .. MaxGen, form : Forms, vgen : 0 .. MaxGen] /\ r.gen <= built[i] /\ r.form = d.form
  BY <1>4, <1>5, <1>7
<1>9. DiskOK(disk', built) /\ \A j \in Indexes : j # i => disk'[j] = disk[j]
  <2>1. PICK E : E = [disk EXCEPT ![i] = r]
    OBVIOUS
  <2>2. "reshard" \notin Events => r.form # "sharded"
    BY <1>4, <1>8
  <2>3. DiskOK(E, built)
    BY <1>2, <1>8, <2>1, <2>2, DiskPut
  <2>4. \A j \in Indexes : j # i => E[j] = disk[j]
    BY <1>2, <2>1 DEF DiskOK
  <2> QED
    BY <1>6, <2>1, <2>3, <2>4
<1>10. built' \in [Indexes -> 0 .. MaxGen] /\ built'[i] = MaxGen /\ \A j \in Indexes : built[j] <= built'[j]
  BY <1>1, <1>2, <1>4, <1>7, BuiltMore
<1>11. PICK b : b = built'
  OBVIOUS
<1>12. DiskOK(disk', b) /\ RegOK(reg, b) /\ b \in [Indexes -> 0 .. MaxGen]
  BY <1>2, <1>9, <1>10, <1>11, MoreBuilt, Monotone
<1>13. ASSUME Resident(i) PROVE RegOK(reg', b) /\ SavedOK(reg', disk')
  <2>1. PICK k, e : k = FirstSlot(i) /\ e = reg.slots[k]
    OBVIOUS
  <2>2. k \in 1 .. reg.n /\ e.id = i
    BY <1>13, <2>1, FirstSlotOK
  <2>3. e \in Entries /\ Single(e) /\ ("hnsw" \notin Events => e.hn = {}) /\ reg.n \in Nat
    BY <1>2, <2>1, <2>2, RegOKFacts
  <2>4. PICK c : c = [e EXCEPT !.rev = {}, !.bf = {}, !.dl = {}]
    OBVIOUS
  <2>5. reg' = Remove(reg, k, c, Held(e) \ e.hn)
    BY <1>13, <2>1, <2>4 DEF Drop
  <2>6. c = [id |-> e.id, gen |-> e.gen, form |-> e.form, graph |-> e.graph, rev |-> {}, bf |-> {}, dl |-> {}, hn |-> e.hn]
    BY <2>3, <2>4 DEF Entries
  <2>7. c \in Entries /\ Single(c) /\ c.hn = e.hn
    BY <2>3, <2>6, EntryFields DEF Entries, Single, One
  <2>8. PICK S : S = Held(e) \ e.hn
    OBVIOUS
  <2>9. S \subseteq Held(reg.slots[k]) /\ Held(reg.slots[k]) \ reg.slots[k].hn \subseteq S /\ reg' = Remove(reg, k, c, S)
    BY <2>1, <2>5, <2>8
  <2>10. RegOK(reg', b)
    BY <1>12, <2>2, <2>3, <2>7, <2>9, RemoveOK
  <2>11. reg'.n = reg.n - 1 /\ \A l \in 1 .. reg'.n : reg'.slots[l] = reg.slots[IF l < k THEN l ELSE l + 1]
    <3>1. ArrayOK(reg)
      BY <1>2 DEF RegOK
    <3>2. PICK Q : Q = Remove(reg, k, c, S)
      OBVIOUS
    <3>3. Q.n = reg.n - 1 /\ \A l \in 1 .. Q.n : Q.slots[l] = reg.slots[IF l < k THEN l ELSE l + 1]
      BY <2>2, <2>7, <3>1, <3>2, RemoveShape
    <3> QED
      BY <2>9, <3>2, <3>3
  <2>12. \A l \in 1 .. reg'.n : (IF l < k THEN l ELSE l + 1) \in 1 .. reg.n /\ (IF l < k THEN l ELSE l + 1) # k
    BY <2>2, <2>3, <2>11
  <2>13. \A l \in 1 .. reg'.n : \E m \in 1 .. reg.n : m # k /\ reg'.slots[l] = reg.slots[m]
    BY <2>11, <2>12
  <2>14. ASSUME {"warmup", "io"} \cap Events = {}, NEW l \in 1 .. reg'.n, reg'.slots[l].form # "cagra"
         PROVE  disk'[reg'.slots[l].id].gen = reg'.slots[l].gen /\ disk'[reg'.slots[l].id].form = reg'.slots[l].form
    <3>1. PICK m \in 1 .. reg.n : m # k /\ reg'.slots[l] = reg.slots[m]
      BY <2>13
    <3>2. reg.slots[m].id \in Indexes
      BY <1>2, RegOKFacts, EntryFields
    <3>3. reg.slots[m].id # i
      BY <1>2, <2>1, <2>2, <2>14, <3>1 DEF RegOK, UniqueOK
    <3>4. disk[reg.slots[m].id].gen = reg.slots[m].gen /\ disk[reg.slots[m].id].form = reg.slots[m].form
      BY <1>2, <2>14, <3>1 DEF SavedOK
    <3> QED
      BY <1>9, <3>1, <3>2, <3>3, <3>4
  <2>15. SavedOK(reg', disk')
    BY <2>14 DEF SavedOK
  <2> QED
    BY <1>11, <1>12, <2>10, <2>15
<1>14. ASSUME ~Resident(i) PROVE RegOK(reg', b) /\ SavedOK(reg', disk')
  <2>1. reg' = reg
    BY <1>14 DEF Drop
  <2>2. \A l \in 1 .. reg.n : reg.slots[l].id # i /\ reg.slots[l].id \in Indexes
    BY <1>2, <1>14, RegOKFacts, EntryFields DEF Resident, SlotsOf, Valid
  <2>3. SavedOK(reg', disk')
    BY <1>2, <1>9, <2>1, <2>2 DEF SavedOK
  <2> QED
    BY <1>11, <1>12, <2>1, <2>3
<1>15. RegOK(reg', built') /\ SavedOK(reg', disk') /\ DiskOK(disk', built')
  <2>1. CASE Resident(i)
    BY <1>11, <1>12, <1>13, <2>1
  <2>2. CASE ~Resident(i)
    BY <1>11, <1>12, <1>14, <2>2
  <2> QED
    BY <2>1, <2>2
<1>16. \A j \in Indexes : job'[j] # "none" => built'[j] >= 1 /\ "warmup" \in Events /\ AmOf[j] = "cagra"
  <2>1. \A j \in Indexes : built[j] \in Nat /\ built'[j] \in Nat
    BY <1>2, <1>10, BoundAssumption
  <2>2. \A j \in Indexes : job[j] # "none" => built[j] >= 1 /\ "warmup" \in Events /\ AmOf[j] = "cagra"
    BY DEF IInv
  <2> QED
    BY <1>1, <1>10, <2>1, <2>2
<1> QED
  BY <1>1, <1>10, <1>15, <1>16 DEF IInv

\* A cache of an entry is replaced: exactly its old content is released.
LEMMA FieldOK ==
  ASSUME NEW e \in Entries, Single(e), NEW b, Good(e, b), NEW f \in {"bf", "dl", "hn"}, NEW P \in SUBSET PtrOf(f), One(P),
         f # "hn" => \A p \in P : p.id = e.id /\ p.gen <= b[e.id],
         "hnsw" \notin Events => e.hn = {} /\ f # "hn", NEW c, c = [e EXCEPT ![f] = P]
  PROVE  /\ c \in Entries /\ Single(c) /\ Good(c, b) /\ c.id = e.id /\ c.gen = e.gen /\ c.form = e.form /\ c.rev = e.rev
         /\ "hnsw" \notin Events => c.hn = {} /\ \A p \in P : p.f # "hn"
         /\ P \subseteq Ptr /\ P \subseteq Held(c) /\ e[f] \subseteq Held(e)
         /\ \A p \in Ptr : p \in Held(c) /\ (p \in e[f] \/ p \notin Held(e)) => p \in P
         /\ \A p \in Ptr : p \in P => p \in e[f] \/ p \notin Held(e)
         /\ \A p \in Ptr : p \in Held(e) /\ p \notin Held(c) => p \in e[f]
<1>1. /\ e.id \in Indexes /\ e.gen \in Gens /\ e.form \in Forms
      /\ e.graph \subseteq PtrOf("graph") /\ e.rev \subseteq PtrOf("rev") /\ e.bf \subseteq PtrOf("bf")
      /\ e.dl \subseteq PtrOf("dl") /\ e.hn \subseteq PtrOf("hn")
  BY EntryFields
<1>2. P \subseteq Ptr /\ \A p \in P : p.f = f
  BY DEF PtrOf
<1>3. /\ \A p \in e.graph : p.f = "graph"
      /\ \A p \in e.rev : p.f = "rev"
      /\ \A p \in e.bf : p.f = "bf"
      /\ \A p \in e.dl : p.f = "dl"
      /\ \A p \in e.hn : p.f = "hn"
  BY <1>1 DEF PtrOf
<1>4. PICK bf, dl, hn : /\ bf = IF f = "bf" THEN P ELSE e.bf
                        /\ dl = IF f = "dl" THEN P ELSE e.dl
                        /\ hn = IF f = "hn" THEN P ELSE e.hn
  OBVIOUS
<1>5. c = [id |-> e.id, gen |-> e.gen, form |-> e.form, graph |-> e.graph, rev |-> e.rev, bf |-> bf, dl |-> dl, hn |-> hn]
  <2>1. CASE f = "bf"
    BY <1>4, <2>1 DEF Entries
  <2>2. CASE f = "dl"
    BY <1>4, <2>2 DEF Entries
  <2>3. CASE f = "hn"
    BY <1>4, <2>3 DEF Entries
  <2> QED
    BY <2>1, <2>2, <2>3
<1>6. bf \subseteq PtrOf("bf") /\ dl \subseteq PtrOf("dl") /\ hn \subseteq PtrOf("hn") /\ One(bf) /\ One(dl) /\ One(hn)
  BY <1>1, <1>4 DEF Single
<1>7. c.id = e.id /\ c.gen = e.gen /\ c.form = e.form /\ c.graph = e.graph /\ c.rev = e.rev /\ c.bf = bf /\ c.dl = dl /\ c.hn = hn
  BY <1>5
<1>8. c \in Entries
  BY <1>1, <1>5, <1>6 DEF Entries
<1>9. Single(c)
  BY <1>6, <1>7 DEF Single
<1>10. PICK O : O = e[f]
  OBVIOUS
<1>11. O = IF f = "bf" THEN e.bf ELSE IF f = "dl" THEN e.dl ELSE e.hn
  BY <1>10
<1>12. Held(c) = e.graph \cup e.rev \cup bf \cup dl \cup hn /\ Held(e) = e.graph \cup e.rev \cup e.bf \cup e.dl \cup e.hn
  BY <1>7 DEF Held
<1>13. \A p : p \in Held(c) <=> p \in P \/ (p \in Held(e) /\ p \notin O)
  <2>1. CASE f = "bf"
    BY <1>3, <1>4, <1>11, <1>12, <2>1
  <2>2. CASE f = "dl"
    BY <1>3, <1>4, <1>11, <1>12, <2>2
  <2>3. CASE f = "hn"
    BY <1>3, <1>4, <1>11, <1>12, <2>3
  <2> QED
    BY <2>1, <2>2, <2>3
<1>14. O \subseteq Held(e) /\ \A p \in Held(e) : p.f = f => p \in O
  BY <1>3, <1>11, <1>12
<1>15. Good(c, b)
  <2>1. \A p \in Held(c) : p.f # "hn" => p.id = e.id /\ p.gen <= b[e.id]
    BY <1>2, <1>13 DEF Good
  <2> QED
    BY <1>7, <2>1 DEF Good
<1>16. "hnsw" \notin Events => c.hn = {} /\ \A p \in P : p.f # "hn"
  BY <1>2, <1>4, <1>7
<1>17. \A p \in P : p \in O \/ p \notin Held(e)
  BY <1>2, <1>14
<1> QED
  BY <1>2, <1>7, <1>8, <1>9, <1>10, <1>13, <1>14, <1>15, <1>16, <1>17

\* Filling or clearing a cache keeps the invariant.
LEMMA FieldStep ==
  ASSUME IInv, NEW k \in 1 .. reg.n, NEW f \in {"bf", "dl", "hn"}, NEW P \in SUBSET PtrOf(f), One(P),
         f # "hn" => \A p \in P : p.id = reg.slots[k].id /\ p.gen <= built[reg.slots[k].id],
         f = "hn" => "hnsw" \in Events, WithField(k, f, P), UNCHANGED <<disk, hfile, built, job>>
  PROVE  IInv'
<1>1. built \in [Indexes -> 0 .. MaxGen] /\ RegOK(reg, built) /\ SavedOK(reg, disk)
  BY DEF IInv
<1>2. PICK e, c, O : e = reg.slots[k] /\ c = [e EXCEPT ![f] = P] /\ O = e[f]
  OBVIOUS
<1>3. e \in Entries /\ Single(e) /\ Good(e, built) /\ ("hnsw" \notin Events => e.hn = {})
  BY <1>1, <1>2, RegOKFacts
<1>4. "hnsw" \notin Events => e.hn = {} /\ f # "hn"
  BY <1>3
<1>5. f # "hn" => \A p \in P : p.id = e.id /\ p.gen <= built[e.id]
  BY <1>2
<1>6. /\ c \in Entries /\ Single(c) /\ Good(c, built) /\ c.id = e.id /\ c.gen = e.gen /\ c.form = e.form /\ c.rev = e.rev
      /\ "hnsw" \notin Events => c.hn = {} /\ \A p \in P : p.f # "hn"
      /\ P \subseteq Ptr /\ P \subseteq Held(c) /\ O \subseteq Held(e)
      /\ \A p \in Ptr : p \in Held(c) /\ (p \in O \/ p \notin Held(e)) => p \in P
      /\ \A p \in Ptr : p \in P => p \in O \/ p \notin Held(e)
      /\ \A p \in Ptr : p \in Held(e) /\ p \notin Held(c) => p \in O
  BY <1>2, <1>3, <1>4, <1>5, FieldOK, SMTT(30)
<1>7. PICK s, v : s = [reg.slots EXCEPT ![k] = c] /\ v = Plus(Minus(reg.live, O), P)
  OBVIOUS
<1>8. reg' = [slots |-> s, n |-> reg.n, live |-> v]
  <2>1. reg' = [reg EXCEPT !.slots = [reg.slots EXCEPT ![k] = [reg.slots[k] EXCEPT ![f] = P]],
                           !.live = (reg.live (-) SetToBag(reg.slots[k][f])) (+) SetToBag(P)]
    BY DEF WithField
  <2>2. reg' = [reg EXCEPT !.slots = s, !.live = v]
    BY <1>2, <1>7, <2>1, Zenon DEF Plus, Minus
  <2>3. reg = [slots |-> reg.slots, n |-> reg.n, live |-> reg.live]
    BY <1>1 DEF RegOK, ArrayOK
  <2> QED
    BY <2>2, <2>3
<1>9. "reshard" \notin Events => c.form # "sharded" /\ \A p \in c.rev : p.gen = c.gen
  BY <1>1, <1>2, <1>6 DEF RegOK, MapOK
<1>10. reg' = [slots |-> [reg.slots EXCEPT ![k] = c], n |-> reg.n, live |-> Plus(Minus(reg.live, O), P)]
  BY <1>7, <1>8
<1>11. PICK Q : Q = [slots |-> [reg.slots EXCEPT ![k] = c], n |-> reg.n, live |-> Plus(Minus(reg.live, O), P)]
  OBVIOUS
<1>12. RegOK(Q, built)
  <2>1. /\ c.id = reg.slots[k].id /\ O \subseteq Held(reg.slots[k])
        /\ \A p \in Ptr : p.f # "hn" /\ p \in Held(c) /\ (p \in O \/ p \notin Held(reg.slots[k])) => p \in P
        /\ \A p \in Ptr : p.f \in Exact /\ p \in P => p \in Held(c) /\ (p \in O \/ p \notin Held(reg.slots[k]))
        /\ \A p \in Ptr : p.f \in Exact /\ p \in Held(reg.slots[k]) /\ p \notin Held(c) => p \in O
    BY <1>2, <1>6
  <2> QED
    BY <1>1, <1>6, <1>9, <1>11, <2>1, ReplaceOK
<1>13. Q.n = reg.n /\ Q.slots = [reg.slots EXCEPT ![k] = c]
  BY <1>11
<1>14. {"warmup", "io"} \cap Events = {} /\ c.form # "cagra" => disk[c.id].gen = c.gen /\ disk[c.id].form = c.form
  BY <1>1, <1>2, <1>6 DEF SavedOK
<1>15. SavedOK(Q, disk)
  <2>1. c.id = reg.slots[k].id
    BY <1>2, <1>6
  <2>2. PICK E : E = disk
    OBVIOUS
  <2>3. \A j \in Indexes : j # c.id => E[j] = disk[j]
    BY <2>2
  <2>4. {"warmup", "io"} \cap Events = {} /\ c.form # "cagra" => E[c.id].gen = c.gen /\ E[c.id].form = c.form
    BY <1>14, <2>2
  <2>5. SavedOK(Q, E)
    BY <1>1, <1>13, <2>1, <2>3, <2>4, SavedReplace
  <2> QED
    BY <2>2, <2>5
<1> QED
  BY <1>10, <1>11, <1>12, <1>15 DEF IInv

\* SearchHnsw keeps the invariant.
LEMMA SearchHnswStep ==
  ASSUME IInv, NEW i \in Indexes, SearchHnsw(i)
  PROVE  IInv'
<1>1. PICK k : k = FirstSlot(i)
  OBVIOUS
<1>2. "hnsw" \in Events /\ Resident(i) /\ hfile[i] # 0 /\ WithField(k, "hn", At("hn", i, hfile[i])) /\ UNCHANGED <<disk, hfile, built, job>>
  BY <1>1 DEF SearchHnsw
<1>3. k \in 1 .. reg.n /\ reg.slots[k].id = i
  BY <1>1, <1>2, FirstSlotOK
<1>4. hfile[i] \in Gens
  BY <1>2, BoundAssumption DEF IInv, Gens
<1>5. PICK P : P = At("hn", i, hfile[i])
  OBVIOUS
<1>6. P \in SUBSET PtrOf("hn") /\ One(P)
  BY <1>4, <1>5, AtOK DEF Fields
<1>7. WithField(k, "hn", P)
  BY <1>2, <1>5
<1> QED
  BY <1>2, <1>3, <1>6, <1>7, FieldStep

\* NULL.
LEMMA EmptyField ==
  ASSUME NEW f
  PROVE  {} \in SUBSET PtrOf(f) /\ One({})
BY DEF One

\* A cache of the layout of its entry.
LEMMA CacheStep ==
  ASSUME IInv, NEW i \in Indexes, Resident(i), NEW k, k = FirstSlot(i), NEW f \in {"bf", "dl"},
         WithField(k, f, {}) \/ WithField(k, f, At(f, i, reg.slots[k].gen)), UNCHANGED <<disk, hfile, built, job>>
  PROVE  IInv'
<1>1. k \in 1 .. reg.n /\ reg.slots[k].id = i
  BY FirstSlotOK
<1>2. reg.slots[k] \in Entries /\ Good(reg.slots[k], built)
  BY <1>1, RegOKFacts DEF IInv
<1>3. reg.slots[k].gen \in Gens /\ reg.slots[k].gen <= built[i]
  BY <1>1, <1>2, EntryFields DEF Good
<1>4. f \in {"bf", "dl", "hn"} /\ f # "hn" /\ f \in Fields
  BY DEF Fields
<1>5. CASE WithField(k, f, {})
  BY <1>1, <1>4, <1>5, EmptyField, FieldStep
<1>6. CASE WithField(k, f, At(f, i, reg.slots[k].gen))
  <2>1. PICK P : P = At(f, i, reg.slots[k].gen)
    OBVIOUS
  <2>2. P \in SUBSET PtrOf(f) /\ One(P) /\ \A p \in P : p.id = i /\ p.gen = reg.slots[k].gen
    BY <1>3, <1>4, <2>1, AtOK
  <2>3. \A p \in P : p.id = reg.slots[k].id /\ p.gen <= built[reg.slots[k].id]
    BY <1>1, <1>3, <2>2
  <2>4. WithField(k, f, P)
    BY <1>6, <2>1
  <2> QED
    BY <1>1, <1>4, <2>2, <2>3, <2>4, FieldStep
<1> QED
  BY <1>5, <1>6

\* RefreshBf keeps the invariant.
LEMMA RefreshBfStep ==
  ASSUME IInv, NEW i \in Indexes, RefreshBf(i)
  PROVE  IInv'
<1>1. PICK k : k = FirstSlot(i)
  OBVIOUS
<1>2. /\ Resident(i) /\ UNCHANGED <<disk, hfile, built, job>>
      /\ WithField(k, "bf", {}) \/ WithField(k, "bf", At("bf", i, reg.slots[k].gen))
  BY <1>1 DEF RefreshBf
<1> QED
  BY <1>1, <1>2, CacheStep

\* RefreshDelta keeps the invariant.
LEMMA RefreshDeltaStep ==
  ASSUME IInv, NEW i \in Indexes, RefreshDelta(i)
  PROVE  IInv'
<1>1. PICK k : k = FirstSlot(i)
  OBVIOUS
<1>2. /\ Resident(i) /\ UNCHANGED <<disk, hfile, built, job>>
      /\ WithField(k, "dl", {}) \/ WithField(k, "dl", At("dl", i, reg.slots[k].gen))
  BY <1>1 DEF RefreshDelta
<1> QED
  BY <1>1, <1>2, CacheStep

\* Compact keeps the invariant.
LEMMA CompactStep ==
  ASSUME IInv, NEW i \in Indexes, Compact(i)
  PROVE  IInv'
<1>1. PICK k, e, g : k = FirstSlot(i) /\ e = reg.slots[k] /\ g = built[i] + 1
  OBVIOUS
<1>2. PICK c : c = [e EXCEPT !.gen = g, !.graph = At("graph", i, g), !.rev = At("rev", i, g)]
  OBVIOUS
<1>3. /\ Resident(i) /\ built[i] < MaxGen /\ e.form = "cagra" /\ built' = [built EXCEPT ![i] = g]
      /\ reg' = [reg EXCEPT !.slots[k] = c,
                            !.live = (@ (-) SetToBag(e.graph \cup e.rev)) (+) SetToBag(c.graph \cup c.rev)]
      /\ disk' = DiskSaved(disk, c) \/ ("io" \in Events /\ UNCHANGED disk)
      /\ UNCHANGED <<hfile, job>>
  BY <1>1, <1>2 DEF Compact
<1>4. built \in [Indexes -> 0 .. MaxGen] /\ RegOK(reg, built) /\ SavedOK(reg, disk) /\ DiskOK(disk, built)
  BY DEF IInv
<1>5. k \in 1 .. reg.n /\ e.id = i
  BY <1>1, <1>3, FirstSlotOK
<1>6. e \in Entries /\ Single(e) /\ Good(e, built) /\ ("hnsw" \notin Events => e.hn = {})
  BY <1>1, <1>4, <1>5, RegOKFacts
<1>7. built[i] \in Nat /\ g \in Nat /\ built[i] < g /\ built[i] <= g /\ g \in 0 .. MaxGen /\ g \in Gens /\ Gens \subseteq Nat
  BY <1>1, <1>3, <1>4, BoundAssumption DEF Gens
<1>8. PICK b : b = built'
  OBVIOUS
<1>9. b \in [Indexes -> 0 .. MaxGen] /\ b[i] = g /\ \A j \in Indexes : built[j] <= b[j]
  BY <1>3, <1>4, <1>7, <1>8, BuiltMore
<1>10. RegOK(reg, b) /\ DiskOK(disk, b)
  BY <1>4, <1>9, Monotone, MoreBuilt
<1>11. PICK gr, rv : gr = At("graph", i, g) /\ rv = At("rev", i, g)
  OBVIOUS
<1>12. /\ gr \subseteq PtrOf("graph") /\ One(gr) /\ rv \subseteq PtrOf("rev") /\ One(rv)
       /\ \A p \in gr \cup rv : p.id = i /\ p.gen = g /\ p.f # "hn"
  BY <1>7, <1>11, AtOK DEF Fields
<1>13. c = [id |-> e.id, gen |-> g, form |-> e.form, graph |-> gr, rev |-> rv, bf |-> e.bf, dl |-> e.dl, hn |-> e.hn]
  BY <1>2, <1>6, <1>11 DEF Entries
<1>14. c.id = i /\ c.gen = g /\ c.form = "cagra" /\ c.graph = gr /\ c.rev = rv /\ c.bf = e.bf /\ c.dl = e.dl /\ c.hn = e.hn
  BY <1>3, <1>5, <1>13
<1>15. c \in Entries /\ Single(c)
  <2>1. c \in Entries
    BY <1>6, <1>7, <1>12, <1>13, EntryFields DEF Entries
  <2>2. Single(c)
    BY <1>6, <1>12, <1>14 DEF Single
  <2> QED
    BY <2>1, <2>2
<1>16. ASSUME NEW p \in Held(e), p.f # "hn" PROVE p.id = i /\ p.gen # g /\ p.gen <= g
  <2>1. p.gen \in Nat
    BY <1>6, <1>7, HeldBy DEF Ptr
  <2>2. p.id = i /\ p.gen <= built[i]
    BY <1>5, <1>6, <1>16 DEF Good
  <2> QED
    BY <1>7, <2>1, <2>2
<1>17. Held(c) = gr \cup rv \cup e.bf \cup e.dl \cup e.hn /\ Held(e) = e.graph \cup e.rev \cup e.bf \cup e.dl \cup e.hn
  BY <1>14 DEF Held
<1>18. Good(c, b)
  <2>1. \A p \in Held(c) : p.f # "hn" => p.id = i /\ p.gen <= g
    BY <1>7, <1>12, <1>16, <1>17
  <2> QED
    BY <1>7, <1>9, <1>14, <2>1 DEF Good
<1>19. PICK S, T : S = e.graph \cup e.rev /\ T = gr \cup rv
  OBVIOUS
<1>20. /\ \A p \in e.graph : p.f = "graph"
       /\ \A p \in e.rev : p.f = "rev"
       /\ \A p \in e.bf : p.f = "bf"
       /\ \A p \in e.dl : p.f = "dl"
       /\ \A p \in e.hn : p.f = "hn"
  BY <1>6, EntryFields DEF PtrOf
<1>21. T \subseteq Ptr /\ T \subseteq Held(c) /\ S \subseteq Held(e) /\ \A p \in T : p \notin Held(e)
  <2>1. T \subseteq Ptr
    BY <1>12, <1>19 DEF PtrOf
  <2>2. \A p \in T : p \notin Held(e)
    BY <1>12, <1>16, <1>19
  <2> QED
    BY <1>17, <1>19, <2>1, <2>2
<1>22. \A p : p \in Held(c) /\ (p \in S \/ p \notin Held(e)) => p \in T
  BY <1>17, <1>19, <1>20
<1>23. \A p : p \in Held(e) /\ p \notin Held(c) => p \in S
  BY <1>17, <1>19
<1>24. PICK Q : Q = [slots |-> [reg.slots EXCEPT ![k] = c], n |-> reg.n, live |-> Plus(Minus(reg.live, S), T)]
  OBVIOUS
<1>25. reg' = Q
  <2>1. PICK s, v : s = [reg.slots EXCEPT ![k] = c] /\ v = Plus(Minus(reg.live, S), T)
    OBVIOUS
  <2>2. v = (reg.live (-) SetToBag(e.graph \cup e.rev)) (+) SetToBag(c.graph \cup c.rev)
    BY <1>14, <1>19, <2>1, Zenon DEF Plus, Minus
  <2>3. reg' = [reg EXCEPT !.slots = s, !.live = v]
    BY <1>3, <2>1, <2>2, Zenon
  <2>4. reg = [slots |-> reg.slots, n |-> reg.n, live |-> reg.live]
    BY <1>4 DEF RegOK, ArrayOK
  <2>5. Q = [slots |-> s, n |-> reg.n, live |-> v]
    BY <1>24, <2>1
  <2>6. reg' = [slots |-> s, n |-> reg.n, live |-> v]
    BY <2>3, <2>4
  <2> QED
    BY <2>5, <2>6
<1>26. RegOK(Q, b)
  <2>1. /\ c.id = reg.slots[k].id /\ S \subseteq Held(reg.slots[k])
        /\ \A p \in Ptr : p.f # "hn" /\ p \in Held(c) /\ (p \in S \/ p \notin Held(reg.slots[k])) => p \in T
        /\ \A p \in Ptr : p.f \in Exact /\ p \in T => p \in Held(c) /\ (p \in S \/ p \notin Held(reg.slots[k]))
        /\ \A p \in Ptr : p.f \in Exact /\ p \in Held(reg.slots[k]) /\ p \notin Held(c) => p \in S
    BY <1>1, <1>5, <1>14, <1>21, <1>22, <1>23
  <2>2. "hnsw" \notin Events => c.hn = {} /\ \A p \in T : p.f # "hn"
    BY <1>6, <1>12, <1>14, <1>19
  <2>3. "reshard" \notin Events => c.form # "sharded" /\ \A p \in c.rev : p.gen = c.gen
    BY <1>12, <1>14
  <2> QED
    BY <1>5, <1>10, <1>15, <1>18, <1>21, <1>24, <2>1, <2>2, <2>3, ReplaceOK
<1>27. DiskOK(disk', b) /\ ("io" \notin Events => \A j \in Indexes : j # i => disk'[j] = disk[j])
  <2>1. CASE disk' = DiskSaved(disk, c)
    <3>1. PICK d : d = disk[i]
      OBVIOUS
    <3>2. d \in [gen : 0 .. MaxGen, form : Forms, vgen : 0 .. MaxGen]
      BY <1>4, <3>1, DiskFacts
    <3>3. PICK r : r = [gen |-> g, form |-> "cagra", vgen |-> d.vgen]
      OBVIOUS
    <3>4. r = [[d EXCEPT !.gen = g] EXCEPT !.form = "cagra"]
      <4>1. d = [gen |-> d.gen, form |-> d.form, vgen |-> d.vgen]
        BY <3>2
      <4>2. PICK x : x = [d EXCEPT !.gen = g]
        OBVIOUS
      <4>3. x = [gen |-> g, form |-> d.form, vgen |-> d.vgen]
        BY <4>1, <4>2
      <4>4. [x EXCEPT !.form = "cagra"] = r
        BY <3>3, <4>3
      <4> QED
        BY <4>2, <4>4
    <3>5. disk' = [disk EXCEPT ![i].gen = g, ![i].form = "cagra"]
      BY <1>14, <2>1 DEF DiskSaved
    <3>6. disk' = [disk EXCEPT ![i] = r]
      <4>1. disk \in [Indexes -> [gen : 0 .. MaxGen, form : Forms, vgen : 0 .. MaxGen]]
        BY <1>4 DEF DiskOK
      <4> QED
        BY <3>1, <3>4, <3>5, <4>1
    <3>7. "cagra" \in Forms
      BY DEF Forms
    <3>8. r \in [gen : 0 .. MaxGen, form : Forms, vgen : 0 .. MaxGen] /\ r.gen <= b[i] /\ r.form # "sharded"
      BY <1>7, <1>9, <3>2, <3>3, <3>7
    <3>9. PICK E : E = [disk EXCEPT ![i] = r]
      OBVIOUS
    <3>10. DiskOK(E, b)
      BY <1>9, <1>10, <3>8, <3>9, DiskPut
    <3>11. \A j \in Indexes : j # i => E[j] = disk[j]
      BY <1>4, <3>9 DEF DiskOK
    <3> QED
      BY <3>6, <3>9, <3>10, <3>11
  <2>2. CASE "io" \in Events /\ UNCHANGED disk
    BY <1>10, <2>2
  <2> QED
    BY <1>3, <2>1, <2>2
<1>28. SavedOK(Q, disk')
  <2>1. CASE "io" \in Events
    BY <2>1 DEF SavedOK
  <2>2. CASE "io" \notin Events
    <3>1. Q.n = reg.n /\ Q.slots = [reg.slots EXCEPT ![k] = c] /\ c.id = reg.slots[k].id /\ c.form = "cagra"
      BY <1>1, <1>5, <1>14, <1>24
    <3>2. PICK E : E = disk'
      OBVIOUS
    <3>3. \A j \in Indexes : j # c.id => E[j] = disk[j]
      BY <1>14, <1>27, <2>2, <3>2
    <3>4. SavedOK(Q, E)
      BY <1>4, <1>5, <3>1, <3>3, SavedReplace
    <3> QED
      BY <3>2, <3>4
  <2> QED
    BY <2>1, <2>2
<1>29. \A j \in Indexes : job'[j] # "none" => built'[j] >= 1 /\ "warmup" \in Events /\ AmOf[j] = "cagra"
  <2>1. \A j \in Indexes : built[j] \in Nat /\ b[j] \in Nat
    BY <1>4, <1>9, BoundAssumption
  <2>2. \A j \in Indexes : job[j] # "none" => built[j] >= 1 /\ "warmup" \in Events /\ AmOf[j] = "cagra"
    BY DEF IInv
  <2> QED
    BY <1>3, <1>8, <1>9, <2>1, <2>2
<1> QED
  BY <1>3, <1>8, <1>9, <1>25, <1>26, <1>27, <1>28, <1>29 DEF IInv

\* Registering a build: over the entry of the index, or in a slot of its own,
\* or not at all when there is no room.
LEMMA RegisteredOK ==
  ASSUME IInv, NEW i \in Indexes, NEW g \in Gens, g > built[i], NEW form \in Forms,
         form = "sharded" => "reshard" \in Events, NEW b \in [Indexes -> 0 .. MaxGen], b[i] = g,
         \A j \in Indexes : built[j] <= b[j], NEW m \in Registered(i, g, form)
  PROVE  /\ RegOK(m.reg, b) /\ DiskOK(m.disk, b)
         /\ \A E : E[i].gen = g /\ E[i].form = form /\ (\A j \in Indexes : j # i => E[j] = m.disk[j]) => SavedOK(m.reg, E)
<1>1. built \in [Indexes -> 0 .. MaxGen] /\ RegOK(reg, built) /\ SavedOK(reg, disk) /\ DiskOK(disk, built)
  BY DEF IInv
<1>2. g <= b[i]
  BY BoundAssumption DEF Gens
<1>4. RegOK(reg, b) /\ DiskOK(disk, b)
  BY <1>1, Monotone, MoreBuilt
<1>8. ASSUME Resident(i)
      PROVE  /\ RegOK(m.reg, b) /\ DiskOK(m.disk, b)
             /\ \A E : E[i].gen = g /\ E[i].form = form /\ (\A j \in Indexes : j # i => E[j] = m.disk[j]) => SavedOK(m.reg, E)
  <2>1. PICK k, e, c, S, T : /\ k = FirstSlot(i) /\ e = reg.slots[k] /\ c = Rebuilt(e, g, form)
                             /\ S = FreedByRebuild(e, form) /\ T = Held(c) \ Held(e)
    OBVIOUS
  <2>2. k \in 1 .. reg.n /\ e.id = i
    BY <1>8, <2>1, FirstSlotOK
  <2>3. PICK s, v : s = [reg.slots EXCEPT ![k] = c] /\ v = Plus(Minus(reg.live, S), T)
    OBVIOUS
  <2>4. v = (reg.live (-) SetToBag(S)) (+) SetToBag(Held(c) \ Held(e))
    BY <2>1, <2>3, Zenon DEF Plus, Minus
  <2>5. m = [reg |-> [slots |-> s, n |-> reg.n, live |-> v], disk |-> disk]
    BY <1>8, <2>1, <2>3, <2>4, Zenon DEF Registered
  <2>6. m.reg = [slots |-> s, n |-> reg.n, live |-> v] /\ m.disk = disk
    BY <2>5
  <2>7. e \in Entries /\ Single(e) /\ Good(e, built) /\ ("hnsw" \notin Events => e.hn = {})
    BY <1>1, <2>1, <2>2, RegOKFacts
  <2>8. /\ c \in Entries /\ Single(c) /\ Good(c, b) /\ c.id = e.id /\ c.gen = g /\ c.form = form
        /\ "hnsw" \notin Events => c.hn = {}
        /\ "reshard" \notin Events => c.form # "sharded" /\ \A p \in c.rev : p.gen = c.gen
        /\ S \subseteq Held(e)
        /\ \A p \in Ptr : p.f # "hn" /\ p \in Held(c) => p \notin S
        /\ \A p \in Ptr : p.f \in Exact /\ p \in Held(e) /\ p \notin Held(c) => p \in S
    <3>1. g > built[e.id] /\ b[e.id] = g
      BY <2>2
    <3> QED
      BY <1>1, <2>1, <2>7, <3>1, RebuiltOK
  <2>9. T \subseteq Ptr /\ ("hnsw" \notin Events => c.hn = {} /\ \A p \in T : p.f # "hn")
    <3>1. Held(c) \subseteq Ptr /\ \A p \in Held(c) : p.f = "hn" <=> p \in c.hn
      BY <2>8, HeldBy
    <3> QED
      BY <2>1, <2>8, <3>1
  <2>10. m.reg = [slots |-> [reg.slots EXCEPT ![k] = c], n |-> reg.n, live |-> Plus(Minus(reg.live, S), T)]
    BY <2>3, <2>6
  <2>11. /\ c.id = reg.slots[k].id /\ S \subseteq Held(reg.slots[k])
         /\ \A p \in Ptr : p.f # "hn" /\ p \in Held(c) /\ (p \in S \/ p \notin Held(reg.slots[k])) => p \in T
         /\ \A p \in Ptr : p.f \in Exact /\ p \in T => p \in Held(c) /\ (p \in S \/ p \notin Held(reg.slots[k]))
         /\ \A p \in Ptr : p.f \in Exact /\ p \in Held(reg.slots[k]) /\ p \notin Held(c) => p \in S
    BY <2>1, <2>8
  <2>12. RegOK(m.reg, b)
    BY <1>4, <2>2, <2>8, <2>9, <2>10, <2>11, ReplaceOK
  <2>16. ASSUME NEW E, E[i].gen = g, E[i].form = form, \A j \in Indexes : j # i => E[j] = m.disk[j]
         PROVE  SavedOK(m.reg, E)
    <3>1. m.reg.n = reg.n /\ m.reg.slots = [reg.slots EXCEPT ![k] = c]
      BY <2>3, <2>6
    <3>2. E[c.id].gen = c.gen /\ E[c.id].form = c.form
      BY <2>2, <2>8, <2>16
    <3>3. \A j \in Indexes : j # c.id => E[j] = disk[j]
      BY <2>2, <2>6, <2>8, <2>16
    <3>4. PICK Q : Q = m.reg
      OBVIOUS
    <3>5. Q.n = reg.n /\ Q.slots = [reg.slots EXCEPT ![k] = c] /\ c.id = reg.slots[k].id
      BY <2>11, <3>1, <3>4
    <3>6. SavedOK(Q, E)
      BY <1>1, <2>2, <3>2, <3>3, <3>5, SavedReplace
    <3> QED
      BY <3>4, <3>6
  <2> QED
    BY <1>4, <2>6, <2>12, <2>16
<1>9. ASSUME ~Resident(i)
      PROVE  /\ RegOK(m.reg, b) /\ DiskOK(m.disk, b)
             /\ \A E : E[i].gen = g /\ E[i].form = form /\ (\A j \in Indexes : j # i => E[j] = m.disk[j]) => SavedOK(m.reg, E)
  <2>1. PICK q \in Rooms(reg, disk) : m = IF q.reg.n < MaxIndexes
                                          THEN [reg |-> Push(q.reg, NewEntry(i, g, form)), disk |-> q.disk] ELSE q
    BY <1>9 DEF Registered
  <2>2. /\ RegOK(q.reg, b) /\ SavedOK(q.reg, q.disk) /\ DiskOK(q.disk, b)
        /\ \A l \in 1 .. q.reg.n : \E j \in 1 .. reg.n : q.reg.slots[l] = reg.slots[j]
    BY <1>1, <1>4, RoomsOK
  <2>3. m.disk = q.disk
    <3>1. CASE q.reg.n < MaxIndexes
      BY <2>1, <3>1
    <3>2. CASE ~(q.reg.n < MaxIndexes)
      BY <2>1, <3>2
    <3> QED
      BY <3>1, <3>2
  <2>7. \A l \in 1 .. q.reg.n : q.reg.slots[l].id # i /\ q.reg.slots[l].id \in Indexes
    <3>1. \A l \in 1 .. reg.n : reg.slots[l].id # i
      BY <1>9 DEF Resident, SlotsOf, Valid
    <3>2. \A l \in 1 .. q.reg.n : q.reg.slots[l].id \in Indexes
      BY <2>2, RegOKFacts, EntryFields
    <3> QED
      BY <2>2, <3>1, <3>2
  <2>8. ASSUME NEW E, E[i].gen = g, E[i].form = form, \A j \in Indexes : j # i => E[j] = m.disk[j]
        PROVE  SavedOK(q.reg, E)
    BY <2>2, <2>3, <2>7, <2>8 DEF SavedOK
  <2>9. CASE q.reg.n < MaxIndexes
    <3>1. PICK e, R, rev : e = NewEntry(i, g, form) /\ R = q.reg /\ rev = IF form = "sharded" THEN {} ELSE At("rev", i, g)
      OBVIOUS
    <3>2. m.reg = Push(R, e)
      BY <2>1, <2>9, <3>1
    <3>3. At("rev", i, g) \in SUBSET PtrOf("rev") /\ One(At("rev", i, g)) /\ \A p \in At("rev", i, g) : p.gen = g
      BY AtOK DEF Fields
    <3>4. rev \in SUBSET PtrOf("rev") /\ One(rev) /\ rev \subseteq At("rev", i, g) /\ \A p \in rev : p.gen = g
      BY <3>1, <3>3 DEF One
    <3>5. e = Entry(i, g, form, rev, {}) /\ {} \in SUBSET PtrOf("hn") /\ One({})
      BY <3>1 DEF NewEntry, One
    <3>6. e \in Entries /\ Single(e) /\ e.id = i /\ e.gen = g /\ e.form = form /\ e.rev = rev /\ e.hn = {}
          /\ e.bf = {} /\ e.dl = {} /\ e.graph \subseteq At("graph", i, g)
      BY <3>4, <3>5, EntryOK
    <3>7. Good(e, b)
      <4>1. g <= b[i] /\ e.rev \subseteq At("rev", i, g)
        BY <1>2, <3>4, <3>6
      <4> QED
        BY <3>6, <4>1, GoodEntry
    <3>8. \A l \in 1 .. R.n : R.slots[l].id # e.id
      BY <2>7, <3>1, <3>6
    <3>9. "reshard" \notin Events => e.form # "sharded" /\ \A p \in e.rev : p.gen = e.gen
      BY <3>4, <3>6
    <3>10. RegOK(R, b) /\ R.n < MaxIndexes
      BY <2>2, <2>9, <3>1
    <3>11. RegOK(m.reg, b)
      BY <3>2, <3>6, <3>7, <3>8, <3>9, <3>10, PushOK
    <3>12. ASSUME NEW E, E[i].gen = g, E[i].form = form, \A j \in Indexes : j # i => E[j] = m.disk[j]
           PROVE  SavedOK(m.reg, E)
      <4>1. SavedOK(R, E)
        BY <2>8, <3>1, <3>12
      <4>2. E[e.id].gen = e.gen /\ E[e.id].form = e.form
        BY <3>6, <3>12
      <4>3. SavedOK(Push(R, e), E)
        BY <3>6, <3>10, <4>1, <4>2, PushSaved
      <4> QED
        BY <3>2, <4>3
    <3> QED
      BY <2>2, <2>3, <3>11, <3>12
  <2>10. CASE ~(q.reg.n < MaxIndexes)
    <3>1. m = q
      BY <2>1, <2>10
    <3> QED
      BY <2>2, <2>3, <2>8, <3>1
  <2> QED
    BY <2>9, <2>10
<1> QED
  BY <1>8, <1>9

\* Build keeps the invariant.
LEMMA BuildStep ==
  ASSUME IInv, NEW i \in Indexes, NEW form \in Forms, Build(i, form)
  PROVE  IInv'
<1>1. PICK g : g = built[i] + 1
  OBVIOUS
<1>2. /\ built[i] < MaxGen /\ form \in FormsOf(i) /\ built' = [built EXCEPT ![i] = g] /\ UNCHANGED job
      /\ \E m \in Registered(i, g, form) :
           /\ reg' = m.reg
           /\ disk' = [m.disk EXCEPT ![i] = [gen |-> g, form |-> form, vgen |-> g]]
           /\ UNCHANGED hfile \/ hfile' = [hfile EXCEPT ![i] = g]
  BY <1>1 DEF Build
<1>3. PICK m \in Registered(i, g, form) :
        /\ reg' = m.reg
        /\ disk' = [m.disk EXCEPT ![i] = [gen |-> g, form |-> form, vgen |-> g]]
        /\ UNCHANGED hfile \/ hfile' = [hfile EXCEPT ![i] = g]
  BY <1>2
<1>4. form = "sharded" => "reshard" \in Events
  BY <1>2, AmAssumption DEF FormsOf
<1>5. built \in [Indexes -> 0 .. MaxGen] /\ hfile \in [Indexes -> 0 .. MaxGen]
  BY DEF IInv
<1>6. built[i] \in Nat /\ built[i] <= g /\ g > built[i] /\ g \in 0 .. MaxGen /\ g \in Gens
  BY <1>1, <1>2, <1>5, BoundAssumption DEF Gens
<1>7. PICK b : b = [built EXCEPT ![i] = g]
  OBVIOUS
<1>8. b \in [Indexes -> 0 .. MaxGen] /\ b[i] = g /\ \A j \in Indexes : built[j] <= b[j]
  BY <1>5, <1>6, <1>7, BuiltMore
<1>9. RegOK(reg', b) /\ SavedOK(reg', disk') /\ DiskOK(disk', b)
  <2>1. /\ RegOK(m.reg, b) /\ DiskOK(m.disk, b)
        /\ \A E : E[i].gen = g /\ E[i].form = form /\ (\A j \in Indexes : j # i => E[j] = m.disk[j]) => SavedOK(m.reg, E)
    BY <1>4, <1>6, <1>8, RegisteredOK
  <2>2. PICK D, r : D = m.disk /\ r = [gen |-> g, form |-> form, vgen |-> g]
    OBVIOUS
  <2>3. r \in [gen : 0 .. MaxGen, form : Forms, vgen : 0 .. MaxGen] /\ r.gen = g /\ r.form = form
    BY <1>6, <2>2
  <2>4. r.gen <= b[i] /\ ("reshard" \notin Events => r.form # "sharded")
    BY <1>4, <1>6, <1>8, <2>3
  <2>5. PICK E : E = [D EXCEPT ![i] = r]
    OBVIOUS
  <2>6. DiskOK(E, b)
    <3>1. DiskOK(D, b)
      BY <2>1, <2>2
    <3> QED
      BY <1>8, <2>3, <2>4, <2>5, <3>1, DiskPut
  <2>7. E[i] = r /\ \A j \in Indexes : j # i => E[j] = D[j]
    BY <2>1, <2>2, <2>5 DEF DiskOK
  <2>8. SavedOK(m.reg, E)
    BY <2>1, <2>2, <2>3, <2>7
  <2>9. disk' = E
    BY <1>3, <2>2, <2>5
  <2> QED
    BY <1>3, <2>1, <2>6, <2>8, <2>9
<1>10. hfile' \in [Indexes -> 0 .. MaxGen]
  BY <1>3, <1>5, <1>6
<1>11. \A j \in Indexes : job'[j] # "none" => built'[j] >= 1 /\ "warmup" \in Events /\ AmOf[j] = "cagra"
  <2>1. \A j \in Indexes : built[j] \in Nat /\ b[j] \in Nat
    BY <1>5, <1>8, BoundAssumption
  <2>2. \A j \in Indexes : job[j] # "none" => built[j] >= 1 /\ "warmup" \in Events /\ AmOf[j] = "cagra"
    BY DEF IInv
  <2> QED
    BY <1>2, <1>7, <1>8, <2>1, <2>2
<1> QED
  BY <1>2, <1>7, <1>8, <1>9, <1>10, <1>11 DEF IInv

\* The invariant holds in every state the registry reaches, for any indexes,
\* any g_max_indexes and any choice of what else may happen.
THEOREM RegistryInvariant == Spec => []IInv
<1>1. Init => IInv
  BY InitOK
<1>2. IInv /\ [Next]_vars => IInv'
  <2> SUFFICES ASSUME IInv, [Next]_vars PROVE IInv'
    OBVIOUS
  <2>1. CASE Next
    <3>1. ASSUME NEW k \in 1 .. MaxIndexes, Evict(k) PROVE IInv'
      BY <3>1, EvictStep
    <3>2. ASSUME NEW i \in Indexes,
                 \/ Load(i) \/ Download(i) \/ WarmupLoad(i)
                 \/ (\E form \in Forms : Build(i, form)) \/ BuildRenameFails(i) \/ Compact(i)
                 \/ SearchHnsw(i) \/ RefreshBf(i) \/ RefreshDelta(i)
                 \/ Drop(i)
          PROVE  IInv'
      BY <3>2, LoadStep, DownloadStep, WarmupStep, BuildStep, RenameFailsStep, CompactStep, SearchHnswStep,
         RefreshBfStep, RefreshDeltaStep, DropStep
    <3> QED
      BY <2>1, <3>1, <3>2 DEF Next
  <2>2. CASE UNCHANGED vars
    BY <2>2 DEF vars, IInv
  <2> QED
    BY <2>1, <2>2
<1> QED
  BY <1>1, <1>2, PTL DEF Spec

\* At most one pointer.
LEMMA OneCard ==
  ASSUME NEW S, One(S)
  PROVE  Cardinality(S) <= 1
<1>1. CASE S = {}
  BY <1>1, FS_EmptySet
<1>2. CASE S # {}
  <2>1. PICK x : x \in S
    BY <1>2
  <2>2. S = {x}
    BY <2>1 DEF One
  <2>3. Cardinality({x}) = 1
    BY FS_Singleton
  <2> QED
    BY <2>2, <2>3
<1> QED
  BY <1>1, <1>2

\* The types of an entry, as TypeOK states them.
LEMMA EntryTyped ==
  ASSUME NEW e \in Entries, Single(e)
  PROVE  /\ e.id \in Indexes /\ e.gen \in Gens /\ e.form \in Forms
         /\ Held(e) \subseteq Ptr
         /\ \A f \in Fields : Cardinality(e[f]) <= 1
<1>1. e["graph"] = e.graph /\ e["rev"] = e.rev /\ e["bf"] = e.bf /\ e["dl"] = e.dl /\ e["hn"] = e.hn
  OBVIOUS
<1>2. \A f \in Fields : One(e[f])
  BY <1>1 DEF Fields, Single
<1> QED
  BY <1>2, EntryFields, HeldBy, OneCard

\* The array never outgrows g_max_indexes, and a slot always holds an entry.
THEOREM RegistryTypeOK == Spec => []TypeOK
<1>1. IInv => TypeOK
  <2> SUFFICES ASSUME IInv PROVE TypeOK
    OBVIOUS
  <2>1. RegOK(reg, built) /\ DiskOK(disk, built) /\ built \in [Indexes -> 0 .. MaxGen] /\ hfile \in [Indexes -> 0 .. MaxGen]
        /\ job \in [Indexes -> {"none", "cold", "fetched"}]
    BY DEF IInv
  <2>2. reg.n \in Nat /\ reg.n <= Len(reg.slots) /\ Len(reg.slots) <= MaxIndexes /\ Len(reg.slots) \in Nat /\ reg.slots \in Seq(Entries)
    BY <2>1, RegOKFacts
  <2>3. reg.n \in 0 .. MaxIndexes /\ Len(reg.slots) \in reg.n .. MaxIndexes /\ DOMAIN reg.slots = 1 .. Len(reg.slots)
    BY <2>2, BoundAssumption
  <2>4. ASSUME NEW k \in DOMAIN reg.slots
        PROVE  LET e == reg.slots[k] IN
               /\ e.id \in Indexes /\ e.gen \in Gens /\ e.form \in Forms
               /\ Held(e) \subseteq Ptr
               /\ \A f \in Fields : Cardinality(e[f]) <= 1
    <3>1. reg.slots[k] \in Entries
      BY <2>2, <2>3
    <3>2. Single(reg.slots[k])
      BY <2>1, <2>3 DEF RegOK, ArrayOK
    <3> QED
      BY <3>1, <3>2, EntryTyped
  <2>5. IsABag(reg.live) /\ BagToSet(reg.live) \subseteq Ptr
    BY <2>1 DEF RegOK, CountOK, BagToSet
  <2>6. disk \in [Indexes -> [gen : 0 .. MaxGen, form : Forms, vgen : 0 .. MaxGen]]
    BY <2>1 DEF DiskOK
  <2> QED
    BY <2>1, <2>3, <2>4, <2>5, <2>6 DEF TypeOK
<1> QED
  BY <1>1, RegistryInvariant, PTL

\* The two ways to count who holds a pointer.
LEMMA HoldersHolds ==
  ASSUME NEW p
  PROVE  Holders(p) = Cardinality(Holds(reg, p))
BY DEF Holders, Holds, Valid

\* An entry owns what it holds besides hnsw_idx.
LEMMA OwnedByGpu ==
  ASSUME IInv, NEW k \in Valid, NEW p \in Held(reg.slots[k]), p.f # "hn"
  PROVE  Owned(p, k)
<1>1. RegOK(reg, built) /\ k \in 1 .. reg.n
  BY DEF IInv, Valid
<1>2. reg.slots[k] \in Entries /\ Good(reg.slots[k], built)
  BY <1>1, RegOKFacts
<1>3. p \in Ptr
  BY <1>2, HeldBy
<1>4. Cardinality(Holds(reg, p)) <= Copies(p, reg.live)
  BY <1>1, <1>3 DEF RegOK, CountOK
<1> QED
  BY <1>2, <1>4, HoldersHolds DEF Good, Owned

\* Whatever is loaded, evicted, compacted, rebuilt and dropped, in any order: no
\* field but hnsw_idx holds a pointer that was freed, that another entry holds
\* too, or that belongs to another index (evict_lru, load_index, build_sharded).
THEOREM EntriesOwnGpuPointers == Spec => []OwnsGpuPointers
<1>1. IInv => OwnsGpuPointers
  <2> SUFFICES ASSUME IInv, NEW k \in Valid, NEW p \in Held(reg.slots[k]) \ reg.slots[k].hn PROVE Owned(p, k)
    BY DEF OwnsGpuPointers
  <2>1. reg.slots[k] \in Entries
    BY RegOKFacts DEF IInv, Valid
  <2>2. p.f # "hn"
    BY <2>1, HeldBy
  <2> QED
    BY <2>2, OwnedByGpu
<1> QED
  BY <1>1, RegistryInvariant, PTL

\* The same for hnsw_idx, when no session sets cuvs.cpu_hnsw_fallback.  (With it,
\* load_index lets an entry inherit the hnsw_idx of the slot past the end.)
THEOREM EntriesOwnPointers ==
  ASSUME "hnsw" \notin Events
  PROVE  Spec => []OwnsPointers
<1>1. IInv => OwnsPointers
  <2> SUFFICES ASSUME IInv, NEW k \in Valid, NEW p \in Held(reg.slots[k]) PROVE Owned(p, k)
    BY DEF OwnsPointers
  <2>1. reg.slots[k] \in Entries /\ reg.slots[k].hn = {}
    BY RegOKFacts DEF IInv, Valid
  <2>2. p.f # "hn"
    BY <2>1, HeldBy
  <2> QED
    BY <2>2, OwnedByGpu
<1> QED
  BY <1>1, RegistryInvariant, PTL

\* What is allocated for the fields in Exact is held.
LEMMA ExactCount ==
  ASSUME IInv, NEW p \in BagToSet(reg.live), p.f \in Exact
  PROVE  Copies(p, reg.live) <= Holders(p)
<1>1. RegOK(reg, built)
  BY DEF IInv
<1>2. p \in Ptr /\ Copies(p, reg.live) <= Cardinality(Holds(reg, p))
  BY <1>1 DEF RegOK, CountOK, BagToSet
<1> QED
  BY <1>2, HoldersHolds

\* No path loses a graph, a delta copy or a reverse map: all that is allocated
\* is held by an entry, whatever happens.
THEOREM NoGraphIsLeaked == Spec => []NoGraphLeak
<1>1. IInv => NoGraphLeak
  <2> SUFFICES ASSUME IInv, NEW p \in BagToSet(reg.live), p.f \in {"graph", "dl", "rev"}
               PROVE  Copies(p, reg.live) <= Holders(p)
    BY DEF NoGraphLeak
  <2>1. p.f \in Exact
    BY DEF Exact
  <2> QED
    BY <2>1, ExactCount
<1> QED
  BY <1>1, RegistryInvariant, PTL

\* Nothing leaks at all without sharded builds (build_sharded forgets
\* main_bf_idx) and without hnsw_idx (handle_drop forgets it).
THEOREM NothingIsLeaked ==
  ASSUME "hnsw" \notin Events, "reshard" \notin Events
  PROVE  Spec => []NoLeak
<1>1. IInv => NoLeak
  <2> SUFFICES ASSUME IInv, NEW p \in BagToSet(reg.live) PROVE Copies(p, reg.live) <= Holders(p)
    BY DEF NoLeak
  <2>1. p \in Ptr /\ p.f # "hn"
    BY DEF IInv, RegOK, CountOK, HnswOK, BagToSet
  <2>2. p.f \in Exact
    BY <2>1 DEF Exact, Ptr, Fields
  <2> QED
    BY <2>2, ExactCount
<1> QED
  BY <1>1, RegistryInvariant, PTL

\* Without warmup jobs, which call load_index without find_index, no index is
\* registered twice.
THEOREM RegisteredOnce ==
  ASSUME "warmup" \notin Events
  PROVE  Spec => []OnePerIndex
<1>1. IInv => OnePerIndex
  BY DEF IInv, RegOK, UniqueOK, OnePerIndex, Valid
<1> QED
  BY <1>1, RegistryInvariant, PTL

\* Without sharded builds, which leave rev_tids alone, the reverse map of an entry
\* is that of its TIDs: after a rebuild, a COMPACT, an eviction and a load alike.
THEOREM MapIsCurrent ==
  ASSUME "reshard" \notin Events
  PROVE  Spec => []MapMatches
<1>1. IInv => MapMatches
  BY DEF IInv, RegOK, MapOK, MapMatches, Valid
<1> QED
  BY <1>1, RegistryInvariant, PTL

\* Without I/O failures and warmup jobs, what evict_lru drops unsaved can be loaded
\* from disk in the layout the entry had.
THEOREM EvictionIsSafe ==
  ASSUME "io" \notin Events, "warmup" \notin Events
  PROVE  Spec => []EvictionLosesNothing
<1>1. IInv => EvictionLosesNothing
  BY DEF IInv, SavedOK, EvictionLosesNothing, Valid
<1> QED
  BY <1>1, RegistryInvariant, PTL
=============================================================================

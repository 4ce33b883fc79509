-------------------------- MODULE VramBudgetProofs --------------------------
(***************************************************************************)
(* Proofs about VramBudget for any number of GPUs, any finite set of       *)
(* indexes, any sizes, budgets and numbers of shards: the reservations are *)
(* those of the running builds, every block is counted, a refusal has a    *)
(* cause, a GPU goes over its budget only for the causes that are named,   *)
(* and nothing is evicted while there is room.                             *)
(*                                                                         *)
(* What a GPU counts is a sum over a finite set of blocks.  The first part *)
(* proves what the sum of the library is, from its definition, by          *)
(* induction over finite sets; the second is the inductive invariant with  *)
(* one lemma for each action; the third is about single steps.             *)
(***************************************************************************)
EXTENDS VramBudget, FiniteSetTheorems, WellFoundedInduction, TLAPS

\* A set of naturals that is not empty has a least element.
LEMMA LeastNat ==
  ASSUME NEW T \in SUBSET Nat, T # {}
  PROVE  \E x \in T : \A y \in T : x <= y
<1> DEFINE R == OpToRel(<, Nat)
<1>1. IsWellFoundedOn(R, Nat)
  BY NatLessThanWellFounded
<1>3. \A y, x \in Nat : <<y, x>> \in R <=> y < x
  BY DEF OpToRel
<1> HIDE DEF R
<1>2. PICK x \in T : \A y \in T : ~(<<y, x>> \in R)
  BY <1>1, WFMin
<1>4. ASSUME NEW y \in T PROVE x <= y
  <2>1. x \in Nat /\ y \in Nat /\ ~(y < x)
    BY <1>2, <1>3
  <2> QED
    BY <2>1
<1> QED
  BY <1>4

\* Induction over the naturals, stated with a set.
LEMMA SetInduction ==
  ASSUME NEW G, 0 \in G, \A n \in Nat : n \in G => n + 1 \in G
  PROVE  Nat \subseteq G
<1> SUFFICES ASSUME Nat \ G # {} PROVE FALSE
  OBVIOUS
<1>1. PICK x \in Nat \ G : \A y \in Nat \ G : x <= y
  BY LeastNat
<1>2. x - 1 \in Nat /\ x - 1 \in G /\ x = (x - 1) + 1
  BY <1>1
<1> QED
  BY <1>1, <1>2

\* Among subsets of a finite set there is a smallest one for inclusion.
LEMMA MinimalSubset ==
  ASSUME NEW S, IsFiniteSet(S), NEW B \in SUBSET (SUBSET S), B # {}
  PROVE  \E T \in B : \A U \in B : U \subseteq T => U = T
<1> DEFINE R == StrictSubsetOrdering(S)
<1>1. IsWellFoundedOn(R, SUBSET S)
  BY FS_StrictSubsetOrderingWellFounded, FS_FiniteSubsetsOfFinite
<1>3. \A y, x \in SUBSET S : <<y, x>> \in R <=> y \subseteq x /\ y # x
  BY DEF StrictSubsetOrdering
<1> HIDE DEF R
<1>2. \E x \in B : \A y \in B : ~(<<y, x>> \in R)
  BY <1>1, WFMin
<1> QED
  BY <1>2, <1>3

\* h sums f over the subsets of S, one chosen element after the other.
Rec(f, S, h) == \A s \in SUBSET S : h[s] = IF s = {} THEN 0
                                               ELSE f[CHOOSE x \in s : TRUE] + h[s \ {CHOOSE x \in s : TRUE}]

\* The same as one step of the definition of the library's fold.
Iter(f, S, h) ==
  [s \in SUBSET S |-> IF s = {} THEN 0
                          ELSE f[CHOOSE x \in s : TRUE] + h[s \ {CHOOSE x \in s : TRUE}]]

\* The recursion of the fold has a solution on the subsets of a finite set.
LEMMA IterExists ==
  ASSUME NEW S, IsFiniteSet(S), NEW f, \A x \in S : f[x] \in Int
  PROVE  \E h \in [SUBSET S -> Int] : h = Iter(f, S, h)
<1> DEFINE Lev(n) == {s \in SUBSET S : Cardinality(s) <= n}
           G == {n \in Nat : \E h \in [Lev(n) -> Int] : \A s \in Lev(n) : h[s] = IF s = {} THEN 0
                     ELSE f[CHOOSE x \in s : TRUE] + h[s \ {CHOOSE x \in s : TRUE}]}
<1>1. \A s \in SUBSET S : IsFiniteSet(s) /\ Cardinality(s) \in Nat /\ (s = {} <=> Cardinality(s) = 0)
  BY FS_Subset, FS_CardinalityType, FS_EmptySet
<1>2. \A s \in SUBSET S : s # {} => LET x == CHOOSE x \in s : TRUE IN
           x \in s /\ s \ {x} \in SUBSET S /\ Cardinality(s \ {x}) = Cardinality(s) - 1
  BY <1>1, FS_RemoveElement
<1>3. 0 \in G
  <2>1. Lev(0) = {{}}
    BY <1>1
  <2> DEFINE h == [s \in Lev(0) |-> 0]
  <2>2. h \in [Lev(0) -> Int] /\ \A s \in Lev(0) : s = {} /\ h[s] = 0
    BY <2>1
  <2> HIDE DEF h, Lev
  <2> QED
    BY <2>2
<1>4. ASSUME NEW n \in Nat, n \in G PROVE n + 1 \in G
  <2>1. PICK h \in [Lev(n) -> Int] : \A s \in Lev(n) : h[s] = IF s = {} THEN 0
                     ELSE f[CHOOSE x \in s : TRUE] + h[s \ {CHOOSE x \in s : TRUE}]
    BY <1>4
  <2> DEFINE k == [s \in Lev(n + 1) |-> IF s \in Lev(n) THEN h[s]
                     ELSE f[CHOOSE x \in s : TRUE] + h[s \ {CHOOSE x \in s : TRUE}]]
  <2>2. \A s \in Lev(n + 1) : s # {} => (CHOOSE x \in s : TRUE) \in S /\ s \ {CHOOSE x \in s : TRUE} \in Lev(n)
    BY <1>1, <1>2
  <2>3. Lev(n) \subseteq Lev(n + 1) /\ \A s \in Lev(n + 1) : s \notin Lev(n) => s # {}
    BY <1>1
  <2> HIDE DEF Lev
  <2>4. \A s \in Lev(n + 1) : s # {} => f[CHOOSE x \in s : TRUE] + h[s \ {CHOOSE x \in s : TRUE}] \in Int
    BY <2>2
  <2>5. k \in [Lev(n + 1) -> Int]
    BY <2>3, <2>4
  <2>6. \A s \in Lev(n) : k[s] = h[s]
    BY <2>3
  <2>7. \A s \in Lev(n + 1) : k[s] = IF s = {} THEN 0
                     ELSE f[CHOOSE x \in s : TRUE] + h[s \ {CHOOSE x \in s : TRUE}]
    BY <2>1, <2>3
  <2> HIDE DEF k
  <2>8. \A s \in Lev(n + 1) : k[s] = IF s = {} THEN 0
                     ELSE f[CHOOSE x \in s : TRUE] + k[s \ {CHOOSE x \in s : TRUE}]
    BY <2>2, <2>6, <2>7
  <2>9. \E g \in [Lev(n + 1) -> Int] : \A s \in Lev(n + 1) : g[s] = IF s = {} THEN 0
                     ELSE f[CHOOSE x \in s : TRUE] + g[s \ {CHOOSE x \in s : TRUE}]
    BY <2>5, <2>8, Zenon
  <2>10. n + 1 \in Nat
    OBVIOUS
  <2> QED
    BY <2>9, <2>10, Zenon
<1>5. Cardinality(S) \in G
  BY <1>1, <1>3, <1>4, SetInduction
<1>6. Lev(Cardinality(S)) = SUBSET S
  BY FS_Subset
<1> HIDE DEF Lev
<1>7. PICK h \in [SUBSET S -> Int] : \A s \in SUBSET S : h[s] = IF s = {} THEN 0
                     ELSE f[CHOOSE x \in s : TRUE] + h[s \ {CHOOSE x \in s : TRUE}]
  BY <1>5, <1>6
<1> QED
  BY <1>7 DEF Iter

\* The sum of the library is that solution.
LEMMA SumIter ==
  ASSUME NEW S, IsFiniteSet(S), NEW f, \A x \in S : f[x] \in Int
  PROVE  \E h \in [SUBSET S -> Int] : Rec(f, S, h) /\ SumFunctionOnSet(f, S) = h[S]
<1> DEFINE P(h) == h = Iter(f, S, h)
           it == CHOOSE h : P(h)
<1>1. SumFunctionOnSet(f, S) = it[S]
  BY DEF SumFunctionOnSet, FoldFunctionOnSet, MapThenFoldSet, Iter
<1>2. \E h \in [SUBSET S -> Int] : P(h)
  BY IterExists
<1> HIDE DEF P
<1>3. P(it)
  BY <1>2, Zenon
<1> HIDE DEF it
<1>4. it = [s \in SUBSET S |-> it[s]] /\ Rec(f, S, it)
  BY <1>3 DEF P, Rec, Iter
<1>5. \A s \in SUBSET S : it[s] \in Int
  <2> DEFINE B == {s \in SUBSET S : it[s] \notin Int}
  <2> SUFFICES ASSUME B # {} PROVE FALSE
    OBVIOUS
  <2>0. B \in SUBSET (SUBSET S)
    OBVIOUS
  <2>1. PICK s \in B : \A u \in B : u \subseteq s => u = s
    <3> HIDE DEF B
    <3> QED
      BY <2>0, MinimalSubset
  <2>2. CASE s = {}
    <3>1. it[{}] = 0
      BY <1>4 DEF Rec
    <3> QED
      BY <2>2, <3>1
  <2>3. CASE s # {}
    <3>1. PICK x \in s : x = CHOOSE y \in s : TRUE
      BY <2>3
    <3>2. it[s] = f[x] + it[s \ {x}]
      BY <1>4, <2>3, <3>1 DEF Rec
    <3>3. s \ {x} \notin B /\ s \ {x} \in SUBSET S
      BY <2>1, <3>1
    <3>4. it[s \ {x}] \in Int /\ f[x] \in Int
      BY <3>3
    <3> QED
      BY <3>2, <3>4
  <2> QED
    BY <2>2, <2>3
<1> QED
  BY <1>1, <1>4, <1>5

\* Two solutions that sum the same values agree.
LEMMA IterUnique ==
  ASSUME NEW S, IsFiniteSet(S), NEW T \in SUBSET S, NEW f, NEW g, \A x \in T : f[x] = g[x],
         NEW h, NEW k, Rec(f, S, h), Rec(g, T, k)
  PROVE  \A s \in SUBSET T : h[s] = k[s]
<1> DEFINE B == {s \in SUBSET T : h[s] # k[s]}
<1> SUFFICES ASSUME B # {} PROVE FALSE
  OBVIOUS
<1>0. B \in SUBSET (SUBSET T) /\ IsFiniteSet(T)
  BY FS_Subset
<1>1. PICK s \in B : \A u \in B : u \subseteq s => u = s
  <2> HIDE DEF B
  <2> QED
    BY <1>0, MinimalSubset
<1>2. CASE s = {}
  BY <1>2 DEF Rec
<1>3. CASE s # {}
  <2>1. PICK x \in s : x = CHOOSE y \in s : TRUE
    BY <1>3
  <2>2. h[s] = f[x] + h[s \ {x}] /\ k[s] = g[x] + k[s \ {x}]
    BY <1>3, <2>1 DEF Rec
  <2>3. s \ {x} \notin B /\ s \ {x} \in SUBSET T /\ x \in T
    BY <1>1, <2>1
  <2>4. h[s \ {x}] = k[s \ {x}] /\ f[x] = g[x]
    BY <2>3
  <2> QED
    BY <2>2, <2>4
<1> QED
  BY <1>2, <1>3

\* The sum depends only on the values.
LEMMA SumSame ==
  ASSUME NEW S, IsFiniteSet(S), NEW f, NEW g, \A x \in S : f[x] \in Int /\ f[x] = g[x]
  PROVE  SumFunctionOnSet(f, S) = SumFunctionOnSet(g, S)
<1>1. PICK h \in [SUBSET S -> Int] : Rec(f, S, h) /\ SumFunctionOnSet(f, S) = h[S]
  BY SumIter
<1>2. PICK k \in [SUBSET S -> Int] : Rec(g, S, k) /\ SumFunctionOnSet(g, S) = k[S]
  BY SumIter
<1> QED
  BY <1>1, <1>2, IterUnique

\* The sum over nothing is 0.
LEMMA SumEmpty ==
  ASSUME NEW f PROVE SumFunctionOnSet(f, {}) = 0
<1>1. PICK h \in [SUBSET {} -> Int] : Rec(f, {}, h) /\ SumFunctionOnSet(f, {}) = h[{}]
  BY SumIter, FS_EmptySet
<1> QED
  BY <1>1 DEF Rec

\* A sum is one of its terms, whichever, and the sum of the others.
LEMMA SumRemove ==
  ASSUME NEW S, IsFiniteSet(S), NEW f, \A x \in S : f[x] \in Int, NEW x \in S
  PROVE  /\ SumFunctionOnSet(f, S) \in Int /\ SumFunctionOnSet(f, S \ {x}) \in Int
         /\ SumFunctionOnSet(f, S) = f[x] + SumFunctionOnSet(f, S \ {x})
<1>1. PICK h \in [SUBSET S -> Int] : Rec(f, S, h) /\ SumFunctionOnSet(f, S) = h[S]
  BY SumIter
<1>2. S \ {x} \in SUBSET S /\ IsFiniteSet(S \ {x})
  BY FS_Subset
<1>3. PICK k \in [SUBSET (S \ {x}) -> Int] : Rec(f, S \ {x}, k) /\ SumFunctionOnSet(f, S \ {x}) = k[S \ {x}]
  BY <1>2, SumIter
<1>4. h[S \ {x}] = k[S \ {x}]
  BY <1>1, <1>2, <1>3, IterUnique
<1>5. \A s \in SUBSET S : \A y \in s : h[s] = f[y] + h[s \ {y}]
  <2> DEFINE B == {s \in SUBSET S : \E y \in s : h[s] # f[y] + h[s \ {y}]}
  <2> SUFFICES ASSUME B # {} PROVE FALSE
    OBVIOUS
  <2>0. B \in SUBSET (SUBSET S)
    OBVIOUS
  <2>1. PICK s \in B : \A u \in B : u \subseteq s => u = s
    <3> HIDE DEF B
    <3> QED
      BY <2>0, MinimalSubset
  <2>2. PICK y \in s : h[s] # f[y] + h[s \ {y}]
    BY <2>1
  <2>3. PICK z \in s : z = CHOOSE w \in s : TRUE
    BY <2>2
  <2>4. h[s] = f[z] + h[s \ {z}]
    BY <1>1, <2>2, <2>3 DEF Rec
  <2>5. y # z
    BY <2>2, <2>4
  <2>6. s \ {z} \in SUBSET S /\ s \ {z} \notin B /\ s \ {y} \in SUBSET S /\ s \ {y} \notin B
    <3>1. s \ {z} \in SUBSET S /\ s \ {y} \in SUBSET S
      BY <2>0, <2>1
    <3>2. s \ {z} \subseteq s /\ s \ {z} # s /\ s \ {y} \subseteq s /\ s \ {y} # s
      BY <2>2, <2>3
    <3> HIDE DEF B
    <3> QED
      BY <2>1, <3>1, <3>2
  <2>7. h[s \ {z}] = f[y] + h[(s \ {z}) \ {y}] /\ h[s \ {y}] = f[z] + h[(s \ {y}) \ {z}]
    BY <2>2, <2>3, <2>5, <2>6
  <2>8. (s \ {z}) \ {y} = (s \ {y}) \ {z} /\ (s \ {y}) \ {z} \in SUBSET S
    OBVIOUS
  <2>9. PICK n \in Int : n = h[(s \ {y}) \ {z}]
    BY <2>8
  <2>10. PICK a \in Int, b \in Int : a = f[y] /\ b = f[z]
    BY <2>2, <2>3
  <2>11. h[s \ {z}] = a + n /\ h[s \ {y}] = b + n
    BY <2>7, <2>8, <2>9, <2>10
  <2> QED
    BY <2>2, <2>4, <2>10, <2>11
<1> QED
  BY <1>1, <1>2, <1>3, <1>4, <1>5

\* Induction over a finite set, one element after the other.
LEMMA FiniteInduction ==
  ASSUME NEW S, IsFiniteSet(S), NEW G, {} \in G,
         \A T \in SUBSET S : \A x \in S \ T : T \in G => T \cup {x} \in G
  PROVE  S \in G
<1> DEFINE B == {T \in SUBSET S : T \notin G}
<1> SUFFICES ASSUME B # {} PROVE FALSE
  OBVIOUS
<1>0. B \in SUBSET (SUBSET S)
  OBVIOUS
<1>1. PICK T \in B : \A U \in B : U \subseteq T => U = T
  <2> HIDE DEF B
  <2> QED
    BY <1>0, MinimalSubset
<1>2. PICK x \in T : x \in S
  BY <1>1
<1>3. T \ {x} \in SUBSET S /\ T \ {x} \notin B /\ x \in S \ (T \ {x}) /\ (T \ {x}) \cup {x} = T
  BY <1>1, <1>2
<1> QED
  BY <1>3

\* A sum of naturals is a natural.
LEMMA SumNat ==
  ASSUME NEW S, IsFiniteSet(S), NEW f, \A x \in S : f[x] \in Nat
  PROVE  SumFunctionOnSet(f, S) \in Nat
<1> DEFINE G == {T \in SUBSET S : SumFunctionOnSet(f, T) \in Nat}
<1>1. {} \in G
  BY SumEmpty
<1>2. ASSUME NEW T \in SUBSET S, NEW x \in S \ T, T \in G PROVE T \cup {x} \in G
  <2>1. IsFiniteSet(T \cup {x}) /\ x \in T \cup {x} /\ (T \cup {x}) \ {x} = T /\ T \cup {x} \in SUBSET S
    BY FS_Subset
  <2>2. SumFunctionOnSet(f, T \cup {x}) = f[x] + SumFunctionOnSet(f, T)
    BY <2>1, SumRemove
  <2> QED
    BY <1>2, <2>1, <2>2
<1> HIDE DEF G
<1>3. S \in G
  BY <1>1, <1>2, FiniteInduction
<1> QED
  BY <1>3 DEF G

\* A sum splits over a subset and what is left.
LEMMA SumSplit ==
  ASSUME NEW S, IsFiniteSet(S), NEW f, \A x \in S : f[x] \in Nat, NEW T \in SUBSET S
  PROVE  /\ SumFunctionOnSet(f, T) \in Nat /\ SumFunctionOnSet(f, S \ T) \in Nat
         /\ SumFunctionOnSet(f, S) = SumFunctionOnSet(f, T) + SumFunctionOnSet(f, S \ T)
<1> DEFINE G == {U \in SUBSET T : SumFunctionOnSet(f, S) = SumFunctionOnSet(f, U) + SumFunctionOnSet(f, S \ U)}
<1>0. \A U \in SUBSET S : IsFiniteSet(U) /\ SumFunctionOnSet(f, U) \in Nat
  BY FS_Subset, SumNat
<1>1. {} \in G
  BY <1>0, SumEmpty
<1>2. ASSUME NEW U \in SUBSET T, NEW x \in T \ U, U \in G PROVE U \cup {x} \in G
  <2>1. IsFiniteSet(U \cup {x}) /\ x \in U \cup {x} /\ (U \cup {x}) \ {x} = U /\ U \cup {x} \in SUBSET S
    BY <1>0
  <2>2. SumFunctionOnSet(f, U \cup {x}) = f[x] + SumFunctionOnSet(f, U)
    BY <2>1, SumRemove
  <2>3. IsFiniteSet(S \ U) /\ x \in S \ U /\ (S \ U) \ {x} = S \ (U \cup {x})
    BY <1>0
  <2>4. SumFunctionOnSet(f, S \ U) = f[x] + SumFunctionOnSet(f, S \ (U \cup {x}))
    BY <2>3, SumRemove
  <2>5. f[x] \in Nat /\ SumFunctionOnSet(f, U) \in Nat /\ SumFunctionOnSet(f, S \ (U \cup {x})) \in Nat
    BY <1>0
  <2>6. SumFunctionOnSet(f, S) = SumFunctionOnSet(f, U) + SumFunctionOnSet(f, S \ U)
    BY <1>2
  <2>7. SumFunctionOnSet(f, S) = SumFunctionOnSet(f, U \cup {x}) + SumFunctionOnSet(f, S \ (U \cup {x}))
    BY <2>2, <2>4, <2>5, <2>6
  <2> QED
    BY <2>7
<1> HIDE DEF G
<1>3. IsFiniteSet(T)
  BY <1>0
<1>4. T \in G
  BY <1>1, <1>2, <1>3, FiniteInduction
<1> QED
  BY <1>0, <1>4 DEF G

\* The estimate of some blocks of C as a sum over C.
LEMMA EstimateIn ==
  ASSUME NEW C, IsFiniteSet(C), \A b \in C : b.acc \in Nat, NEW B \in SUBSET C
  PROVE  /\ IsFiniteSet(B)
         /\ Estimate(B) = SumFunctionOnSet([b \in C |-> b.acc], B)
         /\ Estimate(B) \in Nat
<1>1. IsFiniteSet(B)
  BY FS_Subset
<1>2. Estimate(B) = SumFunctionOnSet([b \in B |-> b.acc], B)
  BY DEF Estimate, SumFunction
<1>3. \A b \in B : [c \in B |-> c.acc][b] \in Nat /\ [c \in B |-> c.acc][b] = [c \in C |-> c.acc][b]
  OBVIOUS
<1>4. SumFunctionOnSet([b \in B |-> b.acc], B) = SumFunctionOnSet([b \in C |-> b.acc], B)
  BY <1>1, <1>3, SumSame
<1>5. SumFunctionOnSet([b \in B |-> b.acc], B) \in Nat
  BY <1>1, <1>3, SumNat
<1> QED
  BY <1>1, <1>2, <1>4, <1>5

\* The estimate of blocks splits as a sum does.
LEMMA EstimateSplit ==
  ASSUME NEW C, IsFiniteSet(C), \A b \in C : b.acc \in Nat, NEW B \in SUBSET C
  PROVE  /\ Estimate(C) \in Nat /\ Estimate(B) \in Nat /\ Estimate(C \ B) \in Nat
         /\ Estimate(C) = Estimate(B) + Estimate(C \ B)
<1> DEFINE f == [b \in C |-> b.acc]
<1>1. \A b \in C : f[b] \in Nat
  OBVIOUS
<1>2. /\ Estimate(C) = SumFunctionOnSet(f, C) /\ Estimate(B) = SumFunctionOnSet(f, B)
      /\ Estimate(C \ B) = SumFunctionOnSet(f, C \ B)
      /\ Estimate(C) \in Nat /\ Estimate(B) \in Nat /\ Estimate(C \ B) \in Nat
  BY EstimateIn
<1> HIDE DEF f
<1>3. SumFunctionOnSet(f, C) = SumFunctionOnSet(f, B) + SumFunctionOnSet(f, C \ B)
  BY <1>1, SumSplit
<1> QED
  BY <1>2, <1>3

\* More blocks are not estimated at less.
LEMMA EstimateMore ==
  ASSUME NEW C, IsFiniteSet(C), \A b \in C : b.acc \in Nat, NEW B \in SUBSET C
  PROVE  Estimate(B) \in Nat /\ Estimate(C) \in Nat /\ Estimate(B) <= Estimate(C)
<1>1. /\ Estimate(C) \in Nat /\ Estimate(B) \in Nat /\ Estimate(C \ B) \in Nat
      /\ Estimate(C) = Estimate(B) + Estimate(C \ B)
  BY EstimateSplit
<1> QED
  BY <1>1

\* The estimate of a union is at most the sum of the estimates.
LEMMA EstimateUnion ==
  ASSUME NEW A, IsFiniteSet(A), NEW B, IsFiniteSet(B), \A b \in A \cup B : b.acc \in Nat
  PROVE  /\ IsFiniteSet(A \cup B)
         /\ Estimate(A) \in Nat /\ Estimate(B) \in Nat /\ Estimate(A \cup B) \in Nat
         /\ Estimate(A \cup B) <= Estimate(A) + Estimate(B)
<1>1. IsFiniteSet(A \cup B)
  BY FS_Union
<1>2. /\ Estimate(A \cup B) \in Nat /\ Estimate(A) \in Nat /\ Estimate((A \cup B) \ A) \in Nat
      /\ Estimate(A \cup B) = Estimate(A) + Estimate((A \cup B) \ A)
  BY <1>1, EstimateSplit
<1>3. Estimate((A \cup B) \ A) <= Estimate(B) /\ Estimate(B) \in Nat
  <2>1. (A \cup B) \ A \in SUBSET B
    OBVIOUS
  <2> QED
    BY <2>1, EstimateMore
<1> QED
  BY <1>1, <1>2, <1>3

\* The estimate of one block.
LEMMA EstimateOne ==
  ASSUME NEW b, b.acc \in Nat
  PROVE  IsFiniteSet({b}) /\ Estimate({b}) = b.acc
<1>1. IsFiniteSet({b}) /\ {b} \ {b} = {} /\ b \in {b}
  BY FS_Singleton
<1> DEFINE f == [c \in {b} |-> c.acc]
<1>2. Estimate({b}) = SumFunctionOnSet(f, {b}) /\ f[b] = b.acc /\ \A x \in {b} : f[x] \in Int
  BY DEF Estimate, SumFunction
<1> HIDE DEF f
<1>3. SumFunctionOnSet(f, {b}) = f[b] + SumFunctionOnSet(f, {})
  BY <1>1, <1>2, SumRemove
<1>4. SumFunctionOnSet(f, {}) = 0
  BY SumEmpty
<1> QED
  BY <1>1, <1>2, <1>3, <1>4

\* The estimate of no block.
LEMMA EstimateNone ==
  Estimate({}) = 0
BY SumEmpty DEF Estimate, SumFunction

\* Blocks that are relabelled keep their estimate.
LEMMA EstimateImage ==
  ASSUME NEW B, IsFiniteSet(B), NEW phi, \A b \in B : b.acc \in Nat /\ phi[b].acc = b.acc
  PROVE  /\ IsFiniteSet({phi[b] : b \in B})
         /\ Estimate({phi[b] : b \in B}) \in Nat /\ Estimate(B) \in Nat
         /\ Estimate({phi[b] : b \in B}) <= Estimate(B)
<1> DEFINE Im(T) == {phi[b] : b \in T}
           G == {T \in SUBSET B : IsFiniteSet(Im(T)) /\ Estimate(Im(T)) <= Estimate(T)}
<1>0. \A T \in SUBSET B : Im(T) \subseteq Im(B) /\ IsFiniteSet(T) /\ \A c \in Im(T) : c.acc \in Nat
  BY FS_Subset
<1>1. {} \in G
  <2>1. Im({}) = {}
    OBVIOUS
  <2> QED
    BY <2>1, EstimateNone, FS_EmptySet
<1>2. ASSUME NEW T \in SUBSET B, NEW x \in B \ T, T \in G PROVE T \cup {x} \in G
  <2>1. Im(T \cup {x}) = Im(T) \cup {phi[x]} /\ T \cup {x} \in SUBSET B
    OBVIOUS
  <2>2. IsFiniteSet(Im(T)) /\ Estimate(Im(T)) <= Estimate(T)
    BY <1>2
  <2>3. \A c \in Im(T) \cup {phi[x]} : c.acc \in Nat
    BY <1>0, <2>1
  <2> HIDE DEF Im
  <2>4. phi[x].acc \in Nat /\ IsFiniteSet({phi[x]}) /\ Estimate({phi[x]}) = phi[x].acc /\ phi[x].acc = x.acc
    BY EstimateOne
  <2>5. /\ IsFiniteSet(Im(T \cup {x})) /\ Estimate(Im(T)) \in Nat /\ Estimate(Im(T \cup {x})) \in Nat
        /\ Estimate(Im(T \cup {x})) <= Estimate(Im(T)) + phi[x].acc
    <3>1. /\ IsFiniteSet(Im(T) \cup {phi[x]}) /\ Estimate(Im(T)) \in Nat
          /\ Estimate(Im(T) \cup {phi[x]}) \in Nat
          /\ Estimate(Im(T) \cup {phi[x]}) <= Estimate(Im(T)) + Estimate({phi[x]})
      BY <2>2, <2>3, <2>4, EstimateUnion
    <3> QED
      BY <2>1, <2>4, <3>1
  <2>6. Estimate(T \cup {x}) = Estimate({x}) + Estimate(T) /\ Estimate(T) \in Nat
    <3>1. IsFiniteSet(T \cup {x}) /\ {x} \in SUBSET (T \cup {x}) /\ (T \cup {x}) \ {x} = T
      BY <1>0, <2>1
    <3>2. \A b \in T \cup {x} : b.acc \in Nat
      OBVIOUS
    <3>3. /\ Estimate({x}) \in Nat /\ Estimate((T \cup {x}) \ {x}) \in Nat
          /\ Estimate(T \cup {x}) = Estimate({x}) + Estimate((T \cup {x}) \ {x})
      BY <3>1, <3>2, EstimateSplit
    <3> QED
      BY <3>1, <3>3
  <2>7. x.acc \in Nat /\ Estimate({x}) = x.acc
    BY EstimateOne
  <2>8. Estimate(Im(T \cup {x})) <= Estimate(T \cup {x})
    BY <2>2, <2>4, <2>5, <2>6, <2>7
  <2> QED
    BY <2>1, <2>5, <2>8
<1> HIDE DEF G
<1>3. B \in G
  BY <1>1, <1>2, FiniteInduction
<1>4. IsFiniteSet(Im(B)) /\ Estimate(Im(B)) <= Estimate(B)
  BY <1>3 DEF G
<1>5. \A c \in Im(B) : c.acc \in Nat
  BY <1>0
<1> HIDE DEF Im
<1>6. Estimate(Im(B)) \in Nat /\ Estimate(B) \in Nat
  BY <1>4, <1>5, EstimateIn
<1> QED
  BY <1>4, <1>6 DEF Im

-----------------------------------------------------------------------------

\* The types.  A request asks for memory, then it closes: a slot, an entry.
PartNames == {"graph", "bf", "delta", "placed", "leak"}
Asking == {"budget", "check", "free", "granted", "refused"}
Closing == {"slot", "register"}

Blocks == [i : Indexes, part : PartNames, s : Nat, at : Gpus, cnt : 0 .. NG, acc : Nat, act : Nat]

Jobs == [dev : Gpus, need : Nat, n : Nat \ {0}, st : {"gpu", "failed"}]

Tasks ==
  [op : {"build", "load"}, i : Indexes, ph : Asking \cup Closing, dev : Gpus, need : Nat,
   n : Nat \ {0}, s : Nat \ {0}, sc : Nat \ {0}, busy : SUBSET Indexes,
   alt : BOOLEAN, broke : BOOLEAN, room : BOOLEAN]

TypeInv ==
  /\ kind \in [Indexes -> {"cagra", "ivfpq", "flat"}]
  /\ disk \in [Indexes -> [n : Nat, sc : Nat \ {0}]]
  /\ home \in [Indexes -> 0 .. Spread]
  /\ IsFiniteSet(mem)
  /\ mem \subseteq Blocks
  /\ pend \in [Gpus -> Int]
  /\ job \in [Indexes -> Jobs \cup {NoJob}]
  /\ task \in Tasks \cup {NoTask}
  /\ budget \in [Gpus -> Budgets]

\* A graph takes its rows times its degree, and is estimated at that, or at
\* its rows times the default degree if it was loaded (load_index).
Sized(b) == \E r \in Nat : b.act = r * Degree[b.i] /\ (b.acc = b.act \/ b.acc = r * Usual)

\* A graph belongs to an entry and is counted on the GPU where it lies.
GraphOK(b) ==
  /\ home[b.i] # 0 /\ kind[b.i] # "flat"
  /\ b.cnt = b.at /\ Sized(b)
  /\ home[b.i] # Spread => b.at = home[b.i] /\ b.act > 0

\* A brute-force copy belongs to an entry and is estimated at what it takes;
\* shards count theirs where it lies, an unsharded entry on its own GPU, which
\* for CAGRA need not be where it lies.
BfOK(b) ==
  /\ home[b.i] # 0
  /\ home[b.i] # Spread => b.cnt = home[b.i]
  /\ home[b.i] = Spread \/ kind[b.i] # "cagra" => b.cnt = b.at
  /\ b.acc = b.act

\* A delta cache of an unsharded entry is counted where it lies.
DeltaOK(b) == home[b.i] # 0 /\ (home[b.i] = Spread \/ (b.cnt = b.at /\ b.acc = b.act))

\* Only a CAGRA rebuild into shards forgets a copy.
LeakOK(b) == kind[b.i] = "cagra" /\ b.cnt = 0

\* A piece not registered yet is one of the request under way, of a shard before
\* the one it asks for, and not counted.
PlacedOK(b) ==
  /\ task.ph # "none" /\ task.i = b.i /\ kind[b.i] # "flat"
  /\ b.cnt = 0 /\ Sized(b)
  /\ b.s \in 1 .. task.s
  /\ task.ph \in Asking => b.s < task.s
  /\ task.sc = 1 => b.at = task.dev /\ b.act > 0

\* Every block is what its label says.
MemInv ==
  \A b \in mem :
    /\ b.part = "graph" => GraphOK(b)
    /\ b.part = "bf" => BfOK(b)
    /\ b.part = "delta" => DeltaOK(b)
    /\ b.part = "leak" => LeakOK(b)
    /\ b.part = "placed" => PlacedOK(b)

\* A resident graph index has its graph, a sharded one its first shard.
EntryInv ==
  \A i \in Indexes :
    /\ home[i] # 0 /\ kind[i] # "flat" => Parts(i, {"graph"}) # {}
    /\ home[i] = Spread => \E b \in Parts(i, {"graph"}) : b.s = 1

\* The request under way: its shard, what it asks for, and what it has placed.
TaskInv ==
  task.ph # "none" =>
    /\ task.s <= task.sc
    /\ task.room => task.sc = 1
    /\ kind[task.i] = "flat" => task.sc = 1 /\ task.ph \in Closing
    /\ task.ph \in Asking => task.need = Need(task.op, task.i, task.n, task.sc, task.s)
    /\ task.op = "build" /\ task.sc = 1 /\ kind[task.i] = "cagra" => job[task.i] = NoJob
    /\ (task.s > 1 \/ task.ph \in Closing) /\ kind[task.i] # "flat" => \E b \in Placed : b.s = 1

\* A build outside the mutex is one of a CAGRA graph and holds its memory.
JobInv ==
  \A i \in Indexes : job[i] # NoJob => kind[i] = "cagra" /\ job[i].need = job[i].n * Degree[i]

\* There are no more entries than slots.
SlotInv == Cardinality(Resident) <= MaxIdx

\* ensure_vram gives up the budget only with nothing left to evict, or after an
\* eviction that freed nothing.
RefusalInv == task.ph \in {"check", "refused"} => Evictable(task.dev, task.busy) = {} \/ task.broke

\* Past the first loop of ensure_vram the request is within the budget.
BudgetInv == task.ph \in {"free", "granted"} => ~OverBudget(task.dev, task.need)

\* All GPUs have the same budget (pg_cuvs_set_vram_budget).
SameBudget == \E b \in Budgets : budget = [g \in Gpus |-> b]

\* A request that found room when it chose its GPU has room there, as long as no
\* budget is above what a GPU has.
RoomInv ==
  task.room /\ task.ph \in Asking /\ (\A b \in Budgets : b <= Phys) =>
    ~OverBudget(task.dev, task.need) /\ task.need <= Free(task.dev)

\* The inductive invariant.
IInv ==
  /\ TypeInv /\ MemInv /\ EntryInv
  /\ TaskInv /\ JobInv /\ SlotInv
  /\ RefusalInv /\ BudgetInv /\ SameBudget /\ RoomInv
  /\ ReservationsMatch

-----------------------------------------------------------------------------

\* What Min of the library returns.
LEMMA MinOf ==
  ASSUME NEW T \in SUBSET Nat, T # {}
  PROVE  Min(T) \in T /\ \A y \in T : Min(T) <= y
<1>1. \E x \in T : \A y \in T : x <= y
  BY LeastNat
<1> QED
  BY <1>1, Zenon DEF Min

\* A finite set has an element of greatest value.
LEMMA Greatest ==
  ASSUME NEW S, IsFiniteSet(S), S # {}, NEW f, \A x \in S : f[x] \in Int
  PROVE  \E x \in S : \A y \in S : f[y] <= f[x]
<1> DEFINE G == {T \in SUBSET S : T # {} => \E x \in T : \A y \in T : f[y] <= f[x]}
<1>1. {} \in G
  OBVIOUS
<1>2. ASSUME NEW T \in SUBSET S, NEW x \in S \ T, T \in G PROVE T \cup {x} \in G
  <2>1. CASE T = {}
    BY <2>1
  <2>2. CASE T # {}
    <3>1. PICK z \in T : \A y \in T : f[y] <= f[z]
      BY <1>2, <2>2
    <3>2. CASE f[x] <= f[z]
      BY <3>1, <3>2
    <3>3. CASE ~(f[x] <= f[z])
      <4>1. \A y \in T \cup {x} : f[y] <= f[x]
        BY <3>1, <3>3
      <4> QED
        BY <4>1
    <3> QED
      BY <3>2, <3>3
  <2> QED
    BY <2>1, <2>2
<1> HIDE DEF G
<1>3. S \in G
  BY <1>1, <1>2, FiniteInduction
<1> QED
  BY <1>3 DEF G

\* What the running builds hold is a natural.
LEMMA BuildingNat ==
  ASSUME job \in [Indexes -> Jobs \cup {NoJob}], NEW g
  PROVE  Building(g) \in Nat
<1> DEFINE f == [i \in Indexes |-> IF job[i].dev = g THEN job[i].need ELSE 0]
<1>1. Building(g) = SumFunctionOnSet(f, Indexes)
  BY DEF Building, SumFunction
<1>2. \A i \in Indexes : f[i] \in Nat
  BY DEF Jobs, NoJob
<1> HIDE DEF f
<1> QED
  BY <1>1, <1>2, SumNat, IndexesAssumption

\* So is what blocks take.
LEMMA ActualNat ==
  ASSUME IsFiniteSet(mem), mem \subseteq Blocks, NEW B \in SUBSET mem
  PROVE  Actual(B) \in Nat
<1>1. IsFiniteSet(B) /\ \A b \in B : [c \in B |-> c.act][b] \in Nat
  BY FS_Subset DEF Blocks
<1>2. Actual(B) = SumFunctionOnSet([b \in B |-> b.act], B)
  BY DEF Actual, SumFunction
<1> QED
  BY <1>1, <1>2, SumNat

\* So is what any of the blocks are estimated at.
LEMMA MemEstimate ==
  ASSUME IsFiniteSet(mem), mem \subseteq Blocks
  PROVE  \A B \in SUBSET mem : IsFiniteSet(B) /\ (\A b \in B : b.acc \in Nat) /\ Estimate(B) \in Nat
<1>1. \A b \in mem : b.acc \in Nat
  BY DEF Blocks
<1> QED
  BY <1>1, EstimateIn

\* The types of what the daemon computes from its tables.
LEMMA Amounts ==
  ASSUME TypeInv, NEW g \in Gpus
  PROVE  /\ Used(g) \in Int /\ Real(g) \in Nat /\ Free(g) \in Nat /\ Headroom(g) \in Int
         /\ budget[g] \in Nat /\ budget[g] < SizeMax
<1>1. {b \in mem : b.cnt = g} \in SUBSET mem /\ {b \in mem : b.at = g} \in SUBSET mem
  OBVIOUS
<1>2. Estimate({b \in mem : b.cnt = g}) \in Nat
  BY <1>1, MemEstimate DEF TypeInv
<1>3. Actual({b \in mem : b.at = g}) \in Nat /\ Building(g) \in Nat
  BY <1>1, ActualNat, BuildingNat DEF TypeInv
<1>4. pend[g] \in Int
  BY DEF TypeInv
<1>5. Used(g) \in Int
  BY <1>2, <1>4 DEF Used
<1>6. Real(g) \in Nat
  BY <1>3 DEF Real
<1>7. Free(g) \in Nat
  BY <1>6, SizesAssumption DEF Free
<1>8. budget[g] \in Nat /\ budget[g] < SizeMax /\ SizeMax \in Nat
  BY SizesAssumption DEF TypeInv
<1>9. Headroom(g) \in Int
  <2>1. (budget[g] - Used(g)) % SizeMax \in Int
    BY <1>5, <1>8
  <2> QED
    BY <2>1, <1>7 DEF Headroom
<1> QED
  BY <1>5, <1>6, <1>7, <1>8, <1>9

\* GPUs are numbers, apart from 0 (none) and Spread.
LEMMA GpusFinite ==
  /\ IsFiniteSet(Gpus) /\ Gpus \subseteq Nat /\ 1 \in Gpus /\ 0 \notin Gpus
  /\ Spread \notin Gpus /\ Spread # 0
  /\ Gpus \subseteq 0 .. Spread /\ Gpus \subseteq 0 .. NG
<1>1. IsFiniteSet(1 .. NG)
  BY FS_Interval, NGAssumption
<1> QED
  BY <1>1, NGAssumption DEF Gpus, Spread

\* pick_gpu_for_index returns a GPU of greatest headroom, or none if the request
\* is larger than every budget.
LEMMA PickBest ==
  ASSUME TypeInv, NEW need \in Nat
  PROVE  /\ Pick(need) \in Gpus \cup {0}
         /\ Pick(need) = 0 <=> Candidates(need) = {}
         /\ Pick(need) # 0 => /\ Pick(need) \in Candidates(need)
                              /\ \A h \in Candidates(need) : Headroom(Pick(need)) >= Headroom(h)
<1>1. CASE Candidates(need) = {}
  BY <1>1 DEF Pick
<1>2. CASE Candidates(need) # {}
  <2> DEFINE f == [g \in Gpus |-> Headroom(g)]
             M == {g \in Candidates(need) : \A h \in Candidates(need) : Headroom(g) >= Headroom(h)}
  <2>1. Candidates(need) \subseteq Gpus /\ IsFiniteSet(Candidates(need))
    BY GpusFinite, FS_Subset DEF Candidates
  <2>2. \A g \in Gpus : f[g] = Headroom(g) /\ f[g] \in Int
    BY Amounts
  <2> HIDE DEF f
  <2>3. \E x \in Candidates(need) : \A y \in Candidates(need) : f[y] <= f[x]
    BY <1>2, <2>1, <2>2, Greatest
  <2>4. M # {}
    BY <2>1, <2>2, <2>3
  <2>5. M \in SUBSET Nat /\ M \subseteq Gpus
    BY <2>1, GpusFinite
  <2>6. Pick(need) = Min(M)
    BY <1>2 DEF Pick
  <2>7. Min(M) \in M
    <3> HIDE DEF M
    <3> QED
      BY <2>4, <2>5, MinOf
  <2>8. Min(M) # 0
    BY <2>5, <2>7, GpusFinite
  <2> QED
    BY <1>2, <2>5, <2>6, <2>7, <2>8
<1> QED
  BY <1>1, <1>2

\* For an empty request there always is one.
LEMMA PickZero ==
  ASSUME TypeInv
  PROVE  Pick(0) \in Gpus
<1>1. 1 \in Candidates(0)
  BY GpusFinite, Amounts DEF Candidates
<1> QED
  BY <1>1, PickBest

\* cuvs_auto_shard_count returns a number.
LEMMA AutoCount ==
  ASSUME TypeInv, NEW n \in Nat
  PROVE  AutoShardCount(n) \in Nat
<1> DEFINE P == {budget[g] : g \in Gpus} \ {0}
           b == Min(P)
           cap == Min({NG, n \div 2})
           x == (n * Light + b - 1) \div b
           want == Max({2, x})
<1>1. CASE P = {}
  BY <1>1 DEF AutoShardCount
<1>2. CASE P # {}
  <2>1. P \in SUBSET Nat
    BY Amounts
  <2>2. b \in P
    <3> HIDE DEF P
    <3> QED
      BY <1>2, <2>1, MinOf
  <2>3. b \in Nat /\ b > 0
    BY <2>1, <2>2
  <2>4. AutoShardCount(n) = IF n * Light <= b THEN 1 ELSE IF cap < 2 \/ want > cap THEN 0 ELSE want
    BY <1>2 DEF AutoShardCount
  <2>5. n * Light \in Nat
    BY SizesAssumption
  <2> HIDE DEF b
  <2>6. x \in Nat
    BY <2>3, <2>5
  <2> HIDE DEF x
  <2>7. want \in {2, x}
    <3>1. \E m \in {2, x} : \A y \in {2, x} : m >= y
      BY <2>6
    <3> QED
      BY <3>1, Zenon DEF Max
  <2>8. want \in Nat
    BY <2>6, <2>7
  <2> QED
    BY <2>4, <2>8
<1> QED
  BY <1>1, <1>2

\* So does the choice of the number of shards.
LEMMA ShardCountNat ==
  ASSUME TypeInv, NEW n \in Nat \ {0}, NEW asked \in Nat
  PROVE  ShardCount(asked, n) \in Nat
<1>1. CASE asked = 0
  BY <1>1, AutoCount DEF ShardCount
<1>2. CASE asked # 0
  <2>1. {asked, n \div 2} \in SUBSET Nat
    OBVIOUS
  <2>2. Min({asked, n \div 2}) \in {asked, n \div 2}
    BY <2>1, MinOf
  <2>3. Min({asked, n \div 2}) \in Nat
    BY <2>1, <2>2
  <2> QED
    BY <1>2, <2>3 DEF ShardCount
<1> QED
  BY <1>1, <1>2

\* The rows of a shard are a number ...
LEMMA ShardRowsNat ==
  ASSUME NEW n \in Nat, NEW sc \in Nat \ {0}, NEW s \in Nat
  PROVE  ShardRows(n, sc, s) \in Nat
BY DEF ShardRows

\* ... and all of them if there is one shard.
LEMMA AllRows ==
  ASSUME NEW n \in Nat
  PROVE  ShardRows(n, 1, 1) = n
BY DEF ShardRows

\* What a shard asks for is a number.
LEMMA NeedNat ==
  ASSUME NEW op, NEW i \in Indexes, NEW n \in Nat, NEW sc \in Nat \ {0}, NEW s \in Nat
  PROVE  Need(op, i, n, sc, s) \in Nat
<1>1. ShardRows(n, sc, s) \in Nat /\ Usual \in Nat /\ Degree[i] \in Nat
  BY ShardRowsNat, SizesAssumption
<1>2. ShardRows(n, sc, s) * Usual \in Nat /\ ShardRows(n, sc, s) * Degree[i] \in Nat
  BY <1>1
<1> QED
  BY <1>2 DEF Need

\* The GPU of a shard is a GPU.
LEMMA RoundRobinGpu ==
  ASSUME NEW s \in Nat \ {0}
  PROVE  RoundRobin(s) \in Gpus
BY NGAssumption DEF RoundRobin, Gpus

-----------------------------------------------------------------------------

\* The effect of an eviction of entry v (evict_lru).
Evicted(v) ==
  /\ home' = [home EXCEPT ![v] = 0]
  /\ mem' = mem \ OfEntry(v)
  /\ disk' = IF kind[v] = "cagra" /\ home[v] # Spread
             THEN [disk EXCEPT ![v] = [n |-> GraphRows(CHOOSE b \in Parts(v, {"graph"}) : TRUE), sc |-> 1]]
             ELSE disk

\* What one turn of the first loop of ensure_vram does.
LEMMA EnsureBudgetCases ==
  ASSUME EnsureBudget
  PROVE  LET victims == Evictable(task.dev, task.busy)
             stop(why) == [task EXCEPT !.ph = "check", !.broke = why]
         IN \/ ~OverBudget(task.dev, task.need) /\ task' = [task EXCEPT !.ph = "free"] /\ UNCHANGED <<disk, home, mem>>
            \/ victims = {} /\ task' = stop(FALSE) /\ UNCHANGED <<disk, home, mem>>
            \/ victims # {} /\ task' = stop(TRUE) /\ UNCHANGED <<disk, home, mem>> /\ OverBudget(task.dev, task.need)
            \/ \E v \in victims : Evicted(v) /\ (task' = stop(TRUE) \/ task' = task) /\ OverBudget(task.dev, task.need)
BY DEF EnsureBudget, EvictLru, Evicted, Broke

\* What one turn of the second loop does.
LEMMA EnsureFreeCases ==
  ASSUME EnsureFree
  PROVE  LET victims == Evictable(task.dev, task.busy)
             stop(why) == Failed([task EXCEPT !.broke = why])
         IN \/ ~(task.need > Free(task.dev)) /\ task' = [task EXCEPT !.ph = "granted"] /\ UNCHANGED <<disk, home, mem>>
            \/ victims = {} /\ task' = stop(FALSE) /\ UNCHANGED <<disk, home, mem>>
            \/ victims # {} /\ task' = stop(TRUE) /\ UNCHANGED <<disk, home, mem>> /\ task.need > Free(task.dev)
            \/ \E v \in victims : Evicted(v) /\ (task' = stop(TRUE) \/ task' = task) /\ task.need > Free(task.dev)
BY DEF EnsureFree, EvictLru, Evicted, Broke

\* At most an entry is gone, with its memory.
Shrinks == UNCHANGED <<home, mem>> \/ \E v \in Indexes : home' = [home EXCEPT ![v] = 0] /\ mem' = mem \ OfEntry(v)

\* The types are kept when an entry is gone.
LEMMA ShrinksTypes ==
  ASSUME TypeInv, Shrinks
  PROVE  /\ home' \in [Indexes -> 0 .. Spread]
         /\ IsFiniteSet(mem') /\ mem' \subseteq Blocks /\ mem' \subseteq mem
         /\ \A i \in Indexes : home'[i] \in {0, home[i]}
<1>1. mem' \subseteq mem
  BY DEF Shrinks
<1>2. IsFiniteSet(mem') /\ mem' \subseteq Blocks
  BY <1>1, FS_Subset DEF TypeInv
<1>3. home' \in [Indexes -> 0 .. Spread] /\ \A i \in Indexes : home'[i] \in {0, home[i]}
  BY NGAssumption DEF Shrinks, TypeInv, Spread
<1> QED
  BY <1>1, <1>2, <1>3

\* What blocks are is kept when an entry is gone.
LEMMA ShrinksMem ==
  ASSUME TypeInv, MemInv, Shrinks, kind' = kind, \A b \in Placed : PlacedOK(b)'
  PROVE  MemInv'
<1>1. CASE UNCHANGED <<home, mem>>
  <2>1. ASSUME NEW b \in mem PROVE b.part = "placed" => PlacedOK(b)'
    BY DEF Placed
  <2>2. ASSUME NEW b \in mem
        PROVE  /\ b.part = "graph" => GraphOK(b)'
               /\ b.part = "bf" => BfOK(b)'
               /\ b.part = "delta" => DeltaOK(b)'
               /\ b.part = "leak" => LeakOK(b)'
    BY <1>1 DEF MemInv, GraphOK, BfOK, DeltaOK, LeakOK, Sized
  <2> QED
    BY <1>1, <2>1, <2>2 DEF MemInv
<1>2. ASSUME NEW v \in Indexes, home' = [home EXCEPT ![v] = 0], mem' = mem \ OfEntry(v)
      PROVE  MemInv'
  <2>1. \A b \in mem' : b \in mem /\ b \in Blocks
    BY <1>2 DEF TypeInv
  <2>2. \A b \in mem' : b.part \in {"graph", "bf", "delta"} => b.i # v
    BY <1>2 DEF OfEntry, Parts
  <2>3. \A b \in mem' : b.i \in Indexes /\ (b.i # v => home'[b.i] = home[b.i])
    BY <1>2, <2>1 DEF TypeInv, Blocks
  <2>4. ASSUME NEW b \in mem' PROVE b.part = "placed" => PlacedOK(b)'
    BY <2>1 DEF Placed
  <2>5. ASSUME NEW b \in mem'
        PROVE  /\ b.part = "graph" => GraphOK(b)'
               /\ b.part = "bf" => BfOK(b)'
               /\ b.part = "delta" => DeltaOK(b)'
               /\ b.part = "leak" => LeakOK(b)'
    BY <2>1, <2>2, <2>3 DEF MemInv, GraphOK, BfOK, DeltaOK, LeakOK, Sized
  <2> QED
    BY <2>4, <2>5 DEF MemInv
<1> QED
  BY <1>1, <1>2 DEF Shrinks

\* The entries left have their graphs.
LEMMA ShrinksEntries ==
  ASSUME TypeInv, EntryInv, Shrinks, kind' = kind
  PROVE  EntryInv'
<1>1. CASE UNCHANGED <<home, mem>>
  BY <1>1 DEF EntryInv, Parts
<1>2. ASSUME NEW v \in Indexes, home' = [home EXCEPT ![v] = 0], mem' = mem \ OfEntry(v)
      PROVE  EntryInv'
  <2>1. \A i \in Indexes : i # v => home'[i] = home[i] /\ Parts(i, {"graph"})' = Parts(i, {"graph"})
    BY <1>2 DEF OfEntry, Parts, TypeInv
  <2>2. home'[v] = 0 /\ Spread # 0
    BY <1>2, GpusFinite DEF TypeInv
  <2> QED
    BY <2>1, <2>2 DEF EntryInv
<1> QED
  BY <1>1, <1>2 DEF Shrinks

\* The slots are kept when an entry is gone.
LEMMA ShrinksSlots ==
  ASSUME TypeInv, SlotInv, Shrinks
  PROVE  SlotInv'
<1>1. Resident' \subseteq Resident
  BY ShrinksTypes DEF Resident
<1>2. IsFiniteSet(Resident)
  BY IndexesAssumption, FS_Subset DEF Resident
<1>3. Cardinality(Resident') <= Cardinality(Resident) /\ Cardinality(Resident) \in Nat /\ Cardinality(Resident') \in Nat
  BY <1>1, <1>2, FS_Subset, FS_CardinalityType
<1> QED
  BY <1>3, SizesAssumption DEF SlotInv

\* With less memory no GPU counts more.
LEMMA LessUsed ==
  ASSUME TypeInv, mem' \subseteq mem, pend' = pend, NEW g \in Gpus
  PROVE  /\ Estimate({b \in mem' : b.cnt = g}) \in Nat /\ Estimate({b \in mem : b.cnt = g}) \in Nat
         /\ Estimate({b \in mem' : b.cnt = g}) <= Estimate({b \in mem : b.cnt = g})
         /\ Used(g)' \in Int /\ Used(g) \in Int /\ Used(g)' <= Used(g)
<1>1. {b \in mem : b.cnt = g} \in SUBSET mem /\ {b \in mem' : b.cnt = g} \in SUBSET {b \in mem : b.cnt = g}
  OBVIOUS
<1>2. IsFiniteSet({b \in mem : b.cnt = g}) /\ \A b \in {b \in mem : b.cnt = g} : b.acc \in Nat
  BY <1>1, MemEstimate DEF TypeInv
<1>3. /\ Estimate({b \in mem' : b.cnt = g}) \in Nat /\ Estimate({b \in mem : b.cnt = g}) \in Nat
      /\ Estimate({b \in mem' : b.cnt = g}) <= Estimate({b \in mem : b.cnt = g})
  BY <1>1, <1>2, EstimateMore
<1>4. pend[g] \in Int
  BY DEF TypeInv
<1>5. Used(g)' = Estimate({b \in mem' : b.cnt = g}) + pend[g] /\ Used(g) = Estimate({b \in mem : b.cnt = g}) + pend[g]
  BY DEF Used, Estimate
<1> QED
  BY <1>3, <1>4, <1>5

\* With less memory a request stays within the budget.
LEMMA LessOver ==
  ASSUME TypeInv, mem' \subseteq mem, pend' = pend, budget' = budget, NEW g \in Gpus, NEW need \in Nat,
         ~OverBudget(g, need)
  PROVE  ~OverBudget(g, need)'
<1>1. Used(g)' \in Int /\ Used(g) \in Int /\ Used(g)' <= Used(g)
  BY LessUsed
<1>2. budget[g] \in Nat
  BY Amounts
<1> QED
  BY <1>1, <1>2 DEF OverBudget

\* An eviction is such a step, and what it saves is well formed.
LEMMA EvictedType ==
  ASSUME TypeInv, MemInv, EntryInv, NEW v \in Indexes, home[v] # 0, Evicted(v)
  PROVE  Shrinks /\ disk' \in [Indexes -> [n : Nat, sc : Nat \ {0}]]
<1>1. Shrinks
  BY DEF Shrinks, Evicted
<1>2. CASE kind[v] = "cagra" /\ home[v] # Spread
  <2>1. PICK b \in Parts(v, {"graph"}) : b = CHOOSE c \in Parts(v, {"graph"}) : TRUE
    BY <1>2 DEF EntryInv
  <2>2. b.act \in Nat /\ b.i = v /\ Degree[v] \in Nat \ {0}
    BY SizesAssumption DEF TypeInv, Blocks, Parts
  <2>3. GraphRows(b) \in Nat
    BY <2>2 DEF GraphRows
  <2>4. disk' = [disk EXCEPT ![v] = [n |-> GraphRows(b), sc |-> 1]]
    BY <1>2, <2>1 DEF Evicted
  <2>5. [n |-> GraphRows(b), sc |-> 1] \in [n : Nat, sc : Nat \ {0}]
    BY <2>3
  <2>6. disk \in [Indexes -> [n : Nat, sc : Nat \ {0}]]
    BY DEF TypeInv
  <2> QED
    BY <1>1, <2>4, <2>5, <2>6
<1>3. CASE ~(kind[v] = "cagra" /\ home[v] # Spread)
  BY <1>1, <1>3 DEF Evicted, TypeInv
<1> QED
  BY <1>2, <1>3

\* What is placed is not part of an entry.
LEMMA ShrinksPlaced ==
  ASSUME Shrinks
  PROVE  Placed' = Placed
BY DEF Shrinks, Placed, OfEntry, Parts

\* A step of the holder of the mutex leaves builds and budgets alone.
LEMMA OuterSame ==
  ASSUME JobInv, SameBudget, ReservationsMatch, UNCHANGED <<kind, pend, job, budget>>
  PROVE  JobInv' /\ SameBudget' /\ ReservationsMatch'
<1>1. \A g \in Gpus : Building(g)' = Building(g)
  BY DEF Building
<1> QED
  BY <1>1 DEF JobInv, SameBudget, ReservationsMatch

\* Without a request there is nothing to say of it.
LEMMA IdleTask ==
  ASSUME task' = NoTask
  PROVE  TaskInv' /\ RefusalInv' /\ BudgetInv' /\ RoomInv' /\ task' \in Tasks \cup {NoTask}
<1>1. task'.ph = "none"
  BY DEF NoTask
<1>2. "none" \notin Asking
  BY DEF Asking
<1> QED
  BY <1>1, <1>2 DEF TaskInv, RefusalInv, BudgetInv, RoomInv

\* The mutex is free exactly when nothing is asked for or placed.
LEMMA IdleMeans ==
  ASSUME IInv
  PROVE  /\ Idle <=> task.ph = "none"
         /\ ~Idle => task \in Tasks
         /\ Idle => Placed = {}
<1>1. NoTask.ph = "none" /\ \A t \in Tasks : t.ph # "none"
  BY DEF NoTask, Tasks, Asking, Closing
<1>2. task \in Tasks \/ task = NoTask
  BY DEF IInv, TypeInv
<1>3. \A b \in Placed : task.ph # "none"
  BY DEF IInv, MemInv, PlacedOK, Placed
<1> QED
  BY <1>1, <1>2, <1>3 DEF Idle

\* What a step inside ensure_vram may do to the request it is about.
Moves(t, u) ==
  /\ u \in Tasks
  /\ t.ph \in Asking /\ u.ph \in Asking
  /\ u.op = t.op /\ u.i = t.i /\ u.n = t.n /\ u.s = t.s /\ u.sc = t.sc
  /\ u.need = t.need /\ u.busy = t.busy /\ u.room = t.room
  /\ u.dev = t.dev \/ t.sc # 1

\* Such a step keeps all that is not about granting or refusing.
LEMMA MovesKeeps ==
  ASSUME IInv, Moves(task, task'), Shrinks, UNCHANGED <<kind, pend, job, budget>>,
         disk' \in [Indexes -> [n : Nat, sc : Nat \ {0}]]
  PROVE  TypeInv' /\ MemInv' /\ EntryInv' /\ TaskInv' /\ JobInv' /\ SlotInv' /\ SameBudget' /\ ReservationsMatch'
<1> USE DEF IInv
<1>1. TypeInv'
  BY ShrinksTypes DEF TypeInv, Moves
<1>2. Asking \cap {"none", "slot", "register"} = {}
  BY DEF Asking
<1>3. ASSUME NEW b \in Placed PROVE PlacedOK(b)'
  <2>1. PlacedOK(b)
    BY DEF MemInv, Placed
  <2>2. task'.ph # "none" /\ task'.i = task.i /\ task'.s = task.s /\ task'.sc = task.sc
        /\ task'.ph \in Asking /\ task.ph \in Asking /\ (task.sc = 1 => task'.dev = task.dev)
    BY <1>2 DEF Moves
  <2> QED
    BY <2>1, <2>2 DEF PlacedOK, Sized
<1>4. MemInv'
  BY <1>3, ShrinksMem
<1>5. EntryInv' /\ SlotInv'
  BY ShrinksEntries, ShrinksSlots
<1>6. TaskInv'
  <2>1. Placed' = Placed
    BY ShrinksPlaced
  <2>2. task.ph # "none"
    BY <1>2 DEF Moves
  <2> QED
    BY <2>1, <2>2 DEF TaskInv, Moves, Need, Closing, Asking
<1>7. JobInv' /\ SameBudget' /\ ReservationsMatch'
  BY OuterSame
<1> QED
  BY <1>1, <1>4, <1>5, <1>6, <1>7

\* The first loop of ensure_vram keeps the invariant.
LEMMA EnsureBudgetStep ==
  ASSUME IInv, EnsureBudget, kind' = kind
  PROVE  IInv'
<1> USE DEF IInv
<1>1. task \in Tasks /\ task.ph = "budget" /\ UNCHANGED <<pend, job, budget>>
  BY IdleMeans DEF EnsureBudget, Idle, NoTask
<1>2. task.dev \in Gpus /\ task.need \in Nat
  BY <1>1 DEF Tasks
<1>3. "budget" \in Asking /\ "free" \in Asking /\ "check" \in Asking
  BY DEF Asking
<1>4. \A v \in Evictable(task.dev, task.busy) : v \in Indexes /\ home[v] # 0
  BY DEF Evictable, Resident
<1>5. CASE ~OverBudget(task.dev, task.need) /\ task' = [task EXCEPT !.ph = "free"] /\ UNCHANGED <<disk, home, mem>>
  <2>1. Moves(task, task') /\ task'.ph = "free" /\ task'.dev = task.dev /\ task'.need = task.need /\ task'.room = task.room
    BY <1>1, <1>3, <1>5 DEF Moves, Tasks
  <2>2. TypeInv' /\ MemInv' /\ EntryInv' /\ TaskInv' /\ JobInv' /\ SlotInv' /\ SameBudget' /\ ReservationsMatch'
    BY <1>1, <1>5, <2>1, MovesKeeps DEF Shrinks, TypeInv
  <2>3. ~OverBudget(task.dev, task.need)' /\ Free(task.dev)' = Free(task.dev)
    BY <1>1, <1>5, <2>1 DEF OverBudget, Used, Free, Real, Building
  <2>4. RefusalInv' /\ BudgetInv' /\ RoomInv'
    BY <1>1, <1>3, <2>1, <2>3 DEF RefusalInv, BudgetInv, RoomInv
  <2> QED
    BY <2>2, <2>4
<1>6. ASSUME NEW why \in BOOLEAN, task' = [task EXCEPT !.ph = "check", !.broke = why], Shrinks,
             disk' \in [Indexes -> [n : Nat, sc : Nat \ {0}]], OverBudget(task.dev, task.need),
             why \/ (Evictable(task.dev, task.busy) = {} /\ UNCHANGED <<home, mem>>)
      PROVE  IInv'
  <2>1. /\ Moves(task, task') /\ task'.ph = "check" /\ task'.dev = task.dev /\ task'.need = task.need
        /\ task'.room = task.room /\ task'.busy = task.busy /\ task'.broke = why
    BY <1>1, <1>3, <1>6 DEF Moves, Tasks
  <2>2. TypeInv' /\ MemInv' /\ EntryInv' /\ TaskInv' /\ JobInv' /\ SlotInv' /\ SameBudget' /\ ReservationsMatch'
    BY <1>1, <1>6, <2>1, MovesKeeps
  <2>3. why \/ Evictable(task.dev, task.busy)' = {}
    BY <1>6, <2>1 DEF Evictable, OnDevice, Resident, Parts
  <2>4. RefusalInv' /\ BudgetInv'
    BY <2>1, <2>3 DEF RefusalInv, BudgetInv
  <2>5. RoomInv'
    BY <1>1, <1>3, <1>6, <2>1 DEF RoomInv
  <2> QED
    BY <2>2, <2>4, <2>5
<1>7. ASSUME NEW v \in Evictable(task.dev, task.busy), Evicted(v), task' = task, OverBudget(task.dev, task.need)
      PROVE  IInv'
  <2>1. Moves(task, task')
    BY <1>1, <1>3, <1>7 DEF Moves
  <2>2. Shrinks /\ disk' \in [Indexes -> [n : Nat, sc : Nat \ {0}]]
    BY <1>4, <1>7, EvictedType
  <2>3. TypeInv' /\ MemInv' /\ EntryInv' /\ TaskInv' /\ JobInv' /\ SlotInv' /\ SameBudget' /\ ReservationsMatch'
    BY <1>1, <2>1, <2>2, MovesKeeps
  <2>4. RefusalInv' /\ BudgetInv' /\ RoomInv'
    BY <1>1, <1>3, <1>7 DEF RefusalInv, BudgetInv, RoomInv
  <2> QED
    BY <2>3, <2>4
<1>8. CASE OverBudget(task.dev, task.need)
  <2>1. disk \in [Indexes -> [n : Nat, sc : Nat \ {0}]]
    BY DEF TypeInv
  <2>2. CASE /\ Evictable(task.dev, task.busy) = {} /\ task' = [task EXCEPT !.ph = "check", !.broke = FALSE]
             /\ UNCHANGED <<disk, home, mem>>
    BY <1>6, <1>8, <2>1, <2>2 DEF Shrinks
  <2>3. CASE task' = [task EXCEPT !.ph = "check", !.broke = TRUE] /\ UNCHANGED <<disk, home, mem>>
    BY <1>6, <1>8, <2>1, <2>3 DEF Shrinks
  <2>4. ASSUME NEW v \in Evictable(task.dev, task.busy), Evicted(v),
               task' = [task EXCEPT !.ph = "check", !.broke = TRUE] \/ task' = task
        PROVE  IInv'
    <3>1. Shrinks /\ disk' \in [Indexes -> [n : Nat, sc : Nat \ {0}]]
      BY <1>4, <2>4, EvictedType
    <3> QED
      BY <1>6, <1>7, <1>8, <2>4, <3>1
  <2> HIDE DEF IInv
  <2> QED
    BY <1>8, <2>2, <2>3, <2>4, EnsureBudgetCases
<1>9. CASE ~OverBudget(task.dev, task.need)
  <2>1. task' = [task EXCEPT !.ph = "free"] /\ UNCHANGED <<disk, home, mem>>
    BY <1>9 DEF EnsureBudget
  <2> HIDE DEF IInv
  <2> QED
    BY <1>5, <1>9, <2>1
<1> QED
  BY <1>8, <1>9

\* After a failure a shard is tried elsewhere, or the request is refused.
LEMMA FailedMoves ==
  ASSUME IInv, NEW t \in Tasks, t.ph \in Asking
  PROVE  /\ Moves(t, Failed(t)) /\ Failed(t).broke = t.broke
         /\ \/ Failed(t).ph = "refused" /\ Failed(t).dev = t.dev
            \/ Failed(t).ph = "budget" /\ t.sc # 1
<1>1. t.need \in Nat /\ t.sc \in Nat
  BY DEF Tasks
<1>2. Pick(t.need) \in Gpus \cup {0}
  BY <1>1, PickBest DEF IInv
<1>3. "budget" \in Asking /\ "refused" \in Asking
  BY DEF Asking
<1>4. CASE t.sc > 1 /\ ~t.alt /\ Pick(t.need) # 0
  <2>1. Failed(t) = [t EXCEPT !.dev = Pick(t.need), !.ph = "budget", !.alt = TRUE]
    BY <1>4 DEF Failed
  <2>2. Pick(t.need) \in Gpus /\ t.sc # 1
    BY <1>1, <1>2, <1>4
  <2> QED
    BY <1>3, <2>1, <2>2 DEF Moves, Tasks
<1>5. CASE ~(t.sc > 1 /\ ~t.alt /\ Pick(t.need) # 0)
  <2>1. Failed(t) = [t EXCEPT !.ph = "refused"]
    BY <1>5 DEF Failed
  <2> QED
    BY <1>3, <2>1 DEF Moves, Tasks
<1> QED
  BY <1>4, <1>5

\* The test after the first loop keeps the invariant.
LEMMA EnsureCheckStep ==
  ASSUME IInv, EnsureCheck, kind' = kind
  PROVE  IInv'
<1> USE DEF IInv
<1>1. task \in Tasks /\ task.ph = "check" /\ UNCHANGED <<disk, home, mem, pend, job, budget>>
  BY IdleMeans DEF EnsureCheck, Idle, NoTask
<1>2. "check" \in Asking /\ "free" \in Asking
  BY DEF Asking
<1>3. Shrinks /\ disk' \in [Indexes -> [n : Nat, sc : Nat \ {0}]]
  BY <1>1 DEF Shrinks, TypeInv
<1>6. CASE OverBudget(task.dev, task.need)
  <2>1. task' = Failed(task)
    BY <1>6 DEF EnsureCheck
  <2>2. /\ Moves(task, task') /\ task'.broke = task.broke
        /\ \/ task'.ph = "refused" /\ task'.dev = task.dev
           \/ task'.ph = "budget" /\ task.sc # 1
    BY <1>1, <1>2, <2>1, FailedMoves
  <2>3. task'.busy = task.busy /\ task'.room = task.room /\ task'.need = task.need
    BY <2>2 DEF Moves
  <2>4. TypeInv' /\ MemInv' /\ EntryInv' /\ TaskInv' /\ JobInv' /\ SlotInv' /\ SameBudget' /\ ReservationsMatch'
    BY <1>1, <1>3, <2>2, MovesKeeps
  <2>5. BudgetInv'
    BY <2>2 DEF BudgetInv
  <2>6. RefusalInv'
    <3>1. CASE task'.ph = "refused" /\ task'.dev = task.dev
      <4>1. Evictable(task.dev, task.busy) = {} \/ task.broke
        BY <1>1 DEF RefusalInv
      <4>2. Evictable(task.dev, task.busy)' = Evictable(task.dev, task.busy)
        BY <1>1, <2>3, <3>1 DEF Evictable, OnDevice, Resident, Parts
      <4> QED
        BY <2>2, <4>1, <4>2 DEF RefusalInv
    <3>2. CASE task'.ph = "budget"
      BY <3>2 DEF RefusalInv
    <3> QED
      BY <2>2, <3>1, <3>2
  <2>7. RoomInv'
    <3>1. ~task.room \/ ~(\A b \in Budgets : b <= Phys)
      BY <1>1, <1>2, <1>6 DEF RoomInv
    <3> QED
      BY <2>3, <3>1 DEF RoomInv
  <2> QED
    BY <2>4, <2>5, <2>6, <2>7
<1>7. CASE ~OverBudget(task.dev, task.need)
  <2>1. task' = [task EXCEPT !.ph = "free"]
    BY <1>7 DEF EnsureCheck
  <2>2. /\ Moves(task, task') /\ task'.ph = "free" /\ task'.dev = task.dev /\ task'.need = task.need
        /\ task'.room = task.room
    BY <1>1, <1>2, <2>1 DEF Moves, Tasks
  <2>3. TypeInv' /\ MemInv' /\ EntryInv' /\ TaskInv' /\ JobInv' /\ SlotInv' /\ SameBudget' /\ ReservationsMatch'
    BY <1>1, <1>3, <2>2, MovesKeeps
  <2>4. ~OverBudget(task.dev, task.need)' /\ Free(task.dev)' = Free(task.dev)
    BY <1>1, <1>7, <2>2 DEF OverBudget, Used, Free, Real, Building
  <2>5. RefusalInv' /\ BudgetInv' /\ RoomInv'
    BY <1>1, <1>2, <2>2, <2>4 DEF RefusalInv, BudgetInv, RoomInv
  <2> QED
    BY <2>3, <2>5
<1> QED
  BY <1>6, <1>7

\* The second loop of ensure_vram keeps the invariant.
LEMMA EnsureFreeStep ==
  ASSUME IInv, EnsureFree, kind' = kind
  PROVE  IInv'
<1> USE DEF IInv
<1>1. task \in Tasks /\ task.ph = "free" /\ UNCHANGED <<pend, job, budget>>
  BY IdleMeans DEF EnsureFree, Idle, NoTask
<1>2. task.dev \in Gpus /\ task.need \in Nat /\ ~OverBudget(task.dev, task.need)
  BY <1>1 DEF Tasks, BudgetInv
<1>3. "free" \in Asking /\ "granted" \in Asking
  BY DEF Asking
<1>4. \A v \in Evictable(task.dev, task.busy) : v \in Indexes /\ home[v] # 0
  BY DEF Evictable, Resident
<1>5. CASE ~(task.need > Free(task.dev)) /\ task' = [task EXCEPT !.ph = "granted"] /\ UNCHANGED <<disk, home, mem>>
  <2>1. Moves(task, task') /\ task'.ph = "granted" /\ task'.dev = task.dev /\ task'.need = task.need /\ task'.room = task.room
    BY <1>1, <1>3, <1>5 DEF Moves, Tasks
  <2>2. TypeInv' /\ MemInv' /\ EntryInv' /\ TaskInv' /\ JobInv' /\ SlotInv' /\ SameBudget' /\ ReservationsMatch'
    BY <1>1, <1>5, <2>1, MovesKeeps DEF Shrinks, TypeInv
  <2>3. ~OverBudget(task.dev, task.need)' /\ Free(task.dev)' = Free(task.dev)
    BY <1>1, <1>2, <1>5, <2>1 DEF OverBudget, Used, Free, Real, Building
  <2>4. RefusalInv' /\ BudgetInv' /\ RoomInv'
    BY <1>1, <1>3, <2>1, <2>3 DEF RefusalInv, BudgetInv, RoomInv
  <2> QED
    BY <2>2, <2>4
<1>6. ASSUME NEW why \in BOOLEAN, task' = Failed([task EXCEPT !.broke = why]), Shrinks,
             disk' \in [Indexes -> [n : Nat, sc : Nat \ {0}]], task.need > Free(task.dev),
             why \/ (Evictable(task.dev, task.busy) = {} /\ UNCHANGED <<home, mem>>)
      PROVE  IInv'
  <2>1. PICK t \in Tasks : t = [task EXCEPT !.broke = why]
    BY <1>1 DEF Tasks
  <2>2. Moves(task, t) /\ t.ph \in Asking /\ t.dev = task.dev /\ t.sc = task.sc /\ t.broke = why /\ t.busy = task.busy
    BY <1>1, <1>3, <2>1 DEF Moves, Tasks
  <2>3. task' = Failed(t)
    BY <1>6, <2>1
  <2>4. /\ Moves(t, task') /\ task'.broke = why
        /\ \/ task'.ph = "refused" /\ task'.dev = task.dev
           \/ task'.ph = "budget" /\ task.sc # 1
    BY <2>2, <2>3, FailedMoves
  <2>5. Moves(task, task') /\ task'.busy = task.busy /\ task'.room = task.room
    BY <2>2, <2>4 DEF Moves
  <2>6. TypeInv' /\ MemInv' /\ EntryInv' /\ TaskInv' /\ JobInv' /\ SlotInv' /\ SameBudget' /\ ReservationsMatch'
    BY <1>1, <1>6, <2>5, MovesKeeps
  <2>7. BudgetInv'
    BY <2>4 DEF BudgetInv
  <2>8. RefusalInv'
    <3>1. CASE why
      BY <2>4, <3>1 DEF RefusalInv
    <3>2. CASE ~why /\ task'.ph = "refused" /\ task'.dev = task.dev
      <4>1. Evictable(task.dev, task.busy) = {} /\ UNCHANGED <<home, mem>>
        BY <1>6, <3>2
      <4>2. Evictable(task.dev, task.busy)' = {}
        BY <2>5, <3>2, <4>1 DEF Evictable, OnDevice, Resident, Parts
      <4> QED
        BY <4>2 DEF RefusalInv
    <3>3. CASE task'.ph = "budget"
      BY <3>3 DEF RefusalInv
    <3> QED
      BY <2>4, <3>1, <3>2, <3>3
  <2>9. RoomInv'
    <3>1. Free(task.dev) \in Nat
      BY <1>2, Amounts
    <3>2. ~task.room \/ ~(\A b \in Budgets : b <= Phys)
      BY <1>1, <1>2, <1>3, <1>6, <3>1 DEF RoomInv
    <3> QED
      BY <2>5, <3>2 DEF RoomInv
  <2> QED
    BY <2>6, <2>7, <2>8, <2>9
<1>7. ASSUME NEW v \in Evictable(task.dev, task.busy), Evicted(v), task' = task, task.need > Free(task.dev)
      PROVE  IInv'
  <2>1. Moves(task, task')
    BY <1>1, <1>3, <1>7 DEF Moves
  <2>2. Shrinks /\ disk' \in [Indexes -> [n : Nat, sc : Nat \ {0}]]
    BY <1>4, <1>7, EvictedType
  <2>3. TypeInv' /\ MemInv' /\ EntryInv' /\ TaskInv' /\ JobInv' /\ SlotInv' /\ SameBudget' /\ ReservationsMatch'
    BY <1>1, <2>1, <2>2, MovesKeeps
  <2>4. ~OverBudget(task.dev, task.need)'
    <3>1. mem' \subseteq mem
      BY <2>2 DEF Shrinks
    <3>2. PICK g \in Gpus, need \in Nat : g = task.dev /\ need = task.need
      BY <1>2
    <3>3. ~OverBudget(g, need)'
      BY <1>1, <1>2, <3>1, <3>2, LessOver
    <3> QED
      BY <1>7, <3>2, <3>3 DEF OverBudget, Used
  <2>5. RefusalInv' /\ BudgetInv'
    BY <1>1, <1>7, <2>4 DEF RefusalInv, BudgetInv
  <2>6. RoomInv'
    <3>1. Free(task.dev) \in Nat
      BY <1>2, Amounts
    <3>2. ~task.room \/ ~(\A b \in Budgets : b <= Phys)
      BY <1>1, <1>2, <1>3, <1>7, <3>1 DEF RoomInv
    <3> QED
      BY <1>7, <3>2 DEF RoomInv
  <2> QED
    BY <2>3, <2>5, <2>6
<1>8. CASE task.need > Free(task.dev)
  <2>1. disk \in [Indexes -> [n : Nat, sc : Nat \ {0}]]
    BY DEF TypeInv
  <2>2. CASE /\ Evictable(task.dev, task.busy) = {} /\ task' = Failed([task EXCEPT !.broke = FALSE])
             /\ UNCHANGED <<disk, home, mem>>
    BY <1>6, <1>8, <2>1, <2>2 DEF Shrinks
  <2>3. CASE task' = Failed([task EXCEPT !.broke = TRUE]) /\ UNCHANGED <<disk, home, mem>>
    BY <1>6, <1>8, <2>1, <2>3 DEF Shrinks
  <2>4. ASSUME NEW v \in Evictable(task.dev, task.busy), Evicted(v),
               task' = Failed([task EXCEPT !.broke = TRUE]) \/ task' = task
        PROVE  IInv'
    <3>1. Shrinks /\ disk' \in [Indexes -> [n : Nat, sc : Nat \ {0}]]
      BY <1>4, <2>4, EvictedType
    <3> QED
      BY <1>6, <1>7, <1>8, <2>4, <3>1
  <2> HIDE DEF IInv
  <2> QED
    BY <1>8, <2>2, <2>3, <2>4, EnsureFreeCases
<1>9. CASE ~(task.need > Free(task.dev))
  <2>1. task' = [task EXCEPT !.ph = "granted"] /\ UNCHANGED <<disk, home, mem>>
    BY <1>9 DEF EnsureFree
  <2> HIDE DEF IInv
  <2> QED
    BY <1>5, <1>9, <2>1
<1> QED
  BY <1>8, <1>9

\* To free what was placed and release the mutex keeps the invariant.
LEMMA TidyUp ==
  ASSUME IInv, task' = NoTask, mem' = mem \ Placed, UNCHANGED <<kind, home, pend, job, budget>>,
         disk' \in [Indexes -> [n : Nat, sc : Nat \ {0}]]
  PROVE  IInv'
<1> USE DEF IInv
<1>1. TypeInv'
  <2>1. IsFiniteSet(mem')
    BY FS_Subset DEF TypeInv
  <2> QED
    BY <2>1 DEF TypeInv
<1>2. TaskInv' /\ RefusalInv' /\ BudgetInv' /\ RoomInv'
  BY IdleTask
<1>3. JobInv' /\ SameBudget' /\ ReservationsMatch'
  BY OuterSame
<1>4. MemInv'
  <2>1. ASSUME NEW b \in mem' PROVE b \in mem /\ b.part # "placed"
    BY DEF Placed
  <2> QED
    BY <2>1 DEF MemInv, GraphOK, BfOK, DeltaOK, LeakOK, Sized
<1>5. \A i \in Indexes : Parts(i, {"graph"})' = Parts(i, {"graph"})
  BY DEF Parts, Placed
<1>6. EntryInv'
  BY <1>5 DEF EntryInv
<1>7. SlotInv'
  BY DEF SlotInv, Resident
<1> QED
  BY <1>1, <1>2, <1>3, <1>4, <1>6, <1>7

\* A refusal frees what was placed.
LEMMA RefuseStep ==
  ASSUME IInv, Refuse, kind' = kind
  PROVE  IInv'
BY TidyUp DEF Refuse, IInv, TypeInv

\* A failed allocation or commit does so too.
LEMMA GiveUpStep ==
  ASSUME IInv, GiveUp, kind' = kind
  PROVE  IInv'
BY TidyUp DEF GiveUp, IInv, TypeInv

\* What build j holds on GPU g.
Weight(j, g) == IF j.dev = g THEN j.need ELSE 0

\* When the build of one index changes, the sum changes by that.
LEMMA BuildingChanges ==
  ASSUME job \in [Indexes -> Jobs \cup {NoJob}], NEW i \in Indexes, NEW j \in Jobs \cup {NoJob},
         job' = [job EXCEPT ![i] = j], NEW g
  PROVE  /\ Building(g)' = Building(g) - Weight(job[i], g) + Weight(j, g)
         /\ Building(g) \in Nat /\ Weight(job[i], g) \in Nat /\ Weight(j, g) \in Nat
<1> DEFINE f == [k \in Indexes |-> IF job[k].dev = g THEN job[k].need ELSE 0]
           h == [k \in Indexes |-> IF job'[k].dev = g THEN job'[k].need ELSE 0]
<1>1. Building(g) = SumFunctionOnSet(f, Indexes) /\ Building(g)' = SumFunctionOnSet(h, Indexes)
  BY DEF Building, SumFunction
<1>2. \A k \in Jobs \cup {NoJob} : Weight(k, g) \in Nat
  BY DEF Weight, Jobs, NoJob
<1>3. job' \in [Indexes -> Jobs \cup {NoJob}] /\ job'[i] = j /\ \A k \in Indexes \ {i} : job'[k] = job[k]
  OBVIOUS
<1>4. \A k \in Indexes : f[k] = Weight(job[k], g) /\ h[k] = Weight(job'[k], g)
  BY DEF Weight
<1> HIDE DEF f, h
<1>5. \A k \in Indexes : f[k] \in Nat /\ h[k] \in Nat
  BY <1>2, <1>3, <1>4
<1>6. IsFiniteSet(Indexes) /\ IsFiniteSet(Indexes \ {i})
  BY IndexesAssumption, FS_Subset
<1>7. SumFunctionOnSet(f, Indexes) = f[i] + SumFunctionOnSet(f, Indexes \ {i})
  BY <1>5, <1>6, SumRemove
<1>8. SumFunctionOnSet(h, Indexes) = h[i] + SumFunctionOnSet(h, Indexes \ {i})
  BY <1>5, <1>6, SumRemove
<1>9. SumFunctionOnSet(f, Indexes \ {i}) = SumFunctionOnSet(h, Indexes \ {i})
  <2>1. \A k \in Indexes \ {i} : f[k] \in Int /\ f[k] = h[k]
    BY <1>3, <1>4, <1>5
  <2> QED
    BY <1>6, <2>1, SumSame
<1>10. SumFunctionOnSet(f, Indexes \ {i}) \in Nat
  BY <1>5, <1>6, SumNat
<1>11. f[i] = Weight(job[i], g) /\ h[i] = Weight(j, g) /\ f[i] \in Nat /\ h[i] \in Nat
  BY <1>3, <1>4, <1>5
<1> QED
  BY <1>1, <1>7, <1>8, <1>9, <1>10, <1>11

\* A request for one piece has placed nothing before.
LEMMA NothingPlaced ==
  ASSUME IInv, task \in Tasks, task.ph \in Asking, task.sc = 1
  PROVE  Placed = {} /\ task.s = 1 /\ task.need = Need(task.op, task.i, task.n, 1, 1)
<1>1. task.s \in Nat \ {0} /\ task.ph # "none"
  BY DEF Tasks, Asking
<1>2. task.s <= 1
  BY <1>1 DEF IInv, TaskInv
<1>3. task.s = 1
  BY <1>1, <1>2
<1>4. \A b \in Placed : b.s \in 1 .. 1 /\ b.s < 1
  BY <1>3 DEF IInv, MemInv, PlacedOK, Placed
<1>5. Placed = {}
  BY <1>4
<1> QED
  BY <1>1, <1>3, <1>5 DEF IInv, TaskInv

\* The reservation added to g_pending_build_vram is that of the build that starts.
LEMMA ReserveStep ==
  ASSUME IInv, Reserve, kind' = kind
  PROVE  IInv'
<1> USE DEF IInv
<1>1. /\ task \in Tasks /\ task.ph = "granted" /\ task.op = "build" /\ task.sc = 1 /\ kind[task.i] = "cagra"
      /\ task' = NoTask /\ UNCHANGED <<disk, home, mem, budget>>
  BY IdleMeans DEF Reserve, Idle, NoTask
<1>2. task.ph \in Asking /\ task.ph # "none"
  BY <1>1 DEF Asking
<1>3. task.dev \in Gpus /\ task.need \in Nat /\ task.n \in Nat \ {0} /\ task.i \in Indexes
  BY <1>1 DEF Tasks
<1>4. Placed = {} /\ task.need = Need(task.op, task.i, task.n, 1, 1)
  BY <1>1, <1>2, NothingPlaced
<1>5. job[task.i] = NoJob
  BY <1>1, <1>2 DEF TaskInv
<1>6. PICK j \in Jobs : /\ j.dev = task.dev /\ j.need = task.need /\ j.n = task.n
                        /\ job' = [job EXCEPT ![task.i] = j]
  <2>1. [dev |-> task.dev, need |-> task.need, n |-> task.n, st |-> "gpu"] \in Jobs
    BY <1>3 DEF Jobs
  <2> QED
    BY <2>1 DEF Reserve
<1>7. pend' = [pend EXCEPT ![task.dev] = pend[task.dev] + task.need]
  BY DEF Reserve
<1>8. TypeInv'
  <2>1. pend' \in [Gpus -> Int]
    BY <1>3, <1>7 DEF TypeInv
  <2>2. job' \in [Indexes -> Jobs \cup {NoJob}]
    BY <1>6 DEF TypeInv
  <2> QED
    BY <1>1, <2>1, <2>2 DEF TypeInv
<1>9. Shrinks
  BY <1>1 DEF Shrinks
<1>10. MemInv' /\ EntryInv' /\ SlotInv'
  BY <1>4, <1>9, ShrinksMem, ShrinksEntries, ShrinksSlots
<1>11. TaskInv' /\ RefusalInv' /\ BudgetInv' /\ RoomInv' /\ SameBudget'
  BY <1>1, IdleTask DEF SameBudget
<1>12. JobInv'
  <2>1. task.need = task.n * Degree[task.i]
    BY <1>1, <1>3, <1>4, AllRows DEF Need
  <2>2. j.need = j.n * Degree[task.i]
    BY <1>6, <2>1
  <2>3. \A i \in Indexes : job'[i] = IF i = task.i THEN j ELSE job[i]
    BY <1>6 DEF TypeInv
  <2> QED
    BY <1>1, <2>2, <2>3 DEF JobInv
<1>13. ReservationsMatch'
  <2>1. ASSUME NEW g \in Gpus PROVE pend'[g] = Building(g)'
    <3>1. /\ Building(g)' = Building(g) - Weight(job[task.i], g) + Weight(j, g)
          /\ Building(g) \in Nat
      BY <1>3, <1>6, BuildingChanges DEF TypeInv
    <3>2. Weight(job[task.i], g) = 0
      BY <1>5 DEF Weight, NoJob
    <3>3. Weight(j, g) = IF g = task.dev THEN task.need ELSE 0
      BY <1>6 DEF Weight
    <3>4. pend'[g] = IF g = task.dev THEN pend[g] + task.need ELSE pend[g]
      BY <1>7 DEF TypeInv
    <3>5. pend[g] = Building(g)
      BY DEF ReservationsMatch
    <3> QED
      BY <1>3, <3>1, <3>2, <3>3, <3>4, <3>5
  <2> QED
    BY <2>1 DEF ReservationsMatch
<1> QED
  BY <1>8, <1>10, <1>11, <1>12, <1>13

\* A product of positive numbers is positive.
LEMMA Positive ==
  ASSUME NEW m \in Nat \ {0}, NEW n \in Nat \ {0}
  PROVE  m * n > 0
OBVIOUS

\* To place a piece, and go on to the next shard, keeps the invariant.
LEMMA PlaceStep ==
  ASSUME IInv, Place, kind' = kind
  PROVE  IInv'
<1> USE DEF IInv
<1>1. task \in Tasks /\ task.ph = "granted" /\ UNCHANGED <<disk, home, pend, job, budget>>
  BY IdleMeans DEF Place, Idle, NoTask
<1>2. /\ task.dev \in Gpus /\ task.need \in Nat /\ task.n \in Nat \ {0} /\ task.i \in Indexes
      /\ task.s \in Nat \ {0} /\ task.sc \in Nat \ {0}
  BY <1>1 DEF Tasks
<1>3. task.ph \in Asking /\ task.ph # "none" /\ task.ph \notin Closing
  BY <1>1 DEF Asking, Closing
<1>4. /\ task.s <= task.sc /\ (task.room => task.sc = 1) /\ kind[task.i] # "flat"
      /\ task.need = Need(task.op, task.i, task.n, task.sc, task.s)
      /\ (task.op = "build" /\ task.sc = 1 /\ kind[task.i] = "cagra" => job[task.i] = NoJob)
      /\ (task.s > 1 => \E b \in Placed : b.s = 1)
  BY <1>3 DEF TaskInv
<1>5. PICK r \in Nat : r = ShardRows(task.n, task.sc, task.s)
  BY <1>2, ShardRowsNat
<1>6. Degree[task.i] \in Nat \ {0} /\ Usual \in Nat
  BY <1>2, SizesAssumption
<1>7. r * Degree[task.i] \in Nat /\ (task.need = r * Degree[task.i] \/ task.need = r * Usual)
  BY <1>4, <1>5, <1>6 DEF Need
<1>8. task.sc = 1 => r * Degree[task.i] > 0
  <2>1. task.sc = 1 => r = task.n
    BY <1>2, <1>4, <1>5, AllRows
  <2> QED
    BY <1>2, <1>6, <2>1, Positive
<1>9. PICK new \in Blocks : /\ mem' = mem \cup {new} /\ new.i = task.i /\ new.part = "placed" /\ new.s = task.s
                            /\ new.at = task.dev /\ new.cnt = 0 /\ new.acc = task.need /\ new.act = r * Degree[task.i]
  <2>1. Blk(task.i, "placed", task.s, task.dev, 0, task.need, r * Degree[task.i]) \in Blocks
    BY <1>2, <1>7, NGAssumption DEF Blk, Blocks, PartNames
  <2> QED
    BY <1>5, <2>1 DEF Place, Blk
<1>10. /\ task' \in Tasks /\ task'.i = task.i /\ task'.sc = task.sc /\ task'.op = task.op /\ task'.n = task.n
       /\ \/ task'.ph = "slot" /\ task'.s = task.s /\ task'.dev = task.dev /\ task'.room = FALSE /\ task.s = task.sc
          \/ /\ task'.ph = "budget" /\ task'.s = task.s + 1 /\ task'.room = task.room /\ task.s # task.sc
             /\ task'.need = Need(task.op, task.i, task.n, task.sc, task.s + 1)
  <2>1. CASE task.s = task.sc
    <3>1. task' = [task EXCEPT !.ph = "slot", !.room = FALSE]
      BY <2>1 DEF Place
    <3> QED
      BY <1>1, <2>1, <3>1 DEF Tasks, Closing
  <2>2. CASE task.s # task.sc
    <3>1. task' = [task EXCEPT !.s = task.s + 1, !.ph = "budget", !.alt = FALSE,
                               !.need = Need(task.op, task.i, task.n, task.sc, task.s + 1),
                               !.dev = RoundRobin(task.s + 1)]
      BY <2>2 DEF Place
    <3>2. task.s + 1 \in Nat \ {0}
      BY <1>2
    <3>3. Need(task.op, task.i, task.n, task.sc, task.s + 1) \in Nat /\ RoundRobin(task.s + 1) \in Gpus
      BY <1>2, <3>2, NeedNat, RoundRobinGpu
    <3> QED
      BY <1>1, <2>2, <3>1, <3>2, <3>3 DEF Tasks, Asking
  <2> QED
    BY <2>1, <2>2
<1>11. TypeInv'
  <2>1. IsFiniteSet(mem') /\ mem' \subseteq Blocks
    BY <1>9, FS_AddElement DEF TypeInv
  <2> QED
    BY <1>1, <1>10, <2>1 DEF TypeInv
<1>12. task'.ph # "none" /\ task'.s \in Nat /\ task.s <= task'.s /\ (task'.ph \in Asking => task.s < task'.s)
  BY <1>2, <1>10 DEF Asking
<1>13. MemInv'
  <2>1. ASSUME NEW b \in Placed PROVE PlacedOK(b)'
    <3>1. PlacedOK(b)
      BY DEF MemInv, Placed
    <3>2. b.s \in 1 .. task.s /\ b.s < task.s
      BY <1>3, <3>1 DEF PlacedOK
    <3>3. task.sc # 1
      BY <1>1, <1>3, NothingPlaced
    <3>4. b.s \in 1 .. task'.s /\ (task'.ph \in Asking => b.s < task'.s)
      BY <1>2, <1>12, <3>2
    <3> QED
      BY <1>10, <1>12, <3>1, <3>3, <3>4 DEF PlacedOK, Sized
  <2>2. PlacedOK(new)'
    <3>1. Sized(new)
      BY <1>7, <1>9 DEF Sized
    <3>2. new.s \in 1 .. task'.s /\ (task'.ph \in Asking => new.s < task'.s)
      BY <1>2, <1>9, <1>12
    <3>3. task'.sc = 1 => task'.dev = task.dev /\ new.act > 0
      BY <1>2, <1>4, <1>8, <1>9, <1>10
    <3> QED
      BY <1>4, <1>9, <1>10, <1>12, <3>1, <3>2, <3>3 DEF PlacedOK, Sized
  <2>3. ASSUME NEW b \in mem, b.part # "placed"
        PROVE  /\ b.part = "graph" => GraphOK(b)'
               /\ b.part = "bf" => BfOK(b)'
               /\ b.part = "delta" => DeltaOK(b)'
               /\ b.part = "leak" => LeakOK(b)'
    BY <1>1, <2>3 DEF MemInv, GraphOK, BfOK, DeltaOK, LeakOK, Sized
  <2>4. ASSUME NEW b \in mem, b.part = "placed" PROVE PlacedOK(b)'
    BY <2>1, <2>4 DEF Placed
  <2> QED
    BY <1>9, <2>2, <2>3, <2>4 DEF MemInv
<1>14. \A i \in Indexes : Parts(i, {"graph"})' = Parts(i, {"graph"})
  BY <1>9 DEF Parts
<1>15. EntryInv' /\ SlotInv'
  BY <1>1, <1>14 DEF EntryInv, SlotInv, Resident
<1>16. JobInv' /\ SameBudget' /\ ReservationsMatch'
  BY <1>1, OuterSame
<1>17. \E b \in Placed' : b.s = 1
  <2>1. new \in Placed' /\ Placed \subseteq Placed'
    BY <1>9 DEF Placed
  <2> QED
    BY <1>2, <1>4, <1>9, <2>1
<1>18. task'.s <= task'.sc
  BY <1>2, <1>4, <1>10
<1>19. TaskInv'
  BY <1>1, <1>2, <1>4, <1>10, <1>17, <1>18 DEF TaskInv, Asking
<1>20. RefusalInv' /\ BudgetInv'
  BY <1>10 DEF RefusalInv, BudgetInv
<1>21. RoomInv'
  <2>1. task'.ph \in Asking => ~task'.room
    BY <1>2, <1>4, <1>10 DEF Asking
  <2> QED
    BY <2>1 DEF RoomInv
<1> QED
  BY <1>11, <1>13, <1>15, <1>16, <1>19, <1>20, <1>21

\* The image of a finite set is finite.
LEMMA FiniteImage ==
  ASSUME NEW S, IsFiniteSet(S), NEW f
  PROVE  IsFiniteSet({f[x] : x \in S})
<1> DEFINE Im(T) == {f[x] : x \in T}
           G == {T \in SUBSET S : IsFiniteSet(Im(T))}
<1>1. {} \in G
  <2>1. Im({}) = {}
    OBVIOUS
  <2> QED
    BY <2>1, FS_EmptySet
<1>2. ASSUME NEW T \in SUBSET S, NEW x \in S \ T, T \in G PROVE T \cup {x} \in G
  <2>1. Im(T \cup {x}) = Im(T) \cup {f[x]} /\ T \cup {x} \in SUBSET S
    OBVIOUS
  <2>2. IsFiniteSet(Im(T))
    BY <1>2
  <2> HIDE DEF Im
  <2>3. IsFiniteSet(Im(T) \cup {f[x]})
    BY <2>2, FS_AddElement
  <2> QED
    BY <2>1, <2>3
<1> HIDE DEF G
<1>3. S \in G
  BY <1>1, <1>2, FiniteInduction
<1> QED
  BY <1>3 DEF G

\* To evict for a slot keeps the invariant.
LEMMA MakeSlotStep ==
  ASSUME IInv, MakeSlot, kind' = kind
  PROVE  IInv'
<1> USE DEF IInv
<1>1. task \in Tasks /\ task.ph = "slot" /\ UNCHANGED <<pend, job, budget>>
  BY IdleMeans DEF MakeSlot, Idle, NoTask
<1>2. task' = [task EXCEPT !.ph = "register", !.room = FALSE]
  BY DEF MakeSlot, EvictLru
<1>3. Shrinks /\ disk' \in [Indexes -> [n : Nat, sc : Nat \ {0}]]
  <2>1. PICK g : \/ UNCHANGED <<disk, home, mem>>
                 \/ \E v \in Evictable(g, task.busy) : Evicted(v)
    BY DEF MakeSlot, EvictLru, Evicted
  <2>2. CASE UNCHANGED <<disk, home, mem>>
    BY <2>2 DEF Shrinks, TypeInv
  <2>3. ASSUME NEW v \in Evictable(g, task.busy), Evicted(v)
        PROVE  Shrinks /\ disk' \in [Indexes -> [n : Nat, sc : Nat \ {0}]]
    BY <2>3, EvictedType DEF Evictable, Resident
  <2> QED
    BY <2>1, <2>2, <2>3
<1>4. /\ task' \in Tasks /\ task'.ph = "register" /\ task'.room = FALSE /\ task'.i = task.i /\ task'.s = task.s
      /\ task'.sc = task.sc /\ task'.dev = task.dev /\ task'.op = task.op
  BY <1>1, <1>2 DEF Tasks, Closing
<1>5. task.ph # "none" /\ task.ph \in Closing /\ task'.ph # "none" /\ task'.ph \in Closing /\ task'.ph \notin Asking
  BY <1>1, <1>4 DEF Closing, Asking
<1>6. TypeInv'
  BY <1>1, <1>3, <1>4, ShrinksTypes DEF TypeInv
<1>7. ASSUME NEW b \in Placed PROVE PlacedOK(b)'
  <2>1. PlacedOK(b)
    BY DEF MemInv, Placed
  <2> QED
    BY <1>4, <1>5, <2>1 DEF PlacedOK, Sized
<1>8. MemInv' /\ EntryInv' /\ SlotInv'
  BY <1>3, <1>7, ShrinksMem, ShrinksEntries, ShrinksSlots
<1>9. JobInv' /\ SameBudget' /\ ReservationsMatch'
  BY <1>1, OuterSame
<1>10. TaskInv'
  <2>1. Placed' = Placed
    BY <1>3, ShrinksPlaced
  <2> QED
    BY <1>1, <1>4, <1>5, <2>1 DEF TaskInv
<1>11. RefusalInv' /\ BudgetInv' /\ RoomInv'
  BY <1>4 DEF RefusalInv, BudgetInv, RoomInv
<1> QED
  BY <1>6, <1>8, <1>9, <1>10, <1>11

\* The blocks a registration makes out of the ones that were placed.
Registered == {[b EXCEPT !.part = "graph", !.cnt = b.at] : b \in Placed}

\* What is registered is what was placed, counted where it lies.
LEMMA RegisteredBlocks ==
  ASSUME IInv, task.ph = "register"
  PROVE  /\ IsFiniteSet(Registered) /\ Registered \subseteq Blocks
         /\ \A c \in Registered : \E b \in Placed :
              c.i = b.i /\ c.part = "graph" /\ c.s = b.s /\ c.at = b.at /\ c.cnt = b.at /\ c.acc = b.acc /\ c.act = b.act
         /\ \A b \in Placed : \E c \in Registered : c.i = b.i /\ c.part = "graph" /\ c.s = b.s
         /\ \A g \in Gpus : /\ Estimate({c \in Registered : c.cnt = g}) \in Nat
                            /\ Estimate({c \in Registered : c.cnt = g}) <= Estimate({b \in Placed : b.at = g})
<1> DEFINE phi == [b \in Placed |-> [b EXCEPT !.part = "graph", !.cnt = b.at]]
<1>1. Registered = {phi[b] : b \in Placed}
  BY DEF Registered
<1>2. Placed \in SUBSET mem /\ mem \subseteq Blocks /\ IsFiniteSet(mem)
  BY DEF IInv, TypeInv, Placed
<1>3. ASSUME NEW b \in Placed
      PROVE  /\ phi[b] \in Blocks /\ phi[b].i = b.i /\ phi[b].part = "graph" /\ phi[b].s = b.s /\ phi[b].at = b.at
             /\ phi[b].cnt = b.at /\ phi[b].acc = b.acc /\ phi[b].act = b.act /\ b.acc \in Nat
  <2>1. b \in Blocks
    BY <1>2
  <2>2. b.at \in 0 .. NG
    BY <2>1, GpusFinite DEF Blocks
  <2> QED
    BY <2>1, <2>2 DEF Blocks, PartNames
<1> HIDE DEF phi
<1>4. IsFiniteSet(Placed)
  BY <1>2, FS_Subset
<1>5. IsFiniteSet(Registered)
  BY <1>1, <1>4, FiniteImage
<1>6. ASSUME NEW g \in Gpus
      PROVE  /\ Estimate({c \in Registered : c.cnt = g}) \in Nat
             /\ Estimate({c \in Registered : c.cnt = g}) <= Estimate({b \in Placed : b.at = g})
  <2> DEFINE B == {b \in Placed : b.at = g}
  <2>1. IsFiniteSet(B) /\ \A b \in B : b.acc \in Nat /\ phi[b].acc = b.acc
    BY <1>3, <1>4, FS_Subset
  <2>2. {c \in Registered : c.cnt = g} = {phi[b] : b \in B}
    BY <1>1, <1>3
  <2> HIDE DEF B
  <2>3. Estimate({phi[b] : b \in B}) \in Nat /\ Estimate({phi[b] : b \in B}) <= Estimate(B)
    BY <2>1, EstimateImage
  <2> QED
    BY <2>2, <2>3 DEF B
<1> QED
  BY <1>1, <1>3, <1>5, <1>6

\* What a registration keeps of the entry it replaces.
LEMMA KeptBlocks ==
  ASSUME IInv, NEW i \in Indexes, NEW dev \in Gpus, NEW sc \in Nat
  PROVE  /\ IsFiniteSet(Kept(i, dev, sc)) /\ Kept(i, dev, sc) \subseteq Blocks
         /\ \A c \in Kept(i, dev, sc) :
              /\ c.i = i /\ kind[i] = "cagra" /\ home[i] \notin {0, Spread}
              /\ \E b \in Parts(i, {"bf"}) : c.acc = b.acc /\ c.at = b.at /\ c.act = b.act /\ c.s = b.s
              /\ \/ sc > 1 /\ c.part = "leak" /\ c.cnt = 0
                 \/ ~(sc > 1) /\ c.part = "bf" /\ c.cnt = dev
         /\ ~(sc > 1) /\ home[i] = dev => Kept(i, dev, sc) \subseteq Parts(i, {"bf"})
<1>1. Parts(i, {"bf"}) \subseteq mem /\ mem \subseteq Blocks /\ IsFiniteSet(Parts(i, {"bf"}))
  BY FS_Subset DEF IInv, TypeInv, Parts
<1>2. CASE home[i] \in {0, Spread} \/ kind[i] # "cagra"
  <2>1. Kept(i, dev, sc) = {}
    BY <1>2 DEF Kept
  <2> QED
    BY <2>1, FS_EmptySet
<1>3. CASE ~(home[i] \in {0, Spread} \/ kind[i] # "cagra") /\ sc > 1
  <2> DEFINE phi == [b \in Parts(i, {"bf"}) |-> [b EXCEPT !.part = "leak", !.cnt = 0]]
  <2>1. Kept(i, dev, sc) = {phi[b] : b \in Parts(i, {"bf"})}
    BY <1>3 DEF Kept
  <2>2. ASSUME NEW b \in Parts(i, {"bf"})
        PROVE  /\ phi[b] \in Blocks /\ phi[b].i = i /\ phi[b].part = "leak" /\ phi[b].s = b.s /\ phi[b].at = b.at
               /\ phi[b].cnt = 0 /\ phi[b].acc = b.acc /\ phi[b].act = b.act
    <3>1. b \in Blocks /\ b.i = i
      BY <1>1 DEF Parts
    <3>2. 0 \in 0 .. NG
      BY NGAssumption
    <3> QED
      BY <3>1, <3>2 DEF Blocks, PartNames
  <2> HIDE DEF phi
  <2>3. IsFiniteSet(Kept(i, dev, sc))
    BY <1>1, <2>1, FiniteImage
  <2> QED
    BY <1>3, <2>1, <2>2, <2>3
<1>4. CASE ~(home[i] \in {0, Spread} \/ kind[i] # "cagra") /\ ~(sc > 1)
  <2> DEFINE phi == [b \in Parts(i, {"bf"}) |-> [b EXCEPT !.cnt = dev]]
  <2>1. Kept(i, dev, sc) = {phi[b] : b \in Parts(i, {"bf"})}
    BY <1>4 DEF Kept
  <2>2. ASSUME NEW b \in Parts(i, {"bf"})
        PROVE  /\ phi[b] \in Blocks /\ phi[b].i = i /\ phi[b].part = "bf" /\ phi[b].s = b.s /\ phi[b].at = b.at
               /\ phi[b].cnt = dev /\ phi[b].acc = b.acc /\ phi[b].act = b.act
               /\ home[i] = dev => phi[b] = b
    <3>1. b \in Blocks /\ b.i = i /\ b.part = "bf" /\ dev \in 0 .. NG
      BY <1>1, GpusFinite DEF Parts
    <3>2. home[i] = dev => b.cnt = dev
      BY <1>1, <1>4, <3>1 DEF IInv, MemInv, BfOK
    <3> QED
      BY <3>1, <3>2 DEF Blocks, PartNames
  <2> HIDE DEF phi
  <2>3. IsFiniteSet(Kept(i, dev, sc))
    BY <1>1, <2>1, FiniteImage
  <2> QED
    BY <1>4, <2>1, <2>2, <2>3
<1> QED
  BY <1>2, <1>3, <1>4

\* A registration keeps the invariant: the entry has its graph, whatever it
\* replaces, and a slot.
LEMMA RegisterStep ==
  ASSUME IInv, Register, kind' = kind
  PROVE  IInv'
<1> USE DEF IInv
<1>1. task \in Tasks /\ task.ph = "register" /\ task' = NoTask /\ UNCHANGED <<pend, job, budget>>
  BY IdleMeans DEF Register, Idle, NoTask
<1>2. task.i \in Indexes /\ task.dev \in Gpus /\ task.n \in Nat /\ task.sc \in Nat \ {0}
  BY <1>1 DEF Tasks
<1>3. task.ph # "none" /\ task.ph \in Closing
  BY <1>1 DEF Closing
<1>4. disk' \in [Indexes -> [n : Nat, sc : Nat \ {0}]]
  <2>1. disk' = disk \/ disk' = [disk EXCEPT ![task.i] = [n |-> task.n, sc |-> task.sc]]
    BY DEF Register
  <2>2. [n |-> task.n, sc |-> task.sc] \in [n : Nat, sc : Nat \ {0}]
    BY <1>2
  <2>3. disk \in [Indexes -> [n : Nat, sc : Nat \ {0}]]
    BY DEF TypeInv
  <2> QED
    BY <2>1, <2>2, <2>3
<1>5. CASE ~(home[task.i] # 0 \/ ~Full)
  <2>1. mem' = mem \ Placed /\ home' = home
    BY <1>5 DEF Register
  <2> HIDE DEF IInv
  <2> QED
    BY <1>1, <1>4, <2>1, TidyUp
<1>6. CASE home[task.i] # 0 \/ ~Full
  <2>1. home' = [home EXCEPT ![task.i] = IF task.sc > 1 THEN Spread ELSE task.dev]
    BY <1>6 DEF Register
  <2>2. mem' = ((mem \ Placed) \ OfEntry(task.i)) \cup Kept(task.i, task.dev, task.sc) \cup Registered
    BY <1>6 DEF Register, Registered
  <2>3. /\ IsFiniteSet(Registered) /\ Registered \subseteq Blocks
        /\ \A c \in Registered : \E b \in Placed :
              c.i = b.i /\ c.part = "graph" /\ c.s = b.s /\ c.at = b.at /\ c.cnt = b.at /\ c.acc = b.acc /\ c.act = b.act
        /\ \A b \in Placed : \E c \in Registered : c.i = b.i /\ c.part = "graph" /\ c.s = b.s
    BY <1>1, RegisteredBlocks
  <2>4. /\ IsFiniteSet(Kept(task.i, task.dev, task.sc)) /\ Kept(task.i, task.dev, task.sc) \subseteq Blocks
        /\ \A c \in Kept(task.i, task.dev, task.sc) :
              /\ c.i = task.i /\ kind[task.i] = "cagra" /\ c.acc = c.act
              /\ \/ task.sc > 1 /\ c.part = "leak" /\ c.cnt = 0
                 \/ ~(task.sc > 1) /\ c.part = "bf" /\ c.cnt = task.dev
    <3>1. \A b \in Parts(task.i, {"bf"}) : b.acc = b.act
      BY DEF MemInv, BfOK, Parts
    <3>2. /\ IsFiniteSet(Kept(task.i, task.dev, task.sc)) /\ Kept(task.i, task.dev, task.sc) \subseteq Blocks
          /\ \A c \in Kept(task.i, task.dev, task.sc) :
                /\ c.i = task.i /\ kind[task.i] = "cagra"
                /\ \E b \in Parts(task.i, {"bf"}) : c.acc = b.acc /\ c.act = b.act
                /\ \/ task.sc > 1 /\ c.part = "leak" /\ c.cnt = 0
                   \/ ~(task.sc > 1) /\ c.part = "bf" /\ c.cnt = task.dev
      <4> HIDE DEF IInv
      <4> QED
        BY <1>2, KeptBlocks
    <3> QED
      BY <3>1, <3>2
  <2>5. /\ home'[task.i] = IF task.sc > 1 THEN Spread ELSE task.dev
        /\ home'[task.i] \in 0 .. Spread /\ home'[task.i] # 0
        /\ \A i \in Indexes : i # task.i => home'[i] = home[i]
        /\ home' \in [Indexes -> 0 .. Spread]
    <3>1. task.dev \in 0 .. Spread /\ task.dev # 0 /\ Spread # 0
      BY <1>2, GpusFinite
    <3>2. Spread \in 0 .. Spread
      BY NGAssumption DEF Spread
    <3> QED
      BY <1>2, <2>1, <3>1, <3>2 DEF TypeInv
  <2>6. IsFiniteSet(mem') /\ mem' \subseteq Blocks
    <3>1. IsFiniteSet((mem \ Placed) \ OfEntry(task.i)) /\ mem \subseteq Blocks
      BY FS_Subset DEF TypeInv
    <3>2. IsFiniteSet(((mem \ Placed) \ OfEntry(task.i)) \cup Kept(task.i, task.dev, task.sc))
      BY <2>4, <3>1, FS_Union
    <3>3. IsFiniteSet(mem')
      BY <2>2, <2>3, <3>2, FS_Union
    <3> QED
      BY <2>2, <2>3, <2>4, <3>1, <3>3
  <2>7. TaskInv' /\ RefusalInv' /\ BudgetInv' /\ RoomInv' /\ task' \in Tasks \cup {NoTask}
    BY <1>1, IdleTask
  <2>8. TypeInv'
    BY <1>1, <1>4, <2>5, <2>6, <2>7 DEF TypeInv
  <2>9. JobInv' /\ SameBudget' /\ ReservationsMatch'
    BY <1>1, OuterSame
  <2>10. MemInv'
    <3>1. ASSUME NEW b \in (mem \ Placed) \ OfEntry(task.i)
          PROVE  /\ b.part # "placed"
                 /\ b.part = "graph" => GraphOK(b)'
                 /\ b.part = "bf" => BfOK(b)'
                 /\ b.part = "delta" => DeltaOK(b)'
                 /\ b.part = "leak" => LeakOK(b)'
      <4>1. b \in mem /\ b.i \in Indexes /\ b.part # "placed"
        BY DEF TypeInv, Blocks, Placed
      <4>2. b.part \in {"graph", "bf", "delta"} => b.i # task.i /\ home'[b.i] = home[b.i]
        BY <2>5, <4>1 DEF OfEntry, Parts
      <4> QED
        BY <4>1, <4>2 DEF MemInv, GraphOK, BfOK, DeltaOK, LeakOK, Sized
    <3>2. ASSUME NEW c \in Kept(task.i, task.dev, task.sc)
          PROVE  (c.part = "bf" /\ BfOK(c)') \/ (c.part = "leak" /\ LeakOK(c)')
      <4>1. task.dev # Spread
        BY <1>2, GpusFinite DEF Spread
      <4> QED
        BY <2>4, <2>5, <4>1 DEF BfOK, LeakOK
    <3>3. ASSUME NEW c \in Registered
          PROVE  c.part = "graph" /\ GraphOK(c)'
      <4>1. PICK b \in Placed : c.i = b.i /\ c.part = "graph" /\ c.s = b.s /\ c.at = b.at /\ c.cnt = b.at /\ c.acc = b.acc /\ c.act = b.act
        BY <2>3
      <4>2. PlacedOK(b)
        BY DEF MemInv, Placed
      <4>3. b.i = task.i /\ kind[b.i] # "flat" /\ (task.sc = 1 => b.at = task.dev /\ b.act > 0)
        BY <4>2 DEF PlacedOK
      <4>4. Sized(c)
        BY <4>1, <4>2 DEF PlacedOK, Sized
      <4>5. home'[c.i] # Spread => task.sc = 1 /\ home'[c.i] = task.dev
        BY <1>2, <2>5, <4>1, <4>3
      <4>6. home'[c.i] # 0
        BY <2>5, <4>1, <4>3
      <4> QED
        BY <4>1, <4>3, <4>4, <4>5, <4>6 DEF GraphOK, Sized
    <3> QED
      BY <2>2, <3>1, <3>2, <3>3 DEF MemInv
  <2>11. EntryInv'
    <3>1. ASSUME NEW i \in Indexes, i # task.i PROVE Parts(i, {"graph"})' = Parts(i, {"graph"})
      <4>1. \A b \in Placed : b.i = task.i
        BY DEF MemInv, PlacedOK, Placed
      <4>2. \A c \in Registered : c.i = task.i
        BY <2>3, <4>1
      <4>3. \A c \in Kept(task.i, task.dev, task.sc) : c.i = task.i
        BY <2>4
      <4>4. \A b \in mem : b.i = i /\ b.part = "graph" => b \in (mem \ Placed) \ OfEntry(task.i)
        BY <3>1 DEF Placed, OfEntry, Parts
      <4> QED
        BY <2>2, <3>1, <4>2, <4>3, <4>4 DEF Parts
    <3>2. kind[task.i] # "flat" => \E c \in mem' : c.i = task.i /\ c.part = "graph" /\ c.s = 1
      <4>1. kind[task.i] # "flat" => \E b \in Placed : b.s = 1
        BY <1>3 DEF TaskInv
      <4>2. \A b \in Placed : b.i = task.i
        BY DEF MemInv, PlacedOK, Placed
      <4>3. ASSUME NEW b \in Placed, b.s = 1 PROVE \E c \in mem' : c.i = task.i /\ c.part = "graph" /\ c.s = 1
        BY <2>2, <2>3, <4>2, <4>3
      <4> QED
        BY <4>1, <4>3
    <3>3. home'[task.i] = Spread => kind[task.i] # "flat"
      BY <1>2, <1>3, <2>5, GpusFinite DEF TaskInv
    <3>4. ASSUME NEW i \in Indexes, i = task.i
          PROVE  /\ kind[i] # "flat" => Parts(i, {"graph"})' # {}
                 /\ home'[i] = Spread => \E b \in Parts(i, {"graph"})' : b.s = 1
      BY <3>2, <3>3, <3>4 DEF Parts
    <3>5. ASSUME NEW i \in Indexes, i # task.i
          PROVE  /\ home'[i] # 0 /\ kind[i] # "flat" => Parts(i, {"graph"})' # {}
                 /\ home'[i] = Spread => \E b \in Parts(i, {"graph"})' : b.s = 1
      BY <2>5, <3>1, <3>5 DEF EntryInv
    <3> QED
      BY <3>4, <3>5 DEF EntryInv
  <2>12. SlotInv'
    <3>1. Resident' = Resident \cup {task.i}
      BY <1>2, <2>5 DEF Resident
    <3>2. IsFiniteSet(Resident) /\ Cardinality(Resident) \in Nat
      BY IndexesAssumption, FS_Subset, FS_CardinalityType DEF Resident
    <3>3. CASE home[task.i] # 0
      <4>1. Resident' = Resident
        BY <1>2, <3>1, <3>3 DEF Resident
      <4> QED
        BY <4>1 DEF SlotInv
    <3>4. CASE ~Full
      <4>1. Cardinality(Resident') <= Cardinality(Resident) + 1 /\ Cardinality(Resident') \in Nat
        BY <3>1, <3>2, FS_AddElement
      <4>2. Cardinality(Resident) < MaxIdx
        BY <3>2, <3>4, SizesAssumption DEF Full
      <4> QED
        BY <3>2, <4>1, <4>2, SizesAssumption DEF SlotInv
    <3> QED
      BY <1>6, <3>3, <3>4
  <2> QED
    BY <2>7, <2>8, <2>9, <2>10, <2>11, <2>12
<1> QED
  BY <1>5, <1>6

\* If the counts are exact and some GPU has room, the GPU that
\* pick_gpu_for_index chooses has.
LEMMA RoomAtAsk ==
  ASSUME IInv, NEW need \in Nat, HasRoom(need), Exact, \A b \in Budgets : b <= Phys, Pick(need) # 0
  PROVE  ~OverBudget(Pick(need), need) /\ need <= Free(Pick(need))
<1> USE DEF IInv
<1>1. PICK g \in Gpus : ~OverBudget(g, need) /\ need <= Free(g)
  BY DEF HasRoom
<1>2. PICK d \in Gpus : d = Pick(need)
  BY PickBest
<1>3. PICK b \in Budgets : \A h \in Gpus : budget[h] = b
  BY DEF SameBudget
<1>4. \A h \in Gpus : /\ Used(h) \in Int /\ Real(h) \in Nat /\ Free(h) \in Nat /\ Headroom(h) \in Int
                      /\ Real(h) <= Used(h) /\ (b > 0 => Used(h) <= b)
  <2>1. ASSUME NEW h \in Gpus
        PROVE  /\ Used(h) \in Int /\ Real(h) \in Nat /\ Free(h) \in Nat /\ Headroom(h) \in Int
               /\ budget[h] \in Nat
    BY Amounts
  <2>2. \A h \in Gpus : Real(h) <= Used(h) /\ ~OverBudget(h, 0)
    BY DEF Exact
  <2> QED
    BY <1>3, <2>1, <2>2 DEF OverBudget
<1>5. b \in Nat /\ b < SizeMax /\ SizeMax \in Nat /\ b <= Phys /\ Phys \in Nat
  BY SizesAssumption
<1>6. g \in Candidates(need)
  BY <1>1, <1>3, <1>4, <1>5 DEF Candidates, OverBudget
<1>7. Headroom(d) >= Headroom(g)
  BY <1>2, <1>6, PickBest
<1>8. CASE b = 0
  <2>1. Headroom(d) = Free(d) /\ Headroom(g) = Free(g)
    BY <1>3, <1>8 DEF Headroom
  <2>2. need <= Free(d)
    BY <1>1, <1>4, <1>7, <2>1
  <2>3. ~OverBudget(d, need)
    BY <1>3, <1>8 DEF OverBudget
  <2> QED
    BY <1>2, <2>2, <2>3
<1>9. CASE b > 0
  <2>1. ASSUME NEW h \in Gpus PROVE Headroom(h) = b - Used(h)
    <3>1. Headroom(h) = (b - Used(h)) % SizeMax
      BY <1>3, <1>9 DEF Headroom
    <3>2. b - Used(h) \in Nat /\ b - Used(h) < SizeMax
      BY <1>4, <1>5, <1>9
    <3> QED
      BY <1>5, <3>1, <3>2
  <2>2. Used(g) + need <= b
    BY <1>1, <1>3, <1>4, <1>5, <1>9 DEF OverBudget
  <2>3. Used(d) + need <= b
    BY <1>4, <1>5, <1>7, <2>1, <2>2
  <2>4. ~OverBudget(d, need)
    BY <1>3, <1>4, <1>5, <2>3 DEF OverBudget
  <2>5. need <= Free(d)
    BY <1>4, <1>5, <2>3 DEF Free
  <2> QED
    BY <1>2, <2>4, <2>5
<1> QED
  BY <1>5, <1>8, <1>9

\* The request that is made.
LEMMA AskFields ==
  ASSUME NEW op \in {"build", "load"}, NEW i \in Indexes, NEW n \in Nat \ {0}, NEW sc \in Nat \ {0},
         NEW dev \in Gpus, NEW busy \in SUBSET Indexes
  PROVE  LET t == Ask(op, i, n, sc, dev, busy)
         IN /\ t \in Tasks
            /\ t.op = op /\ t.i = i /\ t.ph = "budget" /\ t.dev = dev /\ t.need = Need(op, i, n, sc, 1)
            /\ t.n = n /\ t.s = 1 /\ t.sc = sc /\ t.busy = busy
            /\ t.room => sc = 1 /\ HasRoom(Need(op, i, n, sc, 1)) /\ Exact
<1>1. PICK need \in Nat : need = Need(op, i, n, sc, 1)
  BY NeedNat
<1>2. PICK room \in BOOLEAN : room <=> sc = 1 /\ HasRoom(need) /\ Exact
  <2>1. CASE sc = 1 /\ HasRoom(need) /\ Exact
    BY <2>1
  <2>2. CASE ~(sc = 1 /\ HasRoom(need) /\ Exact)
    BY <2>2
  <2> QED
    BY <2>1, <2>2
<1>3. Ask(op, i, n, sc, dev, busy) =
        [op |-> op, i |-> i, ph |-> "budget", dev |-> dev, need |-> need, n |-> n, s |-> 1, sc |-> sc,
         busy |-> busy, alt |-> FALSE, broke |-> FALSE, room |-> room]
  <2>1. room = (sc = 1 /\ HasRoom(need) /\ Exact)
    BY <1>2
  <2>2. Ask(op, i, n, sc, dev, busy) =
          [NoTask EXCEPT !.op = op, !.i = i, !.ph = "budget", !.dev = dev, !.need = need,
                         !.n = n, !.s = 1, !.sc = sc, !.busy = busy, !.room = room]
    BY <1>1, <2>1 DEF Ask
  <2> QED
    BY <2>2 DEF NoTask
<1> QED
  BY <1>1, <1>2, <1>3 DEF Tasks, Asking

\* To make a request keeps the invariant.
LEMMA AskStep ==
  ASSUME IInv, Idle, NEW op \in {"build", "load"}, NEW i \in Indexes, NEW n \in Nat \ {0}, NEW sc \in Nat \ {0},
         NEW dev \in Gpus, NEW busy \in SUBSET Indexes, task' = Ask(op, i, n, sc, dev, busy),
         UNCHANGED <<kind, pend, job, budget>>, disk' \in [Indexes -> [n : Nat, sc : Nat \ {0}]], Shrinks,
         kind[i] # "flat", op = "build" /\ sc = 1 /\ kind[i] = "cagra" => job[i] = NoJob,
         sc = 1 => dev = Pick(Need(op, i, n, 1, 1)) /\ UNCHANGED <<home, mem>>
  PROVE  IInv'
<1> USE DEF IInv
<1>1. /\ task' \in Tasks
      /\ task'.op = op /\ task'.i = i /\ task'.ph = "budget" /\ task'.dev = dev /\ task'.need = Need(op, i, n, sc, 1)
      /\ task'.n = n /\ task'.s = 1 /\ task'.sc = sc
      /\ (task'.room => sc = 1 /\ HasRoom(Need(op, i, n, sc, 1)) /\ Exact)
  BY AskFields
<1>2. Placed = {}
  BY IdleMeans
<1>3. TypeInv'
  BY <1>1, ShrinksTypes DEF TypeInv
<1>4. MemInv' /\ EntryInv' /\ SlotInv'
  BY <1>2, ShrinksMem, ShrinksEntries, ShrinksSlots
<1>5. JobInv' /\ SameBudget' /\ ReservationsMatch'
  BY OuterSame
<1>6. RefusalInv' /\ BudgetInv'
  BY <1>1 DEF RefusalInv, BudgetInv
<1>7. TaskInv'
  <2>1. "budget" \notin Closing /\ 1 <= sc
    BY DEF Closing
  <2> QED
    BY <1>1, <2>1 DEF TaskInv
<1>8. RoomInv'
  <2> SUFFICES ASSUME task'.room, \A b \in Budgets : b <= Phys
               PROVE  (~OverBudget(task.dev, task.need) /\ task.need <= Free(task.dev))'
    BY DEF RoomInv
  <2>1. sc = 1 /\ HasRoom(Need(op, i, n, 1, 1)) /\ Exact
    BY <1>1
  <2>2. PICK need \in Nat : need = Need(op, i, n, 1, 1)
    BY NeedNat
  <2>3. dev = Pick(need) /\ UNCHANGED <<home, mem>> /\ dev # 0
    BY <2>1, <2>2, GpusFinite
  <2>4. ~OverBudget(dev, need) /\ need <= Free(dev)
    BY <2>1, <2>2, <2>3, RoomAtAsk
  <2>5. (OverBudget(dev, need)' <=> OverBudget(dev, need)) /\ Free(dev)' = Free(dev)
    BY <2>3 DEF OverBudget, Used, Free, Real, Building
  <2>6. task'.dev = dev /\ task'.need = need
    BY <1>1, <2>1, <2>2
  <2> QED
    BY <2>4, <2>5, <2>6 DEF OverBudget, Used, Free, Real, Building
<1> QED
  BY <1>3, <1>4, <1>5, <1>6, <1>7, <1>8

\* Nor does it matter if no request is made after all.
LEMMA NothingAsked ==
  ASSUME IInv, Idle, UNCHANGED <<kind, pend, job, budget>>, disk' \in [Indexes -> [n : Nat, sc : Nat \ {0}]],
         Shrinks, task' = NoTask
  PROVE  IInv'
<1> USE DEF IInv
<1>1. Placed = {}
  BY IdleMeans
<1>2. TaskInv' /\ RefusalInv' /\ BudgetInv' /\ RoomInv' /\ task' \in Tasks \cup {NoTask}
  BY IdleTask
<1>3. TypeInv'
  BY <1>2, ShrinksTypes DEF TypeInv
<1>4. MemInv' /\ EntryInv' /\ SlotInv'
  BY <1>1, ShrinksMem, ShrinksEntries, ShrinksSlots
<1>5. JobInv' /\ SameBudget' /\ ReservationsMatch'
  BY OuterSame
<1> QED
  BY <1>2, <1>3, <1>4, <1>5

\* A request for one graph keeps the invariant.
LEMMA AskUnshardedStep ==
  ASSUME IInv, Idle, NEW op \in {"build", "load"}, NEW i \in Indexes, NEW n \in Nat \ {0}, NEW busy \in SUBSET Indexes,
         AskUnsharded(op, i, n, busy), UNCHANGED <<kind, pend, job, budget>>,
         kind[i] # "flat", op = "build" => job[i] = NoJob
  PROVE  IInv'
<1>1. Shrinks /\ disk' \in [Indexes -> [n : Nat, sc : Nat \ {0}]] /\ UNCHANGED <<home, mem>>
  BY DEF AskUnsharded, Shrinks, IInv, TypeInv
<1>2. Need(op, i, n, 1, 1) \in Nat
  BY NeedNat
<1>3. PICK dev \in Gpus \cup {0} : dev = Pick(Need(op, i, n, 1, 1))
  BY <1>2, PickBest DEF IInv
<1>4. CASE dev = 0
  <2>1. task' = NoTask
    BY <1>3, <1>4 DEF AskUnsharded
  <2> QED
    BY <1>1, <2>1, NothingAsked
<1>5. CASE dev # 0
  <2>1. task' = Ask(op, i, n, 1, dev, busy) /\ dev \in Gpus
    BY <1>3, <1>5 DEF AskUnsharded
  <2> QED
    BY <1>1, <1>3, <2>1, AskStep
<1> QED
  BY <1>4, <1>5

\* A request for shards, which may evict for a slot first, keeps it.
LEMMA AskShardedStep ==
  ASSUME IInv, Idle, NEW op \in {"build", "load"}, NEW i \in Indexes, NEW n \in Nat \ {0}, NEW sc \in Nat \ {0, 1},
         NEW busy \in SUBSET Indexes,
         AskSharded(op, i, n, sc, busy), UNCHANGED <<kind, pend, job, budget>>, kind[i] # "flat"
  PROVE  IInv'
<1>1. RoundRobin(1) \in Gpus
  BY RoundRobinGpu
<1>2. /\ task' = NoTask \/ task' = Ask(op, i, n, sc, RoundRobin(1), busy)
      /\ UNCHANGED <<disk, home, mem>> \/ \E v \in Evictable(1, busy) : Evicted(v)
  BY DEF AskSharded, EvictLru, Evicted
<1>3. Shrinks /\ disk' \in [Indexes -> [n : Nat, sc : Nat \ {0}]]
  <2>1. CASE UNCHANGED <<disk, home, mem>>
    BY <2>1 DEF Shrinks, IInv, TypeInv
  <2>2. ASSUME NEW v \in Evictable(1, busy), Evicted(v)
        PROVE  Shrinks /\ disk' \in [Indexes -> [n : Nat, sc : Nat \ {0}]]
    BY <2>2, EvictedType DEF Evictable, Resident, IInv
  <2> QED
    BY <1>2, <2>1, <2>2
<1>4. CASE task' = NoTask
  BY <1>3, <1>4, NothingAsked
<1>5. CASE task' = Ask(op, i, n, sc, RoundRobin(1), busy)
  <2>1. sc # 1 /\ sc \in Nat \ {0}
    OBVIOUS
  <2> QED
    BY <1>1, <1>3, <1>5, <2>1, AskStep
<1> QED
  BY <1>2, <1>4, <1>5

\* A build that begins keeps the invariant.
LEMMA BuildStep ==
  ASSUME IInv, NEW i \in Indexes, NEW busy \in BusySets, NEW asked \in Shards[i],
         Build(i, Rows[i], asked, busy), kind' = kind
  PROVE  IInv'
<1>1. Idle /\ job[i] = NoJob /\ kind[i] # "flat" /\ UNCHANGED <<kind, pend, job, budget>>
  BY DEF Build
<1>2. busy \in SUBSET Indexes /\ asked \in Nat /\ Rows[i] \in Nat \ {0}
  BY ShardsAssumption, SizesAssumption DEF BusySets
<1>3. PICK sc \in Nat : sc = ShardCount(asked, Rows[i])
  BY <1>2, ShardCountNat DEF IInv
<1>4. CASE sc = 0
  <2>1. UNCHANGED <<task, disk, home, mem>>
    BY <1>3, <1>4 DEF Build
  <2>2. task' = NoTask /\ Shrinks /\ disk' \in [Indexes -> [n : Nat, sc : Nat \ {0}]]
    BY <1>1, <2>1 DEF Idle, Shrinks, IInv, TypeInv
  <2> QED
    BY <1>1, <2>2, NothingAsked
<1>5. CASE sc = 1
  <2>1. AskUnsharded("build", i, Rows[i], busy)
    BY <1>3, <1>5 DEF Build
  <2> QED
    BY <1>1, <1>2, <2>1, AskUnshardedStep
<1>6. CASE sc \notin {0, 1}
  <2>1. AskSharded("build", i, Rows[i], sc, busy)
    BY <1>3, <1>6 DEF Build
  <2>2. sc \in Nat \ {0, 1}
    BY <1>6
  <2> QED
    BY <1>1, <1>2, <2>1, <2>2, AskShardedStep
<1> QED
  BY <1>4, <1>5, <1>6

\* A load keeps the invariant.
LEMMA LoadStep ==
  ASSUME IInv, NEW i \in Indexes, NEW busy \in BusySets, Load(i, busy), kind' = kind
  PROVE  IInv'
<1>1. Idle /\ disk[i].n > 0 /\ kind[i] # "flat" /\ UNCHANGED <<kind, pend, job, budget>>
  BY DEF Load
<1>2. busy \in SUBSET Indexes
  BY DEF BusySets
<1>3. disk[i].n \in Nat /\ disk[i].sc \in Nat \ {0}
  BY DEF IInv, TypeInv
<1>4. PICK n \in Nat \ {0}, sc \in Nat \ {0} : n = disk[i].n /\ sc = disk[i].sc
  BY <1>1, <1>3
<1>5. CASE sc = 1
  <2>1. AskUnsharded("load", i, n, busy)
    BY <1>4, <1>5 DEF Load
  <2> QED
    BY <1>1, <1>2, <2>1, AskUnshardedStep
<1>6. CASE sc # 1
  <2>1. AskSharded("load", i, n, sc, busy)
    BY <1>4, <1>6 DEF Load
  <2>2. sc \in Nat \ {0, 1}
    BY <1>6
  <2> QED
    BY <1>1, <1>2, <2>1, <2>2, AskShardedStep
<1> QED
  BY <1>5, <1>6

\* A flat index asks for a slot and no memory.
LEMMA FlatStep ==
  ASSUME IInv, Idle, NEW op \in {"build", "load"}, NEW i \in Indexes, NEW n \in Nat \ {0}, NEW busy \in SUBSET Indexes,
         kind[i] = "flat", UNCHANGED <<kind, disk, home, mem, pend, job, budget>>,
         task' = [Ask(op, i, n, 1, Pick(0), busy) EXCEPT !.ph = "slot", !.need = 0, !.room = FALSE]
  PROVE  IInv'
<1> USE DEF IInv
<1>1. PICK dev \in Gpus : dev = Pick(0)
  BY PickZero
<1>2. PICK t \in Tasks : /\ t = Ask(op, i, n, 1, Pick(0), busy)
                         /\ t.op = op /\ t.i = i /\ t.s = 1 /\ t.sc = 1
  <2>1. 1 \in Nat \ {0}
    OBVIOUS
  <2> QED
    BY <1>1, <2>1, AskFields
<1>3. task' = [t EXCEPT !.ph = "slot", !.need = 0, !.room = FALSE]
  BY <1>2
<1>4. task' \in Tasks /\ task'.ph = "slot" /\ task'.room = FALSE /\ task'.op = op /\ task'.i = i /\ task'.s = 1 /\ task'.sc = 1
  <2>1. "slot" \in Asking \cup Closing /\ 0 \in Nat
    BY DEF Closing
  <2>2. task' \in Tasks
    BY <1>2, <1>3, <2>1 DEF Tasks
  <2>3. task'.ph = "slot" /\ task'.room = FALSE /\ task'.op = t.op /\ task'.i = t.i /\ task'.s = t.s /\ task'.sc = t.sc
    BY <1>2, <1>3 DEF Tasks
  <2> QED
    BY <1>2, <2>2, <2>3
<1>5. Placed = {} /\ Shrinks
  BY IdleMeans DEF Shrinks
<1>6. TypeInv'
  BY <1>4 DEF TypeInv
<1>7. MemInv' /\ EntryInv' /\ SlotInv'
  BY <1>5, ShrinksMem, ShrinksEntries, ShrinksSlots
<1>8. JobInv' /\ SameBudget' /\ ReservationsMatch'
  BY OuterSame
<1>9. "slot" \in Closing /\ "slot" \notin Asking
  BY DEF Closing, Asking
<1>10. TaskInv' /\ RefusalInv' /\ BudgetInv' /\ RoomInv'
  BY <1>4, <1>9 DEF TaskInv, RefusalInv, BudgetInv, RoomInv
<1> QED
  BY <1>6, <1>7, <1>8, <1>10

\* A flat build keeps the invariant.
LEMMA FlatBuildStep ==
  ASSUME IInv, NEW i \in Indexes, NEW busy \in BusySets, FlatBuild(i, Rows[i], busy), kind' = kind
  PROVE  IInv'
<1>1. busy \in SUBSET Indexes /\ Rows[i] \in Nat \ {0}
  BY SizesAssumption DEF BusySets
<1> QED
  BY <1>1, FlatStep DEF FlatBuild

\* A flat load keeps the invariant.
LEMMA FlatLoadStep ==
  ASSUME IInv, NEW i \in Indexes, NEW busy \in BusySets, FlatLoad(i, busy), kind' = kind
  PROVE  IInv'
<1>1. busy \in SUBSET Indexes
  BY DEF BusySets
<1>2. disk[i].n \in Nat \ {0}
  BY DEF FlatLoad, IInv, TypeInv
<1> QED
  BY <1>1, <1>2, FlatStep DEF FlatLoad

\* A build that evicts for its scratch space keeps the invariant.
LEMMA BuildOomStep ==
  ASSUME IInv, NEW i \in Indexes, NEW busy \in BusySets, BuildOom(i, busy), kind' = kind
  PROVE  IInv'
<1> USE DEF IInv
<1>1. Idle /\ job[i].st = "gpu" /\ UNCHANGED <<pend, task, budget>>
  BY DEF BuildOom
<1>2. job' = job \/ job' = [job EXCEPT ![i].st = "failed"]
  BY DEF BuildOom, EvictLru
<1>3. UNCHANGED <<disk, home, mem>> \/ \E v \in Evictable(job[i].dev, busy) : Evicted(v)
  BY DEF BuildOom, EvictLru, Evicted
<1>4. Shrinks /\ disk' \in [Indexes -> [n : Nat, sc : Nat \ {0}]]
  <2>1. CASE UNCHANGED <<disk, home, mem>>
    BY <2>1 DEF Shrinks, TypeInv
  <2>2. ASSUME NEW v \in Evictable(job[i].dev, busy), Evicted(v)
        PROVE  Shrinks /\ disk' \in [Indexes -> [n : Nat, sc : Nat \ {0}]]
    BY <2>2, EvictedType DEF Evictable, Resident
  <2> QED
    BY <1>3, <2>1, <2>2
<1>5. task' = NoTask /\ Placed = {}
  BY <1>1, IdleMeans DEF Idle
<1>6. TaskInv' /\ RefusalInv' /\ BudgetInv' /\ RoomInv' /\ task' \in Tasks \cup {NoTask}
  BY <1>5, IdleTask
<1>7. /\ job' \in [Indexes -> Jobs \cup {NoJob}]
      /\ \A k \in Indexes : /\ job'[k].dev = job[k].dev /\ job'[k].need = job[k].need /\ job'[k].n = job[k].n
                            /\ (job'[k] # NoJob => job[k] # NoJob)
  <2>1. job[i] \in Jobs
    BY <1>1 DEF TypeInv, NoJob
  <2>2. PICK j \in Jobs : j = [job[i] EXCEPT !.st = "failed"] /\ j.dev = job[i].dev /\ j.need = job[i].need /\ j.n = job[i].n
    <3>1. PICK k \in Jobs : k = job[i]
      BY <2>1
    <3>2. [k EXCEPT !.st = "failed"] \in Jobs
      BY DEF Jobs
    <3>3. [k EXCEPT !.st = "failed"].dev = k.dev /\ [k EXCEPT !.st = "failed"].need = k.need /\ [k EXCEPT !.st = "failed"].n = k.n
      BY DEF Jobs
    <3> QED
      BY <3>1, <3>2, <3>3
  <2>3. job[i] # NoJob
    BY <1>1 DEF NoJob
  <2>4. CASE job' = job
    BY <2>4 DEF TypeInv
  <2>5. CASE job' = [job EXCEPT ![i].st = "failed"]
    <3>1. job' = [job EXCEPT ![i] = j]
      BY <2>2, <2>5
    <3> QED
      BY <2>2, <2>3, <3>1 DEF TypeInv
  <2> QED
    BY <1>2, <2>4, <2>5
<1>8. TypeInv'
  BY <1>1, <1>4, <1>6, <1>7, ShrinksTypes DEF TypeInv
<1>9. MemInv' /\ EntryInv' /\ SlotInv'
  BY <1>4, <1>5, ShrinksMem, ShrinksEntries, ShrinksSlots
<1>10. JobInv' /\ SameBudget'
  BY <1>1, <1>7 DEF JobInv, SameBudget
<1>11. ReservationsMatch'
  <2>1. ASSUME NEW g PROVE Building(g)' = Building(g)
    <3>1. [k \in Indexes |-> IF job'[k].dev = g THEN job'[k].need ELSE 0]
            = [k \in Indexes |-> IF job[k].dev = g THEN job[k].need ELSE 0]
      BY <1>7
    <3> QED
      BY <3>1 DEF Building
  <2> QED
    BY <1>1, <2>1 DEF ReservationsMatch
<1> QED
  BY <1>6, <1>8, <1>9, <1>10, <1>11

\* A build that ends gives back what it reserved, no more and no less.
LEMMA BuildEndsStep ==
  ASSUME IInv, NEW i \in Indexes, NEW busy \in BusySets, BuildEnds(i, busy), kind' = kind
  PROVE  IInv'
<1> USE DEF IInv
<1>1. /\ Idle /\ job[i] # NoJob /\ UNCHANGED <<disk, home, budget>>
      /\ pend' = [pend EXCEPT ![job[i].dev] = pend[job[i].dev] - job[i].need]
      /\ job' = [job EXCEPT ![i] = NoJob]
  BY DEF BuildEnds
<1>2. PICK j \in Jobs : j = job[i] /\ j.dev \in Gpus /\ j.need \in Nat /\ j.n \in Nat \ {0} /\ j.need = j.n * Degree[i]
  BY <1>1 DEF TypeInv, JobInv, Jobs
<1>3. Placed = {} /\ task = NoTask /\ busy \in SUBSET Indexes
  BY <1>1, IdleMeans DEF Idle, BusySets
<1>4. pend' \in [Gpus -> Int] /\ job' \in [Indexes -> Jobs \cup {NoJob}]
  BY <1>1, <1>2 DEF TypeInv
<1>5. JobInv' /\ SameBudget'
  BY <1>1 DEF JobInv, SameBudget, TypeInv
<1>6. ReservationsMatch'
  <2>1. ASSUME NEW g \in Gpus PROVE pend'[g] = Building(g)'
    <3>1. /\ Building(g)' = Building(g) - Weight(job[i], g) + Weight(NoJob, g)
          /\ Building(g) \in Nat
      BY <1>1, BuildingChanges DEF TypeInv
    <3>2. Weight(NoJob, g) = 0
      BY DEF Weight, NoJob
    <3>3. Weight(job[i], g) = IF g = j.dev THEN j.need ELSE 0
      BY <1>2 DEF Weight
    <3>4. pend'[g] = IF g = j.dev THEN pend[g] - j.need ELSE pend[g]
      BY <1>1, <1>2 DEF TypeInv
    <3>5. pend[g] = Building(g)
      BY DEF ReservationsMatch
    <3> QED
      BY <1>2, <3>1, <3>2, <3>3, <3>4, <3>5
  <2> QED
    BY <2>1 DEF ReservationsMatch
<1>7. CASE UNCHANGED <<task, mem>>
  <2>1. Shrinks /\ task' = NoTask
    BY <1>1, <1>3, <1>7 DEF Shrinks
  <2>2. TaskInv' /\ RefusalInv' /\ BudgetInv' /\ RoomInv' /\ task' \in Tasks \cup {NoTask}
    BY <2>1, IdleTask
  <2>3. TypeInv'
    BY <1>1, <1>4, <1>7, <2>2 DEF TypeInv
  <2>4. MemInv' /\ EntryInv' /\ SlotInv'
    BY <1>3, <2>1, ShrinksMem, ShrinksEntries, ShrinksSlots
  <2> QED
    BY <1>5, <1>6, <2>2, <2>3, <2>4
<1>8. CASE /\ job[i].st = "gpu"
           /\ mem' = mem \cup {Blk(i, "placed", 1, job[i].dev, 0, job[i].need, job[i].n * Degree[i])}
           /\ task' = [Ask("build", i, job[i].n, 1, job[i].dev, busy) EXCEPT !.ph = "slot", !.room = FALSE]
  <2>1. PICK t \in Tasks : /\ t = Ask("build", i, j.n, 1, j.dev, busy)
                           /\ t.op = "build" /\ t.i = i /\ t.s = 1 /\ t.sc = 1 /\ t.dev = j.dev
    <3>1. 1 \in Nat \ {0} /\ "build" \in {"build", "load"}
      OBVIOUS
    <3> QED
      BY <1>2, <1>3, <3>1, AskFields
  <2>2. task' = [t EXCEPT !.ph = "slot", !.room = FALSE]
    BY <1>2, <1>8, <2>1
  <2>3. /\ task' \in Tasks /\ task'.ph = "slot" /\ task'.room = FALSE /\ task'.op = "build" /\ task'.i = i
        /\ task'.s = 1 /\ task'.sc = 1 /\ task'.dev = j.dev
    BY <2>1, <2>2 DEF Tasks, Closing
  <2>4. Degree[i] \in Nat \ {0} /\ j.n * Degree[i] \in Nat /\ j.n * Degree[i] > 0
    BY <1>2, Positive, SizesAssumption
  <2>5. PICK new \in Blocks : /\ mem' = mem \cup {new} /\ new.i = i /\ new.part = "placed" /\ new.s = 1
                              /\ new.at = j.dev /\ new.cnt = 0 /\ new.acc = j.need /\ new.act = j.n * Degree[i]
    <3>1. 0 \in 0 .. NG
      BY NGAssumption
    <3>2. Blk(i, "placed", 1, j.dev, 0, j.need, j.n * Degree[i]) \in Blocks
      BY <1>2, <2>4, <3>1 DEF Blk, Blocks, PartNames
    <3> QED
      BY <1>2, <1>8, <3>2 DEF Blk
  <2>6. kind[i] # "flat"
    BY <1>1 DEF JobInv
  <2>7. TypeInv'
    <3>1. IsFiniteSet(mem') /\ mem' \subseteq Blocks
      BY <2>5, FS_AddElement DEF TypeInv
    <3> QED
      BY <1>1, <1>4, <2>3, <3>1 DEF TypeInv
  <2>8. "slot" \in Closing /\ "slot" \notin Asking
    BY DEF Closing, Asking
  <2>9. PlacedOK(new)'
    <3>1. Sized(new)
      BY <1>2, <2>4, <2>5 DEF Sized
    <3>2. new.s \in 1 .. task'.s /\ new.act > 0
      BY <2>3, <2>4, <2>5
    <3> QED
      BY <2>3, <2>5, <2>6, <2>8, <3>1, <3>2 DEF PlacedOK, Sized
  <2>10. MemInv'
    <3>1. ASSUME NEW b \in mem
          PROVE  /\ b.part # "placed"
                 /\ b.part = "graph" => GraphOK(b)'
                 /\ b.part = "bf" => BfOK(b)'
                 /\ b.part = "delta" => DeltaOK(b)'
                 /\ b.part = "leak" => LeakOK(b)'
      BY <1>1, <1>3 DEF MemInv, GraphOK, BfOK, DeltaOK, LeakOK, Sized, Placed
    <3> QED
      BY <2>5, <2>9, <3>1 DEF MemInv
  <2>11. \A k \in Indexes : Parts(k, {"graph"})' = Parts(k, {"graph"})
    BY <2>5 DEF Parts
  <2>12. EntryInv' /\ SlotInv'
    BY <1>1, <2>11 DEF EntryInv, SlotInv, Resident
  <2>13. \E b \in Placed' : b.s = 1
    BY <2>5 DEF Placed
  <2>14. job'[i] = NoJob
    BY <1>1 DEF TypeInv
  <2>15. TaskInv' /\ RefusalInv' /\ BudgetInv' /\ RoomInv'
    BY <2>3, <2>6, <2>8, <2>13, <2>14 DEF TaskInv, RefusalInv, BudgetInv, RoomInv
  <2> QED
    BY <1>5, <1>6, <2>7, <2>10, <2>12, <2>15
<1> QED
  BY <1>7, <1>8 DEF BuildEnds

\* Caches and graphs may change under a free mutex as long as each new block is
\* what its label says and no graph is lost.
LEMMA IdleMem ==
  ASSUME IInv, Idle, UNCHANGED <<kind, home, pend, job, task, budget>>,
         disk' \in [Indexes -> [n : Nat, sc : Nat \ {0}]], IsFiniteSet(mem'), mem' \subseteq Blocks,
         \A b \in mem' \ mem : \/ b.part = "graph" /\ GraphOK(b)
                               \/ b.part = "bf" /\ BfOK(b)
                               \/ b.part = "delta" /\ DeltaOK(b),
         \A b \in mem : b.part = "graph" => \E c \in mem' : c.part = "graph" /\ c.i = b.i /\ c.s = b.s
  PROVE  IInv'
<1> USE DEF IInv
<1>1. task' = NoTask /\ Placed = {}
  BY IdleMeans DEF Idle
<1>2. TaskInv' /\ RefusalInv' /\ BudgetInv' /\ RoomInv' /\ task' \in Tasks \cup {NoTask}
  BY <1>1, IdleTask
<1>3. TypeInv'
  BY <1>2 DEF TypeInv
<1>4. JobInv' /\ SameBudget' /\ ReservationsMatch'
  BY OuterSame
<1>5. SlotInv'
  BY DEF SlotInv, Resident
<1>6. MemInv'
  <2>1. ASSUME NEW b \in mem'
        PROVE  /\ b.part # "placed"
               /\ b.part = "graph" => GraphOK(b)
               /\ b.part = "bf" => BfOK(b)
               /\ b.part = "delta" => DeltaOK(b)
               /\ b.part = "leak" => LeakOK(b)
    <3>1. CASE b \in mem
      BY <1>1, <3>1 DEF MemInv, Placed
    <3>2. CASE b \notin mem
      BY <3>2
    <3> QED
      BY <3>1, <3>2
  <2>2. ASSUME NEW b
        PROVE  (GraphOK(b) => GraphOK(b)') /\ (BfOK(b) => BfOK(b)') /\ (DeltaOK(b) => DeltaOK(b)') /\ (LeakOK(b) => LeakOK(b)')
    BY DEF GraphOK, BfOK, DeltaOK, LeakOK, Sized
  <2> QED
    BY <2>1, <2>2 DEF MemInv
<1>7. EntryInv'
  <2>1. ASSUME NEW i \in Indexes
        PROVE  /\ Parts(i, {"graph"}) # {} => Parts(i, {"graph"})' # {}
               /\ (\E b \in Parts(i, {"graph"}) : b.s = 1) => \E b \in Parts(i, {"graph"})' : b.s = 1
    BY DEF Parts
  <2> QED
    BY <2>1 DEF EntryInv
<1> QED
  BY <1>2, <1>3, <1>4, <1>5, <1>6, <1>7

\* The caches of an entry are on a GPU.
LEMMA CacheGpuIs ==
  ASSUME IInv, NEW i \in Indexes, home[i] # 0
  PROVE  CacheGpu(i) \in Gpus
<1>1. CASE home[i] = Spread
  <2>1. \E b \in Parts(i, {"graph"}) : b.s = 1
    BY <1>1 DEF IInv, EntryInv
  <2>2. PICK b \in Parts(i, {"graph"}) : b = CHOOSE c \in Parts(i, {"graph"}) : c.s = 1
    BY <2>1
  <2>3. b.at \in Gpus
    BY DEF IInv, TypeInv, Blocks, Parts
  <2> QED
    BY <1>1, <2>2, <2>3 DEF CacheGpu
<1>2. CASE home[i] # Spread
  BY <1>2, NGAssumption DEF CacheGpu, IInv, TypeInv, Spread, Gpus
<1> QED
  BY <1>1, <1>2

\* refresh_delta_cache keeps the invariant.
LEMMA RefreshDeltaStep ==
  ASSUME IInv, NEW i \in Indexes, RefreshDelta(i), kind' = kind
  PROVE  IInv'
<1>1. /\ Idle /\ home[i] # 0 /\ UNCHANGED <<disk, home, pend, job, task, budget>>
  BY DEF RefreshDelta
<1>2. PICK g \in Gpus : g = CacheGpu(i)
  BY <1>1, CacheGpuIs
<1>3. PICK cnt \in 0 .. NG : cnt = IF home[i] = Spread THEN 0 ELSE g
  BY <1>2, GpusFinite, NGAssumption
<1>4. PICK new \in Blocks : /\ new.i = i /\ new.part = "delta" /\ new.at = g /\ new.cnt = cnt /\ new.acc = 1 /\ new.act = 1
                            /\ mem' \subseteq mem \cup {new}
                            /\ mem \subseteq mem' \cup Parts(i, {"delta"})
  <2>1. Blk(i, "delta", 1, g, cnt, 1, 1) \in Blocks
    BY <1>3 DEF Blk, Blocks, PartNames
  <2>2. mem' \subseteq mem \cup {Blk(i, "delta", 1, g, cnt, 1, 1)} /\ mem \subseteq mem' \cup Parts(i, {"delta"})
    BY <1>2, <1>3 DEF RefreshDelta
  <2> QED
    BY <2>1, <2>2 DEF Blk
<1>5. DeltaOK(new)
  BY <1>1, <1>3, <1>4 DEF DeltaOK
<1>6. IsFiniteSet(mem') /\ mem' \subseteq Blocks
  <2>1. IsFiniteSet(mem \cup {new})
    BY FS_AddElement DEF IInv, TypeInv
  <2> QED
    BY <1>4, <2>1, FS_Subset DEF IInv, TypeInv
<1>7. \A b \in mem' \ mem : b.part = "delta" /\ DeltaOK(b)
  BY <1>4, <1>5
<1>8. \A b \in mem : b.part = "graph" => \E c \in mem' : c.part = "graph" /\ c.i = b.i /\ c.s = b.s
  BY <1>4 DEF Parts
<1>9. disk' \in [Indexes -> [n : Nat, sc : Nat \ {0}]]
  BY <1>1 DEF IInv, TypeInv
<1> QED
  BY <1>1, <1>6, <1>7, <1>8, <1>9, IdleMem

\* The copies of a brute-force cache are counted where they lie.
LEMMA BfBlocksAre ==
  ASSUME IInv, NEW i \in Indexes, home[i] # 0
  PROVE  /\ IsFiniteSet(BfBlocks(i)) /\ BfBlocks(i) \subseteq Blocks
         /\ \A c \in BfBlocks(i) : /\ c.i = i /\ c.part = "bf" /\ c.cnt = c.at /\ c.acc = c.act
                                   /\ (home[i] # Spread => c.at = home[i])
<1>1. CASE home[i] = Spread
  <2> DEFINE phi == [b \in Parts(i, {"graph"}) |-> Blk(i, "bf", b.s, b.at, b.at, GraphRows(b), GraphRows(b))]
  <2>1. BfBlocks(i) = {phi[b] : b \in Parts(i, {"graph"})}
    BY <1>1 DEF BfBlocks
  <2>2. Parts(i, {"graph"}) \subseteq mem /\ mem \subseteq Blocks /\ IsFiniteSet(Parts(i, {"graph"}))
    BY FS_Subset DEF IInv, TypeInv, Parts
  <2>3. ASSUME NEW b \in Parts(i, {"graph"})
        PROVE  /\ phi[b] \in Blocks /\ phi[b].i = i /\ phi[b].part = "bf"
               /\ phi[b].cnt = phi[b].at /\ phi[b].acc = phi[b].act
    <3>1. b \in Blocks /\ b.i = i
      BY <2>2 DEF Parts
    <3>2. b.act \in Nat /\ b.s \in Nat /\ b.at \in Gpus /\ Degree[b.i] \in Nat \ {0}
      BY <3>1, SizesAssumption DEF Blocks
    <3>3. GraphRows(b) \in Nat
      BY <3>2 DEF GraphRows
    <3>4. b.at \in 0 .. NG
      BY <3>2, GpusFinite
    <3> QED
      BY <3>2, <3>3, <3>4 DEF Blk, Blocks, PartNames
  <2> HIDE DEF phi
  <2>4. IsFiniteSet(BfBlocks(i))
    BY <2>1, <2>2, FiniteImage
  <2> QED
    BY <1>1, <2>1, <2>3, <2>4
<1>2. CASE home[i] # Spread
  <2>1. home[i] \in Gpus /\ home[i] \in 0 .. NG /\ disk[i].n \in Nat
    BY <1>2, NGAssumption DEF IInv, TypeInv, Spread, Gpus
  <2>2. PICK c \in Blocks : /\ c = Blk(i, "bf", 1, home[i], home[i], disk[i].n, disk[i].n)
                            /\ c.i = i /\ c.part = "bf" /\ c.cnt = c.at /\ c.acc = c.act /\ c.at = home[i]
    <3>1. Blk(i, "bf", 1, home[i], home[i], disk[i].n, disk[i].n) \in Blocks
      BY <2>1 DEF Blk, Blocks, PartNames
    <3> QED
      BY <3>1 DEF Blk
  <2>3. BfBlocks(i) = {c}
    BY <1>2, <2>2 DEF BfBlocks
  <2> QED
    BY <2>2, <2>3, FS_Singleton
<1> QED
  BY <1>1, <1>2

\* refresh_main_bf_cache and ensure_shard_bf keep the invariant.
LEMMA RefreshBfStep ==
  ASSUME IInv, NEW i \in Indexes, RefreshBf(i), kind' = kind
  PROVE  IInv'
<1>1. /\ Idle /\ home[i] # 0 /\ UNCHANGED <<disk, home, pend, job, task, budget>>
  BY DEF RefreshBf
<1>2. /\ IsFiniteSet(BfBlocks(i)) /\ BfBlocks(i) \subseteq Blocks
      /\ \A c \in BfBlocks(i) : /\ c.i = i /\ c.part = "bf" /\ c.cnt = c.at /\ c.acc = c.act
                                /\ (home[i] # Spread => c.at = home[i])
  BY <1>1, BfBlocksAre
<1>3. mem' \subseteq mem \cup BfBlocks(i) /\ mem \subseteq mem' \cup Parts(i, {"bf"})
  BY DEF RefreshBf
<1>4. \A c \in BfBlocks(i) : c.part = "bf" /\ BfOK(c)
  BY <1>1, <1>2 DEF BfOK
<1>5. IsFiniteSet(mem') /\ mem' \subseteq Blocks
  <2>1. IsFiniteSet(mem \cup BfBlocks(i))
    BY <1>2, FS_Union DEF IInv, TypeInv
  <2> QED
    BY <1>2, <1>3, <2>1, FS_Subset DEF IInv, TypeInv
<1>6. \A b \in mem' \ mem : b.part = "bf" /\ BfOK(b)
  BY <1>3, <1>4
<1>7. \A b \in mem : b.part = "graph" => \E c \in mem' : c.part = "graph" /\ c.i = b.i /\ c.s = b.s
  BY <1>3 DEF Parts
<1>8. disk' \in [Indexes -> [n : Nat, sc : Nat \ {0}]]
  BY <1>1 DEF IInv, TypeInv
<1> QED
  BY <1>1, <1>5, <1>6, <1>7, <1>8, IdleMem

\* The rows are found again from the memory.
LEMMA DivExact ==
  ASSUME NEW r \in Nat, NEW d \in Nat \ {0}
  PROVE  (r * d) \div d = r
OBVIOUS

\* The graph of an unsharded entry: its rows, and the estimate of one of them.
LEMMA GraphOf ==
  ASSUME IInv, NEW i \in Indexes, kind[i] = "cagra", home[i] \in Gpus
  PROVE  \E b \in mem, r \in Nat \ {0}, w \in Nat :
           /\ b = Graph(i) /\ b.i = i /\ b.part = "graph" /\ b.at = home[i] /\ b.cnt = home[i]
           /\ GraphRows(b) = r /\ b.acc \div GraphRows(b) = w
           /\ b.act = r * Degree[i] /\ b.acc = r * w /\ (w = Degree[i] \/ w = Usual)
<1>1. home[i] # 0 /\ home[i] # Spread
  BY GpusFinite
<1>2. Parts(i, {"graph"}) # {}
  BY <1>1 DEF IInv, EntryInv
<1>3. PICK b \in mem : b = Graph(i) /\ b.i = i /\ b.part = "graph" /\ b \in Blocks
  BY <1>2 DEF Graph, Parts, IInv, TypeInv
<1>4. GraphOK(b)
  BY <1>3 DEF IInv, MemInv
<1>5. PICK r \in Nat : b.act = r * Degree[i] /\ (b.acc = b.act \/ b.acc = r * Usual)
  BY <1>3, <1>4 DEF GraphOK, Sized
<1>6. b.at = home[i] /\ b.cnt = home[i] /\ b.act > 0
  BY <1>1, <1>3, <1>4 DEF GraphOK
<1>7. Degree[i] \in Nat \ {0} /\ Usual \in Nat \ {0}
  BY SizesAssumption
<1>8. r # 0
  BY <1>5, <1>6, <1>7
<1>9. GraphRows(b) = r
  BY <1>3, <1>5, <1>7, DivExact DEF GraphRows
<1>10. PICK w \in Nat : b.acc = r * w /\ (w = Degree[i] \/ w = Usual)
  BY <1>5, <1>7
<1>11. b.acc = w * r /\ r \in Nat \ {0}
  BY <1>8, <1>10
<1>12. b.acc \div r = w
  BY <1>11, DivExact
<1> QED
  BY <1>3, <1>5, <1>6, <1>8, <1>9, <1>10, <1>12

\* A graph may change its rows.
LEMMA ChangedGraph ==
  ASSUME IInv, Idle, NEW i \in Indexes, kind[i] = "cagra", home[i] \in Gpus,
         NEW b \in mem, b.i = i, b.part = "graph", b.at = home[i], b.cnt = home[i],
         NEW r \in Nat \ {0}, NEW w \in Nat, w = Degree[i] \/ w = Usual,
         NEW c, c = [b EXCEPT !.acc = r * w, !.act = r * Degree[i]],
         mem' = (mem \ {b}) \cup {c},
         UNCHANGED <<kind, home, pend, job, task, budget>>, disk' \in [Indexes -> [n : Nat, sc : Nat \ {0}]]
  PROVE  IInv'
<1>1. b \in Blocks /\ Degree[i] \in Nat \ {0}
  BY SizesAssumption DEF IInv, TypeInv
<1>2. r * w \in Nat /\ r * Degree[i] \in Nat /\ r * Degree[i] > 0
  BY <1>1, Positive
<1>3. c \in Blocks /\ c.i = i /\ c.part = "graph" /\ c.s = b.s /\ c.at = home[i] /\ c.cnt = home[i] /\ c.acc = r * w /\ c.act = r * Degree[i]
  BY <1>1, <1>2 DEF Blocks
<1>4. Sized(c)
  BY <1>3 DEF Sized
<1>5. GraphOK(c)
  BY <1>2, <1>3, <1>4, GpusFinite DEF GraphOK
<1>6. IsFiniteSet(mem') /\ mem' \subseteq Blocks
  <2>1. IsFiniteSet(mem \ {b}) /\ mem \subseteq Blocks
    BY FS_Subset DEF IInv, TypeInv
  <2> QED
    BY <1>3, <2>1, FS_AddElement
<1>7. \A e \in mem' \ mem : e.part = "graph" /\ GraphOK(e)
  BY <1>3, <1>5
<1>8. \A e \in mem : e.part = "graph" => \E f \in mem' : f.part = "graph" /\ f.i = e.i /\ f.s = e.s
  BY <1>3
<1> QED
  BY <1>6, <1>7, <1>8, IdleMem

\* EXTEND keeps the invariant.
LEMMA ExtendStep ==
  ASSUME IInv, NEW i \in Indexes, Extend(i), kind' = kind
  PROVE  IInv'
<1>1. Idle /\ kind[i] = "cagra" /\ home[i] \in Gpus /\ UNCHANGED <<disk, home, pend, job, task, budget>>
  BY DEF Extend
<1>2. PICK b \in mem, r \in Nat \ {0}, w \in Nat :
           /\ b = Graph(i) /\ b.i = i /\ b.part = "graph" /\ b.at = home[i] /\ b.cnt = home[i]
           /\ GraphRows(b) = r /\ b.acc \div GraphRows(b) = w
           /\ b.act = r * Degree[i] /\ b.acc = r * w /\ (w = Degree[i] \/ w = Usual)
  BY <1>1, GraphOf
<1>3. mem' = (mem \ {b}) \cup {[b EXCEPT !.acc = b.acc + w, !.act = b.act + Degree[i]]}
  BY <1>2 DEF Extend
<1>4. b.acc + w = (r + 1) * w /\ b.act + Degree[i] = (r + 1) * Degree[i] /\ r + 1 \in Nat \ {0}
  BY <1>2, SizesAssumption
<1>5. mem' = (mem \ {b}) \cup {[b EXCEPT !.acc = (r + 1) * w, !.act = (r + 1) * Degree[i]]}
  BY <1>3, <1>4
<1>6. disk' \in [Indexes -> [n : Nat, sc : Nat \ {0}]]
  BY <1>1 DEF IInv, TypeInv
<1> QED
  BY <1>1, <1>2, <1>4, <1>5, <1>6, ChangedGraph

\* COMPACT keeps the invariant.
LEMMA CompactStep ==
  ASSUME IInv, NEW i \in Indexes, Compact(i), kind' = kind
  PROVE  IInv'
<1>1. Idle /\ kind[i] = "cagra" /\ home[i] \in Gpus /\ UNCHANGED <<home, pend, job, task, budget>>
  BY DEF Compact
<1>2. PICK b \in mem, r \in Nat \ {0}, w \in Nat :
           /\ b = Graph(i) /\ b.i = i /\ b.part = "graph" /\ b.at = home[i] /\ b.cnt = home[i]
           /\ GraphRows(b) = r /\ b.acc \div GraphRows(b) = w
           /\ b.act = r * Degree[i] /\ b.acc = r * w /\ (w = Degree[i] \/ w = Usual)
  BY <1>1, GraphOf
<1>3. /\ r > Rows[i]
      /\ mem' = (mem \ {b}) \cup {[b EXCEPT !.acc = b.acc - w, !.act = b.act - Degree[i]]}
      /\ disk' = [disk EXCEPT ![i] = [n |-> r - 1, sc |-> 1]]
  BY <1>2 DEF Compact
<1>4. r - 1 \in Nat \ {0}
  BY <1>3, SizesAssumption
<1>5. b.acc - w = (r - 1) * w /\ b.act - Degree[i] = (r - 1) * Degree[i]
  BY <1>2, <1>4, SizesAssumption
<1>6. mem' = (mem \ {b}) \cup {[b EXCEPT !.acc = (r - 1) * w, !.act = (r - 1) * Degree[i]]}
  BY <1>3, <1>5
<1>7. disk' \in [Indexes -> [n : Nat, sc : Nat \ {0}]]
  <2>1. [n |-> r - 1, sc |-> 1] \in [n : Nat, sc : Nat \ {0}]
    BY <1>4
  <2>2. disk \in [Indexes -> [n : Nat, sc : Nat \ {0}]]
    BY DEF IInv, TypeInv
  <2> QED
    BY <1>3, <2>1, <2>2
<1> QED
  BY <1>1, <1>2, <1>4, <1>6, <1>7, ChangedGraph

\* A drop keeps the invariant.
LEMMA DropStep ==
  ASSUME IInv, NEW i \in Indexes, Drop(i), kind' = kind
  PROVE  IInv'
<1>1. Idle /\ task' = NoTask /\ UNCHANGED <<kind, pend, job, budget>>
  BY DEF Drop, Idle
<1>2. Shrinks
  BY DEF Drop, Shrinks
<1>3. disk' \in [Indexes -> [n : Nat, sc : Nat \ {0}]]
  <2>1. [n |-> 0, sc |-> 1] \in [n : Nat, sc : Nat \ {0}]
    OBVIOUS
  <2>2. disk \in [Indexes -> [n : Nat, sc : Nat \ {0}]]
    BY DEF IInv, TypeInv
  <2> QED
    BY <2>1, <2>2 DEF Drop
<1> QED
  BY <1>1, <1>2, <1>3, NothingAsked

\* A new budget keeps the invariant.
LEMMA SetBudgetStep ==
  ASSUME IInv, NEW b \in Budgets, SetBudget(b), kind' = kind
  PROVE  IInv'
<1> USE DEF IInv
<1>1. Idle /\ task' = NoTask /\ budget' = [g \in Gpus |-> b] /\ UNCHANGED <<disk, home, mem, pend, job>>
  BY DEF SetBudget, Idle
<1>2. TaskInv' /\ RefusalInv' /\ BudgetInv' /\ RoomInv' /\ task' \in Tasks \cup {NoTask}
  BY <1>1, IdleTask
<1>3. TypeInv'
  BY <1>1, <1>2 DEF TypeInv
<1>4. Placed = {} /\ Shrinks
  BY <1>1, IdleMeans DEF Shrinks
<1>5. MemInv' /\ EntryInv' /\ SlotInv'
  BY <1>4, ShrinksMem, ShrinksEntries, ShrinksSlots
<1>6. JobInv' /\ SameBudget'
  BY <1>1 DEF JobInv, SameBudget
<1>7. ReservationsMatch'
  <2>1. \A g \in Gpus : Building(g)' = Building(g)
    BY <1>1 DEF Building
  <2> QED
    BY <1>1, <2>1 DEF ReservationsMatch
<1> QED
  BY <1>2, <1>3, <1>5, <1>6, <1>7

\* The invariant holds at first: nothing is resident.
LEMMA Initially ==
  ASSUME Init
  PROVE  IInv
<1>1. task = NoTask /\ NoTask.ph = "none"
  BY DEF Init, NoTask
<1>2. "none" \notin Asking
  BY DEF Asking
<1>3. TaskInv /\ RefusalInv /\ BudgetInv /\ RoomInv
  BY <1>1, <1>2 DEF TaskInv, RefusalInv, BudgetInv, RoomInv
<1>4. mem = {} /\ \A i \in Indexes : home[i] = 0
  BY DEF Init
<1>5. MemInv /\ EntryInv
  BY <1>4, GpusFinite DEF MemInv, EntryInv
<1>6. JobInv
  BY DEF Init, JobInv
<1>7. SlotInv
  <2>1. Resident = {}
    BY <1>4 DEF Resident
  <2> QED
    BY <2>1, FS_EmptySet, SizesAssumption DEF SlotInv
<1>8. SameBudget
  BY DEF Init, SameBudget
<1>9. TypeInv
  <2>1. disk \in [Indexes -> [n : Nat, sc : Nat \ {0}]]
    BY DEF Init
  <2>2. home \in [Indexes -> 0 .. Spread]
    BY NGAssumption DEF Init, Spread
  <2>3. IsFiniteSet(mem) /\ mem \subseteq Blocks
    BY <1>4, FS_EmptySet
  <2>4. job \in [Indexes -> Jobs \cup {NoJob}] /\ pend \in [Gpus -> Int] /\ budget \in [Gpus -> Budgets]
    BY DEF Init
  <2>5. kind \in [Indexes -> {"cagra", "ivfpq", "flat"}]
    BY DEF Init
  <2> QED
    BY <1>1, <2>1, <2>2, <2>3, <2>4, <2>5 DEF TypeInv
<1>10. ReservationsMatch
  <2>1. ASSUME NEW g \in Gpus PROVE pend[g] = Building(g)
    <3> DEFINE f == [i \in Indexes |-> IF job[i].dev = g THEN job[i].need ELSE 0]
               G == {T \in SUBSET Indexes : SumFunctionOnSet(f, T) = 0}
    <3>1. \A i \in Indexes : f[i] = 0
      BY DEF Init, NoJob
    <3>2. Building(g) = SumFunctionOnSet(f, Indexes)
      BY DEF Building, SumFunction
    <3> HIDE DEF f
    <3>3. {} \in G
      BY SumEmpty
    <3>4. ASSUME NEW T \in SUBSET Indexes, NEW x \in Indexes \ T, T \in G PROVE T \cup {x} \in G
      <4>1. IsFiniteSet(T \cup {x}) /\ x \in T \cup {x} /\ (T \cup {x}) \ {x} = T /\ T \cup {x} \in SUBSET Indexes
        BY FS_Subset, IndexesAssumption
      <4>2. \A y \in T \cup {x} : f[y] \in Int
        BY <3>1
      <4>3. SumFunctionOnSet(f, T \cup {x}) = f[x] + SumFunctionOnSet(f, T)
        BY <4>1, <4>2, SumRemove
      <4> QED
        BY <3>1, <3>4, <4>1, <4>3
    <3> HIDE DEF G
    <3>5. Indexes \in G
      BY <3>3, <3>4, FiniteInduction, IndexesAssumption
    <3>6. Building(g) = 0
      BY <3>2, <3>5 DEF G
    <3> QED
      BY <3>6 DEF Init
  <2> QED
    BY <2>1 DEF ReservationsMatch
<1> QED
  BY <1>3, <1>5, <1>6, <1>7, <1>8, <1>9, <1>10 DEF IInv

\* A step that changes nothing keeps the invariant.
LEMMA Stuttering ==
  ASSUME IInv, UNCHANGED vars
  PROVE  IInv'
<1> USE DEF IInv, vars
<1>1. JobInv' /\ SameBudget' /\ ReservationsMatch'
  BY OuterSame
<1>2. TypeInv' /\ SlotInv'
  BY DEF TypeInv, SlotInv, Resident
<1>3. MemInv'
  BY DEF MemInv, GraphOK, BfOK, DeltaOK, LeakOK, PlacedOK, Sized
<1>4. EntryInv' /\ TaskInv'
  BY DEF EntryInv, TaskInv, Parts, Placed
<1>5. RefusalInv'
  BY DEF RefusalInv, Evictable, OnDevice, Resident, Parts
<1>6. BudgetInv' /\ RoomInv'
  BY DEF BudgetInv, RoomInv, OverBudget, Used, Free, Real, Building
<1> QED
  BY <1>1, <1>2, <1>3, <1>4, <1>5, <1>6

\* Every step keeps the invariant.
LEMMA Preserved ==
  ASSUME IInv, [Next]_vars
  PROVE  IInv'
<1>1. CASE UNCHANGED vars
  BY <1>1, Stuttering
<1>2. CASE Next
  <2>1. kind' = kind
    BY <1>2 DEF Next
  <2>2. CASE Holder
    BY <2>1, <2>2, EnsureBudgetStep, EnsureCheckStep, EnsureFreeStep, RefuseStep, ReserveStep, PlaceStep,
       GiveUpStep, MakeSlotStep, RegisterStep DEF Holder
  <2>3. ASSUME NEW i \in Indexes, NEW busy \in BusySets,
               \/ \E sc \in Shards[i] : Build(i, Rows[i], sc, busy)
               \/ Load(i, busy) \/ FlatBuild(i, Rows[i], busy) \/ FlatLoad(i, busy)
               \/ BuildOom(i, busy) \/ BuildEnds(i, busy)
        PROVE  IInv'
    BY <2>1, <2>3, BuildStep, LoadStep, FlatBuildStep, FlatLoadStep, BuildOomStep, BuildEndsStep
  <2>4. ASSUME NEW i \in Indexes,
               RefreshDelta(i) \/ RefreshBf(i) \/ Extend(i) \/ Compact(i) \/ Drop(i)
        PROVE  IInv'
    BY <2>1, <2>4, RefreshDeltaStep, RefreshBfStep, ExtendStep, CompactStep, DropStep
  <2>5. ASSUME NEW b \in Budgets, SetBudget(b)
        PROVE  IInv'
    BY <2>1, <2>5, SetBudgetStep
  <2> QED
    BY <1>2, <2>2, <2>3, <2>4, <2>5 DEF Next, Step
<1> QED
  BY <1>1, <1>2

\* In every reachable state of the daemon's memory tables the invariant holds.
THEOREM BudgetInvariant == Spec => []IInv
<1>1. Init => IInv
  BY Initially
<1>2. IInv /\ [Next]_vars => IInv'
  BY Preserved
<1> QED
  BY <1>1, <1>2, PTL DEF Spec

\* g_pending_build_vram always is the memory of the builds that run outside the
\* mutex: handle_build gives back on every path exactly what it reserved.
THEOREM ReservationsAlwaysMatch == Spec => []ReservationsMatch
<1>1. IInv => ReservationsMatch
  BY DEF IInv
<1> QED
  BY <1>1, BudgetInvariant, PTL

\* ensure_vram refuses a request only with nothing left to evict on the GPU, or
\* after evict_lru returned 0 for an entry that was there.
THEOREM RefusedForCause == Spec => []NoNeedlessRefusal
<1>1. IInv => NoNeedlessRefusal
  BY DEF IInv, RefusalInv, NoNeedlessRefusal
<1> QED
  BY <1>1, BudgetInvariant, PTL

\* Type correctness: also no entry without a slot, no block without an entry, no
\* reservation below 0.
THEOREM VramTypeOK == Spec => []TypeOK
<1>1. ASSUME IInv PROVE TypeOK
  <2>1. ASSUME NEW g \in Gpus PROVE pend[g] >= 0
    <3>1. Building(g) \in Nat /\ pend[g] = Building(g)
      BY <1>1, BuildingNat DEF IInv, TypeInv, ReservationsMatch
    <3> QED
      BY <3>1
  <2>2. ASSUME NEW b \in mem
        PROVE  /\ b.at \in Gpus /\ b.cnt \in 0 .. NG
               /\ b.part \in {"graph", "bf", "delta"} => home[b.i] # 0
               /\ b.part = "placed" => task.i = b.i
    <3>1. b.at \in Gpus /\ b.cnt \in 0 .. NG
      BY <1>1 DEF IInv, TypeInv, Blocks
    <3> QED
      BY <1>1, <3>1 DEF IInv, MemInv, GraphOK, BfOK, DeltaOK, PlacedOK
  <2> QED
    BY <1>1, <2>1, <2>2 DEF IInv, TypeInv, SlotInv, TypeOK
<1> QED
  BY <1>1, BudgetInvariant, PTL

\* Under a free mutex everything on a GPU is counted there by total_vram_used at
\* no less than it takes, but for the cases the property lists.
THEOREM AllIsCounted == Spec => []EverythingCounted
<1>1. ASSUME IInv PROVE EverythingCounted
  <2> SUFFICES ASSUME Idle, NEW b \in mem
               PROVE  \/ b.cnt = b.at /\ b.acc >= b.act
                      \/ b.part = "delta" /\ home[b.i] = Spread
                      \/ b.part = "graph" /\ b.cnt = b.at /\ b.acc = GraphRows(b) * Usual
                      \/ b.part = "bf" /\ kind[b.i] = "cagra" /\ home[b.i] \in Gpus \ {b.at} /\ b.cnt = home[b.i]
                      \/ b.part = "leak" /\ kind[b.i] = "cagra" /\ b.cnt = 0
    BY DEF EverythingCounted
  <2>1. b \in Blocks /\ b.part # "placed"
    BY <1>1, IdleMeans DEF IInv, TypeInv, Placed
  <2>2. b.acc \in Nat /\ b.act \in Nat /\ b.i \in Indexes /\ b.part \in PartNames
    BY <2>1 DEF Blocks
  <2>3. CASE b.part = "graph"
    <3>1. b.cnt = b.at /\ Sized(b)
      BY <1>1, <2>3 DEF IInv, MemInv, GraphOK
    <3>2. PICK r \in Nat : b.act = r * Degree[b.i] /\ (b.acc = b.act \/ b.acc = r * Usual)
      BY <3>1 DEF Sized
    <3>3. GraphRows(b) = r
      BY <2>2, <3>2, DivExact, SizesAssumption DEF GraphRows
    <3> QED
      BY <2>2, <2>3, <3>1, <3>2, <3>3
  <2>4. CASE b.part = "bf"
    <3>1. home[b.i] \in Gpus \cup {0, Spread}
      <4>1. home[b.i] \in 0 .. Spread
        BY <1>1, <2>2 DEF IInv, TypeInv
      <4> QED
        BY <4>1, NGAssumption DEF Gpus, Spread
    <3>2. BfOK(b)
      BY <1>1, <2>4 DEF IInv, MemInv
    <3> QED
      BY <2>2, <2>4, <3>1, <3>2 DEF BfOK
  <2>5. CASE b.part = "delta"
    BY <1>1, <2>2, <2>5 DEF IInv, MemInv, DeltaOK
  <2>6. CASE b.part = "leak"
    BY <1>1, <2>6 DEF IInv, MemInv, LeakOK
  <2> QED
    BY <2>1, <2>2, <2>3, <2>4, <2>5, <2>6 DEF PartNames
<1> QED
  BY <1>1, BudgetInvariant, PTL

-----------------------------------------------------------------------------

\* What counts for Exceeded: entries, reservations and what is about to be
\* registered.
Claimed(g) == Used(g) + Estimate({b \in Placed : b.at = g})

Counted(g) == {b \in mem : b.cnt = g}
PlacedAt(g) == {b \in Placed : b.at = g}

\* Exceeded as arithmetic on the three estimates ...
LEMMA Claims ==
  ASSUME IInv, NEW g \in Gpus
  PROVE  /\ IsFiniteSet(Counted(g)) /\ IsFiniteSet(PlacedAt(g))
         /\ \A b \in Counted(g) \cup PlacedAt(g) : b.acc \in Nat
         /\ Estimate(Counted(g)) \in Nat /\ Estimate(PlacedAt(g)) \in Nat /\ pend[g] \in Nat /\ budget[g] \in Nat
         /\ Used(g) = Estimate(Counted(g)) + pend[g]
         /\ Claimed(g) = Estimate(Counted(g)) + pend[g] + Estimate(PlacedAt(g))
         /\ Exceeded(g) <=> budget[g] > 0 /\ Claimed(g) > budget[g]
<1>1. Counted(g) \in SUBSET mem /\ PlacedAt(g) \in SUBSET mem
  BY DEF Counted, PlacedAt, Placed
<1>2. \A B \in SUBSET mem : IsFiniteSet(B) /\ (\A b \in B : b.acc \in Nat) /\ Estimate(B) \in Nat
  BY MemEstimate DEF IInv, TypeInv
<1>3. pend[g] \in Nat /\ budget[g] \in Nat
  BY BuildingNat, Amounts DEF IInv, TypeInv, ReservationsMatch
<1> QED
  BY <1>1, <1>2, <1>3 DEF Claimed, Exceeded, Used, Counted, PlacedAt

\* The same of the state after a step.
LEMMA ClaimsAfter ==
  ASSUME IInv', NEW g \in Gpus
  PROVE  /\ IsFiniteSet(Counted(g)') /\ IsFiniteSet(PlacedAt(g)')
         /\ \A b \in Counted(g)' \cup PlacedAt(g)' : b.acc \in Nat
         /\ Estimate(Counted(g)') \in Nat /\ Estimate(PlacedAt(g)') \in Nat /\ pend'[g] \in Nat
         /\ Exceeded(g)' <=> budget'[g] > 0 /\ Estimate(Counted(g)') + pend'[g] + Estimate(PlacedAt(g)') > budget'[g]
<1>1. Counted(g)' \in SUBSET mem' /\ PlacedAt(g)' \in SUBSET mem' /\ IsFiniteSet(mem')
  BY DEF Counted, PlacedAt, Placed, IInv, TypeInv
<1>2. \A b \in mem' : b.acc \in Nat
  BY DEF IInv, TypeInv, Blocks
<1>3. IsFiniteSet(Counted(g)') /\ IsFiniteSet(PlacedAt(g)') /\ Estimate(Counted(g)') \in Nat /\ Estimate(PlacedAt(g)') \in Nat
  BY <1>1, <1>2, EstimateIn
<1>4. job' \in [Indexes -> Jobs \cup {NoJob}] /\ pend'[g] = Building(g)'
  BY DEF IInv, TypeInv, ReservationsMatch
<1>5. Building(g)' \in Nat
  <2> DEFINE f == [i \in Indexes |-> IF job'[i].dev = g THEN job'[i].need ELSE 0]
  <2>1. Building(g)' = SumFunctionOnSet(f, Indexes)
    BY DEF Building, SumFunction
  <2>2. \A i \in Indexes : f[i] \in Nat
    BY <1>4 DEF Jobs, NoJob
  <2> HIDE DEF f
  <2> QED
    BY <2>1, <2>2, SumNat, IndexesAssumption
<1> QED
  BY <1>1, <1>2, <1>3, <1>4, <1>5 DEF Exceeded, Used, Counted, PlacedAt

\* What is counted for a GPU and placed on it cannot exceed the budget more than before.
LEMMA NotMore ==
  ASSUME IInv, IInv', NEW g \in Gpus, budget' = budget, pend'[g] <= pend[g],
         Counted(g)' \subseteq Counted(g), PlacedAt(g)' \subseteq PlacedAt(g), Exceeded(g)'
  PROVE  Exceeded(g)
<1>1. /\ IsFiniteSet(Counted(g)) /\ IsFiniteSet(PlacedAt(g)) /\ (\A b \in Counted(g) \cup PlacedAt(g) : b.acc \in Nat)
      /\ pend[g] \in Nat /\ budget[g] \in Nat
      /\ Claimed(g) = Estimate(Counted(g)) + pend[g] + Estimate(PlacedAt(g))
      /\ (Exceeded(g) <=> budget[g] > 0 /\ Claimed(g) > budget[g])
  BY Claims
<1>2. /\ pend'[g] \in Nat
      /\ (Exceeded(g)' <=> budget'[g] > 0 /\ Estimate(Counted(g)') + pend'[g] + Estimate(PlacedAt(g)') > budget'[g])
  BY ClaimsAfter
<1>3. Estimate(Counted(g)') \in Nat /\ Estimate(Counted(g)) \in Nat /\ Estimate(Counted(g)') <= Estimate(Counted(g))
  BY <1>1, EstimateMore
<1>4. Estimate(PlacedAt(g)') \in Nat /\ Estimate(PlacedAt(g)) \in Nat /\ Estimate(PlacedAt(g)') <= Estimate(PlacedAt(g))
  BY <1>1, EstimateMore
<1> QED
  BY <1>1, <1>2, <1>3, <1>4

\* A step that only frees memory takes no GPU over its budget.
LEMMA LessMem ==
  ASSUME IInv, IInv', NEW g \in Gpus, budget' = budget, pend' = pend, mem' \subseteq mem, Exceeded(g)'
  PROVE  Exceeded(g)
<1>1. Counted(g)' \subseteq Counted(g) /\ PlacedAt(g)' \subseteq PlacedAt(g)
  BY DEF Counted, PlacedAt, Placed
<1>2. pend'[g] <= pend[g]
  BY Claims
<1> QED
  BY <1>1, <1>2, NotMore

\* The same if something else is counted for the GPU and fits its budget.
LEMMA WithinBudget ==
  ASSUME IInv, IInv', NEW g \in Gpus, budget' = budget, pend' = pend, NEW more, IsFiniteSet(more),
         \A b \in more : b.acc \in Nat, Counted(g)' \subseteq Counted(g) \cup more, PlacedAt(g)' = {},
         budget[g] > 0 => Used(g) + Estimate(more) <= budget[g]
  PROVE  ~Exceeded(g)'
<1>1. /\ IsFiniteSet(Counted(g)) /\ (\A b \in Counted(g) \cup PlacedAt(g) : b.acc \in Nat)
      /\ Used(g) = Estimate(Counted(g)) + pend[g] /\ pend[g] \in Nat /\ budget[g] \in Nat
  BY Claims
<1>2. (Exceeded(g)' <=> budget'[g] > 0 /\ Estimate(Counted(g)') + pend'[g] + Estimate(PlacedAt(g)') > budget'[g])
  BY ClaimsAfter
<1>3. /\ IsFiniteSet(Counted(g) \cup more) /\ Estimate(Counted(g)) \in Nat /\ Estimate(more) \in Nat
      /\ Estimate(Counted(g) \cup more) \in Nat
      /\ Estimate(Counted(g) \cup more) <= Estimate(Counted(g)) + Estimate(more)
  BY <1>1, EstimateUnion
<1>4. \A b \in Counted(g) \cup more : b.acc \in Nat
  BY <1>1
<1>5. Estimate(Counted(g)') \in Nat /\ Estimate(Counted(g)') <= Estimate(Counted(g) \cup more)
  BY <1>3, <1>4, EstimateMore
<1>6. Estimate(PlacedAt(g)') = 0
  BY EstimateNone
<1> QED
  BY <1>1, <1>2, <1>3, <1>5, <1>6

\* The causes that StaysInBudget names.
Cause(g) ==
  \/ Exceeded(g)
  \/ budget' # budget
  \/ task.ph = "granted" /\ \E b \in Placed : b.at = g
  \/ task.ph = "register" /\ task.sc = 1 /\ home[task.i] \notin {0, task.dev}
       /\ Parts(task.i, {"bf"}) # {}

\* Nor do evictions and the freeing of what was placed.
LEMMA FreeingCause ==
  ASSUME IInv, IInv', NEW g \in Gpus, Exceeded(g)', budget' = budget, pend' = pend, Shrinks \/ mem' = mem \ Placed
  PROVE  Cause(g)
<1>1. mem' \subseteq mem
  BY DEF Shrinks
<1> QED
  BY <1>1, LessMem DEF Cause

\* The turns of ensure_vram take no GPU over its budget.
LEMMA EnsureCause ==
  ASSUME IInv, IInv', NEW g \in Gpus, Exceeded(g)',
         EnsureBudget \/ EnsureCheck \/ EnsureFree \/ Refuse \/ GiveUp \/ MakeSlot
  PROVE  Cause(g)
<1>1. budget' = budget /\ pend' = pend
  BY DEF EnsureBudget, EnsureCheck, EnsureFree, Refuse, GiveUp, MakeSlot
<1>2. Shrinks \/ mem' = mem \ Placed
  <2>1. CASE EnsureBudget
    BY <2>1 DEF EnsureBudget, EvictLru, Shrinks, Evictable, Resident
  <2>2. CASE EnsureFree
    BY <2>2 DEF EnsureFree, EvictLru, Shrinks, Evictable, Resident
  <2>3. CASE MakeSlot
    BY <2>3 DEF MakeSlot, EvictLru, Shrinks, Evictable, Resident
  <2>4. CASE EnsureCheck \/ Refuse \/ GiveUp
    BY <2>4 DEF EnsureCheck, Refuse, GiveUp, Shrinks
  <2> QED
    BY <2>1, <2>2, <2>3, <2>4
<1> QED
  BY <1>1, <1>2, FreeingCause

\* Nor does a request.
LEMMA AskCause ==
  ASSUME IInv, IInv', NEW g \in Gpus, Exceeded(g)', NEW i \in Indexes, NEW busy \in BusySets,
         \/ \E sc \in Shards[i] : Build(i, Rows[i], sc, busy)
         \/ Load(i, busy) \/ FlatBuild(i, Rows[i], busy) \/ FlatLoad(i, busy) \/ BuildOom(i, busy) \/ Drop(i)
  PROVE  Cause(g)
<1>1. budget' = budget /\ pend' = pend
  BY DEF Build, Load, FlatBuild, FlatLoad, BuildOom, Drop
<1>2. Shrinks
  <2>1. ASSUME NEW sc \in Shards[i], Build(i, Rows[i], sc, busy) PROVE Shrinks
    <3>1. PICK n \in Nat : n = ShardCount(sc, Rows[i])
      <4>1. sc \in Nat /\ Rows[i] \in Nat \ {0}
        BY ShardsAssumption, SizesAssumption
      <4> QED
        BY <4>1, ShardCountNat DEF IInv
    <3>2. \/ UNCHANGED <<task, disk, home, mem>> \/ AskUnsharded("build", i, Rows[i], busy)
          \/ AskSharded("build", i, Rows[i], n, busy)
      BY <2>1, <3>1 DEF Build
    <3> QED
      BY <3>2 DEF AskUnsharded, AskSharded, EvictLru, Shrinks, Evictable, Resident
  <2>2. CASE Load(i, busy)
    BY <2>2 DEF Load, AskUnsharded, AskSharded, EvictLru, Shrinks, Evictable, Resident
  <2>3. CASE FlatBuild(i, Rows[i], busy) \/ FlatLoad(i, busy)
    BY <2>3 DEF FlatBuild, FlatLoad, Shrinks
  <2>4. CASE BuildOom(i, busy)
    BY <2>4 DEF BuildOom, EvictLru, Shrinks, Evictable, Resident
  <2>5. CASE Drop(i)
    BY <2>5 DEF Drop, Shrinks
  <2> QED
    BY <2>1, <2>2, <2>3, <2>4, <2>5
<1> QED
  BY <1>1, <1>2, FreeingCause

\* Nor a reservation: ensure_vram has just found it within the budget.
LEMMA ReserveCause ==
  ASSUME IInv, IInv', NEW g \in Gpus, Exceeded(g)', Reserve
  PROVE  Cause(g)
<1>1. /\ task \in Tasks /\ task.ph = "granted" /\ task.sc = 1 /\ UNCHANGED <<mem, budget>>
      /\ pend' = [pend EXCEPT ![task.dev] = pend[task.dev] + task.need]
  BY IdleMeans DEF Reserve, Idle, NoTask
<1>2. task.dev \in Gpus /\ task.need \in Nat /\ task.ph \in Asking /\ ~OverBudget(task.dev, task.need)
  BY <1>1 DEF Tasks, Asking, IInv, BudgetInv
<1>3. Placed = {}
  BY <1>1, <1>2, NothingPlaced
<1>4. Counted(g)' = Counted(g) /\ PlacedAt(g)' = PlacedAt(g) /\ PlacedAt(g) = {}
  BY <1>1, <1>3 DEF Counted, PlacedAt, Placed
<1>5. /\ Estimate(Counted(g)) \in Nat /\ pend[g] \in Nat /\ budget[g] \in Nat
      /\ Used(g) = Estimate(Counted(g)) + pend[g]
      /\ Claimed(g) = Estimate(Counted(g)) + pend[g] + Estimate(PlacedAt(g))
      /\ (Exceeded(g) <=> budget[g] > 0 /\ Claimed(g) > budget[g])
  BY Claims
<1>6. budget'[g] > 0 /\ Estimate(Counted(g)') + pend'[g] + Estimate(PlacedAt(g)') > budget'[g]
  BY ClaimsAfter
<1>7. Estimate(PlacedAt(g)) = 0
  BY <1>4, EstimateNone
<1>8. CASE g = task.dev
  <2>1. pend'[g] = pend[g] + task.need
    BY <1>1, <1>8 DEF IInv, TypeInv
  <2>2. Used(g) + task.need <= budget[g]
    BY <1>1, <1>2, <1>5, <1>6, <1>8 DEF OverBudget
  <2> QED
    BY <1>1, <1>2, <1>4, <1>5, <1>6, <1>7, <2>1, <2>2
<1>9. CASE g # task.dev
  <2>1. pend'[g] = pend[g]
    BY <1>1, <1>9 DEF IInv, TypeInv
  <2> QED
    BY <1>1, <1>4, <1>5, <1>6, <1>7, <2>1 DEF Cause
<1> QED
  BY <1>8, <1>9

\* Nor the end of a build: what it placed was reserved.
LEMMA BuildEndsCause ==
  ASSUME IInv, IInv', NEW g \in Gpus, Exceeded(g)', NEW i \in Indexes, NEW busy \in BusySets, BuildEnds(i, busy)
  PROVE  Cause(g)
<1>1. /\ Idle /\ job[i] # NoJob /\ budget' = budget
      /\ pend' = [pend EXCEPT ![job[i].dev] = pend[job[i].dev] - job[i].need]
  BY DEF BuildEnds
<1>2. job[i].dev \in Gpus /\ job[i].need \in Nat
  BY <1>1 DEF IInv, TypeInv, Jobs
<1>3. Placed = {}
  BY <1>1, IdleMeans
<1>4. pend[g] \in Nat /\ pend'[g] = IF g = job[i].dev THEN pend[g] - job[i].need ELSE pend[g]
  BY <1>1, Claims DEF IInv, TypeInv
<1>5. CASE mem' = mem
  <2>1. Counted(g)' \subseteq Counted(g) /\ PlacedAt(g)' \subseteq PlacedAt(g)
    BY <1>5 DEF Counted, PlacedAt, Placed
  <2>2. pend'[g] <= pend[g]
    BY <1>2, <1>4
  <2> QED
    BY <1>1, <2>1, <2>2, NotMore DEF Cause
<1>6. ASSUME NEW new, new.part = "placed", new.at = job[i].dev, new.cnt = 0, new.acc = job[i].need,
             mem' = mem \cup {new}
      PROVE  Cause(g)
  <2>1. Counted(g)' = Counted(g)
    BY <1>6, GpusFinite DEF Counted
  <2>2. PlacedAt(g)' = IF g = job[i].dev THEN {new} ELSE {}
    <3>1. Placed' = {new}
      BY <1>3, <1>6 DEF Placed
    <3> QED
      BY <1>6, <3>1 DEF PlacedAt
  <2>3. Estimate({new}) = job[i].need /\ Estimate({}) = 0
    BY <1>2, <1>6, EstimateOne, EstimateNone
  <2>4. /\ Estimate(Counted(g)) \in Nat /\ pend[g] \in Nat /\ budget[g] \in Nat
        /\ Claimed(g) = Estimate(Counted(g)) + pend[g] + Estimate(PlacedAt(g))
        /\ (Exceeded(g) <=> budget[g] > 0 /\ Claimed(g) > budget[g])
        /\ Estimate(PlacedAt(g)) \in Nat
    BY Claims
  <2>5. budget'[g] > 0 /\ Estimate(Counted(g)') + pend'[g] + Estimate(PlacedAt(g)') > budget'[g]
    BY ClaimsAfter
  <2>6. pend'[g] + Estimate(PlacedAt(g)') = pend[g]
    BY <1>2, <1>4, <2>2, <2>3
  <2>7. pend'[g] \in Nat /\ Estimate(PlacedAt(g)') \in Nat
    BY ClaimsAfter
  <2> QED
    BY <1>1, <2>1, <2>4, <2>5, <2>6, <2>7 DEF Cause
<1> QED
  BY <1>5, <1>6 DEF BuildEnds, Blk

\* A piece that is placed does only if another one lies there already.
LEMMA PlaceCause ==
  ASSUME IInv, IInv', NEW g \in Gpus, Exceeded(g)', Place
  PROVE  Cause(g)
<1>1. task \in Tasks /\ task.ph = "granted" /\ UNCHANGED <<pend, budget>>
  BY IdleMeans DEF Place, Idle, NoTask
<1>2. task.dev \in Gpus /\ task.need \in Nat /\ ~OverBudget(task.dev, task.need)
  BY <1>1 DEF Tasks, IInv, BudgetInv
<1>3. PICK new : new.part = "placed" /\ new.at = task.dev /\ new.cnt = 0 /\ new.acc = task.need /\ mem' = mem \cup {new}
  BY DEF Place, Blk
<1>4. Counted(g)' = Counted(g)
  BY <1>3, GpusFinite DEF Counted
<1>5. CASE g # task.dev
  <2>1. PlacedAt(g)' \subseteq PlacedAt(g)
    BY <1>3, <1>5 DEF PlacedAt, Placed
  <2>2. pend'[g] <= pend[g]
    BY <1>1, Claims
  <2> QED
    BY <1>1, <1>4, <2>1, <2>2, NotMore DEF Cause
<1>6. CASE g = task.dev /\ PlacedAt(g) = {}
  <2>1. PlacedAt(g)' = {new}
    BY <1>3, <1>6 DEF PlacedAt, Placed
  <2>2. Estimate({new}) = task.need
    BY <1>2, <1>3, EstimateOne
  <2>3. Estimate(Counted(g)) \in Nat /\ pend[g] \in Nat /\ budget[g] \in Nat /\ Used(g) = Estimate(Counted(g)) + pend[g]
    BY Claims
  <2>4. budget'[g] > 0 /\ Estimate(Counted(g)') + pend'[g] + Estimate(PlacedAt(g)') > budget'[g]
    BY ClaimsAfter
  <2>5. Used(g) + task.need <= budget[g]
    BY <1>1, <1>2, <1>6, <2>3, <2>4 DEF OverBudget
  <2> QED
    BY <1>1, <1>2, <1>4, <2>1, <2>2, <2>3, <2>4, <2>5
<1>7. CASE PlacedAt(g) # {}
  BY <1>1, <1>7 DEF Cause, PlacedAt
<1> QED
  BY <1>5, <1>6, <1>7

\* A registration does only if a brute-force copy moves with its entry.
LEMMA RegisterCause ==
  ASSUME IInv, IInv', NEW g \in Gpus, Exceeded(g)', Register
  PROVE  Cause(g)
<1>1. task \in Tasks /\ task.ph = "register" /\ UNCHANGED <<pend, budget>>
  BY IdleMeans DEF Register, Idle, NoTask
<1>2. task.i \in Indexes /\ task.dev \in Gpus /\ task.sc \in Nat \ {0}
  BY <1>1 DEF Tasks
<1>3. CASE ~(home[task.i] # 0 \/ ~Full)
  <2>1. mem' = mem \ Placed
    BY <1>3 DEF Register
  <2> QED
    BY <1>1, <2>1, FreeingCause
<1>4. CASE home[task.i] # 0 \/ ~Full
  <2> DEFINE K == Kept(task.i, task.dev, task.sc)
  <2>1. mem' = ((mem \ Placed) \ OfEntry(task.i)) \cup K \cup Registered
    BY <1>4 DEF Register, Registered
  <2>2. /\ \A c \in K : /\ home[task.i] \notin {0, Spread}
                        /\ \E b \in Parts(task.i, {"bf"}) : TRUE
                        /\ \/ task.sc > 1 /\ c.part = "leak" /\ c.cnt = 0
                           \/ ~(task.sc > 1) /\ c.part = "bf" /\ c.cnt = task.dev
        /\ (~(task.sc > 1) /\ home[task.i] = task.dev => K \subseteq Parts(task.i, {"bf"}))
    <3>1. PICK i \in Indexes, dev \in Gpus, sc \in Nat : i = task.i /\ dev = task.dev /\ sc = task.sc
      BY <1>2
    <3>2. /\ \A c \in Kept(i, dev, sc) :
               /\ c.i = i /\ kind[i] = "cagra" /\ home[i] \notin {0, Spread}
               /\ \E b \in Parts(i, {"bf"}) : c.acc = b.acc /\ c.at = b.at /\ c.act = b.act /\ c.s = b.s
               /\ \/ sc > 1 /\ c.part = "leak" /\ c.cnt = 0
                  \/ ~(sc > 1) /\ c.part = "bf" /\ c.cnt = dev
          /\ ~(sc > 1) /\ home[i] = dev => Kept(i, dev, sc) \subseteq Parts(i, {"bf"})
      BY KeptBlocks
    <3> QED
      BY <3>1, <3>2
  <2> HIDE DEF K
  <2>3. \A c \in Registered : c.part = "graph"
    BY <1>1, RegisteredBlocks
  <2>4. PlacedAt(g)' = {}
    BY <2>1, <2>2, <2>3 DEF PlacedAt, Placed
  <2>5. CASE task.sc = 1 /\ home[task.i] \notin {0, task.dev} /\ Parts(task.i, {"bf"}) # {}
    BY <1>1, <2>5 DEF Cause
  <2>6. CASE ~(task.sc = 1 /\ home[task.i] \notin {0, task.dev} /\ Parts(task.i, {"bf"}) # {})
    <3>1. \A c \in K : c.cnt = g => c \in mem
      <4>1. ASSUME NEW c \in K, c.cnt = g PROVE c \in mem
        <5>1. ~(task.sc > 1) /\ task.sc = 1
          BY <1>2, <2>2, <4>1, GpusFinite
        <5>2. home[task.i] = task.dev
          BY <2>2, <2>6, <4>1, <5>1
        <5>3. c \in Parts(task.i, {"bf"})
          BY <2>2, <4>1, <5>1, <5>2
        <5> QED
          BY <5>3 DEF Parts
      <4> QED
        BY <4>1
    <3> DEFINE R == {c \in Registered : c.cnt = g}
    <3>2. Counted(g)' \subseteq Counted(g) \cup R
      BY <2>1, <3>1 DEF Counted
    <3>3. /\ IsFiniteSet(Registered) /\ Registered \subseteq Blocks
          /\ Estimate(R) \in Nat /\ Estimate(R) <= Estimate(PlacedAt(g))
      BY <1>1, RegisteredBlocks DEF PlacedAt
    <3>4. IsFiniteSet(R) /\ \A c \in R : c.acc \in Nat
      BY <3>3, FS_Subset DEF Blocks
    <3> HIDE DEF R
    <3>5. /\ IsFiniteSet(Counted(g)) /\ (\A b \in Counted(g) \cup PlacedAt(g) : b.acc \in Nat)
          /\ Estimate(Counted(g)) \in Nat /\ Estimate(PlacedAt(g)) \in Nat /\ pend[g] \in Nat /\ budget[g] \in Nat
          /\ Claimed(g) = Estimate(Counted(g)) + pend[g] + Estimate(PlacedAt(g))
          /\ (Exceeded(g) <=> budget[g] > 0 /\ Claimed(g) > budget[g])
      BY Claims
    <3>6. /\ IsFiniteSet(Counted(g) \cup R) /\ Estimate(Counted(g) \cup R) \in Nat
          /\ Estimate(Counted(g) \cup R) <= Estimate(Counted(g)) + Estimate(R)
      BY <3>4, <3>5, EstimateUnion
    <3>7. \A b \in Counted(g) \cup R : b.acc \in Nat
      BY <3>4, <3>5
    <3>8. Estimate(Counted(g)') \in Nat /\ Estimate(Counted(g)') <= Estimate(Counted(g) \cup R)
      BY <3>2, <3>6, <3>7, EstimateMore
    <3>9. Estimate(PlacedAt(g)') = 0
      BY <2>4, EstimateNone
    <3>10. budget'[g] > 0 /\ Estimate(Counted(g)') + pend'[g] + Estimate(PlacedAt(g)') > budget'[g]
      BY ClaimsAfter
    <3> QED
      BY <1>1, <3>3, <3>5, <3>6, <3>8, <3>9, <3>10 DEF Cause
  <2> QED
    BY <2>5, <2>6
<1> QED
  BY <1>3, <1>4

\* A refreshed delta cache was tested against the budget.
LEMMA DeltaCause ==
  ASSUME IInv, IInv', NEW g \in Gpus, Exceeded(g)', NEW i \in Indexes, RefreshDelta(i)
  PROVE  Cause(g)
<1>1. Idle /\ home[i] # 0 /\ UNCHANGED <<pend, budget>>
  BY DEF RefreshDelta
<1>2. Placed = {}
  BY <1>1, IdleMeans
<1>3. CASE mem' = mem \ Parts(i, {"delta"})
  <2>1. mem' \subseteq mem
    BY <1>3
  <2> QED
    BY <1>1, <2>1, LessMem DEF Cause
<1>4. CASE /\ Fits(CacheGpu(i), 1)
           /\ mem' = (mem \ Parts(i, {"delta"}))
                       \cup {Blk(i, "delta", 1, CacheGpu(i), IF home[i] = Spread THEN 0 ELSE CacheGpu(i), 1, 1)}
  <2>0. PICK h \in Gpus, cnt \in 0 .. NG : h = CacheGpu(i) /\ cnt = (IF home[i] = Spread THEN 0 ELSE CacheGpu(i))
    <3>1. CacheGpu(i) \in Gpus
      BY <1>1, CacheGpuIs
    <3>2. 0 \in 0 .. NG
      BY NGAssumption
    <3>3. CacheGpu(i) \in 0 .. NG
      BY <3>1, GpusFinite
    <3> QED
      BY <3>1, <3>2, <3>3
  <2>1. PICK new : /\ new.part = "delta" /\ new.acc = 1
                   /\ new.cnt = (IF home[i] = Spread THEN 0 ELSE CacheGpu(i))
                   /\ mem' = (mem \ Parts(i, {"delta"})) \cup {new}
    <3>1. PICK new : new = Blk(i, "delta", 1, h, cnt, 1, 1)
      OBVIOUS
    <3>2. new.part = "delta" /\ new.acc = 1 /\ new.cnt = cnt
      BY <3>1 DEF Blk
    <3>3. mem' = (mem \ Parts(i, {"delta"})) \cup {new}
      BY <1>4, <2>0, <3>1
    <3> QED
      BY <2>0, <3>2, <3>3
  <2>2. PlacedAt(g)' = {}
    BY <1>2, <2>1 DEF PlacedAt, Placed
  <2>3. CASE new.cnt # g
    <3>1. Counted(g)' \subseteq Counted(g) /\ PlacedAt(g)' \subseteq PlacedAt(g)
      BY <2>1, <2>2, <2>3 DEF Counted
    <3>2. pend'[g] <= pend[g]
      BY <1>1, Claims
    <3> QED
      BY <1>1, <3>1, <3>2, NotMore DEF Cause
  <2>4. CASE new.cnt = g
    <3>1. g = CacheGpu(i)
      BY <2>1, <2>4, GpusFinite
    <3>2. ~OverBudget(g, 1)
      BY <1>4, <3>1 DEF Fits
    <3>3. Estimate({new}) = 1 /\ IsFiniteSet({new})
      BY <2>1, EstimateOne
    <3>4. Counted(g)' \subseteq Counted(g) \cup {new}
      BY <2>1 DEF Counted
    <3>5. budget[g] > 0 => Used(g) + Estimate({new}) <= budget[g]
      <4>1. Used(g) \in Int /\ budget[g] \in Nat
        BY Amounts DEF IInv
      <4> QED
        BY <3>2, <3>3, <4>1 DEF OverBudget
    <3>6. \A b \in {new} : b.acc \in Nat
      BY <2>1
    <3> QED
      BY <1>1, <2>2, <3>3, <3>4, <3>5, <3>6, WithinBudget
  <2> QED
    BY <2>3, <2>4
<1> QED
  BY <1>3, <1>4 DEF RefreshDelta

\* So was a brute-force cache, without the copy it replaces.
LEMMA BfCause ==
  ASSUME IInv, IInv', NEW g \in Gpus, Exceeded(g)', NEW i \in Indexes, RefreshBf(i)
  PROVE  Cause(g)
<1>1. Idle /\ home[i] # 0 /\ UNCHANGED <<pend, budget>>
  BY DEF RefreshBf
<1>2. Placed = {}
  BY <1>1, IdleMeans
<1>3. /\ IsFiniteSet(BfBlocks(i)) /\ BfBlocks(i) \subseteq Blocks
      /\ \A c \in BfBlocks(i) : c.i = i /\ c.part = "bf" /\ c.cnt = c.at
  BY <1>1, BfBlocksAre
<1> DEFINE new == {c \in BfBlocks(i) : c.at = g}
           old == {b \in Parts(i, {"bf"}) : b.cnt = g}
<1>4. CASE ~BfFits(i) \/ new = {}
  <2>1. Counted(g)' \subseteq Counted(g)
    BY <1>3, <1>4 DEF RefreshBf, Counted
  <2>2. PlacedAt(g)' \subseteq PlacedAt(g)
    BY <1>2, <1>3 DEF RefreshBf, PlacedAt, Placed
  <2>3. pend'[g] <= pend[g]
    BY <1>1, Claims
  <2> QED
    BY <1>1, <2>1, <2>2, <2>3, NotMore DEF Cause
<1>5. CASE BfFits(i) /\ new # {}
  <2>1. mem' = (mem \ Parts(i, {"bf"})) \cup BfBlocks(i)
    BY <1>5 DEF RefreshBf
  <2>2. PlacedAt(g)' = {}
    BY <1>2, <1>3, <2>1 DEF PlacedAt, Placed
  <2>3. Counted(g)' = (Counted(g) \ old) \cup new /\ old \in SUBSET Counted(g)
    BY <1>3, <2>1 DEF Counted, Parts
  <2>4. budget[g] > 0 => Used(g) - Estimate(old) + Estimate(new) <= budget[g]
    BY <1>5 DEF BfFits, OldBfOn, BfOn
  <2>5. IsFiniteSet(new) /\ \A c \in new : c.acc \in Nat
    BY <1>3, FS_Subset DEF Blocks
  <2> HIDE DEF new, old
  <2>6. /\ IsFiniteSet(Counted(g)) /\ (\A b \in Counted(g) : b.acc \in Nat)
        /\ Used(g) = Estimate(Counted(g)) + pend[g] /\ pend[g] \in Nat /\ budget[g] \in Nat
    BY Claims
  <2>7. /\ Estimate(Counted(g)) \in Nat /\ Estimate(old) \in Nat /\ Estimate(Counted(g) \ old) \in Nat
        /\ Estimate(Counted(g)) = Estimate(old) + Estimate(Counted(g) \ old)
    BY <2>3, <2>6, EstimateSplit
  <2>8. IsFiniteSet(Counted(g) \ old) /\ \A b \in (Counted(g) \ old) \cup new : b.acc \in Nat
    BY <2>5, <2>6, FS_Subset
  <2>9. /\ Estimate(new) \in Nat /\ Estimate((Counted(g) \ old) \cup new) \in Nat
        /\ Estimate((Counted(g) \ old) \cup new) <= Estimate(Counted(g) \ old) + Estimate(new)
    BY <2>5, <2>8, EstimateUnion
  <2>10. budget'[g] > 0 /\ Estimate(Counted(g)') + pend'[g] + Estimate(PlacedAt(g)') > budget'[g]
    BY ClaimsAfter
  <2>11. Estimate(PlacedAt(g)') = 0
    BY <2>2, EstimateNone
  <2>12. Estimate(Counted(g)') = Estimate((Counted(g) \ old) \cup new)
    BY <2>3
  <2> QED
    BY <1>1, <2>4, <2>6, <2>7, <2>9, <2>10, <2>11, <2>12
<1> QED
  BY <1>4, <1>5

\* So was EXTEND, and COMPACT takes less.
LEMMA GraphCause ==
  ASSUME IInv, IInv', NEW g \in Gpus, Exceeded(g)', NEW i \in Indexes, Extend(i) \/ Compact(i)
  PROVE  Cause(g)
<1>1. Idle /\ kind[i] = "cagra" /\ home[i] \in Gpus /\ UNCHANGED <<pend, budget>>
  BY DEF Extend, Compact
<1>2. Placed = {}
  BY <1>1, IdleMeans
<1>3. PICK b \in mem, r \in Nat \ {0}, w \in Nat :
           /\ b = Graph(i) /\ b.i = i /\ b.part = "graph" /\ b.at = home[i] /\ b.cnt = home[i]
           /\ GraphRows(b) = r /\ b.acc \div GraphRows(b) = w
           /\ b.act = r * Degree[i] /\ b.acc = r * w /\ (w = Degree[i] \/ w = Usual)
  BY <1>1, GraphOf
<1>4. b \in Blocks /\ b.acc \in Nat
  BY DEF IInv, TypeInv, Blocks
<1>5. PICK c : /\ c.part = "graph" /\ c.cnt = home[i]
               /\ mem' = (mem \ {b}) \cup {c}
               /\ \/ c.acc = b.acc + w /\ ~OverBudget(home[i], w)
                  \/ c.acc = b.acc - w
  <2>1. CASE Extend(i)
    <3>1. PICK c : c = [b EXCEPT !.acc = b.acc + w, !.act = b.act + Degree[i]]
      OBVIOUS
    <3>2. mem' = (mem \ {b}) \cup {c} /\ ~OverBudget(home[i], w)
      BY <1>3, <2>1, <3>1 DEF Extend
    <3>3. c.part = "graph" /\ c.cnt = home[i] /\ c.acc = b.acc + w
      BY <1>3, <1>4, <3>1 DEF Blocks
    <3> QED
      BY <3>2, <3>3
  <2>2. CASE Compact(i)
    <3>1. PICK c : c = [b EXCEPT !.acc = b.acc - w, !.act = b.act - Degree[i]]
      OBVIOUS
    <3>2. mem' = (mem \ {b}) \cup {c}
      BY <1>3, <2>2, <3>1 DEF Compact
    <3>3. c.part = "graph" /\ c.cnt = home[i] /\ c.acc = b.acc - w
      BY <1>3, <1>4, <3>1 DEF Blocks
    <3> QED
      BY <3>2, <3>3
  <2> QED
    BY <2>1, <2>2
<1>6. PlacedAt(g)' = {}
  BY <1>2, <1>5 DEF PlacedAt, Placed
<1>7. CASE g # home[i]
  <2>1. Counted(g)' \subseteq Counted(g) /\ PlacedAt(g)' \subseteq PlacedAt(g)
    BY <1>5, <1>6, <1>7 DEF Counted
  <2>2. pend'[g] <= pend[g]
    BY <1>1, Claims
  <2> QED
    BY <1>1, <2>1, <2>2, NotMore DEF Cause
<1>8. CASE g = home[i]
  <2>1. Counted(g)' = (Counted(g) \ {b}) \cup {c} /\ {b} \in SUBSET Counted(g) /\ c \in mem'
    BY <1>3, <1>5, <1>8 DEF Counted
  <2>2. /\ IsFiniteSet(Counted(g)) /\ (\A d \in Counted(g) : d.acc \in Nat)
        /\ Used(g) = Estimate(Counted(g)) + pend[g] /\ pend[g] \in Nat /\ budget[g] \in Nat
        /\ Estimate(PlacedAt(g)) \in Nat
        /\ Claimed(g) = Estimate(Counted(g)) + pend[g] + Estimate(PlacedAt(g))
        /\ (Exceeded(g) <=> budget[g] > 0 /\ Claimed(g) > budget[g])
    BY Claims
  <2>3. /\ Estimate(Counted(g)) \in Nat /\ Estimate(Counted(g) \ {b}) \in Nat
        /\ Estimate(Counted(g)) = Estimate({b}) + Estimate(Counted(g) \ {b})
    BY <2>1, <2>2, EstimateSplit
  <2>4. c.acc \in Nat
    BY <2>1 DEF IInv, TypeInv, Blocks
  <2>5. Estimate({b}) = b.acc /\ Estimate({c}) = c.acc /\ IsFiniteSet({c})
    BY <1>4, <2>4, EstimateOne
  <2>6. IsFiniteSet(Counted(g) \ {b}) /\ \A d \in (Counted(g) \ {b}) \cup {c} : d.acc \in Nat
    BY <2>2, <2>4, FS_Subset
  <2>7. /\ Estimate((Counted(g) \ {b}) \cup {c}) \in Nat
        /\ Estimate((Counted(g) \ {b}) \cup {c}) <= Estimate(Counted(g) \ {b}) + Estimate({c})
    BY <2>5, <2>6, EstimateUnion
  <2>8. budget'[g] > 0 /\ Estimate(Counted(g)') + pend'[g] + Estimate(PlacedAt(g)') > budget'[g]
    BY ClaimsAfter
  <2>9. Estimate(PlacedAt(g)') = 0 /\ Estimate(Counted(g)') <= Estimate(Counted(g) \ {b}) + c.acc
    BY <1>6, <2>1, <2>5, <2>7, EstimateNone
  <2>10. Estimate(Counted(g)') \in Nat
    BY <2>1, <2>7
  <2>11. CASE c.acc = b.acc + w /\ ~OverBudget(home[i], w)
    <3>1. Used(g) + w <= budget[g]
      BY <1>1, <1>8, <2>2, <2>3, <2>8, <2>11 DEF OverBudget
    <3> QED
      BY <1>1, <1>3, <1>4, <2>2, <2>3, <2>5, <2>8, <2>9, <2>10, <2>11, <3>1
  <2>12. CASE c.acc = b.acc - w
    BY <1>1, <1>3, <1>4, <2>2, <2>3, <2>5, <2>8, <2>9, <2>10, <2>12 DEF Cause
  <2> QED
    BY <1>5, <2>11, <2>12
<1> QED
  BY <1>7, <1>8

\* A step takes a GPU over its budget only for one of the causes.
LEMMA StepCause ==
  ASSUME IInv, IInv', Step, NEW g \in Gpus, Exceeded(g)'
  PROVE  Cause(g)
<1>1. CASE Holder
  <2>1. CASE EnsureBudget \/ EnsureCheck \/ EnsureFree \/ Refuse \/ GiveUp \/ MakeSlot
    BY <2>1, EnsureCause
  <2>2. CASE Reserve
    BY <2>2, ReserveCause
  <2>3. CASE Place
    BY <2>3, PlaceCause
  <2>4. CASE Register
    BY <2>4, RegisterCause
  <2> QED
    BY <1>1, <2>1, <2>2, <2>3, <2>4 DEF Holder
<1>2. ASSUME NEW i \in Indexes, NEW busy \in BusySets,
             \/ \E sc \in Shards[i] : Build(i, Rows[i], sc, busy)
             \/ Load(i, busy) \/ FlatBuild(i, Rows[i], busy) \/ FlatLoad(i, busy)
             \/ BuildOom(i, busy) \/ BuildEnds(i, busy)
      PROVE  Cause(g)
  <2>1. CASE BuildEnds(i, busy)
    BY <2>1, BuildEndsCause
  <2>2. CASE \/ \E sc \in Shards[i] : Build(i, Rows[i], sc, busy)
             \/ Load(i, busy) \/ FlatBuild(i, Rows[i], busy) \/ FlatLoad(i, busy)
             \/ BuildOom(i, busy) \/ Drop(i)
    BY <2>2, AskCause
  <2> QED
    BY <1>2, <2>1, <2>2
<1>3. ASSUME NEW i \in Indexes, RefreshDelta(i) \/ RefreshBf(i) \/ Extend(i) \/ Compact(i) \/ Drop(i)
      PROVE  Cause(g)
  <2>1. CASE RefreshDelta(i)
    BY <2>1, DeltaCause
  <2>2. CASE RefreshBf(i)
    BY <2>2, BfCause
  <2>3. CASE Extend(i) \/ Compact(i)
    BY <2>3, GraphCause
  <2>4. CASE Drop(i)
    <3>1. {} \in BusySets
      BY DEF BusySets
    <3> QED
      BY <2>4, <3>1, AskCause
  <2> QED
    BY <1>3, <2>1, <2>2, <2>3, <2>4
<1>4. ASSUME NEW b \in Budgets, SetBudget(b) PROVE Cause(g)
  <2>1. budget' # budget
    BY <1>4 DEF SetBudget
  <2> QED
    BY <2>1 DEF Cause
<1> QED
  BY <1>1, <1>2, <1>3, <1>4 DEF Step

\* No step takes a GPU over its budget, but for the causes that StaysInBudget
\* names.
THEOREM OverBudgetForCause == Spec => StaysInBudget
<1>1. ASSUME IInv, IInv', [Next]_vars
      PROVE  [\A g \in Gpus :
                Exceeded(g)' =>
                  \/ Exceeded(g)
                  \/ budget' # budget
                  \/ task.ph = "granted" /\ \E b \in Placed : b.at = g
                  \/ task.ph = "register" /\ task.sc = 1 /\ home[task.i] \notin {0, task.dev}
                       /\ Parts(task.i, {"bf"}) # {}]_vars
  <2>1. CASE vars' = vars
    BY <2>1
  <2>2. CASE Next
    <3>1. ASSUME NEW g \in Gpus, Exceeded(g)' PROVE Cause(g)
      BY <1>1, <2>2, <3>1, StepCause DEF Next
    <3> QED
      BY <3>1 DEF Cause
  <2> QED
    BY <1>1, <2>1, <2>2
<1> QED
  BY <1>1, BudgetInvariant, PTL DEF Spec, StaysInBudget

\* A build or load of one graph evicts nothing if some GPU has room for it: the
\* GPU that pick_gpu_for_index chose still has it when ensure_vram looks, since
\* the mutex is held.  Were a budget above what a GPU has, the headroom would
\* not tell which GPU has the memory.
THEOREM RoomIsEnough ==
  ASSUME \A b \in Budgets : b <= Phys
  PROVE  Spec => NoNeedlessEviction
<1>1. ASSUME IInv, [Next]_vars
      PROVE  [task.room /\ task.ph \in {"budget", "free"} => home' = home]_vars
  <2> SUFFICES ASSUME Next, task.room, task.ph \in {"budget", "free"} PROVE home' = home
    BY <1>1
  <2>1. ~OverBudget(task.dev, task.need) /\ ~(task.need > Free(task.dev))
    <3>1. task.ph \in Asking /\ task.ph # "none"
      BY DEF Asking
    <3>2. task \in Tasks
      BY <1>1, <3>1, IdleMeans DEF Idle, NoTask
    <3>3. task.need \in Nat /\ task.dev \in Gpus
      BY <3>2 DEF Tasks
    <3>4. Free(task.dev) \in Nat
      BY <1>1, <3>3, Amounts DEF IInv
    <3> QED
      BY <1>1, <3>1, <3>3, <3>4 DEF IInv, RoomInv
  <2>2. ~Idle
    BY DEF Idle, NoTask
  <2>3. CASE Holder
    BY <2>1, <2>3 DEF Holder, EnsureBudget, EnsureCheck, EnsureFree, Refuse, Reserve, Place, GiveUp, MakeSlot, Register
  <2>4. CASE ~Holder
    <3>1. ASSUME NEW i, NEW n, NEW sc, NEW busy
          PROVE  ~Build(i, n, sc, busy) /\ ~Load(i, busy) /\ ~FlatBuild(i, n, busy) /\ ~FlatLoad(i, busy)
      BY <2>2, Zenon DEF Build, Load, FlatBuild, FlatLoad
    <3>2. ASSUME NEW i, NEW busy PROVE ~BuildOom(i, busy) /\ ~BuildEnds(i, busy)
      BY <2>2, Zenon DEF BuildOom, BuildEnds
    <3>3. ASSUME NEW i PROVE ~RefreshDelta(i) /\ ~RefreshBf(i) /\ ~Extend(i) /\ ~Compact(i) /\ ~Drop(i)
      BY <2>2, Zenon DEF RefreshDelta, RefreshBf, Extend, Compact, Drop
    <3>4. ASSUME NEW b PROVE ~SetBudget(b)
      BY <2>2, Zenon DEF SetBudget
    <3> QED
      BY <2>4, <3>1, <3>2, <3>3, <3>4, Zenon DEF Next, Step
  <2> QED
    BY <2>3, <2>4
<1> QED
  BY <1>1, BudgetInvariant, PTL DEF Spec, NoNeedlessEviction
=============================================================================

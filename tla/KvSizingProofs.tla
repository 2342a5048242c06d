---------------------------- MODULE KvSizingProofs ----------------------------
(***************************************************************************)
(* The plan of the KV cache, for any number of workers, any layers, any    *)
(* memory and any lengths.  First what the operators compute (sums, sorted *)
(* sets, the binary search, the groups, a worker's part of them, the bytes *)
(* of each layout); then the invariant, which says of each phase what it   *)
(* has established; then the properties that follow from it.               *)
(***************************************************************************)
EXTENDS KvSizing, FiniteSetTheorems, SequenceTheorems, TLAPS

-----------------------------------------------------------------------------
\* Sets of numbers, induction and sums.  The induction theorems of the library take an
\* operator; here it is done with sets, and a recursive function over the subsets of a
\* finite set is shown to exist, so that a sum is what its terms add up to.

\* A set of naturals that is not empty has a least.
LEMMA Least ==
  ASSUME NEW S \in SUBSET Nat, S # {}
  PROVE  \E i \in S : \A j \in S : i <= j
<1>1. PICK i \in S : \A j \in S : <<j, i>> \notin OpToRel(<, Nat)
  BY NatLessThanWellFounded, WFMin
<1>2. \A j \in S : ~ (j < i)
  BY <1>1 DEF OpToRel
<1>3. QED
  BY <1>2

\* Induction, of a set.
LEMMA NatAll ==
  ASSUME NEW S \in SUBSET Nat, 0 \in S, \A n \in S : n + 1 \in S
  PROVE  S = Nat
<1> SUFFICES ASSUME Nat \ S # {} PROVE FALSE
  OBVIOUS
<1>1. PICK m \in Nat \ S : \A j \in Nat \ S : m <= j
  BY Least
<1>2. m - 1 \in S
  BY <1>1
<1>3. m - 1 + 1 \in S
  BY <1>2
<1>4. QED
  BY <1>1, <1>3

\* Induction over the subsets of a finite set.
LEMMA FiniteAll ==
  ASSUME NEW D, IsFiniteSet(D), NEW F, {} \in F,
         \A s \in SUBSET D, x \in D : s \in F /\ x \notin s => s \cup {x} \in F
  PROVE  D \in F
<1> DEFINE N == {n \in Nat : \A s \in SUBSET D : Cardinality(s) = n => s \in F}
<1>1. \A s \in SUBSET D : IsFiniteSet(s) /\ Cardinality(s) \in Nat
  BY FS_Subset, FS_CardinalityType
<1>2. 0 \in N
  BY <1>1, FS_EmptySet
<1>3. ASSUME NEW n \in N PROVE n + 1 \in N
  <2>1. n \in Nat /\ \A s \in SUBSET D : Cardinality(s) = n => s \in F
    OBVIOUS
  <2>2. ASSUME NEW s \in SUBSET D, Cardinality(s) = n + 1 PROVE s \in F
    <3>0. IsFiniteSet(s) /\ n + 1 # 0 /\ n + 1 - 1 = n
      BY <1>1, <2>1
    <3>1. s # {}
      BY <2>2, <3>0, FS_EmptySet
    <3>2. PICK x \in s : TRUE
      BY <3>1
    <3>7. Cardinality(s \ {x}) = Cardinality(s) - 1
      BY <3>0, FS_RemoveElement
    <3>3. Cardinality(s \ {x}) = n
      BY <2>2, <3>0, <3>7
    <3>4. s \ {x} \in F /\ s \ {x} \in SUBSET D /\ x \in D /\ x \notin s \ {x}
      BY <2>1, <3>3
    <3>5. (s \ {x}) \cup {x} = s
      OBVIOUS
    <3>6. QED
      BY <3>4, <3>5
  <2>3. QED
    BY <2>1, <2>2
<1>4. N = Nat
  <2>1. N \in SUBSET Nat
    OBVIOUS
  <2> HIDE DEF N
  <2>2. QED
    BY <1>2, <1>3, <2>1, NatAll
<1>5. Cardinality(D) \in N
  BY <1>1, <1>4
<1>6. QED
  BY <1>5

\* Max and Min of the community modules, of a finite set.
LEMMA MaxIs ==
  ASSUME NEW S \in SUBSET Int, IsFiniteSet(S), S # {}
  PROVE  Max(S) \in S /\ \A y \in S : y <= Max(S)
<1> DEFINE F == {s \in SUBSET S : s = {} \/ \E x \in s : \A y \in s : x >= y}
<1>1. {} \in F
  OBVIOUS
<1>2. ASSUME NEW s \in SUBSET S, NEW x \in S, s \in F, x \notin s PROVE s \cup {x} \in F
  <2>1. CASE s = {}
    BY <2>1
  <2>2. CASE \E m \in s : \A y \in s : m >= y
    <3>1. PICK m \in s : \A y \in s : m >= y
      BY <2>2
    <3>2. CASE m >= x
      BY <3>1, <3>2
    <3>3. CASE ~ (m >= x)
      <4>1. \A y \in s \cup {x} : x >= y
        BY <3>1, <3>3
      <4>2. QED
        BY <4>1
    <3>4. QED
      BY <3>2, <3>3
  <2>3. QED
    BY <1>2, <2>1, <2>2
<1>3. S \in F
  <2> HIDE DEF F
  <2>1. QED
    BY <1>1, <1>2, FiniteAll
<1>4. \E x \in S : \A y \in S : x >= y
  BY <1>3
<1>5. QED
  BY <1>4 DEF Max

LEMMA MinIs ==
  ASSUME NEW S \in SUBSET Nat, S # {}
  PROVE  Min(S) \in S /\ \A y \in S : Min(S) <= y
BY Least DEF Min

-----------------------------------------------------------------------------
\* Recursion over the subsets of a finite set, and sums.

Pick(s) == CHOOSE x \in s : TRUE

IsFold(g, D, base, step) ==
  \A s \in SUBSET D : g[s] = IF s = {} THEN base ELSE step[<<Pick(s), g[s \ {Pick(s)}]>>]

LEMMA Folded ==
  ASSUME NEW D, IsFiniteSet(D), NEW V, NEW base \in V, NEW step \in [D \X V -> V]
  PROVE  \E g \in [SUBSET D -> V] : IsFold(g, D, base, step)
<1> DEFINE Up(n) == {s \in SUBSET D : Cardinality(s) <= n}
           Good(n, g) == /\ g \in [Up(n) -> V]
                         /\ \A s \in Up(n) :
                              g[s] = IF s = {} THEN base ELSE step[<<Pick(s), g[s \ {Pick(s)}]>>]
           N == {n \in Nat : \E g : Good(n, g)}
<1>1. \A s \in SUBSET D : IsFiniteSet(s) /\ Cardinality(s) \in Nat
  BY FS_Subset, FS_CardinalityType
<1>2. \A s \in SUBSET D : s # {} => /\ Pick(s) \in s /\ s \ {Pick(s)} \in SUBSET D
                                    /\ Cardinality(s \ {Pick(s)}) = Cardinality(s) - 1
  <2> SUFFICES ASSUME NEW s \in SUBSET D, s # {}
               PROVE  /\ Pick(s) \in s /\ s \ {Pick(s)} \in SUBSET D
                      /\ Cardinality(s \ {Pick(s)}) = Cardinality(s) - 1
    OBVIOUS
  <2>1. Pick(s) \in s
    BY DEF Pick
  <2>2. QED
    BY <1>1, <2>1, FS_RemoveElement
<1>3. 0 \in N
  <2>1. Up(0) = {{}}
    <3>1. \A s \in SUBSET D : Cardinality(s) <= 0 <=> s = {}
      BY <1>1, FS_EmptySet
    <3>2. QED
      BY <3>1
  <2>2. Good(0, [s \in {{}} |-> base])
    BY <2>1
  <2>3. QED
    BY <2>2
<1>4. ASSUME NEW n \in N PROVE n + 1 \in N
  <2>1. n \in Nat
    OBVIOUS
  <2>2. PICK g : Good(n, g)
    OBVIOUS
  <2> DEFINE h == [s \in Up(n + 1) |->
                     IF s = {} THEN base ELSE step[<<Pick(s), g[s \ {Pick(s)}]>>]]
  <2>3. \A s \in Up(n + 1) : s # {} => s \ {Pick(s)} \in Up(n) /\ Pick(s) \in D
    <3> SUFFICES ASSUME NEW s \in Up(n + 1), s # {}
                 PROVE  s \ {Pick(s)} \in Up(n) /\ Pick(s) \in D
      OBVIOUS
    <3>1. Pick(s) \in s /\ s \ {Pick(s)} \in SUBSET D
          /\ Cardinality(s \ {Pick(s)}) = Cardinality(s) - 1 /\ Cardinality(s) <= n + 1
      BY <1>2
    <3>2. Cardinality(s) \in Nat
      BY <1>1
    <3>3. QED
      BY <2>1, <3>1, <3>2
  <2>4. Up(n) \subseteq Up(n + 1)
    BY <1>1, <2>1
  <2>5. \A s \in Up(n) : h[s] = g[s]
    BY <2>2, <2>4
  <2>6. h \in [Up(n + 1) -> V]
    <3> HIDE DEF Up
    <3>1. ASSUME NEW s \in Up(n + 1)
          PROVE  (IF s = {} THEN base ELSE step[<<Pick(s), g[s \ {Pick(s)}]>>]) \in V
      <4>1. CASE s = {}
        BY <4>1
      <4>2. CASE s # {}
        <5>1. g[s \ {Pick(s)}] \in V /\ Pick(s) \in D
          BY <2>2, <2>3, <4>2
        <5>2. QED
          BY <4>2, <5>1
      <4>3. QED
        BY <4>1, <4>2
    <3>2. QED
      BY <3>1
  <2>7. \A s \in Up(n + 1) :
          h[s] = IF s = {} THEN base ELSE step[<<Pick(s), h[s \ {Pick(s)}]>>]
    BY <2>3, <2>5
  <2>8. Good(n + 1, h)
    BY <2>6, <2>7
  <2> HIDE DEF Good
  <2>9. QED
    BY <2>1, <2>8
<1>5. N = Nat
  <2>1. N \in SUBSET Nat
    OBVIOUS
  <2> HIDE DEF N
  <2>2. QED
    BY <1>3, <1>4, <2>1, NatAll
<1>6. PICK g : Good(Cardinality(D), g)
  <2>1. Cardinality(D) \in N
    BY <1>1, <1>5
  <2>2. QED
    BY <2>1
<1>7. Up(Cardinality(D)) = SUBSET D
  BY FS_Subset
<1>8. QED
  BY <1>6, <1>7 DEF IsFold

\* Induction along that recursion.
LEMMA PickInduction ==
  ASSUME NEW D, IsFiniteSet(D), NEW F, {} \in F,
         \A s \in SUBSET D : s # {} /\ s \ {Pick(s)} \in F => s \in F
  PROVE  \A s \in SUBSET D : s \in F
<1> DEFINE N == {n \in Nat : \A s \in SUBSET D : Cardinality(s) = n => s \in F}
<1>1. \A s \in SUBSET D : IsFiniteSet(s) /\ Cardinality(s) \in Nat
  BY FS_Subset, FS_CardinalityType
<1>2. 0 \in N
  BY <1>1, FS_EmptySet
<1>3. ASSUME NEW n \in N PROVE n + 1 \in N
  <2>1. n \in Nat /\ \A s \in SUBSET D : Cardinality(s) = n => s \in F
    OBVIOUS
  <2>2. ASSUME NEW s \in SUBSET D, Cardinality(s) = n + 1 PROVE s \in F
    <3>1. IsFiniteSet(s) /\ n + 1 # 0 /\ n + 1 - 1 = n
      BY <1>1, <2>1
    <3>2. s # {}
      BY <2>2, <3>1, FS_EmptySet
    <3>3. Pick(s) \in s
      BY <3>2 DEF Pick
    <3>4. Cardinality(s \ {Pick(s)}) = Cardinality(s) - 1
      BY <3>1, <3>3, FS_RemoveElement
    <3>5. Cardinality(s \ {Pick(s)}) = n
      BY <2>2, <3>1, <3>4
    <3>6. s \ {Pick(s)} \in F
      BY <2>1, <3>5
    <3>7. QED
      BY <3>2, <3>6
  <2>3. QED
    BY <2>1, <2>2
<1>4. N = Nat
  <2>1. N \in SUBSET Nat
    OBVIOUS
  <2> HIDE DEF N
  <2>2. QED
    BY <1>2, <1>3, <2>1, NatAll
<1>5. QED
  BY <1>1, <1>4

\* A sum over a part of a function's domain.
SumOn(f, s) == SumFunctionOnSet(f, s)

IsSum(g, f, D) ==
  \A s \in SUBSET D : g[s] = IF s = {} THEN 0 ELSE f[Pick(s)] + g[s \ {Pick(s)}]

LEMMA SumRecursion ==
  ASSUME NEW f, NEW D, IsFiniteSet(D), \A x \in D : f[x] \in Int
  PROVE  \E g \in [SUBSET D -> Int] : SumOn(f, D) = g[D] /\ IsSum(g, f, D)
<1> DEFINE Body(g) == [s \in SUBSET D |->
                         IF s = {} THEN 0 ELSE f[Pick(s)] + g[s \ {Pick(s)}]]
           iter == CHOOSE g : g = Body(g)
           step == [p \in D \X Int |-> f[p[1]] + p[2]]
<1>1. SumOn(f, D) = iter[D]
  BY DEF SumOn, SumFunctionOnSet, FoldFunctionOnSet, MapThenFoldSet, Pick
<1>2. \E g \in [SUBSET D -> Int] : g = Body(g)
  <2>1. step \in [D \X Int -> Int]
    OBVIOUS
  <2>2. \A x \in D, v \in Int : step[<<x, v>>] = f[x] + v
    OBVIOUS
  <2> HIDE DEF step
  <2>3. PICK g \in [SUBSET D -> Int] : IsFold(g, D, 0, step)
    <3>1. 0 \in Int
      OBVIOUS
    <3>2. QED
      BY <2>1, <3>1, Folded, Zenon
  <2>4. ASSUME NEW s \in SUBSET D
        PROVE  g[s] = IF s = {} THEN 0 ELSE f[Pick(s)] + g[s \ {Pick(s)}]
    <3>1. CASE s # {}
      <4>1. Pick(s) \in D /\ s \ {Pick(s)} \in SUBSET D
        BY <3>1 DEF Pick
      <4>2. g[s \ {Pick(s)}] \in Int
        BY <4>1
      <4>3. step[<<Pick(s), g[s \ {Pick(s)}]>>] = f[Pick(s)] + g[s \ {Pick(s)}]
        BY <2>2, <4>1, <4>2
      <4>4. QED
        BY <2>3, <3>1, <4>3 DEF IsFold
    <3>2. QED
      BY <2>3, <3>1 DEF IsFold
  <2>5. g = Body(g)
    BY <2>3, <2>4
  <2>6. QED
    BY <2>3, <2>5
<1>3. iter = Body(iter)
  <2> HIDE DEF Body
  <2>1. QED
    BY <1>2
<1>4. IsSum(iter, f, D)
  BY <1>3 DEF IsSum
<1>5. iter \in [SUBSET D -> Int]
  <2> DEFINE F == {s \in SUBSET D : iter[s] \in Int}
  <2>1. \A s \in SUBSET D : iter[s] = IF s = {} THEN 0 ELSE f[Pick(s)] + iter[s \ {Pick(s)}]
    BY <1>3
  <2>2. DOMAIN iter = SUBSET D /\ iter = [s \in SUBSET D |-> iter[s]]
    BY <1>3
  <2> HIDE DEF iter
  <2>3. {} \in F
    BY <2>1
  <2>4. ASSUME NEW s \in SUBSET D, s # {}, s \ {Pick(s)} \in F PROVE s \in F
    <3>1. f[Pick(s)] \in Int /\ iter[s \ {Pick(s)}] \in Int
      BY <2>4 DEF Pick
    <3>2. iter[s] = f[Pick(s)] + iter[s \ {Pick(s)}]
      BY <2>1, <2>4
    <3>3. QED
      BY <3>1, <3>2
  <2>5. \A s \in SUBSET D : s \in F
    <3> HIDE DEF F
    <3>1. QED
      BY <2>3, <2>4, PickInduction
  <2>6. QED
    BY <2>2, <2>5
<1> HIDE DEF iter
<1>6. QED
  BY <1>1, <1>4, <1>5

LEMMA SumUnique ==
  ASSUME NEW f, NEW D, IsFiniteSet(D), NEW g, NEW h, IsSum(g, f, D), IsSum(h, f, D)
  PROVE  \A s \in SUBSET D : g[s] = h[s]
<1> DEFINE F == {s \in SUBSET D : g[s] = h[s]}
<1>1. {} \in F
  BY DEF IsSum
<1>2. ASSUME NEW s \in SUBSET D, s # {}, s \ {Pick(s)} \in F PROVE s \in F
  BY <1>2 DEF IsSum
<1>3. QED
  <2>1. \A s \in SUBSET D : s \in F
    <3> HIDE DEF F
    <3>1. QED
      BY <1>1, <1>2, PickInduction
  <2>2. QED
    BY <2>1

\* The sum over a set, element by element in the order of Pick.
LEMMA SumByPick ==
  ASSUME NEW f, NEW D, IsFiniteSet(D), \A x \in D : f[x] \in Int
  PROVE  /\ SumOn(f, {}) = 0
         /\ \A s \in SUBSET D : SumOn(f, s) \in Int
         /\ \A s \in SUBSET D : s # {} => SumOn(f, s) = f[Pick(s)] + SumOn(f, s \ {Pick(s)})
<1>1. PICK g \in [SUBSET D -> Int] : SumOn(f, D) = g[D] /\ IsSum(g, f, D)
  BY SumRecursion
<1>2. ASSUME NEW s \in SUBSET D PROVE SumOn(f, s) = g[s]
  <2>1. IsFiniteSet(s) /\ \A x \in s : f[x] \in Int
    BY FS_Subset
  <2>2. PICK h \in [SUBSET s -> Int] : SumOn(f, s) = h[s] /\ IsSum(h, f, s)
    BY <2>1, SumRecursion
  <2>3. IsSum(g, f, s)
    BY <1>1 DEF IsSum
  <2>4. QED
    BY <2>1, <2>2, <2>3, SumUnique
<1>3. ASSUME NEW s \in SUBSET D, s # {}
      PROVE  SumOn(f, s) = f[Pick(s)] + SumOn(f, s \ {Pick(s)})
  BY <1>1, <1>2, <1>3 DEF IsSum
<1>4. SumOn(f, {}) = 0
  BY <1>1, <1>2 DEF IsSum
<1>5. QED
  BY <1>2, <1>3, <1>4

\* In any order.
LEMMA SumStep ==
  ASSUME NEW f, NEW D, IsFiniteSet(D), \A x \in D : f[x] \in Int
  PROVE  \A s \in SUBSET D : \A x \in s : SumOn(f, s) = f[x] + SumOn(f, s \ {x})
<1> DEFINE F == {s \in SUBSET D : \A x \in s : SumOn(f, s) = f[x] + SumOn(f, s \ {x})}
<1>1. /\ \A s \in SUBSET D : SumOn(f, s) \in Int
      /\ \A s \in SUBSET D : s # {} => SumOn(f, s) = f[Pick(s)] + SumOn(f, s \ {Pick(s)})
  BY SumByPick
<1>2. \A n \in Nat : \A s \in SUBSET D : Cardinality(s) = n => s \in F
  <2> DEFINE N == {n \in Nat : \A s \in SUBSET D : Cardinality(s) = n => s \in F}
  <2>1. \A s \in SUBSET D : IsFiniteSet(s) /\ Cardinality(s) \in Nat
    BY FS_Subset, FS_CardinalityType
  <2>2. 0 \in N
    BY <2>1, FS_EmptySet
  <2>3. ASSUME NEW n \in N PROVE n + 1 \in N
    <3>1. n \in Nat /\ \A s \in SUBSET D : Cardinality(s) = n => s \in F
      OBVIOUS
    <3>2. ASSUME NEW s \in SUBSET D, Cardinality(s) = n + 1, NEW x \in s
          PROVE  SumOn(f, s) = f[x] + SumOn(f, s \ {x})
      <4> DEFINE p == Pick(s)
      <4>1. p \in s
        BY DEF Pick
      <4>2. SumOn(f, s) = f[p] + SumOn(f, s \ {p})
        BY <1>1, <4>1
      <4>3. ASSUME NEW y \in s PROVE s \ {y} \in F
        <5>1. IsFiniteSet(s) /\ n + 1 - 1 = n
          BY <2>1, <3>1
        <5>2. Cardinality(s \ {y}) = Cardinality(s) - 1
          BY <5>1, FS_RemoveElement
        <5>3. Cardinality(s \ {y}) = n /\ s \ {y} \in SUBSET D
          BY <3>2, <5>1, <5>2
        <5>4. QED
          BY <3>1, <5>3
      <4> HIDE DEF p
      <4>4. CASE x = p
        BY <4>2, <4>4
      <4>5. CASE x # p
        <5>1. SumOn(f, s \ {p}) = f[x] + SumOn(f, (s \ {p}) \ {x})
          BY <4>1, <4>3, <4>5
        <5>2. SumOn(f, s \ {x}) = f[p] + SumOn(f, (s \ {x}) \ {p})
          BY <4>1, <4>3, <4>5
        <5>3. (s \ {p}) \ {x} = (s \ {x}) \ {p}
          OBVIOUS
        <5>4. f[p] \in Int /\ f[x] \in Int /\ SumOn(f, (s \ {p}) \ {x}) \in Int
          BY <1>1, <4>1
        <5>5. \A a, b, c \in Int : a + (b + c) = b + (a + c)
          OBVIOUS
        <5>6. f[p] + (f[x] + SumOn(f, (s \ {p}) \ {x}))
              = f[x] + (f[p] + SumOn(f, (s \ {p}) \ {x}))
          BY <5>4, <5>5, Zenon
        <5>7. QED
          BY <4>2, <5>1, <5>2, <5>3, <5>6
      <4>6. QED
        BY <4>4, <4>5
    <3>3. QED
      BY <3>1, <3>2
  <2>4. N = Nat
    <3>1. N \in SUBSET Nat
      OBVIOUS
    <3> HIDE DEF N
    <3>2. QED
      BY <2>2, <2>3, <3>1, NatAll
  <2>5. QED
    BY <2>4
<1>3. \A s \in SUBSET D : Cardinality(s) \in Nat
  BY FS_Subset, FS_CardinalityType
<1>4. QED
  BY <1>2, <1>3

\* What sums of naturals have in common with their terms.
LEMMA SumProperties ==
  ASSUME NEW f, IsFiniteSet(DOMAIN f), \A x \in DOMAIN f : f[x] \in Nat
  PROVE  /\ SumFunction(f) \in Nat
         /\ \A x \in DOMAIN f : f[x] <= SumFunction(f)
         /\ SumFunction(f) # 0 => \E x \in DOMAIN f : f[x] # 0
<1> DEFINE D == DOMAIN f
           F == {s \in SUBSET D : /\ SumOn(f, s) \in Nat
                                  /\ SumOn(f, s) # 0 => \E x \in s : f[x] # 0}
<1>1. \A x \in D : f[x] \in Int
  OBVIOUS
<1>2. /\ SumOn(f, {}) = 0
      /\ \A s \in SUBSET D : s # {} => SumOn(f, s) = f[Pick(s)] + SumOn(f, s \ {Pick(s)})
  BY <1>1, SumByPick
<1>3. \A s \in SUBSET D : s \in F
  <2>1. {} \in F
    BY <1>2
  <2>2. ASSUME NEW s \in SUBSET D, s # {}, s \ {Pick(s)} \in F PROVE s \in F
    <3>1. Pick(s) \in s /\ f[Pick(s)] \in Nat /\ SumOn(f, s \ {Pick(s)}) \in Nat
      BY <2>2 DEF Pick
    <3>2. SumOn(f, s) = f[Pick(s)] + SumOn(f, s \ {Pick(s)})
      BY <1>2, <2>2
    <3>3. SumOn(f, s) # 0 => f[Pick(s)] # 0 \/ SumOn(f, s \ {Pick(s)}) # 0
      BY <3>1, <3>2
    <3>4. SumOn(f, s) \in Nat
      BY <3>1, <3>2
    <3>5. QED
      BY <2>2, <3>1, <3>3, <3>4
  <2> HIDE DEF F
  <2>3. QED
    BY <2>1, <2>2, PickInduction
<1>4. SumOn(f, D) = SumFunction(f)
  BY DEF SumOn, SumFunction
<1>5. ASSUME NEW x \in D PROVE f[x] <= SumFunction(f)
  <2>1. SumFunction(f) = f[x] + SumOn(f, D \ {x})
    BY <1>1, <1>4, SumStep
  <2>2. SumOn(f, D \ {x}) \in Nat
    BY <1>3
  <2>3. f[x] \in Nat
    OBVIOUS
  <2>4. QED
    BY <2>1, <2>2, <2>3
<1>6. D \in F
  BY <1>3
<1>7. QED
  BY <1>4, <1>5, <1>6

LEMMA SumOfNone ==
  ASSUME NEW f, DOMAIN f = {}
  PROVE  SumFunction(f) = 0
<1>1. IsFiniteSet(DOMAIN f) /\ \A x \in DOMAIN f : f[x] \in Int
  BY FS_EmptySet
<1>2. QED
  BY <1>1, SumByPick DEF SumOn, SumFunction

LEMMA SumOfOne ==
  ASSUME NEW f, NEW x, DOMAIN f = {x}, f[x] \in Int
  PROVE  SumFunction(f) = f[x]
<1>1. IsFiniteSet({x}) /\ \A y \in {x} : f[y] \in Int
  BY FS_Singleton
<1>2. SumOn(f, {x}) = f[x] + SumOn(f, {x} \ {x})
  BY <1>1, SumStep
<1>3. {x} \ {x} = {} /\ SumOn(f, {}) = 0
  BY <1>1, SumByPick
<1>4. QED
  BY <1>2, <1>3 DEF SumOn, SumFunction

\* A factor comes out of a sum.
LEMMA SumScaled ==
  ASSUME NEW f, NEW g, IsFiniteSet(DOMAIN f), DOMAIN g = DOMAIN f, NEW c \in Int,
         \A x \in DOMAIN f : f[x] \in Int /\ g[x] = c * f[x]
  PROVE  SumFunction(g) = c * SumFunction(f)
<1> DEFINE D == DOMAIN f
           F == {s \in SUBSET D : SumOn(g, s) = c * SumOn(f, s)}
<1>1. \A x \in D : f[x] \in Int /\ g[x] \in Int
  OBVIOUS
<1>2. /\ SumOn(f, {}) = 0 /\ SumOn(g, {}) = 0
      /\ \A s \in SUBSET D : SumOn(f, s) \in Int
      /\ \A s \in SUBSET D : s # {} => SumOn(f, s) = f[Pick(s)] + SumOn(f, s \ {Pick(s)})
      /\ \A s \in SUBSET D : s # {} => SumOn(g, s) = g[Pick(s)] + SumOn(g, s \ {Pick(s)})
  BY <1>1, SumByPick
<1>3. \A a, b \in Int : c * (a + b) = c * a + c * b
  OBVIOUS
<1>4. {} \in F
  BY <1>2
<1>5. ASSUME NEW s \in SUBSET D, s # {}, s \ {Pick(s)} \in F PROVE s \in F
  <2>1. Pick(s) \in D /\ f[Pick(s)] \in Int /\ SumOn(f, s \ {Pick(s)}) \in Int
    BY <1>2, <1>5 DEF Pick
  <2>2. SumOn(g, s \ {Pick(s)}) = c * SumOn(f, s \ {Pick(s)}) /\ g[Pick(s)] = c * f[Pick(s)]
    BY <1>5, <2>1
  <2>3. SumOn(g, s) = c * f[Pick(s)] + c * SumOn(f, s \ {Pick(s)})
    BY <1>2, <1>5, <2>2
  <2>4. SumOn(f, s) = f[Pick(s)] + SumOn(f, s \ {Pick(s)})
    BY <1>2, <1>5
  <2>5. c * (f[Pick(s)] + SumOn(f, s \ {Pick(s)}))
        = c * f[Pick(s)] + c * SumOn(f, s \ {Pick(s)})
    BY <1>3, <2>1, Zenon
  <2>6. SumOn(g, s) = c * SumOn(f, s)
    BY <2>3, <2>4, <2>5
  <2>7. QED
    BY <2>6
<1>6. \A s \in SUBSET D : s \in F
  <2> HIDE DEF F
  <2>1. QED
    BY <1>4, <1>5, PickInduction, ZenonT(60)
<1>7. QED
  BY <1>6 DEF SumOn, SumFunction

-----------------------------------------------------------------------------
\* Sorting a finite set and flattening sequences of sequences: what comes where.

\* In a total order each of a finite set's elements has a rank of its own, and each rank
\* its element.
LEMMA Ranked ==
  ASSUME NEW S, IsFiniteSet(S), NEW R,
         \A x \in S : <<x, x>> \notin R,
         \A x, y \in S : x # y => <<x, y>> \in R \/ <<y, x>> \in R,
         \A x, y, z \in S : <<x, y>> \in R /\ <<y, z>> \in R => <<x, z>> \in R
  PROVE  /\ \A k \in 1 .. Cardinality(S) :
              \E x \in S : Cardinality({y \in S : <<y, x>> \in R}) = k - 1
         /\ \A x, z \in S : <<x, z>> \in R =>
              Cardinality({y \in S : <<y, x>> \in R}) < Cardinality({y \in S : <<y, z>> \in R})
         /\ \A x \in S : Cardinality({y \in S : <<y, x>> \in R}) \in 0 .. Cardinality(S) - 1
<1> DEFINE n == Cardinality(S)
           B(x) == {y \in S : <<y, x>> \in R}
           f == [x \in S |-> Cardinality(B(x)) + 1]
<1>1. n \in Nat
  BY FS_CardinalityType
<1>2. \A x \in S : B(x) \in SUBSET S /\ x \notin B(x)
  OBVIOUS
<1>3. \A x, z \in S : <<x, z>> \in R => B(x) \in SUBSET B(z) /\ x \in B(z)
  OBVIOUS
<1>4. \A x, y \in S : x # y => <<x, y>> \in R \/ <<y, x>> \in R
  OBVIOUS
<1> HIDE DEF B
<1>5. \A x \in S : IsFiniteSet(B(x)) /\ Cardinality(B(x)) \in Nat
  BY <1>2, FS_Subset, FS_CardinalityType
<1>6. ASSUME NEW x \in S PROVE Cardinality(B(x)) < n
  <2>1. Cardinality(B(x)) <= n /\ Cardinality(B(x)) # n
    BY <1>2, FS_Subset
  <2>2. QED
    BY <1>1, <1>5, <2>1
<1>7. ASSUME NEW x \in S, NEW z \in S, <<x, z>> \in R
      PROVE  Cardinality(B(x)) < Cardinality(B(z))
  <2>1. B(x) \in SUBSET B(z) /\ B(x) # B(z) /\ IsFiniteSet(B(z))
    BY <1>2, <1>3, <1>5, <1>7
  <2>2. Cardinality(B(x)) <= Cardinality(B(z)) /\ Cardinality(B(x)) # Cardinality(B(z))
    BY <2>1, FS_Subset
  <2>3. QED
    BY <1>5, <2>2
<1>8. f \in [S -> 1 .. n] /\ \A x \in S : f[x] = Cardinality(B(x)) + 1
  <2>1. \A x \in S : Cardinality(B(x)) + 1 \in 1 .. n
    BY <1>1, <1>5, <1>6
  <2>2. QED
    BY <2>1
<1> HIDE DEF f
<1>9. \A x, y \in S : f[x] = f[y] => x = y
  <2> SUFFICES ASSUME NEW x \in S, NEW y \in S, x # y PROVE f[x] # f[y]
    OBVIOUS
  <2>1. Cardinality(B(x)) < Cardinality(B(y)) \/ Cardinality(B(y)) < Cardinality(B(x))
    BY <1>4, <1>7
  <2>2. QED
    BY <1>5, <1>8, <2>1
<1>10. f \in Surjection(S, 1 .. n)
  <2>1. IsFiniteSet(1 .. n) /\ Cardinality(1 .. n) = n
    BY <1>1, FS_Interval
  <2>2. f \in Injection(S, 1 .. n)
    BY <1>8, <1>9 DEF Injection, IsInjective
  <2>3. QED
    BY <2>1, <2>2, FS_Injection
<1>11. ASSUME NEW k \in 1 .. n PROVE \E x \in S : Cardinality(B(x)) = k - 1
  <2>1. PICK x \in S : f[x] = k
    BY <1>10 DEF Surjection
  <2>2. QED
    BY <1>5, <1>8, <2>1
<1>12. \A x \in S : Cardinality(B(x)) \in 0 .. n - 1
  BY <1>1, <1>5, <1>6
<1> USE DEF B
<1>13. QED
  BY <1>7, <1>11, <1>12

\* The elements of a set of numbers in order: each once.
LEMMA InOrderIs ==
  ASSUME NEW S \in SUBSET Int, IsFiniteSet(S)
  PROVE  /\ DOMAIN InOrder(S) = 1 .. Cardinality(S) /\ InOrder(S) \in Seq(S)
         /\ Len(InOrder(S)) = Cardinality(S)
         /\ ToSet(InOrder(S)) = S
         /\ \A i, j \in DOMAIN InOrder(S) : InOrder(S)[i] = InOrder(S)[j] => i = j
<1> DEFINE n == Cardinality(S)
           R == {p \in S \X S : p[1] < p[2]}
           B(x) == {y \in S : y < x}
<1>1. n \in Nat
  BY FS_CardinalityType
<1>2. \A x \in S : B(x) = {y \in S : <<y, x>> \in R}
  OBVIOUS
<1>3. /\ \A x \in S : <<x, x>> \notin R
      /\ \A x, y \in S : x # y => <<x, y>> \in R \/ <<y, x>> \in R
      /\ \A x, y, z \in S : <<x, y>> \in R /\ <<y, z>> \in R => <<x, z>> \in R
  OBVIOUS
<1>4. \A x, y \in S : x < y <=> <<x, y>> \in R
  OBVIOUS
<1>5. InOrder(S) = [k \in 1 .. n |-> CHOOSE x \in S : Cardinality(B(x)) = k - 1]
  BY DEF InOrder, Sorted
<1>6. /\ \A k \in 1 .. n : \E x \in S : Cardinality(B(x)) = k - 1
      /\ \A x, z \in S : <<x, z>> \in R => Cardinality(B(x)) < Cardinality(B(z))
      /\ \A x \in S : Cardinality(B(x)) \in 0 .. n - 1
  <2> DEFINE C(x) == {y \in S : <<y, x>> \in R}
  <2> HIDE DEF R
  <2>1. /\ \A k \in 1 .. n : \E x \in S : Cardinality(C(x)) = k - 1
        /\ \A x, z \in S : <<x, z>> \in R => Cardinality(C(x)) < Cardinality(C(z))
        /\ \A x \in S : Cardinality(C(x)) \in 0 .. n - 1
    BY <1>3, Ranked
  <2>2. \A x \in S : B(x) = C(x)
    BY <1>2
  <2> HIDE DEF B, C
  <2>3. QED
    BY <2>1, <2>2
<1> HIDE DEF R, B, n
<1> DEFINE o == InOrder(S)
<1>7. DOMAIN o = 1 .. n /\ \A k \in 1 .. n : o[k] \in S /\ Cardinality(B(o[k])) = k - 1
  BY <1>5, <1>6
<1>8. o \in Seq(S) /\ Len(o) = n
  <2>1. o \in [1 .. n -> S]
    BY <1>5, <1>7
  <2>2. QED
    BY <1>1, <2>1
<1>9. \A i, j \in 1 .. n : o[i] = o[j] => i = j
  <2> SUFFICES ASSUME NEW i \in 1 .. n, NEW j \in 1 .. n, o[i] = o[j] PROVE i = j
    OBVIOUS
  <2>1. i - 1 = j - 1
    BY <1>7
  <2>2. QED
    BY <2>1
<1>10. ASSUME NEW x \in S PROVE \E k \in 1 .. n : o[k] = x
  <2>1. Cardinality(B(x)) \in 0 .. n - 1
    BY <1>6
  <2> DEFINE k == Cardinality(B(x)) + 1
  <2>2. k \in 1 .. n /\ k - 1 = Cardinality(B(x))
    BY <1>1, <2>1
  <2>3. Cardinality(B(o[k])) = Cardinality(B(x)) /\ o[k] \in S
    BY <1>7, <2>2
  <2> HIDE DEF k, o
  <2>4. o[k] = x \/ <<o[k], x>> \in R \/ <<x, o[k]>> \in R
    BY <1>3, <2>3
  <2>5. ~ (Cardinality(B(x)) < Cardinality(B(x)))
    BY <2>1
  <2>7. o[k] = x
    BY <1>6, <2>3, <2>4, <2>5
  <2>6. QED
    BY <2>2, <2>7
<1>11. ToSet(o) = S
  BY <1>7, <1>8, <1>10 DEF ToSet
<1>12. QED
  BY <1>7, <1>8, <1>9, <1>11 DEF n

\* Where each element of a sequence comes from, which is the first n of seqs one after the
\* other.
IsPlacing(at, r, seqs, n) ==
  /\ \A g \in DOMAIN r : \E i \in 1 .. n : \E j \in DOMAIN seqs[i] :
       at[g] = <<i, j>> /\ r[g] = seqs[i][j]
  /\ \A g, h \in DOMAIN r : at[g] = at[h] => g = h
  /\ \A i \in 1 .. n : \A j \in DOMAIN seqs[i] : \E g \in DOMAIN r : at[g] = <<i, j>>

LEMMA PlacingStep ==
  ASSUME NEW T, NEW n \in Nat, NEW seqs, NEW s \in Seq(T), s = seqs[n + 1],
         NEW r \in Seq(T), NEW at, IsPlacing(at, r, seqs, n)
  PROVE  \E b : IsPlacing(b, r \o s, seqs, n + 1)
<1> DEFINE R == Len(r)
           S == Len(s)
           b == [g \in 1 .. R + S |-> IF g <= R THEN at[g] ELSE <<n + 1, g - R>>]
           rs == r \o s
<1>1. /\ R \in Nat /\ S \in Nat /\ DOMAIN r = 1 .. R /\ DOMAIN s = 1 .. S
      /\ DOMAIN rs = 1 .. R + S
      /\ \A g \in 1 .. R : rs[g] = r[g]
      /\ \A j \in 1 .. S : rs[j + R] = s[j]
  <2>1. R \in Nat /\ S \in Nat /\ DOMAIN r = 1 .. R /\ DOMAIN s = 1 .. S
    OBVIOUS
  <2>2. rs \in Seq(T) /\ Len(rs) = R + S
    OBVIOUS
  <2>3. \A g \in 1 .. R + S : rs[g] = IF g <= R THEN r[g] ELSE s[g - R]
    OBVIOUS
  <2>4. \A g \in 1 .. R : rs[g] = r[g]
    BY <2>1, <2>3
  <2>5. \A j \in 1 .. S : j + R \in 1 .. R + S /\ ~ (j + R <= R) /\ j + R - R = j
    BY <2>1
  <2>6. \A j \in 1 .. S : rs[j + R] = s[j]
    <3> HIDE DEF rs, R, S
    <3> SUFFICES ASSUME NEW j \in 1 .. S PROVE rs[j + R] = s[j]
      OBVIOUS
    <3> DEFINE g == j + R
    <3>1. g \in 1 .. R + S /\ ~ (g <= R) /\ g - R = j
      BY <2>1
    <3> HIDE DEF g
    <3>2. rs[g] = s[j]
      BY <2>3, <3>1
    <3>3. QED
      BY <3>2 DEF g
  <2>7. QED
    BY <2>1, <2>2, <2>4, <2>6
<1>2. /\ \A g \in 1 .. R : b[g] = at[g]
      /\ \A j \in 1 .. S : b[j + R] = <<n + 1, j>> /\ j + R \in 1 .. R + S
  <2> HIDE DEF R, S
  <2>1. \A g \in 1 .. R : g \in 1 .. R + S /\ g <= R
    BY <1>1
  <2>2. \A j \in 1 .. S : j + R \in 1 .. R + S /\ ~ (j + R <= R) /\ j + R - R = j
    BY <1>1
  <2>3. \A g \in 1 .. R + S : b[g] = IF g <= R THEN at[g] ELSE <<n + 1, g - R>>
    OBVIOUS
  <2> HIDE DEF b
  <2>4. \A g \in 1 .. R : b[g] = at[g]
    BY <2>1, <2>3
  <2>5. ASSUME NEW j \in 1 .. S PROVE b[j + R] = <<n + 1, j>>
    <3> DEFINE g == j + R
    <3>1. g \in 1 .. R + S /\ ~ (g <= R) /\ g - R = j
      BY <1>1
    <3> HIDE DEF g
    <3>2. b[g] = <<n + 1, j>>
      BY <2>3, <3>1
    <3>3. QED
      BY <3>2 DEF g
  <2>6. QED
    BY <2>2, <2>4, <2>5
<1>3. \A g \in 1 .. R + S : g \in 1 .. R \/ \E j \in 1 .. S : g = j + R
  <2> SUFFICES ASSUME NEW g \in 1 .. R + S, g \notin 1 .. R PROVE \E j \in 1 .. S : g = j + R
    OBVIOUS
  <2> HIDE DEF R, S
  <2>1. g - R \in 1 .. S /\ g = g - R + R
    BY <1>1
  <2>2. QED
    BY <2>1
<1> HIDE DEF b, rs, R, S
<1>4. 1 .. n + 1 = (1 .. n) \cup {n + 1} /\ n + 1 \notin 1 .. n
  OBVIOUS
<1>5. \A g \in 1 .. R + S : \E i \in 1 .. n + 1 : \E j \in DOMAIN seqs[i] :
        b[g] = <<i, j>> /\ rs[g] = seqs[i][j]
  <2> SUFFICES ASSUME NEW g \in 1 .. R + S
               PROVE  \E i \in 1 .. n + 1 : \E j \in DOMAIN seqs[i] :
                        b[g] = <<i, j>> /\ rs[g] = seqs[i][j]
    OBVIOUS
  <2>1. CASE g \in 1 .. R
    <3>1. PICK i \in 1 .. n : \E j \in DOMAIN seqs[i] : at[g] = <<i, j>> /\ r[g] = seqs[i][j]
      BY <1>1, <2>1 DEF IsPlacing
    <3>2. b[g] = at[g] /\ rs[g] = r[g] /\ i \in 1 .. n + 1
      BY <1>1, <1>2, <1>4, <2>1
    <3>3. QED
      BY <3>1, <3>2
  <2>2. CASE \E j \in 1 .. S : g = j + R
    <3>1. PICK j \in 1 .. S : g = j + R
      BY <2>2
    <3>2. b[g] = <<n + 1, j>> /\ rs[g] = seqs[n + 1][j]
      BY <1>1, <1>2, <3>1
    <3>3. n + 1 \in 1 .. n + 1 /\ j \in DOMAIN seqs[n + 1]
      BY <1>1, <1>4
    <3>4. QED
      BY <3>2, <3>3
  <2>3. QED
    BY <1>3, <2>1, <2>2
<1>6. \A g, h \in 1 .. R + S : b[g] = b[h] => g = h
  <2> SUFFICES ASSUME NEW g \in 1 .. R + S, NEW h \in 1 .. R + S, b[g] = b[h] PROVE g = h
    OBVIOUS
  <2>0. b[g] = b[h]
    OBVIOUS
  <2>1. \A k \in 1 .. R : \E i \in 1 .. n : \E j : b[k] = <<i, j>>
    <3> SUFFICES ASSUME NEW k \in 1 .. R PROVE \E i \in 1 .. n : \E j : b[k] = <<i, j>>
      OBVIOUS
    <3>0. /\ k \in DOMAIN r
          /\ \A x \in DOMAIN r : \E i \in 1 .. n : \E j \in DOMAIN seqs[i] :
               at[x] = <<i, j>> /\ r[x] = seqs[i][j]
      BY <1>1 DEF IsPlacing
    <3>1. PICK i \in 1 .. n : \E j \in DOMAIN seqs[i] : at[k] = <<i, j>>
      BY <3>0
    <3>2. b[k] = at[k]
      BY <1>2
    <3>3. QED
      BY <3>1, <3>2
  <2>2. CASE g \in 1 .. R /\ h \in 1 .. R
    BY <1>1, <1>2, <2>2, ZenonT(60) DEF IsPlacing
  <2>3. CASE g \in 1 .. R /\ h \notin 1 .. R
    <3>1. PICK j \in 1 .. S : h = j + R
      BY <1>3, <2>3
    <3>2. b[h] = <<n + 1, j>>
      BY <1>2, <3>1
    <3>3. PICK i \in 1 .. n : \E k : b[g] = <<i, k>>
      BY <2>1, <2>3
    <3>4. PICK k : b[g] = <<i, k>>
      BY <3>3
    <3>5. <<i, k>> = <<n + 1, j>>
      BY <2>0, <3>2, <3>4
    <3>6. QED
      BY <1>4, <3>5
  <2>4. CASE g \notin 1 .. R /\ h \in 1 .. R
    <3>1. PICK j \in 1 .. S : g = j + R
      BY <1>3, <2>4
    <3>2. b[g] = <<n + 1, j>>
      BY <1>2, <3>1
    <3>3. PICK i \in 1 .. n : \E k : b[h] = <<i, k>>
      BY <2>1, <2>4
    <3>4. PICK k : b[h] = <<i, k>>
      BY <3>3
    <3>5. <<i, k>> = <<n + 1, j>>
      BY <2>0, <3>2, <3>4
    <3>6. QED
      BY <1>4, <3>5
  <2>5. CASE g \notin 1 .. R /\ h \notin 1 .. R
    <3>1. PICK j \in 1 .. S, k \in 1 .. S : g = j + R /\ h = k + R
      BY <1>3, <2>5
    <3>2. <<n + 1, j>> = <<n + 1, k>>
      BY <1>2, <3>1
    <3>3. j = k
      BY <3>2
    <3>4. QED
      BY <3>1, <3>3
  <2>6. QED
    BY <2>2, <2>3, <2>4, <2>5
<1>7. \A i \in 1 .. n + 1 : \A j \in DOMAIN seqs[i] : \E g \in 1 .. R + S : b[g] = <<i, j>>
  <2> SUFFICES ASSUME NEW i \in 1 .. n + 1, NEW j \in DOMAIN seqs[i]
               PROVE  \E g \in 1 .. R + S : b[g] = <<i, j>>
    OBVIOUS
  <2>1. CASE i \in 1 .. n
    <3>1. PICK g \in 1 .. R : at[g] = <<i, j>>
      BY <1>1, <2>1 DEF IsPlacing
    <3>2. g \in 1 .. R + S
      BY <1>1
    <3>3. QED
      BY <1>2, <3>1, <3>2
  <2>2. CASE i = n + 1
    BY <1>1, <1>2, <2>2
  <2>3. QED
    BY <1>4, <2>1, <2>2
<1>8. IsPlacing(b, rs, seqs, n + 1)
  BY <1>1, <1>5, <1>6, <1>7 DEF IsPlacing
<1>9. QED
  BY <1>8 DEF rs

\* FlattenSeq: each element of each sequence, once.
LEMMA FlattenPlaces ==
  ASSUME NEW T, NEW m \in Nat, NEW seqs \in [1 .. m -> Seq(T)]
  PROVE  FlattenSeq(seqs) \in Seq(T) /\ \E at : IsPlacing(at, FlattenSeq(seqs), seqs, m)
<1> DEFINE Body(f) == [i \in 1 .. m |-> IF i = 1 THEN seqs[i] ELSE f[i - 1] \o seqs[i]]
           flat == CHOOSE f : f = Body(f)
           Good(n, g) == /\ g \in [1 .. n -> Seq(T)]
                         /\ \A i \in 1 .. n : g[i] = IF i = 1 THEN seqs[i] ELSE g[i - 1] \o seqs[i]
<1>1. Len(seqs) = m
  OBVIOUS
<1>2. CASE m = 0
  <2>1. FlattenSeq(seqs) = seqs /\ DOMAIN seqs = {} /\ seqs = <<>>
    BY <1>1, <1>2 DEF FlattenSeq
  <2>2. IsPlacing(<<>>, seqs, seqs, m)
    BY <1>2, <2>1 DEF IsPlacing
  <2>3. QED
    BY <2>1, <2>2
<1>3. CASE m # 0
  <2>1. FlattenSeq(seqs) = flat[m]
    BY <1>1, <1>3 DEF FlattenSeq
  <2>2. \A n \in Nat : n <= m => \E g : Good(n, g)
    <3> DEFINE N == {n \in Nat : n <= m => \E g : Good(n, g)}
    <3>1. 0 \in N
      <4> DEFINE g == [i \in 1 .. 0 |-> <<>>]
      <4>1. Good(0, g)
        OBVIOUS
      <4> HIDE DEF Good
      <4>2. QED
        BY <4>1
    <3>2. ASSUME NEW n \in N PROVE n + 1 \in N
      <4>0. n \in Nat /\ (n <= m => \E g : Good(n, g))
        OBVIOUS
      <4>9. SUFFICES ASSUME n + 1 <= m PROVE \E g : Good(n + 1, g)
        <5> HIDE DEF Good
        <5>1. QED
          BY <4>0
      <4>1. n \in Nat /\ n <= m
        BY <4>0, <4>9
      <4>2. PICK g : Good(n, g)
        BY <4>0, <4>1
      <4> DEFINE x == IF n = 0 THEN seqs[1] ELSE g[n] \o seqs[n + 1]
                 h == [i \in 1 .. n + 1 |-> IF i = n + 1 THEN x ELSE g[i]]
      <4>3. x \in Seq(T)
        <5>1. CASE n = 0
          BY <1>3, <5>1
        <5>2. CASE n # 0
          <6>1. g[n] \in Seq(T) /\ seqs[n + 1] \in Seq(T)
            BY <4>1, <4>2, <4>9, <5>2
          <6>2. QED
            BY <5>2, <6>1
        <5>3. QED
          BY <5>1, <5>2
      <4> HIDE DEF x
      <4>4. \A i \in 1 .. n : i \in 1 .. n + 1 /\ i # n + 1 /\ h[i] = g[i]
        BY <4>1
      <4>5. h \in [1 .. n + 1 -> Seq(T)] /\ h[n + 1] = x
        BY <4>1, <4>2, <4>3
      <4> HIDE DEF h
      <4>6. ASSUME NEW i \in 1 .. n + 1
            PROVE  h[i] = IF i = 1 THEN seqs[i] ELSE h[i - 1] \o seqs[i]
        <5>1. CASE i = n + 1 /\ n = 0
          <6>1. x = seqs[1] /\ i = 1
            BY <5>1 DEF x
          <6>2. QED
            BY <4>5, <5>1, <6>1
        <5>2. CASE i = n + 1 /\ n # 0
          <6>1. i - 1 = n /\ n \in 1 .. n /\ i # 1
            BY <4>1, <5>2
          <6>2. x = g[n] \o seqs[n + 1]
            BY <5>2 DEF x
          <6>3. QED
            BY <4>4, <4>5, <5>2, <6>1, <6>2
        <5>3. CASE i # n + 1
          <6>1. i \in 1 .. n
            BY <4>1, <5>3
          <6>2. i # 1 => i - 1 \in 1 .. n
            BY <4>1, <6>1
          <6>3. QED
            BY <4>2, <4>4, <6>1, <6>2
        <5>4. QED
          BY <5>1, <5>2, <5>3
      <4>7. Good(n + 1, h)
        BY <4>5, <4>6
      <4> HIDE DEF Good
      <4>8. QED
        BY <4>7
    <3>3. N = Nat
      <4>1. N \in SUBSET Nat
        OBVIOUS
      <4> HIDE DEF N
      <4>2. QED
        BY <3>1, <3>2, <4>1, NatAll
    <3> HIDE DEF Good
    <3>4. QED
      BY <3>3
  <2>3. PICK g : Good(m, g)
    <3> HIDE DEF Good
    <3>1. m <= m
      OBVIOUS
    <3>2. QED
      BY <2>2, <3>1
  <2>4. g = Body(g)
    BY <2>3
  <2>5. flat = Body(flat)
    <3> HIDE DEF Body
    <3>1. QED
      BY <2>4
  <2>6. \A i \in 1 .. m : flat[i] = IF i = 1 THEN seqs[i] ELSE flat[i - 1] \o seqs[i]
    BY <2>5
  <2> HIDE DEF flat
  <2> DEFINE Done(n) == flat[n] \in Seq(T) /\ \E at : IsPlacing(at, flat[n], seqs, n)
             N == {n \in Nat : n + 1 <= m => Done(n + 1)}
  <2>7. 0 \in N
    <3>1. 1 \in 1 .. m /\ flat[1] = seqs[1] /\ seqs[1] \in Seq(T)
      BY <1>3, <2>6
    <3> DEFINE at == [j \in DOMAIN seqs[1] |-> <<1, j>>]
    <3>2. IsPlacing(at, flat[1], seqs, 1)
      <4>1. \A i \in 1 .. 1 : i = 1
        OBVIOUS
      <4>2. 1 \in 1 .. 1
        OBVIOUS
      <4>3. \A j, k \in DOMAIN seqs[1] : <<1, j>> = <<1, k>> => j = k
        OBVIOUS
      <4>4. \A j \in DOMAIN seqs[1] : at[j] = <<1, j>>
        OBVIOUS
      <4> HIDE DEF at
      <4>5. QED
        BY <3>1, <4>1, <4>2, <4>3, <4>4 DEF IsPlacing
    <3>3. QED
      BY <3>1, <3>2
  <2>8. ASSUME NEW n \in N PROVE n + 1 \in N
    <3> SUFFICES ASSUME n + 1 + 1 <= m PROVE Done(n + 1 + 1)
      OBVIOUS
    <3>1. n \in Nat /\ n + 1 <= m /\ n + 1 \in Nat
      OBVIOUS
    <3>2. Done(n + 1)
      BY <3>1
    <3>3. PICK at : IsPlacing(at, flat[n + 1], seqs, n + 1)
      BY <3>2
    <3>4. n + 1 + 1 \in 1 .. m /\ n + 1 + 1 # 1 /\ n + 1 + 1 - 1 = n + 1
      BY <3>1
    <3>10. PICK i \in 1 .. m : i = n + 1 + 1 /\ i # 1 /\ i - 1 = n + 1
      BY <3>4
    <3>9. flat[i] = flat[i - 1] \o seqs[i] /\ seqs[i] \in Seq(T)
      BY <2>6, <3>10
    <3>5. /\ flat[n + 1 + 1] = flat[n + 1] \o seqs[n + 1 + 1]
          /\ seqs[n + 1 + 1] \in Seq(T) /\ flat[n + 1] \in Seq(T)
      BY <3>2, <3>9, <3>10
    <3>6. \E b : IsPlacing(b, flat[n + 1] \o seqs[n + 1 + 1], seqs, n + 1 + 1)
      BY <3>1, <3>3, <3>5, PlacingStep
    <3>7. flat[n + 1 + 1] \in Seq(T)
      BY <3>5
    <3>8. QED
      BY <3>5, <3>6, <3>7
  <2>9. N = Nat
    <3>1. N \in SUBSET Nat
      OBVIOUS
    <3> HIDE DEF N
    <3>2. QED
      BY <2>7, <2>8, <3>1, NatAll
  <2>10. Done(m)
    <3>1. m - 1 \in Nat /\ m - 1 + 1 = m
      BY <1>3
    <3>2. m - 1 \in N
      BY <2>9, <3>1
    <3>3. m - 1 + 1 <= m => Done(m - 1 + 1)
      BY <3>2
    <3> HIDE DEF Done
    <3>4. QED
      BY <3>1, <3>3
  <2>11. QED
    BY <2>1, <2>10
<1>4. QED
  BY <1>2, <1>3

-----------------------------------------------------------------------------
\* Division: quotients, multiples, round-ups, and every k-th element of a sequence.

LEMMA DivIs ==
  ASSUME NEW a \in Int, NEW b \in Nat \ {0}
  PROVE  /\ a \div b \in Int /\ a % b \in 0 .. b - 1
         /\ a = b * (a \div b) + (a % b)
         /\ b * (a \div b) <= a
         /\ a < b * (a \div b) + b
         /\ a \in Nat => a \div b \in Nat
<1>1. /\ a \div b \in Int /\ a % b \in 0 .. b - 1
      /\ a = b * (a \div b) + (a % b)
  <2>1. a \div b \in Int
    OBVIOUS
  <2>2. a % b \in 0 .. b - 1
    OBVIOUS
  <2>3. a = b * (a \div b) + (a % b)
    OBVIOUS
  <2>4. QED
    BY <2>1, <2>2, <2>3
<1>2. a \in Nat => a \div b \in Nat
  OBVIOUS
<1>3. b * (a \div b) \in Int
  BY <1>1
<1>4. QED
  BY <1>1, <1>2, <1>3

LEMMA Times ==
  /\ \A a, b, c \in Int : c >= 0 /\ a <= b => a * c <= b * c
  /\ \A a, b, c \in Int : c > 0 /\ a * c < b * c => a < b
  /\ \A a, b, c \in Int : c > 0 /\ a * c <= b * c => a <= b
  /\ \A a, b, c \in Int : (a + b) * c = a * c + b * c
  /\ \A a, b, c \in Int : (a - b) * c = a * c - b * c
  /\ \A a, b \in Int : a * b = b * a /\ a * b \in Int
  /\ \A a \in Int : 1 * a = a
  /\ \A a, b, c \in Int : a * (b * c) = (a * b) * c
  /\ \A a, b \in Nat : a * b \in Nat
  /\ \A a, b \in Nat \ {0} : a * b \in Nat \ {0}
<1>1. \A a, b, c \in Int : (a - b) * c = a * c - b * c
  OBVIOUS
<1>2. \A a, b \in Int : a >= 0 /\ b >= 0 => a * b >= 0
  OBVIOUS
<1>3. ASSUME NEW a \in Int, NEW b \in Int, NEW c \in Int, c >= 0, a <= b PROVE a * c <= b * c
  <2>1. b - a \in Int /\ b - a >= 0
    BY <1>3
  <2>2. (b - a) * c >= 0
    BY <1>2, <1>3, <2>1
  <2>3. (b - a) * c = b * c - a * c
    BY <1>1
  <2>4. a * c \in Int /\ b * c \in Int
    OBVIOUS
  <2>5. b * c - a * c >= 0
    BY <2>2, <2>3
  <2>6. QED
    BY <2>4, <2>5
<1>4. ASSUME NEW a \in Int, NEW b \in Int, NEW c \in Int, c > 0, a * c < b * c PROVE a < b
  <2>1. SUFFICES ASSUME b <= a PROVE FALSE
    OBVIOUS
  <2>2. b * c <= a * c
    BY <1>3, <1>4, <2>1
  <2>3. a * c \in Int /\ b * c \in Int
    OBVIOUS
  <2>4. QED
    BY <1>4, <2>2, <2>3
<1>5. ASSUME NEW a \in Int, NEW b \in Int, NEW c \in Int, c > 0, a * c <= b * c PROVE a <= b
  <2>1. SUFFICES ASSUME b + 1 <= a PROVE FALSE
    OBVIOUS
  <2>2. (b + 1) * c <= a * c
    BY <1>3, <1>5, <2>1
  <2>3. (b + 1) * c = b * c + c
    OBVIOUS
  <2>4. a * c \in Int /\ b * c \in Int
    OBVIOUS
  <2>5. QED
    BY <1>5, <2>2, <2>3, <2>4
<1>6. \A a, b \in Nat : a * b \in Nat
  OBVIOUS
<1>7. \A a, b \in Nat \ {0} : a * b \in Nat \ {0}
  OBVIOUS
<1>8. QED
  BY <1>1, <1>3, <1>4, <1>5, <1>6, <1>7

LEMMA QuotientIs ==
  ASSUME NEW a \in Int, NEW b \in Nat \ {0}, NEW q \in Int
  PROVE  /\ b * q <= a /\ a < b * q + b => a \div b = q
         /\ q <= a \div b <=> q * b <= a
         /\ a \div b < q <=> a < q * b
<1> DEFINE d == a \div b
<1>1. d \in Int /\ b * d <= a /\ a < b * d + b
  BY DivIs
<1> HIDE DEF d
<1>2. b \in Int /\ b > 0 /\ b * d = d * b /\ b * q = q * b /\ d * b \in Int /\ q * b \in Int
  BY <1>1
<1>3. (d + 1) * b = d * b + b /\ (q + 1) * b = q * b + b
  BY <1>1, <1>2, Times
<1>4. q <= d => q * b <= a
  <2> SUFFICES ASSUME q <= d PROVE q * b <= a
    OBVIOUS
  <2>1. q * b <= d * b
    BY <1>1, <1>2, Times
  <2>2. QED
    BY <1>1, <1>2, <2>1
<1>5. q * b <= a => q <= d
  <2> SUFFICES ASSUME q * b <= a PROVE q <= d
    OBVIOUS
  <2>1. q * b < (d + 1) * b
    BY <1>1, <1>2, <1>3
  <2> DEFINE e == d + 1
  <2>2. e \in Int
    BY <1>1
  <2>3. q < e
    <3> HIDE DEF e
    <3>1. q * b < e * b
      BY <2>1 DEF e
    <3>2. QED
      BY <1>2, <2>2, <3>1, Times
  <2>4. QED
    BY <1>1, <2>3
<1>6. b * q <= a /\ a < b * q + b => d = q
  <2> SUFFICES ASSUME b * q <= a, a < b * q + b PROVE d = q
    OBVIOUS
  <2>1. q <= d
    BY <1>2, <1>5
  <2>2. d * b < (q + 1) * b
    BY <1>1, <1>2, <1>3
  <2> DEFINE e == q + 1
  <2>3. e \in Int
    OBVIOUS
  <2>4. d < e
    <3> HIDE DEF e
    <3>1. d * b < e * b
      BY <2>2 DEF e
    <3>2. QED
      BY <1>1, <1>2, <2>3, <3>1, Times
  <2>5. QED
    BY <1>1, <2>1, <2>4
<1>7. d < q <=> a < q * b
  BY <1>1, <1>2, <1>4, <1>5
<1>8. QED
  BY <1>4, <1>5, <1>6, <1>7 DEF d

LEMMA MultipleIs ==
  ASSUME NEW n \in Nat \ {0}, NEW q \in Int
  PROVE  (n * q) % n = 0 /\ (n * q) \div n = q
<1> DEFINE a == n * q
<1>1. a \in Int /\ n * q <= a /\ a < n * q + n
  OBVIOUS
<1> HIDE DEF a
<1>2. a \div n = q
  BY <1>1, QuotientIs
<1>3. a = n * (a \div n) + (a % n) /\ a % n \in 0 .. n - 1
  BY <1>1, DivIs
<1>4. a = n * q
  BY DEF a
<1> DEFINE r == a % n
<1>5. r \in Int /\ a = n * q + r
  BY <1>2, <1>3
<1> HIDE DEF r
<1>6. n * q \in Int
  OBVIOUS
<1>7. r = 0
  BY <1>4, <1>5, <1>6
<1>8. QED
  BY <1>2, <1>7 DEF a, r

LEMMA DivDiv ==
  ASSUME NEW a \in Int, NEW b \in Nat \ {0}, NEW c \in Nat \ {0}
  PROVE  (a \div b) \div c = a \div (b * c)
<1> DEFINE d == a \div b
           e == d \div c
           n == b * c
<1>1. n \in Nat \ {0}
  BY Times
<1>2. d \in Int /\ b * d <= a /\ a < b * d + b
  BY DivIs
<1> HIDE DEF d
<1>3. e \in Int /\ c * e <= d /\ d < c * e + c
  BY <1>2, DivIs
<1> HIDE DEF e
<1>4. e <= d \div c /\ d \div c < e + 1
  BY <1>2, <1>3 DEF e
<1>5. e * c <= d
  BY <1>3
<1>6. (e * c) * b <= d * b
  <2> DEFINE x == e * c
  <2>1. x \in Int /\ x <= d
    BY <1>3, <1>5
  <2> HIDE DEF x
  <2>2. x * b <= d * b
    BY <1>2, <2>1, Times
  <2>3. QED
    BY <2>2 DEF x
<1>7. e * n = (e * c) * b /\ e * n \in Int
  <2>1. e * n = e * (c * b)
    BY <1>3 DEF n
  <2>2. e * (c * b) = (e * c) * b
    BY <1>3, Times
  <2>3. e * n \in Int
    BY <1>1, <1>3
  <2>4. QED
    BY <2>1, <2>2, <2>3
<1>8. e * n <= a
  <2>1. d * b = b * d /\ d * b \in Int
    BY <1>2
  <2>2. QED
    BY <1>2, <1>6, <1>7, <2>1
<1>9. a < (e + 1) * n
  <2> DEFINE f == (e + 1) * c
             g == d + 1
  <2>1. f \in Int /\ g \in Int /\ g <= f
    <3>1. (e + 1) * c = c * e + c
      BY <1>3
    <3>2. c * e \in Int
      BY <1>3
    <3>3. QED
      BY <1>2, <1>3, <3>1, <3>2
  <2>2. g * b = b * d + b
    BY <1>2
  <2> HIDE DEF f, g
  <2>3. g * b <= f * b
    BY <2>1, Times
  <2>4. f * b \in Int /\ g * b \in Int /\ b * d \in Int
    BY <1>2, <2>1
  <2>5. a < f * b
    BY <1>2, <2>2, <2>3, <2>4
  <2>6. (e + 1) * n = f * b
    <3> DEFINE h == e + 1
    <3>1. h \in Int
      BY <1>3
    <3> HIDE DEF h
    <3>2. h * n = h * (c * b)
      BY <3>1 DEF n
    <3>3. h * (c * b) = (h * c) * b
      BY <3>1, Times
    <3>4. QED
      BY <3>2, <3>3 DEF f, h
  <2>7. QED
    BY <2>5, <2>6
<1> DEFINE h == e + 1
<1>10. h \in Int /\ a < h * n
  BY <1>3, <1>9
<1> HIDE DEF h, n
<1>11. e <= a \div n /\ a \div n < h
  BY <1>1, <1>3, <1>8, <1>10, QuotientIs
<1>12. a \div n \in Int
  BY <1>1
<1> HIDE DEF n
<1>13. a \div n = e
  BY <1>3, <1>11, <1>12 DEF h
<1>14. QED
  BY <1>13 DEF e, d, n

LEMMA CeilIs ==
  ASSUME NEW a \in Nat, NEW b \in Nat \ {0}
  PROVE  /\ CeilDiv(a, b) \in Nat
         /\ a <= CeilDiv(a, b) * b
         /\ \A j \in Int : j <= CeilDiv(a, b) <=> (j - 1) * b < a
         /\ CeilDiv(a, b) <= a
         /\ a # 0 => CeilDiv(a, b) # 0
<1> DEFINE c == CeilDiv(a, b)
<1>1. c \in Nat /\ c * b <= a + b - 1 /\ a + b - 1 < c * b + b
  <2> DEFINE x == a + b - 1
  <2>1. x \in Nat
    OBVIOUS
  <2>2. c = x \div b
    BY DEF CeilDiv
  <2> HIDE DEF c, x
  <2>3. c \in Nat /\ b * c <= x /\ x < b * c + b
    BY <2>1, <2>2, DivIs
  <2>4. b * c = c * b
    BY <2>3, Times
  <2>5. QED
    BY <2>3, <2>4 DEF x
<1> HIDE DEF c
<1>2. c * b \in Int
  BY <1>1
<1>3. a <= c * b
  BY <1>1, <1>2
<1>4. ASSUME NEW j \in Int PROVE j <= c <=> (j - 1) * b < a
  <2>1. (j - 1) * b = j * b - b /\ j * b \in Int
    OBVIOUS
  <2>2. CASE j <= c
    <3>1. j * b <= c * b
      BY <1>1, <2>2, Times
    <3>2. QED
      BY <1>1, <1>2, <2>1, <2>2, <3>1
  <2>3. CASE (j - 1) * b < a
    <3>1. (j - 1) * b < c * b
      BY <1>2, <1>3, <2>1, <2>3
    <3>2. j - 1 < c
      BY <1>1, <3>1, Times
    <3>3. QED
      BY <1>1, <2>3, <3>2
  <2>4. QED
    BY <2>2, <2>3
<1>5. c <= a
  <2>1. SUFFICES ASSUME a + 1 <= c PROVE FALSE
    BY <1>1
  <2>2. (a + 1 - 1) * b < a
    BY <1>4, <2>1
  <2>3. a * b < a * 1
    BY <2>2
  <2>4. 1 * a <= b * a /\ b * a = a * b
    BY Times
  <2>5. a * b \in Int
    OBVIOUS
  <2>6. QED
    BY <2>3, <2>4, <2>5
<1>6. a # 0 => c # 0
  BY <1>3
<1>7. QED
  BY <1>1, <1>3, <1>4, <1>5, <1>6 DEF c

\* A sequence dealt over k: each place is dealt once.
LEMMA StrideIs ==
  ASSUME NEW T, NEW s \in Seq(T), NEW k \in Nat \ {0}
  PROVE  /\ \A i \in 1 .. k : Stride(s, i, k) \in Seq(T)
         /\ \A i \in 1 .. k : i <= Len(s) => Stride(s, i, k) # <<>>
         /\ \A i \in 1 .. k : \A j \in DOMAIN Stride(s, i, k) :
              /\ i + (j - 1) * k \in 1 .. Len(s)
              /\ Stride(s, i, k)[j] = s[i + (j - 1) * k]
         /\ \A q \in 1 .. Len(s) : \E i \in 1 .. k : \E j \in DOMAIN Stride(s, i, k) :
              i + (j - 1) * k = q
         /\ \A i, h \in 1 .. k : \A j \in DOMAIN Stride(s, i, k), l \in DOMAIN Stride(s, h, k) :
              i + (j - 1) * k = h + (l - 1) * k => i = h /\ j = l
<1> DEFINE n == Len(s)
           m(i) == CeilDiv(n - i + 1, k)
<1>1. n \in Nat /\ DOMAIN s = 1 .. n /\ \A q \in 1 .. n : s[q] \in T
  OBVIOUS
<1> HIDE DEF n
<1>2. ASSUME NEW i \in 1 .. k
      PROVE  m(i) \in Nat /\ \A j \in Nat : j >= 1 => (j <= m(i) <=> i + (j - 1) * k <= n)
  <2>1. CASE i <= n
    <3> DEFINE a == n - i + 1
    <3>1. a \in Nat
      BY <1>1, <2>1
    <3>2. m(i) = CeilDiv(a, k)
      OBVIOUS
    <3> HIDE DEF a
    <3>3. m(i) \in Nat /\ \A j \in Int : j <= m(i) <=> (j - 1) * k < a
      BY <3>1, <3>2, CeilIs
    <3>4. ASSUME NEW j \in Nat PROVE (j - 1) * k < a <=> i + (j - 1) * k <= n
      <4>1. (j - 1) * k \in Int
        OBVIOUS
      <4>2. QED
        BY <1>1, <4>1 DEF a
    <3>5. \A j \in Nat : j <= m(i) <=> i + (j - 1) * k <= n
      <4> HIDE DEF m
      <4> SUFFICES ASSUME NEW j \in Nat PROVE j <= m(i) <=> i + (j - 1) * k <= n
        OBVIOUS
      <4>1. j <= m(i) <=> (j - 1) * k < a
        BY <3>3
      <4>2. QED
        BY <3>4, <4>1
    <3>6. QED
      BY <3>3, <3>5
  <2>2. CASE ~ (i <= n)
    <3>1. n - i + 1 + k - 1 \in Nat /\ n - i + 1 + k - 1 < k
      BY <1>1, <2>2
    <3>2. m(i) = (n - i + 1 + k - 1) \div k
      BY DEF CeilDiv
    <3>3. \A x \in Nat : x < k => x \div k = 0
      OBVIOUS
    <3>4. m(i) = 0
      BY <3>1, <3>2, <3>3
    <3>5. ASSUME NEW j \in Nat, j >= 1 PROVE ~ (i + (j - 1) * k <= n)
      <4>1. j - 1 \in Nat
        BY <3>5
      <4>2. (j - 1) * k \in Nat
        BY <4>1, Times
      <4>3. QED
        BY <1>1, <2>2, <4>2
    <3>6. QED
      BY <3>4, <3>5
  <2>3. QED
    BY <2>1, <2>2
<1>3. ASSUME NEW i \in 1 .. k
      PROVE  /\ Stride(s, i, k) = [j \in 1 .. m(i) |-> s[i + (j - 1) * k]]
             /\ DOMAIN Stride(s, i, k) = 1 .. m(i)
  BY DEF Stride, n
<1> HIDE DEF m
<1>4. ASSUME NEW i \in 1 .. k, NEW j \in 1 .. m(i)
      PROVE  i + (j - 1) * k \in 1 .. n
  <2>1. i + (j - 1) * k <= n
    BY <1>2
  <2>2. j - 1 \in Nat
    BY <1>2
  <2>3. (j - 1) * k \in Nat
    BY <2>2, Times
  <2>4. QED
    BY <1>1, <2>1, <2>3
<1>5. ASSUME NEW i \in 1 .. k
      PROVE  /\ Stride(s, i, k) \in Seq(T)
             /\ \A j \in 1 .. m(i) : Stride(s, i, k)[j] = s[i + (j - 1) * k]
             /\ i <= n => Stride(s, i, k) # <<>>
  <2>0. m(i) \in Nat
    BY <1>2
  <2>1. \A j \in 1 .. m(i) : s[i + (j - 1) * k] \in T
    BY <1>1, <1>4
  <2>2. Stride(s, i, k) \in [1 .. m(i) -> T]
    BY <1>3, <2>1
  <2>3. Stride(s, i, k) \in Seq(T)
    BY <2>0, <2>2
  <2>4. i <= n => 1 <= m(i)
    <3>1. 1 \in Nat /\ (1 - 1) * k = 0
      OBVIOUS
    <3>2. 1 <= m(i) <=> i + (1 - 1) * k <= n
      BY <1>2, <3>1
    <3>3. QED
      BY <1>1, <3>1, <3>2
  <2>5. i <= n => DOMAIN Stride(s, i, k) # {}
    <3>1. i <= n => 1 \in 1 .. m(i)
      BY <2>0, <2>4
    <3>2. QED
      BY <1>3, <3>1
  <2>6. \A j \in 1 .. m(i) : Stride(s, i, k)[j] = s[i + (j - 1) * k]
    BY <1>3
  <2>7. i <= n => Stride(s, i, k) # <<>>
    BY <2>3, <2>5
  <2>8. QED
    BY <2>3, <2>6, <2>7
<1>6. ASSUME NEW q \in 1 .. n PROVE \E i \in 1 .. k : \E j \in 1 .. m(i) : i + (j - 1) * k = q
  <2> DEFINE x == q - 1
             y == x \div k
             i == (x % k) + 1
             j == y + 1
  <2>1. x \in Nat /\ x + 1 = q
    OBVIOUS
  <2> HIDE DEF x
  <2>2. y \in Nat /\ x % k \in 0 .. k - 1 /\ x = k * y + (x % k)
    <3>1. x \in Int
      BY <2>1
    <3>2. y \in Nat
      BY <2>1, <3>1, DivIs
    <3>3. x % k \in 0 .. k - 1
      BY <3>1, DivIs
    <3>4. x = k * y + (x % k)
      BY <3>1, DivIs, Zenon
    <3>5. QED
      BY <3>2, <3>3, <3>4
  <2> HIDE DEF y
  <2>3. i \in 1 .. k /\ j \in Nat /\ j >= 1 /\ j - 1 = y
    BY <2>2, SMTT(30)
  <2>4. k * y = (j - 1) * k /\ (j - 1) * k \in Int
    BY <2>2, <2>3, Times
  <2>5. i + (j - 1) * k = q
    BY <2>1, <2>2, <2>4
  <2> HIDE DEF i, j
  <2>6. i + (j - 1) * k <= n
    BY <1>1, <2>5
  <2>7. j <= m(i) /\ m(i) \in Nat
    BY <1>2, <2>3, <2>6
  <2>8. j \in 1 .. m(i)
    BY <2>3, <2>7
  <2>9. QED
    BY <2>3, <2>5, <2>8
<1>7. ASSUME NEW i \in 1 .. k, NEW h \in 1 .. k, NEW j \in Nat, NEW l \in Nat,
             i + (j - 1) * k = h + (l - 1) * k
      PROVE  i = h /\ j = l
  <2>1. ASSUME NEW x \in 1 .. k, NEW y \in 1 .. k, NEW a \in Nat, NEW b \in Nat, a < b,
               x + (a - 1) * k = y + (b - 1) * k
        PROVE  FALSE
    <3>1. (a - 1 + 1) * k <= (b - 1) * k
      BY <2>1, Times
    <3>2. (a - 1 + 1) * k = (a - 1) * k + k
      OBVIOUS
    <3>3. (a - 1) * k \in Int /\ (b - 1) * k \in Int
      OBVIOUS
    <3>4. QED
      BY <2>1, <3>1, <3>2, <3>3
  <2>2. ~ (j < l) /\ ~ (l < j)
    BY <1>7, <2>1
  <2>3. j = l
    BY <2>2
  <2>4. (j - 1) * k \in Int
    OBVIOUS
  <2>5. i = h
    BY <1>7, <2>3, <2>4
  <2>6. QED
    BY <2>3, <2>5
<1>8. ASSUME NEW i \in 1 .. k, NEW j \in DOMAIN Stride(s, i, k)
      PROVE  j \in Nat /\ j \in 1 .. m(i)
  <2>1. m(i) \in Nat /\ DOMAIN Stride(s, i, k) = 1 .. m(i)
    BY <1>2, <1>3
  <2>2. QED
    BY <2>1
<1>9. \A i \in 1 .. k : \A j \in DOMAIN Stride(s, i, k) :
        /\ i + (j - 1) * k \in 1 .. n
        /\ Stride(s, i, k)[j] = s[i + (j - 1) * k]
  BY <1>4, <1>5, <1>8
<1>10. \A q \in 1 .. n : \E i \in 1 .. k : \E j \in DOMAIN Stride(s, i, k) : i + (j - 1) * k = q
  BY <1>3, <1>6
<1>11. \A i, h \in 1 .. k : \A j \in DOMAIN Stride(s, i, k), l \in DOMAIN Stride(s, h, k) :
         i + (j - 1) * k = h + (l - 1) * k => i = h /\ j = l
  <2> SUFFICES ASSUME NEW i \in 1 .. k, NEW h \in 1 .. k,
                      NEW j \in DOMAIN Stride(s, i, k), NEW l \in DOMAIN Stride(s, h, k),
                      i + (j - 1) * k = h + (l - 1) * k
               PROVE  i = h /\ j = l
    OBVIOUS
  <2>1. j \in Nat /\ l \in Nat
    BY <1>8
  <2>2. QED
    BY <1>7, <2>1
<1>12. QED
  BY <1>5, <1>9, <1>10, <1>11 DEF n

-----------------------------------------------------------------------------
\* What a group is: layers in order, of specs that plan alike.  Grouping by pages and
\* by types of layer (the general path of get_kv_cache_groups) makes such groups of all
\* the layers, no layer in two.

IsOrder(R, S) ==
  /\ \A x \in S : <<x, x>> \notin R
  /\ \A x, y \in S : x # y => <<x, y>> \in R \/ <<y, x>> \in R
  /\ \A x, y, z \in S : <<x, y>> \in R /\ <<y, z>> \in R => <<x, z>> \in R

\* The elements of S in a sequence, each at its rank, if each rank has an element.
IsRanking(o, R, S) ==
  (\A k \in 1 .. Cardinality(S) :
     \E x \in S : Cardinality({y \in S : <<y, x>> \in R}) = k - 1) =>
    /\ o \in [1 .. Cardinality(S) -> S]
    /\ \A k \in 1 .. Cardinality(S) : Cardinality({y \in S : <<y, o[k]>> \in R}) = k - 1

\* A sequence of a set's elements by their rank has each of them once.
LEMMA ByRank ==
  ASSUME NEW S, IsFiniteSet(S), NEW R, IsOrder(R, S), NEW o, IsRanking(o, R, S)
  PROVE  /\ Cardinality(S) \in Nat /\ o \in Seq(S) /\ Len(o) = Cardinality(S)
         /\ \A x \in S : \E k \in 1 .. Cardinality(S) : o[k] = x
         /\ \A i, j \in 1 .. Cardinality(S) : o[i] = o[j] => i = j
<1> DEFINE n == Cardinality(S)
           B(x) == {y \in S : <<y, x>> \in R}
<1>1. n \in Nat
  BY FS_CardinalityType
<1>2. /\ \A k \in 1 .. n : \E x \in S : Cardinality(B(x)) = k - 1
      /\ \A x, z \in S : <<x, z>> \in R => Cardinality(B(x)) < Cardinality(B(z))
      /\ \A x \in S : Cardinality(B(x)) \in 0 .. n - 1
  BY Ranked DEF IsOrder
<1>3. \A x, y \in S : x # y => <<x, y>> \in R \/ <<y, x>> \in R
  BY DEF IsOrder
<1>5. o \in [1 .. n -> S] /\ \A k \in 1 .. n : Cardinality(B(o[k])) = k - 1
  BY <1>2 DEF IsRanking
<1>4. \A k \in 1 .. n : o[k] \in S /\ Cardinality(B(o[k])) = k - 1
  BY <1>5
<1> HIDE DEF B, n
<1>6. o \in Seq(S) /\ Len(o) = n
  BY <1>1, <1>5
<1>7. \A i, j \in 1 .. n : o[i] = o[j] => i = j
  <2> SUFFICES ASSUME NEW i \in 1 .. n, NEW j \in 1 .. n, o[i] = o[j] PROVE i = j
    OBVIOUS
  <2>1. i - 1 = j - 1
    BY <1>4
  <2>2. QED
    BY <2>1
<1>8. ASSUME NEW x \in S PROVE \E k \in 1 .. n : o[k] = x
  <2>1. Cardinality(B(x)) \in 0 .. n - 1
    BY <1>2
  <2> DEFINE k == Cardinality(B(x)) + 1
  <2>2. k \in 1 .. n /\ k - 1 = Cardinality(B(x))
    BY <1>1, <2>1
  <2>3. Cardinality(B(o[k])) = Cardinality(B(x)) /\ o[k] \in S
    BY <1>4, <2>2
  <2> HIDE DEF k
  <2>4. o[k] = x \/ <<o[k], x>> \in R \/ <<x, o[k]>> \in R
    BY <1>3, <2>3
  <2>5. ~ (Cardinality(B(x)) < Cardinality(B(x)))
    BY <2>1
  <2>6. o[k] = x
    BY <1>2, <2>3, <2>4, <2>5
  <2>7. QED
    BY <2>2, <2>6
<1>9. QED
  BY <1>1, <1>6, <1>7, <1>8 DEF n

-----------------------------------------------------------------------------
\* The groups.

\* Specs that plan alike: blocks of as many tokens, and as many of them.
Alike(S) ==
  \A s, t \in S : /\ s.block = t.block
                  /\ s.kind = "mamba" <=> t.kind = "mamba"
                  /\ \A n \in Nat : PagesFor(s, n) = PagesFor(t, n)
OnePage(S) == \A s, t \in S : PageSize(s) = PageSize(t)

\* A group of some of the layers D.
IsGroup(g, D) ==
  /\ g = Group(g.layers, g.uniform, g.specs) /\ g.uniform \in BOOLEAN
  /\ DOMAIN g.specs \in SUBSET D /\ DOMAIN g.specs # {}
  /\ g.specs \in [DOMAIN g.specs -> Specs]
  /\ g.layers \in Seq(DOMAIN g.specs) /\ ToSet(g.layers) = DOMAIN g.specs
  /\ \A i, j \in DOMAIN g.layers : g.layers[i] = g.layers[j] => i = j
  /\ Alike(Values(g.specs))
  /\ ~g.uniform => OnePage(Values(g.specs))

LEMMA MergeableIsAlike ==
  ASSUME NEW S \in SUBSET Specs, Mergeable(S)
  PROVE  Alike(S) /\ OnePage(S)
<1> SUFFICES ASSUME NEW s \in S, NEW t \in S
             PROVE  /\ s.block = t.block
                    /\ s.kind = "mamba" <=> t.kind = "mamba"
                    /\ \A n \in Nat : PagesFor(s, n) = PagesFor(t, n)
                    /\ PageSize(s) = PageSize(t)
  BY DEF Alike, OnePage
<1>1. CASE s = t
  BY <1>1
<1>2. CASE s.kind = "full" /\ [s EXCEPT !.window = 0] = [t EXCEPT !.window = 0]
  <2>1. s \in Specs /\ t \in Specs
    OBVIOUS
  <2>2. t.kind = "full" /\ s.block = t.block /\ s.bytes = t.bytes /\ s.pad = t.pad
    BY <1>2, <2>1 DEF Specs
  <2>3. QED
    BY <1>2, <2>2 DEF PagesFor, PageSize, IsSliding
<1>3. QED
  BY <1>1, <1>2 DEF Mergeable

LEMMA UniformIsAlike ==
  ASSUME NEW S \in SUBSET Specs, UniformType(S)
  PROVE  Alike(S)
<1> SUFFICES ASSUME NEW s \in S, NEW t \in S
             PROVE  /\ s.block = t.block
                    /\ s.kind = "mamba" <=> t.kind = "mamba"
                    /\ \A n \in Nat : PagesFor(s, n) = PagesFor(t, n)
  BY DEF Alike
<1>1. /\ s.block = t.block
      /\ s.kind = t.kind \/ {s.kind, t.kind} \in {{"full", "mla"}, {"sliding", "swa_mla"}}
      /\ ~IsFull(s) => s.window = t.window
  BY DEF UniformType
<1>2. \/ s.kind = t.kind
      \/ s.kind \in {"full", "mla"} /\ t.kind \in {"full", "mla"}
      \/ s.kind \in {"sliding", "swa_mla"} /\ t.kind \in {"sliding", "swa_mla"}
  <2>1. \A a, b : {a, b} = {"full", "mla"} => a \in {"full", "mla"} /\ b \in {"full", "mla"}
    OBVIOUS
  <2>2. \A a, b : {a, b} = {"sliding", "swa_mla"} =>
          a \in {"sliding", "swa_mla"} /\ b \in {"sliding", "swa_mla"}
    OBVIOUS
  <2>3. QED
    BY <1>1, <2>1, <2>2
<1>3. CASE s.kind \in {"full", "mla"} /\ t.kind \in {"full", "mla"}
  BY <1>1, <1>3 DEF PagesFor, IsSliding
<1>4. CASE s.kind \in {"sliding", "swa_mla"} /\ t.kind \in {"sliding", "swa_mla"}
  BY <1>1, <1>4 DEF PagesFor, IsSliding, IsFull
<1>5. CASE s.kind = t.kind /\ s.kind \notin {"full", "mla", "sliding", "swa_mla"}
  BY <1>1, <1>5 DEF PagesFor, IsSliding, IsFull
<1>6. QED
  BY <1>2, <1>3, <1>4, <1>5

LEMMA ValuesAre ==
  ASSUME NEW D, NEW specs \in [D -> Specs]
  PROVE  Values(specs) \in SUBSET Specs /\ DOMAIN specs = D
         /\ Values(specs) = {specs[l] : l \in D}
BY DEF Values

LEMMA Pages ==
  ASSUME NEW s \in Specs
  PROVE  PageSize(s) \in Nat \ {0}
<1>1. s.pad \in Nat /\ s.bytes \in Nat \ {0} /\ s.block \in Nat \ {0}
  BY DEF Specs
<1>2. s.block * s.bytes \in Nat \ {0}
  BY <1>1, Times
<1>3. QED
  BY <1>1, <1>2 DEF PageSize

\* Groups of the layers D that have no layer in common.
Apart(gs, D) ==
  /\ Len(gs) \in Nat /\ DOMAIN gs = 1 .. Len(gs)
  /\ gs \in Seq({gs[i] : i \in DOMAIN gs})
  /\ \A i \in DOMAIN gs : IsGroup(gs[i], D)
  /\ \A i, j \in DOMAIN gs : i # j => DOMAIN gs[i].specs \cap DOMAIN gs[j].specs = {}

\* The groups of the layers D: all of uniform types, whose pages are those of the first
\* group, or all of one spec each and of one page size.
GroupsOK(gs, D) ==
  /\ Apart(gs, D)
  /\ \/ \A i \in DOMAIN gs : gs[i].uniform /\ PageSizes(gs[i].specs) \subseteq PageSizes(gs[1].specs)
     \/ /\ \A i \in DOMAIN gs : ~gs[i].uniform
        /\ \A i, j \in DOMAIN gs : \A l \in DOMAIN gs[i].specs, k \in DOMAIN gs[j].specs :
             PageSize(gs[i].specs[l]) = PageSize(gs[j].specs[k])

LEMMA SingleGroup ==
  ASSUME NEW D \in SUBSET Nat, IsFiniteSet(D), D # {}, NEW specs \in [D -> Specs],
         NEW u \in BOOLEAN, Alike(Values(specs)), ~u => OnePage(Values(specs))
  PROVE  GroupsOK(<<Group(InOrder(D), u, specs)>>, D)
<1> DEFINE g == Group(InOrder(D), u, specs)
<1>1. g.layers = InOrder(D) /\ g.uniform = u /\ g.specs = specs /\ DOMAIN specs = D
  BY DEF Group
<1>2. g = Group(g.layers, g.uniform, g.specs)
  BY <1>1
<1>3. /\ InOrder(D) \in Seq(D) /\ ToSet(InOrder(D)) = D
      /\ \A i, j \in DOMAIN InOrder(D) : InOrder(D)[i] = InOrder(D)[j] => i = j
  BY InOrderIs
<1> HIDE DEF g
<1>4. IsGroup(g, D)
  BY <1>1, <1>2, <1>3 DEF IsGroup
<1> DEFINE gs == <<g>>
<1>5. Len(gs) = 1 /\ DOMAIN gs = 1 .. 1 /\ gs[1] = g /\ \A i \in DOMAIN gs : i = 1
  OBVIOUS
<1>12. gs \in Seq({gs[i] : i \in DOMAIN gs})
  <2>1. {gs[i] : i \in DOMAIN gs} = {g}
    BY <1>5
  <2>2. gs \in Seq({g})
    OBVIOUS
  <2>3. QED
    BY <2>1, <2>2
<1>6. u => \A i \in DOMAIN gs : gs[i].uniform
  BY <1>1, <1>5
<1>7. \A i \in DOMAIN gs : PageSizes(gs[i].specs) \subseteq PageSizes(gs[1].specs)
  BY <1>5
<1>8. ASSUME ~u
      PROVE  /\ \A i \in DOMAIN gs : ~gs[i].uniform
             /\ \A i, j \in DOMAIN gs : \A l \in DOMAIN gs[i].specs, k \in DOMAIN gs[j].specs :
                  PageSize(gs[i].specs[l]) = PageSize(gs[j].specs[k])
  <2>1. \A l, k \in D : PageSize(specs[l]) = PageSize(specs[k])
    BY <1>8 DEF OnePage, Values
  <2>2. QED
    BY <1>1, <1>5, <1>8, <2>1
<1>9. \A i, j \in DOMAIN gs : i = j
  BY <1>5
<1> HIDE DEF gs
<1>10. GroupsOK(gs, D)
  BY <1>4, <1>5, <1>6, <1>7, <1>8, <1>9, <1>12 DEF GroupsOK, Apart
<1>11. QED
  BY <1>10 DEF gs, g

-----------------------------------------------------------------------------
LEMMA FiniteImage ==
  ASSUME NEW D, IsFiniteSet(D), NEW f, NEW S, \A x \in S : \E y \in D : f[y] = x
  PROVE  IsFiniteSet(S)
<1> DEFINE h == [y \in D |-> f[y]]
           T == {f[y] : y \in D}
<1>1. IsFiniteSet(T)
  <2>1. h \in Surjection(D, T)
    BY DEF Surjection
  <2>2. QED
    BY <2>1, FS_Surjection
<1>2. S \in SUBSET T
  OBVIOUS
<1>3. QED
  BY <1>1, <1>2, FS_Subset

LEMMA MaxPage ==
  ASSUME NEW D, IsFiniteSet(D), D # {}, NEW specs \in [D -> Specs]
  PROVE  LET pages == {PageSize(s) : s \in Values(specs)} IN
         /\ Max(pages) \in Nat \ {0} /\ Max(pages) \in pages
         /\ \A s \in Values(specs) : PageSize(s) <= Max(pages)
<1> DEFINE pages == {PageSize(s) : s \in Values(specs)}
           f == [l \in D |-> PageSize(specs[l])]
<1>1. pages \in SUBSET (Nat \ {0})
  BY ValuesAre, Pages
<1>2. pages # {}
  BY ValuesAre
<1>3. IsFiniteSet(pages)
  <2>1. \A x \in pages : \E y \in D : f[y] = x
    BY ValuesAre
  <2> HIDE DEF pages, f
  <2>2. QED
    BY <2>1, FiniteImage
<1>4. \A s \in Values(specs) : PageSize(s) \in pages
  OBVIOUS
<1> HIDE DEF pages
<1>5. Max(pages) \in pages /\ \A y \in pages : y <= Max(pages)
  <2>1. pages \in SUBSET Int
    BY <1>1
  <2>2. QED
    BY <1>2, <1>3, <2>1, MaxIs
<1>6. QED
  BY <1>1, <1>4, <1>5 DEF pages

LEMMA UnifiedIs ==
  ASSUME NEW s \in Specs, NEW page \in Nat \ {0}, PageSize(s) <= page
  PROVE  Unified(s, page) \in Specs
<1>1. PageSize(s) \in Nat \ {0}
  BY Pages
<1>2. s = [kind |-> s.kind, block |-> s.block, bytes |-> s.bytes, window |-> s.window,
           pad |-> s.pad, strided |-> s.strided]
  BY DEF Specs
<1>3. CASE PageSize(s) = page
  BY <1>3 DEF Unified
<1>4. CASE PageSize(s) # page /\ page % PageSize(s) = 0
  <2> DEFINE z == PageSize(s)
             k == page \div z
  <2>0. z \in Nat \ {0} /\ z <= page
    BY <1>1
  <2> HIDE DEF z
  <2>1. k \in Nat /\ page < z * k + z
    <3>1. page \in Int /\ page \in Nat
      OBVIOUS
    <3>2. page \div z \in Nat
      BY <2>0, <3>1, DivIs
    <3>3. page < z * (page \div z) + z
      BY <2>0, <3>1, DivIs
    <3>4. QED
      BY <3>2, <3>3
  <2> HIDE DEF k
  <2>2. k # 0
    <3>1. SUFFICES ASSUME k = 0 PROVE FALSE
      OBVIOUS
    <3>2. z * k = 0
      BY <2>0, <3>1
    <3>3. QED
      BY <2>0, <2>1, <3>2
  <2>3. s.block * k \in Nat \ {0}
    <3>1. s.block \in Nat \ {0} /\ k \in Nat \ {0}
      BY <2>1, <2>2 DEF Specs
    <3>2. QED
      BY <3>1, Times
  <2>4. Unified(s, page) = [s EXCEPT !.block = s.block * k]
    BY <1>4 DEF Unified, k, z
  <2>5. QED
    BY <2>3, <2>4 DEF Specs
<1>5. CASE ~ (PageSize(s) = page) /\ ~ (page % PageSize(s) = 0)
  <2>1. [s EXCEPT !.pad = page] \in Specs
    BY DEF Specs
  <2>2. QED
    BY <1>5, <2>1 DEF Unified
<1>6. QED
  BY <1>3, <1>4, <1>5

LEMMA UnifyPageIs ==
  ASSUME NEW D, IsFiniteSet(D), D # {}, NEW specs \in [D -> Specs],
         UnifyPageSize(specs) # Refused
  PROVE  UnifyPageSize(specs) \in [D -> Specs] /\ OnePage(Values(UnifyPageSize(specs)))
<1> DEFINE page == Max({PageSize(s) : s \in Values(specs)})
           unified == [l \in D |-> Unified(specs[l], page)]
<1>1. page \in Nat \ {0} /\ \A l \in D : PageSize(specs[l]) <= page
  <2>1. page \in Nat \ {0} /\ \A s \in Values(specs) : PageSize(s) <= page
    BY MaxPage
  <2> HIDE DEF page
  <2>2. QED
    BY <2>1, ValuesAre
<1>2. UnifyPageSize(specs) = IF \A s \in Values(unified) : PageSize(s) = page
                             THEN unified ELSE Refused
  BY DEF UnifyPageSize
<1> HIDE DEF page
<1>3. \A l \in D : specs[l] \in Specs /\ Unified(specs[l], page) \in Specs
  BY <1>1, UnifiedIs
<1>4. unified \in [D -> Specs]
  BY <1>3
<1> HIDE DEF unified
<1>5. QED
  BY <1>2, <1>4 DEF OnePage

\* What dealing a sequence of different elements gives: disjoint sequences of different
\* elements.
LEMMA Dealt ==
  ASSUME NEW T, NEW s \in Seq(T), NEW k \in Nat \ {0},
         \A p, q \in DOMAIN s : s[p] = s[q] => p = q
  PROVE  /\ \A i \in 1 .. k : \A j, l \in DOMAIN Stride(s, i, k) :
              Stride(s, i, k)[j] = Stride(s, i, k)[l] => j = l
         /\ \A i \in 1 .. k : ToSet(Stride(s, i, k)) \in SUBSET ToSet(s)
         /\ \A i, h \in 1 .. k : i # h => ToSet(Stride(s, i, k)) \cap ToSet(Stride(s, h, k)) = {}
<1>1. \A i \in 1 .. k : \A j \in DOMAIN Stride(s, i, k) :
        /\ i + (j - 1) * k \in DOMAIN s
        /\ Stride(s, i, k)[j] = s[i + (j - 1) * k]
  <2>1. DOMAIN s = 1 .. Len(s)
    OBVIOUS
  <2>2. QED
    BY <2>1, StrideIs
<1>2. \A i, h \in 1 .. k : \A j \in DOMAIN Stride(s, i, k), l \in DOMAIN Stride(s, h, k) :
        Stride(s, i, k)[j] = Stride(s, h, k)[l] => i = h /\ j = l
  <2> SUFFICES ASSUME NEW i \in 1 .. k, NEW h \in 1 .. k,
                      NEW j \in DOMAIN Stride(s, i, k), NEW l \in DOMAIN Stride(s, h, k),
                      Stride(s, i, k)[j] = Stride(s, h, k)[l]
               PROVE  i = h /\ j = l
    OBVIOUS
  <2>1. PICK p \in DOMAIN s : p = i + (j - 1) * k /\ Stride(s, i, k)[j] = s[p]
    BY <1>1
  <2>2. PICK q \in DOMAIN s : q = h + (l - 1) * k /\ Stride(s, h, k)[l] = s[q]
    BY <1>1
  <2>3. p = q
    BY <2>1, <2>2
  <2>4. QED
    BY <2>1, <2>2, <2>3, StrideIs
<1>3. \A i \in 1 .. k : Stride(s, i, k) \in Seq(T)
  BY StrideIs
<1>4. \A r \in Seq(T) : ToSet(r) = {r[j] : j \in DOMAIN r}
  BY DEF ToSet
<1>5. \A i \in 1 .. k : ToSet(Stride(s, i, k)) = {Stride(s, i, k)[j] : j \in DOMAIN Stride(s, i, k)}
  BY <1>3, <1>4
<1>6. ToSet(s) = {s[j] : j \in DOMAIN s}
  BY <1>4
<1>7. ASSUME NEW i \in 1 .. k, NEW x \in ToSet(Stride(s, i, k)) PROVE x \in ToSet(s)
  BY <1>1, <1>5, <1>6
<1>8. ASSUME NEW i \in 1 .. k, NEW h \in 1 .. k, i # h,
             NEW x \in ToSet(Stride(s, i, k)), x \in ToSet(Stride(s, h, k))
      PROVE  FALSE
  <2>1. PICK j \in DOMAIN Stride(s, i, k) : x = Stride(s, i, k)[j]
    BY <1>5
  <2>2. PICK l \in DOMAIN Stride(s, h, k) : x = Stride(s, h, k)[l]
    BY <1>5, <1>8
  <2>3. QED
    BY <1>2, <1>8, <2>1, <2>2
<1>9. QED
  BY <1>2, <1>7, <1>8

-----------------------------------------------------------------------------
\* Layers grouped by type, each type split over groups of one size.

\* The layers of one spec.
ClassOf(specs, s) == {l \in DOMAIN specs : specs[l] = s}

LEMMA ClassIs ==
  ASSUME NEW D \in SUBSET Nat, IsFiniteSet(D), NEW specs \in [D -> Specs],
         NEW s \in Values(specs)
  PROVE  LET c == ClassOf(specs, s)
             o == InOrder(c)
         IN /\ c \in SUBSET D /\ IsFiniteSet(c) /\ c # {}
            /\ o \in Seq(c) /\ ToSet(o) = c /\ Len(o) \in Nat \ {0} /\ o[1] \in c
            /\ \A i, j \in DOMAIN o : o[i] = o[j] => i = j
<1> DEFINE c == ClassOf(specs, s)
           o == InOrder(c)
<1>1. c \in SUBSET D /\ c # {}
  BY ValuesAre DEF ClassOf
<1>2. IsFiniteSet(c) /\ c \in SUBSET Int
  <2> HIDE DEF c
  <2>1. IsFiniteSet(c)
    BY <1>1, FS_Subset
  <2>2. QED
    BY <1>1, <2>1
<1> HIDE DEF c
<1>3. /\ o \in Seq(c) /\ ToSet(o) = c /\ Len(o) = Cardinality(c)
      /\ \A i, j \in DOMAIN o : o[i] = o[j] => i = j
  BY <1>2, InOrderIs
<1>4. Cardinality(c) \in Nat \ {0}
  BY <1>1, <1>2, FS_EmptySet, FS_CardinalityType
<1> HIDE DEF o
<1>5. o[1] \in c
  BY <1>3, <1>4
<1>6. QED
  BY <1>1, <1>2, <1>3, <1>4, <1>5 DEF c, o

\* SameType has the layers of each spec once.
LEMMA TypesAre ==
  ASSUME NEW D \in SUBSET Nat, IsFiniteSet(D), D # {}, NEW specs \in [D -> Specs]
  PROVE  LET types == SameType(specs) IN
         /\ Len(types) \in Nat \ {0} /\ DOMAIN types = 1 .. Len(types)
         /\ \A i \in DOMAIN types : \E s \in Values(specs) : types[i] = InOrder(ClassOf(specs, s))
         /\ \A i, j \in DOMAIN types : types[i] = types[j] => i = j
<1> DEFINE S == {InOrder(ClassOf(specs, s)) : s \in Values(specs)}
           R == {p \in S \X S : p[1][1] < p[2][1]}
           n == Cardinality(S)
           o == SameType(specs)
<1>1. o = [k \in 1 .. n |-> CHOOSE x \in S : Cardinality({y \in S : y[1] < x[1]}) = k - 1]
  BY DEF SameType, Sorted, ClassOf
<1>2. \A a \in S : \E s \in Values(specs) : a = InOrder(ClassOf(specs, s)) /\ a[1] \in ClassOf(specs, s)
  BY ClassIs
<1>3. S # {} /\ IsFiniteSet(S)
  <2>1. S # {}
    BY ValuesAre
  <2> DEFINE f == [l \in D |-> InOrder(ClassOf(specs, specs[l]))]
  <2>2. \A x \in S : \E y \in D : f[y] = x
    BY ValuesAre
  <2> HIDE DEF S, f
  <2>3. QED
    BY <2>1, <2>2, FiniteImage
<1>4. \A a \in S : a[1] \in Nat
  BY <1>2 DEF ClassOf
<1>5. \A a, b \in S : a # b => a[1] # b[1]
  <2> SUFFICES ASSUME NEW a \in S, NEW b \in S, a[1] = b[1] PROVE a = b
    OBVIOUS
  <2> HIDE DEF S
  <2>1. PICK s \in Values(specs) : a = InOrder(ClassOf(specs, s)) /\ a[1] \in ClassOf(specs, s)
    BY <1>2
  <2>2. PICK t \in Values(specs) : b = InOrder(ClassOf(specs, t)) /\ b[1] \in ClassOf(specs, t)
    BY <1>2
  <2>3. specs[a[1]] = s /\ specs[b[1]] = t
    BY <2>1, <2>2 DEF ClassOf
  <2>4. QED
    BY <2>1, <2>2, <2>3
<1> HIDE DEF S
<1>6. /\ \A x \in S : <<x, x>> \notin R
      /\ \A x, y \in S : x # y => <<x, y>> \in R \/ <<y, x>> \in R
      /\ \A x, y, z \in S : <<x, y>> \in R /\ <<y, z>> \in R => <<x, z>> \in R
      /\ \A x, y \in S : y[1] < x[1] <=> <<y, x>> \in R
  BY <1>4, <1>5
<1> DEFINE B(x) == {y \in S : y[1] < x[1]}
           C(x) == {y \in S : <<y, x>> \in R}
<1>7. \A x \in S : B(x) = C(x)
  BY <1>6
<1>8. o = [k \in 1 .. n |-> CHOOSE x \in S : Cardinality(B(x)) = k - 1]
  BY <1>1
<1> HIDE DEF o, n, R, B
<1>9. (\A k \in 1 .. n : \E x \in S : Cardinality(C(x)) = k - 1) =>
        o \in [1 .. n -> S] /\ \A k \in 1 .. n : Cardinality(C(o[k])) = k - 1
  <2> HIDE DEF C
  <2>1. SUFFICES ASSUME \A k \in 1 .. n : \E x \in S : Cardinality(B(x)) = k - 1
                 PROVE  o \in [1 .. n -> S] /\ \A k \in 1 .. n : Cardinality(B(o[k])) = k - 1
    BY <1>7
  <2>2. \A k \in 1 .. n : o[k] \in S /\ Cardinality(B(o[k])) = k - 1
    BY <1>8, <2>1
  <2>3. QED
    BY <1>8, <2>2
<1>10. /\ n \in Nat /\ o \in Seq(S) /\ Len(o) = n
       /\ \A i, j \in 1 .. n : o[i] = o[j] => i = j
  <2>1. IsRanking(o, R, S)
    BY <1>9 DEF n, IsRanking
  <2>4. IsOrder(R, S)
    BY <1>6 DEF IsOrder
  <2>2. /\ Cardinality(S) \in Nat /\ o \in Seq(S) /\ Len(o) = Cardinality(S)
        /\ \A i, j \in 1 .. Cardinality(S) : o[i] = o[j] => i = j
    BY <1>3, <2>1, <2>4, ByRank
  <2>3. QED
    BY <2>2 DEF n
<1>11. n # 0
  BY <1>3, FS_EmptySet DEF n
<1>12. \A i \in 1 .. n : o[i] \in S /\ DOMAIN o = 1 .. n
  BY <1>10
<1>13. QED
  BY <1>2, <1>10, <1>11, <1>12 DEF o

\* Split deals a type's layers over groups none of which is empty.
LEMMA SplitIs ==
  ASSUME NEW T, NEW s \in Seq(T), Len(s) \in Nat \ {0}, NEW size \in Nat \ {0},
         \A p, q \in DOMAIN s : s[p] = s[q] => p = q
  PROVE  LET split == Split(s, size) IN
         /\ Len(split) \in Nat \ {0} /\ DOMAIN split = 1 .. Len(split)
         /\ \A i \in DOMAIN split :
              /\ split[i] \in Seq(T) /\ split[i] # <<>> /\ ToSet(split[i]) \in SUBSET ToSet(s)
              /\ \A p, q \in DOMAIN split[i] : split[i][p] = split[i][q] => p = q
         /\ \A i, j \in DOMAIN split : i # j => ToSet(split[i]) \cap ToSet(split[j]) = {}
<1> DEFINE n == CeilDiv(Len(s), size)
           split == Split(s, size)
<1>1. n \in Nat \ {0} /\ n <= Len(s)
  BY CeilIs
<1>2. split = [i \in 1 .. n |-> Stride(s, i, n)]
  BY DEF Split
<1> HIDE DEF n, split
<1>3. Len(split) = n /\ DOMAIN split = 1 .. n /\ \A i \in 1 .. n : split[i] = Stride(s, i, n)
  BY <1>1, <1>2
<1>4. \A i \in 1 .. n : i <= Len(s)
  BY <1>1
<1>5. \A i \in 1 .. n : Stride(s, i, n) \in Seq(T) /\ Stride(s, i, n) # <<>>
  <2> SUFFICES ASSUME NEW i \in 1 .. n
               PROVE  Stride(s, i, n) \in Seq(T) /\ Stride(s, i, n) # <<>>
    OBVIOUS
  <2>1. /\ \A j \in 1 .. n : Stride(s, j, n) \in Seq(T)
        /\ \A j \in 1 .. n : j <= Len(s) => Stride(s, j, n) # <<>>
    BY <1>1, StrideIs
  <2>2. QED
    BY <1>4, <2>1
<1>6. /\ \A i \in 1 .. n : \A p, q \in DOMAIN Stride(s, i, n) :
           Stride(s, i, n)[p] = Stride(s, i, n)[q] => p = q
      /\ \A i \in 1 .. n : ToSet(Stride(s, i, n)) \in SUBSET ToSet(s)
      /\ \A i, h \in 1 .. n : i # h => ToSet(Stride(s, i, n)) \cap ToSet(Stride(s, h, n)) = {}
  BY <1>1, Dealt
<1>7. QED
  BY <1>1, <1>3, <1>5, <1>6 DEF split

\* A group of layers of one spec.
IsPlain(g, layers, s) == g = Group(layers, FALSE, [l \in ToSet(layers) |-> s])

LEMMA PlainGroup ==
  ASSUME NEW D, NEW layers \in Seq(D), layers # <<>>, NEW s \in Specs,
         \A p, q \in DOMAIN layers : layers[p] = layers[q] => p = q,
         NEW g, IsPlain(g, layers, s)
  PROVE  /\ IsGroup(g, D) /\ ~g.uniform /\ DOMAIN g.specs = ToSet(layers)
         /\ \A l \in DOMAIN g.specs : g.specs[l] = s
<1>1. /\ g.layers = layers /\ g.uniform = FALSE /\ g.specs = [l \in ToSet(layers) |-> s]
      /\ g = Group(g.layers, g.uniform, g.specs)
  BY DEF Group, IsPlain
<1>2. /\ ToSet(layers) \in SUBSET D /\ ToSet(layers) # {}
      /\ layers \in Seq(ToSet(layers))
  BY DEF ToSet
<1>3. DOMAIN g.specs = ToSet(layers) /\ \A l \in ToSet(layers) : g.specs[l] = s
  BY <1>1
<1>4. Values(g.specs) = {s}
  BY <1>2, <1>3 DEF Values
<1>5. Alike(Values(g.specs)) /\ OnePage(Values(g.specs))
  BY <1>4 DEF Alike, OnePage
<1>6. g.specs \in [DOMAIN g.specs -> Specs]
  BY <1>1, <1>3
<1>7. IsGroup(g, D)
  BY <1>1, <1>2, <1>3, <1>5, <1>6 DEF IsGroup
<1>8. QED
  BY <1>1, <1>3, <1>7

LEMMA GroupSizeIs ==
  ASSUME NEW types, NEW m \in Nat \ {0}, DOMAIN types = 1 .. m,
         \A i \in 1 .. m : Len(types[i]) \in Nat \ {0}
  PROVE  GroupSizeOf(types) \in Nat \ {0}
<1> DEFINE lens == {Len(types[i]) : i \in 1 .. m}
           f == [i \in 1 .. m |-> Len(types[i])]
<1>1. GroupSizeOf(types) = Max(lens) \/ GroupSizeOf(types) = Min(lens)
  BY DEF GroupSizeOf
<1>2. lens \in SUBSET (Nat \ {0}) /\ lens # {}
  <2>1. 1 \in 1 .. m
    OBVIOUS
  <2>2. Len(types[1]) \in lens
    BY <2>1
  <2>3. lens \in SUBSET (Nat \ {0})
    OBVIOUS
  <2>4. QED
    BY <2>2, <2>3
<1>3. IsFiniteSet(lens)
  <2>1. \A x \in lens : \E y \in 1 .. m : f[y] = x
    OBVIOUS
  <2>2. IsFiniteSet(1 .. m)
    BY FS_Interval
  <2> HIDE DEF lens, f
  <2>3. QED
    BY <2>1, <2>2, FiniteImage
<1> HIDE DEF lens
<1>4. lens \in SUBSET Nat /\ lens \in SUBSET Int
  BY <1>2
<1>5. Max(lens) \in lens /\ Min(lens) \in lens
  BY <1>2, <1>3, <1>4, MaxIs, MinIs
<1>6. QED
  BY <1>1, <1>2, <1>5

\* GroupsByType gives groups of layers of one spec.
LEMMA ByTypeIs ==
  ASSUME NEW D \in SUBSET Nat, IsFiniteSet(D), D # {}, NEW specs \in [D -> Specs],
         OnePage(Values(specs))
  PROVE  LET gs == GroupsByType(specs) IN
         /\ GroupsOK(gs, D) /\ Len(gs) # 0
         /\ \A g \in DOMAIN gs : ~gs[g].uniform /\ Values(gs[g].specs) \subseteq Values(specs)
<1> DEFINE types == SameType(specs)
           m == Len(types)
           size == GroupSizeOf(types)
           seqs == [i \in 1 .. m |-> Split(types[i], size)]
           split == FlattenSeq(seqs)
           gs == GroupsByType(specs)
<1>1. /\ m \in Nat \ {0} /\ DOMAIN types = 1 .. m
      /\ \A i \in 1 .. m : \E s \in Values(specs) : types[i] = InOrder(ClassOf(specs, s))
      /\ \A i, j \in 1 .. m : types[i] = types[j] => i = j
  BY TypesAre
<1>2. gs = [g \in DOMAIN split |->
              Group(split[g], FALSE, [l \in ToSet(split[g]) |-> specs[split[g][1]]])]
  BY <1>1 DEF GroupsByType
<1> HIDE DEF types
<1>3. \A i \in 1 .. m : \E s \in Values(specs) :
        /\ types[i] \in Seq(D) /\ Len(types[i]) \in Nat \ {0}
        /\ types[i] = InOrder(ClassOf(specs, s))
        /\ ToSet(types[i]) = ClassOf(specs, s) /\ ToSet(types[i]) \in SUBSET D
        /\ \A p, q \in DOMAIN types[i] : types[i][p] = types[i][q] => p = q
  <2> SUFFICES ASSUME NEW i \in 1 .. m
               PROVE  \E s \in Values(specs) :
                        /\ types[i] \in Seq(D) /\ Len(types[i]) \in Nat \ {0}
                        /\ types[i] = InOrder(ClassOf(specs, s))
                        /\ ToSet(types[i]) = ClassOf(specs, s) /\ ToSet(types[i]) \in SUBSET D
                        /\ \A p, q \in DOMAIN types[i] : types[i][p] = types[i][q] => p = q
    OBVIOUS
  <2>1. PICK s \in Values(specs) : types[i] = InOrder(ClassOf(specs, s))
    BY <1>1
  <2>2. /\ ClassOf(specs, s) \in SUBSET D
        /\ types[i] \in Seq(ClassOf(specs, s)) /\ ToSet(types[i]) = ClassOf(specs, s)
        /\ Len(types[i]) \in Nat \ {0}
        /\ \A p, q \in DOMAIN types[i] : types[i][p] = types[i][q] => p = q
    BY <2>1, ClassIs
  <2>3. types[i] \in Seq(D)
    BY <2>2
  <2>4. QED
    BY <2>1, <2>2, <2>3
<1>4. size \in Nat \ {0}
  BY <1>1, <1>3, GroupSizeIs
<1> HIDE DEF size, m
<1>5. ASSUME NEW i \in 1 .. m
      PROVE  /\ seqs[i] = Split(types[i], size)
             /\ Len(seqs[i]) \in Nat \ {0} /\ DOMAIN seqs[i] = 1 .. Len(seqs[i])
             /\ \A j \in DOMAIN seqs[i] :
                  /\ seqs[i][j] \in Seq(D) /\ seqs[i][j] # <<>>
                  /\ ToSet(seqs[i][j]) \in SUBSET ToSet(types[i])
                  /\ \A p, q \in DOMAIN seqs[i][j] : seqs[i][j][p] = seqs[i][j][q] => p = q
             /\ \A j, k \in DOMAIN seqs[i] : j # k => ToSet(seqs[i][j]) \cap ToSet(seqs[i][k]) = {}
  <2>1. /\ types[i] \in Seq(D) /\ Len(types[i]) \in Nat \ {0}
        /\ \A p, q \in DOMAIN types[i] : types[i][p] = types[i][q] => p = q
    BY <1>3
  <2>2. seqs[i] = Split(types[i], size)
    OBVIOUS
  <2> HIDE DEF seqs
  <2>3. QED
    BY <1>4, <2>1, <2>2, SplitIs
<1>6. seqs \in [1 .. m -> Seq(Seq(D))] /\ DOMAIN seqs = 1 .. m
  <2>1. \A i \in 1 .. m : seqs[i] \in Seq(Seq(D))
    <3> SUFFICES ASSUME NEW i \in 1 .. m PROVE seqs[i] \in Seq(Seq(D))
      OBVIOUS
    <3>1. /\ Len(seqs[i]) \in Nat /\ DOMAIN seqs[i] = 1 .. Len(seqs[i])
          /\ \A j \in DOMAIN seqs[i] : seqs[i][j] \in Seq(D)
      BY <1>5
    <3>2. seqs[i] = [j \in 1 .. CeilDiv(Len(types[i]), size) |->
                       Stride(types[i], j, CeilDiv(Len(types[i]), size))]
      BY <1>5 DEF Split
    <3>3. seqs[i] \in [1 .. Len(seqs[i]) -> Seq(D)]
      BY <3>1, <3>2
    <3>4. QED
      BY <3>1, <3>3
  <2>2. QED
    BY <2>1
<1> HIDE DEF seqs
<1>7. split \in Seq(Seq(D)) /\ \E at : IsPlacing(at, split, seqs, m)
  BY <1>1, <1>6, FlattenPlaces
<1>8. PICK at : IsPlacing(at, split, seqs, m)
  BY <1>7
<1> HIDE DEF split
<1>9. DOMAIN gs = DOMAIN split /\ Len(gs) = Len(split) /\ Len(split) \in Nat
      /\ DOMAIN split = 1 .. Len(split)
  BY <1>2, <1>7
<1>18. gs \in Seq({gs[g] : g \in DOMAIN gs})
  <2> DEFINE T == {gs[g] : g \in DOMAIN gs}
             n == Len(split)
  <2>1. DOMAIN gs = 1 .. n /\ n \in Nat
    BY <1>9
  <2>2. gs = [g \in 1 .. n |-> Group(split[g], FALSE, [l \in ToSet(split[g]) |-> specs[split[g][1]]])]
    BY <1>2, <1>9
  <2>3. gs \in [1 .. n -> T]
    BY <2>1, <2>2
  <2> HIDE DEF T, n, gs
  <2>4. gs \in Seq(T)
    BY <2>1, <2>3
  <2>5. QED
    BY <2>4 DEF T
<1> HIDE DEF gs
<1>10. ASSUME NEW g \in DOMAIN split
       PROVE  /\ \E i \in 1 .. m : \E j \in DOMAIN seqs[i] :
                   at[g] = <<i, j>> /\ split[g] = seqs[i][j]
              /\ split[g] \in Seq(D) /\ split[g] # <<>> /\ split[g][1] \in D
              /\ \A p, q \in DOMAIN split[g] : split[g][p] = split[g][q] => p = q
  <2>1. PICK i \in 1 .. m : \E j \in DOMAIN seqs[i] : at[g] = <<i, j>> /\ split[g] = seqs[i][j]
    BY <1>8 DEF IsPlacing
  <2>2. PICK j \in DOMAIN seqs[i] : at[g] = <<i, j>> /\ split[g] = seqs[i][j]
    BY <2>1
  <2>3. /\ split[g] \in Seq(D) /\ split[g] # <<>>
        /\ \A p, q \in DOMAIN split[g] : split[g][p] = split[g][q] => p = q
    BY <1>5, <2>2
  <2>4. split[g][1] \in D
    BY <2>3
  <2>5. QED
    BY <2>1, <2>3, <2>4
<1>11. ASSUME NEW g \in DOMAIN gs
       PROVE  /\ IsGroup(gs[g], D) /\ ~gs[g].uniform /\ DOMAIN gs[g].specs = ToSet(split[g])
              /\ \A l \in DOMAIN gs[g].specs : gs[g].specs[l] = specs[split[g][1]]
  <2>1. gs[g] = Group(split[g], FALSE, [l \in ToSet(split[g]) |-> specs[split[g][1]]])
    BY <1>2, <1>9
  <2>2. split[g] \in Seq(D) /\ split[g] # <<>> /\ specs[split[g][1]] \in Specs
    BY <1>9, <1>10
  <2>3. \A p, q \in DOMAIN split[g] : split[g][p] = split[g][q] => p = q
    BY <1>9, <1>10
  <2>4. QED
    <3> DEFINE layers == split[g]
               s == specs[layers[1]]
    <3>1. /\ IsPlain(gs[g], layers, s)
          /\ layers \in Seq(D) /\ layers # <<>> /\ s \in Specs
          /\ \A p, q \in DOMAIN layers : layers[p] = layers[q] => p = q
      BY <2>1, <2>2, <2>3 DEF IsPlain
    <3> HIDE DEF layers, s
    <3>2. /\ IsGroup(gs[g], D) /\ ~gs[g].uniform /\ DOMAIN gs[g].specs = ToSet(layers)
          /\ \A l \in DOMAIN gs[g].specs : gs[g].specs[l] = s
      BY <3>1, PlainGroup
    <3>3. QED
      BY <3>2 DEF layers, s
<1>12. ASSUME NEW g \in DOMAIN gs PROVE Values(gs[g].specs) \subseteq Values(specs)
  <2>1. specs[split[g][1]] \in Values(specs)
    BY <1>9, <1>10 DEF Values
  <2>2. QED
    BY <1>11, <2>1 DEF Values
<1>13. ASSUME NEW g \in DOMAIN gs, NEW h \in DOMAIN gs, g # h
       PROVE  DOMAIN gs[g].specs \cap DOMAIN gs[h].specs = {}
  <2>1. g \in DOMAIN split /\ h \in DOMAIN split
    BY <1>9
  <2>2. PICK i \in 1 .. m : \E j \in DOMAIN seqs[i] : at[g] = <<i, j>> /\ split[g] = seqs[i][j]
    BY <1>10, <2>1
  <2>3. PICK j \in DOMAIN seqs[i] : at[g] = <<i, j>> /\ split[g] = seqs[i][j]
    BY <2>2
  <2>4. PICK k \in 1 .. m : \E j_1 \in DOMAIN seqs[k] : at[h] = <<k, j_1>> /\ split[h] = seqs[k][j_1]
    BY <1>10, <2>1
  <2>5. PICK l \in DOMAIN seqs[k] : at[h] = <<k, l>> /\ split[h] = seqs[k][l]
    BY <2>4
  <2>6. CASE i = k
    <3>1. j # l
      BY <1>8, <1>13, <2>1, <2>3, <2>5, <2>6 DEF IsPlacing
    <3>0. j \in DOMAIN seqs[i] /\ l \in DOMAIN seqs[i] /\ split[h] = seqs[i][l]
      BY <2>5, <2>6
    <3>4. \A a, b \in DOMAIN seqs[i] :
            a # b => ToSet(seqs[i][a]) \cap ToSet(seqs[i][b]) = {}
      BY <1>5
    <3>2. ToSet(split[g]) \cap ToSet(split[h]) = {}
      BY <2>3, <3>0, <3>1, <3>4
    <3>3. QED
      BY <1>11, <3>2
  <2>7. CASE i # k
    <3>1. PICK s \in Values(specs) : types[i] = InOrder(ClassOf(specs, s))
                                     /\ ToSet(types[i]) = ClassOf(specs, s)
      BY <1>3
    <3>2. PICK t \in Values(specs) : types[k] = InOrder(ClassOf(specs, t))
                                     /\ ToSet(types[k]) = ClassOf(specs, t)
      BY <1>3
    <3>3. s # t
      BY <1>1, <2>7, <3>1, <3>2
    <3>4. ToSet(types[i]) \cap ToSet(types[k]) = {}
      BY <3>1, <3>2, <3>3 DEF ClassOf
    <3>5. ToSet(split[g]) \in SUBSET ToSet(types[i]) /\ ToSet(split[h]) \in SUBSET ToSet(types[k])
      BY <1>5, <2>3, <2>5
    <3>6. QED
      BY <1>11, <3>4, <3>5
  <2>8. QED
    BY <2>6, <2>7
<1>14. \A g, h \in DOMAIN gs : \A l \in DOMAIN gs[g].specs, k \in DOMAIN gs[h].specs :
         PageSize(gs[g].specs[l]) = PageSize(gs[h].specs[k])
  <2> SUFFICES ASSUME NEW g \in DOMAIN gs, NEW h \in DOMAIN gs,
                      NEW l \in DOMAIN gs[g].specs, NEW k \in DOMAIN gs[h].specs
               PROVE  PageSize(gs[g].specs[l]) = PageSize(gs[h].specs[k])
    OBVIOUS
  <2>1. gs[g].specs[l] \in Values(specs) /\ gs[h].specs[k] \in Values(specs)
    BY <1>12 DEF Values
  <2>2. QED
    BY <2>1 DEF OnePage
<1>15. Len(gs) # 0
  <2>1. 1 \in 1 .. m
    BY <1>1
  <2>2. 1 \in DOMAIN seqs[1]
    BY <1>5, <2>1
  <2>3. PICK g \in DOMAIN split : at[g] = <<1, 1>>
    BY <1>8, <2>1, <2>2 DEF IsPlacing
  <2>4. QED
    BY <1>9, <2>3
<1>16. GroupsOK(gs, D)
  BY <1>9, <1>11, <1>13, <1>14, <1>18 DEF GroupsOK, Apart
<1>17. QED
  BY <1>11, <1>12, <1>15, <1>16 DEF gs

-----------------------------------------------------------------------------
\* The hidden states' own groups, and the general path as a whole.

LEMMA SeqOfItsOwn ==
  ASSUME NEW T, NEW s \in Seq(T)
  PROVE  s \in Seq({s[i] : i \in DOMAIN s})
<1> DEFINE R == {s[i] : i \in DOMAIN s}
           n == Len(s)
<1>1. n \in Nat /\ DOMAIN s = 1 .. n /\ s \in [1 .. n -> T]
  OBVIOUS
<1>2. \A i \in 1 .. n : s[i] \in R
  BY <1>1
<1> HIDE DEF R, n
<1>3. s \in [1 .. n -> R]
  BY <1>1, <1>2
<1>4. s \in Seq(R)
  BY <1>1, <1>3
<1>5. QED
  BY <1>4 DEF R

LEMMA ConcatIs ==
  ASSUME NEW T, NEW s \in Seq(T), NEW t \in Seq(T)
  PROVE  /\ s \o t \in Seq(T) /\ Len(s \o t) = Len(s) + Len(t)
         /\ DOMAIN (s \o t) = 1 .. Len(s) + Len(t)
         /\ \A g \in DOMAIN (s \o t) :
              \/ g \in DOMAIN s /\ (s \o t)[g] = s[g]
              \/ \E j \in DOMAIN t : g = Len(s) + j /\ (s \o t)[g] = t[j]
         /\ \A i \in DOMAIN s : i \in DOMAIN (s \o t) /\ (s \o t)[i] = s[i]
<1>1. s \o t \in Seq(T) /\ Len(s \o t) = Len(s) + Len(t)
  OBVIOUS
<1>2. \A g \in 1 .. Len(s) + Len(t) : (s \o t)[g] = IF g <= Len(s) THEN s[g] ELSE t[g - Len(s)]
  OBVIOUS
<1> DEFINE R == Len(s)
           S == Len(t)
           r == s \o t
<1>3. /\ R \in Nat /\ S \in Nat /\ DOMAIN s = 1 .. R /\ DOMAIN t = 1 .. S
      /\ DOMAIN r = 1 .. R + S
  BY <1>1
<1>4. \A g \in 1 .. R + S : r[g] = IF g <= R THEN s[g] ELSE t[g - R]
  BY <1>2
<1> HIDE DEF r, R, S
<1>5. ASSUME NEW g \in 1 .. R + S
      PROVE  \/ g \in 1 .. R /\ r[g] = s[g]
             \/ \E j \in 1 .. S : g = R + j /\ r[g] = t[j]
  <2>1. CASE g <= R
    BY <1>3, <1>4, <2>1
  <2>2. CASE ~ (g <= R)
    <3>1. g - R \in 1 .. S /\ g = R + (g - R)
      BY <1>3, <2>2
    <3>2. QED
      BY <1>4, <2>2, <3>1
  <2>3. QED
    BY <2>1, <2>2
<1>6. \A i \in 1 .. R : i \in 1 .. R + S /\ r[i] = s[i]
  BY <1>3, <1>4
<1>7. QED
  BY <1>1, <1>3, <1>5, <1>6 DEF r, R, S

LEMMA HiddenIs ==
  ASSUME NEW s \in Specs, NEW page \in Nat \ {0}
  PROVE  Hidden(s, page) \in Specs /\ PageSize(Hidden(s, page)) = page
<1> DEFINE b == IF page \div s.bytes > 1 THEN page \div s.bytes ELSE 1
<1>1. b \in Nat \ {0}
  <2>1. s.bytes \in Nat \ {0}
    BY DEF Specs
  <2>2. page \div s.bytes \in Int
    BY <2>1
  <2>3. QED
    BY <2>2
<1> HIDE DEF b
<1>2. Hidden(s, page) = [s EXCEPT !.block = b, !.pad = page]
  BY DEF Hidden, b
<1>3. Hidden(s, page) \in Specs /\ Hidden(s, page).pad = page
  BY <1>1, <1>2 DEF Specs
<1>4. Hidden(s, page).pad # 0
  BY <1>3
<1>5. QED
  BY <1>3, <1>4 DEF PageSize

\* Groups of one spec each with one page size.
Plain(gs, page) ==
  \A i \in DOMAIN gs : /\ ~gs[i].uniform
                       /\ \A l \in DOMAIN gs[i].specs : PageSize(gs[i].specs[l]) = page

LEMMA GroupOfMore ==
  ASSUME NEW g, NEW A, NEW D, A \in SUBSET D, IsGroup(g, A)
  PROVE  IsGroup(g, D)
BY DEF IsGroup

LEMMA JoinedApart ==
  ASSUME NEW T, NEW gs \in Seq(T), NEW hs \in Seq(T), NEW A, NEW B, NEW D,
         A \in SUBSET D, B \in SUBSET D, A \cap B = {}, Apart(gs, A), Apart(hs, B)
  PROVE  Apart(gs \o hs, D)
<1> DEFINE r == gs \o hs
           n == Len(gs)
<1>1. /\ Len(r) \in Nat /\ DOMAIN r = 1 .. Len(r) /\ n \in Nat
      /\ \A g \in DOMAIN r : \/ g \in DOMAIN gs /\ r[g] = gs[g]
                             \/ \E j \in DOMAIN hs : g = n + j /\ r[g] = hs[j]
  BY ConcatIs
<1>2. \A j \in DOMAIN hs : j \in Nat
  OBVIOUS
<1> HIDE DEF r, n
<1>3. \A i \in DOMAIN gs : IsGroup(gs[i], D) /\ DOMAIN gs[i].specs \in SUBSET A
  BY GroupOfMore DEF Apart, IsGroup
<1>4. \A i \in DOMAIN hs : IsGroup(hs[i], D) /\ DOMAIN hs[i].specs \in SUBSET B
  BY GroupOfMore DEF Apart, IsGroup
<1>5. \A g \in DOMAIN r : IsGroup(r[g], D)
  BY <1>1, <1>3, <1>4
<1>7. ASSUME NEW g \in DOMAIN r, NEW h \in DOMAIN r, g # h
      PROVE  DOMAIN r[g].specs \cap DOMAIN r[h].specs = {}
  <2>1. CASE g \in DOMAIN gs /\ r[g] = gs[g] /\ h \in DOMAIN gs /\ r[h] = gs[h]
    BY <1>7, <2>1 DEF Apart
  <2>2. CASE g \in DOMAIN gs /\ r[g] = gs[g] /\ \E j \in DOMAIN hs : h = n + j /\ r[h] = hs[j]
    BY <1>3, <1>4, <2>2
  <2>3. CASE h \in DOMAIN gs /\ r[h] = gs[h] /\ \E j \in DOMAIN hs : g = n + j /\ r[g] = hs[j]
    BY <1>3, <1>4, <2>3
  <2>4. CASE /\ \E j \in DOMAIN hs : g = n + j /\ r[g] = hs[j]
             /\ \E j \in DOMAIN hs : h = n + j /\ r[h] = hs[j]
    <3>1. PICK i \in DOMAIN hs, j \in DOMAIN hs : /\ g = n + i /\ r[g] = hs[i]
                                                  /\ h = n + j /\ r[h] = hs[j]
      BY <2>4
    <3>2. i # j
      BY <1>7, <3>1
    <3>3. QED
      BY <3>1, <3>2 DEF Apart
  <2>5. QED
    BY <1>1, <2>1, <2>2, <2>3, <2>4
<1>8. Apart(r, D)
  <2>1. r \in Seq({r[i] : i \in DOMAIN r})
    <3>1. r \in Seq(T)
      BY DEF r
    <3>2. QED
      BY <3>1, SeqOfItsOwn
  <2>2. QED
    BY <1>1, <1>5, <1>7, <2>1 DEF Apart
<1>9. QED
  BY <1>8 DEF r

LEMMA JoinedOK ==
  ASSUME NEW T, NEW gs \in Seq(T), NEW hs \in Seq(T), NEW A, NEW B, NEW D,
         A \in SUBSET D, B \in SUBSET D, A \cap B = {},
         Apart(gs, A), Apart(hs, B), NEW page, Plain(gs, page), Plain(hs, page)
  PROVE  GroupsOK(gs \o hs, D)
<1> DEFINE r == gs \o hs
<1>1. \A g \in DOMAIN r : \/ g \in DOMAIN gs /\ r[g] = gs[g]
                          \/ \E j \in DOMAIN hs : r[g] = hs[j]
  BY ConcatIs
<1>2. Apart(r, D)
  BY JoinedApart
<1> HIDE DEF r
<1>3. Plain(r, page)
  BY <1>1 DEF Plain
<1>4. GroupsOK(r, D)
  BY <1>2, <1>3 DEF GroupsOK, Plain
<1>5. QED
  BY <1>4 DEF r

\* The general path gives groups of one page size.
LEMMA HybridIs ==
  ASSUME NEW D \in SUBSET Nat, IsFiniteSet(D), NEW specs \in [D -> Specs],
         HybridGroups(specs) # Refused
  PROVE  GroupsOK(HybridGroups(specs), D) /\ Len(HybridGroups(specs)) # 0
<1> DEFINE hidden == {l \in D : specs[l].kind = "hidden"}
           A == D \ hidden
           some == [l \in A |-> specs[l]]
           rest == UnifyPageSize(some)
           page == Max({PageSize(s) : s \in Values(rest)})
           m == Cardinality(hidden)
           o == InOrder(hidden)
           own == [i \in 1 .. m |->
                     LET l == o[i] IN Group(<<l>>, FALSE, [k \in {l} |-> Hidden(specs[k], page)])]
           gs == GroupsByType(rest)
<1>1. A # {} /\ rest # Refused /\ HybridGroups(specs) = gs \o own
  BY DEF HybridGroups
<1>2. /\ hidden \in SUBSET D /\ A \in SUBSET D /\ hidden \cap A = {}
      /\ IsFiniteSet(hidden) /\ IsFiniteSet(A) /\ hidden \in SUBSET Int
  <2>1. hidden \in SUBSET D /\ A \in SUBSET D /\ hidden \cap A = {}
    OBVIOUS
  <2>3. Nat \subseteq Int
    OBVIOUS
  <2>4. hidden \in SUBSET Int
    BY <2>1, <2>3
  <2> HIDE DEF hidden, A
  <2>2. QED
    BY <2>1, <2>4, FS_Subset
<1>3. some \in [A -> Specs]
  OBVIOUS
<1> HIDE DEF hidden, A, some
<1>4. rest \in [A -> Specs] /\ OnePage(Values(rest))
  BY <1>1, <1>2, <1>3, UnifyPageIs
<1> HIDE DEF rest
<1>5. page \in Nat \ {0} /\ \A s \in Values(rest) : PageSize(s) = page
  <2> DEFINE pages == {PageSize(s) : s \in Values(rest)}
  <2>1. page \in Nat \ {0} /\ page \in pages
    BY <1>1, <1>2, <1>4, MaxPage
  <2>2. PICK s \in Values(rest) : page = PageSize(s)
    BY <2>1
  <2> HIDE DEF page
  <2>3. QED
    BY <1>4, <2>1, <2>2 DEF OnePage
<1> HIDE DEF page
<1>6. /\ Apart(gs, A) /\ Len(gs) # 0 /\ Plain(gs, page)
  <2>1. /\ GroupsOK(gs, A) /\ Len(gs) # 0
        /\ \A g \in DOMAIN gs : ~gs[g].uniform /\ Values(gs[g].specs) \subseteq Values(rest)
    <3>1. A \in SUBSET Nat
      BY <1>2
    <3>2. QED
      BY <1>1, <1>2, <1>4, <3>1, ByTypeIs
  <2> HIDE DEF gs
  <2>2. QED
    BY <1>5, <2>1 DEF Plain, Values, GroupsOK
<1>7. /\ m \in Nat /\ DOMAIN o = 1 .. m /\ \A i \in 1 .. m : o[i] \in hidden
      /\ \A i, j \in 1 .. m : o[i] = o[j] => i = j
  <2>1. m \in Nat
    BY <1>2, FS_CardinalityType
  <2>2. /\ DOMAIN o = 1 .. m /\ o \in Seq(hidden)
        /\ \A i, j \in DOMAIN o : o[i] = o[j] => i = j
    BY <1>2, InOrderIs
  <2>3. QED
    BY <2>1, <2>2
<1> HIDE DEF m, o
<1>8. DOMAIN own = 1 .. m /\ Len(own) = m
  BY <1>7
<1>9. ASSUME NEW i \in 1 .. m
      PROVE  /\ IsGroup(own[i], hidden) /\ ~own[i].uniform /\ DOMAIN own[i].specs = {o[i]}
             /\ \A l \in DOMAIN own[i].specs : PageSize(own[i].specs[l]) = page
  <2> DEFINE l == o[i]
             layers == <<l>>
             s == Hidden(specs[l], page)
  <2>1. l \in hidden /\ specs[l] \in Specs
    BY <1>2, <1>7
  <2>2. s \in Specs /\ PageSize(s) = page
    BY <1>5, <2>1, HiddenIs
  <2>3. layers \in Seq(hidden) /\ layers # <<>> /\ ToSet(layers) = {l}
    BY <2>1 DEF ToSet
  <2>4. \A p, q \in DOMAIN layers : layers[p] = layers[q] => p = q
    OBVIOUS
  <2>5. own[i] = Group(layers, FALSE, [k \in {l} |-> Hidden(specs[k], page)])
    BY <1>7
  <2>6. [k \in {l} |-> Hidden(specs[k], page)] = [k \in {l} |-> s]
    OBVIOUS
  <2>7. IsPlain(own[i], layers, s)
    BY <2>3, <2>5, <2>6 DEF IsPlain
  <2> HIDE DEF own, layers, s, l
  <2>8. /\ IsGroup(own[i], hidden) /\ ~own[i].uniform /\ DOMAIN own[i].specs = ToSet(layers)
        /\ \A k \in DOMAIN own[i].specs : own[i].specs[k] = s
    BY <2>2, <2>3, <2>4, <2>7, PlainGroup
  <2>9. QED
    BY <2>2, <2>3, <2>8 DEF l
<1>10. \A i, j \in 1 .. m : i # j => DOMAIN own[i].specs \cap DOMAIN own[j].specs = {}
  <2> HIDE DEF own
  <2>1. QED
    BY <1>7, <1>9
<1> DEFINE T == {gs[i] : i \in DOMAIN gs} \cup {own[i] : i \in 1 .. m}
<1>11. gs \in Seq(T) /\ own \in Seq(T)
  <2>1. {gs[i] : i \in DOMAIN gs} \subseteq T /\ {own[i] : i \in 1 .. m} \subseteq T
    OBVIOUS
  <2>2. own \in [1 .. m -> {own[i] : i \in 1 .. m}]
    OBVIOUS
  <2>7. \A R1 : own \in [1 .. m -> R1] => own \in Seq(R1)
    <3> HIDE DEF own
    <3>1. QED
      BY <1>7
  <2>3. own \in Seq({own[i] : i \in 1 .. m})
    BY <2>2, <2>7
  <2>4. gs \in Seq({gs[i] : i \in DOMAIN gs})
    BY <1>6 DEF GroupsOK, Apart
  <2> HIDE DEF gs, own, T
  <2>5. \A A1, B1 : A1 \subseteq B1 => Seq(A1) \subseteq Seq(B1)
    OBVIOUS
  <2>6. QED
    BY <2>1, <2>3, <2>4, <2>5
<1>20. own \in Seq({own[i] : i \in DOMAIN own})
  <2>1. DOMAIN own = 1 .. m
    BY <1>8
  <2>2. own \in [1 .. m -> {own[i] : i \in DOMAIN own}]
    OBVIOUS
  <2> HIDE DEF own
  <2>3. QED
    BY <1>7, <2>1, <2>2
<1> HIDE DEF own, gs, T
<1>12. Plain(own, page)
  BY <1>8, <1>9 DEF Plain
<1>13. Apart(own, hidden)
  <2>1. own \in Seq({own[i] : i \in DOMAIN own})
    BY <1>20
  <2>2. QED
    BY <1>7, <1>8, <1>9, <1>10, <1>12, <2>1 DEF GroupsOK, Apart, Plain
<1>14. GroupsOK(gs \o own, D)
  BY <1>2, <1>6, <1>11, <1>12, <1>13, JoinedOK
<1>15. Len(gs \o own) # 0
  <2>1. Len(gs \o own) = Len(gs) + Len(own) /\ Len(gs) \in Nat /\ Len(own) \in Nat
    BY <1>7, <1>8, <1>11, ConcatIs
  <2>2. QED
    BY <1>6, <2>1
<1>16. QED
  BY <1>1, <1>14, <1>15

-----------------------------------------------------------------------------
\* Tuples of layers: a full model with windows (_get_kv_cache_groups_uniform_groups).

LEMMA TuplesIs ==
  ASSUME NEW D, IsFiniteSet(D), D # {}, NEW specs \in [D -> Specs]
  PROVE  /\ LayerTuples(specs) \in Nat \ {0}
         /\ \E p \in PageSizes(specs) : Cardinality(LayersOfPage(specs, p)) = LayerTuples(specs)
         /\ \A p \in PageSizes(specs) : Cardinality(LayersOfPage(specs, p)) <= LayerTuples(specs)
<1> DEFINE S == {Cardinality(LayersOfPage(specs, p)) : p \in PageSizes(specs)}
           f == [l \in D |-> Cardinality(LayersOfPage(specs, PageSize(specs[l])))]
<1>1. PageSizes(specs) = {PageSize(specs[l]) : l \in D}
  BY ValuesAre DEF PageSizes
<1>2. \A p : LayersOfPage(specs, p) \in SUBSET D
  BY DEF LayersOfPage
<1>3. \A p : IsFiniteSet(LayersOfPage(specs, p)) /\ Cardinality(LayersOfPage(specs, p)) \in Nat
  BY <1>2, FS_Subset, FS_CardinalityType
<1>4. S \in SUBSET Int /\ S # {}
  BY <1>1, <1>3
<1>5. IsFiniteSet(S)
  <2>1. \A x \in S : \E y \in D : f[y] = x
    BY <1>1
  <2> HIDE DEF S, f
  <2>2. QED
    BY <2>1, FiniteImage
<1>6. LayerTuples(specs) = Max(S)
  BY DEF LayerTuples
<1>7. \A p \in PageSizes(specs) : Cardinality(LayersOfPage(specs, p)) # 0
  <2> SUFFICES ASSUME NEW p \in PageSizes(specs) PROVE Cardinality(LayersOfPage(specs, p)) # 0
    OBVIOUS
  <2>1. LayersOfPage(specs, p) # {}
    BY <1>1 DEF LayersOfPage
  <2>2. QED
    BY <1>3, <2>1, FS_EmptySet
<1>8. LayerTuples(specs) \in S /\ \A x \in S : x <= LayerTuples(specs)
  <2> HIDE DEF S
  <2>1. QED
    BY <1>4, <1>5, <1>6, MaxIs
<1>9. QED
  BY <1>3, <1>7, <1>8

LEMMA RoundUpIs ==
  ASSUME NEW a \in Nat, NEW b \in Nat \ {0}
  PROVE  RoundUp(a, b) - a \in Nat
<1> DEFINE c == CeilDiv(a, b)
<1>1. c \in Nat /\ a <= c * b
  BY CeilIs
<1> HIDE DEF c
<1>2. c * b \in Int
  BY <1>1
<1>3. c * b - a \in Nat
  BY <1>1, <1>2
<1>4. QED
  BY <1>3 DEF c, RoundUp

\* There is a count of least padding, and a largest of those.
LEMMA GcdIs ==
  ASSUME NEW m \in Nat \ {0}, NEW xs, DOMAIN xs = 1 .. m,
         \A i \in 1 .. m : xs[i] \in Nat \ {0}, NEW low \in Nat \ {0}
  PROVE  ApproximateGcd(xs, low) \in Nat \ {0}
<1> DEFINE T == {xs[i] : i \in DOMAIN xs} \cup {low}
           top == Max(T)
           ds == low .. top
<1>1. IsFiniteSet(T) /\ T \in SUBSET Int /\ low \in T
  <2>1. T \in SUBSET Int /\ low \in T
    OBVIOUS
  <2>2. IsFiniteSet({xs[i] : i \in DOMAIN xs})
    <3>1. IsFiniteSet(1 .. m)
      BY FS_Interval
    <3>2. \A x \in {xs[i] : i \in DOMAIN xs} : \E i \in 1 .. m : xs[i] = x
      OBVIOUS
    <3>3. QED
      BY <3>1, <3>2, FiniteImage
  <2>3. IsFiniteSet(T)
    BY <2>2, FS_AddElement
  <2>4. QED
    BY <2>1, <2>3
<1> HIDE DEF T
<1>2. top \in Int /\ low <= top
  BY <1>1, MaxIs
<1> HIDE DEF top
<1>3. low \in ds /\ IsFiniteSet(ds) /\ ds \in SUBSET (Nat \ {0})
  <2>1. low \in ds /\ ds \in SUBSET (Nat \ {0})
    BY <1>2
  <2>2. IsFiniteSet(ds)
    BY <1>2, FS_Interval
  <2>3. QED
    BY <2>1, <2>2
<1>4. ApproximateGcd(xs, low) = CHOOSE d \in ds : \A e \in ds :
        Padding(xs, d) < Padding(xs, e) \/ (Padding(xs, d) = Padding(xs, e) /\ d >= e)
  BY DEF ApproximateGcd, top, T
<1> HIDE DEF ds
<1>5. \A d \in ds : Padding(xs, d) \in Nat
  <2> SUFFICES ASSUME NEW d \in ds PROVE Padding(xs, d) \in Nat
    OBVIOUS
  <2> DEFINE f == [i \in 1 .. m |-> RoundUp(xs[i], d) - xs[i]]
  <2>1. Padding(xs, d) = SumFunction(f)
    BY DEF Padding
  <2>2. DOMAIN f = 1 .. m /\ \A i \in 1 .. m : f[i] \in Nat
    BY <1>3, RoundUpIs
  <2> HIDE DEF f
  <2>3. IsFiniteSet(DOMAIN f)
    BY <2>2, FS_Interval
  <2>4. QED
    BY <2>1, <2>2, <2>3, SumProperties
<1>6. \E d \in ds : \A e \in ds :
        Padding(xs, d) < Padding(xs, e) \/ (Padding(xs, d) = Padding(xs, e) /\ d >= e)
  <2> DEFINE P == {Padding(xs, d) : d \in ds}
  <2>1. P \in SUBSET Nat /\ P # {}
    BY <1>3, <1>5
  <2>2. Min(P) \in P /\ \A y \in P : Min(P) <= y
    <3> HIDE DEF P
    <3>1. QED
      BY <2>1, MinIs
  <2> DEFINE best == Min(P)
             E == {d \in ds : Padding(xs, d) = best}
  <2>3. \A e \in ds : best <= Padding(xs, e)
    BY <2>2
  <2>4. \E d \in ds : Padding(xs, d) = best
    BY <2>2
  <2> HIDE DEF best
  <2>5. E \in SUBSET ds /\ E # {}
    BY <2>4
  <2>6. IsFiniteSet(E) /\ E \in SUBSET Int
    <3> HIDE DEF E
    <3>1. ds \in SUBSET Int
      BY <1>3
    <3>2. E \in SUBSET Int
      BY <2>5, <3>1
    <3>3. QED
      BY <1>3, <2>5, <3>2, FS_Subset
  <2>7. Max(E) \in E /\ \A y \in E : y <= Max(E)
    <3> HIDE DEF E
    <3>1. QED
      BY <2>5, <2>6, MaxIs
  <2> DEFINE d == Max(E)
  <2>8. d \in ds /\ Padding(xs, d) = best /\ \A e \in ds : Padding(xs, e) = best => e <= d
    BY <2>7
  <2> HIDE DEF d
  <2>9. ASSUME NEW e \in ds
        PROVE  Padding(xs, d) < Padding(xs, e) \/ (Padding(xs, d) = Padding(xs, e) /\ d >= e)
    <3>1. best <= Padding(xs, e) /\ Padding(xs, e) \in Nat /\ best \in Nat /\ d \in Nat /\ e \in Nat
      BY <1>3, <1>5, <2>3, <2>8
    <3>2. QED
      BY <2>8, <3>1
  <2>10. QED
    BY <2>8, <2>9
<1>7. ApproximateGcd(xs, low) \in ds
  BY <1>4, <1>6
<1>8. QED
  BY <1>3, <1>7

\* A window's layers, and the windows in order.
WindowOf(specs, l) ==
  {k \in {h \in DOMAIN specs : specs[h].kind = "swa_mla"} :
     specs[k].block = specs[l].block /\ specs[k].window = specs[l].window}

LEMMA WindowsAre ==
  ASSUME NEW D \in SUBSET Nat, IsFiniteSet(D), NEW specs \in [D -> Specs]
  PROVE  LET W == Windows(specs) IN
         /\ Len(W) \in Nat /\ DOMAIN W = 1 .. Len(W)
         /\ \A i \in DOMAIN W : \E l \in D : specs[l].kind = "swa_mla" /\ W[i] = WindowOf(specs, l)
         /\ \A l \in D : specs[l].kind = "swa_mla" => \E i \in DOMAIN W : l \in W[i]
         /\ \A i, j \in DOMAIN W : i # j => W[i] \cap W[j] = {}
<1> DEFINE swa == {l \in D : specs[l].kind = "swa_mla"}
           S == {WindowOf(specs, l) : l \in swa}
           R == {p \in S \X S : Min(p[1]) < Min(p[2])}
           n == Cardinality(S)
           o == Windows(specs)
<1>1. swa = {l \in DOMAIN specs : specs[l].kind = "swa_mla"}
  OBVIOUS
<1>2. S = {WindowOf(specs, l) : l \in {h \in DOMAIN specs : specs[h].kind = "swa_mla"}}
  BY <1>1
<1>3. o = [k \in 1 .. n |-> CHOOSE x \in S : Cardinality({y \in S : Min(y) < Min(x)}) = k - 1]
  <2> DEFINE Z == {WindowOf(specs, l) : l \in {h \in DOMAIN specs : specs[h].kind = "swa_mla"}}
  <2>1. o = [k \in 1 .. Cardinality(Z) |->
               CHOOSE x \in Z : Cardinality({y \in Z : Min(y) < Min(x)}) = k - 1]
    BY DEF Windows, Sorted, WindowOf
  <2>2. Z = S
    BY <1>2
  <2> HIDE DEF Z, S, o
  <2>3. QED
    BY <2>1, <2>2
<1>4. \A l \in swa : l \in WindowOf(specs, l)
  BY DEF WindowOf
<1>5. \A l, k \in swa : WindowOf(specs, l) \cap WindowOf(specs, k) # {}
                        => WindowOf(specs, l) = WindowOf(specs, k)
  BY DEF WindowOf
<1>6. \A A, B \in S : A # B => A \cap B = {}
  BY <1>5
<1>7. \A A \in S : Min(A) \in A /\ Min(A) \in Nat
  <2> SUFFICES ASSUME NEW A \in S PROVE Min(A) \in A /\ Min(A) \in Nat
    OBVIOUS
  <2>1. A \in SUBSET Nat /\ A # {}
    BY <1>4 DEF WindowOf
  <2>2. QED
    BY <2>1, MinIs
<1>8. IsFiniteSet(S)
  <2> DEFINE f == [l \in D |-> WindowOf(specs, l)]
  <2>1. \A x \in S : \E y \in D : f[y] = x
    OBVIOUS
  <2> HIDE DEF S, f
  <2>2. QED
    BY <2>1, FiniteImage
<1>9. \A A \in S : \E l \in swa : A = WindowOf(specs, l)
  OBVIOUS
<1>10. \A l \in swa : WindowOf(specs, l) \in S
  OBVIOUS
<1>11. \A x \in S : {y \in S : Min(y) < Min(x)} = {y \in S : <<y, x>> \in R}
  OBVIOUS
<1>12. \A x, y \in S : <<x, y>> \in R <=> Min(x) < Min(y)
  OBVIOUS
<1> HIDE DEF S, R
<1>13. IsOrder(R, S)
  <2>1. \A x \in S : <<x, x>> \notin R
    BY <1>7, <1>12
  <2>2. \A x, y \in S : x # y => <<x, y>> \in R \/ <<y, x>> \in R
    <3> SUFFICES ASSUME NEW x \in S, NEW y \in S, x # y PROVE <<x, y>> \in R \/ <<y, x>> \in R
      OBVIOUS
    <3>1. Min(x) # Min(y)
      BY <1>6, <1>7
    <3>2. Min(x) < Min(y) \/ Min(y) < Min(x)
      BY <1>7, <3>1
    <3>3. QED
      BY <1>12, <3>2
  <2>3. \A x, y, z \in S : <<x, y>> \in R /\ <<y, z>> \in R => <<x, z>> \in R
    BY <1>7, <1>12
  <2>4. QED
    BY <2>1, <2>2, <2>3 DEF IsOrder
<1>14. IsRanking(o, R, S)
  <2> SUFFICES ASSUME \A k \in 1 .. n : \E x \in S : Cardinality({y \in S : <<y, x>> \in R}) = k - 1
               PROVE  /\ o \in [1 .. n -> S]
                      /\ \A k \in 1 .. n : Cardinality({y \in S : <<y, o[k]>> \in R}) = k - 1
    BY DEF IsRanking
  <2>1. \A k \in 1 .. n : \E x \in S : Cardinality({y \in S : Min(y) < Min(x)}) = k - 1
    BY <1>11
  <2>2. \A k \in 1 .. n : o[k] \in S /\ Cardinality({y \in S : Min(y) < Min(o[k])}) = k - 1
    BY <1>3, <2>1
  <2>3. o \in [1 .. n -> S]
    BY <1>3, <2>2
  <2>4. \A k \in 1 .. n : {y \in S : Min(y) < Min(o[k])} = {y \in S : <<y, o[k]>> \in R}
    BY <1>11, <2>2
  <2>5. QED
    BY <2>2, <2>3, <2>4
<1> HIDE DEF o
<1>15. /\ n \in Nat /\ o \in Seq(S) /\ Len(o) = n
       /\ \A x \in S : \E k \in 1 .. n : o[k] = x
       /\ \A i, j \in 1 .. n : o[i] = o[j] => i = j
  BY <1>8, <1>13, <1>14, ByRank
<1> HIDE DEF n
<1>16. DOMAIN o = 1 .. n /\ \A i \in 1 .. n : o[i] \in S
  BY <1>15
<1>17. \A i \in 1 .. n : \E l \in D : specs[l].kind = "swa_mla" /\ o[i] = WindowOf(specs, l)
  BY <1>9, <1>16
<1>18. \A i, j \in 1 .. n : i # j => o[i] \cap o[j] = {}
  BY <1>6, <1>15, <1>16
<1>19. \A l \in D : specs[l].kind = "swa_mla" => \E i \in 1 .. n : l \in o[i]
  <2> SUFFICES ASSUME NEW l \in D, specs[l].kind = "swa_mla" PROVE \E i \in 1 .. n : l \in o[i]
    OBVIOUS
  <2>1. l \in WindowOf(specs, l) /\ WindowOf(specs, l) \in S
    BY <1>4, <1>10
  <2>2. QED
    BY <1>15, <2>1
<1>20. QED
  BY <1>15, <1>16, <1>17, <1>18, <1>19 DEF o

-----------------------------------------------------------------------------
\* The windows' padded pages, and the layers of a tuple.

LEMMA PaddedIs ==
  ASSUME NEW s \in Specs, NEW pages \in SUBSET (Nat \ {0}), IsFiniteSet(pages), pages # {},
         PageSize(s) <= Max(pages)
  PROVE  /\ PaddedTo(s, pages) \in Specs /\ PageSize(PaddedTo(s, pages)) \in pages
         /\ PageSize(PaddedTo(s, pages)) >= PageSize(s)
         /\ PaddedTo(s, pages).kind = s.kind /\ PaddedTo(s, pages).block = s.block
         /\ PaddedTo(s, pages).window = s.window
<1> DEFINE Q == {q \in pages : q >= PageSize(s)}
           p == Min(Q)
<1>1. PageSize(s) \in Nat \ {0}
  BY Pages
<1>2. Q \in SUBSET Nat /\ Q # {}
  <2>1. pages \in SUBSET Int
    OBVIOUS
  <2>2. Max(pages) \in pages /\ Max(pages) \in Nat
    BY <2>1, MaxIs
  <2>3. Max(pages) >= PageSize(s)
    BY <1>1, <2>2
  <2>4. Max(pages) \in Q
    BY <2>2, <2>3
  <2>5. QED
    BY <2>4
<1>3. p \in Q
  <2> HIDE DEF Q
  <2>1. QED
    BY <1>2, MinIs
<1>4. p \in pages /\ p \in Nat \ {0} /\ p >= PageSize(s)
  BY <1>3
<1>5. PaddedTo(s, pages) = IF PageSize(s) < p THEN [s EXCEPT !.pad = p] ELSE s
  BY DEF PaddedTo
<1> HIDE DEF p
<1>6. CASE PageSize(s) < p
  <2> DEFINE t == [s EXCEPT !.pad = p]
  <2>1. /\ t \in Specs /\ t.pad = p /\ t.kind = s.kind /\ t.block = s.block /\ t.window = s.window
    BY <1>4 DEF Specs
  <2>2. t.pad # 0
    BY <1>4, <2>1
  <2> HIDE DEF t
  <2>3. PageSize(t) = p
    BY <2>1, <2>2 DEF PageSize
  <2>4. PaddedTo(s, pages) = t
    BY <1>5, <1>6 DEF t
  <2>5. QED
    BY <1>4, <2>1, <2>3, <2>4
<1>7. CASE ~ (PageSize(s) < p)
  <2>1. PageSize(s) = p
    BY <1>1, <1>4, <1>7
  <2>2. QED
    BY <1>4, <1>5, <1>7, <2>1
<1>8. QED
  BY <1>6, <1>7

LEMMA TupleIs ==
  ASSUME NEW D \in SUBSET Nat, IsFiniteSet(D), D # {}, NEW s \in [D -> Specs],
         NEW n \in Nat \ {0}, n <= LayerTuples(s)
  PROVE  /\ \A i \in 1 .. n : Tuple(s, i, n) \in SUBSET D /\ Tuple(s, i, n) # {}
         /\ \A i, h \in 1 .. n : i # h => Tuple(s, i, n) \cap Tuple(s, h, n) = {}
         /\ \A l \in D : \E i \in 1 .. n : l \in Tuple(s, i, n)
<1> DEFINE C(p) == LayersOfPage(s, p)
           o(p) == InOrder(C(p))
<1>1. \A p : C(p) \in SUBSET D /\ \A l \in C(p) : PageSize(s[l]) = p
  BY DEF LayersOfPage
<1>2. \A p : C(p) \in SUBSET Int /\ IsFiniteSet(C(p))
  <2> SUFFICES ASSUME NEW p PROVE C(p) \in SUBSET Int /\ IsFiniteSet(C(p))
    OBVIOUS
  <2>1. C(p) \in SUBSET D
    BY <1>1
  <2> HIDE DEF C
  <2>5. Nat \subseteq Int
    OBVIOUS
  <2>2. C(p) \in SUBSET Int
    BY <2>1, <2>5
  <2>3. IsFiniteSet(C(p))
    BY <2>1, FS_Subset
  <2>4. QED
    BY <2>2, <2>3
<1>3. \A l \in D : PageSize(s[l]) \in PageSizes(s) /\ l \in C(PageSize(s[l]))
  BY DEF PageSizes, Values, LayersOfPage
<1>4. PICK q \in PageSizes(s) : Cardinality(C(q)) = LayerTuples(s)
  BY TuplesIs
<1> HIDE DEF C
<1>5. \A p : /\ o(p) \in Seq(C(p)) /\ Len(o(p)) = Cardinality(C(p)) /\ ToSet(o(p)) = C(p)
             /\ DOMAIN o(p) = 1 .. Len(o(p))
             /\ \A i, j \in DOMAIN o(p) : o(p)[i] = o(p)[j] => i = j
  BY <1>2, InOrderIs
<1>6. \A i : Tuple(s, i, n) = UNION {ToSet(Stride(o(p), i, n)) : p \in PageSizes(s)}
  BY DEF Tuple, C
<1> HIDE DEF o
<1>7. \A p : /\ \A i \in 1 .. n : ToSet(Stride(o(p), i, n)) \in SUBSET C(p)
             /\ \A i, h \in 1 .. n : i # h =>
                  ToSet(Stride(o(p), i, n)) \cap ToSet(Stride(o(p), h, n)) = {}
  <2> SUFFICES ASSUME NEW p
               PROVE  /\ \A i \in 1 .. n : ToSet(Stride(o(p), i, n)) \in SUBSET C(p)
                      /\ \A i, h \in 1 .. n : i # h =>
                           ToSet(Stride(o(p), i, n)) \cap ToSet(Stride(o(p), h, n)) = {}
    OBVIOUS
  <2>1. /\ o(p) \in Seq(C(p)) /\ ToSet(o(p)) = C(p)
        /\ \A i, j \in DOMAIN o(p) : o(p)[i] = o(p)[j] => i = j
    BY <1>5
  <2>2. QED
    BY <2>1, Dealt
<1>8. \A p : \A l \in C(p) : \E i \in 1 .. n : l \in ToSet(Stride(o(p), i, n))
  <2> SUFFICES ASSUME NEW p, NEW l \in C(p)
               PROVE  \E i \in 1 .. n : l \in ToSet(Stride(o(p), i, n))
    OBVIOUS
  <2>1. l \in ToSet(o(p)) /\ o(p) \in Seq(C(p)) /\ DOMAIN o(p) = 1 .. Len(o(p))
    BY <1>5
  <2>2. PICK k \in 1 .. Len(o(p)) : o(p)[k] = l
    BY <2>1 DEF ToSet
  <2>3. PICK i \in 1 .. n : \E j \in DOMAIN Stride(o(p), i, n) : i + (j - 1) * n = k
    BY <2>1, StrideIs
  <2>4. PICK j \in DOMAIN Stride(o(p), i, n) : i + (j - 1) * n = k
    BY <2>3
  <2>5. Stride(o(p), i, n)[j] = o(p)[i + (j - 1) * n]
    BY <2>1, StrideIs
  <2>6. Stride(o(p), i, n)[j] = l
    BY <2>2, <2>4, <2>5
  <2>7. QED
    BY <2>6 DEF ToSet
<1>9. ASSUME NEW i \in 1 .. n PROVE Tuple(s, i, n) \in SUBSET D
  BY <1>1, <1>6, <1>7
<1>10. ASSUME NEW i \in 1 .. n PROVE Tuple(s, i, n) # {}
  <2>1. o(q) \in Seq(C(q)) /\ Len(o(q)) = LayerTuples(s)
    BY <1>4, <1>5
  <2>2. LayerTuples(s) \in Nat
    BY TuplesIs
  <2>3. i <= Len(o(q))
    BY <2>1, <2>2
  <2>4. Stride(o(q), i, n) # <<>> /\ Stride(o(q), i, n) \in Seq(C(q))
    BY <2>1, <2>3, StrideIs
  <2>5. Stride(o(q), i, n)[1] \in ToSet(Stride(o(q), i, n))
    BY <2>4 DEF ToSet
  <2> DEFINE T == ToSet(Stride(o(q), i, n))
  <2>6. T # {} /\ q \in PageSizes(s)
    BY <1>4, <2>5
  <2>7. T \subseteq Tuple(s, i, n)
    BY <1>6, <2>6
  <2>8. QED
    BY <2>6, <2>7
<1>11. ASSUME NEW i \in 1 .. n, NEW h \in 1 .. n, i # h, NEW l \in Tuple(s, i, n),
              l \in Tuple(s, h, n)
       PROVE  FALSE
  <2>1. PICK p \in PageSizes(s) : l \in ToSet(Stride(o(p), i, n))
    BY <1>6
  <2>2. PICK r \in PageSizes(s) : l \in ToSet(Stride(o(r), h, n))
    BY <1>6, <1>11
  <2>3. l \in C(p) /\ l \in C(r)
    BY <1>7, <2>1, <2>2
  <2>4. p = r
    BY <1>1, <2>3
  <2>5. QED
    BY <1>7, <1>11, <2>1, <2>2, <2>4
<1>12. ASSUME NEW l \in D PROVE \E i \in 1 .. n : l \in Tuple(s, i, n)
  <2> DEFINE p == PageSize(s[l])
  <2>1. p \in PageSizes(s) /\ l \in C(p)
    BY <1>3
  <2> HIDE DEF p
  <2>2. PICK i \in 1 .. n : l \in ToSet(Stride(o(p), i, n))
    BY <1>8, <2>1
  <2>3. QED
    BY <1>6, <2>1, <2>2
<1>13. QED
  BY <1>9, <1>10, <1>11, <1>12

\* A group of some layers, each with its own spec.
IsPart(g, layers, s) == g = Group(InOrder(layers), TRUE, Restrict(s, layers))

LEMMA AlikePart ==
  ASSUME NEW S, NEW T \in SUBSET S, Alike(S)
  PROVE  Alike(T)
BY DEF Alike

LEMMA PartGroup ==
  ASSUME NEW D \in SUBSET Nat, IsFiniteSet(D), NEW s \in [D -> Specs], Alike(Values(s)),
         NEW layers \in SUBSET D, layers # {}, NEW g, IsPart(g, layers, s)
  PROVE  /\ IsGroup(g, D) /\ g.uniform /\ DOMAIN g.specs = layers
         /\ \A l \in layers : g.specs[l] = s[l]
         /\ PageSizes(g.specs) \subseteq PageSizes(s)
<1>1. /\ g.layers = InOrder(layers) /\ g.uniform = TRUE /\ g.specs = Restrict(s, layers)
      /\ g = Group(g.layers, g.uniform, g.specs)
  BY DEF Group, IsPart
<1>12. Restrict(s, layers) = [l \in layers |-> s[l]]
  BY DEF Restrict
<1>2. DOMAIN g.specs = layers /\ \A l \in layers : g.specs[l] = s[l]
  BY <1>1, <1>12
<1>3. g.specs \in [layers -> Specs]
  BY <1>1, <1>12
<1>4. Values(g.specs) \in SUBSET Values(s)
  BY <1>2 DEF Values
<1>11. IsFiniteSet(layers)
  BY FS_Subset
<1>5. layers \in SUBSET Int /\ IsFiniteSet(layers)
  BY <1>11
<1>6. /\ InOrder(layers) \in Seq(layers) /\ ToSet(InOrder(layers)) = layers
      /\ \A i, j \in DOMAIN InOrder(layers) : InOrder(layers)[i] = InOrder(layers)[j] => i = j
  BY <1>5, InOrderIs
<1>7. Alike(Values(g.specs))
  BY <1>4, AlikePart
<1>8. IsGroup(g, D)
  BY <1>1, <1>2, <1>3, <1>6, <1>7 DEF IsGroup
<1>9. PageSizes(g.specs) \subseteq PageSizes(s)
  BY <1>4 DEF PageSizes
<1>10. QED
  BY <1>1, <1>2, <1>8, <1>9

-----------------------------------------------------------------------------
\* One window's groups.

\* The groups of a window: of all its layers, each group with layers of its own.
Deal(gs, s, D) ==
  /\ Apart(gs, D) /\ Len(gs) \in Nat \ {0}
  /\ \A i \in DOMAIN gs : /\ gs[i].uniform
                          /\ \A l \in DOMAIN gs[i].specs : gs[i].specs[l] = s[l]
                          /\ PageSizes(gs[i].specs) \subseteq PageSizes(s)

LEMMA TupleGroupsAre ==
  ASSUME NEW D \in SUBSET Nat, IsFiniteSet(D), D # {}, NEW s \in [D -> Specs], Alike(Values(s)),
         NEW d \in Nat \ {0}
  PROVE  Deal(TupleGroups(s, d), s, D)
<1> DEFINE n == CeilDiv(LayerTuples(s), d)
           gs == TupleGroups(s, d)
<1>1. n \in Nat \ {0} /\ n <= LayerTuples(s)
  <2>1. LayerTuples(s) \in Nat \ {0}
    BY TuplesIs
  <2>2. QED
    BY <2>1, CeilIs
<1>2. gs = [i \in 1 .. n |-> Group(InOrder(Tuple(s, i, n)), TRUE, Restrict(s, Tuple(s, i, n)))]
  BY DEF TupleGroups
<1>3. Len(gs) = n /\ DOMAIN gs = 1 .. n
  BY <1>1, <1>2
<1> HIDE DEF n, gs
<1>4. gs \in Seq({gs[i] : i \in DOMAIN gs})
  <2>1. gs \in [1 .. n -> {gs[i] : i \in DOMAIN gs}]
    BY <1>2, <1>3
  <2>2. QED
    BY <1>1, <2>1
<1>5. /\ \A i \in 1 .. n : Tuple(s, i, n) \in SUBSET D /\ Tuple(s, i, n) # {}
      /\ \A i, h \in 1 .. n : i # h => Tuple(s, i, n) \cap Tuple(s, h, n) = {}
      /\ \A l \in D : \E i \in 1 .. n : l \in Tuple(s, i, n)
  BY <1>1, TupleIs
<1>6. ASSUME NEW i \in 1 .. n
      PROVE  /\ IsGroup(gs[i], D) /\ gs[i].uniform /\ DOMAIN gs[i].specs = Tuple(s, i, n)
             /\ \A l \in DOMAIN gs[i].specs : gs[i].specs[l] = s[l]
             /\ PageSizes(gs[i].specs) \subseteq PageSizes(s)
  <2>1. IsPart(gs[i], Tuple(s, i, n), s)
    BY <1>2 DEF IsPart
  <2>2. Tuple(s, i, n) \in SUBSET D /\ Tuple(s, i, n) # {}
    BY <1>5
  <2> DEFINE t == Tuple(s, i, n)
             g == gs[i]
  <2>3. IsPart(g, t, s) /\ t \in SUBSET D /\ t # {}
    BY <2>1, <2>2
  <2> HIDE DEF t, g
  <2>4. /\ IsGroup(g, D) /\ g.uniform /\ DOMAIN g.specs = t
        /\ \A l \in t : g.specs[l] = s[l]
        /\ PageSizes(g.specs) \subseteq PageSizes(s)
    BY <2>3, PartGroup
  <2>5. QED
    BY <2>4 DEF t, g
<1>7. QED
  <2>1. Apart(gs, D)
    BY <1>1, <1>3, <1>4, <1>5, <1>6 DEF Apart
  <2>2. Deal(gs, s, D)
    BY <1>1, <1>3, <1>6, <2>1 DEF Deal
  <2>3. QED
    BY <2>2 DEF gs

\* All layers of a window plan alike.
LEMMA WindowAlike ==
  ASSUME NEW S \in SUBSET Specs, \A s \in S : s.kind = "swa_mla",
         \A s, t \in S : s.block = t.block /\ s.window = t.window
  PROVE  Alike(S)
<1> SUFFICES ASSUME NEW s \in S, NEW t \in S
             PROVE  /\ s.block = t.block
                    /\ s.kind = "mamba" <=> t.kind = "mamba"
                    /\ \A n \in Nat : PagesFor(s, n) = PagesFor(t, n)
  BY DEF Alike
<1>1. s.kind = "swa_mla" /\ t.kind = "swa_mla" /\ s.block = t.block /\ s.window = t.window
  OBVIOUS
<1>2. QED
  BY <1>1 DEF PagesFor, IsSliding

LEMMA PaddedWindowIs ==
  ASSUME NEW D \in SUBSET Nat, IsFiniteSet(D), NEW specs \in [D -> Specs],
         NEW pages \in SUBSET (Nat \ {0}), IsFiniteSet(pages), pages # {},
         NEW l \in D, specs[l].kind = "swa_mla", NEW W, W = WindowOf(specs, l),
         \A k \in W : PageSize(specs[k]) <= Max(pages)
  PROVE  /\ W \in SUBSET D /\ W # {} /\ IsFiniteSet(W)
         /\ PaddedWindow(specs, W, pages) \in [W -> Specs]
         /\ Alike(Values(PaddedWindow(specs, W, pages)))
         /\ PageSizes(PaddedWindow(specs, W, pages)) \subseteq pages
<1> DEFINE s == PaddedWindow(specs, W, pages)
<1>1. /\ W \in SUBSET D /\ W # {}
      /\ \A k \in W : /\ specs[k].kind = "swa_mla" /\ specs[k].block = specs[l].block
                      /\ specs[k].window = specs[l].window
  BY DEF WindowOf
<1>2. IsFiniteSet(W)
  BY <1>1, FS_Subset
<1>3. \A k \in W : /\ PaddedTo(specs[k], pages) \in Specs /\ PageSize(PaddedTo(specs[k], pages)) \in pages
                   /\ PaddedTo(specs[k], pages).kind = specs[k].kind
                   /\ PaddedTo(specs[k], pages).block = specs[k].block
                   /\ PaddedTo(specs[k], pages).window = specs[k].window
  <2> SUFFICES ASSUME NEW k \in W
               PROVE  /\ PaddedTo(specs[k], pages) \in Specs
                      /\ PageSize(PaddedTo(specs[k], pages)) \in pages
                      /\ PaddedTo(specs[k], pages).kind = specs[k].kind
                      /\ PaddedTo(specs[k], pages).block = specs[k].block
                      /\ PaddedTo(specs[k], pages).window = specs[k].window
    OBVIOUS
  <2>1. specs[k] \in Specs /\ PageSize(specs[k]) <= Max(pages)
    BY <1>1
  <2>2. QED
    BY <2>1, PaddedIs
<1>4. s \in [W -> Specs] /\ \A k \in W : s[k] = PaddedTo(specs[k], pages)
  BY <1>3 DEF PaddedWindow
<1> HIDE DEF s
<1>5. Values(s) = {s[k] : k \in W}
  BY <1>4, ValuesAre
<1>6. Alike(Values(s))
  <2>1. Values(s) \in SUBSET Specs
    BY <1>4, ValuesAre
  <2>2. \A x \in Values(s) : /\ x.kind = "swa_mla" /\ x.block = specs[l].block
                             /\ x.window = specs[l].window
    BY <1>1, <1>3, <1>4, <1>5
  <2>3. QED
    BY <2>1, <2>2, WindowAlike
<1>7. PageSizes(s) \subseteq pages
  BY <1>3, <1>4, <1>5 DEF PageSizes
<1>8. QED
  BY <1>1, <1>2, <1>4, <1>6, <1>7 DEF s

-----------------------------------------------------------------------------
\* All windows' groups together.

\* m sequences of uniform groups, those of seqs[i] of the layers W[i], with pages in P.
InParts(seqs, m, T, D, W, P) ==
  /\ m \in Nat /\ seqs \in [1 .. m -> Seq(T)]
  /\ \A i \in 1 .. m : W[i] \in SUBSET D
  /\ \A i, j \in 1 .. m : i # j => W[i] \cap W[j] = {}
  /\ \A i \in 1 .. m : Apart(seqs[i], W[i])
  /\ \A i \in 1 .. m : \A j \in DOMAIN seqs[i] :
       seqs[i][j].uniform /\ PageSizes(seqs[i][j].specs) \subseteq P
UniformWithin(gs, P) == \A g \in DOMAIN gs : gs[g].uniform /\ PageSizes(gs[g].specs) \subseteq P

LEMMA FlatApart ==
  ASSUME NEW T, NEW D, NEW m, NEW seqs, NEW W, NEW P, InParts(seqs, m, T, D, W, P)
  PROVE  /\ Apart(FlattenSeq(seqs), D) /\ FlattenSeq(seqs) \in Seq(T)
         /\ UniformWithin(FlattenSeq(seqs), P)
<1>0. /\ m \in Nat /\ seqs \in [1 .. m -> Seq(T)]
      /\ \A i \in 1 .. m : W[i] \in SUBSET D
      /\ \A i, j \in 1 .. m : i # j => W[i] \cap W[j] = {}
      /\ \A i \in 1 .. m : Apart(seqs[i], W[i])
      /\ \A i \in 1 .. m : \A j \in DOMAIN seqs[i] :
           seqs[i][j].uniform /\ PageSizes(seqs[i][j].specs) \subseteq P
  BY DEF InParts
<1> DEFINE r == FlattenSeq(seqs)
<1>1. r \in Seq(T) /\ \E at : IsPlacing(at, r, seqs, m)
  BY <1>0, FlattenPlaces
<1>2. PICK at : IsPlacing(at, r, seqs, m)
  BY <1>1
<1> HIDE DEF r
<1>3. Len(r) \in Nat /\ DOMAIN r = 1 .. Len(r)
  BY <1>1
<1>4. \A g \in DOMAIN r : \E i \in 1 .. m : \E j \in DOMAIN seqs[i] :
        at[g] = <<i, j>> /\ r[g] = seqs[i][j]
  BY <1>2 DEF IsPlacing
<1>5. \A i \in 1 .. m : \A j \in DOMAIN seqs[i] :
        IsGroup(seqs[i][j], D) /\ DOMAIN seqs[i][j].specs \in SUBSET W[i]
  <2> SUFFICES ASSUME NEW i \in 1 .. m, NEW j \in DOMAIN seqs[i]
               PROVE  IsGroup(seqs[i][j], D) /\ DOMAIN seqs[i][j].specs \in SUBSET W[i]
    OBVIOUS
  <2>1. IsGroup(seqs[i][j], W[i])
    BY <1>0 DEF Apart
  <2>2. DOMAIN seqs[i][j].specs \in SUBSET W[i]
    BY <2>1 DEF IsGroup
  <2>3. QED
    BY <1>0, <2>1, <2>2, GroupOfMore
<1>6. ASSUME NEW g \in DOMAIN r
      PROVE  IsGroup(r[g], D) /\ r[g].uniform /\ PageSizes(r[g].specs) \subseteq P
  <2>1. PICK i \in 1 .. m : \E j \in DOMAIN seqs[i] : at[g] = <<i, j>> /\ r[g] = seqs[i][j]
    BY <1>4
  <2>2. PICK j \in DOMAIN seqs[i] : at[g] = <<i, j>> /\ r[g] = seqs[i][j]
    BY <2>1
  <2>3. /\ IsGroup(seqs[i][j], D) /\ seqs[i][j].uniform
        /\ PageSizes(seqs[i][j].specs) \subseteq P
    BY <1>0, <1>5
  <2>4. QED
    BY <2>2, <2>3
<1>7. ASSUME NEW g \in DOMAIN r, NEW h \in DOMAIN r, g # h
      PROVE  DOMAIN r[g].specs \cap DOMAIN r[h].specs = {}
  <2>2. PICK i \in 1 .. m : \E j \in DOMAIN seqs[i] : at[g] = <<i, j>> /\ r[g] = seqs[i][j]
    BY <1>4
  <2>3. PICK j \in DOMAIN seqs[i] : at[g] = <<i, j>> /\ r[g] = seqs[i][j]
    BY <2>2
  <2>4. PICK k \in 1 .. m : \E l \in DOMAIN seqs[k] : at[h] = <<k, l>> /\ r[h] = seqs[k][l]
    BY <1>4
  <2>5. PICK l \in DOMAIN seqs[k] : at[h] = <<k, l>> /\ r[h] = seqs[k][l]
    BY <2>4
  <2>6. CASE i = k
    <3>1. j # l
      <4> SUFFICES ASSUME j = l PROVE FALSE
        OBVIOUS
      <4>1. at[g] = at[h]
        BY <2>3, <2>5, <2>6
      <4>2. QED
        BY <1>2, <1>7, <4>1 DEF IsPlacing
    <3>2. \A a, b \in DOMAIN seqs[i] : a # b => DOMAIN seqs[i][a].specs \cap DOMAIN seqs[i][b].specs = {}
      BY <1>0 DEF Apart
    <3>3. QED
      BY <2>3, <2>5, <2>6, <3>1, <3>2
  <2>7. CASE i # k
    <3>1. W[i] \cap W[k] = {}
      BY <1>0, <2>7
    <3>2. DOMAIN r[g].specs \in SUBSET W[i] /\ DOMAIN r[h].specs \in SUBSET W[k]
      BY <1>5, <2>3, <2>5
    <3>3. QED
      BY <3>1, <3>2
  <2>8. QED
    BY <2>6, <2>7
<1>8. r \in Seq({r[i] : i \in DOMAIN r})
  BY <1>1, SeqOfItsOwn
<1>9. Apart(r, D)
  BY <1>3, <1>6, <1>7, <1>8 DEF Apart
<1>10. QED
  BY <1>1, <1>6, <1>9 DEF r, UniformWithin

\* Full layers, and windows whose pages are no larger than theirs.
LEMMA ApplyIs ==
  ASSUME NEW D \in SUBSET Nat, IsFiniteSet(D), NEW specs \in [D -> Specs],
         UniformGroupsApply(specs)
  PROVE  LET A == {l \in D : specs[l].kind = "mla"}
             full == FullLayers(specs)
             W == Windows(specs)
         IN /\ A # {} /\ A \in SUBSET D /\ IsFiniteSet(A) /\ full \in [A -> Specs] /\ DOMAIN full = A
            /\ Alike(Values(full))
            /\ PageSizes(full) \in SUBSET (Nat \ {0}) /\ PageSizes(full) # {}
            /\ IsFiniteSet(PageSizes(full))
            /\ \A i \in DOMAIN W : \A k \in W[i] : PageSize(specs[k]) <= Max(PageSizes(full))
<1> DEFINE A == {l \in D : specs[l].kind = "mla"}
           full == FullLayers(specs)
           W == Windows(specs)
           pages == PageSizes(full)
<1>0. full = [l \in A |-> specs[l]]
  BY DEF FullLayers, Restrict
<1>1. /\ A # {} /\ UniformType(Values(full))
      /\ \A S \in ToSet(W) : Max({PageSize(specs[l]) : l \in S}) <= Max(pages)
  <2>1. DOMAIN full = A
    BY <1>0
  <2>2. QED
    BY <2>1 DEF UniformGroupsApply
<1>2. A \in SUBSET D
  OBVIOUS
<1> HIDE DEF A
<1>3. IsFiniteSet(A)
  BY <1>2, FS_Subset
<1>4. full \in [A -> Specs] /\ DOMAIN full = A
  BY <1>0, <1>2
<1> HIDE DEF full
<1>5. Alike(Values(full))
  BY <1>1, <1>4, ValuesAre, UniformIsAlike
<1>6. pages \in SUBSET (Nat \ {0}) /\ pages # {}
  BY <1>1, <1>4, ValuesAre, Pages DEF PageSizes
<1>7. IsFiniteSet(pages)
  <2> DEFINE f == [l \in A |-> PageSize(full[l])]
  <2>1. \A x \in pages : \E y \in A : f[y] = x
    BY <1>4, ValuesAre DEF PageSizes
  <2> HIDE DEF f, pages
  <2>2. QED
    BY <1>3, <2>1, FiniteImage
<1>8. pages \in SUBSET Int /\ Max(pages) \in Int
  <2> HIDE DEF pages
  <2>1. pages \in SUBSET Int
    BY <1>6
  <2>2. Max(pages) \in pages
    BY <1>6, <1>7, <2>1, MaxIs
  <2>3. QED
    BY <2>1, <2>2
<1>9. ASSUME NEW i \in DOMAIN W, NEW k \in W[i] PROVE PageSize(specs[k]) <= Max(pages)
  <2> DEFINE S == W[i]
             bytes == {PageSize(specs[l]) : l \in S}
  <2>1. S \in ToSet(W)
    BY DEF ToSet
  <2>2. S \in SUBSET D
    <3>1. PICK l \in D : W[i] = WindowOf(specs, l)
      BY WindowsAre
    <3>2. QED
      BY <3>1 DEF WindowOf
  <2> HIDE DEF S
  <2>3. bytes \in SUBSET Nat /\ PageSize(specs[k]) \in bytes
    BY <2>2, Pages DEF S
  <2>4. IsFiniteSet(bytes)
    <3> DEFINE f == [l \in D |-> PageSize(specs[l])]
    <3>1. \A x \in bytes : \E y \in D : f[y] = x
      BY <2>2
    <3> HIDE DEF f, bytes
    <3>2. QED
      BY <3>1, FiniteImage
  <2>5. Max(bytes) <= Max(pages)
    BY <1>1, <2>1
  <2> HIDE DEF bytes
  <2>6. bytes \in SUBSET Int
    BY <2>3
  <2>7. Max(bytes) \in Int /\ PageSize(specs[k]) <= Max(bytes) /\ PageSize(specs[k]) \in Int
    BY <2>3, <2>4, <2>6, MaxIs
  <2>8. QED
    BY <1>8, <2>5, <2>7
<1>10. QED
  BY <1>1, <1>2, <1>3, <1>4, <1>5, <1>6, <1>7, <1>9 DEF A, full

-----------------------------------------------------------------------------
\* The groups of a model of several uniform types.

LEMMA UniformGroupsIs ==
  ASSUME NEW D \in SUBSET Nat, IsFiniteSet(D), NEW specs \in [D -> Specs],
         UniformGroupsApply(specs)
  PROVE  GroupsOK(UniformGroups(specs), D) /\ Len(UniformGroups(specs)) # 0
<1> DEFINE A == {l \in D : specs[l].kind = "mla"}
           full == FullLayers(specs)
           pages == PageSizes(full)
           W == Windows(specs)
           m == Len(W)
           swa == [i \in DOMAIN W |-> PaddedWindow(specs, W[i], PageSizes(full))]
           rest == [i \in DOMAIN W |-> LayerTuples(Restrict(specs, W[i]))]
           tuples == <<LayerTuples(full)>> \o rest
           d == ApproximateGcd(tuples, tuples[1])
           seqs == [i \in DOMAIN swa |-> TupleGroups(swa[i], d)]
           first == Group(InOrder(DOMAIN full), TRUE, full)
           gs == UniformGroups(specs)
<1>1. /\ A # {} /\ A \in SUBSET D /\ IsFiniteSet(A) /\ full \in [A -> Specs] /\ DOMAIN full = A
      /\ Alike(Values(full))
      /\ pages \in SUBSET (Nat \ {0}) /\ pages # {} /\ IsFiniteSet(pages)
      /\ \A i \in DOMAIN W : \A k \in W[i] : PageSize(specs[k]) <= Max(pages)
  BY ApplyIs
<1>2. /\ m \in Nat /\ DOMAIN W = 1 .. m
      /\ \A i \in 1 .. m : \E l \in D : specs[l].kind = "swa_mla" /\ W[i] = WindowOf(specs, l)
      /\ \A i, j \in 1 .. m : i # j => W[i] \cap W[j] = {}
  <2>1. /\ Len(W) \in Nat /\ DOMAIN W = 1 .. Len(W)
        /\ \A i \in DOMAIN W : \E l \in D : specs[l].kind = "swa_mla" /\ W[i] = WindowOf(specs, l)
        /\ \A i, j \in DOMAIN W : i # j => W[i] \cap W[j] = {}
    <3> HIDE DEF m
    <3>1. QED
      BY WindowsAre
  <2> HIDE DEF W
  <2>2. QED
    BY <2>1
<1>3. gs = <<first>> \o FlattenSeq(seqs)
  BY DEF UniformGroups
<1>4. \A l \in A : specs[l].kind = "mla"
  OBVIOUS
<1>5. \A i \in 1 .. m : swa[i] = PaddedWindow(specs, W[i], pages)
  BY <1>2
<1>6. DOMAIN swa = 1 .. m
  BY <1>2
<1>7. \A i \in 1 .. m : rest[i] = LayerTuples(Restrict(specs, W[i])) /\ DOMAIN rest = 1 .. m
  BY <1>2
<1>8. \A i \in 1 .. m : seqs[i] = TupleGroups(swa[i], d)
  BY <1>6
<1>9. DOMAIN seqs = 1 .. m
  BY <1>6
<1>30. seqs = [i \in 1 .. m |-> seqs[i]] /\ rest = [i \in 1 .. m |-> rest[i]]
  BY <1>2, <1>6
<1> HIDE DEF gs, W, m, A, pages, swa, rest
<1>10. ASSUME NEW i \in 1 .. m
       PROVE  /\ W[i] \in SUBSET D /\ W[i] # {} /\ IsFiniteSet(W[i])
              /\ swa[i] \in [W[i] -> Specs] /\ Alike(Values(swa[i]))
              /\ PageSizes(swa[i]) \subseteq pages
              /\ \A k \in W[i] : specs[k].kind = "swa_mla"
  <2>1. PICK l \in D : specs[l].kind = "swa_mla" /\ W[i] = WindowOf(specs, l)
    BY <1>2
  <2>2. \A k \in W[i] : PageSize(specs[k]) <= Max(pages)
    BY <1>1, <1>2
  <2> DEFINE X == W[i]
             Y == PaddedWindow(specs, X, pages)
  <2>6. X = WindowOf(specs, l) /\ \A k \in X : PageSize(specs[k]) <= Max(pages)
    BY <2>1, <2>2
  <2> HIDE DEF X
  <2>3. /\ X \in SUBSET D /\ X # {} /\ IsFiniteSet(X)
        /\ Y \in [X -> Specs] /\ Alike(Values(Y)) /\ PageSizes(Y) \subseteq pages
    BY <1>1, <2>1, <2>6, PaddedWindowIs
  <2>4. \A k \in W[i] : specs[k].kind = "swa_mla"
    BY <2>1 DEF WindowOf
  <2>7. swa[i] = Y
    BY <1>5 DEF X
  <2> HIDE DEF Y
  <2>5. QED
    BY <2>3, <2>4, <2>7 DEF X
<1>11. \A i \in 1 .. m : rest[i] \in Nat \ {0}
  <2> SUFFICES ASSUME NEW i \in 1 .. m PROVE rest[i] \in Nat \ {0}
    OBVIOUS
  <2> DEFINE r == Restrict(specs, W[i])
  <2>1. W[i] \in SUBSET D /\ W[i] # {} /\ IsFiniteSet(W[i])
    BY <1>10
  <2>2. r \in [W[i] -> Specs]
    BY <2>1 DEF Restrict
  <2> HIDE DEF r
  <2>3. LayerTuples(r) \in Nat \ {0}
    BY <2>1, <2>2, TuplesIs
  <2>4. QED
    BY <1>7, <2>3 DEF r
<1>12. d \in Nat \ {0}
  <2> DEFINE t == LayerTuples(full)
  <2>1. t \in Nat \ {0}
    BY <1>1, TuplesIs
  <2>2. rest \in Seq(Nat \ {0}) /\ Len(rest) = m
    <3>1. rest \in [1 .. m -> Nat \ {0}]
      BY <1>11, <1>30
    <3>2. QED
      BY <1>2, <3>1
  <2> HIDE DEF t
  <2>3. <<t>> \in Seq(Nat \ {0}) /\ Len(<<t>>) = 1
    BY <2>1
  <2> DEFINE xs == <<t>> \o rest
  <2>4. xs \in Seq(Nat \ {0}) /\ Len(xs) = 1 + m
    BY <2>2, <2>3
  <2> HIDE DEF xs
  <2>5. 1 + m \in Nat \ {0} /\ DOMAIN xs = 1 .. 1 + m /\ \A i \in 1 .. 1 + m : xs[i] \in Nat \ {0}
    BY <1>2, <2>4
  <2>6. xs[1] \in Nat \ {0}
    BY <2>5
  <2>7. ApproximateGcd(xs, xs[1]) \in Nat \ {0}
    BY <2>5, <2>6, GcdIs
  <2>8. QED
    BY <2>7 DEF xs, t
<1> HIDE DEF d, seqs
<1>13. ASSUME NEW i \in 1 .. m
       PROVE  /\ Apart(seqs[i], W[i]) /\ seqs[i] \in Seq({seqs[i][j] : j \in DOMAIN seqs[i]})
              /\ \A j \in DOMAIN seqs[i] : /\ seqs[i][j].uniform
                                           /\ PageSizes(seqs[i][j].specs) \subseteq pages
  <2> DEFINE X == W[i]
             z == swa[i]
             r == TupleGroups(z, d)
  <2>1. /\ W[i] \in SUBSET D /\ W[i] # {} /\ IsFiniteSet(W[i])
        /\ swa[i] \in [W[i] -> Specs] /\ Alike(Values(swa[i])) /\ PageSizes(swa[i]) \subseteq pages
    BY <1>10
  <2>2. X \in SUBSET Nat /\ IsFiniteSet(X) /\ X # {} /\ z \in [X -> Specs] /\ Alike(Values(z))
    BY <2>1
  <2> HIDE DEF X, z
  <2>3. Deal(r, z, X)
    BY <1>12, <2>2, TupleGroupsAre
  <2> HIDE DEF r
  <2>4. /\ Apart(r, X) /\ r \in Seq({r[j] : j \in DOMAIN r})
        /\ \A j \in DOMAIN r : r[j].uniform /\ PageSizes(r[j].specs) \subseteq PageSizes(z)
    BY <2>3 DEF Deal, Apart
  <2>5. seqs[i] = r
    BY <1>8 DEF r, z
  <2>7. PageSizes(z) \subseteq pages
    BY <2>1 DEF z
  <2>6. QED
    BY <2>4, <2>5, <2>7 DEF X
<1> DEFINE R == [i \in 1 .. m |-> {seqs[i][j] : j \in DOMAIN seqs[i]}]
           T == (UNION {R[i] : i \in 1 .. m}) \cup {first}
<1>14. seqs \in [1 .. m -> Seq(T)]
  <2>1. \A i \in 1 .. m : seqs[i] \in Seq(T)
    <3> SUFFICES ASSUME NEW i \in 1 .. m PROVE seqs[i] \in Seq(T)
      OBVIOUS
    <3>1. {seqs[i][j] : j \in DOMAIN seqs[i]} \subseteq T
      <4>1. R[i] = {seqs[i][j] : j \in DOMAIN seqs[i]}
        OBVIOUS
      <4> HIDE DEF R
      <4>2. R[i] \subseteq T
        OBVIOUS
      <4>3. QED
        BY <4>1, <4>2
    <3>2. seqs[i] \in Seq({seqs[i][j] : j \in DOMAIN seqs[i]})
      BY <1>13
    <3>3. \A A1, B1 : A1 \subseteq B1 => Seq(A1) \subseteq Seq(B1)
      OBVIOUS
    <3> HIDE DEF T
    <3>4. QED
      BY <3>1, <3>2, <3>3
  <2> HIDE DEF T
  <2>2. QED
    BY <1>30, <2>1
<1>15. first \in T
  OBVIOUS
<1> HIDE DEF T
<1> DEFINE B == UNION {W[i] : i \in 1 .. m}
           F == FlattenSeq(seqs)
<1>16. /\ \A i \in 1 .. m : W[i] \in SUBSET B
       /\ \A i \in 1 .. m : Apart(seqs[i], W[i])
       /\ \A i \in 1 .. m : \A j \in DOMAIN seqs[i] :
            seqs[i][j].uniform /\ PageSizes(seqs[i][j].specs) \subseteq pages
  BY <1>13
<1>17. B \in SUBSET D /\ A \cap B = {}
  BY <1>4, <1>10
<1> HIDE DEF B
<1>31. \A i, j \in 1 .. m : i # j => W[i] \cap W[j] = {}
  BY <1>2
<1>18. /\ Apart(F, B) /\ F \in Seq(T)
       /\ \A g \in DOMAIN F : F[g].uniform /\ PageSizes(F[g].specs) \subseteq pages
  <2>1. InParts(seqs, m, T, B, W, pages)
    BY <1>2, <1>14, <1>16, <1>31 DEF InParts
  <2>2. Apart(F, B) /\ F \in Seq(T) /\ UniformWithin(F, pages)
    BY <2>1, FlatApart
  <2>3. QED
    BY <2>2 DEF UniformWithin
<1> HIDE DEF F
<1>19. GroupsOK(<<first>>, A)
  <2>1. A \in SUBSET Nat
    BY <1>1
  <2>2. GroupsOK(<<Group(InOrder(A), TRUE, full)>>, A)
    BY <1>1, <2>1, SingleGroup
  <2>3. QED
    BY <1>1, <2>2
<1>20. first.uniform /\ first.specs = full
  BY DEF Group
<1> HIDE DEF first
<1> DEFINE one == <<first>>
           r == one \o F
<1>21. one \in Seq(T) /\ Len(one) = 1 /\ DOMAIN one = 1 .. 1 /\ one[1] = first
  BY <1>15
<1>22. Apart(one, A)
  BY <1>19 DEF GroupsOK
<1> HIDE DEF one
<1>23. Apart(r, D)
  BY <1>1, <1>17, <1>18, <1>21, <1>22, JoinedApart
<1>24. /\ Len(r) = 1 + Len(F) /\ Len(F) \in Nat
       /\ \A g \in DOMAIN r : \/ g \in DOMAIN one /\ r[g] = one[g]
                              \/ \E j \in DOMAIN F : r[g] = F[j]
       /\ \A i \in DOMAIN one : i \in DOMAIN r /\ r[i] = one[i]
  BY <1>18, <1>21, ConcatIs
<1> HIDE DEF r
<1>25. r[1] = first /\ PageSizes(r[1].specs) = pages
  BY <1>20, <1>21, <1>24 DEF pages
<1>26. \A g \in DOMAIN r : r[g].uniform /\ PageSizes(r[g].specs) \subseteq pages
  <2> SUFFICES ASSUME NEW g \in DOMAIN r
               PROVE  r[g].uniform /\ PageSizes(r[g].specs) \subseteq pages
    OBVIOUS
  <2>1. CASE g \in DOMAIN one /\ r[g] = one[g]
    <3>1. g = 1
      BY <1>21, <2>1
    <3>2. QED
      BY <1>20, <1>25, <3>1
  <2>2. CASE \E j \in DOMAIN F : r[g] = F[j]
    BY <1>18, <2>2
  <2>3. QED
    BY <1>24, <2>1, <2>2
<1>27. GroupsOK(r, D)
  BY <1>23, <1>25, <1>26 DEF GroupsOK
<1>28. Len(r) # 0
  BY <1>24
<1>29. QED
  BY <1>3, <1>27, <1>28 DEF r, one, F, gs

-----------------------------------------------------------------------------
\* unify_hybrid_kv_cache_specs and get_kv_cache_groups: whatever is not refused is
\* grouped, every layer in one group.

LEMMA AsFullIs ==
  ASSUME NEW s \in Specs, NEW block \in Nat \ {0}
  PROVE  AsFull(s, block) \in Specs
<1>1. CASE s.kind = "swa_mla"
  <2>1. AsFull(s, block) = [s EXCEPT !.kind = "mla", !.block = block, !.window = 0]
    BY <1>1 DEF AsFull
  <2>3. s = [kind |-> s.kind, block |-> s.block, bytes |-> s.bytes, window |-> s.window,
             pad |-> s.pad, strided |-> s.strided]
    BY DEF Specs
  <2>4. AsFull(s, block) = [kind |-> "mla", block |-> block, bytes |-> s.bytes, window |-> 0,
                            pad |-> s.pad, strided |-> s.strided]
    BY <2>1, <2>3
  <2>5. s.bytes \in Nat \ {0} /\ s.pad \in Nat /\ s.strided \in BOOLEAN
    BY DEF Specs
  <2>2. QED
    BY <2>4, <2>5 DEF Specs, Kinds
<1>2. CASE s.kind \in {"sliding", "chunked"}
  <2>1. AsFull(s, block) = [s EXCEPT !.kind = "full"]
    BY <1>2 DEF AsFull
  <2>2. QED
    BY <2>1 DEF Specs, Kinds
<1>3. CASE s.kind # "swa_mla" /\ s.kind \notin {"sliding", "chunked"}
  BY <1>3 DEF AsFull
<1>4. QED
  BY <1>1, <1>2, <1>3

LEMMA UnifyHybridIs ==
  ASSUME NEW D \in SUBSET Nat, NEW specs \in [D -> Specs], UnifyHybrid(specs) # Refused
  PROVE  UnifyHybrid(specs) \in [D -> Specs]
<1> DEFINE full == {l \in DOMAIN specs : IsFull(specs[l])}
           bounded == {l \in DOMAIN specs : IsSliding(specs[l]) \/ specs[l].kind = "chunked"}
           converted == [l \in DOMAIN specs |-> AsFull(specs[l], specs[Min(full)].block)]
           after == IF full # {} /\ bounded # {} THEN converted ELSE specs
<1>1. UnifyHybrid(specs) = specs \/ UnifyHybrid(specs) = after \/ UnifyHybrid(specs) = Refused
  BY DEF UnifyHybrid
<1>2. after \in [D -> Specs]
  <2>1. CASE full # {}
    <3>1. full \in SUBSET D
      OBVIOUS
    <3>2. Min(full) \in full
      <4> HIDE DEF full
      <4>1. full \in SUBSET Nat
        BY <3>1
      <4>2. QED
        BY <2>1, <4>1, MinIs
    <3>3. specs[Min(full)] \in Specs
      BY <3>1, <3>2
    <3>4. specs[Min(full)].block \in Nat \ {0}
      BY <3>3 DEF Specs
    <3> DEFINE b == specs[Min(full)].block
    <3> HIDE DEF b
    <3>5. converted = [l \in D |-> AsFull(specs[l], b)]
      BY DEF b
    <3>6. \A l \in D : AsFull(specs[l], b) \in Specs
      BY <3>4, AsFullIs DEF b
    <3> HIDE DEF converted
    <3>7. converted \in [D -> Specs]
      BY <3>5, <3>6
    <3>8. QED
      BY <3>7
  <2>2. QED
    BY <2>1
<1>3. QED
  BY <1>1, <1>2

LEMMA GroupsAre ==
  ASSUME NEW D \in SUBSET Nat, IsFiniteSet(D), NEW specs \in [D -> Specs],
         Groups(specs) # Refused
  PROVE  /\ GroupsOK(Groups(specs), D)
         /\ D # {} <=> Len(Groups(specs)) # 0
         /\ D = {} => Groups(specs) = <<>>
<1>0. DOMAIN specs = D /\ Values(specs) \in SUBSET Specs
  BY ValuesAre
<1>1. CASE D = {}
  <2>1. Groups(specs) = <<>>
    BY <1>0, <1>1 DEF Groups
  <2>2. <<>> \in Seq({}) /\ Len(<<>>) = 0 /\ DOMAIN <<>> = {}
    OBVIOUS
  <2>3. DOMAIN <<>> = 1 .. 0 /\ {<<>>[i] : i \in DOMAIN <<>>} = {}
    BY <2>2
  <2>4. Apart(<<>>, D)
    BY <2>2, <2>3 DEF Apart
  <2>5. GroupsOK(<<>>, D)
    BY <2>2, <2>4 DEF GroupsOK
  <2>6. QED
    BY <1>1, <2>1, <2>2, <2>5
<1>2. CASE D # {} /\ Mergeable(Values(specs))
  <2>1. Groups(specs) = <<Group(InOrder(D), FALSE, specs)>>
    BY <1>0, <1>2 DEF Groups
  <2>2. Alike(Values(specs)) /\ OnePage(Values(specs))
    BY <1>0, <1>2, MergeableIsAlike
  <2>3. GroupsOK(<<Group(InOrder(D), FALSE, specs)>>, D)
    BY <1>2, <2>2, SingleGroup
  <2> DEFINE gs == <<Group(InOrder(D), FALSE, specs)>>
  <2>4. Len(gs) # 0
    OBVIOUS
  <2> HIDE DEF gs
  <2>5. Groups(specs) = gs /\ GroupsOK(gs, D)
    BY <2>1, <2>3 DEF gs
  <2>6. QED
    BY <1>2, <2>4, <2>5
<1>3. CASE D # {} /\ ~Mergeable(Values(specs)) /\ UniformType(Values(specs))
  <2>1. Groups(specs) = <<Group(InOrder(D), TRUE, specs)>>
    BY <1>0, <1>3 DEF Groups
  <2>2. Alike(Values(specs))
    BY <1>0, <1>3, UniformIsAlike
  <2>3. GroupsOK(<<Group(InOrder(D), TRUE, specs)>>, D)
    BY <1>3, <2>2, SingleGroup
  <2> DEFINE gs == <<Group(InOrder(D), TRUE, specs)>>
  <2>4. Len(gs) # 0
    OBVIOUS
  <2> HIDE DEF gs
  <2>5. Groups(specs) = gs /\ GroupsOK(gs, D)
    BY <2>1, <2>3 DEF gs
  <2>6. QED
    BY <1>3, <2>4, <2>5
<1>4. CASE /\ D # {} /\ ~Mergeable(Values(specs)) /\ ~UniformType(Values(specs))
  <2>1. Groups(specs) = IF \A s \in Values(specs) : s.kind # "swa_mla" THEN HybridGroups(specs)
                        ELSE IF UniformGroupsApply(specs) THEN UniformGroups(specs) ELSE Refused
    BY <1>0, <1>4 DEF Groups
  <2>2. CASE \A s \in Values(specs) : s.kind # "swa_mla"
    <3>1. Groups(specs) = HybridGroups(specs)
      BY <2>1, <2>2
    <3>2. GroupsOK(HybridGroups(specs), D) /\ Len(HybridGroups(specs)) # 0
      BY <3>1, HybridIs
    <3>3. QED
      BY <1>4, <3>1, <3>2
  <2>3. CASE ~ \A s \in Values(specs) : s.kind # "swa_mla"
    <3>1. UniformGroupsApply(specs) /\ Groups(specs) = UniformGroups(specs)
      BY <2>1, <2>3
    <3>2. GroupsOK(UniformGroups(specs), D) /\ Len(UniformGroups(specs)) # 0
      BY <3>1, UniformGroupsIs
    <3>3. QED
      BY <1>4, <3>1, <3>2
  <2>4. QED
    BY <2>2, <2>3
<1>5. QED
  BY <1>1, <1>2, <1>3, <1>4

-----------------------------------------------------------------------------
\* A worker's part of a group (_project_kv_cache_groups_to_worker).

\* A worker's part p of the group g: its own layers, and specs of the group, all of which
\* it keeps when it has no layer of it.
IsProjection(p, g, own) ==
  /\ p.uniform = g.uniform
  /\ DOMAIN p.specs \in SUBSET DOMAIN g.specs /\ DOMAIN p.specs # {}
  /\ \A l \in DOMAIN p.specs : p.specs[l] = g.specs[l]
  /\ p.specs \in [DOMAIN p.specs -> Specs]
  /\ ToSet(p.layers) = DOMAIN g.specs \cap own /\ ToSet(p.layers) \in SUBSET DOMAIN p.specs
  /\ p.layers \in Seq(DOMAIN p.specs) /\ Len(p.layers) = Cardinality(ToSet(p.layers))
  /\ \A i, j \in DOMAIN p.layers : p.layers[i] = p.layers[j] => i = j
  /\ g.uniform /\ ToSet(p.layers) # {} => DOMAIN p.specs = ToSet(p.layers)

LEMMA ProjectIs ==
  ASSUME NEW D \in SUBSET Nat, IsFiniteSet(D), NEW g, IsGroup(g, D), NEW own
  PROVE  IsProjection(Project(g, own), g, own)
<1> DEFINE M == ToSet(g.layers) \cap own
           mine == InOrder(M)
           p == Project(g, own)
<1>1. /\ g = [layers |-> g.layers, uniform |-> g.uniform, specs |-> g.specs]
      /\ g.uniform \in BOOLEAN /\ DOMAIN g.specs \in SUBSET D /\ DOMAIN g.specs # {}
      /\ g.specs \in [DOMAIN g.specs -> Specs] /\ ToSet(g.layers) = DOMAIN g.specs
  BY DEF IsGroup, Group
<1>2. M = DOMAIN g.specs \cap own /\ M \in SUBSET D
  BY <1>1
<1>3. p = IF g.uniform /\ mine # <<>> THEN Group(mine, TRUE, Restrict(g.specs, ToSet(mine)))
          ELSE [g EXCEPT !.layers = mine]
  BY DEF Project
<1> HIDE DEF M, p
<1>4. M \in SUBSET Int /\ IsFiniteSet(M)
  <2>1. Nat \subseteq Int
    OBVIOUS
  <2>2. M \in SUBSET Int
    BY <1>2, <2>1
  <2>3. IsFiniteSet(M)
    BY <1>2, FS_Subset
  <2>4. QED
    BY <2>2, <2>3
<1>5. /\ mine \in Seq(M) /\ ToSet(mine) = M /\ Len(mine) = Cardinality(M)
      /\ \A i, j \in DOMAIN mine : mine[i] = mine[j] => i = j
  BY <1>4, InOrderIs
<1> HIDE DEF mine
<1>6. mine # <<>> <=> M # {}
  <2>1. mine = <<>> => M = {}
    BY <1>5 DEF ToSet
  <2>2. M = {} => Len(mine) = 0
    BY <1>5, FS_EmptySet
  <2>3. QED
    BY <1>5, <2>1, <2>2
<1>7. CASE g.uniform /\ M # {}
  <2>1. p.layers = mine /\ p.uniform = TRUE /\ p.specs = Restrict(g.specs, M)
    BY <1>3, <1>5, <1>6, <1>7 DEF Group
  <2>2. p.specs = [l \in M |-> g.specs[l]]
    BY <2>1 DEF Restrict
  <2>3. DOMAIN p.specs = M /\ \A l \in M : p.specs[l] = g.specs[l]
    BY <2>2
  <2>4. p.specs \in [M -> Specs]
    BY <1>1, <1>2, <2>2
  <2>5. IsProjection(p, g, own)
    BY <1>1, <1>2, <1>5, <1>7, <2>1, <2>3, <2>4 DEF IsProjection
  <2>6. QED
    BY <2>5 DEF p
<1>8. CASE ~ (g.uniform /\ M # {})
  <2>1. p = [g EXCEPT !.layers = mine]
    BY <1>3, <1>6, <1>8
  <2>2. p = [layers |-> mine, uniform |-> g.uniform, specs |-> g.specs]
    BY <1>1, <2>1
  <2>3. p.layers = mine /\ p.uniform = g.uniform /\ p.specs = g.specs
    BY <2>2
  <2>4. mine \in Seq(DOMAIN g.specs)
    BY <1>2, <1>5
  <2>5. IsProjection(p, g, own)
    BY <1>1, <1>2, <1>5, <1>8, <2>3, <2>4 DEF IsProjection
  <2>6. QED
    BY <2>5 DEF p
<1>9. QED
  BY <1>7, <1>8

-----------------------------------------------------------------------------
\* Binary search for the last of 1 .. top that is in a set F.

Ranges(top) == (1 .. top + 1) \X (0 .. top)
Middle(r) == (r[1] + r[2]) \div 2
Half(r, F) == IF Middle(r) \in F THEN <<Middle(r) + 1, r[2]>> ELSE <<r[1], Middle(r) - 1>>
IsSearch(f, top, F) ==
  /\ DOMAIN f = Ranges(top)
  /\ \A r \in Ranges(top) : f[r] = IF r[1] > r[2] THEN r[2] ELSE f[Half(r, F)]
\* The ranges of at most k candidates.
UpTo(top, k) == {r \in Ranges(top) : r[2] - r[1] < k}

LEMMA HalfIs ==
  ASSUME NEW top \in Nat, NEW F, NEW r \in Ranges(top), ~ (r[1] > r[2])
  PROVE  /\ Middle(r) \in r[1] .. r[2]
         /\ Half(r, F) \in Ranges(top)
         /\ Half(r, F)[2] - Half(r, F)[1] < r[2] - r[1]
         /\ \A k \in Nat : r \in UpTo(top, k + 1) => Half(r, F) \in UpTo(top, k)
<1> DEFINE lo == r[1]
           hi == r[2]
           m == Middle(r)
<1>1. lo \in 1 .. top + 1 /\ hi \in 0 .. top /\ lo <= hi
  BY DEF Ranges
<1>2. m \in lo .. hi
  <2> DEFINE a == lo + hi
  <2>1. m = a \div 2 /\ a \in Nat /\ 2 * lo <= a /\ a <= 2 * hi
    BY <1>1 DEF Middle
  <2> HIDE DEF lo, hi, m, a
  <2>2. a \div 2 \in Int /\ 2 * (a \div 2) <= a /\ a < 2 * (a \div 2) + 2
    BY <2>1, DivIs
  <2>3. QED
    BY <1>1, <2>1, <2>2
<1>3. CASE m \in F
  <2>1. Half(r, F) = <<m + 1, hi>>
    BY <1>3 DEF Half
  <2> HIDE DEF lo, hi, m
  <2>2. <<m + 1, hi>> \in Ranges(top)
    BY <1>1, <1>2 DEF Ranges
  <2>3. hi - (m + 1) < hi - lo
    BY <1>1, <1>2
  <2>4. \A k \in Nat : hi - lo < k + 1 => hi - (m + 1) < k
    BY <1>1, <1>2
  <2>5. QED
    BY <1>2, <2>1, <2>2, <2>3, <2>4 DEF UpTo, lo, hi, m
<1>4. CASE m \notin F
  <2>1. Half(r, F) = <<lo, m - 1>>
    BY <1>4 DEF Half
  <2> HIDE DEF lo, hi, m
  <2>2. <<lo, m - 1>> \in Ranges(top)
    BY <1>1, <1>2 DEF Ranges
  <2>3. m - 1 - lo < hi - lo
    BY <1>1, <1>2
  <2>4. \A k \in Nat : hi - lo < k + 1 => m - 1 - lo < k
    BY <1>1, <1>2
  <2>5. QED
    BY <1>2, <2>1, <2>2, <2>3, <2>4 DEF UpTo, lo, hi, m
<1>5. QED
  BY <1>3, <1>4

LEMMA SearchExists ==
  ASSUME NEW top \in Nat, NEW F
  PROVE  \E f : IsSearch(f, top, F) /\ f = [r \in Ranges(top) |->
                                              IF r[1] > r[2] THEN r[2] ELSE f[Half(r, F)]]
<1> DEFINE Step(g, r) == IF r[1] > r[2] THEN r[2] ELSE g[Half(r, F)]
           Good(k, g) == /\ g \in [Ranges(top) -> 0 .. top]
                         /\ \A r \in UpTo(top, k) : g[r] = Step(g, r)
           N == {k \in Nat : \E g : Good(k, g)}
<1>1. \A r \in Ranges(top) : r[1] \in 1 .. top + 1 /\ r[2] \in 0 .. top
  BY DEF Ranges
<1>2. 0 \in N
  <2> DEFINE g == [r \in Ranges(top) |-> r[2]]
  <2>1. g \in [Ranges(top) -> 0 .. top]
    BY <1>1
  <2>2. ASSUME NEW r \in UpTo(top, 0) PROVE g[r] = Step(g, r)
    <3>1. r \in Ranges(top) /\ r[2] - r[1] < 0
      BY DEF UpTo
    <3>2. r[1] > r[2]
      BY <1>1, <3>1
    <3>3. QED
      BY <3>1, <3>2
  <2> HIDE DEF g
  <2>3. Good(0, g)
    BY <2>1, <2>2
  <2>4. QED
    BY <2>3
<1>3. ASSUME NEW k \in N PROVE k + 1 \in N
  <2>1. PICK g : Good(k, g)
    OBVIOUS
  <2> DEFINE h == [r \in Ranges(top) |-> IF r \in UpTo(top, k) THEN g[r] ELSE Step(g, r)]
  <2>2. \A r \in Ranges(top) : g[r] \in 0 .. top /\ Step(g, r) \in 0 .. top
    <3> SUFFICES ASSUME NEW r \in Ranges(top) PROVE g[r] \in 0 .. top /\ Step(g, r) \in 0 .. top
      OBVIOUS
    <3>1. g \in [Ranges(top) -> 0 .. top]
      BY <2>1
    <3>2. CASE r[1] > r[2]
      BY <1>1, <3>1, <3>2
    <3>3. CASE ~ (r[1] > r[2])
      <4>1. Half(r, F) \in Ranges(top)
        BY <3>3, HalfIs
      <4>2. QED
        BY <3>1, <3>3, <4>1
    <3>4. QED
      BY <3>2, <3>3
  <2>3. h \in [Ranges(top) -> 0 .. top]
    BY <2>2
  <2>4. \A r \in Ranges(top) : h[r] = IF r \in UpTo(top, k) THEN g[r] ELSE Step(g, r)
    OBVIOUS
  <2>5. \A r \in UpTo(top, k) : r \in Ranges(top) /\ g[r] = Step(g, r)
    BY <2>1 DEF UpTo
  <2> HIDE DEF h
  <2>6. ASSUME NEW r \in UpTo(top, k + 1) PROVE h[r] = Step(h, r)
    <3>1. r \in Ranges(top)
      BY DEF UpTo
    <3>2. h[r] = Step(g, r)
      BY <2>4, <2>5, <3>1
    <3>3. CASE r[1] > r[2]
      BY <3>2, <3>3
    <3>4. CASE ~ (r[1] > r[2])
      <4>1. Half(r, F) \in UpTo(top, k)
        BY <3>1, <3>4, HalfIs
      <4>2. h[Half(r, F)] = g[Half(r, F)]
        BY <2>4, <2>5, <4>1
      <4>3. QED
        BY <3>2, <3>4, <4>2
    <3>5. QED
      BY <3>3, <3>4
  <2>7. Good(k + 1, h)
    BY <2>3, <2>6
  <2>8. QED
    BY <2>7
<1>4. N = Nat
  <2> HIDE DEF N
  <2>1. N \in SUBSET Nat
    BY DEF N
  <2>2. QED
    BY <1>2, <1>3, <2>1, NatAll
<1>5. top + 1 \in N
  <2> HIDE DEF N
  <2>1. QED
    BY <1>4
<1>6. PICK g : Good(top + 1, g)
  BY <1>5
<1>7. \A r \in Ranges(top) : r \in UpTo(top, top + 1)
  <2> SUFFICES ASSUME NEW r \in Ranges(top) PROVE r[2] - r[1] < top + 1
    BY DEF UpTo
  <2>1. QED
    BY <1>1
<1>8. DOMAIN g = Ranges(top) /\ \A r \in Ranges(top) : g[r] = Step(g, r)
  BY <1>6, <1>7
<1>9. g = [r \in Ranges(top) |-> g[r]]
  BY <1>6
<1>10. g = [r \in Ranges(top) |-> Step(g, r)]
  BY <1>8, <1>9
<1>11. IsSearch(g, top, F)
  BY <1>8 DEF IsSearch
<1>12. QED
  BY <1>10, <1>11

\* The search ends at a place that is in F, if 1 is, and whose successor is not.
LEMMA SearchIs ==
  ASSUME NEW top \in Nat \ {0}, NEW F, 1 \in F, NEW f, IsSearch(f, top, F)
  PROVE  LET n == f[<<1, top>>] IN n \in 1 .. top /\ n \in F /\ (n = top \/ n + 1 \notin F)
<1> DEFINE Before(r) == /\ r[1] = 1 \/ r[1] - 1 \in F
                        /\ r[2] = top \/ r[2] + 1 \notin F
                        /\ r[1] <= r[2] + 1
           Found(n) == n \in 1 .. top /\ n \in F /\ (n = top \/ n + 1 \notin F)
           N == {k \in Nat : \A r \in UpTo(top, k) : Before(r) => Found(f[r])}
<1>1. \A r \in Ranges(top) : r[1] \in 1 .. top + 1 /\ r[2] \in 0 .. top
  BY DEF Ranges
<1>2. ASSUME NEW r \in Ranges(top), r[1] > r[2], Before(r) PROVE Found(f[r])
  <2>1. f[r] = r[2]
    BY <1>2 DEF IsSearch
  <2>2. r[2] = r[1] - 1
    BY <1>1, <1>2
  <2>3. CASE r[1] = 1
    <3>1. r[2] = 0 /\ r[2] + 1 = 1
      BY <2>2, <2>3
    <3>2. r[2] # top
      BY <3>1
    <3>3. QED
      BY <1>2, <3>1, <3>2
  <2>4. CASE r[1] # 1
    <3>1. r[2] \in F
      BY <1>2, <2>2, <2>4
    <3>2. r[2] \in 1 .. top
      BY <1>1, <2>2, <2>4
    <3>3. QED
      BY <1>2, <2>1, <3>1, <3>2
  <2>5. QED
    BY <2>3, <2>4
<1>3. 0 \in N
  <2> SUFFICES ASSUME NEW r \in UpTo(top, 0), Before(r) PROVE Found(f[r])
    OBVIOUS
  <2>1. r \in Ranges(top) /\ r[2] - r[1] < 0
    BY DEF UpTo
  <2>2. r[1] > r[2]
    BY <1>1, <2>1
  <2>3. QED
    BY <1>2, <2>1, <2>2
<1>4. ASSUME NEW k \in N PROVE k + 1 \in N
  <2> SUFFICES ASSUME NEW r \in UpTo(top, k + 1), Before(r) PROVE Found(f[r])
    OBVIOUS
  <2>1. r \in Ranges(top)
    BY DEF UpTo
  <2>2. CASE r[1] > r[2]
    BY <1>2, <2>1, <2>2
  <2>3. CASE ~ (r[1] > r[2])
    <3> DEFINE m == Middle(r)
               h == Half(r, F)
    <3>1. h \in UpTo(top, k) /\ m \in r[1] .. r[2] /\ f[r] = f[h]
      BY <2>1, <2>3, HalfIs DEF IsSearch
    <3>2. CASE m \in F
      <4>1. h = <<m + 1, r[2]>>
        BY <3>2 DEF Half
      <4>2. h[1] = m + 1 /\ h[2] = r[2]
        BY <4>1
      <4> HIDE DEF h, m
      <4>3. h[1] - 1 = m
        BY <1>1, <2>1, <3>1, <4>2
      <4>4. h[1] <= h[2] + 1
        BY <1>1, <2>1, <3>1, <4>2
      <4>5. Before(h)
        BY <3>2, <4>2, <4>3, <4>4
      <4>6. QED
        BY <3>1, <4>5
    <3>3. CASE m \notin F
      <4>1. h = <<r[1], m - 1>>
        BY <3>3 DEF Half
      <4>2. h[1] = r[1] /\ h[2] = m - 1
        BY <4>1
      <4> HIDE DEF h, m
      <4>3. h[2] + 1 = m
        BY <1>1, <2>1, <3>1, <4>2
      <4>4. h[1] <= h[2] + 1
        BY <1>1, <2>1, <3>1, <4>2
      <4>5. Before(h)
        BY <3>3, <4>2, <4>3, <4>4
      <4>6. QED
        BY <3>1, <4>5
    <3>4. QED
      BY <3>2, <3>3
  <2>4. QED
    BY <2>2, <2>3
<1>5. N = Nat
  <2> HIDE DEF N
  <2>1. N \in SUBSET Nat
    BY DEF N
  <2>2. QED
    BY <1>3, <1>4, <2>1, NatAll
<1> DEFINE all == <<1, top>>
<1>6. all \in Ranges(top) /\ all[1] = 1 /\ all[2] = top
  BY DEF Ranges
<1>7. all \in UpTo(top, top)
  BY <1>6 DEF UpTo
<1> HIDE DEF all
<1>8. Before(all)
  BY <1>6
<1>9. top \in N
  BY <1>5
<1>10. Found(f[all])
  BY <1>7, <1>8, <1>9
<1>11. QED
  BY <1>10 DEF all

-----------------------------------------------------------------------------
\* The longest length that fits.

LEMMA LongestIs ==
  ASSUME NEW gs, NEW mem \in Int, NEW top \in Nat \ {0}, \A n \in Nat : NeededBytes(gs, n) \in Int
  PROVE  LET n == LongestThatFits(gs, mem, top) IN
         /\ n \in 0 .. top
         /\ n = 0 <=> NeededBytes(gs, 1) > mem
         /\ n # 0 => NeededBytes(gs, n) <= mem
         /\ n # 0 /\ n # top => NeededBytes(gs, n + 1) > mem
<1> DEFINE F == {n \in Nat : NeededBytes(gs, n) <= mem}
           Body(f) == [range \in (1 .. top + 1) \X (0 .. top) |->
                         LET lo == range[1]
                             hi == range[2]
                             mid == (lo + hi) \div 2
                         IN IF lo > hi THEN hi
                            ELSE f[IF NeededBytes(gs, mid) <= mem THEN <<mid + 1, hi>>
                                   ELSE <<lo, mid - 1>>]]
           Like(f) == [r \in Ranges(top) |-> IF r[1] > r[2] THEN r[2] ELSE f[Half(r, F)]]
           search == CHOOSE f : f = Body(f)
           L == LongestThatFits(gs, mem, top)
<1>1. L = IF NeededBytes(gs, 1) > mem THEN 0 ELSE search[<<1, top>>]
  BY DEF LongestThatFits
<1>2. ASSUME NEW f PROVE Body(f) = Like(f)
  <2>1. \A r \in Ranges(top) : Middle(r) \in Nat
    <3> SUFFICES ASSUME NEW r \in Ranges(top) PROVE Middle(r) \in Nat
      OBVIOUS
    <3>1. r[1] \in Nat /\ r[2] \in Nat
      BY DEF Ranges
    <3>2. QED
      BY <3>1 DEF Middle
  <2>2. \A r \in Ranges(top) : Middle(r) \in F <=> NeededBytes(gs, Middle(r)) <= mem
    BY <2>1
  <2> HIDE DEF F
  <2>3. \A r \in Ranges(top) :
          Half(r, F) = IF NeededBytes(gs, (r[1] + r[2]) \div 2) <= mem
                       THEN <<((r[1] + r[2]) \div 2) + 1, r[2]>>
                       ELSE <<r[1], ((r[1] + r[2]) \div 2) - 1>>
    BY <2>2 DEF Half, Middle
  <2>4. QED
    BY <2>3 DEF Ranges
<1>3. \E f : f = Body(f)
  <2>1. PICK f : f = [r \in Ranges(top) |-> IF r[1] > r[2] THEN r[2] ELSE f[Half(r, F)]]
    BY SearchExists, ZenonT(60)
  <2>2. f = Like(f)
    BY <2>1
  <2>3. f = Body(f)
    BY <1>2, <2>2
  <2>4. QED
    BY <2>3
<1>4. search = Body(search)
  <2> HIDE DEF Body
  <2>1. QED
    BY <1>3
<1>5. search = Like(search)
  BY <1>2, <1>4
<1> HIDE DEF search, F, Body
<1>6. IsSearch(search, top, F)
  BY <1>5 DEF IsSearch
<1>7. CASE NeededBytes(gs, 1) > mem
  <2>1. L = 0
    BY <1>1, <1>7
  <2>2. QED
    BY <1>7, <2>1
<1>8. CASE ~ (NeededBytes(gs, 1) > mem)
  <2>1. NeededBytes(gs, 1) \in Int
    OBVIOUS
  <2>2. 1 \in F
    BY <1>8, <2>1 DEF F
  <2> DEFINE n == search[<<1, top>>]
  <2>3. n \in 1 .. top /\ n \in F /\ (n = top \/ n + 1 \notin F)
    BY <1>6, <2>2, SearchIs
  <2>4. L = n
    BY <1>1, <1>8
  <2> HIDE DEF n, L
  <2>5. n \in Nat /\ n + 1 \in Nat /\ NeededBytes(gs, n + 1) \in Int
    BY <2>3
  <2>6. NeededBytes(gs, n) <= mem
    BY <2>3 DEF F
  <2>7. n # top => NeededBytes(gs, n + 1) > mem
    BY <2>3, <2>5 DEF F
  <2>8. n # 0 /\ n \in 0 .. top
    BY <2>3
  <2>9. QED
    BY <1>8, <2>4, <2>6, <2>7, <2>8 DEF L
<1>9. QED
  BY <1>7, <1>8

-----------------------------------------------------------------------------
\* Products, and the least common multiple.

\* A product of positive numbers is a positive multiple of each.
LEMMA ProductIs ==
  ASSUME NEW S \in SUBSET (Nat \ {0}), IsFiniteSet(S)
  PROVE  ProductSet(S) \in Nat \ {0} /\ \A n \in S : ProductSet(S) % n = 0
<1> DEFINE V == Nat \ {0}
           Body(g) == [s \in SUBSET S |-> IF s = {} THEN 1 ELSE Pick(s) * g[s \ {Pick(s)}]]
           iter == CHOOSE g : g = Body(g)
           step == [p \in S \X V |-> p[1] * p[2]]
<1>1. ProductSet(S) = iter[S]
  BY DEF ProductSet, FoldSet, MapThenFoldSet, Pick
<1>2. \E g \in [SUBSET S -> V] : g = Body(g)
  <2>1. step \in [S \X V -> V] /\ \A x \in S, v \in V : step[<<x, v>>] = x * v
    <3>1. \A x \in S, v \in V : x * v \in V
      BY Times
    <3>2. QED
      BY <3>1
  <2> HIDE DEF step
  <2>3. PICK g \in [SUBSET S -> V] : IsFold(g, S, 1, step)
    <3>1. 1 \in V
      OBVIOUS
    <3> HIDE DEF V
    <3>2. QED
      BY <2>1, <3>1, Folded, Zenon
  <2>4. ASSUME NEW s \in SUBSET S
        PROVE  g[s] = IF s = {} THEN 1 ELSE Pick(s) * g[s \ {Pick(s)}]
    <3>1. CASE s # {}
      <4>1. Pick(s) \in S /\ s \ {Pick(s)} \in SUBSET S
        BY <3>1 DEF Pick
      <4>2. g[s \ {Pick(s)}] \in V
        BY <4>1
      <4>3. step[<<Pick(s), g[s \ {Pick(s)}]>>] = Pick(s) * g[s \ {Pick(s)}]
        BY <2>1, <4>1, <4>2
      <4>4. QED
        BY <2>3, <3>1, <4>3 DEF IsFold
    <3>2. QED
      BY <2>3, <3>1 DEF IsFold
  <2>5. g = Body(g)
    BY <2>3, <2>4
  <2>6. QED
    BY <2>3, <2>5
<1>3. iter = Body(iter)
  <2> HIDE DEF Body
  <2>1. QED
    BY <1>2
<1>4. \A s \in SUBSET S : iter[s] = IF s = {} THEN 1 ELSE Pick(s) * iter[s \ {Pick(s)}]
  BY <1>3
<1> HIDE DEF iter, Body
<1> DEFINE G == {s \in SUBSET S : iter[s] \in Nat \ {0} /\ \A n \in s : iter[s] % n = 0}
<1>5. {} \in G
  <2>1. iter[{}] = 1
    BY <1>4
  <2>2. 1 \in Nat \ {0}
    OBVIOUS
  <2>3. QED
    BY <2>1, <2>2
<1>6. ASSUME NEW s \in SUBSET S, s # {}, s \ {Pick(s)} \in G PROVE s \in G
  <2> DEFINE x == Pick(s)
             y == iter[s \ {Pick(s)}]
  <2>1. x \in s /\ x \in Nat \ {0} /\ y \in Nat \ {0} /\ \A n \in s \ {x} : y % n = 0
    BY <1>6 DEF Pick
  <2>2. iter[s] = x * y
    BY <1>4, <1>6
  <2> HIDE DEF x, y
  <2>3. x * y \in Nat \ {0} /\ x * y = y * x
    BY <2>1, Times
  <2>4. ASSUME NEW n \in s PROVE (x * y) % n = 0
    <3>0. n \in Nat \ {0} /\ x \in Int /\ y \in Int
      BY <2>1
    <3>1. CASE n = x
      <4>1. (x * y) % x = 0
        BY <3>0, <3>1, MultipleIs
      <4>2. QED
        BY <3>1, <4>1
    <3>2. CASE n # x
      <4>1. y % n = 0
        BY <2>1, <3>2
      <4> DEFINE q == y \div n
      <4>2. q \in Int /\ y = n * q
        BY <3>0, <4>1, DivIs
      <4> HIDE DEF q
      <4>3. x * y = n * (q * x)
        <5>1. y * x = n * (q * x)
          BY <3>0, <4>2, Times
        <5>2. QED
          BY <2>3, <5>1
      <4>4. q * x \in Int
        BY <3>0, <4>2, Times
      <4>5. (n * (q * x)) % n = 0
        BY <3>0, <4>4, MultipleIs
      <4>6. QED
        BY <4>3, <4>5
    <3>3. QED
      BY <3>1, <3>2
  <2>5. QED
    BY <2>2, <2>3, <2>4
<1>7. \A s \in SUBSET S : s \in G
  <2> HIDE DEF G
  <2>1. QED
    BY <1>5, <1>6, PickInduction
<1>8. S \in G
  BY <1>7
<1>9. QED
  BY <1>1, <1>8

-----------------------------------------------------------------------------
\* The scheduler's unit, and keys of several blocks.

LEMMA LcmIs ==
  ASSUME NEW S \in SUBSET (Nat \ {0}), IsFiniteSet(S)
  PROVE  Lcm(S) \in Nat \ {0} /\ \A n \in S : Lcm(S) % n = 0
<1> DEFINE P == ProductSet(S)
           M == {m \in 1 .. P : \A n \in S : m % n = 0}
<1>1. P \in Nat \ {0} /\ \A n \in S : P % n = 0
  BY ProductIs
<1> HIDE DEF P
<1>2. P \in M
  BY <1>1
<1>3. M \in SUBSET Nat
  BY <1>1
<1> HIDE DEF M
<1>4. Min(M) \in M
  BY <1>2, <1>3, MinIs
<1>5. Lcm(S) = Min(M)
  BY DEF Lcm, M, P
<1>6. QED
  BY <1>1, <1>4, <1>5 DEF M

LEMMA GcdDivides ==
  ASSUME NEW S \in SUBSET (Nat \ {0}), S # {}
  PROVE  Gcd(S) \in Nat \ {0} /\ \A n \in S : n % Gcd(S) = 0
<1> DEFINE least == Min(S)
           G == {d \in 1 .. least : \A n \in S : n % d = 0}
<1>1. least \in Nat \ {0}
  <2>1. S \in SUBSET Nat
    OBVIOUS
  <2>2. QED
    BY <2>1, MinIs
<1> HIDE DEF least
<1>2. 1 \in G
  <2>1. \A n \in S : n % 1 = 0
    <3> SUFFICES ASSUME NEW n \in S PROVE n % 1 = 0
      OBVIOUS
    <3>1. n \in Int /\ 1 \in Nat \ {0}
      OBVIOUS
    <3>2. n % 1 \in 0 .. 1 - 1
      BY <3>1, DivIs
    <3>3. QED
      BY <3>2
  <2>2. QED
    BY <1>1, <2>1
<1>3. G \in SUBSET Int /\ IsFiniteSet(G)
  <2>1. IsFiniteSet(1 .. least)
    BY <1>1, FS_Interval
  <2>2. G \in SUBSET (1 .. least)
    OBVIOUS
  <2>3. G \in SUBSET Int
    BY <1>1
  <2> HIDE DEF G
  <2>4. IsFiniteSet(G)
    BY <2>1, <2>2, FS_Subset
  <2>5. QED
    BY <2>3, <2>4
<1> HIDE DEF G
<1>4. Max(G) \in G
  BY <1>2, <1>3, MaxIs
<1>5. Gcd(S) = Max(G)
  BY DEF Gcd, G, least
<1>6. QED
  BY <1>1, <1>4, <1>5 DEF G

\* Keys of parts, taken at the end of each block, name the tokens up to there.
LEMMA CoarseIs ==
  ASSUME NEW hash \in Nat \ {0}, NEW block \in Nat \ {0}, block % hash = 0, NEW n \in Nat
  PROVE  Coarse([k \in 1 .. n \div hash |-> k * hash], block \div hash)
           = [b \in 1 .. n \div block |-> b * block]
<1> DEFINE scale == block \div hash
           parts == n \div hash
           keys == [k \in 1 .. parts |-> k * hash]
<1>1. scale \in Nat \ {0} /\ block = hash * scale /\ parts \in Nat
  <2>1. /\ block \in Int /\ scale \in Int /\ block = hash * scale + (block % hash)
        /\ (block \in Nat => scale \in Nat)
    BY DivIs
  <2>2. parts \in Nat
    BY DivIs
  <2> HIDE DEF scale, parts
  <2>3. block = hash * scale
    <3>1. hash * scale \in Int
      BY <2>1, Times
    <3>2. QED
      BY <2>1, <3>1
  <2>4. scale # 0
    BY <2>3
  <2>5. QED
    BY <2>1, <2>2, <2>3, <2>4
<1>2. parts \div scale = n \div block
  <2>1. n \in Int
    OBVIOUS
  <2>2. (n \div hash) \div scale = n \div (hash * scale)
    <3> HIDE DEF scale
    <3>1. QED
      BY <1>1, <2>1, DivDiv, ZenonT(60)
  <2> HIDE DEF scale
  <2>3. QED
    BY <1>1, <2>2
<1> HIDE DEF scale, parts
<1>3. Len(keys) = parts
  BY <1>1
<1>4. \A b \in 1 .. parts \div scale : keys[b * scale] = b * block
  <2> SUFFICES ASSUME NEW b \in 1 .. parts \div scale PROVE keys[b * scale] = b * block
    OBVIOUS
  <2> DEFINE q == parts \div scale
             k == b * scale
  <2>1. parts \in Int /\ q \in Int /\ scale * q <= parts /\ scale \in Int /\ hash \in Int
    BY <1>1, DivIs
  <2> HIDE DEF q
  <2>2. b \in Int /\ 1 <= b /\ b <= q
    BY <2>1 DEF q
  <2>3. k \in Int /\ k = scale * b /\ k <= q * scale /\ scale <= k
    <3>1. b * scale <= q * scale
      BY <1>1, <2>1, <2>2, Times
    <3>2. 1 * scale <= b * scale
      BY <1>1, <2>1, <2>2, Times
    <3>3. b * scale \in Int /\ b * scale = scale * b /\ 1 * scale = scale
      BY <2>1, <2>2, Times
    <3>4. QED
      BY <3>1, <3>2, <3>3
  <2>4. q * scale = scale * q /\ q * scale \in Int
    BY <2>1, Times
  <2>5. k * hash = b * block
    <3>1. (b * scale) * hash = b * (scale * hash)
      BY <2>1, <2>2, Times
    <3>2. scale * hash = block
      BY <1>1, <2>1, Times
    <3>3. QED
      BY <3>1, <3>2
  <2> HIDE DEF k
  <2>6. k \in 1 .. parts
    BY <1>1, <2>1, <2>3, <2>4
  <2>7. keys[k] = k * hash
    BY <2>6
  <2>8. QED
    BY <2>5, <2>7 DEF k
<1>5. Coarse(keys, scale) = [b \in 1 .. parts \div scale |-> b * block]
  <2> HIDE DEF keys
  <2>1. QED
    BY <1>3, <1>4 DEF Coarse
<1>6. QED
  BY <1>2, <1>5 DEF scale, parts

-----------------------------------------------------------------------------
\* A worker's part of all the groups plans as the whole model does: its requests take
\* as many blocks.

\* A worker's share ps of the groups gs of the layers D.
IsShare(ps, gs, own, D) ==
  /\ D \in SUBSET Nat /\ IsFiniteSet(D) /\ GroupsOK(gs, D)
  /\ DOMAIN ps = 1 .. Len(gs) /\ Len(ps) = Len(gs)
  /\ \A i \in 1 .. Len(gs) : IsProjection(ps[i], gs[i], own)

\* What is left of a group keeps some of its specs.
Keeps(p, g) ==
  /\ DOMAIN p.specs \in SUBSET DOMAIN g.specs /\ DOMAIN p.specs # {}
  /\ \A l \in DOMAIN p.specs : p.specs[l] = g.specs[l]
  /\ p.specs \in [DOMAIN p.specs -> Specs]

LEMMA GroupKeeps ==
  ASSUME NEW D, NEW g, IsGroup(g, D)
  PROVE  Keeps(g, g) /\ \A p, own : IsProjection(p, g, own) => Keeps(p, g)
<1>1. Keeps(g, g)
  BY DEF IsGroup, Keeps
<1>2. \A p, own : IsProjection(p, g, own) => Keeps(p, g)
  BY DEF IsProjection, Keeps
<1>3. QED
  BY <1>1, <1>2

LEMMA PagesForIs ==
  ASSUME NEW s \in Specs, NEW n \in Nat
  PROVE  PagesFor(s, n) \in Nat /\ (n # 0 => PagesFor(s, n) # 0)
<1>1. /\ s.kind \in Kinds /\ s.block \in Nat \ {0} /\ s.window \in Nat
  BY DEF Specs
<1>2. MaxBatched \in Nat \ {0} /\ SpecBlocks \in Nat
  BY SizingAssumption
<1>3. CASE s.kind = "mamba"
  <2>1. PagesFor(s, n) = 1 + SpecBlocks
    BY <1>3 DEF PagesFor, IsSliding
  <2>2. QED
    BY <1>2, <2>1
<1>4. CASE IsSliding(s)
  <2> DEFINE m == IF s.window - 1 + MaxBatched < n THEN s.window - 1 + MaxBatched ELSE n
  <2>1. PagesFor(s, n) = CeilDiv(m, s.block) + 1
    <3>1. s.kind # "mamba" /\ s.kind # "chunked"
      BY <1>4 DEF IsSliding
    <3>2. QED
      BY <1>4, <3>1 DEF PagesFor
  <2>2. m \in Nat
    BY <1>1, <1>2
  <2> HIDE DEF m
  <2>3. CeilDiv(m, s.block) \in Nat
    BY <1>1, <2>2, CeilIs
  <2>4. QED
    BY <2>1, <2>3
<1>5. CASE s.kind = "chunked"
  <2> DEFINE m == IF s.window + MaxBatched < n THEN s.window + MaxBatched ELSE n
  <2>1. PagesFor(s, n) = CeilDiv(m, s.block)
    BY <1>5 DEF PagesFor, IsSliding
  <2>2. m \in Nat /\ (n # 0 => m # 0)
    BY <1>1, <1>2
  <2> HIDE DEF m
  <2>3. CeilDiv(m, s.block) \in Nat /\ (m # 0 => CeilDiv(m, s.block) # 0)
    BY <1>1, <2>2, CeilIs
  <2>4. QED
    BY <2>1, <2>2, <2>3
<1>6. CASE s.kind # "mamba" /\ ~IsSliding(s) /\ s.kind # "chunked"
  <2>1. PagesFor(s, n) = CeilDiv(n, s.block)
    BY <1>6 DEF PagesFor
  <2>2. CeilDiv(n, s.block) \in Nat /\ (n # 0 => CeilDiv(n, s.block) # 0)
    BY <1>1, CeilIs
  <2>3. QED
    BY <2>1, <2>2
<1>7. QED
  BY <1>3, <1>4, <1>5, <1>6

\* Any spec that a part keeps speaks for its group.
LEMMA PartSpecs ==
  ASSUME NEW D \in SUBSET Nat, IsFiniteSet(D), NEW g, IsGroup(g, D), NEW p, Keeps(p, g)
  PROVE  /\ Min(DOMAIN p.specs) \in DOMAIN p.specs /\ SpecOf(p) \in Values(p.specs)
         /\ Values(p.specs) \in SUBSET Values(g.specs) /\ Values(p.specs) \in SUBSET Specs
         /\ Values(g.specs) \in SUBSET Specs
         /\ IsFiniteSet(DOMAIN p.specs) /\ DOMAIN p.specs \in SUBSET Nat
         /\ \A l \in DOMAIN p.specs : p.specs[l] \in Values(p.specs)
         /\ \A s, t \in Values(g.specs) :
              /\ s.block = t.block
              /\ s.kind = "mamba" <=> t.kind = "mamba"
              /\ \A n \in Nat : PagesFor(s, n) = PagesFor(t, n)
<1>1. /\ DOMAIN p.specs \in SUBSET DOMAIN g.specs /\ DOMAIN p.specs # {}
      /\ \A l \in DOMAIN p.specs : p.specs[l] = g.specs[l]
      /\ p.specs \in [DOMAIN p.specs -> Specs]
  BY DEF Keeps
<1>2. /\ DOMAIN g.specs \in SUBSET D /\ g.specs \in [DOMAIN g.specs -> Specs]
      /\ Alike(Values(g.specs))
  BY DEF IsGroup
<1>3. DOMAIN p.specs \in SUBSET Nat
  BY <1>1, <1>2
<1>4. Min(DOMAIN p.specs) \in DOMAIN p.specs
  BY <1>1, <1>3, MinIs
<1>5. IsFiniteSet(DOMAIN p.specs)
  <2>1. DOMAIN p.specs \in SUBSET D
    BY <1>1, <1>2
  <2>2. QED
    BY <2>1, FS_Subset
<1>6. \A l \in DOMAIN p.specs : p.specs[l] \in Values(p.specs)
  BY DEF Values
<1>7. SpecOf(p) \in Values(p.specs)
  BY <1>4, <1>6 DEF SpecOf
<1>8. Values(p.specs) \in SUBSET Values(g.specs)
  BY <1>1 DEF Values
<1>9. Values(g.specs) \in SUBSET Specs
  BY <1>2 DEF Values
<1>10. Values(p.specs) \in SUBSET Specs
  BY <1>8, <1>9
<1>11. QED
  BY <1>2, <1>3, <1>4, <1>5, <1>6, <1>7, <1>8, <1>9, <1>10 DEF Alike

\* A request takes as many blocks on every worker.
LEMMA PartPages ==
  ASSUME NEW D \in SUBSET Nat, IsFiniteSet(D), NEW g, IsGroup(g, D), NEW p, Keeps(p, g), NEW n \in Nat
  PROVE  /\ GroupPages(p, n) \in Nat /\ (n # 0 => GroupPages(p, n) # 0)
         /\ \A s \in Values(g.specs) : GroupPages(p, n) = PagesFor(s, n)
<1>1. /\ SpecOf(p) \in Values(p.specs) /\ Values(p.specs) \in SUBSET Values(g.specs)
      /\ Values(g.specs) \in SUBSET Specs
      /\ \A s, t \in Values(g.specs) : PagesFor(s, n) = PagesFor(t, n)
  BY PartSpecs
<1> DEFINE m == PagesFor(SpecOf(p), n)
<1>2. m \in Nat /\ (n # 0 => m # 0)
  <2>1. SpecOf(p) \in Specs
    BY <1>1
  <2>2. QED
    BY <2>1, PagesForIs
<1>3. {PagesFor(s, n) : s \in Values(p.specs)} = {m}
  BY <1>1
<1>4. \A s \in Values(g.specs) : m = PagesFor(s, n)
  BY <1>1
<1> HIDE DEF m
<1>5. Max({m}) = m
  <2>1. {m} \in SUBSET Int
    BY <1>2
  <2>2. IsFiniteSet({m})
    BY FS_Singleton
  <2>3. Max({m}) \in {m}
    BY <2>1, <2>2, MaxIs
  <2>4. QED
    BY <2>3
<1>6. GroupPages(p, n) = m
  BY <1>3, <1>5 DEF GroupPages
<1>7. QED
  BY <1>2, <1>4, <1>6

-----------------------------------------------------------------------------
\* The bytes of a worker's part.

LEMMA ShareKeeps ==
  ASSUME NEW ps, NEW gs, NEW own, NEW D, IsShare(ps, gs, own, D)
  PROVE  /\ Len(gs) \in Nat /\ DOMAIN gs = 1 .. Len(gs) /\ DOMAIN ps = 1 .. Len(gs)
         /\ D \in SUBSET Nat /\ IsFiniteSet(D)
         /\ \A i \in 1 .. Len(gs) :
              /\ IsGroup(gs[i], D) /\ Keeps(ps[i], gs[i]) /\ Keeps(gs[i], gs[i])
              /\ IsProjection(ps[i], gs[i], own)
<1>1. /\ D \in SUBSET Nat /\ IsFiniteSet(D) /\ Apart(gs, D) /\ DOMAIN ps = 1 .. Len(gs)
      /\ \A i \in 1 .. Len(gs) : IsProjection(ps[i], gs[i], own)
  BY DEF IsShare, GroupsOK
<1>2. Len(gs) \in Nat /\ DOMAIN gs = 1 .. Len(gs) /\ \A i \in 1 .. Len(gs) : IsGroup(gs[i], D)
  BY <1>1 DEF Apart
<1>3. \A i \in 1 .. Len(gs) : Keeps(ps[i], gs[i]) /\ Keeps(gs[i], gs[i])
  BY <1>1, <1>2, GroupKeeps
<1>4. QED
  BY <1>1, <1>2, <1>3

\* A request takes as many blocks on every worker.
LEMMA SharePages ==
  ASSUME NEW ps, NEW gs, NEW own, NEW D, IsShare(ps, gs, own, D), NEW n \in Nat
  PROVE  /\ \A i \in 1 .. Len(gs) : /\ GroupPages(ps[i], n) = GroupPages(gs[i], n)
                                    /\ GroupPages(gs[i], n) \in Nat
                                    /\ n # 0 => GroupPages(gs[i], n) # 0
         /\ RequestPages(ps, n) = RequestPages(gs, n)
         /\ RequestPages(gs, n) \in Nat
         /\ n # 0 /\ Len(gs) # 0 => RequestPages(gs, n) # 0
<1> DEFINE m == Len(gs)
<1>1. /\ m \in Nat /\ DOMAIN gs = 1 .. m /\ DOMAIN ps = 1 .. m
      /\ D \in SUBSET Nat /\ IsFiniteSet(D)
      /\ \A i \in 1 .. m : IsGroup(gs[i], D) /\ Keeps(ps[i], gs[i]) /\ Keeps(gs[i], gs[i])
  BY ShareKeeps
<1> HIDE DEF m
<1>2. ASSUME NEW i \in 1 .. m
      PROVE  /\ GroupPages(ps[i], n) = GroupPages(gs[i], n)
             /\ GroupPages(gs[i], n) \in Nat /\ (n # 0 => GroupPages(gs[i], n) # 0)
  <2> DEFINE g == gs[i]
             p == ps[i]
             s == SpecOf(g)
  <2>1. IsGroup(g, D) /\ Keeps(p, g) /\ Keeps(g, g)
    BY <1>1
  <2> HIDE DEF g, p
  <2>2. s \in Values(g.specs)
    BY <1>1, <2>1, PartSpecs
  <2>3. \A t \in Values(g.specs) : GroupPages(p, n) = PagesFor(t, n)
    BY <1>1, <2>1, PartPages
  <2>4. /\ GroupPages(g, n) \in Nat /\ (n # 0 => GroupPages(g, n) # 0)
        /\ \A t \in Values(g.specs) : GroupPages(g, n) = PagesFor(t, n)
    BY <1>1, <2>1, PartPages
  <2>5. GroupPages(p, n) = GroupPages(g, n)
    BY <2>2, <2>3, <2>4
  <2>6. QED
    BY <2>4, <2>5 DEF g, p
<1> DEFINE f == [i \in 1 .. m |-> GroupPages(gs[i], n)]
<1>3. [i \in DOMAIN ps |-> GroupPages(ps[i], n)] = f /\ [i \in DOMAIN gs |-> GroupPages(gs[i], n)] = f
  BY <1>1, <1>2
<1>4. RequestPages(ps, n) = SumFunction(f) /\ RequestPages(gs, n) = SumFunction(f)
  BY <1>3 DEF RequestPages
<1>5. DOMAIN f = 1 .. m /\ \A i \in 1 .. m : f[i] \in Nat /\ (n # 0 => f[i] # 0)
  BY <1>2
<1> HIDE DEF f
<1>6. IsFiniteSet(DOMAIN f)
  <2>1. IsFiniteSet(1 .. m)
    BY <1>1, FS_Interval
  <2>2. QED
    BY <1>5, <2>1
<1> DEFINE total == SumFunction(f)
<1>7. total \in Nat /\ \A i \in 1 .. m : f[i] <= total
  BY <1>5, <1>6, SumProperties
<1> HIDE DEF total
<1>8. n # 0 /\ m # 0 => total # 0
  <2> SUFFICES ASSUME n # 0, m # 0 PROVE total # 0
    OBVIOUS
  <2>1. 1 \in 1 .. m
    BY <1>1
  <2>2. QED
    BY <1>5, <1>7, <2>1
<1>9. QED
  BY <1>2, <1>4, <1>7, <1>8 DEF total, m

\* The bytes of a block in all the layers of a part, and those of a request there.
LEMMA PartBytes ==
  ASSUME NEW D \in SUBSET Nat, IsFiniteSet(D), NEW g, IsGroup(g, D), NEW p, Keeps(p, g)
  PROVE  /\ AllPages(p) \in Nat \ {0}
         /\ \A n \in Nat : LayerBytes(p, n) = GroupPages(p, n) * AllPages(p)
<1> DEFINE S == DOMAIN p.specs
           f == [l \in S |-> PageSize(p.specs[l])]
<1>1. /\ IsFiniteSet(S) /\ Values(p.specs) \in SUBSET Specs
      /\ \A l \in S : p.specs[l] \in Values(p.specs)
      /\ Values(p.specs) \in SUBSET Values(g.specs)
  BY PartSpecs
<1>2. S # {}
  BY DEF Keeps
<1>3. \A l \in S : f[l] \in Nat \ {0}
  BY <1>1, Pages
<1>4. DOMAIN f = S /\ AllPages(p) = SumFunction(f)
  BY DEF AllPages
<1>5. \A n \in Nat : LayerBytes(p, n) = SumFunction([l \in S |-> PagesFor(p.specs[l], n) * f[l]])
  BY DEF LayerBytes, PageOf
<1> HIDE DEF S, f
<1> DEFINE total == SumFunction(f)
<1>6. total \in Nat \ {0}
  <2>1. total \in Nat /\ \A l \in S : f[l] <= total
    BY <1>1, <1>3, <1>4, SumProperties
  <2> HIDE DEF total
  <2>2. QED
    BY <1>2, <1>3, <2>1
<1>7. ASSUME NEW n \in Nat PROVE LayerBytes(p, n) = GroupPages(p, n) * total
  <2> DEFINE c == GroupPages(p, n)
             h == [l \in S |-> PagesFor(p.specs[l], n) * f[l]]
  <2>1. c \in Nat /\ \A s \in Values(g.specs) : c = PagesFor(s, n)
    BY PartPages
  <2> HIDE DEF c
  <2>2. \A l \in S : PagesFor(p.specs[l], n) = c
    BY <1>1, <2>1
  <2>3. DOMAIN h = S /\ \A l \in S : h[l] = c * f[l]
    BY <2>2
  <2>4. LayerBytes(p, n) = SumFunction(h)
    BY <1>5
  <2> HIDE DEF h
  <2>5. c \in Int /\ \A l \in S : f[l] \in Int
    BY <1>3, <2>1
  <2>6. SumFunction(h) = c * SumFunction(f)
    BY <1>1, <1>4, <2>3, <2>5, SumScaled
  <2>7. QED
    BY <2>4, <2>6 DEF c, total
<1>8. QED
  BY <1>4, <1>6, <1>7 DEF total

\* The largest of finitely many numbers.
LEMMA MaxOver ==
  ASSUME NEW m \in Nat, m # 0, NEW f \in [1 .. m -> Nat]
  PROVE  LET S == {f[i] : i \in 1 .. m} IN
         /\ Max(S) \in Nat /\ (\E i \in 1 .. m : f[i] = Max(S))
         /\ \A i \in 1 .. m : f[i] <= Max(S)
<1> DEFINE S == {f[i] : i \in 1 .. m}
<1>1. S \in SUBSET Nat
  OBVIOUS
<1>2. 1 \in 1 .. m
  OBVIOUS
<1>3. S # {}
  BY <1>2
<1>4. IsFiniteSet(S)
  <2>1. IsFiniteSet(1 .. m)
    BY FS_Interval
  <2>2. \A x \in S : \E y \in 1 .. m : f[y] = x
    OBVIOUS
  <2> HIDE DEF S
  <2>3. QED
    BY <2>1, <2>2, FiniteImage
<1>5. S \in SUBSET Int
  BY <1>1
<1>6. Max(S) \in S /\ \A y \in S : y <= Max(S)
  <2> HIDE DEF S
  <2>1. QED
    BY <1>3, <1>4, <1>5, MaxIs
<1>7. QED
  BY <1>1, <1>6

-----------------------------------------------------------------------------
\* A worker's layers, in order, and their pages.

\* The sequence o lists the set S, each element once.
Lists(o, S) ==
  /\ o \in Seq(S) /\ ToSet(o) = S /\ Len(o) \in Nat /\ Len(o) = Cardinality(S)
  /\ \A i, j \in DOMAIN o : o[i] = o[j] => i = j

LayersWith(q, p) == {l \in ToSet(q.layers) : PageOf(q, l) = p}

\* The layers of a part, and those of one page among them.
LEMMA PartLayers ==
  ASSUME NEW D \in SUBSET Nat, IsFiniteSet(D), NEW g, IsGroup(g, D), NEW own,
         NEW q, IsProjection(q, g, own)
  PROVE  /\ Len(q.layers) \in Nat /\ IsFiniteSet(ToSet(q.layers))
         /\ Len(q.layers) = Cardinality(ToSet(q.layers))
         /\ Len(q.layers) # 0 <=> ToSet(q.layers) # {}
         /\ ToSet(q.layers) \in SUBSET DOMAIN q.specs
         /\ ToSet(q.layers) \in SUBSET D
         /\ \A l \in DOMAIN q.specs : PageOf(q, l) \in Nat \ {0}
         /\ \A p : Lists(OfPage(q, p), LayersWith(q, p))
<1> DEFINE T == ToSet(q.layers)
<1>1. /\ T \in SUBSET DOMAIN q.specs /\ DOMAIN q.specs \in SUBSET DOMAIN g.specs
      /\ q.layers \in Seq(DOMAIN q.specs) /\ Len(q.layers) = Cardinality(T)
  BY DEF IsProjection
<1>2. DOMAIN g.specs \in SUBSET D
  BY DEF IsGroup
<1>3. Keeps(q, g)
  BY GroupKeeps
<1>4. /\ IsFiniteSet(DOMAIN q.specs) /\ DOMAIN q.specs \in SUBSET Nat
      /\ Values(q.specs) \in SUBSET Specs
      /\ \A l \in DOMAIN q.specs : q.specs[l] \in Values(q.specs)
  BY <1>3, PartSpecs
<1>5. IsFiniteSet(T)
  BY <1>1, <1>4, FS_Subset
<1>6. Len(q.layers) \in Nat /\ T = {q.layers[i] : i \in 1 .. Len(q.layers)}
  <2> DEFINE y == q.layers
  <2>1. y \in Seq(DOMAIN q.specs) /\ T = {y[i] : i \in DOMAIN y}
    BY <1>1 DEF ToSet
  <2> HIDE DEF y, T
  <2>2. Len(y) \in Nat /\ DOMAIN y = 1 .. Len(y)
    BY <2>1
  <2>3. QED
    BY <2>1, <2>2 DEF y
<1>7. Len(q.layers) # 0 <=> T # {}
  <2>1. Len(q.layers) # 0 => q.layers[1] \in T
    BY <1>6
  <2>2. Len(q.layers) = 0 => T = {}
    BY <1>6
  <2>3. QED
    BY <2>1, <2>2
<1>8. \A l \in DOMAIN q.specs : PageOf(q, l) \in Nat \ {0}
  BY <1>4, Pages DEF PageOf
<1> HIDE DEF T
<1>9. ASSUME NEW p
      PROVE  Lists(OfPage(q, p), LayersWith(q, p))
  <2> DEFINE S == LayersWith(q, p)
  <2>1. OfPage(q, p) = InOrder(S)
    BY DEF OfPage, LayersWith
  <2>2. S \in SUBSET T
    BY DEF LayersWith, T
  <2> HIDE DEF S
  <2>3. IsFiniteSet(S)
    BY <1>5, <2>2, FS_Subset
  <2>4. S \in SUBSET Nat
    BY <1>1, <1>4, <2>2
  <2>5. Nat \subseteq Int
    OBVIOUS
  <2>6. S \in SUBSET Int
    BY <2>4, <2>5
  <2>7. /\ InOrder(S) \in Seq(S) /\ Len(InOrder(S)) = Cardinality(S) /\ ToSet(InOrder(S)) = S
        /\ \A i, j \in DOMAIN InOrder(S) : InOrder(S)[i] = InOrder(S)[j] => i = j
    BY <2>3, <2>6, InOrderIs
  <2>8. Cardinality(S) \in Nat
    BY <2>3, FS_CardinalityType
  <2>9. QED
    BY <2>1, <2>7, <2>8 DEF S, Lists
<1>10. T \in SUBSET D
  BY <1>1, <1>2
<1>11. QED
  BY <1>1, <1>5, <1>6, <1>7, <1>8, <1>9, <1>10 DEF T

\* The pages, and the slots of each, in a worker's block.
LEMMA SharePagesIn ==
  ASSUME NEW ps, NEW gs, NEW own, NEW D, IsShare(ps, gs, own, D), Len(gs) # 0
  PROVE  /\ IsFiniteSet(PagesIn(ps)) /\ PagesIn(ps) \in SUBSET (Nat \ {0})
         /\ \A i \in 1 .. Len(gs) : \A l \in ToSet(ps[i].layers) : PageOf(ps[i], l) \in PagesIn(ps)
         /\ \A p \in PagesIn(ps) : \E i \in 1 .. Len(gs) : \E l \in ToSet(ps[i].layers) :
              PageOf(ps[i], l) = p
         /\ \A p : /\ Slots(ps, p) \in Nat
                   /\ \A i \in 1 .. Len(gs) : Len(OfPage(ps[i], p)) <= Slots(ps, p)
                   /\ \E i \in 1 .. Len(gs) : Len(OfPage(ps[i], p)) = Slots(ps, p)
<1> DEFINE m == Len(gs)
<1>1. /\ m \in Nat /\ m # 0 /\ DOMAIN ps = 1 .. m /\ D \in SUBSET Nat /\ IsFiniteSet(D)
      /\ \A i \in 1 .. m : IsGroup(gs[i], D) /\ IsProjection(ps[i], gs[i], own)
  BY ShareKeeps
<1> HIDE DEF m
<1>2. ASSUME NEW i \in 1 .. m
      PROVE  /\ ToSet(ps[i].layers) \in SUBSET D
             /\ \A l \in ToSet(ps[i].layers) : PageOf(ps[i], l) \in Nat \ {0}
             /\ \A p : Len(OfPage(ps[i], p)) \in Nat
  <2> DEFINE g == gs[i]
             q == ps[i]
  <2>1. IsGroup(g, D) /\ IsProjection(q, g, own)
    BY <1>1
  <2> HIDE DEF g, q
  <2>2. /\ ToSet(q.layers) \in SUBSET DOMAIN q.specs /\ ToSet(q.layers) \in SUBSET D
        /\ \A l \in DOMAIN q.specs : PageOf(q, l) \in Nat \ {0}
        /\ \A p : Lists(OfPage(q, p), LayersWith(q, p))
    BY <1>1, <2>1, PartLayers
  <2>3. QED
    BY <2>2 DEF q, Lists
<1>3. \A p : p \in PagesIn(ps) <=> \E i \in 1 .. m : \E l \in ToSet(ps[i].layers) : PageOf(ps[i], l) = p
  <2>1. PagesIn(ps) = UNION {{PageOf(ps[i], l) : l \in ToSet(ps[i].layers)} : i \in 1 .. m}
    BY <1>1 DEF PagesIn
  <2> DEFINE P(i) == {PageOf(ps[i], l) : l \in ToSet(ps[i].layers)}
  <2>2. PagesIn(ps) = UNION {P(i) : i \in 1 .. m}
    BY <2>1
  <2>3. \A p, i : p \in P(i) <=> \E l \in ToSet(ps[i].layers) : PageOf(ps[i], l) = p
    OBVIOUS
  <2> HIDE DEF P
  <2>4. \A p : p \in PagesIn(ps) <=> \E i \in 1 .. m : p \in P(i)
    BY <2>2
  <2>5. QED
    BY <2>3, <2>4
<1>4. IsFiniteSet(PagesIn(ps))
  <2> DEFINE X == (1 .. m) \X D
             f == [x \in X |-> PageOf(ps[x[1]], x[2])]
  <2>1. IsFiniteSet(X)
    <3>1. IsFiniteSet(1 .. m)
      BY <1>1, FS_Interval
    <3>2. QED
      BY <1>1, <3>1, FS_Product
  <2>2. \A p \in PagesIn(ps) : \E x \in X : f[x] = p
    <3> SUFFICES ASSUME NEW p \in PagesIn(ps) PROVE \E x \in X : f[x] = p
      OBVIOUS
    <3>1. PICK i \in 1 .. m : \E l \in ToSet(ps[i].layers) : PageOf(ps[i], l) = p
      BY <1>3
    <3>2. PICK l \in ToSet(ps[i].layers) : PageOf(ps[i], l) = p
      BY <3>1
    <3>3. <<i, l>> \in X
      BY <1>2
    <3>4. f[<<i, l>>] = p
      BY <3>2, <3>3
    <3>5. QED
      BY <3>3, <3>4
  <2> HIDE DEF X, f
  <2>3. QED
    BY <2>1, <2>2, FiniteImage
<1>5. PagesIn(ps) \in SUBSET (Nat \ {0})
  BY <1>2, <1>3
<1>6. ASSUME NEW p
      PROVE  /\ Slots(ps, p) \in Nat
             /\ \A i \in 1 .. m : Len(OfPage(ps[i], p)) <= Slots(ps, p)
             /\ \E i \in 1 .. m : Len(OfPage(ps[i], p)) = Slots(ps, p)
  <2> DEFINE f == [i \in 1 .. m |-> Len(OfPage(ps[i], p))]
             S == {f[i] : i \in 1 .. m}
  <2>1. f \in [1 .. m -> Nat]
    BY <1>2
  <2>2. Slots(ps, p) = Max(S)
    BY <1>1 DEF Slots
  <2>3. \A i \in 1 .. m : f[i] = Len(OfPage(ps[i], p))
    OBVIOUS
  <2> HIDE DEF f
  <2>4. /\ Max(S) \in Nat /\ (\E i \in 1 .. m : f[i] = Max(S))
        /\ \A i \in 1 .. m : f[i] <= Max(S)
    BY <1>1, <2>1, MaxOver
  <2>5. QED
    BY <2>2, <2>3, <2>4
<1>7. QED
  BY <1>3, <1>4, <1>5, <1>6 DEF m

LEMMA GroupSizeOfShare ==
  ASSUME NEW ps, NEW gs, NEW own, NEW D, IsShare(ps, gs, own, D), Len(gs) # 0
  PROVE  /\ GroupSize(ps) \in Nat
         /\ \A i \in 1 .. Len(gs) : Len(ps[i].layers) \in Nat /\ Len(ps[i].layers) <= GroupSize(ps)
         /\ \E i \in 1 .. Len(gs) : Len(ps[i].layers) = GroupSize(ps)
<1> DEFINE m == Len(gs)
<1>1. /\ m \in Nat /\ m # 0 /\ DOMAIN ps = 1 .. m /\ D \in SUBSET Nat /\ IsFiniteSet(D)
      /\ \A i \in 1 .. m : IsGroup(gs[i], D) /\ IsProjection(ps[i], gs[i], own)
  BY ShareKeeps
<1> HIDE DEF m
<1>2. \A i \in 1 .. m : Len(ps[i].layers) \in Nat
  BY <1>1, PartLayers
<1> DEFINE f == [i \in 1 .. m |-> Len(ps[i].layers)]
           S == {f[i] : i \in 1 .. m}
<1>3. f \in [1 .. m -> Nat] /\ \A i \in 1 .. m : f[i] = Len(ps[i].layers)
  BY <1>2
<1>4. GroupSize(ps) = Max(S)
  BY <1>1 DEF GroupSize
<1> HIDE DEF f
<1>5. /\ Max(S) \in Nat /\ (\E i \in 1 .. m : f[i] = Max(S))
      /\ \A i \in 1 .. m : f[i] <= Max(S)
  BY <1>1, <1>3, MaxOver
<1>6. QED
  BY <1>2, <1>3, <1>4, <1>5 DEF m

-----------------------------------------------------------------------------
\* The packed layout, and the bytes of a tuple.

\* The bytes of a packed block.
LEMMA PackedIs ==
  ASSUME NEW ps, NEW gs, NEW own, NEW D, IsShare(ps, gs, own, D), Len(gs) # 0
  PROVE  /\ PackedBytes(ps) \in Nat
         /\ PagesIn(ps) # {} => PackedBytes(ps) # 0
         /\ \A p \in PagesIn(ps) : Slots(ps, p) # 0 /\ p * Slots(ps, p) \in Nat
<1> DEFINE P == PagesIn(ps)
           f == [p \in P |-> p * Slots(ps, p)]
<1>0. ASSUME NEW i \in 1 .. Len(gs), NEW p
      PROVE  Lists(OfPage(ps[i], p), LayersWith(ps[i], p))
  <2> DEFINE q == ps[i]
             g == gs[i]
  <2>1. D \in SUBSET Nat /\ IsFiniteSet(D) /\ IsGroup(g, D) /\ IsProjection(q, g, own)
    BY ShareKeeps
  <2> HIDE DEF g, q
  <2>2. Lists(OfPage(q, p), LayersWith(q, p))
    BY <2>1, PartLayers
  <2>3. QED
    BY <2>2 DEF q
<1>1. /\ IsFiniteSet(P) /\ P \in SUBSET (Nat \ {0})
      /\ \A p : Slots(ps, p) \in Nat
      /\ \A p \in P : \E i \in 1 .. Len(gs) : \E l \in ToSet(ps[i].layers) : PageOf(ps[i], l) = p
      /\ \A p : \A i \in 1 .. Len(gs) : Len(OfPage(ps[i], p)) <= Slots(ps, p)
  BY SharePagesIn
<1>2. PackedBytes(ps) = SumFunction(f) /\ DOMAIN f = P
  BY DEF PackedBytes
<1>3. ASSUME NEW p \in P PROVE Slots(ps, p) # 0
  <2>1. PICK i \in 1 .. Len(gs) : \E l \in ToSet(ps[i].layers) : PageOf(ps[i], l) = p
    BY <1>1
  <2>2. PICK l \in ToSet(ps[i].layers) : PageOf(ps[i], l) = p
    BY <2>1
  <2> DEFINE q == ps[i]
             o == OfPage(q, p)
             S == LayersWith(q, p)
  <2>3. o \in Seq(S) /\ ToSet(o) = S /\ Len(o) \in Nat
    BY <1>0 DEF Lists
  <2>4. l \in S
    BY <2>2 DEF LayersWith
  <2> HIDE DEF S, o, q
  <2>5. Len(o) # 0
    BY <2>3, <2>4 DEF ToSet
  <2>6. Len(o) <= Slots(ps, p)
    BY <1>1 DEF o, q
  <2>7. QED
    BY <1>1, <2>3, <2>5, <2>6
<1>4. \A p \in P : f[p] = p * Slots(ps, p)
  OBVIOUS
<1> HIDE DEF P, f
<1>5. \A p \in P : p * Slots(ps, p) \in Nat \ {0}
  <2> SUFFICES ASSUME NEW p \in P PROVE p * Slots(ps, p) \in Nat \ {0}
    OBVIOUS
  <2>1. p \in Nat \ {0} /\ Slots(ps, p) \in Nat \ {0}
    BY <1>1, <1>3
  <2> DEFINE k == Slots(ps, p)
  <2> HIDE DEF k
  <2>2. p * k \in Nat \ {0}
    BY <2>1, Times DEF k
  <2>3. QED
    BY <2>2 DEF k
<1>6. \A p \in P : f[p] \in Nat \ {0}
  BY <1>4, <1>5
<1>7. SumFunction(f) \in Nat /\ \A p \in P : f[p] <= SumFunction(f)
  <2>1. IsFiniteSet(DOMAIN f) /\ \A p \in DOMAIN f : f[p] \in Nat
    BY <1>1, <1>2, <1>6
  <2>2. QED
    BY <1>2, <2>1, SumProperties
<1> DEFINE total == SumFunction(f)
<1>8. total \in Nat /\ \A p \in P : f[p] <= total
  BY <1>7
<1> HIDE DEF total
<1>9. P # {} => total # 0
  BY <1>6, <1>8
<1>10. QED
  BY <1>2, <1>3, <1>5, <1>8, <1>9 DEF total, P

\* The bytes of a tuple of layers, and the tuples of the largest group.
Tuples(gs) == Max({LayerTuples(gs[i].specs) : i \in DOMAIN gs})
TupleBytes(gs) == SumFunction([p \in PageSizes(gs[1].specs) |-> p])

LEMMA TuplesOfShare ==
  ASSUME NEW ps, NEW gs, NEW own, NEW D, IsShare(ps, gs, own, D), Len(gs) # 0
  PROVE  /\ Tuples(ps) \in Nat
         /\ \A i \in 1 .. Len(gs) : LayerTuples(ps[i].specs) <= Tuples(ps)
         /\ TupleBytes(ps) \in Nat
         /\ IsFiniteSet(PageSizes(ps[1].specs)) /\ PageSizes(ps[1].specs) \in SUBSET (Nat \ {0})
<1> DEFINE m == Len(gs)
<1>1. /\ m \in Nat /\ m # 0 /\ DOMAIN ps = 1 .. m /\ D \in SUBSET Nat /\ IsFiniteSet(D)
      /\ \A i \in 1 .. m : IsGroup(gs[i], D) /\ Keeps(ps[i], gs[i])
  BY ShareKeeps
<1> HIDE DEF m
<1>2. ASSUME NEW i \in 1 .. m
      PROVE  /\ LayerTuples(ps[i].specs) \in Nat
             /\ IsFiniteSet(PageSizes(ps[i].specs)) /\ PageSizes(ps[i].specs) \in SUBSET (Nat \ {0})
  <2> DEFINE g == gs[i]
             q == ps[i]
             s == q.specs
             S == DOMAIN s
  <2>1. IsGroup(g, D) /\ Keeps(q, g)
    BY <1>1
  <2> HIDE DEF g, q
  <2>2. IsFiniteSet(S) /\ Values(s) \in SUBSET Specs
    BY <1>1, <2>1, PartSpecs
  <2>3. S # {} /\ s \in [S -> Specs]
    BY <2>1 DEF Keeps
  <2> HIDE DEF s
  <2>4. LayerTuples(s) \in Nat \ {0}
    <3> HIDE DEF S
    <3>1. QED
      BY <2>2, <2>3, TuplesIs
  <2>5. PageSizes(s) \in SUBSET (Nat \ {0})
    BY <2>2, Pages DEF PageSizes
  <2>6. IsFiniteSet(PageSizes(s))
    <3> DEFINE f == [l \in S |-> PageSize(s[l])]
               P == PageSizes(s)
    <3>1. \A p \in P : \E l \in S : f[l] = p
      BY DEF PageSizes, Values
    <3> HIDE DEF f, P, S
    <3>2. IsFiniteSet(P)
      BY <2>2, <3>1, FiniteImage
    <3>3. QED
      BY <3>2 DEF P
  <2>7. QED
    BY <2>4, <2>5, <2>6 DEF s, q
<1> DEFINE f == [i \in 1 .. m |-> LayerTuples(ps[i].specs)]
           S == {f[i] : i \in 1 .. m}
<1>3. f \in [1 .. m -> Nat] /\ \A i \in 1 .. m : f[i] = LayerTuples(ps[i].specs)
  BY <1>2
<1>4. Tuples(ps) = Max(S)
  BY <1>1 DEF Tuples
<1> HIDE DEF f
<1>5. Max(S) \in Nat /\ \A i \in 1 .. m : f[i] <= Max(S)
  BY <1>1, <1>3, MaxOver
<1>6. 1 \in 1 .. m
  BY <1>1
<1> DEFINE P == PageSizes(ps[1].specs)
           h == [p \in P |-> p]
<1>7. IsFiniteSet(P) /\ P \in SUBSET (Nat \ {0})
  BY <1>2, <1>6
<1> HIDE DEF P
<1>8. IsFiniteSet(DOMAIN h) /\ \A p \in DOMAIN h : h[p] \in Nat
  BY <1>7
<1> HIDE DEF h
<1>9. SumFunction(h) \in Nat
  BY <1>8, SumProperties
<1>10. TupleBytes(ps) \in Nat
  BY <1>9 DEF TupleBytes, h, P
<1>11. QED
  BY <1>3, <1>4, <1>5, <1>7, <1>10 DEF m, P

\* The layout is that of the whole model's groups.
LEMMA ShareLayout ==
  ASSUME NEW ps, NEW gs, NEW own, NEW D, IsShare(ps, gs, own, D), Len(gs) # 0
  PROVE  /\ SingleUniform(ps) <=> SingleUniform(gs)
         /\ AllUniform(ps) <=> AllUniform(gs)
         /\ Packed(ps) <=> Packed(gs)
         /\ SingleUniform(ps) => AllUniform(ps)
         /\ Len(ps) = Len(gs) /\ DOMAIN ps = 1 .. Len(gs)
<1>1. /\ Len(gs) \in Nat /\ DOMAIN gs = 1 .. Len(gs) /\ DOMAIN ps = 1 .. Len(gs)
      /\ \A i \in 1 .. Len(gs) : IsProjection(ps[i], gs[i], own)
  BY ShareKeeps
<1>2. Len(ps) = Len(gs)
  BY DEF IsShare
<1>3. \A i \in 1 .. Len(gs) : ps[i].uniform = gs[i].uniform
  BY <1>1 DEF IsProjection
<1>4. 1 \in 1 .. Len(gs)
  BY <1>1
<1>5. SingleUniform(ps) <=> SingleUniform(gs)
  BY <1>2, <1>3, <1>4 DEF SingleUniform
<1>6. AllUniform(ps) <=> AllUniform(gs)
  BY <1>1, <1>3 DEF AllUniform
<1>7. SingleUniform(ps) => AllUniform(ps)
  BY <1>1, <1>2 DEF SingleUniform, AllUniform
<1>8. QED
  BY <1>1, <1>2, <1>5, <1>6, <1>7 DEF Packed

\* What a request needs and what a block takes are numbers.
LEMMA BytesAre ==
  ASSUME NEW ps, NEW gs, NEW own, NEW D, IsShare(ps, gs, own, D), Len(gs) # 0
  PROVE  /\ PoolBytesPerBlock(ps) \in Nat
         /\ \A n \in Nat : NeededBytes(ps, n) \in Nat
         /\ PageSize(SpecOf(ps[1])) \in Nat \ {0}
         /\ AllPages(ps[1]) \in Nat \ {0}
         /\ \A n \in Nat : LayerBytes(ps[1], n) = GroupPages(ps[1], n) * AllPages(ps[1])
<1> DEFINE g == gs[1]
           q == ps[1]
           page == PageSize(SpecOf(q))
           all == AllPages(q)
<1>1. /\ Len(gs) \in Nat /\ D \in SUBSET Nat /\ IsFiniteSet(D)
      /\ \A i \in 1 .. Len(gs) : IsGroup(gs[i], D) /\ Keeps(ps[i], gs[i])
  BY ShareKeeps
<1>2. IsGroup(g, D) /\ Keeps(q, g)
  <2>1. 1 \in 1 .. Len(gs)
    BY <1>1
  <2>2. QED
    BY <1>1, <2>1
<1> HIDE DEF g, q
<1>3. SpecOf(q) \in Specs
  <2>1. SpecOf(q) \in Values(q.specs) /\ Values(q.specs) \in SUBSET Specs
    BY <1>1, <1>2, PartSpecs
  <2>2. QED
    BY <2>1
<1>4. page \in Nat \ {0}
  BY <1>3, Pages
<1>5. all \in Nat \ {0} /\ \A n \in Nat : LayerBytes(q, n) = GroupPages(q, n) * all
  BY <1>1, <1>2, PartBytes
<1>6. \A n \in Nat : GroupPages(q, n) \in Nat
  BY <1>1, <1>2, PartPages
<1> HIDE DEF page, all
<1>7. GroupSize(ps) \in Nat /\ PackedBytes(ps) \in Nat /\ Tuples(ps) \in Nat /\ TupleBytes(ps) \in Nat
  BY GroupSizeOfShare, PackedIs, TuplesOfShare
<1>8. \A n \in Nat : RequestPages(ps, n) \in Nat
  <2> SUFFICES ASSUME NEW n \in Nat PROVE RequestPages(ps, n) \in Nat
    OBVIOUS
  <2>1. RequestPages(ps, n) = RequestPages(gs, n) /\ RequestPages(gs, n) \in Nat
    BY SharePages
  <2>2. QED
    BY <2>1
<1>9. PoolBytesPerBlock(ps) \in Nat
  <2> DEFINE k == GroupSize(ps)
  <2>1. k \in Nat
    BY <1>7
  <2> HIDE DEF k
  <2>2. page * k \in Nat
    BY <1>4, <2>1, Times
  <2>3. CASE SingleUniform(ps)
    <3>1. ~ Packed(ps)
      BY <2>3 DEF Packed
    <3>2. PoolBytesPerBlock(ps) = all
      BY <2>3, <3>1 DEF PoolBytesPerBlock, all, q
    <3>3. QED
      BY <1>5, <3>2
  <2>4. CASE Packed(ps)
    <3>1. ~ SingleUniform(ps)
      BY <2>4 DEF Packed
    <3>2. PoolBytesPerBlock(ps) = PackedBytes(ps)
      BY <2>4, <3>1 DEF PoolBytesPerBlock
    <3>3. QED
      BY <1>7, <3>2
  <2>5. CASE ~SingleUniform(ps) /\ ~Packed(ps)
    <3>1. PoolBytesPerBlock(ps) = page * k
      BY <2>5 DEF PoolBytesPerBlock, page, k, q
    <3>2. QED
      BY <2>2, <3>1
  <2>6. QED
    BY <2>3, <2>4, <2>5
<1>10. ASSUME NEW n \in Nat PROVE NeededBytes(ps, n) \in Nat
  <2> DEFINE k == GroupSize(ps)
             r == RequestPages(ps, n)
             t == Tuples(ps)
             b == TupleBytes(ps)
             c == GroupPages(q, n)
  <2>1. k \in Nat /\ r \in Nat /\ t \in Nat /\ b \in Nat /\ c \in Nat
    BY <1>6, <1>7, <1>8
  <2>2. /\ SingleUniform(ps) => NeededBytes(ps, n) = LayerBytes(q, n)
        /\ ~SingleUniform(ps) /\ AllUniform(ps) => NeededBytes(ps, n) = t * b * r
        /\ ~SingleUniform(ps) /\ ~AllUniform(ps) => NeededBytes(ps, n) = k * page * r
    BY DEF NeededBytes, Tuples, TupleBytes, page, q
  <2> HIDE DEF k, r, t, b, c
  <2>3. t * b \in Nat /\ k * page \in Nat
    BY <1>4, <2>1, Times
  <2>4. (t * b) * r \in Nat /\ (k * page) * r \in Nat
    BY <2>1, <2>3, Times
  <2>5. LayerBytes(q, n) \in Nat
    <3>1. LayerBytes(q, n) = c * all
      BY <1>5 DEF c
    <3>2. c * all \in Nat
      BY <1>5, <2>1, Times
    <3>3. QED
      BY <3>1, <3>2
  <2>6. QED
    BY <2>2, <2>4, <2>5
<1>11. QED
  BY <1>4, <1>5, <1>9, <1>10 DEF page, all, q

-----------------------------------------------------------------------------
\* The invariant, one part for each phase of start-up.

Layers == DOMAIN scenario.specs

\* What the variables hold.  The groups are sound at every time: none, before they are made.
SizesTyped ==
  /\ scenario \in Scenarios
  /\ phase \in {"profiling", "grouping", "planning", "checking", "building", "resolving",
                "agreed", "ready", "refused"}
  /\ avail \in [Workers -> Int \cup {Unknown}]
  /\ phase \in {"grouping", "planning", "checking", "building", "resolving", "agreed", "ready"} =>
       avail \in [Workers -> Int]
  /\ maxLen \in 1 .. scenario.maxLen
  /\ GroupsOK(groups, Layers)
  /\ DOMAIN tables = Workers

\* The memory planned for, and the length.
MemoryPlanned ==
  /\ phase \in {"profiling", "grouping", "planning"} => maxLen = scenario.maxLen
  /\ phase \in {"checking", "building", "resolving", "agreed", "ready"} =>
       /\ groups = <<>> \/ ~scenario.autoFit => maxLen = scenario.maxLen
       /\ groups # <<>> /\ scenario.override # 0 =>
            \A w \in Workers : avail[w] = scenario.override * PoolBytesPerBlock(Projected(w))
       /\ groups # <<>> /\ scenario.autoFit => maxLen = Fitted(avail)

MemoryChecked ==
  phase \in {"building", "resolving", "agreed", "ready"} /\ groups # <<>> =>
    \A w \in Workers : avail[w] > 0 /\ NeededBytes(Projected(w), maxLen) <= avail[w]

ConfigsBuilt ==
  phase \in {"resolving", "agreed", "ready"} =>
    /\ \A w \in Workers : LayersOn(w) = Cardinality(scenario.owns[w])
    /\ \A w \in Workers : groups # <<>> => scenario.owns[w] # {} /\ Built(w).num # 0
    /\ configs = [w \in Workers |-> Shrunk(Built(w), LeastBlocks)]

SizesResolved ==
  phase \in {"agreed", "ready"} =>
    \E w \in Workers :
      /\ sizes = SchedulerSizes(SchedulerSpecs(w))
      /\ FinerKeys(SchedulerSpecs(w)) =>
           \A n \in Blocks(SchedulerSpecs(w)) : n % HashBlock(SchedulerSpecs(w)) = 0

TablesMade ==
  /\ phase \in {"profiling", "grouping", "planning", "checking", "building", "resolving"} =>
       \A w \in Workers : tables[w] = <<>>
  /\ phase \in {"agreed", "ready"} => \A w \in Workers : tables[w] = <<>> \/ tables[w] = Rows(w)

SizingInv ==
  /\ SizesTyped /\ MemoryPlanned /\ MemoryChecked
  /\ ConfigsBuilt /\ SizesResolved /\ TablesMade

-----------------------------------------------------------------------------
LEMMA ScenarioIs ==
  ASSUME NEW c \in Scenarios
  PROVE  /\ DOMAIN c.specs \in SUBSET Nat /\ IsFiniteSet(DOMAIN c.specs)
         /\ c.specs \in [DOMAIN c.specs -> Specs]
         /\ c.maxLen \in Nat \ {0} /\ c.autoFit \in BOOLEAN
         /\ c.override \in Nat /\ c.fixed \in Nat /\ c.reserved \in Nat /\ c.hashBlock \in Nat
         /\ \A w \in Workers : c.owns[w] \in SUBSET DOMAIN c.specs
<1>1. c \in ScenarioFields
  BY SizingAssumption
<1>2. /\ c.specs \in Seq(Specs) /\ c.maxLen \in Nat \ {0} /\ c.autoFit \in BOOLEAN
      /\ c.override \in Nat /\ c.fixed \in Nat /\ c.reserved \in Nat /\ c.hashBlock \in Nat
  BY <1>1 DEF ScenarioFields
<1> DEFINE s == c.specs
<1>3. s \in Seq(Specs)
  BY <1>2
<1> HIDE DEF s
<1>4. Len(s) \in Nat /\ s \in [1 .. Len(s) -> Specs] /\ DOMAIN s = 1 .. Len(s)
  BY <1>3
<1>5. IsFiniteSet(1 .. Len(s))
  BY <1>4, FS_Interval
<1>6. 1 .. Len(s) \in SUBSET Nat
  BY <1>4
<1>7. \A w \in Workers : c.owns[w] \in SUBSET DOMAIN c.specs
  <2>1. UNION {c.owns[w] : w \in Workers} = DOMAIN c.specs
    BY SizingAssumption
  <2>2. QED
    BY <2>1
<1>8. QED
  BY <1>2, <1>4, <1>5, <1>6, <1>7 DEF s

LEMMA ProjectedIs ==
  ASSUME NEW c \in Scenarios, NEW gs, GroupsOK(gs, DOMAIN c.specs), NEW w \in Workers,
         NEW ps, ps = [i \in DOMAIN gs |-> Project(gs[i], c.owns[w])]
  PROVE  IsShare(ps, gs, c.owns[w], DOMAIN c.specs)
<1> DEFINE D == DOMAIN c.specs
           own == c.owns[w]
<1>1. D \in SUBSET Nat /\ IsFiniteSet(D)
  BY ScenarioIs
<1>2. GroupsOK(gs, D) /\ ps = [i \in DOMAIN gs |-> Project(gs[i], own)]
  OBVIOUS
<1> HIDE DEF D, own
<1>3. Len(gs) \in Nat /\ DOMAIN gs = 1 .. Len(gs) /\ \A i \in DOMAIN gs : IsGroup(gs[i], D)
  BY <1>2 DEF GroupsOK, Apart
<1>4. DOMAIN ps = 1 .. Len(gs) /\ Len(ps) = Len(gs)
  BY <1>2, <1>3
<1>5. \A i \in 1 .. Len(gs) : IsProjection(ps[i], gs[i], own)
  <2> SUFFICES ASSUME NEW i \in 1 .. Len(gs) PROVE IsProjection(ps[i], gs[i], own)
    OBVIOUS
  <2>1. ps[i] = Project(gs[i], own) /\ IsGroup(gs[i], D)
    BY <1>2, <1>3
  <2> DEFINE g == gs[i]
  <2>2. IsGroup(g, D)
    BY <2>1
  <2> HIDE DEF g
  <2>3. IsProjection(Project(g, own), g, own)
    BY <1>1, <2>2, ProjectIs
  <2>4. QED
    BY <2>1, <2>3 DEF g
<1>6. QED
  BY <1>1, <1>2, <1>3, <1>4, <1>5 DEF IsShare, D, own

LEMMA NoGroups ==
  ASSUME NEW D
  PROVE  GroupsOK(<<>>, D)
<1>1. Len(<<>>) = 0 /\ DOMAIN <<>> = 1 .. 0
  OBVIOUS
<1>2. \A i \in DOMAIN <<>> : FALSE
  BY <1>1
<1>3. <<>> \in Seq({<<>>[i] : i \in DOMAIN <<>>})
  OBVIOUS
<1>4. QED
  BY <1>1, <1>2, <1>3 DEF GroupsOK, Apart

\* The workers' shares of the groups gs, and the lengths that are fitted to them.
SharesOf(share, gs, c) ==
  \A w \in Workers : share[w] = [i \in DOMAIN gs |-> Project(gs[i], c.owns[w])]
Candidates(share, mem, top) ==
  ({top}) \cup {LongestThatFits(share[w], mem[w], top) : w \in Workers}

LEMMA SharesAre ==
  ASSUME NEW c \in Scenarios, NEW gs, GroupsOK(gs, DOMAIN c.specs), gs # <<>>,
         NEW share, SharesOf(share, gs, c)
  PROVE  /\ Len(gs) # 0
         /\ \A w \in Workers : /\ IsShare(share[w], gs, c.owns[w], DOMAIN c.specs)
                               /\ PoolBytesPerBlock(share[w]) \in Int
                               /\ \A n \in Nat : NeededBytes(share[w], n) \in Int
<1>1. Len(gs) # 0
  <2>1. Len(gs) \in Nat /\ gs \in Seq({gs[i] : i \in DOMAIN gs})
    BY DEF GroupsOK, Apart
  <2>2. QED
    BY <2>1
<1>2. ASSUME NEW w \in Workers
      PROVE  /\ IsShare(share[w], gs, c.owns[w], DOMAIN c.specs)
             /\ PoolBytesPerBlock(share[w]) \in Int
             /\ \A n \in Nat : NeededBytes(share[w], n) \in Int
  <2> DEFINE ps == share[w]
  <2>1. ps = [i \in DOMAIN gs |-> Project(gs[i], c.owns[w])]
    BY DEF SharesOf
  <2> HIDE DEF ps
  <2>2. IsShare(ps, gs, c.owns[w], DOMAIN c.specs)
    BY <2>1, ProjectedIs
  <2>3. PoolBytesPerBlock(ps) \in Nat /\ \A n \in Nat : NeededBytes(ps, n) \in Nat
    BY <1>1, <2>2, BytesAre
  <2>4. QED
    BY <2>2, <2>3 DEF ps
<1>3. QED
  BY <1>1, <1>2

\* What the planner reckons with are numbers, and the fitted length is one.
LEMMA FittedIs ==
  ASSUME NEW c \in Scenarios, NEW gs, GroupsOK(gs, DOMAIN c.specs), gs # <<>>,
         NEW share, SharesOf(share, gs, c),
         NEW mem, \A w \in Workers : mem[w] \in Int
  PROVE  LET S == Candidates(share, mem, c.maxLen) IN
         Min(S) \in Nat /\ Min(S) <= c.maxLen /\ Min(S) \in S
<1>1. c.maxLen \in Nat \ {0}
  BY ScenarioIs
<1> DEFINE S == Candidates(share, mem, c.maxLen)
<1>2. ASSUME NEW w \in Workers
      PROVE  LongestThatFits(share[w], mem[w], c.maxLen) \in Nat
  <2> DEFINE ps == share[w]
             m == mem[w]
             top == c.maxLen
  <2>1. m \in Int /\ \A n \in Nat : NeededBytes(ps, n) \in Int
    BY SharesAre
  <2>2. top \in Nat \ {0}
    BY <1>1
  <2> HIDE DEF ps, m, top
  <2>3. LongestThatFits(ps, m, top) \in 0 .. top
    BY <2>1, <2>2, LongestIs
  <2>4. LongestThatFits(ps, m, top) \in Nat
    BY <2>2, <2>3
  <2>5. QED
    BY <2>4 DEF ps, m, top
<1>3. S \in SUBSET Nat /\ c.maxLen \in S
  BY <1>1, <1>2 DEF Candidates
<1> HIDE DEF S
<1>4. Min(S) \in S /\ \A y \in S : Min(S) <= y
  BY <1>3, MinIs
<1>5. QED
  BY <1>3, <1>4 DEF S

-----------------------------------------------------------------------------
\* The steps that measure, group and plan keep it.

LEMMA InitiallySized == SizingInit => SizingInv
<1> SUFFICES ASSUME SizingInit PROVE SizingInv
  OBVIOUS
<1>1. scenario \in Scenarios /\ phase = "profiling" /\ groups = <<>> /\ maxLen = scenario.maxLen
  BY DEF SizingInit
<1>2. maxLen \in 1 .. scenario.maxLen
  <2>1. scenario.maxLen \in Nat \ {0}
    BY <1>1, ScenarioIs
  <2>2. QED
    BY <1>1, <2>1
<1>3. GroupsOK(groups, Layers)
  BY <1>1, NoGroups
<1>4. SizesTyped
  BY <1>1, <1>2, <1>3 DEF SizingInit, SizesTyped
<1>5. MemoryPlanned /\ MemoryChecked /\ ConfigsBuilt /\ SizesResolved
  BY <1>1 DEF MemoryPlanned, MemoryChecked, ConfigsBuilt, SizesResolved
<1>6. TablesMade
  BY <1>1 DEF SizingInit, TablesMade
<1>7. QED
  BY <1>4, <1>5, <1>6 DEF SizingInv

LEMMA RefusedIsSound ==
  ASSUME SizingInv, Refuse
  PROVE  SizingInv'
<1>1. phase' = "refused" /\ UNCHANGED <<scenario, avail, groups, maxLen, configs, sizes, tables>>
  BY DEF Refuse
<1>2. SizesTyped'
  BY <1>1 DEF SizingInv, SizesTyped, Layers
<1>3. (MemoryPlanned /\ MemoryChecked /\ ConfigsBuilt /\ SizesResolved /\ TablesMade)'
  BY <1>1 DEF MemoryPlanned, MemoryChecked, ConfigsBuilt, SizesResolved, TablesMade
<1>4. QED
  BY <1>2, <1>3 DEF SizingInv

LEMMA DetermineIsSound ==
  ASSUME SizingInv, NEW w \in Workers, NEW b \in Budgets, NEW g \in Graphs,
         DetermineAvailableMemory(w, b, g)
  PROVE  SizingInv'
<1> DEFINE left == (IF scenario.fixed # 0 THEN scenario.fixed ELSE b - g) - scenario.reserved
<1>1. phase = "profiling" /\ scenario \in Scenarios /\ avail \in [Workers -> Int \cup {Unknown}]
  BY DEF DetermineAvailableMemory, SizingInv, SizesTyped
<1>2. CASE Refuse
  BY <1>2, RefusedIsSound
<1>3. CASE ~Refuse
  <2>1. /\ avail' = [avail EXCEPT ![w] = left]
        /\ phase' = IF \A v \in Workers \ {w} : avail[v] # Unknown THEN "grouping" ELSE phase
        /\ UNCHANGED <<scenario, groups, maxLen, configs, sizes, tables>>
    BY <1>3 DEF DetermineAvailableMemory
  <2>2. left \in Int
    <3>1. scenario.fixed \in Nat /\ scenario.reserved \in Nat
      BY <1>1, ScenarioIs
    <3>2. b \in Int /\ g \in Nat
      BY SizingAssumption
    <3>3. QED
      BY <3>1, <3>2
  <2> HIDE DEF left
  <2>3. avail' \in [Workers -> Int \cup {Unknown}]
    BY <1>1, <2>1, <2>2
  <2>4. phase' \in {"profiling", "grouping"}
    BY <1>1, <2>1
  <2>5. phase' = "grouping" => avail' \in [Workers -> Int]
    <3> SUFFICES ASSUME phase' = "grouping" PROVE avail' \in [Workers -> Int]
      OBVIOUS
    <3>1. \A v \in Workers \ {w} : avail[v] # Unknown
      BY <1>1, <2>1
    <3>2. QED
      BY <1>1, <2>1, <2>2, <3>1
  <2>6. SizesTyped'
    BY <2>1, <2>3, <2>4, <2>5 DEF SizingInv, SizesTyped, Layers
  <2>7. MemoryPlanned'
    BY <1>1, <2>1, <2>4 DEF SizingInv, MemoryPlanned
  <2>8. MemoryChecked' /\ ConfigsBuilt' /\ SizesResolved'
    BY <2>4 DEF MemoryChecked, ConfigsBuilt, SizesResolved
  <2>9. TablesMade'
    BY <1>1, <2>1, <2>4 DEF SizingInv, TablesMade
  <2>10. QED
    BY <2>6, <2>7, <2>8, <2>9 DEF SizingInv
<1>4. QED
  BY <1>2, <1>3

LEMMA GroupLayersIsSound ==
  ASSUME SizingInv, GroupLayers
  PROVE  SizingInv'
<1> DEFINE D == DOMAIN scenario.specs
           specs == IF scenario.hybrid \/ D = {} THEN scenario.specs
                    ELSE UnifyHybrid(scenario.specs)
           gs == IF specs = Refused THEN Refused ELSE Groups(specs)
<1>0. ModelGroups(scenario) = gs
  BY DEF ModelGroups
<1>1. phase = "grouping" /\ scenario \in Scenarios /\ avail \in [Workers -> Int]
  BY DEF GroupLayers, SizingInv, SizesTyped
<1>2. CASE gs = Refused
  BY <1>0, <1>2, RefusedIsSound DEF GroupLayers
<1>3. CASE gs # Refused
  <2>1. groups' = gs /\ phase' = "planning" /\ UNCHANGED <<scenario, avail, maxLen, configs, sizes, tables>>
    BY <1>0, <1>3 DEF GroupLayers
  <2>2. specs # Refused /\ Groups(specs) # Refused /\ gs = Groups(specs)
    BY <1>3
  <2>3. specs \in [D -> Specs] /\ D \in SUBSET Nat /\ IsFiniteSet(D)
    <3>1. scenario.specs \in [D -> Specs] /\ D \in SUBSET Nat /\ IsFiniteSet(D)
      BY <1>1, ScenarioIs
    <3> DEFINE x == scenario.specs
    <3> HIDE DEF D
    <3>2. CASE scenario.hybrid \/ D = {}
      BY <3>1, <3>2
    <3>3. CASE ~ (scenario.hybrid \/ D = {})
      <4>1. specs = UnifyHybrid(x)
        BY <3>3
      <4> HIDE DEF x
      <4>2. UnifyHybrid(x) \in [D -> Specs]
        BY <2>2, <3>1, <4>1, UnifyHybridIs DEF x
      <4>3. QED
        BY <3>1, <4>1, <4>2
    <3>4. QED
      BY <3>2, <3>3
  <2> HIDE DEF specs, D
  <2>4. GroupsOK(Groups(specs), D)
    BY <2>2, <2>3, GroupsAre
  <2>5. SizesTyped'
    <3>1. GroupsOK(groups, Layers)'
      BY <2>1, <2>2, <2>4 DEF Layers, D
    <3>2. QED
      BY <1>1, <2>1, <3>1 DEF SizingInv, SizesTyped
  <2>6. MemoryPlanned'
    BY <1>1, <2>1 DEF SizingInv, MemoryPlanned
  <2>7. MemoryChecked' /\ ConfigsBuilt' /\ SizesResolved'
    BY <2>1 DEF MemoryChecked, ConfigsBuilt, SizesResolved
  <2>8. TablesMade'
    BY <1>1, <2>1 DEF SizingInv, TablesMade
  <2>9. QED
    BY <2>5, <2>6, <2>7, <2>8 DEF SizingInv
<1>4. QED
  BY <1>2, <1>3

LEMMA PlanIsSound ==
  ASSUME SizingInv, PlanMemory
  PROVE  SizingInv'
<1> DEFINE mem == [w \in Workers |->
                     IF scenario.override = 0 \/ groups = <<>> THEN avail[w]
                     ELSE scenario.override * PoolBytesPerBlock(Projected(w))]
<1>1. /\ phase = "planning" /\ scenario \in Scenarios /\ avail \in [Workers -> Int]
      /\ GroupsOK(groups, Layers) /\ maxLen = scenario.maxLen
      /\ maxLen \in 1 .. scenario.maxLen
  BY DEF PlanMemory, SizingInv, SizesTyped, MemoryPlanned
<1> DEFINE share == [w \in Workers |-> Projected(w)]
           S == Candidates(share, mem, scenario.maxLen)
<1>2. Fitted(mem) = Min(S)
  <2>1. \A w \in Workers : share[w] = Projected(w)
    OBVIOUS
  <2> HIDE DEF share, mem
  <2>2. QED
    BY <2>1 DEF Fitted, Candidates
<1>3. ASSUME groups # <<>>
      PROVE  /\ \A w \in Workers : PoolBytesPerBlock(Projected(w)) \in Int
             /\ ((\A w \in Workers : mem[w] \in Int) => Min(S) \in Nat /\ Min(S) <= scenario.maxLen)
  <2>1. SharesOf(share, groups, scenario)
    BY DEF Projected, SharesOf
  <2>2. \A w \in Workers : share[w] = Projected(w)
    OBVIOUS
  <2> HIDE DEF share, mem
  <2>3. \A w \in Workers : PoolBytesPerBlock(share[w]) \in Int
    BY <1>1, <1>3, <2>1, SharesAre DEF Layers
  <2>4. ASSUME \A w \in Workers : mem[w] \in Int
        PROVE  Min(S) \in Nat /\ Min(S) <= scenario.maxLen
    BY <1>1, <1>3, <2>1, <2>4, FittedIs DEF Layers
  <2>5. QED
    BY <2>2, <2>3, <2>4
<1>4. CASE Refuse
  BY <1>4, RefusedIsSound
<1>5. CASE ~Refuse
  <2>1. /\ avail' = mem
        /\ maxLen' = IF scenario.autoFit /\ groups # <<>> THEN Fitted(mem) ELSE maxLen
        /\ phase' = "checking"
        /\ UNCHANGED <<scenario, groups, configs, sizes, tables>>
        /\ ~ (scenario.autoFit /\ groups # <<>> /\ Fitted(mem) = 0)
    BY <1>5 DEF PlanMemory
  <2>2. \A w \in Workers : mem[w] \in Int
    <3> SUFFICES ASSUME NEW w \in Workers PROVE mem[w] \in Int
      OBVIOUS
    <3>1. CASE scenario.override = 0 \/ groups = <<>>
      BY <1>1, <3>1
    <3>2. CASE ~ (scenario.override = 0 \/ groups = <<>>)
      <4> DEFINE x == scenario.override
                 y == PoolBytesPerBlock(Projected(w))
      <4>1. x \in Int /\ y \in Int
        <5>1. x \in Nat
          BY <1>1, ScenarioIs
        <5>2. y \in Int
          BY <1>3, <3>2
        <5>3. QED
          BY <5>1, <5>2
      <4>2. mem[w] = x * y
        BY <3>2
      <4> HIDE DEF x, y, mem
      <4>3. x * y \in Int
        BY <4>1, Times
      <4>4. QED
        BY <4>2, <4>3
    <3>3. QED
      BY <3>1, <3>2
  <2>3. mem \in [Workers -> Int]
    <3>1. DOMAIN mem = Workers /\ mem = [w \in Workers |-> mem[w]]
      OBVIOUS
    <3> HIDE DEF mem
    <3>2. QED
      BY <2>2, <3>1
  <2>4. maxLen' \in 1 .. scenario.maxLen
    <3>1. CASE scenario.autoFit /\ groups # <<>>
      <4> DEFINE k == Min(S)
                 top == scenario.maxLen
      <4>1. k \in Nat /\ k <= top /\ k # 0 /\ maxLen' = k /\ top \in Nat
        <5>1. k \in Nat /\ k <= top
          BY <1>3, <2>2, <3>1
        <5>2. maxLen' = k /\ k # 0
          BY <1>2, <2>1, <3>1
        <5>3. top \in Nat
          BY <1>1, ScenarioIs
        <5>4. QED
          BY <5>1, <5>2, <5>3
      <4> HIDE DEF k, top
      <4>2. k \in 1 .. top
        BY <4>1
      <4>3. QED
        BY <4>1, <4>2 DEF top
    <3>2. CASE ~ (scenario.autoFit /\ groups # <<>>)
      BY <1>1, <2>1, <3>2
    <3>3. QED
      BY <3>1, <3>2
  <2>5. SizesTyped'
    <3>1. GroupsOK(groups, Layers)'
      BY <1>1, <2>1 DEF Layers
    <3>2. (avail \in [Workers -> Int \cup {Unknown}])'
      BY <2>1, <2>3
    <3>3. QED
      BY <2>1, <2>3, <2>4, <3>1, <3>2 DEF SizingInv, SizesTyped
  <2>6. MemoryPlanned'
    <3>1. ASSUME groups # <<>>, scenario.override # 0, NEW w \in Workers
          PROVE  mem[w] = scenario.override * PoolBytesPerBlock(Projected(w))
      BY <3>1
    <3>2. (\A w \in Workers : PoolBytesPerBlock(Projected(w)) = PoolBytesPerBlock(Projected(w))')
      BY <2>1 DEF Projected, PoolBytesPerBlock, Packed
    <3>3. Fitted(avail)' = Fitted(mem)
      BY <2>1 DEF Fitted, Projected
    <3> HIDE DEF mem
    <3>4. groups # <<>> /\ scenario.override # 0 =>
            \A w \in Workers : mem[w] = scenario.override * PoolBytesPerBlock(Projected(w))'
      BY <3>1, <3>2
    <3>5. QED
      BY <1>1, <2>1, <3>3, <3>4 DEF MemoryPlanned
  <2>7. MemoryChecked' /\ ConfigsBuilt' /\ SizesResolved'
    BY <2>1 DEF MemoryChecked, ConfigsBuilt, SizesResolved
  <2>8. TablesMade'
    BY <1>1, <2>1 DEF SizingInv, TablesMade
  <2>9. QED
    BY <2>5, <2>6, <2>7, <2>8 DEF SizingInv
<1>6. QED
  BY <1>4, <1>5

-----------------------------------------------------------------------------
\* The steps that check, build and resolve keep it.

LEMMA CheckIsSound ==
  ASSUME SizingInv, CheckMemory
  PROVE  SizingInv'
<1>1. phase = "checking"
  BY DEF CheckMemory
<1>2. CASE Refuse
  BY <1>2, RefusedIsSound
<1>3. CASE ~Refuse
  <2>1. /\ phase' = "building"
        /\ UNCHANGED <<scenario, avail, groups, maxLen, configs, sizes, tables>>
        /\ ~ (groups # <<>> /\ \E w \in Workers :
                avail[w] <= 0 \/ NeededBytes(Projected(w), maxLen) > avail[w])
    BY <1>3 DEF CheckMemory
  <2>2. SizesTyped'
    BY <1>1, <2>1 DEF SizingInv, SizesTyped, Layers
  <2>3. MemoryPlanned'
    BY <1>1, <2>1 DEF SizingInv, MemoryPlanned, Fitted, Projected, PoolBytesPerBlock, Packed
  <2>4. MemoryChecked'
    <3>1. ASSUME groups # <<>>, NEW w \in Workers
          PROVE  avail[w] > 0 /\ NeededBytes(Projected(w), maxLen) <= avail[w]
      <4> DEFINE ps == Projected(w)
                 share == [v \in Workers |-> Projected(v)]
      <4>1. scenario \in Scenarios /\ GroupsOK(groups, Layers) /\ maxLen \in Nat /\ avail[w] \in Int
        <5>1. /\ scenario \in Scenarios /\ GroupsOK(groups, Layers) /\ avail \in [Workers -> Int]
              /\ maxLen \in 1 .. scenario.maxLen
          BY <1>1 DEF SizingInv, SizesTyped
        <5>2. scenario.maxLen \in Nat
          BY <5>1, ScenarioIs
        <5>3. QED
          BY <5>1, <5>2
      <4>2. SharesOf(share, groups, scenario) /\ share[w] = ps
        BY DEF SharesOf, Projected
      <4> HIDE DEF share, ps
      <4>3. \A n \in Nat : NeededBytes(share[w], n) \in Int
        BY <3>1, <4>1, <4>2, SharesAre DEF Layers
      <4>4. NeededBytes(ps, maxLen) \in Int
        BY <4>1, <4>2, <4>3
      <4>5. ~ (avail[w] <= 0) /\ ~ (NeededBytes(ps, maxLen) > avail[w])
        BY <2>1, <3>1 DEF ps
      <4>6. QED
        BY <4>1, <4>4, <4>5 DEF ps
    <3>2. \A w \in Workers : Projected(w)' = Projected(w)
      BY <2>1 DEF Projected
    <3>3. QED
      BY <2>1, <3>1, <3>2 DEF MemoryChecked
  <2>5. ConfigsBuilt' /\ SizesResolved'
    BY <2>1 DEF ConfigsBuilt, SizesResolved
  <2>6. TablesMade'
    BY <1>1, <2>1 DEF SizingInv, TablesMade
  <2>7. QED
    BY <2>2, <2>3, <2>4, <2>5, <2>6 DEF SizingInv
<1>4. QED
  BY <1>2, <1>3

\* The memory was planned and checked, and neither it nor what it is measured by changes.
LEMMA PlanStays ==
  ASSUME SizingInv, UNCHANGED <<scenario, avail, groups, maxLen>>,
         phase \in {"building", "resolving", "agreed", "ready"},
         phase' \in {"building", "resolving", "agreed", "ready"}
  PROVE  MemoryPlanned' /\ MemoryChecked'
<1>1. MemoryPlanned'
  BY DEF SizingInv, MemoryPlanned, Fitted, Projected, PoolBytesPerBlock, Packed
<1>2. MemoryChecked'
  <2>1. \A w \in Workers : Projected(w)' = Projected(w)
    BY DEF Projected
  <2>2. QED
    BY <2>1 DEF SizingInv, MemoryChecked
<1>3. QED
  BY <1>1, <1>2

LEMMA BuiltStays ==
  ASSUME UNCHANGED <<scenario, avail, groups>>
  PROVE  /\ \A w \in Workers : Built(w)' = Built(w) /\ LayersOn(w)' = LayersOn(w)
         /\ LeastBlocks' = LeastBlocks
<1>1. \A w \in Workers : Built(w)' = Built(w) /\ LayersOn(w)' = LayersOn(w)
  BY DEF Built, LayersOn, Projected, Config, NumBlocks, Packed, PackedTensors, PooledTensors
<1>2. LeastBlocks' = LeastBlocks
  BY <1>1 DEF LeastBlocks
<1>3. QED
  BY <1>1, <1>2

LEMMA BuildIsSound ==
  ASSUME SizingInv, BuildConfigs
  PROVE  SizingInv'
<1>1. phase = "building"
  BY DEF BuildConfigs
<1>2. CASE Refuse
  BY <1>2, RefusedIsSound
<1>3. CASE ~Refuse
  <2>1. /\ configs' = [w \in Workers |-> Shrunk(Built(w), LeastBlocks)]
        /\ phase' = "resolving"
        /\ UNCHANGED <<scenario, avail, groups, maxLen, sizes, tables>>
        /\ ~ \E w \in Workers : \/ LayersOn(w) # Cardinality(scenario.owns[w])
                                \/ groups # <<>> /\ (scenario.owns[w] = {} \/ Built(w).num = 0)
    BY <1>3 DEF BuildConfigs
  <2>2. SizesTyped'
    BY <1>1, <2>1 DEF SizingInv, SizesTyped, Layers
  <2>3. MemoryPlanned' /\ MemoryChecked'
    BY <1>1, <2>1, PlanStays
  <2>4. ConfigsBuilt'
    <3>1. /\ \A w \in Workers : Built(w)' = Built(w) /\ LayersOn(w)' = LayersOn(w)
          /\ LeastBlocks' = LeastBlocks
      BY <2>1, BuiltStays
    <3>2. QED
      BY <2>1, <3>1 DEF ConfigsBuilt
  <2>5. SizesResolved'
    BY <2>1 DEF SizesResolved
  <2>6. TablesMade'
    BY <1>1, <2>1 DEF SizingInv, TablesMade
  <2>7. QED
    BY <2>2, <2>3, <2>4, <2>5, <2>6 DEF SizingInv
<1>4. QED
  BY <1>2, <1>3

LEMMA ConfigsStay ==
  ASSUME SizingInv, UNCHANGED <<scenario, avail, groups, maxLen, configs>>,
         phase \in {"resolving", "agreed", "ready"}, phase' \in {"resolving", "agreed", "ready"}
  PROVE  ConfigsBuilt'
<1>1. /\ \A w \in Workers : Built(w)' = Built(w) /\ LayersOn(w)' = LayersOn(w)
      /\ LeastBlocks' = LeastBlocks
  BY BuiltStays
<1>2. QED
  BY <1>1 DEF SizingInv, ConfigsBuilt

LEMMA ResolveIsSound ==
  ASSUME SizingInv, NEW w \in Workers, ResolveBlockSizes(w)
  PROVE  SizingInv'
<1>1. phase = "resolving"
  BY DEF ResolveBlockSizes
<1>2. CASE Refuse
  BY <1>2, RefusedIsSound
<1>3. CASE ~Refuse
  <2>1. /\ sizes' = SchedulerSizes(SchedulerSpecs(w)) /\ phase' = "agreed"
        /\ UNCHANGED <<scenario, avail, groups, maxLen, configs, tables>>
        /\ ~ (FinerKeys(SchedulerSpecs(w)) /\ \E n \in Blocks(SchedulerSpecs(w)) :
                n % HashBlock(SchedulerSpecs(w)) # 0)
    BY <1>3 DEF ResolveBlockSizes
  <2>2. SizesTyped'
    BY <1>1, <2>1 DEF SizingInv, SizesTyped, Layers
  <2>3. MemoryPlanned' /\ MemoryChecked' /\ ConfigsBuilt'
    BY <1>1, <2>1, PlanStays, ConfigsStay
  <2>4. SizesResolved'
    <3>1. /\ SchedulerSpecs(w)' = SchedulerSpecs(w)
          /\ SchedulerSizes(SchedulerSpecs(w))' = SchedulerSizes(SchedulerSpecs(w))
          /\ FinerKeys(SchedulerSpecs(w))' = FinerKeys(SchedulerSpecs(w))
          /\ Blocks(SchedulerSpecs(w))' = Blocks(SchedulerSpecs(w))
          /\ HashBlock(SchedulerSpecs(w))' = HashBlock(SchedulerSpecs(w))
      BY <2>1 DEF SchedulerSpecs, SchedulerSizes, FinerKeys, HashBlock, BacksOff
    <3>2. QED
      BY <2>1, <3>1 DEF SizesResolved
  <2>5. TablesMade'
    BY <1>1, <2>1 DEF SizingInv, TablesMade
  <2>6. QED
    BY <2>2, <2>3, <2>4, <2>5 DEF SizingInv
<1>4. QED
  BY <1>2, <1>3

LEMMA SizesStay ==
  ASSUME SizingInv, UNCHANGED <<scenario, avail, groups, maxLen, configs, sizes>>,
         phase \in {"agreed", "ready"}
  PROVE  SizesResolved'
<1>1. \A w \in Workers :
        /\ SchedulerSpecs(w)' = SchedulerSpecs(w)
        /\ SchedulerSizes(SchedulerSpecs(w))' = SchedulerSizes(SchedulerSpecs(w))
        /\ FinerKeys(SchedulerSpecs(w))' = FinerKeys(SchedulerSpecs(w))
        /\ Blocks(SchedulerSpecs(w))' = Blocks(SchedulerSpecs(w))
        /\ HashBlock(SchedulerSpecs(w))' = HashBlock(SchedulerSpecs(w))
  BY DEF SchedulerSpecs, SchedulerSizes, FinerKeys, HashBlock, BacksOff
<1>2. QED
  BY <1>1 DEF SizingInv, SizesResolved

LEMMA InitializeIsSound ==
  ASSUME SizingInv, NEW w \in Workers, InitializeKvCache(w)
  PROVE  SizingInv'
<1>1. /\ phase = "agreed" /\ phase' \in {"agreed", "ready"}
      /\ tables' = [tables EXCEPT ![w] = Rows(w)]
      /\ UNCHANGED <<scenario, avail, groups, maxLen, configs, sizes>>
  BY DEF InitializeKvCache
<1>2. SizesTyped'
  <2>1. DOMAIN tables' = Workers
    BY <1>1 DEF SizingInv, SizesTyped
  <2>2. QED
    BY <1>1, <2>1 DEF SizingInv, SizesTyped, Layers
<1>3. MemoryPlanned' /\ MemoryChecked' /\ ConfigsBuilt' /\ SizesResolved'
  BY <1>1, PlanStays, ConfigsStay, SizesStay
<1>4. TablesMade'
  <2>1. \A v \in Workers : Rows(v)' = Rows(v)
    BY <1>1 DEF Rows, RowWidth
  <2>2. \A v \in Workers : tables'[v] = <<>> \/ tables'[v] = Rows(v)
    BY <1>1 DEF SizingInv, TablesMade, SizesTyped
  <2>3. QED
    BY <1>1, <2>1, <2>2 DEF TablesMade
<1>5. QED
  BY <1>2, <1>3, <1>4 DEF SizingInv

LEMMA StutterIsSound ==
  ASSUME SizingInv, UNCHANGED sizingVars
  PROVE  SizingInv'
<1>1. UNCHANGED <<scenario, phase, avail, groups, maxLen, configs, sizes, tables>>
  BY DEF sizingVars
<1>2. SizesTyped'
  BY <1>1 DEF SizingInv, SizesTyped, Layers
<1>3. \A w \in Workers : Projected(w)' = Projected(w)
  BY <1>1 DEF Projected
<1>4. MemoryPlanned'
  BY <1>1 DEF SizingInv, MemoryPlanned, Fitted, Projected, PoolBytesPerBlock, Packed
<1>5. MemoryChecked'
  BY <1>1, <1>3 DEF SizingInv, MemoryChecked
<1>6. ConfigsBuilt'
  BY <1>1, ConfigsStay DEF ConfigsBuilt
<1>7. SizesResolved'
  BY <1>1, SizesStay DEF SizesResolved
<1>8. TablesMade'
  <2>1. \A v \in Workers : Rows(v)' = Rows(v)
    BY <1>1 DEF Rows, RowWidth
  <2>2. QED
    BY <1>1, <2>1 DEF SizingInv, TablesMade
<1>9. QED
  BY <1>2, <1>4, <1>5, <1>6, <1>7, <1>8 DEF SizingInv

\* Every step of start-up keeps what the phases before it established: the types, the groups
\* of all the layers, the memory planned and checked, the configurations built from it, the
\* scheduler's sizes, and the rows of the block tables.
THEOREM SizingInvariance == SizingSpec => []SizingInv
<1>1. SizingInit => SizingInv
  BY InitiallySized
<1>2. SizingInv /\ [SizingNext]_sizingVars => SizingInv'
  <2> SUFFICES ASSUME SizingInv, [SizingNext]_sizingVars PROVE SizingInv'
    OBVIOUS
  <2>1. CASE \E w \in Workers, b \in Budgets, g \in Graphs : DetermineAvailableMemory(w, b, g)
    BY <2>1, DetermineIsSound
  <2>2. CASE GroupLayers
    BY <2>2, GroupLayersIsSound
  <2>3. CASE PlanMemory
    BY <2>3, PlanIsSound
  <2>4. CASE CheckMemory
    BY <2>4, CheckIsSound
  <2>5. CASE BuildConfigs
    BY <2>5, BuildIsSound
  <2>6. CASE \E w \in Workers : ResolveBlockSizes(w)
    BY <2>6, ResolveIsSound
  <2>7. CASE \E w \in Workers : InitializeKvCache(w)
    BY <2>7, InitializeIsSound
  <2>8. CASE UNCHANGED sizingVars
    BY <2>8, StutterIsSound
  <2>9. QED
    BY <2>1, <2>2, <2>3, <2>4, <2>5, <2>6, <2>7, <2>8 DEF SizingNext, Started
<1>3. QED
  BY <1>1, <1>2, PTL DEF SizingSpec

-----------------------------------------------------------------------------
\* One scheduler for all, and the keys of whole blocks.

\* The tensors of a configuration, for n blocks.
Resized(ts, c, n) ==
  ts = [i \in DOMAIN c.tensors |-> [c.tensors[i] EXCEPT !.size = (@ \div c.num) * n]]

\* A worker's configuration, when the workers have agreed.
LEMMA ShrunkIs ==
  ASSUME NEW gs, NEW mem, NEW n
  PROVE  /\ Shrunk(Config(gs, mem), n).num = n
         /\ Shrunk(Config(gs, mem), n).groups = gs
         /\ Resized(Shrunk(Config(gs, mem), n).tensors, Config(gs, mem), n)
         /\ gs = <<>> => Config(gs, mem).tensors = <<>>
         /\ gs # <<>> => Config(gs, mem).num = NumBlocks(gs, mem)
<1> DEFINE c == Config(gs, mem)
<1>1. c = [num |-> c.num, tensors |-> c.tensors, groups |-> gs]
  <2>1. CASE gs = <<>>
    BY <2>1 DEF Config
  <2>2. CASE gs # <<>>
    BY <2>2 DEF Config
  <2>3. QED
    BY <2>1, <2>2
<1>2. (gs = <<>> => c.tensors = <<>>) /\ (gs # <<>> => c.num = NumBlocks(gs, mem))
  BY DEF Config
<1> HIDE DEF c
<1> DEFINE t == [i \in DOMAIN c.tensors |-> [c.tensors[i] EXCEPT !.size = (@ \div c.num) * n]]
<1>3. Shrunk(c, n) = [c EXCEPT !.num = n, !.tensors = t]
  BY DEF Shrunk
<1> HIDE DEF t
<1>4. Shrunk(c, n) = [num |-> n, tensors |-> t, groups |-> gs]
  <2> DEFINE x == c.num
             y == c.tensors
  <2>1. c = [num |-> x, tensors |-> y, groups |-> gs]
    BY <1>1
  <2> HIDE DEF x, y
  <2>2. QED
    BY <1>3, <2>1
<1>5. QED
  BY <1>2, <1>4 DEF c, t, Resized

LEMMA AgreedIs ==
  ASSUME SizingInv, Agreed
  PROVE  /\ scenario \in Scenarios /\ GroupsOK(groups, Layers)
         /\ \A w \in Workers :
              /\ configs[w] = Shrunk(Built(w), LeastBlocks)
              /\ configs[w].num = LeastBlocks /\ configs[w].groups = Projected(w)
              /\ IsShare(Projected(w), groups, scenario.owns[w], Layers)
<1>1. phase \in {"agreed", "ready"}
  BY DEF Agreed
<1>2. scenario \in Scenarios /\ GroupsOK(groups, Layers)
  BY DEF SizingInv, SizesTyped
<1>3. configs = [w \in Workers |-> Shrunk(Built(w), LeastBlocks)]
  BY <1>1 DEF SizingInv, ConfigsBuilt
<1>4. ASSUME NEW w \in Workers
      PROVE  /\ configs[w] = Shrunk(Built(w), LeastBlocks)
             /\ configs[w].num = LeastBlocks /\ configs[w].groups = Projected(w)
             /\ IsShare(Projected(w), groups, scenario.owns[w], Layers)
  <2>1. configs[w] = Shrunk(Config(Projected(w), avail[w]), LeastBlocks)
    BY <1>3 DEF Built
  <2>2. configs[w].num = LeastBlocks /\ configs[w].groups = Projected(w)
    <3> DEFINE gs == Projected(w)
               mem == avail[w]
               n == LeastBlocks
               d == Shrunk(Config(gs, mem), n)
    <3>1. configs[w] = d
      BY <2>1
    <3> HIDE DEF gs, mem, n
    <3>2. d.num = n /\ d.groups = gs
      BY ShrunkIs
    <3> HIDE DEF d
    <3>3. QED
      BY <3>1, <3>2 DEF gs, n
  <2> DEFINE ps == Projected(w)
  <2>3. ps = [i \in DOMAIN groups |-> Project(groups[i], scenario.owns[w])]
    BY DEF Projected
  <2> HIDE DEF ps
  <2>4. IsShare(ps, groups, scenario.owns[w], Layers)
    BY <1>2, <2>3, ProjectedIs DEF Layers
  <2>5. QED
    BY <1>3, <2>2, <2>4 DEF ps
<1>5. QED
  BY <1>2, <1>4

\* Whichever worker is asked, a group plans alike.
LEMMA AlikeEverywhere ==
  ASSUME SizingInv, Agreed, NEW i \in DOMAIN groups
  PROVE  /\ \A v, w \in Workers : \A s \in Values(configs[w].groups[i].specs) :
              /\ SchedulerSpecs(v)[i].block = s.block
              /\ SchedulerSpecs(v)[i].kind = "mamba" <=> s.kind = "mamba"
         /\ \A w \in Workers : /\ SchedulerSpecs(w)[i] \in Values(configs[w].groups[i].specs)
                               /\ SchedulerSpecs(w)[i] \in Specs
<1>1. ASSUME NEW w \in Workers
      PROVE  /\ configs[w].groups = Projected(w)
             /\ Layers \in SUBSET Nat /\ IsFiniteSet(Layers)
             /\ IsGroup(groups[i], Layers) /\ Keeps(Projected(w)[i], groups[i])
  <2> DEFINE ps == Projected(w)
             own == scenario.owns[w]
  <2>1. configs[w].groups = ps /\ IsShare(ps, groups, own, Layers)
    BY AgreedIs
  <2> HIDE DEF ps, own
  <2>2. /\ DOMAIN groups = 1 .. Len(groups)
        /\ Layers \in SUBSET Nat /\ IsFiniteSet(Layers)
        /\ \A j \in 1 .. Len(groups) : IsGroup(groups[j], Layers) /\ Keeps(ps[j], groups[j])
    BY <2>1, ShareKeeps
  <2>3. QED
    BY <2>1, <2>2 DEF ps
<1>2. ASSUME NEW w \in Workers
      PROVE  /\ SchedulerSpecs(w)[i] = SpecOf(Projected(w)[i])
             /\ SpecOf(Projected(w)[i]) \in Values(Projected(w)[i].specs)
             /\ Values(Projected(w)[i].specs) \in SUBSET Values(groups[i].specs)
             /\ Values(groups[i].specs) \in SUBSET Specs
             /\ \A s, t \in Values(groups[i].specs) :
                  s.block = t.block /\ (s.kind = "mamba" <=> t.kind = "mamba")
  <2> DEFINE g == groups[i]
             q == Projected(w)[i]
  <2>1. /\ configs[w].groups[i] = q
        /\ Layers \in SUBSET Nat /\ IsFiniteSet(Layers) /\ IsGroup(g, Layers) /\ Keeps(q, g)
    BY <1>1
  <2>2. SchedulerSpecs(w)[i] = SpecOf(q)
    BY <2>1 DEF SchedulerSpecs
  <2> HIDE DEF g, q
  <2>3. /\ SpecOf(q) \in Values(q.specs) /\ Values(q.specs) \in SUBSET Values(g.specs)
        /\ Values(g.specs) \in SUBSET Specs
        /\ \A s, t \in Values(g.specs) :
             s.block = t.block /\ (s.kind = "mamba" <=> t.kind = "mamba")
    BY <2>1, PartSpecs
  <2>4. QED
    BY <2>2, <2>3 DEF g, q
<1>3. ASSUME NEW v \in Workers, NEW w \in Workers, NEW s \in Values(configs[w].groups[i].specs)
      PROVE  /\ SchedulerSpecs(v)[i].block = s.block
             /\ SchedulerSpecs(v)[i].kind = "mamba" <=> s.kind = "mamba"
  <2> DEFINE S == Values(groups[i].specs)
  <2>1. s \in S
    BY <1>1, <1>2
  <2>2. SchedulerSpecs(v)[i] \in S
    BY <1>2
  <2>3. QED
    BY <1>2, <2>1, <2>2
<1>4. \A w \in Workers : /\ SchedulerSpecs(w)[i] \in Values(configs[w].groups[i].specs)
                         /\ SchedulerSpecs(w)[i] \in Specs
  BY <1>1, <1>2
<1>5. QED
  BY <1>3, <1>4

\* One scheduler plans for all the workers: they have as many blocks, and a block of a group
\* holds as many tokens on each (get_kv_cache_configs, generate_scheduler_kv_cache_config).
THEOREM OneScheduler == SizingSpec => []OneSchedulerForAll
<1>1. SizingInv => OneSchedulerForAll
  <2> SUFFICES ASSUME SizingInv, Agreed, NEW v \in Workers, NEW w \in Workers
               PROVE  /\ configs[v].num = configs[w].num
                      /\ \A i \in DOMAIN configs[v].groups :
                           \A s \in Values(configs[w].groups[i].specs) :
                             SchedulerSpecs(v)[i].block = s.block
    BY DEF OneSchedulerForAll
  <2>1. configs[v].num = configs[w].num
    BY AgreedIs
  <2>2. DOMAIN configs[v].groups = DOMAIN groups
    BY AgreedIs DEF Projected
  <2>3. QED
    BY <2>1, <2>2, AlikeEverywhere
<1>2. QED
  BY <1>1, SizingInvariance, PTL

-----------------------------------------------------------------------------
\* The blocks of a worker's groups, and the unit the scheduler rounds to.
LEMMA UnitIs ==
  ASSUME SizingInv, Agreed, Len(groups) > 1, NEW w \in Workers
  PROVE  LET specs == SchedulerSpecs(w) IN
         /\ Len(specs) = Len(groups) /\ DOMAIN specs = DOMAIN groups
         /\ Blocks(specs) \in SUBSET (Nat \ {0}) /\ Blocks(specs) # {}
         /\ Lcm(Blocks(specs)) \in Nat \ {0}
         /\ \A i \in DOMAIN groups :
              specs[i].block \in Blocks(specs) /\ Lcm(Blocks(specs)) % specs[i].block = 0
<1> DEFINE specs == SchedulerSpecs(w)
           n == Len(groups)
           B == Blocks(specs)
<1>1. n \in Nat /\ DOMAIN groups = 1 .. n
  <2>1. GroupsOK(groups, Layers)
    BY AgreedIs
  <2>2. QED
    BY <2>1 DEF GroupsOK, Apart
<1>2. specs = [i \in DOMAIN groups |-> SpecOf(configs[w].groups[i])]
  BY DEF SchedulerSpecs
<1>3. \A i \in DOMAIN groups : specs[i] \in Specs
  BY AlikeEverywhere
<1> HIDE DEF specs
<1>4. DOMAIN specs = 1 .. n /\ Len(specs) = n
  BY <1>1, <1>2
<1>5. B = {specs[i].block : i \in 1 .. n}
  BY <1>4 DEF Blocks
<1>6. \A i \in 1 .. n : specs[i].block \in Nat \ {0} /\ specs[i].block \in B
  BY <1>1, <1>3, <1>5 DEF Specs
<1>7. B \in SUBSET (Nat \ {0})
  BY <1>5, <1>6
<1>8. B # {}
  <2>1. 1 \in 1 .. n
    BY <1>1
  <2>2. QED
    BY <1>6, <2>1
<1>9. IsFiniteSet(B)
  <2> DEFINE f == [i \in 1 .. n |-> specs[i].block]
  <2>1. \A x \in B : \E i \in 1 .. n : f[i] = x
    BY <1>5
  <2>2. IsFiniteSet(1 .. n)
    BY <1>1, FS_Interval
  <2> HIDE DEF f, B
  <2>3. QED
    BY <2>1, <2>2, FiniteImage
<1> HIDE DEF B
<1>10. Lcm(B) \in Nat \ {0} /\ \A x \in B : Lcm(B) % x = 0
  BY <1>7, <1>9, LcmIs
<1>11. QED
  BY <1>1, <1>4, <1>6, <1>7, <1>8, <1>10 DEF B, specs

\* The boundaries the scheduler rounds to are ends of blocks in every group, and the keys
\* of a prompt, regrouped, name whole blocks (resolve_kv_cache_block_sizes,
\* BlockHashListWithBlockSize).
THEOREM WholeBlocks == SizingSpec => []KeysNameWholeBlocks
<1>1. SizingInv => KeysNameWholeBlocks
  <2> SUFFICES ASSUME SizingInv, Agreed, Len(groups) > 1, NEW w \in Workers, NEW i \in DOMAIN groups
               PROVE  LET block == SchedulerSpecs(w)[i].block
                          keys(n) == [k \in 1 .. n \div sizes[2] |-> k * sizes[2]]
                      IN /\ sizes[1] % block = 0
                         /\ FinerKeys(SchedulerSpecs(w)) =>
                              \A n \in 1 .. 2 * sizes[1] :
                                Coarse(keys(n), block \div sizes[2]) = [b \in 1 .. n \div block |-> b * block]
    BY DEF KeysNameWholeBlocks
  <2>1. PICK v \in Workers :
          /\ sizes = SchedulerSizes(SchedulerSpecs(v))
          /\ FinerKeys(SchedulerSpecs(v)) =>
               \A n \in Blocks(SchedulerSpecs(v)) : n % HashBlock(SchedulerSpecs(v)) = 0
    BY DEF SizingInv, SizesResolved, Agreed
  <2> DEFINE specs == SchedulerSpecs(v)
             B == Blocks(specs)
             unit == Lcm(B)
             block == SchedulerSpecs(w)[i].block
  <2>2. /\ Len(specs) > 1 /\ B \in SUBSET (Nat \ {0}) /\ B # {} /\ unit \in Nat \ {0}
        /\ specs[i].block \in B /\ unit % specs[i].block = 0
    BY UnitIs
  <2>3. block = specs[i].block
    BY AlikeEverywhere
  <2>4. sizes = IF FinerKeys(specs) THEN <<unit, HashBlock(specs)>> ELSE <<unit, unit>>
    <3> HIDE DEF specs
    <3>1. sizes = SchedulerSizes(specs)
      BY <2>1 DEF specs
    <3>2. ~ (Len(specs) <= 1)
      <4>1. Len(groups) \in Nat /\ Len(specs) = Len(groups)
        BY AgreedIs, UnitIs DEF GroupsOK, Apart, specs
      <4>2. QED
        BY <4>1
    <3>3. QED
      BY <2>2, <3>1, <3>2 DEF SchedulerSizes, SchedulerBlock
  <2>5. FinerKeys(SchedulerSpecs(w)) <=> FinerKeys(specs)
    <3>1. /\ Len(SchedulerSpecs(w)) = Len(specs)
          /\ DOMAIN SchedulerSpecs(w) = DOMAIN groups /\ DOMAIN specs = DOMAIN groups
      BY UnitIs
    <3>2. \A j \in DOMAIN groups :
            /\ SchedulerSpecs(w)[j].block = specs[j].block
            /\ SchedulerSpecs(w)[j].kind = "mamba" <=> specs[j].kind = "mamba"
      BY AlikeEverywhere
    <3> HIDE DEF specs
    <3>3. BacksOff(SchedulerSpecs(w)) <=> BacksOff(specs)
      BY <3>1, <3>2 DEF BacksOff
    <3>4. QED
      BY <3>1, <3>3 DEF FinerKeys
  <2>6. sizes[1] = unit
    BY <2>4
  <2>7. sizes[1] % block = 0
    BY <2>2, <2>3, <2>6
  <2>8. ASSUME FinerKeys(SchedulerSpecs(w)), NEW n \in 1 .. 2 * sizes[1]
        PROVE  Coarse([k \in 1 .. n \div sizes[2] |-> k * sizes[2]], block \div sizes[2])
                 = [b \in 1 .. n \div block |-> b * block]
    <3> DEFINE hash == HashBlock(specs)
    <3>1. sizes[2] = hash
      BY <2>4, <2>5, <2>8
    <3>2. block \in Nat \ {0} /\ block % hash = 0
      BY <2>1, <2>2, <2>3, <2>5, <2>8
    <3>3. hash \in Nat \ {0}
      <4>1. scenario.hashBlock \in Nat
        <5>1. scenario \in Scenarios
          BY AgreedIs
        <5>2. QED
          BY <5>1, ScenarioIs
      <4>2. Gcd(B) \in Nat \ {0}
        <5> HIDE DEF B
        <5>1. QED
          BY <2>2, GcdDivides
      <4>3. QED
        BY <4>1, <4>2 DEF HashBlock
    <3>4. n \in Nat
      BY <2>2, <2>6
    <3> HIDE DEF hash, block
    <3>5. Coarse([k \in 1 .. n \div hash |-> k * hash], block \div hash)
            = [b \in 1 .. n \div block |-> b * block]
      BY <3>2, <3>3, <3>4, CoarseIs, ZenonT(60)
    <3>6. QED
      BY <3>1, <3>5
  <2>9. QED
    BY <2>7, <2>8
<1>2. QED
  BY <1>1, SizingInvariance, PTL

-----------------------------------------------------------------------------
\* What a request needs and what blocks there are, in every layout but that of several
\* uniform types: the bytes fit exactly when the blocks do.

HasLayers(ps, gs) == \E i \in 1 .. Len(gs) : ToSet(ps[i].layers) # {}

\* Groups of one spec each, and of one page size.
PageOfAll(ps, gs, page) ==
  /\ page \in Nat \ {0}
  /\ \A i \in 1 .. Len(gs) : ~ps[i].uniform /\ PageSize(SpecOf(ps[i])) = page
  /\ \A i \in 1 .. Len(gs) : \A l \in ToSet(ps[i].layers) : PageOf(ps[i], l) = page

LEMMA PlainShare ==
  ASSUME NEW ps, NEW gs, NEW own, NEW D, IsShare(ps, gs, own, D), Len(gs) # 0, ~AllUniform(gs)
  PROVE  PageOfAll(ps, gs, PageSize(SpecOf(ps[1])))
<1> DEFINE m == Len(gs)
           page == PageSize(SpecOf(ps[1]))
<1>1. /\ m \in Nat /\ DOMAIN gs = 1 .. m
      /\ D \in SUBSET Nat /\ IsFiniteSet(D)
      /\ \A i \in 1 .. m : /\ IsGroup(gs[i], D) /\ Keeps(ps[i], gs[i])
                           /\ IsProjection(ps[i], gs[i], own)
  BY ShareKeeps
<1>2. /\ \A i \in 1 .. m : ~gs[i].uniform
      /\ \A i, j \in 1 .. m : \A l \in DOMAIN gs[i].specs, k \in DOMAIN gs[j].specs :
           PageSize(gs[i].specs[l]) = PageSize(gs[j].specs[k])
  <2>1. GroupsOK(gs, D) /\ ~ \A i \in DOMAIN gs : gs[i].uniform
    BY DEF IsShare, AllUniform
  <2>2. /\ \A i \in DOMAIN gs : ~gs[i].uniform
        /\ \A i, j \in DOMAIN gs : \A l \in DOMAIN gs[i].specs, k \in DOMAIN gs[j].specs :
             PageSize(gs[i].specs[l]) = PageSize(gs[j].specs[k])
    BY <2>1 DEF GroupsOK
  <2>3. QED
    BY <1>1, <2>2
<1>3. 1 \in 1 .. m
  BY <1>1
<1> HIDE DEF m
<1>4. ASSUME NEW i \in 1 .. m
      PROVE  /\ ~ps[i].uniform
             /\ \A l \in DOMAIN ps[i].specs : l \in DOMAIN gs[i].specs /\ PageOf(ps[i], l) = PageSize(gs[i].specs[l])
             /\ ToSet(ps[i].layers) \in SUBSET DOMAIN ps[i].specs
             /\ Min(DOMAIN ps[i].specs) \in DOMAIN ps[i].specs
             /\ PageSize(SpecOf(ps[i])) = PageOf(ps[i], Min(DOMAIN ps[i].specs))
  <2> DEFINE g == gs[i]
             q == ps[i]
  <2>1. IsGroup(g, D) /\ Keeps(q, g) /\ IsProjection(q, g, own) /\ ~g.uniform
    BY <1>1, <1>2
  <2> HIDE DEF g, q
  <2>2. Min(DOMAIN q.specs) \in DOMAIN q.specs
    BY <1>1, <2>1, PartSpecs
  <2>3. PageSize(SpecOf(q)) = PageOf(q, Min(DOMAIN q.specs))
    BY DEF SpecOf, PageOf
  <2>4. /\ ~q.uniform /\ ToSet(q.layers) \in SUBSET DOMAIN q.specs
        /\ \A l \in DOMAIN q.specs : l \in DOMAIN g.specs /\ PageOf(q, l) = PageSize(g.specs[l])
    BY <2>1 DEF IsProjection, PageOf
  <2>5. QED
    BY <2>2, <2>3, <2>4 DEF g, q
<1>5. ASSUME NEW i \in 1 .. m, NEW l \in DOMAIN ps[i].specs PROVE PageOf(ps[i], l) = page
  <2> DEFINE k == Min(DOMAIN ps[1].specs)
  <2>1. k \in DOMAIN ps[1].specs /\ page = PageOf(ps[1], k)
    BY <1>3, <1>4
  <2>2. k \in DOMAIN gs[1].specs /\ PageOf(ps[1], k) = PageSize(gs[1].specs[k])
    BY <1>3, <1>4, <2>1
  <2>3. l \in DOMAIN gs[i].specs /\ PageOf(ps[i], l) = PageSize(gs[i].specs[l])
    BY <1>4
  <2>4. PageSize(gs[i].specs[l]) = PageSize(gs[1].specs[k])
    BY <1>2, <1>3, <2>2, <2>3
  <2>5. QED
    BY <2>1, <2>2, <2>3, <2>4
<1>6. ASSUME NEW i \in 1 .. m PROVE PageSize(SpecOf(ps[i])) = page
  <2>1. /\ Min(DOMAIN ps[i].specs) \in DOMAIN ps[i].specs
        /\ PageSize(SpecOf(ps[i])) = PageOf(ps[i], Min(DOMAIN ps[i].specs))
    BY <1>4
  <2>2. QED
    BY <1>5, <2>1
<1>7. page \in Nat \ {0}
  BY BytesAre
<1>8. QED
  <2>1. \A i \in 1 .. m : \A l \in ToSet(ps[i].layers) : PageOf(ps[i], l) = page
    BY <1>4, <1>5
  <2>2. QED
    BY <1>4, <1>6, <1>7, <2>1 DEF PageOfAll, m

\* With one page size a packed block holds the pages of a pooled one.
LEMMA PackedPlain ==
  ASSUME NEW ps, NEW gs, NEW own, NEW D, IsShare(ps, gs, own, D), Len(gs) # 0,
         NEW page, PageOfAll(ps, gs, page), HasLayers(ps, gs)
  PROVE  /\ GroupSize(ps) \in Nat \ {0}
         /\ PagesIn(ps) = {page} /\ Slots(ps, page) = GroupSize(ps)
         /\ PackedBytes(ps) = page * GroupSize(ps)
<1> DEFINE m == Len(gs)
           size == GroupSize(ps)
           slots == Slots(ps, page)
<1>1. /\ m \in Nat /\ D \in SUBSET Nat /\ IsFiniteSet(D)
      /\ \A i \in 1 .. m : IsGroup(gs[i], D) /\ IsProjection(ps[i], gs[i], own)
  BY ShareKeeps
<1>2. ASSUME NEW i \in 1 .. m
      PROVE  /\ Len(ps[i].layers) \in Nat /\ (Len(ps[i].layers) # 0 <=> ToSet(ps[i].layers) # {})
             /\ Len(OfPage(ps[i], page)) = Len(ps[i].layers)
  <2> DEFINE g == gs[i]
             q == ps[i]
  <2>1. IsGroup(g, D) /\ IsProjection(q, g, own)
    BY <1>1
  <2>2. \A l \in ToSet(q.layers) : PageOf(q, l) = page
    BY DEF PageOfAll
  <2> HIDE DEF g, q
  <2>3. /\ Len(q.layers) \in Nat /\ (Len(q.layers) # 0 <=> ToSet(q.layers) # {})
        /\ Len(q.layers) = Cardinality(ToSet(q.layers))
        /\ Lists(OfPage(q, page), LayersWith(q, page))
    BY <1>1, <2>1, PartLayers
  <2>4. LayersWith(q, page) = ToSet(q.layers)
    BY <2>2 DEF LayersWith
  <2>5. Len(OfPage(q, page)) = Len(q.layers)
    BY <2>3, <2>4 DEF Lists
  <2>6. QED
    BY <2>3, <2>5 DEF q
<1>3. /\ size \in Nat
      /\ \A i \in 1 .. m : Len(ps[i].layers) <= size
      /\ \E i \in 1 .. m : Len(ps[i].layers) = size
  BY GroupSizeOfShare
<1>4. /\ PagesIn(ps) \in SUBSET (Nat \ {0})
      /\ \A i \in 1 .. m : \A l \in ToSet(ps[i].layers) : PageOf(ps[i], l) \in PagesIn(ps)
      /\ \A p \in PagesIn(ps) : \E i \in 1 .. m : \E l \in ToSet(ps[i].layers) : PageOf(ps[i], l) = p
      /\ slots \in Nat
      /\ \A i \in 1 .. m : Len(OfPage(ps[i], page)) <= slots
      /\ \E i \in 1 .. m : Len(OfPage(ps[i], page)) = slots
  BY SharePagesIn
<1>5. PICK i \in 1 .. m : ToSet(ps[i].layers) # {}
  BY DEF HasLayers
<1> HIDE DEF m, size, slots
<1>6. size # 0
  BY <1>2, <1>3, <1>5
<1>7. slots = size
  BY <1>2, <1>3, <1>4
<1>8. PagesIn(ps) = {page}
  <2>1. \A p \in PagesIn(ps) : p = page
    BY <1>4 DEF PageOfAll, m
  <2>2. page \in PagesIn(ps)
    <3>1. PICK l \in ToSet(ps[i].layers) : TRUE
      BY <1>5
    <3>2. PageOf(ps[i], l) = page
      BY <1>5, <3>1 DEF PageOfAll, m
    <3>3. QED
      BY <1>4, <1>5, <3>1, <3>2
  <2>3. QED
    BY <2>1, <2>2
<1>9. PackedBytes(ps) = page * size
  <2> DEFINE f == [p \in {page} |-> p * Slots(ps, p)]
  <2>1. PackedBytes(ps) = SumFunction(f)
    BY <1>8 DEF PackedBytes
  <2>2. DOMAIN f = {page} /\ f[page] = page * size
    BY <1>7 DEF slots
  <2> HIDE DEF f
  <2>3. page * size \in Int
    <3>1. page \in Int /\ size \in Int
      BY <1>3 DEF PageOfAll
    <3>2. QED
      BY <3>1, Times
  <2>4. SumFunction(f) = f[page]
    BY <2>2, <2>3, SumOfOne
  <2>5. QED
    BY <2>1, <2>2, <2>4
<1>10. QED
  BY <1>3, <1>6, <1>7, <1>8, <1>9 DEF size, slots

\* But for groups of several uniform types, a request takes the bytes of its blocks, and the
\* memory is divided by those of one.
LEMMA LayoutIs ==
  ASSUME NEW ps, NEW gs, NEW own, NEW D, IsShare(ps, gs, own, D), Len(gs) # 0,
         ~ (AllUniform(gs) /\ Len(gs) > 1), HasLayers(ps, gs), scenario.override \in Nat
  PROVE  /\ PoolBytesPerBlock(ps) \in Nat \ {0}
         /\ \A n \in Nat : NeededBytes(ps, n) = RequestPages(gs, n) * PoolBytesPerBlock(ps)
         /\ \A mem \in Int : NumBlocks(ps, mem) = IF scenario.override # 0 THEN scenario.override
                                                  ELSE mem \div PoolBytesPerBlock(ps)
<1> DEFINE page == PageSize(SpecOf(ps[1]))
           all == AllPages(ps[1])
           size == GroupSize(ps)
<1>1. /\ page \in Nat \ {0} /\ all \in Nat \ {0}
      /\ \A n \in Nat : LayerBytes(ps[1], n) = GroupPages(ps[1], n) * all
  BY BytesAre
<1>2. /\ SingleUniform(ps) <=> SingleUniform(gs)
      /\ AllUniform(ps) <=> AllUniform(gs)
      /\ SingleUniform(ps) => AllUniform(ps)
      /\ Len(ps) = Len(gs) /\ DOMAIN ps = 1 .. Len(gs)
  BY ShareLayout
<1>3. Len(gs) \in Nat /\ DOMAIN gs = 1 .. Len(gs)
  BY ShareKeeps
<1>4. CASE SingleUniform(ps)
  <2>1. ~Packed(ps) /\ Len(gs) = 1
    BY <1>2, <1>4 DEF Packed, SingleUniform
  <2>2. PoolBytesPerBlock(ps) = all
    BY <1>4, <2>1 DEF PoolBytesPerBlock
  <2>3. ASSUME NEW n \in Nat PROVE NeededBytes(ps, n) = RequestPages(gs, n) * all
    <3>1. NeededBytes(ps, n) = GroupPages(ps[1], n) * all
      BY <1>1, <1>4 DEF NeededBytes
    <3>2. GroupPages(ps[1], n) = GroupPages(gs[1], n) /\ GroupPages(gs[1], n) \in Nat
      <4>1. 1 \in 1 .. Len(gs)
        BY <2>1
      <4>2. \A i \in 1 .. Len(gs) : /\ GroupPages(ps[i], n) = GroupPages(gs[i], n)
                                    /\ GroupPages(gs[i], n) \in Nat
                                    /\ n # 0 => GroupPages(gs[i], n) # 0
        BY SharePages, ZenonT(60)
      <4>3. QED
        BY <4>1, <4>2
    <3>3. RequestPages(gs, n) = GroupPages(gs[1], n)
      <4> DEFINE f == [i \in DOMAIN gs |-> GroupPages(gs[i], n)]
      <4>1. DOMAIN gs = {1}
        BY <1>3, <2>1
      <4>2. DOMAIN f = {1} /\ f[1] = GroupPages(gs[1], n)
        BY <4>1
      <4>3. RequestPages(gs, n) = SumFunction(f)
        BY DEF RequestPages
      <4> HIDE DEF f
      <4>4. f[1] \in Int
        BY <3>2, <4>2
      <4>5. SumFunction(f) = f[1]
        BY <4>2, <4>4, SumOfOne
      <4>6. QED
        BY <4>2, <4>3, <4>5
    <3>4. QED
      BY <3>1, <3>2, <3>3
  <2>4. ASSUME NEW mem \in Int
        PROVE  NumBlocks(ps, mem) = IF scenario.override # 0 THEN scenario.override ELSE mem \div all
    BY <1>4, <2>1 DEF NumBlocks
  <2>5. QED
    BY <1>1, <2>2, <2>3, <2>4
<1>5. CASE ~SingleUniform(ps)
  <2>1. ~AllUniform(gs) /\ ~AllUniform(ps)
    <3>1. Len(gs) = 1 => ~AllUniform(gs)
      BY <1>2, <1>3, <1>5 DEF SingleUniform, AllUniform
    <3>2. QED
      BY <1>2, <1>3, <3>1
  <2>2. PageOfAll(ps, gs, page)
    BY <2>1, PlainShare
  <2>3. size \in Nat \ {0} /\ PackedBytes(ps) = page * size
    BY <2>2, PackedPlain
  <2>4. PoolBytesPerBlock(ps) = page * size
    BY <1>5, <2>3 DEF PoolBytesPerBlock
  <2>5. ASSUME NEW n \in Nat PROVE NeededBytes(ps, n) = RequestPages(gs, n) * (page * size)
    <3> DEFINE r == RequestPages(gs, n)
    <3>1. RequestPages(ps, n) = r /\ r \in Nat
      BY SharePages
    <3>2. NeededBytes(ps, n) = size * page * r
      BY <1>5, <2>1, <3>1 DEF NeededBytes
    <3> HIDE DEF r, page, size
    <3>3. size * page = page * size /\ page * size \in Int
      BY <1>1, <2>3, Times
    <3>4. (page * size) * r = r * (page * size)
      BY <3>1, <3>3, Times
    <3>5. QED
      BY <3>2, <3>3, <3>4 DEF r
  <2>6. ASSUME NEW mem \in Int
        PROVE  NumBlocks(ps, mem) = IF scenario.override # 0 THEN scenario.override
                                    ELSE mem \div (page * size)
    <3>1. CASE scenario.override # 0
      BY <3>1 DEF NumBlocks
    <3>2. CASE scenario.override = 0 /\ Packed(ps)
      <4>1. NumBlocks(ps, mem) = mem \div PackedBytes(ps)
        BY <1>5, <3>2 DEF NumBlocks
      <4>2. QED
        BY <2>3, <3>2, <4>1
    <3>3. CASE scenario.override = 0 /\ ~Packed(ps)
      <4>1. NumBlocks(ps, mem) = (mem \div page) \div size
        BY <1>5, <3>3 DEF NumBlocks
      <4>2. (mem \div page) \div size = mem \div (page * size)
        <5> HIDE DEF page, size
        <5>1. QED
          BY <1>1, <2>3, DivDiv
      <4>3. QED
        BY <3>3, <4>1, <4>2
    <3>4. QED
      BY <3>1, <3>2, <3>3
  <2>7. page * size \in Nat \ {0}
    <3> HIDE DEF page, size
    <3>1. QED
      BY <1>1, <2>3, Times
  <2>8. QED
    BY <2>4, <2>5, <2>6, <2>7
<1>6. QED
  BY <1>4, <1>5

\* Then a request fits in the memory just when it fits in the blocks.
LEMMA FitsInBlocks ==
  ASSUME NEW ps, NEW gs, NEW own, NEW D, IsShare(ps, gs, own, D), Len(gs) # 0,
         ~ (AllUniform(gs) /\ Len(gs) > 1), HasLayers(ps, gs), scenario.override \in Nat,
         NEW mem \in Int, scenario.override # 0 => mem = scenario.override * PoolBytesPerBlock(ps),
         NEW n \in Nat
  PROVE  /\ NumBlocks(ps, mem) \in Int
         /\ NeededBytes(ps, n) <= mem <=> RequestPages(gs, n) <= NumBlocks(ps, mem)
<1> DEFINE pool == PoolBytesPerBlock(ps)
           r == RequestPages(gs, n)
           need == NeededBytes(ps, n)
           num == NumBlocks(ps, mem)
           o == scenario.override
<1>1. /\ pool \in Nat \ {0} /\ need = r * pool
      /\ num = IF o # 0 THEN o ELSE mem \div pool
  BY LayoutIs
<1>2. r \in Nat
  BY SharePages
<1>3. o \in Nat /\ (o # 0 => mem = o * pool)
  OBVIOUS
<1> HIDE DEF pool, r, need, num, o
<1>4. CASE o # 0
  <2>1. num = o /\ mem = o * pool
    BY <1>1, <1>3, <1>4
  <2>2. /\ r <= o => r * pool <= o * pool
        /\ r * pool <= o * pool => r <= o
    BY <1>1, <1>2, <1>3, Times
  <2>3. num \in Int /\ (need <= mem <=> r <= num)
    BY <1>1, <1>3, <2>1, <2>2
  <2>4. QED
    BY <2>3 DEF need, num, r
<1>5. CASE o = 0
  <2>1. num = mem \div pool /\ num \in Int
    BY <1>1, <1>5, DivIs
  <2>2. r <= mem \div pool <=> r * pool <= mem
    BY <1>1, <1>2, QuotientIs
  <2>3. num \in Int /\ (need <= mem <=> r <= num)
    BY <1>1, <2>1, <2>2
  <2>4. QED
    BY <2>3 DEF need, num, r
<1>6. QED
  BY <1>4, <1>5

-----------------------------------------------------------------------------
\* Auto-fit lowers the length no more than it must.

\* What is known of a worker when there are groups and all have agreed.
LEMMA AgreedWorker ==
  ASSUME SizingInv, Agreed, groups # <<>>, NEW w \in Workers
  PROVE  /\ Len(groups) \in Nat \ {0} /\ scenario.override \in Nat
         /\ IsShare(Projected(w), groups, scenario.owns[w], Layers)
         /\ HasLayers(Projected(w), groups)
         /\ avail[w] \in Int /\ avail[w] > 0 /\ maxLen \in Nat \ {0}
         /\ NeededBytes(Projected(w), maxLen) <= avail[w]
         /\ scenario.override # 0 => avail[w] = scenario.override * PoolBytesPerBlock(Projected(w))
         /\ configs[w].num = LeastBlocks
<1> DEFINE ps == Projected(w)
           own == scenario.owns[w]
<1>1. /\ IsShare(ps, groups, own, Layers) /\ scenario \in Scenarios /\ configs[w].num = LeastBlocks
      /\ GroupsOK(groups, Layers)
  BY AgreedIs
<1>2. /\ own \in SUBSET Layers /\ IsFiniteSet(Layers) /\ scenario.override \in Nat
      /\ scenario.maxLen \in Nat
  BY <1>1, ScenarioIs DEF Layers
<1>3. phase \in {"agreed", "ready"}
  BY DEF Agreed
<1>4. avail[w] \in Int /\ maxLen \in 1 .. scenario.maxLen
  BY <1>3 DEF SizingInv, SizesTyped
<1>5. avail[w] > 0 /\ NeededBytes(ps, maxLen) <= avail[w]
  BY <1>3 DEF SizingInv, MemoryChecked
<1>6. scenario.override # 0 => avail[w] = scenario.override * PoolBytesPerBlock(ps)
  BY <1>3 DEF SizingInv, MemoryPlanned
<1>7. LayersOn(w) = Cardinality(own) /\ own # {}
  BY <1>3 DEF SizingInv, ConfigsBuilt
<1>8. Len(groups) \in Nat \ {0}
  <2>1. Len(groups) \in Nat /\ groups \in Seq({groups[i] : i \in DOMAIN groups})
    BY <1>1 DEF GroupsOK, Apart
  <2>2. Len(groups) # 0
    BY <2>1
  <2>3. QED
    BY <2>1, <2>2
<1> DEFINE f == [i \in DOMAIN groups |-> Len(ps[i].layers)]
<1>9. LayersOn(w) = SumFunction(f)
  BY DEF LayersOn
<1> HIDE DEF ps, own
<1>10. HasLayers(ps, groups)
  <2>1. /\ Len(groups) \in Nat /\ DOMAIN groups = 1 .. Len(groups)
        /\ Layers \in SUBSET Nat /\ IsFiniteSet(Layers)
        /\ \A i \in 1 .. Len(groups) : IsGroup(groups[i], Layers) /\ IsProjection(ps[i], groups[i], own)
    BY <1>1, ShareKeeps
  <2>2. ASSUME NEW i \in 1 .. Len(groups)
        PROVE  Len(ps[i].layers) \in Nat /\ (Len(ps[i].layers) # 0 <=> ToSet(ps[i].layers) # {})
    <3> DEFINE g == groups[i]
               q == ps[i]
    <3>1. IsGroup(g, Layers) /\ IsProjection(q, g, own)
      BY <2>1
    <3> HIDE DEF g, q
    <3>2. Len(q.layers) \in Nat /\ (Len(q.layers) # 0 <=> ToSet(q.layers) # {})
      BY <2>1, <3>1, PartLayers
    <3>3. QED
      BY <3>2 DEF q
  <2>3. DOMAIN f = 1 .. Len(groups) /\ \A i \in 1 .. Len(groups) : f[i] = Len(ps[i].layers)
    BY <2>1
  <2> HIDE DEF f
  <2>4. IsFiniteSet(DOMAIN f) /\ \A i \in DOMAIN f : f[i] \in Nat
    <3>1. IsFiniteSet(1 .. Len(groups))
      BY <2>1, FS_Interval
    <3>2. QED
      BY <2>2, <2>3, <3>1
  <2>5. SumFunction(f) # 0
    <3>1. IsFiniteSet(own)
      BY <1>2, FS_Subset
    <3>2. Cardinality(own) # 0
      BY <1>7, <3>1, FS_EmptySet
    <3>3. QED
      BY <1>7, <1>9, <3>2
  <2>6. PICK i \in DOMAIN f : f[i] # 0
    BY <2>4, <2>5, SumProperties
  <2>7. i \in 1 .. Len(groups) /\ ToSet(ps[i].layers) # {}
    BY <2>2, <2>3, <2>6
  <2>8. QED
    BY <2>7 DEF HasLayers
<1>11. maxLen \in Nat \ {0}
  BY <1>2, <1>4
<1>12. QED
  BY <1>1, <1>2, <1>4, <1>5, <1>6, <1>8, <1>10, <1>11 DEF ps, own

\* Auto-fit lowers the length no more than it must: one token more does not fit in the blocks
\* some worker has (_estimate_max_model_len_from_groups, _auto_fit_max_model_len).
THEOREM FittedIsLargest == SizingSpec => []AutoFitIsLargest
<1>1. SizingInv => AutoFitIsLargest
  <2> SUFFICES ASSUME SizingInv, Agreed, scenario.autoFit, maxLen < scenario.maxLen,
                      ~ (AllUniform(groups) /\ Len(groups) > 1)
               PROVE  \E w \in Workers :
                        RequestPages(groups, maxLen + 1) > NumBlocks(Projected(w), avail[w])
    BY DEF AutoFitIsLargest
  <2>1. phase \in {"agreed", "ready"} /\ scenario \in Scenarios /\ GroupsOK(groups, Layers)
    BY AgreedIs DEF Agreed
  <2>2. scenario.maxLen \in Nat \ {0}
    BY <2>1, ScenarioIs
  <2>3. maxLen \in 1 .. scenario.maxLen
    BY DEF SizingInv, SizesTyped
  <2>4. groups # <<>>
    BY <2>1, <2>2 DEF SizingInv, MemoryPlanned
  <2>5. maxLen = Fitted(avail)
    BY <2>1, <2>4 DEF SizingInv, MemoryPlanned
  <2> DEFINE share == [w \in Workers |-> Projected(w)]
             S == Candidates(share, avail, scenario.maxLen)
  <2>6. Fitted(avail) = Min(S)
    <3>1. \A w \in Workers : share[w] = Projected(w)
      OBVIOUS
    <3> HIDE DEF share
    <3>2. QED
      BY <3>1 DEF Fitted, Candidates
  <2>7. \A w \in Workers : avail[w] \in Int
    BY <2>4, AgreedWorker
  <2>8. SharesOf(share, groups, scenario)
    BY DEF SharesOf, Projected
  <2>9. Min(S) \in S
    <3> HIDE DEF share
    <3>1. QED
      BY <2>1, <2>4, <2>7, <2>8, FittedIs DEF Layers
  <2>10. PICK w \in Workers : maxLen = LongestThatFits(Projected(w), avail[w], scenario.maxLen)
    <3>1. maxLen \in S /\ maxLen # scenario.maxLen
      BY <2>2, <2>3, <2>5, <2>6, <2>9
    <3>2. QED
      BY <3>1 DEF Candidates
  <2> DEFINE ps == Projected(w)
             mem == avail[w]
             top == scenario.maxLen
  <2>11. /\ IsShare(ps, groups, scenario.owns[w], Layers) /\ HasLayers(ps, groups)
         /\ Len(groups) # 0 /\ scenario.override \in Nat /\ mem \in Int
         /\ scenario.override # 0 => mem = scenario.override * PoolBytesPerBlock(ps)
    BY <2>4, AgreedWorker
  <2>12. maxLen = LongestThatFits(ps, mem, top) /\ top \in Nat \ {0} /\ maxLen # 0 /\ maxLen # top
         /\ maxLen + 1 \in Nat
    BY <2>2, <2>3, <2>10
  <2> HIDE DEF ps, mem, top
  <2>13. \A n \in Nat : NeededBytes(ps, n) \in Int
    <3>1. \A n \in Nat : NeededBytes(ps, n) \in Nat
      BY <2>11, BytesAre
    <3>2. QED
      BY <3>1
  <2>14. NeededBytes(ps, maxLen + 1) > mem
    BY <2>11, <2>12, <2>13, LongestIs
  <2> DEFINE n == maxLen + 1
  <2>15. n \in Nat /\ NeededBytes(ps, n) > mem /\ NeededBytes(ps, n) \in Int
    BY <2>12, <2>13, <2>14
  <2> HIDE DEF n
  <2>16. /\ NumBlocks(ps, mem) \in Int
         /\ NeededBytes(ps, n) <= mem <=> RequestPages(groups, n) <= NumBlocks(ps, mem)
    BY <2>11, <2>15, FitsInBlocks
  <2>17. RequestPages(groups, n) \in Nat
    BY <2>11, <2>15, SharePages
  <2>18. RequestPages(groups, n) > NumBlocks(ps, mem)
    BY <2>11, <2>15, <2>16, <2>17
  <2>19. QED
    BY <2>18 DEF n, ps, mem
<1>2. QED
  BY <1>1, SizingInvariance, PTL

-----------------------------------------------------------------------------
\* Several uniform types: the tuples of a group hold the pages of any request.

\* A sum over more and larger terms is larger.
LEMMA SumGrows ==
  ASSUME NEW f, NEW g, IsFiniteSet(DOMAIN g), DOMAIN f \in SUBSET DOMAIN g,
         \A x \in DOMAIN g : g[x] \in Nat,
         \A x \in DOMAIN f : f[x] \in Nat /\ f[x] <= g[x]
  PROVE  SumFunction(f) <= SumFunction(g)
<1> DEFINE D == DOMAIN g
           P == DOMAIN f
           F == {s \in SUBSET D : SumOn(f, s \cap P) <= SumOn(g, s)}
<1>1. IsFiniteSet(P)
  BY FS_Subset
<1>2. \A x \in P : f[x] \in Int
  OBVIOUS
<1>3. \A x \in D : g[x] \in Int
  OBVIOUS
<1>4. /\ SumOn(f, {}) = 0
      /\ \A s \in SUBSET P : SumOn(f, s) \in Int
      /\ \A s \in SUBSET P : \A x \in s : SumOn(f, s) = f[x] + SumOn(f, s \ {x})
  BY <1>1, <1>2, SumByPick, SumStep
<1>5. /\ SumOn(g, {}) = 0
      /\ \A s \in SUBSET D : SumOn(g, s) \in Int
      /\ \A s \in SUBSET D : s # {} => SumOn(g, s) = g[Pick(s)] + SumOn(g, s \ {Pick(s)})
  BY <1>3, SumByPick
<1>6. {} \in F
  <2>1. {} \cap P = {}
    OBVIOUS
  <2>2. QED
    BY <1>4, <1>5, <2>1
<1>7. ASSUME NEW s \in SUBSET D, s # {}, s \ {Pick(s)} \in F PROVE s \in F
  <2> DEFINE x == Pick(s)
             t == s \ {x}
  <2>1. x \in s /\ x \in D /\ g[x] \in Nat /\ t \in SUBSET D
    BY <1>7 DEF Pick
  <2>2. SumOn(f, t \cap P) <= SumOn(g, t) /\ SumOn(g, s) = g[x] + SumOn(g, t)
    BY <1>5, <1>7
  <2> DEFINE a == SumOn(f, t \cap P)
             b == SumOn(g, t)
             c == SumOn(f, s \cap P)
             d == SumOn(g, s)
  <2>3. a \in Int /\ b \in Int /\ a <= b /\ d = g[x] + b
    <3>1. t \cap P \in SUBSET P
      OBVIOUS
    <3>2. QED
      BY <1>4, <1>5, <2>1, <2>2, <3>1
  <2>4. c <= d
    <3>1. CASE x \in P
      <4>1. s \cap P \in SUBSET P /\ x \in s \cap P /\ (s \cap P) \ {x} = t \cap P
        BY <2>1, <3>1
      <4>2. c = f[x] + SumOn(f, (s \cap P) \ {x})
        BY <1>4, <4>1
      <4>3. c = f[x] + a
        BY <4>1, <4>2
      <4>4. f[x] \in Nat /\ f[x] <= g[x]
        BY <3>1
      <4> HIDE DEF a, b, c, d, x
      <4>5. QED
        BY <2>1, <2>3, <4>3, <4>4
    <3>2. CASE x \notin P
      <4>1. s \cap P = t \cap P
        BY <3>2
      <4>2. c = a
        BY <4>1
      <4> HIDE DEF a, b, c, d, x
      <4>3. QED
        BY <2>1, <2>3, <4>2
    <3>3. QED
      BY <3>1, <3>2
  <2>5. QED
    BY <2>4
<1>8. \A s \in SUBSET D : s \in F
  <2> HIDE DEF F
  <2>1. QED
    BY <1>6, <1>7, PickInduction
<1>9. D \in F /\ D \cap P = P
  BY <1>8
<1>10. SumOn(f, P) <= SumOn(g, D)
  BY <1>9
<1>11. QED
  BY <1>10 DEF SumOn, SumFunction

\* A worker that keeps whole tuples has no more pages in a block than the tuples of its
\* longest group.
LEMMA TuplesHoldPages ==
  ASSUME NEW ps, NEW gs, NEW own, NEW D, IsShare(ps, gs, own, D), Len(gs) # 0, AllUniform(gs),
         PageSizes(ps[1].specs) = PageSizes(gs[1].specs)
  PROVE  PackedBytes(ps) <= Tuples(ps) * TupleBytes(ps)
<1> DEFINE m == Len(gs)
           P == PagesIn(ps)
           Q == PageSizes(ps[1].specs)
           k == Tuples(ps)
           f == [p \in P |-> p * Slots(ps, p)]
           h == [p \in Q |-> p]
           g == [p \in Q |-> k * p]
<1>1. /\ m \in Nat /\ DOMAIN gs = 1 .. m /\ DOMAIN ps = 1 .. m
      /\ D \in SUBSET Nat /\ IsFiniteSet(D)
      /\ \A i \in 1 .. m : /\ IsGroup(gs[i], D) /\ Keeps(ps[i], gs[i])
                           /\ IsProjection(ps[i], gs[i], own)
  BY ShareKeeps
<1>2. /\ k \in Nat /\ \A i \in 1 .. m : LayerTuples(ps[i].specs) <= k
      /\ IsFiniteSet(Q) /\ Q \in SUBSET (Nat \ {0})
  BY TuplesOfShare
<1>3. /\ P \in SUBSET (Nat \ {0})
      /\ \A p \in P : \E i \in 1 .. m : \E l \in ToSet(ps[i].layers) : PageOf(ps[i], l) = p
      /\ \A p : /\ Slots(ps, p) \in Nat
                /\ \E i \in 1 .. m : Len(OfPage(ps[i], p)) = Slots(ps, p)
  BY SharePagesIn
<1>4. \A i \in 1 .. m : PageSizes(gs[i].specs) \subseteq Q
  <2>1. GroupsOK(gs, D) /\ 1 \in 1 .. m
    BY <1>1 DEF IsShare
  <2>2. \A i \in 1 .. m : gs[i].uniform
    BY <1>1 DEF AllUniform
  <2>3. \A i \in 1 .. m : PageSizes(gs[i].specs) \subseteq PageSizes(gs[1].specs)
    BY <1>1, <2>1, <2>2 DEF GroupsOK
  <2>4. QED
    BY <2>3
<1>5. P \subseteq Q
  <2> SUFFICES ASSUME NEW p \in P PROVE p \in Q
    OBVIOUS
  <2>1. PICK i \in 1 .. m : \E l \in ToSet(ps[i].layers) : PageOf(ps[i], l) = p
    BY <1>3
  <2>2. PICK l \in ToSet(ps[i].layers) : PageOf(ps[i], l) = p
    BY <2>1
  <2>3. l \in DOMAIN gs[i].specs /\ ps[i].specs[l] = gs[i].specs[l]
    BY <1>1, <2>2 DEF IsProjection
  <2>4. p \in PageSizes(gs[i].specs)
    BY <2>2, <2>3 DEF PageOf, PageSizes, Values
  <2>5. QED
    BY <1>4, <2>4
<1> HIDE DEF m, k, Q, P
<1>6. ASSUME NEW p \in P PROVE Slots(ps, p) <= k
  <2>1. PICK i \in 1 .. m : Len(OfPage(ps[i], p)) = Slots(ps, p)
    BY <1>3
  <2> DEFINE q == ps[i]
             o == gs[i]
             s == q.specs
             S == DOMAIN s
             C == LayersOfPage(s, p)
             B == LayersWith(q, p)
  <2>2. IsGroup(o, D) /\ Keeps(q, o) /\ IsProjection(q, o, own)
    BY <1>1
  <2>3. LayerTuples(s) <= k /\ Len(OfPage(q, p)) = Slots(ps, p)
    BY <1>2, <2>1
  <2> HIDE DEF q, o
  <2>4. IsFiniteSet(S) /\ S # {} /\ s \in [S -> Specs]
    BY <1>1, <2>2, PartSpecs DEF Keeps
  <2>5. /\ ToSet(q.layers) \in SUBSET S
        /\ Lists(OfPage(q, p), B)
    BY <1>1, <2>2, PartLayers
  <2>6. B \in SUBSET C
    BY <2>5 DEF LayersWith, LayersOfPage, PageOf
  <2>7. IsFiniteSet(C)
    <3>1. C \in SUBSET S
      BY DEF LayersOfPage
    <3>2. QED
      BY <2>4, <3>1, FS_Subset
  <2>8. Cardinality(B) <= Cardinality(C) /\ Cardinality(B) \in Nat /\ Cardinality(C) \in Nat
    BY <2>6, <2>7, FS_Subset, FS_CardinalityType
  <2>9. Slots(ps, p) = Cardinality(B)
    BY <2>3, <2>5 DEF Lists
  <2> HIDE DEF B
  <2>10. CASE C = {}
    <3>1. Cardinality(C) = 0
      BY <2>10, FS_EmptySet
    <3>2. QED
      BY <1>2, <2>8, <2>9, <3>1
  <2>11. CASE C # {}
    <3>1. p \in PageSizes(s)
      BY <2>11 DEF LayersOfPage, PageSizes, Values
    <3>2. LayerTuples(s) \in Nat /\ Cardinality(C) <= LayerTuples(s)
      <4> HIDE DEF S, s
      <4>1. /\ LayerTuples(s) \in Nat \ {0}
            /\ \A r \in PageSizes(s) : Cardinality(LayersOfPage(s, r)) <= LayerTuples(s)
        BY <2>4, TuplesIs
      <4>2. QED
        BY <3>1, <4>1
    <3> HIDE DEF C, s
    <3>3. QED
      BY <1>2, <2>3, <2>8, <2>9, <3>2
  <2>12. QED
    BY <2>10, <2>11
<1>7. ASSUME NEW p \in P PROVE f[p] \in Nat /\ f[p] <= g[p]
  <2> DEFINE n == Slots(ps, p)
  <2>1. p \in Nat /\ n \in Nat /\ n <= k /\ k \in Nat
    BY <1>2, <1>3, <1>6
  <2>2. f[p] = p * n /\ g[p] = k * p
    BY <1>5
  <2> HIDE DEF n, f, g
  <2>3. n * p <= k * p /\ n * p = p * n /\ p * n \in Nat
    <3>1. n \in Int /\ p \in Int /\ k \in Int /\ p >= 0
      BY <2>1
    <3>2. QED
      BY <2>1, <3>1, Times
  <2>4. QED
    BY <2>2, <2>3
<1>8. DOMAIN f = P /\ DOMAIN g = Q /\ DOMAIN h = Q /\ \A p \in Q : g[p] = k * h[p] /\ h[p] = p
  OBVIOUS
<1>9. ASSUME NEW p \in Q PROVE g[p] \in Nat /\ h[p] \in Int
  <2>1. p \in Nat
    BY <1>2
  <2>2. k * p \in Nat
    BY <1>2, <2>1, Times
  <2>3. QED
    BY <1>8, <2>1, <2>2
<1>10. PackedBytes(ps) = SumFunction(f) /\ TupleBytes(ps) = SumFunction(h)
  BY DEF PackedBytes, TupleBytes, P, Q
<1> HIDE DEF f, g, h
<1>11. SumFunction(f) <= SumFunction(g)
  BY <1>2, <1>5, <1>7, <1>8, <1>9, SumGrows
<1>12. SumFunction(g) = k * SumFunction(h)
  <2>1. k \in Int
    BY <1>2
  <2>2. IsFiniteSet(DOMAIN h) /\ DOMAIN g = DOMAIN h
    BY <1>2, <1>8
  <2>3. \A p \in DOMAIN h : h[p] \in Int /\ g[p] = k * h[p]
    BY <1>8, <1>9
  <2>4. QED
    BY <2>1, <2>2, <2>3, SumScaled
<1>13. QED
  BY <1>10, <1>11, <1>12 DEF k

-----------------------------------------------------------------------------
\* An admitted request fits in the blocks that the workers agree on.

\* A request that fits in the memory of a worker with whole tuples fits in its packed blocks.
LEMMA FitsInPackedBlocks ==
  ASSUME NEW ps, NEW gs, NEW own, NEW D, IsShare(ps, gs, own, D), Len(gs) # 0,
         AllUniform(gs), Len(gs) > 1, PageSizes(ps[1].specs) = PageSizes(gs[1].specs),
         HasLayers(ps, gs), scenario.override \in Nat,
         NEW mem \in Int, scenario.override # 0 => mem = scenario.override * PoolBytesPerBlock(ps),
         NEW n \in Nat, NeededBytes(ps, n) <= mem
  PROVE  NumBlocks(ps, mem) \in Int /\ RequestPages(gs, n) <= NumBlocks(ps, mem)
<1> DEFINE pool == PackedBytes(ps)
           r == RequestPages(gs, n)
           k == Tuples(ps)
           t == TupleBytes(ps)
           num == NumBlocks(ps, mem)
           o == scenario.override
<1>1. ~SingleUniform(ps) /\ AllUniform(ps) /\ Packed(ps)
  <2>1. /\ AllUniform(ps) /\ Len(ps) = Len(gs) /\ Len(gs) \in Nat
        /\ SingleUniform(ps) <=> SingleUniform(gs)
    BY ShareLayout, ShareKeeps
  <2>2. ~SingleUniform(ps)
    BY <2>1 DEF SingleUniform
  <2>3. QED
    BY <2>1, <2>2 DEF Packed
<1>2. pool \in Nat \ {0}
  <2>1. PICK i \in 1 .. Len(gs) : ToSet(ps[i].layers) # {}
    BY DEF HasLayers
  <2>2. PagesIn(ps) # {}
    BY <2>1, SharePagesIn
  <2>3. QED
    BY <2>2, PackedIs
<1>3. k \in Nat /\ t \in Nat /\ r \in Nat /\ pool <= k * t
  <2>1. k \in Nat /\ t \in Nat
    BY TuplesOfShare
  <2>2. r \in Nat
    BY SharePages
  <2>3. pool <= k * t
    BY TuplesHoldPages
  <2>4. QED
    BY <2>1, <2>2, <2>3
<1>4. NeededBytes(ps, n) = k * t * r
  <2>1. RequestPages(ps, n) = r
    BY SharePages
  <2>2. QED
    BY <1>1, <2>1 DEF NeededBytes, Tuples, TupleBytes
<1>5. num = IF o # 0 THEN o ELSE mem \div pool
  <2>1. CASE o # 0
    BY <2>1 DEF NumBlocks
  <2>2. CASE o = 0
    BY <1>1, <2>2 DEF NumBlocks
  <2>3. QED
    BY <2>1, <2>2
<1>6. o # 0 => mem = o * pool
  BY <1>1 DEF PoolBytesPerBlock
<1>7. o \in Nat /\ k * t * r <= mem
  BY <1>4
<1> HIDE DEF pool, r, k, t, num, o
<1>8. r * pool <= mem
  <2> DEFINE kt == k * t
  <2>1. kt \in Nat /\ pool <= kt /\ kt * r <= mem
    BY <1>3, <1>7, Times
  <2> HIDE DEF kt
  <2>2. pool * r <= kt * r /\ pool * r = r * pool /\ r * pool \in Int /\ kt * r \in Int
    <3>1. pool \in Int /\ kt \in Int /\ r \in Int /\ r >= 0
      BY <1>2, <1>3, <2>1
    <3>2. QED
      BY <2>1, <3>1, Times
  <2>3. QED
    BY <2>1, <2>2
<1>9. CASE o # 0
  <2>1. num = o /\ mem = o * pool
    BY <1>5, <1>6, <1>9
  <2>2. r <= o
    <3>1. r \in Int /\ o \in Int /\ pool \in Int /\ pool > 0
      BY <1>2, <1>3, <1>7
    <3>2. r * pool <= o * pool
      BY <1>8, <2>1
    <3>3. QED
      BY <3>1, <3>2, Times
  <2>3. QED
    BY <1>7, <2>1, <2>2 DEF num, r
<1>10. CASE o = 0
  <2>1. num = mem \div pool /\ num \in Int
    BY <1>2, <1>5, <1>10, DivIs
  <2>2. r <= mem \div pool
    <3>1. r \in Int
      BY <1>3
    <3>2. QED
      BY <1>2, <1>8, <3>1, QuotientIs
  <2>3. QED
    BY <2>1, <2>2 DEF num, r
<1>11. QED
  BY <1>9, <1>10

-----------------------------------------------------------------------------
\* The groups are the whole model's, once they are made.
GroupsMade ==
  phase \in {"planning", "checking", "building", "resolving", "agreed", "ready"} =>
    groups = ModelGroups(scenario) /\ groups # Refused

LEMMA GroupsStay == SizingSpec => []GroupsMade
<1>1. SizingInit => GroupsMade
  BY DEF SizingInit, GroupsMade
<1>2. GroupsMade /\ [SizingNext]_sizingVars => GroupsMade'
  <2> SUFFICES ASSUME GroupsMade, [SizingNext]_sizingVars PROVE GroupsMade'
    OBVIOUS
  <2>1. ASSUME UNCHANGED <<scenario, groups>>,
               phase \in {"planning", "checking", "building", "resolving", "agreed", "ready"}
        PROVE  GroupsMade'
    BY <2>1 DEF GroupsMade
  <2>2. CASE Refuse
    BY <2>2 DEF Refuse, GroupsMade
  <2>3. ASSUME NEW w \in Workers, NEW b \in Budgets, NEW g \in Graphs,
               DetermineAvailableMemory(w, b, g)
        PROVE  GroupsMade'
    <3>1. CASE ~Refuse
      <4>1. phase' \in {"profiling", "grouping"}
        BY <2>3, <3>1 DEF DetermineAvailableMemory
      <4>2. QED
        BY <4>1 DEF GroupsMade
    <3>2. QED
      BY <2>2, <3>1
  <2>4. CASE GroupLayers
    <3>1. CASE ~Refuse
      BY <2>4, <3>1 DEF GroupLayers, GroupsMade
    <3>2. QED
      BY <2>2, <3>1
  <2>5. CASE PlanMemory
    <3>1. CASE ~Refuse
      BY <2>1, <2>5, <3>1 DEF PlanMemory
    <3>2. QED
      BY <2>2, <3>1
  <2>6. CASE CheckMemory
    BY <2>1, <2>2, <2>6 DEF CheckMemory
  <2>7. CASE BuildConfigs
    BY <2>1, <2>2, <2>7 DEF BuildConfigs
  <2>8. ASSUME NEW w \in Workers, ResolveBlockSizes(w) PROVE GroupsMade'
    BY <2>1, <2>2, <2>8 DEF ResolveBlockSizes
  <2>9. ASSUME NEW w \in Workers, InitializeKvCache(w) PROVE GroupsMade'
    BY <2>1, <2>9 DEF InitializeKvCache
  <2>10. CASE UNCHANGED sizingVars
    BY <2>10 DEF sizingVars, GroupsMade
  <2>11. QED
    BY <2>3, <2>4, <2>5, <2>6, <2>7, <2>8, <2>9, <2>10 DEF SizingNext, Started
<1>3. QED
  BY <1>1, <1>2, PTL DEF SizingSpec

-----------------------------------------------------------------------------
\* A worker that keeps whole tuples, or a layout without tuples.
Countable(ps, gs) ==
  ~ (AllUniform(gs) /\ Len(gs) > 1) \/ PageSizes(ps[1].specs) = PageSizes(gs[1].specs)

\* A request of the longest length fits in the blocks of each worker.
LEMMA FitsOnEach ==
  ASSUME SizingInv, Agreed, groups # <<>>, NEW w \in Workers, Countable(Projected(w), groups)
  PROVE  /\ NumBlocks(Projected(w), avail[w]) \in Int
         /\ RequestPages(groups, maxLen) <= NumBlocks(Projected(w), avail[w])
         /\ RequestPages(groups, maxLen) \in Nat \ {0}
<1> DEFINE ps == Projected(w)
           mem == avail[w]
           n == maxLen
           own == scenario.owns[w]
<1>1. /\ IsShare(ps, groups, own, Layers) /\ HasLayers(ps, groups)
      /\ Len(groups) \in Nat \ {0} /\ scenario.override \in Nat /\ mem \in Int /\ n \in Nat \ {0}
      /\ scenario.override # 0 => mem = scenario.override * PoolBytesPerBlock(ps)
      /\ NeededBytes(ps, n) <= mem /\ Countable(ps, groups)
  BY AgreedWorker
<1> HIDE DEF ps, mem, n, own
<1>2. RequestPages(groups, n) \in Nat \ {0}
  BY <1>1, SharePages
<1>3. NumBlocks(ps, mem) \in Int /\ RequestPages(groups, n) <= NumBlocks(ps, mem)
  <2>1. CASE AllUniform(groups) /\ Len(groups) > 1
    BY <1>1, <2>1, FitsInPackedBlocks DEF Countable
  <2>2. CASE ~ (AllUniform(groups) /\ Len(groups) > 1)
    BY <1>1, <2>2, FitsInBlocks
  <2>3. QED
    BY <2>1, <2>2
<1>4. QED
  BY <1>2, <1>3 DEF ps, mem, n

\* And in the blocks they agree on.
LEMMA FitsOnAll ==
  ASSUME SizingInv, Agreed, groups # <<>>, \A w \in Workers : Countable(Projected(w), groups)
  PROVE  LeastBlocks \in Nat /\ RequestPages(groups, maxLen) <= LeastBlocks
         /\ RequestPages(groups, maxLen) \in Nat \ {0}
<1> DEFINE r == RequestPages(groups, maxLen)
           S == {Built(w).num : w \in Workers}
<1>1. ASSUME NEW w \in Workers PROVE Built(w).num \in Nat /\ r <= Built(w).num /\ r \in Nat \ {0}
  <2> DEFINE ps == Projected(w)
             mem == avail[w]
  <2>1. NumBlocks(ps, mem) \in Int /\ r <= NumBlocks(ps, mem) /\ r \in Nat \ {0}
    BY FitsOnEach
  <2>2. ps # <<>>
    <3>1. Len(groups) \in Nat \ {0} /\ Len(ps) = Len(groups)
      <4>1. Len(groups) \in Nat \ {0} /\ IsShare(ps, groups, scenario.owns[w], Layers)
        BY AgreedWorker
      <4>2. QED
        BY <4>1 DEF IsShare
    <3> HIDE DEF ps
    <3>2. QED
      BY <3>1
  <2>3. Built(w).num = NumBlocks(ps, mem)
    BY <2>2, ShrunkIs DEF Built
  <2> HIDE DEF ps, mem, r
  <2>4. QED
    BY <2>1, <2>3
<1>2. S \in SUBSET Nat
  BY <1>1
<1>3. PICK v \in Workers : TRUE
  BY SizingAssumption
<1>4. LeastBlocks = Min(S)
  BY DEF LeastBlocks
<1>5. Built(v).num \in S
  OBVIOUS
<1>6. \A x \in S : r <= x
  BY <1>1
<1> HIDE DEF S
<1>7. Min(S) \in S
  BY <1>2, <1>5, MinIs
<1>8. QED
  BY <1>1, <1>2, <1>3, <1>4, <1>6, <1>7

-----------------------------------------------------------------------------
\* It fits in its rows, and what the log reports fits.

\* The blocks a request holds in a group's row of the block table.
RowNeeded(s, n) == IF s.kind = "mamba" THEN PagesFor(s, n) ELSE CeilDiv(n, s.block)

\* A row is wide enough for a spec with as large a block, recurrent if its own is.
LEMMA RowIsWide ==
  ASSUME NEW s \in Specs, NEW t \in Specs, s.block = t.block,
         s.kind = "mamba" <=> t.kind = "mamba", maxLen \in Nat \ {0}
  PROVE  RowNeeded(s, maxLen) <= RowWidth(t)
<1> DEFINE n == maxLen
           b == t.block
           c == CeilDiv(n, b)
           k == 128 \div b
           aligned == IF b <= 128 THEN RoundUp(c, k) ELSE c
<1>1. n \in Nat \ {0} /\ b \in Nat \ {0} /\ SpecBlocks \in Nat
  BY SizingAssumption DEF Specs
<1>2. RowWidth(t) = IF t.kind = "mamba" THEN (IF scenario.caching THEN aligned ELSE 1) + SpecBlocks
                    ELSE aligned
  BY DEF RowWidth
<1>3. RowNeeded(s, n) = IF t.kind = "mamba" THEN 1 + SpecBlocks ELSE c
  <2>1. CASE t.kind = "mamba"
    <3>1. RowNeeded(s, n) = PagesFor(s, n) /\ s.kind = "mamba"
      BY <2>1 DEF RowNeeded
    <3>2. PagesFor(s, n) = 1 + SpecBlocks
      BY <3>1 DEF PagesFor, IsSliding
    <3>3. QED
      BY <2>1, <3>1, <3>2
  <2>2. CASE t.kind # "mamba"
    BY <2>2 DEF RowNeeded
  <2>3. QED
    BY <2>1, <2>2
<1> HIDE DEF n, b
<1>4. c \in Nat /\ c # 0
  BY <1>1, CeilIs
<1> HIDE DEF c
<1>5. aligned \in Nat /\ c <= aligned
  <2>1. CASE b <= 128
    <3>1. k \in Nat \ {0}
      <4>1. 1 <= 128 \div b <=> 1 * b <= 128
        BY <1>1, QuotientIs
      <4>2. 128 \div b \in Int
        BY <1>1, DivIs
      <4>3. QED
        BY <1>1, <2>1, <4>1, <4>2
    <3> HIDE DEF k
    <3> DEFINE d == CeilDiv(c, k)
    <3>2. d \in Nat /\ c <= d * k
      BY <1>4, <3>1, CeilIs
    <3>3. aligned = d * k
      BY <2>1 DEF RoundUp
    <3> HIDE DEF d, aligned
    <3>4. d * k \in Nat
      BY <3>1, <3>2, Times
    <3>5. QED
      BY <3>2, <3>3, <3>4
  <2>2. CASE ~ (b <= 128)
    BY <1>4, <2>2
  <2>3. QED
    BY <2>1, <2>2
<1> HIDE DEF aligned
<1>6. RowNeeded(s, n) <= RowWidth(t)
  BY <1>1, <1>2, <1>3, <1>4, <1>5
<1>7. QED
  BY <1>6 DEF n

\* A request's blocks fit the rows of the block tables.
LEMMA RowsAreWide ==
  ASSUME SizingInv, Agreed, groups # <<>>, NEW w \in Workers, NEW i \in DOMAIN tables[w]
  PROVE  RowNeeded(SpecOf(groups[i]), maxLen) <= tables[w][i]
<1>1. tables[w] = <<>> \/ tables[w] = Rows(w)
  BY DEF SizingInv, TablesMade, Agreed
<1>2. tables[w] = Rows(w)
  <2>1. DOMAIN <<>> = {}
    OBVIOUS
  <2>2. QED
    BY <1>1, <2>1
<1>3. i \in DOMAIN groups /\ tables[w][i] = RowWidth(SchedulerSpecs(w)[i])
  <2>1. Rows(w) = [j \in DOMAIN groups |-> RowWidth(SpecOf(configs[w].groups[j]))]
    BY DEF Rows
  <2>2. i \in DOMAIN groups
    BY <1>2, <2>1
  <2>3. SchedulerSpecs(w)[i] = SpecOf(configs[w].groups[i])
    BY <2>2 DEF SchedulerSpecs
  <2>4. QED
    BY <1>2, <2>1, <2>2, <2>3
<1> DEFINE g == groups[i]
           q == Projected(w)[i]
           t == SchedulerSpecs(w)[i]
           s == SpecOf(g)
<1>4. /\ t \in Values(q.specs) /\ t \in Specs
      /\ Layers \in SUBSET Nat /\ IsFiniteSet(Layers)
      /\ IsGroup(g, Layers) /\ Keeps(q, g) /\ Keeps(g, g)
  <2> DEFINE ps == Projected(w)
             own == scenario.owns[w]
  <2>1. configs[w].groups = ps /\ IsShare(ps, groups, own, Layers)
    BY AgreedIs
  <2> HIDE DEF ps, own
  <2>2. /\ DOMAIN groups = 1 .. Len(groups)
        /\ Layers \in SUBSET Nat /\ IsFiniteSet(Layers)
        /\ \A j \in 1 .. Len(groups) : /\ IsGroup(groups[j], Layers) /\ Keeps(ps[j], groups[j])
                                       /\ Keeps(groups[j], groups[j])
    BY <2>1, ShareKeeps
  <2>3. t \in Values(configs[w].groups[i].specs) /\ t \in Specs
    BY <1>3, AlikeEverywhere
  <2>4. QED
    BY <1>3, <2>1, <2>2, <2>3 DEF ps
<1> HIDE DEF g, q, t
<1>5. /\ Values(q.specs) \in SUBSET Values(g.specs) /\ Values(g.specs) \in SUBSET Specs
      /\ \A x, y \in Values(g.specs) : x.block = y.block /\ (x.kind = "mamba" <=> y.kind = "mamba")
  BY <1>4, PartSpecs
<1>6. s \in Values(g.specs)
  BY <1>4, PartSpecs
<1> HIDE DEF s
<1>7. s \in Specs /\ s.block = t.block /\ (s.kind = "mamba" <=> t.kind = "mamba")
  BY <1>4, <1>5, <1>6
<1>8. maxLen \in Nat \ {0}
  BY AgreedWorker
<1>9. RowNeeded(s, maxLen) <= RowWidth(t)
  BY <1>4, <1>7, <1>8, RowIsWide
<1>10. QED
  BY <1>3, <1>9 DEF s, t, g

-----------------------------------------------------------------------------
\* What the report takes a request to need: as many times a block of the first group.
LEMMA ReportedBytes ==
  ASSUME NEW ps, NEW gs, NEW own, NEW D, IsShare(ps, gs, own, D), Len(gs) # 0,
         ~ (AllUniform(gs) /\ Len(gs) > 1), NEW n \in Nat
  PROVE  /\ BlockBytes(ps[1]) \in Nat \ {0}
         /\ SumFunction([i \in DOMAIN ps |-> GroupPages(ps[i], n) * BlockBytes(ps[i])])
              = BlockBytes(ps[1]) * RequestPages(gs, n)
<1> DEFINE m == Len(gs)
           b == BlockBytes(ps[1])
           f == [i \in DOMAIN ps |-> GroupPages(ps[i], n)]
           g == [i \in DOMAIN ps |-> GroupPages(ps[i], n) * BlockBytes(ps[i])]
<1>1. m \in Nat /\ DOMAIN ps = 1 .. m /\ 1 \in 1 .. m
  BY ShareKeeps
<1>2. PageSize(SpecOf(ps[1])) \in Nat \ {0} /\ AllPages(ps[1]) \in Nat \ {0}
  BY BytesAre
<1>3. b \in Nat \ {0}
  BY <1>2 DEF BlockBytes
<1>4. \A i \in 1 .. m : BlockBytes(ps[i]) = b
  <2>1. CASE AllUniform(gs)
    <3>1. m = 1
      <4>1. ~ (m > 1)
        BY <2>1
      <4> HIDE DEF m
      <4>2. QED
        BY <1>1, <4>1
    <3>2. \A i \in 1 .. m : i = 1
      BY <3>1
    <3>3. QED
      BY <3>2
  <2>2. CASE ~AllUniform(gs)
    <3> DEFINE page == PageSize(SpecOf(ps[1]))
    <3>1. PageOfAll(ps, gs, page)
      BY <2>2, PlainShare
    <3>2. \A i \in 1 .. m : ~ps[i].uniform /\ PageSize(SpecOf(ps[i])) = page
      BY <3>1 DEF PageOfAll
    <3>3. \A i \in 1 .. m : BlockBytes(ps[i]) = page
      BY <3>2 DEF BlockBytes
    <3>4. QED
      BY <1>1, <3>3
  <2>3. QED
    BY <2>1, <2>2
<1>5. /\ \A i \in 1 .. m : GroupPages(ps[i], n) \in Nat
      /\ RequestPages(ps, n) = RequestPages(gs, n)
  <2>1. /\ \A i \in 1 .. m : /\ GroupPages(ps[i], n) = GroupPages(gs[i], n)
                             /\ GroupPages(gs[i], n) \in Nat
                             /\ n # 0 => GroupPages(gs[i], n) # 0
        /\ RequestPages(ps, n) = RequestPages(gs, n)
    BY SharePages
  <2>2. QED
    BY <2>1
<1>6. RequestPages(ps, n) = SumFunction(f)
  BY DEF RequestPages
<1> HIDE DEF m, b
<1>7. DOMAIN f = 1 .. m /\ DOMAIN g = DOMAIN f /\ IsFiniteSet(1 .. m)
  <2>1. IsFiniteSet(1 .. m)
    BY <1>1, FS_Interval
  <2>2. QED
    BY <1>1, <2>1
<1>8. \A i \in DOMAIN f : f[i] \in Int /\ g[i] = b * f[i]
  <2> SUFFICES ASSUME NEW i \in 1 .. m PROVE f[i] \in Int /\ g[i] = b * f[i]
    BY <1>7
  <2> DEFINE x == GroupPages(ps[i], n)
  <2>1. x \in Int /\ f[i] = x /\ g[i] = x * b
    BY <1>1, <1>4, <1>5
  <2> HIDE DEF x, f, g
  <2>2. x * b = b * x
    BY <1>3, <2>1, Times
  <2>3. QED
    BY <2>1, <2>2
<1> HIDE DEF f, g
<1>9. SumFunction(g) = b * SumFunction(f)
  <2>1. IsFiniteSet(DOMAIN f) /\ DOMAIN g = DOMAIN f /\ b \in Int
    BY <1>3, <1>7
  <2>2. QED
    BY <1>8, <2>1, SumScaled
<1>10. QED
  BY <1>3, <1>5, <1>6, <1>9 DEF b, g

\* The requests of the longest length that the log reports fit in the blocks together.
LEMMA ReportIsTrue ==
  ASSUME SizingInv, Agreed, groups # <<>>, ~ (AllUniform(groups) /\ Len(groups) > 1),
         NEW w \in Workers, LeastBlocks \in Nat, RequestPages(groups, maxLen) \in Nat \ {0}
  PROVE  Reported(configs[w]) * RequestPages(groups, maxLen) <= LeastBlocks
<1> DEFINE ps == Projected(w)
           own == scenario.owns[w]
           c == configs[w]
           n == maxLen
           r == RequestPages(groups, n)
           b == BlockBytes(ps[1])
           k == GroupSize(ps)
           bytes == SumFunction([i \in DOMAIN ps |-> GroupPages(ps[i], n) * BlockBytes(ps[i])])
           num == LeastBlocks
<1>1. /\ IsShare(ps, groups, own, Layers) /\ HasLayers(ps, groups)
      /\ Len(groups) \in Nat \ {0} /\ n \in Nat \ {0}
  BY AgreedWorker
<1>2. c.num = num /\ c.groups = ps
  BY AgreedIs
<1>3. Reported(c) = num \div CeilDiv(k * bytes, b * k)
  BY <1>2 DEF Reported
<1> HIDE DEF ps, own, c, n, num
<1>4. b \in Nat \ {0} /\ bytes = b * r
  BY <1>1, ReportedBytes
<1>5. k \in Nat \ {0}
  <2>1. /\ k \in Nat
        /\ \A i \in 1 .. Len(groups) : Len(ps[i].layers) \in Nat /\ Len(ps[i].layers) <= k
    BY <1>1, GroupSizeOfShare
  <2>2. PICK i \in 1 .. Len(groups) : ToSet(ps[i].layers) # {}
    BY <1>1 DEF HasLayers
  <2> DEFINE g == groups[i]
             q == ps[i]
  <2>3. /\ Layers \in SUBSET Nat /\ IsFiniteSet(Layers)
        /\ IsGroup(g, Layers) /\ IsProjection(q, g, own) /\ ToSet(q.layers) # {}
    BY <1>1, <2>2, ShareKeeps
  <2>4. Len(q.layers) \in Nat /\ Len(q.layers) <= k
    BY <2>1
  <2> HIDE DEF g, q, k
  <2>5. Len(q.layers) # 0
    BY <2>3, PartLayers
  <2>6. QED
    BY <2>1, <2>4, <2>5
<1>6. r \in Nat \ {0} /\ num \in Nat
  BY DEF n, num
<1> HIDE DEF b, k, bytes, r
<1>7. CeilDiv(k * bytes, b * k) = r
  <2> DEFINE x == b * k
             y == k * bytes
             d == CeilDiv(y, x)
  <2>1. x \in Nat \ {0}
    BY <1>4, <1>5, Times
  <2>2. y = r * x
    <3>1. k * (b * r) = (k * b) * r /\ k * b = b * k /\ x * r = r * x
      BY <1>4, <1>5, <1>6, <2>1, Times
    <3>2. QED
      BY <1>4, <3>1
  <2>3. y \in Nat
    BY <1>6, <2>1, <2>2, Times
  <2> HIDE DEF x, y
  <2>4. /\ d \in Nat
        /\ \A j \in Int : j <= d <=> (j - 1) * x < y
    BY <2>1, <2>3, CeilIs
  <2>5. r <= d
    <3>1. (r - 1) * x < y
      <4>1. (r - 1) * x = r * x - 1 * x /\ 1 * x = x /\ r * x \in Int
        BY <1>6, <2>1, Times
      <4>2. QED
        BY <2>1, <2>2, <4>1
    <3>2. QED
      BY <1>6, <2>4, <3>1
  <2>6. ~ (r + 1 <= d)
    <3> DEFINE j == r + 1
    <3>1. j \in Int /\ j - 1 = r
      BY <1>6
    <3> HIDE DEF j
    <3>2. ~ ((j - 1) * x < y)
      <4>1. r * x \in Int
        BY <2>2, <2>3
      <4>2. QED
        BY <2>2, <3>1, <4>1
    <3>3. ~ (j <= d)
      BY <2>4, <3>1, <3>2
    <3>4. QED
      BY <3>3 DEF j
  <2>7. d = r
    <3> HIDE DEF d
    <3>1. QED
      BY <1>6, <2>4, <2>5, <2>6
  <2>8. QED
    BY <2>7 DEF x, y
<1>8. (num \div r) * r <= num
  <2>1. r * (num \div r) <= num /\ num \div r \in Int
    BY <1>6, DivIs
  <2>2. (num \div r) * r = r * (num \div r)
    BY <1>6, <2>1, Times
  <2>3. QED
    BY <2>1, <2>2
<1>9. Reported(c) * r <= num
  BY <1>3, <1>7, <1>8
<1>10. QED
  BY <1>9 DEF c, r, n, num

-----------------------------------------------------------------------------
\* A request of max_model_len tokens fits in the blocks the workers agree on, its blocks fit
\* the rows of the block tables, and as many such requests as the log reports fit at once,
\* wherever each pipeline stage keeps whole layer tuples (_check_enough_kv_cache_memory,
\* BlockTable, get_max_concurrency_for_kv_cache_config).
THEOREM AdmittedFits ==
  SizingSpec => [](KeepsTuples(scenario) => AdmittedRequestFits)
<1>1. SizingInv /\ GroupsMade => (KeepsTuples(scenario) => AdmittedRequestFits)
  <2> SUFFICES ASSUME SizingInv, GroupsMade, KeepsTuples(scenario), Agreed, groups # <<>>,
                      NEW w \in Workers
               PROVE  LET pages == RequestPages(groups, maxLen)
                          row(s) == IF s.kind = "mamba" THEN PagesFor(s, maxLen)
                                    ELSE CeilDiv(maxLen, s.block)
                      IN /\ pages <= configs[w].num
                         /\ \A i \in DOMAIN tables[w] : row(SpecOf(groups[i])) <= tables[w][i]
                         /\ ~ (AllUniform(groups) /\ Len(groups) > 1) =>
                              Reported(configs[w]) * pages <= configs[w].num
    BY DEF AdmittedRequestFits
  <2>1. ASSUME NEW v \in Workers PROVE Countable(Projected(v), groups)
    <3> SUFFICES ASSUME AllUniform(groups), Len(groups) > 1
                 PROVE  PageSizes(Projected(v)[1].specs) = PageSizes(groups[1].specs)
      BY DEF Countable
    <3>1. /\ scenario \in Scenarios /\ groups = ModelGroups(scenario)
          /\ ModelGroups(scenario) # Refused
      BY AgreedIs DEF GroupsMade, Agreed
    <3>2. PageSizes(Project(groups[1], scenario.owns[v]).specs) = PageSizes(groups[1].specs)
      BY <3>1 DEF KeepsTuples
    <3>3. Projected(v)[1] = Project(groups[1], scenario.owns[v])
      <4>1. 1 \in DOMAIN groups
        <5>1. GroupsOK(groups, Layers)
          BY AgreedIs
        <5>2. DOMAIN groups = 1 .. Len(groups) /\ Len(groups) \in Nat
          BY <5>1 DEF GroupsOK, Apart
        <5>3. QED
          BY <5>2
      <4>2. QED
        BY <4>1 DEF Projected
    <3>4. QED
      BY <3>2, <3>3
  <2>2. /\ LeastBlocks \in Nat /\ RequestPages(groups, maxLen) <= LeastBlocks
        /\ RequestPages(groups, maxLen) \in Nat \ {0}
    BY <2>1, FitsOnAll
  <2>3. configs[w].num = LeastBlocks
    BY AgreedIs
  <2>4. \A i \in DOMAIN tables[w] : RowNeeded(SpecOf(groups[i]), maxLen) <= tables[w][i]
    BY RowsAreWide
  <2>5. ~ (AllUniform(groups) /\ Len(groups) > 1) =>
          Reported(configs[w]) * RequestPages(groups, maxLen) <= LeastBlocks
    BY <2>2, ReportIsTrue
  <2>6. QED
    BY <2>2, <2>3, <2>4, <2>5 DEF RowNeeded
<1>2. QED
  BY <1>1, SizingInvariance, GroupsStay, PTL

-----------------------------------------------------------------------------
\* Sums over parts, and sums renamed.

\* A sum is settled by its terms.
LEMMA SumAgrees ==
  ASSUME NEW D, IsFiniteSet(D), NEW f, NEW g, \A x \in D : f[x] \in Int /\ g[x] = f[x]
  PROVE  \A s \in SUBSET D : SumOn(g, s) = SumOn(f, s)
<1> DEFINE F == {s \in SUBSET D : SumOn(g, s) = SumOn(f, s)}
<1>1. (\A x \in D : f[x] \in Int) /\ (\A x \in D : g[x] \in Int)
  OBVIOUS
<1>2. /\ SumOn(f, {}) = 0 /\ SumOn(g, {}) = 0
      /\ \A s \in SUBSET D : s # {} => SumOn(f, s) = f[Pick(s)] + SumOn(f, s \ {Pick(s)})
      /\ \A s \in SUBSET D : s # {} => SumOn(g, s) = g[Pick(s)] + SumOn(g, s \ {Pick(s)})
  BY <1>1, SumByPick
<1>3. {} \in F
  BY <1>2
<1>4. ASSUME NEW s \in SUBSET D, s # {}, s \ {Pick(s)} \in F PROVE s \in F
  <2>1. Pick(s) \in D
    BY <1>4 DEF Pick
  <2>2. g[Pick(s)] = f[Pick(s)]
    BY <2>1
  <2>3. QED
    BY <1>2, <1>4, <2>2
<1> HIDE DEF F
<1>5. \A s \in SUBSET D : s \in F
  BY <1>3, <1>4, PickInduction
<1>6. QED
  BY <1>5 DEF F

\* A sum over two parts.
LEMMA SumOfTwo ==
  ASSUME NEW D, IsFiniteSet(D), NEW f, \A x \in D : f[x] \in Int,
         NEW A \in SUBSET D, NEW B \in SUBSET D, A \cap B = {}
  PROVE  SumOn(f, A \cup B) = SumOn(f, A) + SumOn(f, B)
<1> DEFINE F == {s \in SUBSET A : SumOn(f, s \cup B) = SumOn(f, s) + SumOn(f, B)}
<1>1. IsFiniteSet(A)
  BY FS_Subset
<1>2. /\ SumOn(f, {}) = 0
      /\ \A s \in SUBSET D : SumOn(f, s) \in Int
  BY SumByPick
<1>3. \A s \in SUBSET D : \A x \in s : SumOn(f, s) = f[x] + SumOn(f, s \ {x})
  BY SumStep
<1>4. {} \in F
  <2>1. ({}) \cup B = B /\ SumOn(f, B) \in Int
    BY <1>2
  <2>2. QED
    BY <1>2, <2>1
<1>5. ASSUME NEW s \in SUBSET A, s # {}, s \ {Pick(s)} \in F PROVE s \in F
  <2> DEFINE x == Pick(s)
             t == s \ {x}
  <2>1. x \in s /\ x \in A /\ x \notin B /\ s \in SUBSET D /\ t \in SUBSET D
    BY <1>5 DEF Pick
  <2>2. SumOn(f, s) = f[x] + SumOn(f, t)
    BY <1>3, <2>1
  <2>3. SumOn(f, s \cup B) = f[x] + SumOn(f, t \cup B)
    <3>1. (s \cup B) \ {x} = t \cup B /\ s \cup B \in SUBSET D /\ x \in s \cup B
      BY <2>1
    <3>2. SumOn(f, s \cup B) = f[x] + SumOn(f, (s \cup B) \ {x})
      BY <1>3, <3>1
    <3>3. QED
      BY <3>1, <3>2
  <2>4. SumOn(f, t \cup B) = SumOn(f, t) + SumOn(f, B)
    BY <1>5
  <2>5. f[x] \in Int /\ SumOn(f, t) \in Int /\ SumOn(f, B) \in Int
    BY <1>2, <2>1
  <2>6. SumOn(f, s \cup B) = SumOn(f, s) + SumOn(f, B)
    <3> DEFINE a == f[x]
               b == SumOn(f, t)
               c == SumOn(f, B)
               d == SumOn(f, s)
               e == SumOn(f, s \cup B)
    <3>1. e = a + (b + c) /\ d = a + b /\ a \in Int /\ b \in Int /\ c \in Int
      BY <2>2, <2>3, <2>4, <2>5
    <3> HIDE DEF a, b, c, d, e, x, t
    <3>2. e = d + c
      BY <3>1
    <3>3. QED
      BY <3>2 DEF c, d, e
  <2>7. QED
    BY <2>6
<1> HIDE DEF F
<1>6. \A s \in SUBSET A : s \in F
  BY <1>1, <1>4, <1>5, PickInduction
<1>7. A \in F
  BY <1>6
<1>8. QED
  BY <1>7 DEF F

\* A sum of equal terms.
LEMMA SumOfEqual ==
  ASSUME NEW D, IsFiniteSet(D), NEW c \in Int, NEW f, \A x \in D : f[x] = c
  PROVE  SumOn(f, D) = Cardinality(D) * c
<1> DEFINE F == {s \in SUBSET D : SumOn(f, s) = Cardinality(s) * c}
<1>1. \A x \in D : f[x] \in Int
  OBVIOUS
<1>2. /\ SumOn(f, {}) = 0
      /\ \A s \in SUBSET D : s # {} => SumOn(f, s) = f[Pick(s)] + SumOn(f, s \ {Pick(s)})
  BY <1>1, SumByPick
<1>3. {} \in F
  <2>1. Cardinality({}) = 0 /\ 0 * c = 0
    BY FS_EmptySet
  <2>2. QED
    BY <1>2, <2>1
<1>4. ASSUME NEW s \in SUBSET D, s # {}, s \ {Pick(s)} \in F PROVE s \in F
  <2> DEFINE x == Pick(s)
             t == s \ {x}
             k == Cardinality(t)
             n == Cardinality(s)
  <2>1. x \in s
    BY <1>4 DEF Pick
  <2>2. n = k + 1 /\ k \in Nat
    <3>1. IsFiniteSet(s)
      BY FS_Subset
    <3>2. IsFiniteSet(t) /\ k = n - 1
      BY <2>1, <3>1, FS_RemoveElement
    <3>3. n \in Nat /\ k \in Nat
      BY <3>1, <3>2, FS_CardinalityType
    <3> HIDE DEF n, k
    <3>4. QED
      BY <3>2, <3>3
  <2>3. SumOn(f, s) = c + SumOn(f, t)
    BY <1>2, <1>4, <2>1
  <2>4. SumOn(f, t) = k * c
    BY <1>4
  <2> HIDE DEF t, k, n
  <2>5. c + k * c = (k + 1) * c
    <3>1. (k + 1) * c = k * c + 1 * c /\ 1 * c = c /\ k * c \in Int
      BY <2>2, Times
    <3>2. QED
      BY <3>1
  <2>6. SumOn(f, s) = n * c
    BY <2>2, <2>3, <2>4, <2>5
  <2>7. QED
    BY <2>6 DEF n
<1> HIDE DEF F
<1>5. \A s \in SUBSET D : s \in F
  BY <1>3, <1>4, PickInduction
<1>6. D \in F
  BY <1>5
<1>7. QED
  BY <1>6 DEF F

\* b names each x of D by an element of E, no two alike, and each element of E is a name.
IsNaming(b, D, E) ==
  /\ \A x \in D : b[x] \in E
  /\ \A x, y \in D : b[x] = b[y] => x = y
  /\ \A e \in E : \E x \in D : b[x] = e

Named(b, s) == {b[x] : x \in s}

\* A sum over other names.
LEMMA SumRenamed ==
  ASSUME NEW D, IsFiniteSet(D), NEW E, NEW b, IsNaming(b, D, E), NEW f, NEW g,
         \A x \in D : g[x] = f[b[x]], \A e \in E : f[e] \in Int
  PROVE  SumOn(g, D) = SumOn(f, E)
<1> DEFINE F == {s \in SUBSET D : SumOn(g, s) = SumOn(f, Named(b, s))}
<1>1. IsFiniteSet(E)
  BY FiniteImage DEF IsNaming
<1>2. (\A x \in D : g[x] \in Int) /\ (\A e \in E : f[e] \in Int)
  BY DEF IsNaming
<1>3. /\ SumOn(g, {}) = 0 /\ SumOn(f, {}) = 0
      /\ \A s \in SUBSET D : s # {} => SumOn(g, s) = g[Pick(s)] + SumOn(g, s \ {Pick(s)})
  BY <1>1, <1>2, SumByPick
<1>4. \A s \in SUBSET E : \A e \in s : SumOn(f, s) = f[e] + SumOn(f, s \ {e})
  BY <1>1, <1>2, SumStep, ZenonT(60)
<1>5. {} \in F
  <2>1. Named(b, {}) = {}
    BY DEF Named
  <2>2. QED
    BY <1>3, <2>1
<1>6. ASSUME NEW s \in SUBSET D, s # {}, s \ {Pick(s)} \in F PROVE s \in F
  <2> DEFINE x == Pick(s)
             t == s \ {x}
  <2>1. x \in s /\ x \in D
    BY <1>6 DEF Pick
  <2>2. Named(b, s) \in SUBSET E /\ b[x] \in Named(b, s) /\ Named(b, s) \ {b[x]} = Named(b, t)
    <3>1. \A y \in s : b[y] \in E /\ (b[y] = b[x] => y = x)
      BY <2>1 DEF IsNaming
    <3>2. QED
      BY <2>1, <3>1 DEF Named
  <2>3. SumOn(f, Named(b, s)) = f[b[x]] + SumOn(f, Named(b, t))
    <3> DEFINE m == Named(b, s)
               e == b[x]
    <3> HIDE DEF m, e
    <3>1. SumOn(f, m) = f[e] + SumOn(f, m \ {e})
      BY <1>4, <2>2 DEF m, e
    <3>2. QED
      BY <2>2, <3>1 DEF m, e
  <2>4. SumOn(g, s) = g[x] + SumOn(g, t) /\ g[x] = f[b[x]]
    BY <1>3, <1>6, <2>1
  <2>5. QED
    BY <1>6, <2>3, <2>4
<1> HIDE DEF F
<1>7. \A s \in SUBSET D : s \in F
  BY <1>5, <1>6, PickInduction
<1>8. D \in F
  BY <1>7
<1>9. Named(b, D) = E
  BY DEF Named, IsNaming
<1>10. QED
  BY <1>8, <1>9 DEF F

\* The elements of the parts in A that s names.
Together(A, s) == UNION {A[i] : i \in s}

\* A sum part by part.
LEMMA SumOfParts ==
  ASSUME NEW I, IsFiniteSet(I), NEW D, IsFiniteSet(D), NEW A, \A i \in I : A[i] \in SUBSET D,
         \A i, j \in I : i # j => A[i] \cap A[j] = {},
         NEW f, \A x \in D : f[x] \in Int, NEW h, \A i \in I : h[i] = SumOn(f, A[i])
  PROVE  SumOn(f, Together(A, I)) = SumOn(h, I)
<1> DEFINE F == {s \in SUBSET I : SumOn(f, Together(A, s)) = SumOn(h, s)}
<1>1. /\ SumOn(f, {}) = 0
      /\ \A s \in SUBSET D : SumOn(f, s) \in Int
  BY SumByPick
<1>2. \A i \in I : h[i] \in Int
  BY <1>1
<1>3. /\ SumOn(h, {}) = 0
      /\ \A s \in SUBSET I : s # {} => SumOn(h, s) = h[Pick(s)] + SumOn(h, s \ {Pick(s)})
  BY <1>2, SumByPick
<1>4. {} \in F
  <2>1. Together(A, {}) = {}
    BY DEF Together
  <2>2. QED
    BY <1>1, <1>3, <2>1
<1>5. ASSUME NEW s \in SUBSET I, s # {}, s \ {Pick(s)} \in F PROVE s \in F
  <2> DEFINE i == Pick(s)
             t == s \ {i}
             B == Together(A, t)
  <2>1. i \in s /\ i \in I
    BY <1>5 DEF Pick
  <2>2. A[i] \in SUBSET D /\ B \in SUBSET D /\ A[i] \cap B = {} /\ Together(A, s) = A[i] \cup B
    <3>1. \A j \in t : j \in I /\ A[j] \in SUBSET D /\ A[i] \cap A[j] = {}
      BY <2>1
    <3>2. B \in SUBSET D /\ A[i] \cap B = {}
      BY <3>1 DEF Together
    <3>3. Together(A, s) = A[i] \cup B
      <4>1. s = t \cup {i}
        BY <2>1
      <4>2. QED
        BY <4>1 DEF Together
    <3>4. QED
      BY <2>1, <3>2, <3>3
  <2> HIDE DEF B
  <2>3. SumOn(f, A[i] \cup B) = SumOn(f, A[i]) + SumOn(f, B)
    <3> DEFINE C == A[i]
    <3>1. C \in SUBSET D /\ B \in SUBSET D /\ C \cap B = {}
      BY <2>2
    <3> HIDE DEF C
    <3>2. SumOn(f, C \cup B) = SumOn(f, C) + SumOn(f, B)
      BY <3>1, SumOfTwo
    <3>3. QED
      BY <3>2 DEF C
  <2>4. SumOn(f, B) = SumOn(h, t)
    BY <1>5 DEF B
  <2>5. SumOn(h, s) = h[i] + SumOn(h, t) /\ h[i] = SumOn(f, A[i])
    BY <1>3, <1>5, <2>1
  <2>6. QED
    BY <2>2, <2>3, <2>4, <2>5
<1> HIDE DEF F
<1>6. \A s \in SUBSET I : s \in F
  BY <1>4, <1>5, PickInduction
<1>7. I \in F
  BY <1>6
<1>8. QED
  BY <1>7 DEF F

\* Parts with no element in common have as many elements as their union.
LEMMA CountedByParts ==
  ASSUME NEW I, IsFiniteSet(I), NEW D, IsFiniteSet(D), NEW A, \A i \in I : A[i] \in SUBSET D,
         \A i, j \in I : i # j => A[i] \cap A[j] = {},
         NEW h, \A i \in I : h[i] = Cardinality(A[i])
  PROVE  SumOn(h, I) = Cardinality(Together(A, I))
<1> DEFINE f == [x \in D |-> 1]
           U == Together(A, I)
<1>1. \A s \in SUBSET D : SumOn(f, s) = Cardinality(s)
  <2> SUFFICES ASSUME NEW s \in SUBSET D PROVE SumOn(f, s) = Cardinality(s)
    OBVIOUS
  <2>1. IsFiniteSet(s) /\ Cardinality(s) \in Nat
    BY FS_Subset, FS_CardinalityType
  <2>2. \A x \in s : f[x] = 1
    OBVIOUS
  <2> HIDE DEF f
  <2>3. SumOn(f, s) = Cardinality(s) * 1
    BY <2>1, <2>2, SumOfEqual
  <2>4. QED
    BY <2>1, <2>3
<1>2. U \in SUBSET D
  BY DEF Together
<1>3. \A x \in D : f[x] \in Int
  OBVIOUS
<1> HIDE DEF f, U
<1>4. \A i \in I : h[i] = SumOn(f, A[i])
  BY <1>1
<1>5. SumOn(f, Together(A, I)) = SumOn(h, I)
  BY <1>3, <1>4, SumOfParts
<1>6. QED
  BY <1>1, <1>2, <1>5 DEF U

-----------------------------------------------------------------------------
\* Every layer of a worker is in one group, and the blocks of all take its memory.

\* A worker's layers in groups: no two groups have one in common, and all are its own.
LEMMA LayersApart ==
  ASSUME NEW ps, NEW gs, NEW own, NEW D, IsShare(ps, gs, own, D)
  PROVE  /\ \A i \in 1 .. Len(gs) : ToSet(ps[i].layers) \in SUBSET own
         /\ \A i, j \in 1 .. Len(gs) : i # j => ToSet(ps[i].layers) \cap ToSet(ps[j].layers) = {}
<1>1. /\ DOMAIN gs = 1 .. Len(gs)
      /\ \A i \in 1 .. Len(gs) : IsProjection(ps[i], gs[i], own)
  BY ShareKeeps
<1>2. \A i, j \in 1 .. Len(gs) : i # j => DOMAIN gs[i].specs \cap DOMAIN gs[j].specs = {}
  BY <1>1 DEF IsShare, GroupsOK, Apart
<1>3. \A i \in 1 .. Len(gs) : ToSet(ps[i].layers) = DOMAIN gs[i].specs \cap own
  BY <1>1 DEF IsProjection
<1>4. QED
  BY <1>2, <1>3, ZenonT(60)

\* Every layer of a worker is in a group, and every layer in a group is the worker's.
LEMMA LayersCovered ==
  ASSUME SizingInv, Agreed, NEW w \in Workers
  PROVE  UNION {ToSet(g.layers) : g \in ToSet(configs[w].groups)} = scenario.owns[w]
<1> DEFINE ps == Projected(w)
           own == scenario.owns[w]
           I == 1 .. Len(groups)
           A == [i \in I |-> ToSet(ps[i].layers)]
           h == [i \in DOMAIN groups |-> Len(ps[i].layers)]
           U == Together(A, I)
<1>1. configs[w].groups = ps /\ IsShare(ps, groups, own, Layers) /\ scenario \in Scenarios
  BY AgreedIs
<1>2. IsFiniteSet(own)
  <2>1. own \in SUBSET Layers /\ IsFiniteSet(Layers)
    BY <1>1, ScenarioIs DEF Layers
  <2>2. QED
    BY <2>1, FS_Subset
<1>3. SumFunction(h) = Cardinality(own)
  BY DEF SizingInv, ConfigsBuilt, Agreed, LayersOn
<1> HIDE DEF ps, own
<1>4. /\ Len(groups) \in Nat /\ DOMAIN groups = I /\ DOMAIN ps = I
      /\ Layers \in SUBSET Nat /\ IsFiniteSet(Layers)
      /\ \A i \in I : IsGroup(groups[i], Layers) /\ IsProjection(ps[i], groups[i], own)
  BY <1>1, ShareKeeps
<1>5. IsFiniteSet(I)
  BY <1>4, FS_Interval
<1> HIDE DEF I
<1>6. \A i \in I : A[i] = ToSet(ps[i].layers)
  OBVIOUS
<1> HIDE DEF A
<1>7. /\ \A i \in I : A[i] \in SUBSET own
      /\ \A i, j \in I : i # j => A[i] \cap A[j] = {}
  <2>1. /\ \A i \in 1 .. Len(groups) : ToSet(ps[i].layers) \in SUBSET own
        /\ \A i, j \in 1 .. Len(groups) :
             i # j => ToSet(ps[i].layers) \cap ToSet(ps[j].layers) = {}
    BY <1>1, LayersApart
  <2>2. QED
    BY <1>6, <2>1 DEF I
<1>8. DOMAIN h = I /\ \A i \in I : h[i] = Len(ps[i].layers)
  BY <1>4
<1> HIDE DEF h
<1>9. \A i \in I : h[i] = Cardinality(A[i])
  <2> SUFFICES ASSUME NEW i \in I PROVE Len(ps[i].layers) = Cardinality(ToSet(ps[i].layers))
    BY <1>6, <1>8
  <2> DEFINE g == groups[i]
             q == ps[i]
  <2>1. IsGroup(g, Layers) /\ IsProjection(q, g, own)
    BY <1>4
  <2> HIDE DEF g, q
  <2>2. Len(q.layers) = Cardinality(ToSet(q.layers))
    BY <1>4, <2>1, PartLayers
  <2>3. QED
    BY <2>2 DEF q
<1>10. SumOn(h, I) = Cardinality(U)
  BY <1>2, <1>5, <1>7, <1>9, CountedByParts
<1>11. Cardinality(U) = Cardinality(own)
  BY <1>3, <1>8, <1>10 DEF SumOn, SumFunction
<1>12. U \in SUBSET own
  BY <1>7 DEF Together
<1>13. U = own
  BY <1>2, <1>11, <1>12, FS_Subset
<1>14. UNION {ToSet(g.layers) : g \in ToSet(ps)} = U
  <2>1. ToSet(ps) = {ps[i] : i \in I}
    BY <1>4 DEF ToSet
  <2>2. QED
    BY <1>6, <2>1 DEF Together
<1>15. QED
  BY <1>1, <1>13, <1>14 DEF own

\* What is known beyond AgreedWorker of a worker whose configuration is built.
LEMMA BlocksOnAll ==
  ASSUME SizingInv, Agreed, groups # <<>>, NEW w \in Workers
  PROVE  /\ NumBlocks(Projected(w), avail[w]) \in Nat \ {0}
         /\ LeastBlocks \in Nat \ {0} /\ LeastBlocks <= NumBlocks(Projected(w), avail[w])
         /\ Built(w).num = NumBlocks(Projected(w), avail[w])
         /\ Projected(w) # <<>>
         /\ NumBlocks(Projected(w), avail[w]) * PoolBytesPerBlock(Projected(w)) <= avail[w]
         /\ PoolBytesPerBlock(Projected(w)) \in Nat \ {0}
<1>1. ASSUME NEW v \in Workers
      PROVE  /\ NumBlocks(Projected(v), avail[v]) \in Nat \ {0}
             /\ Built(v).num = NumBlocks(Projected(v), avail[v])
             /\ Projected(v) # <<>>
             /\ NumBlocks(Projected(v), avail[v]) * PoolBytesPerBlock(Projected(v)) <= avail[v]
             /\ PoolBytesPerBlock(Projected(v)) \in Nat \ {0}
  <2> DEFINE ps == Projected(v)
             mem == avail[v]
             own == scenario.owns[v]
             o == scenario.override
             pool == PoolBytesPerBlock(ps)
             num == NumBlocks(ps, mem)
  <2>1. /\ IsShare(ps, groups, own, Layers) /\ HasLayers(ps, groups)
        /\ Len(groups) \in Nat \ {0} /\ o \in Nat /\ mem \in Int /\ mem > 0
        /\ o # 0 => mem = o * pool
    BY AgreedWorker
  <2>2. Built(v).num # 0
    BY DEF SizingInv, ConfigsBuilt, Agreed
  <2>3. Len(ps) = Len(groups)
    BY <2>1 DEF IsShare
  <2>4. ps # <<>>
    <3> HIDE DEF ps
    <3>1. QED
      BY <2>1, <2>3
  <2>5. Built(v).num = num
    BY <2>4, ShrunkIs DEF Built
  <2> HIDE DEF ps, mem, own
  <2>6. pool \in Nat \ {0} /\ num = IF o # 0 THEN o ELSE mem \div pool
    <3>1. CASE ~ (AllUniform(groups) /\ Len(groups) > 1)
      BY <2>1, <3>1, LayoutIs
    <3>2. CASE AllUniform(groups) /\ Len(groups) > 1
      <4>1. AllUniform(ps) /\ ~SingleUniform(ps) /\ Packed(ps)
        <5>1. AllUniform(ps) /\ (SingleUniform(ps) <=> SingleUniform(groups))
          BY <2>1, <3>2, ShareLayout
        <5>2. ~SingleUniform(groups)
          <6> DEFINE m == Len(groups)
          <6>1. m \in Nat /\ m > 1
            BY <2>1, <3>2
          <6> HIDE DEF m
          <6>2. m # 1
            BY <6>1
          <6>3. QED
            BY <6>2 DEF SingleUniform, m
        <5>3. QED
          BY <5>1, <5>2 DEF Packed
      <4>2. PackedBytes(ps) \in Nat \ {0}
        <5>1. PICK i \in 1 .. Len(groups) : ToSet(ps[i].layers) # {}
          BY <2>1 DEF HasLayers
        <5>2. PagesIn(ps) # {}
          BY <2>1, <5>1, SharePagesIn
        <5>3. QED
          BY <2>1, <5>2, PackedIs
      <4>3. pool = PackedBytes(ps)
        BY <4>1 DEF PoolBytesPerBlock
      <4>4. num = IF o # 0 THEN o ELSE mem \div PackedBytes(ps)
        <5>1. CASE o # 0
          BY <5>1 DEF NumBlocks
        <5>2. CASE o = 0
          BY <4>1, <5>2 DEF NumBlocks
        <5>3. QED
          BY <5>1, <5>2
      <4>5. QED
        BY <4>2, <4>3, <4>4
    <3>3. QED
      BY <3>1, <3>2
  <2>7. num \in Nat /\ num * pool <= mem
    <3> HIDE DEF o, pool, num
    <3>1. CASE o # 0
      <4>1. num = o /\ mem = o * pool
        BY <2>1, <2>6, <3>1
      <4>2. QED
        BY <2>1, <4>1
    <3>2. CASE o = 0
      <4>1. num = mem \div pool /\ num \in Nat /\ pool * num <= mem
        <5>1. mem \in Nat /\ mem \in Int
          BY <2>1
        <5>2. mem \div pool \in Nat /\ pool * (mem \div pool) <= mem
          BY <2>6, <5>1, DivIs
        <5>3. num = mem \div pool
          BY <2>6, <3>2
        <5>4. QED
          BY <5>2, <5>3
      <4>2. pool * num = num * pool
        BY <2>6, <4>1, Times
      <4>3. QED
        BY <4>1, <4>2
    <3>3. QED
      BY <3>1, <3>2
  <2>8. QED
    BY <2>2, <2>4, <2>5, <2>6, <2>7 DEF ps, mem
<1> DEFINE S == {Built(v).num : v \in Workers}
<1>2. LeastBlocks = Min(S) /\ Built(w).num \in S
  BY DEF LeastBlocks
<1>3. S \in SUBSET (Nat \ {0})
  BY <1>1
<1> HIDE DEF S
<1>4. S \in SUBSET Nat
  BY <1>3
<1>5. Min(S) \in S /\ \A x \in S : Min(S) <= x
  BY <1>2, <1>4, MinIs
<1>6. QED
  BY <1>1, <1>2, <1>3, <1>5

-----------------------------------------------------------------------------
\* What a layout gives: a page of every block in one tensor, and the bytes of all.

\* M tensors ts for n blocks: tensor i has bytes[i] a block, for the layers shared[i].
IsLayout(ts, M, bytes, shared, offset, stride, n) ==
  /\ DOMAIN ts = 1 .. M
  /\ \A i \in 1 .. M : ts[i] = Tensor(bytes[i] * n, shared[i], offset[i], stride)

\* The tensors shrink with the number of blocks.
LEMMA ResizedIs ==
  ASSUME NEW c, c.num \in Nat \ {0}, NEW n \in Nat, NEW ts, Resized(ts, c, n),
         NEW M, NEW bytes, NEW shared, NEW offset, NEW stride,
         IsLayout(c.tensors, M, bytes, shared, offset, stride, c.num),
         \A i \in 1 .. M : bytes[i] \in Nat
  PROVE  IsLayout(ts, M, bytes, shared, offset, stride, n)
<1> DEFINE old == c.tensors
           N == c.num
<1>1. ts = [i \in DOMAIN old |-> [old[i] EXCEPT !.size = (@ \div N) * n]]
  BY DEF Resized
<1>2. /\ DOMAIN old = 1 .. M
      /\ \A i \in 1 .. M : old[i] = Tensor(bytes[i] * N, shared[i], offset[i], stride)
  BY DEF IsLayout
<1>3. N \in Nat \ {0}
  OBVIOUS
<1> HIDE DEF old, N
<1>4. ASSUME NEW i \in 1 .. M
      PROVE  ts[i] = Tensor(bytes[i] * n, shared[i], offset[i], stride)
  <2> DEFINE b == bytes[i]
             s == shared[i]
             o == offset[i]
             size == b * N
  <2>1. old[i] = [size |-> size, shared |-> s, offset |-> o, stride |-> stride] /\ b \in Nat
    BY <1>2 DEF Tensor
  <2>2. ts[i] = [old[i] EXCEPT !.size = (@ \div N) * n]
    BY <1>1, <1>2
  <2>3. size \div N = b
    <3>1. N * b = b * N /\ b \in Int
      BY <1>3, <2>1, Times
    <3>2. (N * b) \div N = b
      BY <1>3, <3>1, MultipleIs
    <3>3. QED
      BY <3>1, <3>2
  <2> HIDE DEF b, s, o, size
  <2>4. ts[i] = [size |-> (size \div N) * n, shared |-> s, offset |-> o, stride |-> stride]
    BY <2>1, <2>2
  <2>5. ts[i] = [size |-> b * n, shared |-> s, offset |-> o, stride |-> stride]
    BY <2>3, <2>4
  <2>6. QED
    BY <2>5 DEF Tensor, b, s, o
<1>5. DOMAIN ts = 1 .. M
  BY <1>1, <1>2
<1>6. QED
  BY <1>4, <1>5 DEF IsLayout

\* Tensor t is the one place of layer l of the group g.
IsPlace(t, g, l, M, bytes, shared) ==
  /\ t \in 1 .. M /\ l \in shared[t]
  /\ \A u \in 1 .. M : l \in shared[u] => u = t
  /\ bytes[t] \in Nat /\ PageOf(g, l) \in Nat /\ PageOf(g, l) <= bytes[t]
  /\ shared[t] \cap ToSet(g.layers) = {l}

LEMMA RoomIs ==
  ASSUME NEW c, c.num \in Nat,
         NEW M, NEW bytes, NEW shared, NEW offset, NEW stride,
         IsLayout(c.tensors, M, bytes, shared, offset, stride, c.num),
         NEW g, NEW l, NEW t, IsPlace(t, g, l, M, bytes, shared)
  PROVE  HasItsRoom(c, g, l)
<1> DEFINE ts == c.tensors
           n == c.num
           page == PageOf(g, l)
<1>1. DOMAIN ts = 1 .. M /\ n \in Nat
  BY DEF IsLayout
<1>2. \A u \in 1 .. M : ts[u] = Tensor(bytes[u] * n, shared[u], offset[u], stride)
  BY DEF IsLayout
<1>3. \A u \in 1 .. M : ts[u].shared = shared[u] /\ ts[u].size = bytes[u] * n
  <2> HIDE DEF ts, n
  <2> SUFFICES ASSUME NEW u \in 1 .. M PROVE ts[u].shared = shared[u] /\ ts[u].size = bytes[u] * n
    OBVIOUS
  <2>1. ts[u] = [size |-> bytes[u] * n, shared |-> shared[u], offset |-> offset[u], stride |-> stride]
    BY <1>2 DEF Tensor
  <2>2. QED
    BY <2>1
<1>4. t \in 1 .. M /\ bytes[t] \in Nat /\ page \in Nat /\ page <= bytes[t]
  BY DEF IsPlace
<1>5. ts[t].size >= page * n
  <2> DEFINE b == bytes[t]
  <2>1. b \in Int /\ page \in Int /\ n \in Int /\ n >= 0 /\ page <= b /\ ts[t].size = b * n
    BY <1>1, <1>3, <1>4
  <2> HIDE DEF b, page, n, ts
  <2>2. page * n <= b * n /\ page * n \in Int /\ b * n \in Int
    BY <2>1, Times
  <2>3. QED
    BY <2>1, <2>2
<1>6. /\ l \in ts[t].shared
      /\ \A u \in DOMAIN ts : l \in ts[u].shared => u = t
      /\ ts[t].shared \cap ToSet(g.layers) = {l}
  <2> HIDE DEF ts
  <2>1. QED
    BY <1>1, <1>3, <1>4 DEF IsPlace
<1>7. QED
  BY <1>1, <1>4, <1>5, <1>6 DEF HasItsRoom

\* Tensors that lie side by side take the sum of their bytes.
LEMMA SideBySide ==
  ASSUME NEW c, c.num \in Nat, NEW M \in Nat,
         NEW bytes, NEW shared, NEW offset,
         IsLayout(c.tensors, M, bytes, shared, offset, 0, c.num),
         \A i \in 1 .. M : bytes[i] \in Nat
  PROVE  /\ Backing(c) = c.num * SumOn(bytes, 1 .. M)
         /\ PackedPagesDisjoint(c)
<1> DEFINE ts == c.tensors
           n == c.num
           I == 1 .. M
<1>1. DOMAIN ts = I /\ n \in Nat
  BY DEF IsLayout
<1>2. \A i \in I : ts[i].size = bytes[i] * n /\ ts[i].stride = 0
  <2> SUFFICES ASSUME NEW i \in I PROVE ts[i].size = bytes[i] * n /\ ts[i].stride = 0
    OBVIOUS
  <2>1. ts[i] = [size |-> bytes[i] * n, shared |-> shared[i], offset |-> offset[i], stride |-> 0]
    BY DEF IsLayout, Tensor
  <2> HIDE DEF ts, n
  <2>2. QED
    BY <2>1
<1>3. ~ \E i \in DOMAIN ts : ts[i].stride # 0
  BY <1>1, <1>2
<1> DEFINE f == [i \in DOMAIN ts |-> ts[i].size]
           b == [i \in I |-> bytes[i]]
<1>4. Backing(c) = SumFunction(f)
  BY <1>3 DEF Backing
<1>5. PackedPagesDisjoint(c)
  BY <1>3 DEF PackedPagesDisjoint
<1>6. IsFiniteSet(I) /\ DOMAIN f = I /\ DOMAIN b = I
  BY <1>1, FS_Interval
<1>7. \A i \in I : b[i] \in Int /\ b[i] = bytes[i] /\ f[i] = bytes[i] * n
  BY <1>1, <1>2
<1> HIDE DEF f, b, I, n, ts
<1>8. \A i \in I : f[i] = n * b[i]
  <2> SUFFICES ASSUME NEW i \in I PROVE f[i] = n * b[i]
    OBVIOUS
  <2> DEFINE x == b[i]
  <2>1. x \in Int /\ f[i] = x * n /\ n \in Int
    BY <1>1, <1>7
  <2> HIDE DEF x
  <2>2. x * n = n * x
    BY <2>1, Times
  <2>3. QED
    BY <2>1, <2>2 DEF x
<1>9. SumFunction(f) = n * SumFunction(b)
  <2>1. n \in Int /\ IsFiniteSet(DOMAIN b) /\ DOMAIN f = DOMAIN b
    BY <1>1, <1>6
  <2>2. \A i \in DOMAIN b : b[i] \in Int /\ f[i] = n * b[i]
    BY <1>6, <1>7, <1>8
  <2>3. QED
    BY <2>1, <2>2, SumScaled
<1>10. SumFunction(b) = SumOn(bytes, I)
  <2>1. SumFunction(b) = SumOn(b, I)
    BY <1>6 DEF SumFunction, SumOn
  <2>2. \A i \in I : bytes[i] \in Int /\ b[i] = bytes[i]
    BY <1>7
  <2>3. SumOn(b, I) = SumOn(bytes, I)
    BY <1>6, <2>2, SumAgrees
  <2>4. QED
    BY <2>1, <2>3
<1>11. QED
  BY <1>4, <1>5, <1>9, <1>10 DEF n, I

\* Tensors that alias one backing take the bytes of one.
LEMMA Aliased ==
  ASSUME NEW c, c.num \in Nat, NEW M \in Nat, M # 0, NEW pool \in Nat \ {0},
         NEW bytes, NEW shared, NEW offset,
         IsLayout(c.tensors, M, bytes, shared, offset, pool, c.num),
         \A i \in 1 .. M : bytes[i] = pool
  PROVE  Backing(c) = c.num * pool
<1> DEFINE ts == c.tensors
           n == c.num
           I == 1 .. M
           S == {ts[i].size : i \in DOMAIN ts}
<1>1. DOMAIN ts = I /\ n \in Nat /\ 1 \in I
  BY DEF IsLayout
<1>2. \A i \in I : ts[i].size = pool * n /\ ts[i].stride = pool
  <2> SUFFICES ASSUME NEW i \in I PROVE ts[i].size = pool * n /\ ts[i].stride = pool
    OBVIOUS
  <2>1. ts[i] = [size |-> bytes[i] * n, shared |-> shared[i], offset |-> offset[i], stride |-> pool]
    BY DEF IsLayout, Tensor
  <2> HIDE DEF ts, n
  <2>2. QED
    BY <2>1
<1>3. \E i \in DOMAIN ts : ts[i].stride # 0
  BY <1>1, <1>2
<1>4. Backing(c) = Max(S)
  BY <1>3 DEF Backing
<1> HIDE DEF ts, n, I
<1>5. S = {pool * n}
  BY <1>1, <1>2
<1>6. pool * n \in Int /\ pool * n = n * pool
  BY <1>1, Times
<1> DEFINE k == pool * n
<1>7. Max({k}) = k
  <2>1. k \in Int /\ IsFiniteSet({k})
    BY <1>6, FS_Singleton
  <2> HIDE DEF k
  <2>2. {k} \in SUBSET Int /\ {k} # {}
    BY <2>1
  <2>3. Max({k}) \in {k}
    BY <2>1, <2>2, MaxIs
  <2>4. QED
    BY <2>3
<1>8. QED
  BY <1>4, <1>5, <1>6, <1>7 DEF n

-----------------------------------------------------------------------------
\* Tensors side by side: the layouts of one uniform group, and of groups of one page.

\* M tensors of a layout side by side, pool bytes a block in all.
IsTiled(ts, M, bytes, shared, offset, n, pool) ==
  /\ IsLayout(ts, M, bytes, shared, offset, 0, n)
  /\ M \in Nat /\ (\A i \in 1 .. M : bytes[i] \in Nat)
  /\ SumOn(bytes, 1 .. M) = pool

\* Each layer of the group has its place.
IsPlaced(g, M, bytes, shared) ==
  \A l \in ToSet(g.layers) : \E t : IsPlace(t, g, l, M, bytes, shared)

\* What the tensors of a worker's groups come to.
IsRoomy(c, ps) ==
  /\ \A i \in DOMAIN ps : \A l \in ToSet(ps[i].layers) : HasItsRoom(c, ps[i], l)
  /\ PackedPagesDisjoint(c)
  /\ Backing(c) = c.num * PoolBytesPerBlock(ps)

LEMMA TiledIsRoomy ==
  ASSUME NEW ps, NEW old, old.num \in Nat \ {0}, NEW c, c.num \in Nat,
         Resized(c.tensors, old, c.num),
         NEW M, NEW bytes, NEW shared, NEW offset,
         IsTiled(old.tensors, M, bytes, shared, offset, old.num, PoolBytesPerBlock(ps)),
         \A i \in DOMAIN ps : IsPlaced(ps[i], M, bytes, shared)
  PROVE  IsRoomy(c, ps)
<1>1. /\ IsLayout(old.tensors, M, bytes, shared, offset, 0, old.num)
      /\ M \in Nat /\ (\A i \in 1 .. M : bytes[i] \in Nat)
      /\ SumOn(bytes, 1 .. M) = PoolBytesPerBlock(ps)
  BY DEF IsTiled
<1> DEFINE ts == c.tensors
           n == c.num
<1>2. Resized(ts, old, n) /\ n \in Nat
  OBVIOUS
<1> HIDE DEF ts, n
<1>3. IsLayout(ts, M, bytes, shared, offset, 0, n)
  BY <1>1, <1>2, ResizedIs
<1>4. IsLayout(c.tensors, M, bytes, shared, offset, 0, c.num)
  BY <1>3 DEF ts, n
<1>5. Backing(c) = c.num * SumOn(bytes, 1 .. M) /\ PackedPagesDisjoint(c)
  BY <1>1, <1>4, SideBySide
<1>6. \A i \in DOMAIN ps : \A l \in ToSet(ps[i].layers) : HasItsRoom(c, ps[i], l)
  <2> SUFFICES ASSUME NEW i \in DOMAIN ps, NEW l \in ToSet(ps[i].layers)
               PROVE  HasItsRoom(c, ps[i], l)
    OBVIOUS
  <2> DEFINE g == ps[i]
  <2>1. PICK t : IsPlace(t, g, l, M, bytes, shared)
    BY DEF IsPlaced
  <2> HIDE DEF g
  <2>2. HasItsRoom(c, g, l)
    BY <1>4, <2>1, RoomIs
  <2>3. QED
    BY <2>2 DEF g
<1>7. QED
  BY <1>1, <1>5, <1>6 DEF IsRoomy

\* One uniform group: a tensor for each layer.
LayerTensors(q, n) ==
  [i \in DOMAIN q.layers |-> Tensor(PageOf(q, q.layers[i]) * n, {q.layers[i]}, 0, 0)]

LEMMA UniformTensors ==
  ASSUME NEW D \in SUBSET Nat, IsFiniteSet(D), NEW g, IsGroup(g, D), g.uniform, NEW own,
         NEW q, IsProjection(q, g, own), ToSet(q.layers) # {}, NEW n
  PROVE  \E bytes, shared, offset :
           /\ IsTiled(LayerTensors(q, n), Len(q.layers), bytes, shared, offset, n, AllPages(q))
           /\ IsPlaced(q, Len(q.layers), bytes, shared)
<1> DEFINE M == Len(q.layers)
           I == 1 .. M
           E == DOMAIN q.specs
           b == q.layers
           f == [l \in E |-> PageSize(q.specs[l])]
           bytes == [i \in I |-> PageOf(q, b[i])]
           shared == [i \in I |-> {b[i]}]
           offset == [i \in I |-> 0]
           ts == LayerTensors(q, n)
<1>1. /\ M \in Nat /\ ToSet(b) = E /\ DOMAIN b = I
      /\ \A i, j \in I : b[i] = b[j] => i = j
  <2>1. b \in Seq(E)
    BY DEF IsProjection
  <2>2. ToSet(b) = E
    BY DEF IsProjection
  <2>3. \A i, j \in DOMAIN b : b[i] = b[j] => i = j
    BY DEF IsProjection
  <2> HIDE DEF E, b
  <2>4. M \in Nat /\ DOMAIN b = 1 .. M
    BY <2>1 DEF b
  <2>5. QED
    BY <2>2, <2>3, <2>4
<1>2. \A l \in E : PageOf(q, l) \in Nat \ {0}
  BY PartLayers
<1>3. \A i \in I : b[i] \in E
  BY <1>1 DEF ToSet
<1>4. \A i \in I : bytes[i] = PageOf(q, b[i]) /\ shared[i] = {b[i]} /\ offset[i] = 0
  OBVIOUS
<1>5. /\ DOMAIN ts = I
      /\ \A i \in I : ts[i] = Tensor(PageOf(q, b[i]) * n, {b[i]}, 0, 0)
  BY <1>1 DEF LayerTensors
<1>6. \A e \in E : f[e] \in Int /\ f[e] = PageOf(q, e)
  BY <1>2 DEF PageOf
<1>7. AllPages(q) = SumOn(f, E)
  BY DEF AllPages, SumOn, SumFunction
<1>8. IsNaming(b, I, E)
  BY <1>1, <1>3 DEF IsNaming, ToSet
<1>9. IsFiniteSet(I)
  BY <1>1, FS_Interval
<1> HIDE DEF M, I, E, b, f, bytes, shared, offset, ts
<1>10. SumOn(bytes, I) = SumOn(f, E)
  <2>1. \A x \in I : bytes[x] = f[b[x]]
    BY <1>3, <1>4, <1>6
  <2>2. \A e \in E : f[e] \in Int
    BY <1>6
  <2>3. QED
    BY <1>8, <1>9, <2>1, <2>2, SumRenamed
<1>11. IsLayout(ts, M, bytes, shared, offset, 0, n)
  BY <1>4, <1>5 DEF IsLayout, I
<1>12. \A i \in I : bytes[i] \in Nat
  BY <1>2, <1>3, <1>4
<1>13. IsTiled(ts, M, bytes, shared, offset, n, AllPages(q))
  BY <1>1, <1>7, <1>10, <1>11, <1>12 DEF IsTiled, I
<1>14. ASSUME NEW l \in E
       PROVE  \E t : IsPlace(t, q, l, M, bytes, shared)
  <2>1. PICK t \in I : b[t] = l
    BY <1>8 DEF IsNaming
  <2>2. t \in I /\ l \in shared[t] /\ \A u \in I : l \in shared[u] => u = t
    BY <1>1, <1>4, <2>1
  <2>3. bytes[t] \in Nat /\ PageOf(q, l) \in Nat /\ bytes[t] = PageOf(q, l)
    BY <1>2, <1>4, <2>1
  <2>4. shared[t] \cap E = {l}
    BY <1>4, <2>1
  <2>5. ToSet(q.layers) = E
    BY <1>1 DEF b
  <2>6. PageOf(q, l) <= bytes[t]
    <3> DEFINE x == PageOf(q, l)
               y == bytes[t]
    <3>1. x = y /\ y \in Nat
      BY <2>3
    <3> HIDE DEF x, y
    <3>2. x <= y
      BY <3>1
    <3>3. QED
      BY <3>2 DEF x, y
  <2>7. IsPlace(t, q, l, M, bytes, shared)
    BY <2>2, <2>3, <2>4, <2>5, <2>6 DEF IsPlace, I
  <2>8. QED
    BY <2>7
<1>15. IsPlaced(q, M, bytes, shared)
  BY <1>1, <1>14 DEF IsPlaced, b
<1>16. QED
  BY <1>13, <1>15 DEF M, ts

\* The lists of a worker's groups.
LEMMA ListsOfShare ==
  ASSUME NEW ps, NEW gs, NEW own, NEW D, IsShare(ps, gs, own, D)
  PROVE  \A i \in 1 .. Len(gs) :
           /\ Len(ps[i].layers) \in Nat
           /\ ToSet(ps[i].layers) = {ps[i].layers[k] : k \in 1 .. Len(ps[i].layers)}
           /\ \A k, h \in 1 .. Len(ps[i].layers) : ps[i].layers[k] = ps[i].layers[h] => k = h
<1> SUFFICES ASSUME NEW i \in 1 .. Len(gs)
             PROVE  /\ Len(ps[i].layers) \in Nat
                    /\ ToSet(ps[i].layers) = {ps[i].layers[k] : k \in 1 .. Len(ps[i].layers)}
                    /\ \A k, h \in 1 .. Len(ps[i].layers) :
                         ps[i].layers[k] = ps[i].layers[h] => k = h
  OBVIOUS
<1> DEFINE q == ps[i]
           g == gs[i]
           E == DOMAIN q.specs
           b == q.layers
<1>1. IsProjection(q, g, own)
  BY ShareKeeps
<1> HIDE DEF q, g
<1>2. b \in Seq(E) /\ \A k, h \in DOMAIN b : b[k] = b[h] => k = h
  BY <1>1 DEF IsProjection
<1> HIDE DEF E, b
<1>3. Len(b) \in Nat /\ DOMAIN b = 1 .. Len(b)
  BY <1>2
<1>4. ToSet(b) = {b[k] : k \in 1 .. Len(b)}
  BY <1>3 DEF ToSet
<1>5. QED
  BY <1>2, <1>3, <1>4 DEF b, q

\* Groups of one page: a tensor for the i-th layers of all.
LEMMA PooledTensorsAre ==
  ASSUME NEW ps, NEW gs, NEW own, NEW D, IsShare(ps, gs, own, D), Len(gs) # 0,
         NEW page, PageOfAll(ps, gs, page), page = PageSize(SpecOf(ps[1])), NEW n
  PROVE  \E bytes, shared, offset :
           /\ IsTiled(PooledTensors(ps, n), GroupSize(ps), bytes, shared, offset, n,
                      page * GroupSize(ps))
           /\ \A i \in DOMAIN ps : IsPlaced(ps[i], GroupSize(ps), bytes, shared)
<1> DEFINE M == GroupSize(ps)
           I == 1 .. M
           N == 1 .. Len(gs)
           at(j, k) == ps[j].layers[k]
           len(j) == Len(ps[j].layers)
           set(j) == ToSet(ps[j].layers)
           bytes == [i \in I |-> page]
           shared == [i \in I |-> {at(j, i) : j \in {j \in N : i <= len(j)}}]
           offset == [i \in I |-> 0]
           ts == PooledTensors(ps, n)
<1>1. DOMAIN ps = N
  BY ShareKeeps
<1>2. M \in Nat /\ \A j \in N : len(j) \in Nat /\ len(j) <= M
  BY GroupSizeOfShare
<1>3. \A j \in N : /\ set(j) = {at(j, k) : k \in 1 .. len(j)}
                   /\ \A k, h \in 1 .. len(j) : at(j, k) = at(j, h) => k = h
  BY ListsOfShare
<1>4. \A i, j \in N : i # j => set(i) \cap set(j) = {}
  BY LayersApart
<1>5. page \in Nat /\ \A j \in N : \A l \in set(j) : PageOf(ps[j], l) = page
  BY DEF PageOfAll
<1>6. \A i \in I : /\ bytes[i] = page /\ offset[i] = 0
                   /\ shared[i] = {at(j, i) : j \in {j \in N : i <= len(j)}}
  OBVIOUS
<1>7. /\ DOMAIN ts = I
      /\ \A i \in I : ts[i] = Tensor(page * n, {at(j, i) : j \in {j \in N : i <= len(j)}}, 0, 0)
  BY <1>1 DEF PooledTensors
<1> HIDE DEF bytes, shared, offset, ts
<1>8. IsLayout(ts, M, bytes, shared, offset, 0, n)
  BY <1>6, <1>7 DEF IsLayout
<1>9. SumOn(bytes, I) = page * M
  <2>1. IsFiniteSet(I) /\ Cardinality(I) = M
    BY <1>2, FS_Interval
  <2>2. page \in Int /\ \A i \in I : bytes[i] = page
    BY <1>5, <1>6
  <2> HIDE DEF I, M
  <2>3. SumOn(bytes, I) = Cardinality(I) * page
    BY <2>1, <2>2, SumOfEqual
  <2>4. M * page = page * M
    BY <1>2, <1>5, Times
  <2>5. QED
    BY <2>1, <2>3, <2>4
<1>10. IsTiled(ts, M, bytes, shared, offset, n, page * M)
  BY <1>2, <1>5, <1>6, <1>8, <1>9 DEF IsTiled
<1> HIDE DEF M, N, at, len, set
<1>11. ASSUME NEW i \in N, NEW l \in set(i)
       PROVE  \E t : IsPlace(t, ps[i], l, M, bytes, shared)
  <2>1. PICK t \in 1 .. len(i) : at(i, t) = l
    BY <1>3
  <2>2. t \in I /\ t <= len(i)
    BY <1>2, <2>1
  <2>3. ASSUME NEW j \in N, NEW u \in I, u <= len(j), at(j, u) \in set(i)
        PROVE  j = i /\ (at(j, u) = l => u = t)
    <3>1. u \in 1 .. len(j)
      BY <1>2, <2>3
    <3>2. at(j, u) \in set(j)
      BY <1>3, <3>1
    <3>3. j = i
      BY <1>4, <2>3, <3>2
    <3>4. at(j, u) = l => u = t
      BY <1>3, <2>1, <3>1, <3>3
    <3>5. QED
      BY <3>3, <3>4
  <2>4. l \in shared[t]
    BY <1>6, <2>1, <2>2
  <2>5. ASSUME NEW u \in I, l \in shared[u] PROVE u = t
    <3>1. PICK j \in N : u <= len(j) /\ at(j, u) = l
      BY <1>6, <2>5
    <3>2. QED
      BY <2>3, <3>1
  <2>6. shared[t] \cap set(i) = {l}
    <3>1. ASSUME NEW x \in shared[t], x \in set(i) PROVE x = l
      <4>1. PICK j \in N : t <= len(j) /\ at(j, t) = x
        BY <1>6, <2>2
      <4>2. j = i
        BY <2>2, <2>3, <3>1, <4>1
      <4>3. QED
        BY <2>1, <4>1, <4>2
    <3>2. QED
      BY <2>4, <3>1
  <2>7. bytes[t] = page /\ PageOf(ps[i], l) = page /\ page \in Nat
    BY <1>5, <1>6, <2>2
  <2>8. page <= page
    BY <2>7
  <2>9. IsPlace(t, ps[i], l, M, bytes, shared)
    BY <2>2, <2>4, <2>5, <2>6, <2>7, <2>8 DEF IsPlace, set
  <2>10. QED
    BY <2>9
<1>12. \A i \in N : IsPlaced(ps[i], M, bytes, shared)
  BY <1>11 DEF IsPlaced, set
<1>13. QED
  BY <1>1, <1>10, <1>12 DEF M, ts

-----------------------------------------------------------------------------
\* The packed layout: the pages of a block one after the other, in one backing.

LEMMA PrefixStep ==
  ASSUME NEW w, NEW M \in Nat, \A i \in 1 .. M : w[i] \in Nat
  PROVE  \A i \in 1 .. M : SumOn(w, 1 .. i) = w[i] + SumOn(w, 1 .. i - 1)
<1> SUFFICES ASSUME NEW i \in 1 .. M
             PROVE  SumOn(w, 1 .. i) = w[i] + SumOn(w, 1 .. i - 1)
  OBVIOUS
<1> DEFINE A == 1 .. i
<1>1. IsFiniteSet(A)
  BY FS_Interval
<1>2. A \ {i} = 1 .. i - 1 /\ i \in A
  OBVIOUS
<1>3. \A x \in A : w[x] \in Int
  OBVIOUS
<1>4. A \in SUBSET A
  OBVIOUS
<1> HIDE DEF A
<1>5. \A s \in SUBSET A : \A x \in s : SumOn(w, s) = w[x] + SumOn(w, s \ {x})
  BY <1>1, <1>3, SumStep, ZenonT(60)
<1>6. SumOn(w, A) = w[i] + SumOn(w, A \ {i})
  BY <1>2, <1>4, <1>5
<1>7. QED
  BY <1>2, <1>6 DEF A

\* Prefix sums: each term ends where a later one begins, or before.
LEMMA PrefixSums ==
  ASSUME NEW M \in Nat, NEW w, \A i \in 1 .. M : w[i] \in Nat,
         NEW offset, \A i \in 1 .. M : offset[i] = SumOn(w, 1 .. i - 1)
  PROVE  /\ SumOn(w, 1 .. M) \in Nat
         /\ \A t \in 1 .. M : offset[t] \in Nat /\ offset[t] + w[t] <= SumOn(w, 1 .. M)
         /\ \A t, u \in 1 .. M : t # u => \/ offset[t] + w[t] <= offset[u]
                                          \/ offset[u] + w[u] <= offset[t]
<1> DEFINE I == 1 .. M
           T(i) == 1 .. i
           S(i) == SumOn(w, T(i))
<1>1. IsFiniteSet(I)
  BY FS_Interval
<1>2. \A i \in 0 .. M : T(i) \in SUBSET I
  OBVIOUS
<1>3. ASSUME NEW i \in 0 .. M, NEW k \in 0 .. M, i <= k
      PROVE  S(i) \in Nat /\ S(i) <= S(k)
  <2> DEFINE A == T(i)
             B == T(k)
             f == [j \in A |-> w[j]]
             g == [j \in B |-> w[j]]
  <2>1. A \in SUBSET B /\ B \in SUBSET I
    BY <1>2, <1>3
  <2>2. IsFiniteSet(A) /\ IsFiniteSet(B)
    BY <1>1, <2>1, FS_Subset
  <2>3. /\ DOMAIN f = A /\ \A j \in A : f[j] = w[j] /\ f[j] \in Nat
        /\ DOMAIN g = B /\ \A j \in B : g[j] = w[j] /\ g[j] \in Nat
    BY <2>1
  <2>4. SumFunction(f) = SumOn(f, A) /\ SumFunction(g) = SumOn(g, B)
    BY <2>3 DEF SumFunction, SumOn
  <2> HIDE DEF A, B, f, g
  <2>5. /\ \A j \in A : f[j] \in Int /\ w[j] = f[j]
        /\ \A j \in B : g[j] \in Int /\ w[j] = g[j]
    BY <2>3
  <2>6. SumOn(w, A) = SumOn(f, A)
    BY <2>2, <2>5, SumAgrees
  <2>7. SumOn(w, B) = SumOn(g, B)
    BY <2>2, <2>5, SumAgrees
  <2>8. SumFunction(f) <= SumFunction(g)
    <3>1. \A x \in DOMAIN f : f[x] \in Nat /\ f[x] <= g[x]
      <4>1. \A x \in DOMAIN f : f[x] = g[x] /\ g[x] \in Nat
        BY <2>1, <2>3
      <4>2. \A n \in Nat : n <= n
        OBVIOUS
      <4>3. QED
        BY <4>1, <4>2
    <3>2. IsFiniteSet(DOMAIN g) /\ DOMAIN f \in SUBSET DOMAIN g /\ \A x \in DOMAIN g : g[x] \in Nat
      BY <2>1, <2>2, <2>3
    <3>3. QED
      BY <3>1, <3>2, SumGrows
  <2>9. SumFunction(f) \in Nat
    <3>1. IsFiniteSet(DOMAIN f) /\ \A x \in DOMAIN f : f[x] \in Nat
      BY <2>2, <2>3
    <3>2. QED
      BY <3>1, SumProperties
  <2>10. QED
    BY <2>4, <2>6, <2>7, <2>8, <2>9 DEF A, B
<1>4. \A i \in I : /\ i - 1 \in 0 .. M /\ i \in 0 .. M
                   /\ T(i) \ {i} = T(i - 1) /\ i \in T(i)
  OBVIOUS
<1>5. \A i \in I : S(i) = w[i] + S(i - 1)
  <2>1. \A i \in I : SumOn(w, 1 .. i) = w[i] + SumOn(w, 1 .. i - 1)
    BY PrefixStep
  <2>2. QED
    BY <2>1
<1>6. \A i \in I : offset[i] = S(i - 1) /\ w[i] \in Nat
  OBVIOUS
<1>7. M \in 0 .. M
  OBVIOUS
<1> HIDE DEF S
<1>8. \A i \in I : offset[i] \in Nat /\ offset[i] + w[i] = S(i)
  <2> SUFFICES ASSUME NEW i \in I PROVE offset[i] \in Nat /\ offset[i] + w[i] = S(i)
    OBVIOUS
  <2>1. i - 1 <= i
    OBVIOUS
  <2>2. S(i - 1) \in Nat
    BY <1>3, <1>4, <2>1
  <2> DEFINE x == S(i - 1)
  <2>3. x \in Nat /\ offset[i] = x /\ S(i) = w[i] + x /\ w[i] \in Nat
    BY <1>5, <1>6, <2>2
  <2> HIDE DEF x
  <2>4. QED
    BY <2>3
<1>9. S(M) \in Nat /\ \A t \in I : S(t) <= S(M)
  <2>1. \A t \in I : t <= M
    OBVIOUS
  <2>2. M <= M
    OBVIOUS
  <2>3. QED
    BY <1>3, <1>4, <1>7, <2>1, <2>2
<1>10. \A t, u \in I : t < u => S(t) <= offset[u]
  <2> SUFFICES ASSUME NEW t \in I, NEW u \in I, t < u PROVE S(t) <= S(u - 1)
    BY <1>6
  <2>1. t <= u - 1
    OBVIOUS
  <2>2. QED
    BY <1>3, <1>4, <2>1
<1>11. \A t, u \in I : t # u => t < u \/ u < t
  OBVIOUS
<1>12. QED
  BY <1>8, <1>9, <1>10, <1>11 DEF S

\* The places of a packed block: each slot of each page.
PlacesOf(ps, p) == {<<p, k>> : k \in 1 .. Slots(ps, p)}
Places(ps) == UNION {PlacesOf(ps, p) : p \in PagesIn(ps)}

LEMMA PlacesAre ==
  ASSUME NEW ps, NEW gs, NEW own, NEW D, IsShare(ps, gs, own, D), Len(gs) # 0,
         NEW f, \A x \in Places(ps) : f[x] = x[1]
  PROVE  /\ IsFiniteSet(Places(ps))
         /\ \A x \in Places(ps) : \E p \in PagesIn(ps) : \E k \in 1 .. Slots(ps, p) : x = <<p, k>>
         /\ \A p \in PagesIn(ps) : \A k \in 1 .. Slots(ps, p) : <<p, k>> \in Places(ps)
         /\ SumOn(f, Places(ps)) = PackedBytes(ps)
<1> DEFINE P == PagesIn(ps)
           Q == Places(ps)
           A == [p \in P |-> PlacesOf(ps, p)]
           h == [p \in P |-> p * Slots(ps, p)]
<1>1. IsFiniteSet(P) /\ P \in SUBSET (Nat \ {0}) /\ \A p : Slots(ps, p) \in Nat
  BY SharePagesIn
<1>2. \A p \in P : A[p] = PlacesOf(ps, p) /\ h[p] = p * Slots(ps, p)
  OBVIOUS
<1>3. Q = Together(A, P)
  BY DEF Places, Together
<1>4. PackedBytes(ps) = SumOn(h, P)
  BY DEF PackedBytes, SumFunction, SumOn
<1>5. /\ \A x \in Q : \E p \in P : \E k \in 1 .. Slots(ps, p) : x = <<p, k>>
      /\ \A p \in P : \A k \in 1 .. Slots(ps, p) : <<p, k>> \in Q
  BY DEF Places, PlacesOf
<1>6. \A p \in P : A[p] \in SUBSET Q
  BY <1>2 DEF Places
<1>7. \A p, r \in P : p # r => A[p] \cap A[r] = {}
  BY <1>2 DEF PlacesOf
<1> HIDE DEF Q, A, h, P
<1>8. \A x \in Q : f[x] \in Int
  <2> SUFFICES ASSUME NEW x \in Q PROVE f[x] \in Int
    OBVIOUS
  <2>1. PICK p \in P : \E k \in 1 .. Slots(ps, p) : x = <<p, k>>
    BY <1>5
  <2>2. f[x] = p
    BY <2>1 DEF Q
  <2>3. QED
    BY <1>1, <2>2
<1>9. ASSUME NEW p \in P
      PROVE  IsFiniteSet(A[p]) /\ SumOn(f, A[p]) = h[p]
  <2> DEFINE n == Slots(ps, p)
             E == PlacesOf(ps, p)
             b == [k \in 1 .. n |-> <<p, k>>]
             g == [k \in 1 .. n |-> p]
  <2>1. n \in Nat /\ p \in Int /\ p \in Nat
    BY <1>1
  <2>2. /\ \A k \in 1 .. n : b[k] = <<p, k>> /\ g[k] = p
        /\ \A k \in 1 .. n : b[k] \in E
        /\ \A e \in E : \E k \in 1 .. n : b[k] = e
    BY DEF PlacesOf
  <2>3. IsNaming(b, 1 .. n, E)
    BY <2>2 DEF IsNaming
  <2>4. \A e \in E : e \in Q /\ f[e] = p
    <3>1. \A k \in 1 .. n : <<p, k>> \in Q /\ f[<<p, k>>] = p
      BY <1>5 DEF Q
    <3>2. QED
      BY <3>1 DEF PlacesOf
  <2>5. E = A[p] /\ h[p] = p * n
    BY <1>2
  <2> DEFINE I == 1 .. n
  <2>6. IsFiniteSet(I) /\ Cardinality(I) = n
    BY <2>1, FS_Interval
  <2>7. \A k \in I : b[k] \in E /\ b[k] = <<p, k>> /\ g[k] = p
    BY <2>2
  <2>8. IsNaming(b, I, E) /\ \A e \in E : \E k \in I : b[k] = e
    BY <2>2, <2>3
  <2> HIDE DEF n, E, b, g, I
  <2>9. IsFiniteSet(E)
    BY <2>6, <2>8, FiniteImage
  <2>10. SumOn(g, I) = SumOn(f, E)
    <3>1. \A x \in I : g[x] = f[b[x]]
      BY <2>4, <2>7
    <3>2. \A e \in E : f[e] \in Int
      BY <2>1, <2>4
    <3>3. QED
      BY <2>6, <2>8, <3>1, <3>2, SumRenamed
  <2>11. SumOn(g, I) = Cardinality(I) * p
    <3>1. p \in Int /\ \A k \in I : g[k] = p
      BY <2>1, <2>7
    <3>2. QED
      BY <2>6, <3>1, SumOfEqual
  <2>12. n * p = p * n
    BY <2>1, Times
  <2>13. QED
    BY <2>5, <2>6, <2>9, <2>10, <2>11, <2>12
<1>10. IsFiniteSet(Q)
  <2> DEFINE S == {A[p] : p \in P}
  <2>1. Q = UNION S
    BY <1>3 DEF Together
  <2>2. \A T \in S : IsFiniteSet(T)
    BY <1>9
  <2>3. \A T \in S : \E p \in P : A[p] = T
    OBVIOUS
  <2> HIDE DEF S
  <2>4. IsFiniteSet(S)
    BY <1>1, <2>3, FiniteImage DEF P
  <2>5. QED
    BY <2>1, <2>2, <2>4, FS_UNION
<1>11. SumOn(f, Q) = SumOn(h, P)
  <2>1. IsFiniteSet(P) /\ \A p \in P : h[p] = SumOn(f, A[p])
    BY <1>1, <1>9 DEF P
  <2>2. SumOn(f, Together(A, P)) = SumOn(h, P)
    BY <1>6, <1>7, <1>8, <1>10, <2>1, SumOfParts
  <2>3. QED
    BY <1>3, <2>2
<1>12. QED
  BY <1>4, <1>5, <1>10, <1>11 DEF P, Q

\* The tensors of the places in some order.
PlacedTensors(ps, order, n) ==
  [i \in DOMAIN order |->
     Tensor(PackedBytes(ps) * n, SharedBy(ps, order[i][1], order[i][2]),
            SumFunction([j \in 1 .. i - 1 |-> order[j][1]]), PackedBytes(ps))]

LEMMA PlacesOrdered ==
  ASSUME NEW ps, NEW gs, NEW own, NEW D, IsShare(ps, gs, own, D), Len(gs) # 0, NEW n
  PROVE  \E order : /\ PackedTensors(ps, n) = PlacedTensors(ps, order, n)
                    /\ Len(order) \in Nat /\ DOMAIN order = 1 .. Len(order)
                    /\ Len(order) = Cardinality(Places(ps))
                    /\ IsNaming(order, 1 .. Len(order), Places(ps))
<1> DEFINE S == Places(ps)
           R == {x \in S \X S : x[1][1] < x[2][1] \/ (x[1][1] = x[2][1] /\ x[1][2] < x[2][2])}
           m == Cardinality(S)
           o == [k \in 1 .. m |->
                   CHOOSE x \in S : Cardinality({y \in S : y[1] < x[1] \/ (y[1] = x[1] /\ y[2] < x[2])}) = k - 1]
           T == PackedTensors(ps, n)
<1>1. T = PlacedTensors(ps, o, n)
  BY DEF PackedTensors, PlacedTensors, Sorted, Places, PlacesOf
<1>2. \A x, y \in S : <<x, y>> \in R <=> x[1] < y[1] \/ (x[1] = y[1] /\ x[2] < y[2])
  OBVIOUS
<1>3. \A x \in S : {y \in S : y[1] < x[1] \/ (y[1] = x[1] /\ y[2] < x[2])} = {y \in S : <<y, x>> \in R}
  OBVIOUS
<1>4. IsFiniteSet(S) /\ \A x \in S : x = <<x[1], x[2]>> /\ x[1] \in Nat /\ x[2] \in Nat
  <2> DEFINE f == [x \in S |-> x[1]]
  <2>1. \A x \in S : f[x] = x[1]
    OBVIOUS
  <2> HIDE DEF f
  <2>2. /\ IsFiniteSet(S)
        /\ \A x \in S : \E p \in PagesIn(ps) : \E k \in 1 .. Slots(ps, p) : x = <<p, k>>
    BY <2>1, PlacesAre
  <2>3. PagesIn(ps) \in SUBSET (Nat \ {0}) /\ \A p : Slots(ps, p) \in Nat
    BY SharePagesIn
  <2> HIDE DEF S
  <2> SUFFICES ASSUME NEW x \in S PROVE x = <<x[1], x[2]>> /\ x[1] \in Nat /\ x[2] \in Nat
    BY <2>2
  <2>4. PICK p \in PagesIn(ps) : \E k \in 1 .. Slots(ps, p) : x = <<p, k>>
    BY <2>2
  <2>5. PICK k \in 1 .. Slots(ps, p) : x = <<p, k>>
    BY <2>4
  <2>6. p \in Nat /\ k \in Nat
    BY <2>3
  <2>7. QED
    BY <2>5, <2>6
<1>5. \A k \in 1 .. m :
        o[k] = CHOOSE x \in S : Cardinality({y \in S : y[1] < x[1] \/ (y[1] = x[1] /\ y[2] < x[2])}) = k - 1
  OBVIOUS
<1>6. DOMAIN o = 1 .. m /\ o = [k \in 1 .. m |-> o[k]]
  <2> DEFINE c(k) == CHOOSE x \in S : Cardinality({y \in S : y[1] < x[1] \/ (y[1] = x[1] /\ y[2] < x[2])}) = k - 1
  <2>1. o = [k \in 1 .. m |-> c(k)]
    OBVIOUS
  <2> HIDE DEF o, c, m
  <2>2. QED
    BY <2>1
<1> HIDE DEF S, R
<1>7. IsOrder(R, S)
  <2>1. \A x \in S : <<x, x>> \notin R
    BY <1>2, <1>4
  <2>2. \A x, y \in S : x # y => <<x, y>> \in R \/ <<y, x>> \in R
    <3> SUFFICES ASSUME NEW x \in S, NEW y \in S, x # y PROVE <<x, y>> \in R \/ <<y, x>> \in R
      OBVIOUS
    <3>1. x[1] # y[1] \/ x[2] # y[2]
      BY <1>4
    <3>2. \/ x[1] < y[1] \/ (x[1] = y[1] /\ x[2] < y[2])
          \/ y[1] < x[1] \/ (y[1] = x[1] /\ y[2] < x[2])
      BY <1>4, <3>1
    <3>3. QED
      BY <1>2, <3>2
  <2>3. \A x, y, z \in S : <<x, y>> \in R /\ <<y, z>> \in R => <<x, z>> \in R
    BY <1>2, <1>4
  <2>4. QED
    BY <2>1, <2>2, <2>3 DEF IsOrder
<1> DEFINE before(x) == {y \in S : y[1] < x[1] \/ (y[1] = x[1] /\ y[2] < x[2])}
           below(x) == {y \in S : <<y, x>> \in R}
<1>8. (\A x \in S : before(x) = below(x)) /\ \A k \in 1 .. m : o[k] = CHOOSE x \in S : Cardinality(before(x)) = k - 1
  BY <1>3, <1>5
<1> HIDE DEF before, o
<1>9. IsRanking(o, R, S)
  <2> SUFFICES ASSUME \A k \in 1 .. m : \E x \in S : Cardinality(below(x)) = k - 1
               PROVE  /\ o \in [1 .. m -> S]
                      /\ \A k \in 1 .. m : Cardinality(below(o[k])) = k - 1
    BY DEF IsRanking
  <2> HIDE DEF below, m
  <2>1. \A k \in 1 .. m : o[k] \in S /\ Cardinality(below(o[k])) = k - 1
    <3> SUFFICES ASSUME NEW k \in 1 .. m PROVE o[k] \in S /\ Cardinality(below(o[k])) = k - 1
      OBVIOUS
    <3>1. \E x \in S : Cardinality(before(x)) = k - 1
      BY <1>8
    <3>2. o[k] \in S /\ Cardinality(before(o[k])) = k - 1
      BY <1>8, <3>1
    <3>3. QED
      BY <1>8, <3>2
  <2>2. o \in [1 .. m -> S]
    <3>1. o = [k \in 1 .. m |-> o[k]]
      BY <1>6
    <3>2. QED
      BY <2>1, <3>1
  <2>3. QED
    BY <2>1, <2>2
<1>10. /\ m \in Nat /\ o \in Seq(S) /\ Len(o) = m
       /\ \A x \in S : \E k \in 1 .. m : o[k] = x
       /\ \A i, j \in 1 .. m : o[i] = o[j] => i = j
  BY <1>4, <1>7, <1>9, ByRank
<1> HIDE DEF m
<1>11. \A i \in 1 .. m : o[i] \in S
  BY <1>10
<1>12. IsNaming(o, 1 .. m, S)
  BY <1>10, <1>11 DEF IsNaming
<1>13. QED
  BY <1>1, <1>6, <1>10, <1>12 DEF S, T, m

\* What shares the k-th slot of page p: layers of that page, the k-th of each group.
LEMMA SharedAre ==
  ASSUME NEW ps, NEW gs, NEW own, NEW D, IsShare(ps, gs, own, D), Len(gs) # 0,
         NEW p \in PagesIn(ps), NEW k \in 1 .. Slots(ps, p)
  PROVE  /\ SharedBy(ps, p, k) # {}
         /\ \A l \in SharedBy(ps, p, k) : \E i \in 1 .. Len(gs) :
              /\ l \in ToSet(ps[i].layers) /\ PageOf(ps[i], l) = p
              /\ k \in 1 .. Len(OfPage(ps[i], p)) /\ OfPage(ps[i], p)[k] = l
<1> DEFINE N == 1 .. Len(gs)
           o(i) == OfPage(ps[i], p)
           X == LayersWith(ps[1], p)
<1>1. DOMAIN ps = N
  BY ShareKeeps
<1>2. \A i \in N : Lists(o(i), LayersWith(ps[i], p))
  <2> SUFFICES ASSUME NEW i \in N PROVE Lists(o(i), LayersWith(ps[i], p))
    OBVIOUS
  <2> DEFINE q == ps[i]
             g == gs[i]
  <2>1. D \in SUBSET Nat /\ IsFiniteSet(D) /\ IsGroup(g, D) /\ IsProjection(q, g, own)
    BY ShareKeeps
  <2> HIDE DEF g, q
  <2>2. Lists(OfPage(q, p), LayersWith(q, p))
    BY <2>1, PartLayers
  <2>3. QED
    BY <2>2 DEF q
<1>3. /\ Slots(ps, p) \in Nat
      /\ \A i \in N : Len(o(i)) <= Slots(ps, p)
      /\ \E i \in N : Len(o(i)) = Slots(ps, p)
  BY SharePagesIn
<1>4. SharedBy(ps, p, k) = {o(i)[k] : i \in {i \in N : k <= Len(o(i))}}
  BY <1>1 DEF SharedBy
<1> HIDE DEF N, o
<1>5. SharedBy(ps, p, k) # {}
  <2>1. PICK i \in N : Len(o(i)) = Slots(ps, p)
    BY <1>3
  <2>2. k <= Len(o(i))
    BY <1>3, <2>1
  <2>3. QED
    BY <1>4, <2>2
<1>6. ASSUME NEW l \in SharedBy(ps, p, k)
      PROVE  \E i \in N : /\ l \in ToSet(ps[i].layers) /\ PageOf(ps[i], l) = p
                          /\ k \in 1 .. Len(o(i)) /\ o(i)[k] = l
  <2>1. PICK i \in N : k <= Len(o(i)) /\ o(i)[k] = l
    BY <1>4
  <2> DEFINE S == LayersWith(ps[i], p)
             list == o(i)
  <2>2. list \in Seq(S) /\ Len(list) \in Nat /\ ToSet(list) = S
    BY <1>2 DEF Lists
  <2>3. k \in 1 .. Len(list)
    <3> HIDE DEF list
    <3>1. k \in Nat /\ k >= 1
      BY <1>3
    <3>2. k <= Len(list)
      BY <2>1 DEF list
    <3>3. QED
      BY <2>2, <3>1, <3>2
  <2>4. list[k] \in S
    <3> HIDE DEF list, S
    <3>1. QED
      BY <2>2, <2>3
  <2>5. l \in S
    BY <2>1, <2>4
  <2>6. QED
    BY <2>1, <2>3, <2>5 DEF LayersWith
<1>7. QED
  BY <1>5, <1>6 DEF N, o

\* And every layer is in a slot of its page.
LEMMA SlotOfLayer ==
  ASSUME NEW ps, NEW gs, NEW own, NEW D, IsShare(ps, gs, own, D), Len(gs) # 0,
         NEW i \in 1 .. Len(gs), NEW l \in ToSet(ps[i].layers)
  PROVE  /\ PageOf(ps[i], l) \in PagesIn(ps) /\ PageOf(ps[i], l) \in Nat
         /\ \E k \in 1 .. Slots(ps, PageOf(ps[i], l)) :
              /\ l \in SharedBy(ps, PageOf(ps[i], l), k)
              /\ k \in 1 .. Len(OfPage(ps[i], PageOf(ps[i], l)))
              /\ OfPage(ps[i], PageOf(ps[i], l))[k] = l
         /\ \A k, h \in 1 .. Len(OfPage(ps[i], PageOf(ps[i], l))) :
              OfPage(ps[i], PageOf(ps[i], l))[k] = OfPage(ps[i], PageOf(ps[i], l))[h] => k = h
<1> DEFINE p == PageOf(ps[i], l)
           list == OfPage(ps[i], p)
           S == LayersWith(ps[i], p)
           N == 1 .. Len(gs)
<1>1. /\ PagesIn(ps) \in SUBSET (Nat \ {0}) /\ p \in PagesIn(ps)
      /\ Slots(ps, p) \in Nat /\ Len(list) <= Slots(ps, p)
  BY SharePagesIn
<1>2. Lists(list, S)
  <2> DEFINE q == ps[i]
             g == gs[i]
  <2>1. D \in SUBSET Nat /\ IsFiniteSet(D) /\ IsGroup(g, D) /\ IsProjection(q, g, own)
    BY ShareKeeps
  <2> HIDE DEF g, q, p
  <2>2. Lists(OfPage(q, p), LayersWith(q, p))
    BY <2>1, PartLayers
  <2>3. QED
    BY <2>2 DEF q
<1>3. l \in S
  BY DEF LayersWith
<1>4. DOMAIN ps = N /\ i \in N
  BY ShareKeeps
<1> HIDE DEF S
<1>5. /\ list \in Seq(S) /\ ToSet(list) = S /\ Len(list) \in Nat
      /\ \A k, h \in DOMAIN list : list[k] = list[h] => k = h
  BY <1>2 DEF Lists
<1>6. DOMAIN list = 1 .. Len(list)
  <2> HIDE DEF list
  <2>1. QED
    BY <1>5
<1>7. PICK k \in 1 .. Len(list) : list[k] = l
  <2> HIDE DEF list
  <2>1. QED
    BY <1>3, <1>5, <1>6 DEF ToSet
<1>8. k \in 1 .. Slots(ps, p) /\ k <= Len(list)
  <2> HIDE DEF list, p
  <2>1. QED
    BY <1>1, <1>5, <1>7
<1>9. l \in SharedBy(ps, p, k)
  BY <1>4, <1>7, <1>8 DEF SharedBy
<1>10. \A j, h \in 1 .. Len(list) : list[j] = list[h] => j = h
  BY <1>5, <1>6
<1>11. QED
  BY <1>1, <1>7, <1>8, <1>9, <1>10

-----------------------------------------------------------------------------
\* The packed layout's tensors, and what lies where in a block.

\* The pages of the tensors of a packed block, one after the other within it.
IsPacked(M, shared, offset, w, pool, ps) ==
  /\ \A t \in 1 .. M :
       /\ UNION {{PageOf(g, l) : l \in shared[t] \cap ToSet(g.layers)} : g \in ToSet(ps)} = {w[t]}
       /\ w[t] \in Nat /\ offset[t] \in Nat /\ offset[t] + w[t] <= pool
  /\ \A t, u \in 1 .. M : t # u => \/ offset[t] + w[t] <= offset[u]
                                   \/ offset[u] + w[u] <= offset[t]

LEMMA PackedTensorsAre ==
  ASSUME NEW ps, NEW gs, NEW own, NEW D, IsShare(ps, gs, own, D), Len(gs) # 0,
         HasLayers(ps, gs), NEW n
  PROVE  \E M, bytes, shared, offset, w :
           /\ IsLayout(PackedTensors(ps, n), M, bytes, shared, offset, PackedBytes(ps), n)
           /\ M \in Nat \ {0} /\ PackedBytes(ps) \in Nat \ {0}
           /\ \A i \in 1 .. M : bytes[i] = PackedBytes(ps)
           /\ \A i \in DOMAIN ps : IsPlaced(ps[i], M, bytes, shared)
           /\ IsPacked(M, shared, offset, w, PackedBytes(ps), ps)
<1>1. PICK order : /\ PackedTensors(ps, n) = PlacedTensors(ps, order, n)
                   /\ Len(order) \in Nat /\ DOMAIN order = 1 .. Len(order)
                   /\ Len(order) = Cardinality(Places(ps))
                   /\ IsNaming(order, 1 .. Len(order), Places(ps))
  BY PlacesOrdered
<1> DEFINE M == Len(order)
           I == 1 .. M
           N == 1 .. Len(gs)
           pool == PackedBytes(ps)
           Q == Places(ps)
           P == PagesIn(ps)
           set(i) == ToSet(ps[i].layers)
           w == [i \in I |-> order[i][1]]
           bytes == [i \in I |-> pool]
           shared == [i \in I |-> SharedBy(ps, order[i][1], order[i][2])]
           offset == [i \in I |-> SumFunction([j \in 1 .. i - 1 |-> order[j][1]])]
           ts == PackedTensors(ps, n)
           f == [x \in Q |-> x[1]]
<1>2. /\ DOMAIN ps = N /\ \A i, j \in N : i # j => set(i) \cap set(j) = {}
  BY ShareKeeps, LayersApart
<1>3. /\ IsFiniteSet(Q)
      /\ \A x \in Q : \E p \in P : \E k \in 1 .. Slots(ps, p) : x = <<p, k>>
      /\ \A p \in P : \A k \in 1 .. Slots(ps, p) : <<p, k>> \in Q
      /\ SumOn(f, Q) = pool
  <2>1. \A x \in Q : f[x] = x[1]
    OBVIOUS
  <2> HIDE DEF f
  <2>2. QED
    BY <2>1, PlacesAre
<1>4. P \in SUBSET (Nat \ {0}) /\ \A p : Slots(ps, p) \in Nat
  BY SharePagesIn
<1>5. \A i \in I : /\ w[i] = order[i][1] /\ bytes[i] = pool
                   /\ shared[i] = SharedBy(ps, order[i][1], order[i][2])
                   /\ offset[i] = SumFunction([j \in 1 .. i - 1 |-> order[j][1]])
  OBVIOUS
<1>6. /\ DOMAIN ts = I
      /\ \A i \in I : ts[i] = Tensor(pool * n, shared[i], offset[i], pool)
  BY <1>1 DEF PlacedTensors
<1>7. \A x \in Q : f[x] = x[1]
  OBVIOUS
<1>8. \A i, j \in I : order[i] = order[j] => i = j
  BY <1>1 DEF IsNaming
<1>9. \A x \in Q : \E i \in I : order[i] = x
  BY <1>1 DEF IsNaming
<1>10. \A i \in I : order[i] \in Q
  BY <1>1 DEF IsNaming
<1>11. M \in Nat /\ IsNaming(order, I, Q)
  BY <1>1
<1> HIDE DEF M, I, N, pool, Q, P, set, w, bytes, shared, offset, ts, f
<1>12. IsLayout(ts, M, bytes, shared, offset, pool, n)
  BY <1>5, <1>6 DEF IsLayout, I
<1>13. ASSUME NEW i \in I
       PROVE  \E p \in P : \E k \in 1 .. Slots(ps, p) :
                order[i] = <<p, k>> /\ w[i] = p /\ p \in Nat /\ shared[i] = SharedBy(ps, p, k)
  <2>1. PICK p \in P : \E k \in 1 .. Slots(ps, p) : order[i] = <<p, k>>
    BY <1>3, <1>10
  <2>2. PICK k \in 1 .. Slots(ps, p) : order[i] = <<p, k>>
    BY <2>1
  <2>3. w[i] = p /\ shared[i] = SharedBy(ps, p, k)
    <3>1. order[i][1] = p /\ order[i][2] = k
      BY <2>2
    <3>2. QED
      BY <1>5, <3>1
  <2>4. QED
    BY <1>4, <2>2, <2>3
<1>14. SumOn(w, I) = pool
  <2>1. IsFiniteSet(I)
    BY <1>11, FS_Interval DEF I
  <2>2. \A i \in I : w[i] = f[order[i]]
    BY <1>5, <1>7, <1>10
  <2>3. \A x \in Q : f[x] \in Int
    <3> SUFFICES ASSUME NEW x \in Q PROVE f[x] \in Int
      OBVIOUS
    <3>1. PICK p \in P : \E k \in 1 .. Slots(ps, p) : x = <<p, k>>
      BY <1>3
    <3>2. f[x] = p
      BY <1>7, <3>1
    <3>3. QED
      BY <1>4, <3>2
  <2>4. SumOn(w, I) = SumOn(f, Q)
    BY <1>11, <2>1, <2>2, <2>3, SumRenamed
  <2>5. QED
    BY <1>3, <2>4
<1>15. \A i \in I : offset[i] = SumOn(w, 1 .. i - 1)
  <2> SUFFICES ASSUME NEW i \in I PROVE offset[i] = SumOn(w, 1 .. i - 1)
    OBVIOUS
  <2> DEFINE J == 1 .. i - 1
             h == [j \in J |-> order[j][1]]
  <2>1. J \in SUBSET I
    BY <1>11 DEF I
  <2>2. IsFiniteSet(J)
    <3>1. IsFiniteSet(I)
      BY <1>11, FS_Interval DEF I
    <3>2. QED
      BY <2>1, <3>1, FS_Subset
  <2>3. offset[i] = SumOn(h, J)
    BY <1>5 DEF SumFunction, SumOn
  <2>4. \A j \in J : h[j] = order[j][1]
    OBVIOUS
  <2> HIDE DEF J, h
  <2>5. \A j \in J : h[j] \in Int /\ w[j] = h[j]
    <3> SUFFICES ASSUME NEW j \in J PROVE h[j] \in Int /\ w[j] = h[j]
      OBVIOUS
    <3>1. j \in I /\ w[j] = h[j]
      BY <1>5, <2>1, <2>4
    <3>2. PICK p \in P : w[j] = p /\ p \in Nat
      BY <1>13, <3>1
    <3>3. QED
      BY <3>1, <3>2
  <2>6. SumOn(w, J) = SumOn(h, J)
    BY <2>2, <2>5, SumAgrees
  <2>7. QED
    BY <2>3, <2>6 DEF J
<1>16. \A i \in I : w[i] \in Nat
  BY <1>13
<1>17. /\ \A t \in I : offset[t] \in Nat /\ offset[t] + w[t] <= pool
       /\ \A t, u \in I : t # u => \/ offset[t] + w[t] <= offset[u]
                                   \/ offset[u] + w[u] <= offset[t]
  BY <1>11, <1>14, <1>15, <1>16, PrefixSums DEF I
<1>18. ASSUME NEW t \in I, NEW i \in N, NEW l \in shared[t], l \in set(i)
       PROVE  /\ PageOf(ps[i], l) = w[t]
              /\ \E k : /\ order[t] = <<w[t], k>>
                        /\ k \in 1 .. Len(OfPage(ps[i], w[t])) /\ OfPage(ps[i], w[t])[k] = l
  <2>1. PICK p \in P : \E k \in 1 .. Slots(ps, p) :
          order[t] = <<p, k>> /\ w[t] = p /\ p \in Nat /\ shared[t] = SharedBy(ps, p, k)
    BY <1>13
  <2>2. PICK k \in 1 .. Slots(ps, p) :
          order[t] = <<p, k>> /\ w[t] = p /\ shared[t] = SharedBy(ps, p, k)
    BY <2>1
  <2>3. l \in SharedBy(ps, p, k) /\ p \in PagesIn(ps)
    BY <2>2, <1>18 DEF P
  <2>4. PICK j \in N : /\ l \in set(j) /\ PageOf(ps[j], l) = p
                       /\ k \in 1 .. Len(OfPage(ps[j], p)) /\ OfPage(ps[j], p)[k] = l
    BY <2>3, SharedAre DEF N, set
  <2>5. j = i
    BY <1>2, <1>18, <2>4
  <2>6. QED
    BY <2>2, <2>4, <2>5
<1>19. ASSUME NEW t \in I
       PROVE  UNION {{PageOf(g, l) : l \in shared[t] \cap ToSet(g.layers)} : g \in ToSet(ps)} = {w[t]}
  <2>1. ToSet(ps) = {ps[i] : i \in N}
    BY <1>2 DEF ToSet
  <2> DEFINE B(g) == {PageOf(g, l) : l \in shared[t] \cap ToSet(g.layers)}
  <2>2. \A i \in N : \A x \in B(ps[i]) : x = w[t]
    BY <1>18 DEF set
  <2>3. \E i \in N : w[t] \in B(ps[i])
    <3>1. PICK p \in P : \E k \in 1 .. Slots(ps, p) :
            order[t] = <<p, k>> /\ w[t] = p /\ p \in Nat /\ shared[t] = SharedBy(ps, p, k)
      BY <1>13
    <3>2. PICK k \in 1 .. Slots(ps, p) : w[t] = p /\ shared[t] = SharedBy(ps, p, k)
      BY <3>1
    <3>3. p \in PagesIn(ps)
      BY DEF P
    <3>4. PICK l : l \in SharedBy(ps, p, k)
      BY <3>3, SharedAre
    <3>5. PICK i \in N : l \in set(i) /\ PageOf(ps[i], l) = p
      BY <3>3, <3>4, SharedAre DEF N, set
    <3>6. QED
      BY <3>2, <3>4, <3>5 DEF set
  <2> HIDE DEF B
  <2>4. UNION {B(g) : g \in ToSet(ps)} = {w[t]}
    BY <2>1, <2>2, <2>3, ZenonT(60)
  <2>5. QED
    BY <2>4 DEF B
<1>20. IsPacked(M, shared, offset, w, pool, ps)
  BY <1>16, <1>17, <1>19 DEF IsPacked, I
<1>21. ASSUME NEW i \in N, NEW l \in set(i)
       PROVE  /\ 1 \in I /\ P # {}
              /\ \E t : IsPlace(t, ps[i], l, M, bytes, shared)
  <2> DEFINE p == PageOf(ps[i], l)
  <2>1. p \in P /\ p \in Nat
    BY SlotOfLayer DEF N, set, P
  <2>2. PICK k \in 1 .. Slots(ps, p) :
          l \in SharedBy(ps, p, k) /\ k \in 1 .. Len(OfPage(ps[i], p)) /\ OfPage(ps[i], p)[k] = l
    BY SlotOfLayer DEF N, set
  <2>3. \A j, h \in 1 .. Len(OfPage(ps[i], p)) :
          OfPage(ps[i], p)[j] = OfPage(ps[i], p)[h] => j = h
    BY SlotOfLayer, ZenonT(60) DEF N, set
  <2> HIDE DEF p
  <2>4. PICK t \in I : order[t] = <<p, k>>
    BY <1>3, <1>9, <2>1
  <2>5. shared[t] = SharedBy(ps, p, k) /\ w[t] = p /\ bytes[t] = pool
    <3>1. order[t][1] = p /\ order[t][2] = k
      BY <2>4
    <3>2. QED
      BY <1>5, <3>1
  <2>6. l \in shared[t]
    BY <2>2, <2>5
  <2>7. ASSUME NEW u \in I, NEW x \in shared[u], x \in set(i), PageOf(ps[i], x) = p
        PROVE  \E h : /\ order[u] = <<p, h>>
                      /\ h \in 1 .. Len(OfPage(ps[i], p)) /\ OfPage(ps[i], p)[h] = x
    <3>1. /\ PageOf(ps[i], x) = w[u]
          /\ \E h : /\ order[u] = <<w[u], h>>
                    /\ h \in 1 .. Len(OfPage(ps[i], w[u])) /\ OfPage(ps[i], w[u])[h] = x
      BY <1>18, <2>7
    <3>2. QED
      BY <2>7, <3>1
  <2>8. ASSUME NEW u \in I, l \in shared[u] PROVE u = t
    <3>1. PICK h : /\ order[u] = <<p, h>>
                   /\ h \in 1 .. Len(OfPage(ps[i], p)) /\ OfPage(ps[i], p)[h] = l
      BY <2>7, <2>8 DEF p
    <3>2. h = k
      BY <2>2, <2>3, <3>1
    <3>3. QED
      BY <1>8, <2>4, <3>1, <3>2
  <2>9. shared[t] \cap set(i) = {l}
    <3>1. ASSUME NEW x \in shared[t], x \in set(i) PROVE x = l
      <4>1. PageOf(ps[i], x) = p
        BY <1>18, <2>5, <3>1
      <4>2. PICK h : /\ order[t] = <<p, h>>
                     /\ h \in 1 .. Len(OfPage(ps[i], p)) /\ OfPage(ps[i], p)[h] = x
        BY <2>7, <3>1, <4>1
      <4>3. h = k
        BY <2>4, <4>2
      <4>4. QED
        BY <2>2, <4>2, <4>3
    <3>2. QED
      BY <2>6, <3>1
  <2>10. pool \in Nat /\ p <= pool
    <3>1. offset[t] \in Nat /\ offset[t] + p <= pool
      BY <1>17, <2>5
    <3>2. pool \in Nat
      BY PackedIs DEF pool
    <3>3. QED
      BY <2>1, <3>1, <3>2
  <2>11. PageOf(ps[i], l) = p /\ t \in 1 .. M
    BY DEF p, I
  <2>12. IsPlace(t, ps[i], l, M, bytes, shared)
    BY <2>1, <2>5, <2>6, <2>8, <2>9, <2>10, <2>11 DEF IsPlace, I, set
  <2>13. 1 \in I
    BY <1>11, <2>4 DEF I
  <2>14. QED
    BY <2>1, <2>12, <2>13
<1>22. \A i \in N : IsPlaced(ps[i], M, bytes, shared)
  BY <1>21 DEF IsPlaced, set
<1>23. M \in Nat \ {0} /\ pool \in Nat \ {0}
  <2>1. PICK i \in N : set(i) # {}
    BY DEF HasLayers, N, set
  <2>2. PICK l : l \in set(i)
    BY <2>1
  <2>3. 1 \in I /\ P # {}
    BY <1>21, <2>2
  <2>4. pool \in Nat \ {0}
    BY <2>3, PackedIs DEF pool, P
  <2>5. QED
    BY <1>11, <2>3, <2>4 DEF I
<1>24. \A i \in 1 .. M : bytes[i] = pool
  BY <1>5 DEF I
<1>25. QED
  BY <1>2, <1>12, <1>20, <1>22, <1>23, <1>24 DEF ts, pool

LEMMA PackedIsDisjoint ==
  ASSUME NEW c, NEW ps, c.groups = ps, NEW n,
         NEW M, NEW bytes, NEW shared, NEW offset, NEW pool, NEW w,
         IsLayout(c.tensors, M, bytes, shared, offset, pool, n),
         IsPacked(M, shared, offset, w, pool, ps)
  PROVE  PackedPagesDisjoint(c)
<1> DEFINE ts == c.tensors
           pages(t) == PagesAt(c, t)
           page(t) == Max(pages(t))
           end(t) == EndAt(c, t)
<1>1. DOMAIN ts = 1 .. M
  BY DEF IsLayout
<1>2. \A t \in 1 .. M : ts[t].shared = shared[t] /\ ts[t].offset = offset[t] /\ ts[t].stride = pool
  <2> SUFFICES ASSUME NEW t \in 1 .. M
               PROVE  ts[t].shared = shared[t] /\ ts[t].offset = offset[t] /\ ts[t].stride = pool
    OBVIOUS
  <2>1. ts[t] = [size |-> bytes[t] * n, shared |-> shared[t], offset |-> offset[t], stride |-> pool]
    BY DEF IsLayout, Tensor
  <2> HIDE DEF ts
  <2>2. QED
    BY <2>1
<1>3. \A t \in 1 .. M : pages(t) = {w[t]} /\ w[t] \in Nat
  <2> SUFFICES ASSUME NEW t \in 1 .. M PROVE pages(t) = {w[t]} /\ w[t] \in Nat
    OBVIOUS
  <2> DEFINE s == ts[t].shared
  <2>1. s = shared[t]
    BY <1>2
  <2>2. UNION {{PageOf(g, l) : l \in shared[t] \cap ToSet(g.layers)} : g \in ToSet(ps)} = {w[t]}
    BY DEF IsPacked
  <2> HIDE DEF s
  <2>3. UNION {{PageOf(g, l) : l \in s \cap ToSet(g.layers)} : g \in ToSet(ps)} = {w[t]}
    BY <2>1, <2>2
  <2>4. w[t] \in Nat
    BY DEF IsPacked
  <2>5. QED
    BY <2>3, <2>4 DEF s, PagesAt
<1>9. \A t : end(t) = ts[t].offset + page(t)
  BY DEF EndAt
<1> HIDE DEF pages, ts
<1>4. \A t \in 1 .. M : page(t) = w[t]
  <2> SUFFICES ASSUME NEW t \in 1 .. M PROVE page(t) = w[t]
    OBVIOUS
  <2> DEFINE S == pages(t)
             k == w[t]
  <2>1. S = {k} /\ k \in Nat
    BY <1>3
  <2> HIDE DEF S, k
  <2>2. S \in SUBSET Int /\ S # {} /\ IsFiniteSet(S)
    <3>1. IsFiniteSet({k})
      BY FS_Singleton
    <3>2. k \in Int
      BY <2>1
    <3>3. QED
      BY <2>1, <3>1, <3>2
  <2>3. Max(S) \in S
    BY <2>2, MaxIs
  <2>4. Max(S) = k
    BY <2>1, <2>3
  <2>5. QED
    BY <2>4 DEF S, k
<1> HIDE DEF page
<1>5. \A t \in 1 .. M : end(t) = offset[t] + w[t]
  BY <1>2, <1>4, <1>9
<1> HIDE DEF end
<1>6. /\ \A t \in 1 .. M : offset[t] + w[t] <= pool
      /\ \A t, u \in 1 .. M : t # u => offset[t] + w[t] <= offset[u] \/ offset[u] + w[u] <= offset[t]
  BY DEF IsPacked
<1>7. /\ \A t \in 1 .. M : end(t) <= ts[t].stride
      /\ \A t, u \in 1 .. M : t # u => end(t) <= ts[u].offset \/ end(u) <= ts[t].offset
  BY <1>2, <1>5, <1>6
<1>8. QED
  BY <1>1, <1>7 DEF PackedPagesDisjoint, end, ts

LEMMA PackedIsRoomy ==
  ASSUME NEW ps, NEW old, old.num \in Nat \ {0}, NEW c, c.num \in Nat, c.groups = ps,
         Resized(c.tensors, old, c.num), PoolBytesPerBlock(ps) \in Nat \ {0},
         NEW M \in Nat \ {0}, NEW bytes, NEW shared, NEW offset, NEW w,
         IsLayout(old.tensors, M, bytes, shared, offset, PoolBytesPerBlock(ps), old.num),
         \A i \in 1 .. M : bytes[i] = PoolBytesPerBlock(ps),
         \A i \in DOMAIN ps : IsPlaced(ps[i], M, bytes, shared),
         IsPacked(M, shared, offset, w, PoolBytesPerBlock(ps), ps)
  PROVE  IsRoomy(c, ps)
<1> DEFINE ts == c.tensors
           n == c.num
           pool == PoolBytesPerBlock(ps)
<1>1. /\ Resized(ts, old, n) /\ n \in Nat /\ pool \in Nat \ {0}
      /\ IsLayout(old.tensors, M, bytes, shared, offset, pool, old.num)
      /\ (\A i \in 1 .. M : bytes[i] = pool)
      /\ IsPacked(M, shared, offset, w, pool, ps)
  OBVIOUS
<1> HIDE DEF ts, n, pool
<1>2. \A i \in 1 .. M : bytes[i] \in Nat
  BY <1>1
<1>3. IsLayout(ts, M, bytes, shared, offset, pool, n)
  BY <1>1, <1>2, ResizedIs
<1>4. IsLayout(c.tensors, M, bytes, shared, offset, pool, c.num)
  BY <1>3 DEF ts, n
<1>5. PackedPagesDisjoint(c)
  BY <1>1, <1>4, PackedIsDisjoint
<1>6. Backing(c) = c.num * pool
  BY <1>1, <1>4, Aliased
<1>7. \A i \in DOMAIN ps : \A l \in ToSet(ps[i].layers) : HasItsRoom(c, ps[i], l)
  <2> SUFFICES ASSUME NEW i \in DOMAIN ps, NEW l \in ToSet(ps[i].layers)
               PROVE  HasItsRoom(c, ps[i], l)
    OBVIOUS
  <2> DEFINE g == ps[i]
  <2>1. PICK t : IsPlace(t, g, l, M, bytes, shared)
    BY DEF IsPlaced
  <2> HIDE DEF g
  <2>2. HasItsRoom(c, g, l)
    BY <1>4, <2>1, RoomIs
  <2>3. QED
    BY <2>2 DEF g
<1>8. QED
  BY <1>5, <1>6, <1>7 DEF IsRoomy, pool

-----------------------------------------------------------------------------
\* Every layer has its room.

LEMMA ConfigIs ==
  ASSUME NEW ps, ps # <<>>, NEW mem
  PROVE  /\ Config(ps, mem).num = NumBlocks(ps, mem)
         /\ SingleUniform(ps) =>
              Config(ps, mem).tensors = LayerTensors(ps[1], NumBlocks(ps, mem))
         /\ Packed(ps) => Config(ps, mem).tensors = PackedTensors(ps, NumBlocks(ps, mem))
         /\ ~SingleUniform(ps) /\ ~Packed(ps) =>
              Config(ps, mem).tensors = PooledTensors(ps, NumBlocks(ps, mem))
<1> DEFINE n == NumBlocks(ps, mem)
           ts == CASE SingleUniform(ps) ->
                        [i \in DOMAIN ps[1].layers |->
                           Tensor(PageOf(ps[1], ps[1].layers[i]) * n, {ps[1].layers[i]}, 0, 0)]
                   [] Packed(ps) -> PackedTensors(ps, n)
                   [] OTHER -> PooledTensors(ps, n)
<1>1. Config(ps, mem) = [num |-> n, tensors |-> ts, groups |-> ps]
  BY DEF Config
<1>2. SingleUniform(ps) => ~Packed(ps)
  BY DEF Packed
<1> HIDE DEF n
<1>3. CASE SingleUniform(ps)
  <2>1. ts = LayerTensors(ps[1], n)
    BY <1>2, <1>3 DEF LayerTensors
  <2> HIDE DEF ts
  <2>2. QED
    BY <1>1, <1>2, <1>3, <2>1 DEF n
<1>4. CASE Packed(ps)
  <2>1. ts = PackedTensors(ps, n)
    BY <1>2, <1>4
  <2> HIDE DEF ts
  <2>2. QED
    BY <1>1, <1>2, <1>4, <2>1 DEF n
<1>5. CASE ~SingleUniform(ps) /\ ~Packed(ps)
  <2>1. ts = PooledTensors(ps, n)
    BY <1>5
  <2> HIDE DEF ts
  <2>2. QED
    BY <1>1, <1>5, <2>1 DEF n
<1>6. QED
  BY <1>3, <1>4, <1>5

\* Whatever the layout, a worker's tensors, shrunk to the agreed number of blocks, have room
\* for every layer of its groups, and take that many times the bytes of a block.
LEMMA LayoutIsRoomy ==
  ASSUME NEW ps, NEW gs, NEW own, NEW D, IsShare(ps, gs, own, D), Len(gs) # 0, ps # <<>>,
         HasLayers(ps, gs), NEW mem, NumBlocks(ps, mem) \in Nat \ {0},
         PoolBytesPerBlock(ps) \in Nat \ {0},
         NEW n \in Nat, NEW c, c = Shrunk(Config(ps, mem), n)
  PROVE  IsRoomy(c, ps) /\ c.num = n
<1> DEFINE old == Config(ps, mem)
           num == NumBlocks(ps, mem)
<1>1. /\ c.num = n /\ c.groups = ps /\ Resized(c.tensors, old, n)
      /\ old.num = num /\ num \in Nat \ {0}
  BY ShrunkIs
<1>2. /\ SingleUniform(ps) => old.tensors = LayerTensors(ps[1], num)
      /\ Packed(ps) => old.tensors = PackedTensors(ps, num)
      /\ ~SingleUniform(ps) /\ ~Packed(ps) => old.tensors = PooledTensors(ps, num)
  BY ConfigIs
<1>3. /\ Len(gs) \in Nat /\ DOMAIN gs = 1 .. Len(gs) /\ DOMAIN ps = 1 .. Len(gs)
      /\ D \in SUBSET Nat /\ IsFiniteSet(D)
      /\ \A i \in 1 .. Len(gs) : IsGroup(gs[i], D) /\ IsProjection(ps[i], gs[i], own)
  BY ShareKeeps
<1>4. SingleUniform(ps) => ~Packed(ps)
  BY DEF Packed
<1> HIDE DEF old, num
<1>5. CASE SingleUniform(ps)
  <2> DEFINE q == ps[1]
             g == gs[1]
             M == Len(q.layers)
  <2>1. /\ Len(gs) = 1 /\ q.uniform /\ DOMAIN ps = {1}
        /\ IsGroup(g, D) /\ IsProjection(q, g, own)
    <3>1. Len(ps) = Len(gs) /\ Len(ps) = 1 /\ ps[1].uniform
      BY <1>5 DEF IsShare, SingleUniform
    <3>2. 1 \in 1 .. Len(gs) /\ 1 .. Len(gs) = {1}
      BY <3>1
    <3>3. QED
      BY <1>3, <3>1, <3>2
  <2>2. ToSet(q.layers) # {}
    <3>1. PICK i \in 1 .. Len(gs) : ToSet(ps[i].layers) # {}
      BY DEF HasLayers
    <3>2. i = 1
      BY <2>1, <3>1
    <3>3. QED
      BY <3>1, <3>2
  <2>3. PoolBytesPerBlock(ps) = AllPages(q)
    BY <1>4, <1>5 DEF PoolBytesPerBlock
  <2>4. old.tensors = LayerTensors(q, num)
    BY <1>2, <1>5
  <2>5. \A i \in DOMAIN ps : ps[i] = q
    BY <2>1
  <2> HIDE DEF q, g
  <2>6. g.uniform
    BY <2>1 DEF IsProjection
  <2>7. PICK bytes, shared, offset :
          /\ IsTiled(LayerTensors(q, num), M, bytes, shared, offset, num, AllPages(q))
          /\ IsPlaced(q, M, bytes, shared)
    BY <1>3, <2>1, <2>2, <2>6, UniformTensors
  <2> HIDE DEF M
  <2>8. /\ IsTiled(old.tensors, M, bytes, shared, offset, old.num, PoolBytesPerBlock(ps))
        /\ \A i \in DOMAIN ps : IsPlaced(ps[i], M, bytes, shared)
    BY <1>1, <2>3, <2>4, <2>5, <2>7
  <2>9. QED
    BY <1>1, <2>8, TiledIsRoomy
<1>6. CASE Packed(ps)
  <2> DEFINE pool == PackedBytes(ps)
  <2>1. PoolBytesPerBlock(ps) = pool
    BY <1>4, <1>6 DEF PoolBytesPerBlock
  <2>2. PICK M, bytes, shared, offset, w :
          /\ IsLayout(PackedTensors(ps, num), M, bytes, shared, offset, PackedBytes(ps), num)
          /\ M \in Nat \ {0} /\ PackedBytes(ps) \in Nat \ {0}
          /\ \A i \in 1 .. M : bytes[i] = PackedBytes(ps)
          /\ \A i \in DOMAIN ps : IsPlaced(ps[i], M, bytes, shared)
          /\ IsPacked(M, shared, offset, w, PackedBytes(ps), ps)
    BY PackedTensorsAre
  <2>3. /\ IsLayout(old.tensors, M, bytes, shared, offset, PoolBytesPerBlock(ps), old.num)
        /\ \A i \in 1 .. M : bytes[i] = PoolBytesPerBlock(ps)
        /\ \A i \in DOMAIN ps : IsPlaced(ps[i], M, bytes, shared)
        /\ IsPacked(M, shared, offset, w, PoolBytesPerBlock(ps), ps)
    BY <1>1, <1>2, <1>6, <2>1, <2>2
  <2>4. QED
    BY <1>1, <2>2, <2>3, PackedIsRoomy
<1>7. CASE ~SingleUniform(ps) /\ ~Packed(ps)
  <2> DEFINE page == PageSize(SpecOf(ps[1]))
  <2>1. ~AllUniform(gs)
    <3>1. ~AllUniform(ps)
      BY <1>7 DEF Packed
    <3>2. QED
      BY <3>1, ShareLayout
  <2>2. PageOfAll(ps, gs, page)
    BY <2>1, PlainShare
  <2>3. PoolBytesPerBlock(ps) = page * GroupSize(ps)
    BY <1>7 DEF PoolBytesPerBlock
  <2>4. page = PageSize(SpecOf(ps[1]))
    OBVIOUS
  <2> HIDE DEF page
  <2>5. PICK bytes, shared, offset :
          /\ IsTiled(PooledTensors(ps, num), GroupSize(ps), bytes, shared, offset, num,
                     page * GroupSize(ps))
          /\ \A i \in DOMAIN ps : IsPlaced(ps[i], GroupSize(ps), bytes, shared)
    BY <2>2, <2>4, PooledTensorsAre
  <2> DEFINE M == GroupSize(ps)
  <2>6. /\ IsTiled(old.tensors, M, bytes, shared, offset, old.num, PoolBytesPerBlock(ps))
        /\ \A i \in DOMAIN ps : IsPlaced(ps[i], M, bytes, shared)
    BY <1>1, <1>2, <1>7, <2>3, <2>5
  <2> HIDE DEF M
  <2>7. QED
    BY <1>1, <2>6, TiledIsRoomy
<1>8. QED
  BY <1>5, <1>6, <1>7

\* A worker's room, when there are groups and when there are none.
LEMMA WorkerHasRoom ==
  ASSUME SizingInv, Agreed, NEW w \in Workers
  PROVE  LET c == configs[w] IN
         /\ \A g \in ToSet(c.groups) : \A l \in ToSet(g.layers) : HasItsRoom(c, g, l)
         /\ PackedPagesDisjoint(c)
         /\ c.tensors = <<>> \/ Backing(c) <= avail[w]
<1> DEFINE c == configs[w]
           ps == Projected(w)
           mem == avail[w]
           own == scenario.owns[w]
<1>1. /\ c = Shrunk(Config(ps, mem), LeastBlocks) /\ c.groups = ps
      /\ IsShare(ps, groups, own, Layers)
  BY AgreedIs DEF Built
<1>2. CASE groups = <<>>
  <2>1. ps = <<>>
    BY <1>2 DEF Projected
  <2> HIDE DEF ps
  <2>2. c.groups = <<>>
    BY <1>1, <2>1
  <2>3. Resized(c.tensors, Config(ps, mem), LeastBlocks) /\ Config(ps, mem).tensors = <<>>
    BY <1>1, <2>1, ShrunkIs
  <2> HIDE DEF c
  <2>4. c.tensors = <<>>
    BY <2>3 DEF Resized
  <2>5. PackedPagesDisjoint(c)
    BY <2>4 DEF PackedPagesDisjoint
  <2>6. \A g \in ToSet(c.groups) : FALSE
    BY <2>2 DEF ToSet
  <2>7. QED
    BY <2>4, <2>5, <2>6 DEF c
<1>3. CASE groups # <<>>
  <2> DEFINE num == NumBlocks(ps, mem)
             pool == PoolBytesPerBlock(ps)
             least == LeastBlocks
  <2>1. /\ num \in Nat \ {0} /\ least \in Nat \ {0} /\ least <= num
        /\ ps # <<>> /\ num * pool <= mem /\ pool \in Nat \ {0}
    BY <1>3, BlocksOnAll
  <2>2. Len(groups) \in Nat \ {0} /\ HasLayers(ps, groups) /\ mem \in Int
    BY <1>3, AgreedWorker
  <2> HIDE DEF c, ps, mem, own, least
  <2>3. c = Shrunk(Config(ps, mem), least)
    BY <1>1 DEF least
  <2>4. IsRoomy(c, ps) /\ c.num = least
    BY <1>1, <2>1, <2>2, <2>3, LayoutIsRoomy
  <2>5. \A g \in ToSet(c.groups) : \A l \in ToSet(g.layers) : HasItsRoom(c, g, l)
    BY <1>1, <2>4 DEF IsRoomy, ToSet
  <2>6. PackedPagesDisjoint(c) /\ Backing(c) = least * pool
    BY <2>4 DEF IsRoomy
  <2> HIDE DEF num, pool
  <2>7. least * pool <= num * pool /\ least * pool \in Int /\ num * pool \in Int
    BY <2>1, Times
  <2>8. Backing(c) <= mem
    BY <2>1, <2>2, <2>6, <2>7
  <2>9. QED
    BY <2>5, <2>6, <2>8 DEF c, mem
<1>4. QED
  BY <1>2, <1>3

LEMMA TypesHold ==
  ASSUME SizingInv
  PROVE  SizingTypeOK
<1>1. GroupsOK(groups, Layers)
  BY DEF SizingInv, SizesTyped
<1>2. \A i \in DOMAIN groups : IsGroup(groups[i], Layers)
  BY <1>1 DEF GroupsOK, Apart
<1>3. \A i \in DOMAIN groups : /\ ToSet(groups[i].layers) = DOMAIN groups[i].specs
                               /\ DOMAIN groups[i].specs \in SUBSET Layers
  BY <1>2 DEF IsGroup
<1>4. UNION {ToSet(groups[i].layers) : i \in DOMAIN groups} \subseteq DOMAIN scenario.specs
  BY <1>3 DEF Layers
<1>5. \A w \in Workers : avail[w] = Unknown \/ avail[w] \in Int
  BY DEF SizingInv, SizesTyped
<1>6. QED
  BY <1>3, <1>4, <1>5 DEF SizingInv, SizesTyped, SizingTypeOK

\* A worker's layers have their room: each is in a group, in one tensor with a page for every
\* block, which no other layer writes under the same block, whichever layout the worker
\* takes and however far the workers' agreement shrinks it; and its tensors take no more
\* than its memory (get_kv_cache_config_from_groups, _get_kv_cache_config_packed, and the
\* shrinking at the end of get_kv_cache_configs).
THEOREM RoomForEveryLayer == SizingSpec => []EveryLayerHasItsRoom
<1>1. SizingInv => EveryLayerHasItsRoom
  <2> SUFFICES ASSUME SizingInv PROVE EveryLayerHasItsRoom
    OBVIOUS
  <2>1. SizingTypeOK
    BY TypesHold
  <2>2. ASSUME Agreed, NEW w \in Workers
        PROVE  LET c == configs[w] IN
               /\ UNION {ToSet(g.layers) : g \in ToSet(c.groups)} = scenario.owns[w]
               /\ \A g \in ToSet(c.groups) : \A l \in ToSet(g.layers) : HasItsRoom(c, g, l)
               /\ PackedPagesDisjoint(c)
               /\ c.tensors = <<>> \/ Backing(c) <= avail[w]
    BY <2>2, LayersCovered, WorkerHasRoom
  <2>3. QED
    BY <2>1, <2>2 DEF EveryLayerHasItsRoom
<1>2. QED
  BY <1>1, SizingInvariance, PTL

===============================================================================

------------------------- MODULE FreeBlockQueueProofs -------------------------
(***************************************************************************)
(* Proofs about FreeBlockQueue, for every number of blocks: the links are  *)
(* the order in both directions, a block has links exactly while the pool  *)
(* does not hold it, and the list implements the queue of FreeBlocks.      *)
(***************************************************************************)
EXTENDS FreeBlockQueue, FiniteSetTheorems, SequenceTheorems, TLAPS

\* Induction over the naturals, in the form the walks below need: the shift by
\* one is an injection of the counterexamples up to k into themselves, which the
\* pigeonhole principle makes onto; but nothing is shifted to k.
LEMMA Induction ==
  ASSUME NEW A \in SUBSET Nat, 0 \in A, \A n \in A : n + 1 \in A
  PROVE  A = Nat
<1> SUFFICES ASSUME NEW k \in Nat, k \notin A PROVE FALSE
  OBVIOUS
<1> DEFINE B == {x \in 0 .. k : x \notin A}
           f == [x \in B |-> x - 1]
<1>1. IsFiniteSet(B)
  <2>1. IsFiniteSet(0 .. k) BY FS_Interval
  <2>2. B \in SUBSET (0 .. k) OBVIOUS
  <2> HIDE DEF B
  <2> QED BY <2>1, <2>2, FS_Subset
<1>2. \A x \in B : x - 1 \in B
  <2> TAKE x \in B
  <2>1. x \in Nat /\ x # 0 OBVIOUS
  <2>2. x - 1 \in Nat /\ x = (x - 1) + 1 BY <2>1
  <2>3. x - 1 \notin A BY <2>2
  <2> QED BY <2>1, <2>3
<1>3. f \in Injection(B, B)
  <2>1. \A x \in B : x \in Int OBVIOUS
  <2>2. f \in [B -> B]
    <3> HIDE DEF B
    <3> QED BY <1>2
  <2>3. \A x, y \in B : f[x] = f[y] => x = y
    <3> HIDE DEF B
    <3> QED BY <2>1
  <2> HIDE DEF B, f
  <2> QED BY <2>2, <2>3 DEF Injection, IsInjective
<1>4. f \in Surjection(B, B)
  <2> HIDE DEF B, f
  <2> QED BY <1>1, <1>3, FS_Injection
<1>5. k \in B OBVIOUS
<1>6. \E y \in B : f[y] = k
  <2> HIDE DEF B, f
  <2> QED BY <1>4, <1>5 DEF Surjection
<1> QED BY <1>6

-----------------------------------------------------------------------------
\* What the links, the order and the blocks of the pool are to each other
Distinct(q) == \A i, j \in 1 .. Len(q) : q[i] = q[j] => i = j

Inv ==
  /\ next \in [Nodes -> Nodes \cup {None}]
  /\ prev \in [Nodes -> Nodes \cup {None}]
  /\ order \in Seq(Blocks)
  /\ Distinct(order)
  /\ held = Blocks \ ElementsOf(order)
  /\ LinksAreTheOrder
  /\ \A b \in held : next[b] = None /\ prev[b] = None

\* q is the order with what lies strictly between the positions a and z replaced
\* by l; position 0 is the fake head and Len(order) + 1 the fake tail
Spliced(q, a, l, z) ==
  /\ q \in Seq(Blocks)
  /\ Len(q) = a + Len(l) + Len(order) + 1 - z
  /\ \A i \in 1 .. Len(q) :
       q[i] = IF i <= a THEN order[i]
              ELSE IF i <= a + Len(l) THEN l[i - a]
              ELSE order[i - a - Len(l) - 1 + z]

Between(a, z) == {order[i] : i \in a + 1 .. z - 1}

\* The nodes of a chain are nodes, different ones if its blocks are.
LEMMA ChainNodes ==
  ASSUME NEW q \in Seq(Blocks), Distinct(q)
  PROVE  LET c == Chain(Head0, q, Tail0) IN
         /\ \A i \in 0 .. Len(q) + 1 : c[i] \in Nodes
         /\ \A i, j \in 0 .. Len(q) + 1 : c[i] = c[j] => i = j
         /\ c[0] = Head0 /\ c[Len(q) + 1] = Tail0
         /\ \A i \in 1 .. Len(q) : c[i] = q[i] /\ q[i] \in Blocks
<1>1. Len(q) \in Nat /\ \A i \in 1 .. Len(q) : q[i] \in Blocks
  OBVIOUS
<1>2. Head0 \notin Blocks /\ Tail0 \notin Blocks /\ Head0 # Tail0
  BY QueueAssumption
<1> QED
  BY <1>1, <1>2 DEF Chain, Nodes, Distinct

\* What NextLinks makes of a node: the nodes of the new chain are linked, those
\* taken out are not, the others are as they were.
LEMMA NextLinksValues ==
  ASSUME NEW left, NEW right, NEW l \in Seq(Blocks), NEW out,
         \A i, j \in 0 .. Len(l) : Chain(left, l, right)[i] = Chain(left, l, right)[j] => i = j,
         \A i \in 0 .. Len(l) : Chain(left, l, right)[i] \in Nodes \ out
  PROVE  LET d == Chain(left, l, right)
             N == NextLinks(left, l, right, out) IN
         /\ \A i \in 0 .. Len(l) : N[d[i]] = d[i + 1]
         /\ \A x \in Nodes : x \in out => N[x] = None
         /\ \A x \in Nodes \ out : (\A i \in 0 .. Len(l) : d[i] # x) => N[x] = next[x]
<1> DEFINE d == Chain(left, l, right)
           N == NextLinks(left, l, right, out)
           I(x) == {i \in 0 .. Len(l) : d[i] = x}
<1>1. N = [x \in Nodes |-> IF x \in out THEN None
                           ELSE IF I(x) # {} THEN d[(CHOOSE i \in I(x) : TRUE) + 1]
                           ELSE next[x]]
  BY DEF NextLinks
<1>2. \A i \in 0 .. Len(l) : I(d[i]) = {i}
  OBVIOUS
<1>3. \A i \in 0 .. Len(l) : (CHOOSE j \in {i} : TRUE) = i
  OBVIOUS
<1> HIDE DEF d, N, I
<1>4. ASSUME NEW i \in 0 .. Len(l) PROVE N[d[i]] = d[i + 1]
  <2>1. d[i] \in Nodes /\ d[i] \notin out BY DEF d
  <2>2. N[d[i]] = d[(CHOOSE j \in I(d[i]) : TRUE) + 1]
    BY <1>1, <1>2, <2>1
  <2> QED BY <2>2, <1>2, <1>3
<1>5. ASSUME NEW x \in Nodes \ out, \A i \in 0 .. Len(l) : d[i] # x PROVE N[x] = next[x]
  <2>1. I(x) = {} BY <1>5 DEF I
  <2> QED BY <1>1, <2>1
<1>6. \A x \in Nodes : x \in out => N[x] = None
  BY <1>1
<1> QED BY <1>4, <1>5, <1>6 DEF d, N

\* The same for PrevLinks.
LEMMA PrevLinksValues ==
  ASSUME NEW left, NEW right, NEW l \in Seq(Blocks), NEW out,
         \A i, j \in 1 .. Len(l) + 1 : Chain(left, l, right)[i] = Chain(left, l, right)[j] => i = j,
         \A i \in 1 .. Len(l) + 1 : Chain(left, l, right)[i] \in Nodes \ out
  PROVE  LET d == Chain(left, l, right)
             P == PrevLinks(left, l, right, out) IN
         /\ \A i \in 0 .. Len(l) : P[d[i + 1]] = d[i]
         /\ \A x \in Nodes : x \in out => P[x] = None
         /\ \A x \in Nodes \ out : (\A i \in 0 .. Len(l) : d[i + 1] # x) => P[x] = prev[x]
<1> DEFINE d == Chain(left, l, right)
           P == PrevLinks(left, l, right, out)
           I(x) == {i \in 0 .. Len(l) : d[i + 1] = x}
<1>1. P = [x \in Nodes |-> IF x \in out THEN None
                           ELSE IF I(x) # {} THEN d[CHOOSE i \in I(x) : TRUE]
                           ELSE prev[x]]
  BY DEF PrevLinks
<1>2. \A i \in 0 .. Len(l) : I(d[i + 1]) = {i}
  OBVIOUS
<1>3. \A i \in 0 .. Len(l) : (CHOOSE j \in {i} : TRUE) = i
  OBVIOUS
<1> HIDE DEF d, P, I
<1>4. ASSUME NEW i \in 0 .. Len(l) PROVE P[d[i + 1]] = d[i]
  <2>1. i + 1 \in 1 .. Len(l) + 1 OBVIOUS
  <2>2. d[i + 1] \in Nodes /\ d[i + 1] \notin out BY <2>1 DEF d
  <2>3. P[d[i + 1]] = d[CHOOSE j \in I(d[i + 1]) : TRUE]
    BY <1>1, <1>2, <2>2
  <2> QED BY <2>3, <1>2, <1>3
<1>5. ASSUME NEW x \in Nodes \ out, \A i \in 0 .. Len(l) : d[i + 1] # x PROVE P[x] = prev[x]
  <2>1. I(x) = {} BY <1>5 DEF I
  <2> QED BY <1>1, <2>1
<1>6. \A x \in Nodes : x \in out => P[x] = None
  BY <1>1
<1> QED BY <1>4, <1>5, <1>6 DEF d, P

\* Every call that changes the list is one splice: the invariant survives it, and
\* the blocks in the list become the old ones without those taken out and with
\* those put in.
LEMMA RelinkSplices ==
  ASSUME Inv,
         NEW a \in 0 .. Len(order), NEW z \in a + 1 .. Len(order) + 1,
         NEW l \in Seq(Blocks), Distinct(l), ElementsOf(l) \subseteq held,
         Spliced(order', a, l, z), num' = Len(order'),
         held' = (held \cup Between(a, z)) \ ElementsOf(l),
         LET c == Chain(Head0, order, Tail0) IN Relink(c[a], l, c[z], Between(a, z))
  PROVE  Inv'
<1> DEFINE c == Chain(Head0, order, Tail0)
           d == Chain(c[a], l, c[z])
           e == Chain(Head0, order', Tail0)
           L == Len(order)
           n == Len(l)
           M == Len(order')
           out == Between(a, z)
<1>1. /\ L \in Nat /\ n \in Nat /\ M \in Nat /\ M = a + n + L + 1 - z
      /\ a \in Nat /\ z \in Nat /\ a < z /\ z <= L + 1
      /\ a \in 0 .. L + 1 /\ z \in 0 .. L + 1
      /\ order \in Seq(Blocks) /\ order' \in Seq(Blocks) /\ Distinct(order)
  BY DEF Inv, Spliced
<1>2. /\ \A i \in 0 .. L + 1 : c[i] \in Nodes
      /\ \A i, j \in 0 .. L + 1 : c[i] = c[j] => i = j
      /\ c[0] = Head0 /\ c[L + 1] = Tail0
      /\ \A i \in 1 .. L : c[i] = order[i] /\ order[i] \in Blocks
  BY <1>1, ChainNodes
<1>3. \A i \in 1 .. n : l[i] \in Blocks /\ \A j \in 0 .. L + 1 : l[i] # c[j]
  <2> TAKE i \in 1 .. n
  <2>1. l[i] \in Blocks /\ l[i] \in held BY DEF ElementsOf
  <2>2. l[i] \notin ElementsOf(order) BY <2>1 DEF Inv
  <2>3. \A j \in 1 .. L : l[i] # c[j] BY <2>2, <1>2 DEF ElementsOf
  <2>4. l[i] # c[0] /\ l[i] # c[L + 1] BY <2>1, <1>2, QueueAssumption
  <2> QED BY <2>1, <2>3, <2>4, <1>1
<1>4. \A i, j \in 1 .. n : l[i] = l[j] => i = j
  BY DEF Distinct
<1>5. \A i \in 0 .. n + 1 : d[i] = IF i = 0 THEN c[a] ELSE IF i = n + 1 THEN c[z] ELSE l[i]
  BY DEF Chain
<1>6. \A x : x \in out <=> \E j \in a + 1 .. z - 1 : x = c[j]
  <2>1. \A j \in a + 1 .. z - 1 : j \in 1 .. L BY <1>1
  <2>2. out = {order[j] : j \in a + 1 .. z - 1} BY DEF Between
  <2> HIDE DEF c, out, L
  <2> QED BY <2>1, <2>2, <1>2
<1>6a. \A j \in 0 .. L + 1 : j <= a \/ z <= j => c[j] \in Nodes \ out
  <2> HIDE DEF c, out, L
  <2> TAKE j \in 0 .. L + 1
  <2> HAVE j <= a \/ z <= j
  <2>1. \A k \in a + 1 .. z - 1 : k \in 0 .. L + 1 /\ k # j BY <1>1
  <2>2. c[j] \notin out BY <2>1, <1>2, <1>6
  <2> QED BY <2>2, <1>2
<1> HIDE DEF c, d, out, L, n, M
<1>6b. \A k \in 0 .. n : /\ d[k] = c[a] \/ \E m \in 1 .. n : d[k] = l[m]
                         /\ d[k + 1] = c[z] \/ \E m \in 1 .. n : d[k + 1] = l[m]
  <2> TAKE k \in 0 .. n
  <2>1. d[k] = c[a] \/ \E m \in 1 .. n : d[k] = l[m]
    <3>1. k = 0 \/ k \in 1 .. n BY <1>1
    <3>2. k \in 0 .. n + 1 /\ k # n + 1 BY <1>1
    <3> QED BY <3>1, <3>2, <1>5
  <2>2. d[k + 1] = c[z] \/ \E m \in 1 .. n : d[k + 1] = l[m]
    <3>1. k + 1 = n + 1 \/ k + 1 \in 1 .. n BY <1>1
    <3>2. k + 1 \in 0 .. n + 1 /\ k + 1 # 0 BY <1>1
    <3> QED BY <3>1, <3>2, <1>5
  <2> QED BY <2>1, <2>2
<1>7. /\ \A i \in 0 .. n + 1 : d[i] \in Nodes \ out
      /\ \A i, j \in 0 .. n + 1 : d[i] = d[j] => i = j
  <2>1. c[a] \in Nodes \ out /\ c[z] \in Nodes \ out /\ c[a] # c[z]
    <3>1. a \in 0 .. L + 1 /\ z \in 0 .. L + 1 /\ a <= a /\ z <= z /\ a # z
      BY ONLY <1>1
    <3> QED BY ONLY <3>1, <1>2, <1>6a
  <2>2. \A i \in 1 .. n : l[i] \in Nodes \ out /\ l[i] # c[a] /\ l[i] # c[z]
    <3> TAKE i \in 1 .. n
    <3>1. \A j \in a + 1 .. z - 1 : j \in 0 .. L + 1 BY <1>1
    <3>2. l[i] \notin out BY <3>1, <1>3, <1>6
    <3>3. l[i] \in Nodes BY <1>3 DEF Nodes
    <3> QED BY <3>2, <3>3, <1>1, <1>3
  <2> QED BY <1>1, <1>4, <1>5, <2>1, <2>2
<1>8. /\ next' = NextLinks(c[a], l, c[z], out)
      /\ prev' = PrevLinks(c[a], l, c[z], out)
  BY DEF Relink, c, out
<1>8a. l \in Seq(Blocks) OBVIOUS
<1>9. /\ \A i \in 0 .. n : next'[d[i]] = d[i + 1]
      /\ \A x \in Nodes : x \in out => next'[x] = None
      /\ \A x \in Nodes \ out : (\A i \in 0 .. n : d[i] # x) => next'[x] = next[x]
  <2>1. /\ \A i, j \in 0 .. n : d[i] = d[j] => i = j
        /\ \A i \in 0 .. n : d[i] \in Nodes \ out
    <3>1. \A i \in 0 .. n : i \in 0 .. n + 1 BY <1>1
    <3> QED BY <3>1, <1>7
  <2> QED BY ONLY <2>1, <1>8, <1>8a, NextLinksValues DEF d, n
<1>10. /\ \A i \in 0 .. n : prev'[d[i + 1]] = d[i]
       /\ \A x \in Nodes : x \in out => prev'[x] = None
       /\ \A x \in Nodes \ out : (\A i \in 0 .. n : d[i + 1] # x) => prev'[x] = prev[x]
  <2>1. /\ \A i, j \in 1 .. n + 1 : d[i] = d[j] => i = j
        /\ \A i \in 1 .. n + 1 : d[i] \in Nodes \ out
    <3>1. \A i \in 1 .. n + 1 : i \in 0 .. n + 1 BY <1>1
    <3> QED BY <3>1, <1>7
  <2> QED BY ONLY <2>1, <1>8, <1>8a, PrevLinksValues, SMTT(30) DEF d, n
<1>11. /\ \A i \in 0 .. L : next[c[i]] = c[i + 1] /\ prev[c[i + 1]] = c[i]
       /\ next[Tail0] = None /\ prev[Head0] = None
  BY DEF Inv, LinksAreTheOrder, c, L
<1>12. \A i \in 0 .. M + 1 :
         e[i] = IF i <= a THEN c[i] ELSE IF i <= a + n THEN d[i - a] ELSE c[i - a - n - 1 + z]
  <2> TAKE i \in 0 .. M + 1
  <2>1. CASE i = 0
    BY <2>1, <1>1, <1>2 DEF Chain, M
  <2>2. CASE i = M + 1
    BY <2>2, <1>1, <1>2 DEF Chain, M
  <2>3. CASE i \in 1 .. M
    <3>1. e[i] = order'[i]
      <4>1. i # 0 /\ i # M + 1 BY <2>3, <1>1
      <4> QED BY <4>1 DEF Chain, M
    <3>2. order'[i] = IF i <= a THEN order[i]
                      ELSE IF i <= a + n THEN l[i - a] ELSE order[i - a - n - 1 + z]
      BY <2>3 DEF Spliced, M, n
    <3>3. CASE i <= a
      BY <3>1, <3>2, <3>3, <2>3, <1>1, <1>2
    <3>4. CASE a < i /\ i <= a + n
      <4>1. i - a \in 0 .. n + 1 /\ i - a # 0 /\ i - a # n + 1 /\ ~(i <= a)
        BY <3>4, <1>1, <2>3
      <4>2. d[i - a] = l[i - a] BY <4>1, <1>5
      <4> QED BY <3>1, <3>2, <3>4, <4>1, <4>2
    <3>5. CASE a + n < i
      <4>1. i - a - n - 1 + z \in 1 .. L BY <3>5, <1>1, <2>3
      <4> QED BY <3>1, <3>2, <3>5, <4>1, <1>1, <1>2
    <3> QED BY <3>3, <3>4, <3>5, <2>3, <1>1
  <2> QED BY <2>1, <2>2, <2>3, <1>1
<1> HIDE DEF e
<1>12a. \A i \in 0 .. M : i \in 0 .. M + 1 /\ i + 1 \in 0 .. M + 1
  BY <1>1
<1>13. ASSUME NEW i \in 0 .. M
       PROVE  next'[e[i]] = e[i + 1] /\ prev'[e[i + 1]] = e[i]
  <2>1. CASE i < a
    <3>0. i \in 0 .. L /\ i + 1 <= a /\ i <= a /\ i \in 0 .. L + 1 /\ i + 1 \in 0 .. L + 1
      BY <2>1, <1>1
    <3>1. e[i] = c[i] /\ e[i + 1] = c[i + 1]
      BY <3>0, <1>12, <1>12a
    <3>2. c[i] \in Nodes \ out /\ c[i + 1] \in Nodes \ out
      BY <3>0, <1>6a
    <3>3. \A j \in 0 .. n : d[j] # c[i] /\ d[j + 1] # c[i + 1]
      <4>1. i # a /\ i + 1 # z BY <2>1, <1>1
      <4>2. c[i] # c[a] /\ c[i] # c[z] /\ c[i + 1] # c[z]
        BY <4>1, <3>0, <2>1, <1>1, <1>2
      <4>3. \A j \in 1 .. n : l[j] # c[i] /\ l[j] # c[i + 1] BY <3>0, <1>3
      <4> QED BY <4>2, <4>3, <1>1, <1>5
    <3> QED BY <3>0, <3>1, <3>2, <3>3, <1>9, <1>10, <1>11
  <2>2. CASE a <= i /\ i <= a + n
    <3>1. i - a \in 0 .. n /\ (i - a) + 1 = (i + 1) - a BY <2>2, <1>1
    <3>2. e[i] = d[i - a] BY <2>2, <3>1, <1>1, <1>12, <1>5
    <3>3. e[i + 1] = d[(i - a) + 1]
      <4>1. CASE i = a + n
        <5>1. ~(i + 1 <= a) /\ ~(i + 1 <= a + n) /\ (i + 1) - a - n - 1 + z = z
          BY <4>1, <1>1
        <5>2. e[i + 1] = c[z] BY <5>1, <1>12, <1>12a
        <5>3. (i - a) + 1 = n + 1 /\ n + 1 \in 0 .. n + 1 /\ n + 1 # 0 BY <4>1, <1>1
        <5> QED BY <5>2, <5>3, <1>5
      <4>2. CASE i < a + n
        <5>1. ~(i + 1 <= a) /\ i + 1 <= a + n BY <4>2, <2>2, <1>1
        <5> QED BY <5>1, <3>1, <1>12, <1>12a
      <4>3. i = a + n \/ i < a + n BY <2>2, <1>1
      <4> QED BY <4>1, <4>2, <4>3
    <3> QED BY <3>1, <3>2, <3>3, <1>9, <1>10
  <2>3. CASE a + n < i
    <3> DEFINE j == i - a - n - 1 + z
    <3>1. /\ j \in z .. L /\ j + 1 = (i + 1) - a - n - 1 + z
          /\ ~(i <= a) /\ ~(i <= a + n) /\ ~(i + 1 <= a) /\ ~(i + 1 <= a + n)
          /\ j \in 0 .. L + 1 /\ j + 1 \in 0 .. L + 1 /\ z <= j /\ z <= j + 1
          /\ j # a /\ j + 1 # z /\ j + 1 # a
      BY <2>3, <1>1
    <3>2. e[i] = c[j] /\ e[i + 1] = c[j + 1] BY <3>1, <1>12, <1>12a
    <3>3. c[j] \in Nodes \ out /\ c[j + 1] \in Nodes \ out
      BY <3>1, <1>6a
    <3>4. \A k \in 0 .. n : d[k] # c[j] /\ d[k + 1] # c[j + 1]
      <4> HIDE DEF j
      <4>1. c[j] # c[a] /\ c[j + 1] # c[z] BY <3>1, <1>1, <1>2
      <4>2. \A k \in 1 .. n : l[k] # c[j] /\ l[k] # c[j + 1] BY <3>1, <1>3
      <4>3. ASSUME NEW k \in 0 .. n PROVE d[k] # c[j] BY <4>1, <4>2, <1>6b
      <4>4. ASSUME NEW k \in 0 .. n PROVE d[k + 1] # c[j + 1]
        <5>1. d[k + 1] = c[z] \/ \E m \in 1 .. n : d[k + 1] = l[m] BY <1>6b
        <5> QED BY <4>1, <4>2, <5>1
      <4> QED BY <4>3, <4>4
    <3>5. j \in 0 .. L BY <3>1, <1>1
    <3> HIDE DEF j
    <3> QED BY <3>2, <3>3, <3>4, <3>5, <1>9, <1>10, <1>11
  <2> QED BY <2>1, <2>2, <2>3, <1>1
<1>14. next'[Tail0] = None /\ prev'[Head0] = None
  <2>1. Tail0 = c[L + 1] /\ Tail0 \in Nodes \ out /\ Head0 = c[0] /\ Head0 \in Nodes \ out
    <3>1. 0 \in 0 .. L + 1 /\ L + 1 \in 0 .. L + 1 /\ 0 <= a /\ z <= L + 1 BY <1>1
    <3> QED BY <3>1, <1>2, <1>6a
  <2>2. \A i \in 0 .. n : d[i] # Tail0 /\ d[i + 1] # Head0
    <3>1. c[a] # Tail0 /\ c[z] # Head0 BY <2>1, <1>1, <1>2
    <3>2. \A j \in 1 .. n : l[j] # Tail0 /\ l[j] # Head0
      BY <1>3, QueueAssumption
    <3>3. ASSUME NEW i \in 0 .. n PROVE d[i] # Tail0 BY <3>1, <3>2, <1>6b
    <3>4. ASSUME NEW i \in 0 .. n PROVE d[i + 1] # Head0
      <4>1. d[i + 1] = c[z] \/ \E m \in 1 .. n : d[i + 1] = l[m] BY <1>6b
      <4> QED BY <3>1, <3>2, <4>1
    <3> QED BY <3>3, <3>4
  <2> QED BY <2>1, <2>2, <1>9, <1>10, <1>11
<1>15. /\ next' \in [Nodes -> Nodes \cup {None}]
       /\ prev' \in [Nodes -> Nodes \cup {None}]
  <2>1. \A x \in Nodes : next'[x] \in Nodes \cup {None}
    <3> TAKE x \in Nodes
    <3>1. CASE \E i \in 0 .. n : d[i] = x
      <4>1. PICK i \in 0 .. n : d[i] = x BY <3>1
      <4>2. i + 1 \in 0 .. n + 1 BY <1>1
      <4> QED BY <4>1, <4>2, <1>7, <1>9
    <3>2. CASE x \in out BY <3>2, <1>9
    <3>3. CASE x \notin out /\ \A i \in 0 .. n : d[i] # x
      BY <3>3, <1>9 DEF Inv
    <3> QED BY <3>1, <3>2, <3>3
  <2>2. \A x \in Nodes : prev'[x] \in Nodes \cup {None}
    <3> TAKE x \in Nodes
    <3>1. CASE \E i \in 0 .. n : d[i + 1] = x
      <4>1. PICK i \in 0 .. n : d[i + 1] = x BY <3>1
      <4>2. i \in 0 .. n + 1 BY <1>1
      <4> QED BY <4>1, <4>2, <1>7, <1>10
    <3>2. CASE x \in out BY <3>2, <1>10
    <3>3. CASE x \notin out /\ \A i \in 0 .. n : d[i + 1] # x
      BY <3>3, <1>10 DEF Inv
    <3> QED BY <3>1, <3>2, <3>3
  <2>3. next' = [x \in Nodes |-> next'[x]] /\ prev' = [x \in Nodes |-> prev'[x]]
    BY ONLY <1>8 DEF NextLinks, PrevLinks
  <2> QED BY <2>1, <2>2, <2>3
<1>16. ElementsOf(order') = (ElementsOf(order) \ out) \cup ElementsOf(l)
  <2>1. \A x : x \in ElementsOf(order') <=> \E i \in 1 .. M : e[i] = x
    BY DEF ElementsOf, e, Chain, M
  <2>2. \A x : x \in ElementsOf(order) <=> \E i \in 1 .. L : c[i] = x
    BY <1>2 DEF ElementsOf, L
  <2>3. \A x : x \in ElementsOf(l) <=> \E i \in 1 .. n : l[i] = x
    BY DEF ElementsOf, n
  <2>4. ASSUME NEW i \in 1 .. M
        PROVE  e[i] \in (ElementsOf(order) \ out) \cup ElementsOf(l)
    <3>1. CASE i <= a
      <4>1. i \in 1 .. L /\ i \in 0 .. L + 1 /\ i \in 0 .. M + 1 BY <3>1, <1>1
      <4>2. e[i] = c[i] /\ c[i] \notin out BY <3>1, <4>1, <1>12, <1>6a
      <4> QED BY <4>1, <4>2, <2>2
    <3>2. CASE a < i /\ i <= a + n
      <4>1. i - a \in 1 .. n /\ e[i] = d[i - a] BY <3>2, <1>1, <1>12
      <4>2. i - a \in 0 .. n + 1 /\ i - a # 0 /\ i - a # n + 1 BY ONLY <4>1, <1>1
      <4>3. d[i - a] = l[i - a] BY ONLY <4>2, <1>5
      <4> QED BY <4>1, <4>3, <2>3
    <3>3. CASE a + n < i
      <4> DEFINE j == i - a - n - 1 + z
      <4>1. e[i] = c[j] /\ j \in z .. L BY <3>3, <1>1, <1>12
      <4> HIDE DEF j
      <4>2. j \in 1 .. L /\ j \in 0 .. L + 1 BY <4>1, <1>1, SMTT(30)
      <4>3. c[j] \notin out BY <4>1, <4>2, <1>1, <1>2, <1>6
      <4> QED BY <4>1, <4>2, <4>3, <2>2
    <3> QED BY <3>1, <3>2, <3>3, <1>1
  <2>5. ASSUME NEW i \in 1 .. L, c[i] \notin out
        PROVE  \E k \in 1 .. M : e[k] = c[i]
    <3>1. i <= a \/ z <= i BY <2>5, <1>1, <1>6
    <3>2. CASE i <= a
      <4>1. i \in 1 .. M /\ e[i] = c[i] BY <3>2, <1>1, <1>12
      <4> QED BY <4>1
    <3>3. CASE z <= i
      <4> DEFINE k == i + a + n + 1 - z
      <4>1. k \in 1 .. M /\ k > a + n /\ k - a - n - 1 + z = i BY <3>3, <1>1
      <4>2. e[k] = c[i] BY <4>1, <1>1, <1>12
      <4> QED BY <4>1, <4>2
    <3> QED BY <3>1, <3>2, <3>3
  <2>6. ASSUME NEW i \in 1 .. n PROVE \E k \in 1 .. M : e[k] = l[i]
    <3>1. i + a \in 1 .. M /\ i + a > a /\ i + a <= a + n /\ (i + a) - a = i BY <1>1
    <3>2. i + a \in 0 .. M + 1 /\ i \in 0 .. n + 1 /\ i # 0 /\ i # n + 1 /\ ~(i + a <= a)
      BY <3>1, <1>1
    <3>3. e[i + a] = d[i] BY <3>1, <3>2, <1>12
    <3> QED BY <3>1, <3>2, <3>3, <1>5
  <2> QED BY <2>1, <2>2, <2>3, <2>4, <2>5, <2>6, SMTT(30)
<1>17. Distinct(order')
  <2> SUFFICES ASSUME NEW i \in 1 .. M, NEW j \in 1 .. M, e[i] = e[j] PROVE i = j
    <3>1. \A k \in 1 .. M : e[k] = order'[k] BY <1>1 DEF e, Chain, M
    <3> QED BY <3>1 DEF Distinct, M
  <2> DEFINE P(k) == IF k <= a THEN k ELSE k - a - n - 1 + z
             New(k) == a < k /\ k <= a + n
  <2>1. \A k \in 1 .. M : New(k) => e[k] = l[k - a] /\ k - a \in 1 .. n
    <3> TAKE k \in 1 .. M
    <3> HAVE New(k)
    <3>1. k - a \in 1 .. n /\ k - a \in 0 .. n + 1 /\ k - a # 0 /\ k - a # n + 1
          /\ k \in 0 .. M + 1 /\ ~(k <= a)
      BY <1>1
    <3> QED BY <3>1, <1>5, <1>12
  <2>2. \A k \in 1 .. M : ~New(k) => e[k] = c[P(k)] /\ P(k) \in 0 .. L + 1
    <3> TAKE k \in 1 .. M
    <3> HAVE ~New(k)
    <3>1. k \in 0 .. M + 1 /\ P(k) \in 0 .. L + 1 /\ (k <= a \/ ~(k <= a + n)) BY <1>1
    <3> QED BY <3>1, <1>1, <1>12
  <2>3. CASE New(i) /\ New(j)
    <3>1. i - a = j - a BY <2>3, <2>1, <1>4
    <3> QED BY <3>1, <1>1
  <2>4. CASE ~New(i) /\ ~New(j)
    <3>1. P(i) = P(j) BY <2>4, <2>2, <1>2, SMTT(30)
    <3> QED BY <3>1, <2>4, <1>1
  <2>5. CASE New(i) /\ ~New(j)
    BY <2>5, <2>1, <2>2, <1>3, SMTT(30)
  <2>6. CASE ~New(i) /\ New(j)
    BY <2>6, <2>1, <2>2, <1>3
  <2> QED BY <2>3, <2>4, <2>5, <2>6
<1>18. held' = Blocks \ ElementsOf(order')
  <2>1. out \subseteq Blocks BY <1>1, <1>2, <1>6, SMTT(30)
  <2>2. held = Blocks \ ElementsOf(order) BY DEF Inv
  <2>3. held' = (held \cup out) \ ElementsOf(l) BY DEF out
  <2>4. out \subseteq ElementsOf(order) BY <1>1, <1>2, <1>6 DEF ElementsOf, L
  <2> QED BY <2>1, <2>2, <2>3, <2>4, <1>16
<1>19. \A b \in held' : next'[b] = None /\ prev'[b] = None
  <2> TAKE b \in held'
  <2>1. b \in Nodes /\ b \notin ElementsOf(l) BY <1>18, <1>16 DEF Nodes
  <2>2. CASE b \in out BY <2>1, <2>2, <1>9, <1>10
  <2>3. CASE b \notin out
    <3>1. b \in held BY <2>3, <1>18, <1>16 DEF Inv
    <3>2. \A i \in 1 .. L : b # c[i]
      <4>1. b \notin {order[i] : i \in 1 .. L} BY <3>1 DEF Inv, ElementsOf, L
      <4> QED BY <4>1, <1>2
    <3>3. b \in Blocks /\ b # c[0] /\ b # c[L + 1]
      BY <3>1, <1>2, QueueAssumption DEF Inv
    <3>4. \A i \in 1 .. n : l[i] # b BY <2>1 DEF ElementsOf, n
    <3>5. b # c[a] /\ b # c[z]
      <4>1. \A i \in 0 .. L + 1 : i = 0 \/ i = L + 1 \/ i \in 1 .. L BY <1>1
      <4> QED BY <4>1, <3>2, <3>3, <1>1
    <3>6. \A i \in 0 .. n : d[i] # b /\ d[i + 1] # b BY ONLY <3>4, <3>5, <1>6b
    <3>7. next[b] = None /\ prev[b] = None BY <3>1 DEF Inv
    <3> QED BY <2>1, <2>3, <3>6, <3>7, <1>9, <1>10
  <2> QED BY <2>2, <2>3
<1>20. LinksAreTheOrder'
  BY <1>13, <1>14 DEF LinksAreTheOrder, e, M
<1> QED
  BY <1>1, <1>15, <1>17, <1>18, <1>19, <1>20 DEF Inv

\* A walk along next_free_block from the fake head passes the order's blocks.
LEMMA WalkFollowsOrder ==
  ASSUME Inv, NEW n \in 0 .. Len(order), NEW l \in Seq(Blocks), Len(l) = n, IsWalk(l)
  PROVE  l = SubSeq(order, 1, n)
<1> DEFINE c == Chain(Head0, order, Tail0)
           A == {i \in Nat : i + 1 \in 1 .. n => l[i + 1] = order[i + 1]}
<1>1. order \in Seq(Blocks) /\ Distinct(order) /\ Len(order) \in Nat /\ n \in Nat
  BY DEF Inv
<1>2. \A i \in 0 .. Len(order) : next[c[i]] = c[i + 1]
  BY DEF Inv, LinksAreTheOrder
<1>3. c[0] = Head0 /\ \A i \in 1 .. Len(order) : c[i] = order[i]
  BY <1>1, ChainNodes
<1>4. \A i \in 0 .. n - 1 : next[IF i = 0 THEN Head0 ELSE order[i]] = order[i + 1]
  <2> HIDE DEF c
  <2> TAKE i \in 0 .. n - 1
  <2>1. i \in 0 .. Len(order) /\ i + 1 \in 1 .. Len(order) BY <1>1
  <2>2. i = 0 \/ i \in 1 .. Len(order) BY <2>1, <1>1
  <2> QED BY <2>1, <2>2, <1>2, <1>3
<1>5. A \in SUBSET Nat OBVIOUS
<1>6. 0 \in A
  <2>1. 1 \in 1 .. n => l[1] = next[Head0] BY <1>1 DEF IsWalk
  <2>2. 1 \in 1 .. n => next[Head0] = order[1] BY <1>1, <1>4
  <2> QED BY <2>1, <2>2
<1>7. \A i \in A : i + 1 \in A
  <2> SUFFICES ASSUME NEW i \in A, (i + 1) + 1 \in 1 .. n
               PROVE  l[(i + 1) + 1] = order[(i + 1) + 1]
    OBVIOUS
  <2>1. i \in Nat /\ i + 1 \in 1 .. n /\ i + 1 \in 0 .. n - 1 /\ i + 1 # 0 BY <1>1
  <2>2. l[i + 1] = order[i + 1] BY <2>1
  <2>3. l[(i + 1) + 1] = next[l[i + 1]]
    <3>1. (i + 1) + 1 # 1 /\ ((i + 1) + 1) - 1 = i + 1 BY <2>1
    <3> QED BY <3>1, <1>1 DEF IsWalk
  <2>4. next[order[i + 1]] = order[(i + 1) + 1] BY <2>1, <1>4
  <2> QED BY <2>2, <2>3, <2>4
<1>8. A = Nat
  <2> HIDE DEF A
  <2> QED BY <1>5, <1>6, <1>7, Induction
<1>9. \A i \in 1 .. n : l[i] = order[i]
  <2> TAKE i \in 1 .. n
  <2>1. i - 1 \in Nat /\ (i - 1) + 1 = i BY <1>1
  <2>2. i - 1 \in A BY <2>1, <1>8
  <2> QED BY <2>1, <2>2
<1>10. SubSeq(order, 1, n) = [i \in 1 .. n |-> order[i]]
  BY <1>1
<1>11. l = [i \in 1 .. n |-> l[i]]
  BY <1>1
<1> QED BY <1>9, <1>10, <1>11

-----------------------------------------------------------------------------
\* Where the links lead, as the calls read them.
LEMMA LinksRead ==
  ASSUME Inv
  PROVE  LET c == Chain(Head0, order, Tail0) IN
         /\ Len(order) \in Nat /\ order \in Seq(Blocks) /\ num = Len(order)
         /\ \A i \in 1 .. Len(order) : c[i] = order[i] /\ order[i] \in Blocks
         /\ c[0] = Head0 /\ c[Len(order) + 1] = Tail0
         /\ \A i \in 0 .. Len(order) + 1 : c[i] \in Nodes /\ c[i] # None
         /\ \A i \in 0 .. Len(order) : next[c[i]] = c[i + 1] /\ prev[c[i + 1]] = c[i]
         /\ \A i \in 0 .. Len(order) : c[i] # Tail0
         /\ next[Tail0] = None
<1> DEFINE c == Chain(Head0, order, Tail0)
<1>1. Len(order) \in Nat /\ order \in Seq(Blocks) /\ Distinct(order)
  BY DEF Inv
<1>2. /\ \A i \in 0 .. Len(order) + 1 : c[i] \in Nodes
      /\ \A i, j \in 0 .. Len(order) + 1 : c[i] = c[j] => i = j
      /\ c[0] = Head0 /\ c[Len(order) + 1] = Tail0
      /\ \A i \in 1 .. Len(order) : c[i] = order[i] /\ order[i] \in Blocks
  BY <1>1, ChainNodes
<1>3. /\ \A i \in 0 .. Len(order) : next[c[i]] = c[i + 1] /\ prev[c[i + 1]] = c[i]
      /\ next[Tail0] = None /\ num = Len(order)
  BY DEF Inv, LinksAreTheOrder
<1> HIDE DEF c
<1>4. \A i \in 0 .. Len(order) : c[i] # Tail0
  <2>1. \A i \in 0 .. Len(order) :
          i \in 0 .. Len(order) + 1 /\ Len(order) + 1 \in 0 .. Len(order) + 1 /\ i # Len(order) + 1
    BY <1>1
  <2> QED BY <2>1, <1>2
<1>5. None \notin Nodes BY QueueAssumption
<1> QED BY <1>1, <1>2, <1>3, <1>4, <1>5 DEF c

\* The chain __init__ links is the order of the ids.
LEMMA InitInv == Init => Inv
<1> SUFFICES ASSUME Init PROVE Inv
  OBVIOUS
<1> DEFINE q == [i \in Blocks |-> i]
           c == Chain(Head0, q, Tail0)
<1>1. /\ q \in Seq(Blocks) /\ Len(q) = NumBlocks /\ NumBlocks \in Nat
      /\ \A i \in 1 .. NumBlocks : q[i] = i
  BY QueueAssumption DEF Blocks
<1>2. Distinct(q) BY <1>1 DEF Distinct
<1> HIDE DEF q
<1>3. /\ \A i \in 0 .. NumBlocks + 1 : c[i] \in Nodes
      /\ \A i, j \in 0 .. NumBlocks + 1 : c[i] = c[j] => i = j
      /\ c[0] = Head0 /\ c[NumBlocks + 1] = Tail0
      /\ \A i \in 1 .. NumBlocks : c[i] = q[i] /\ q[i] \in Blocks
  BY <1>1, <1>2, ChainNodes
<1>4. order = q /\ held = {} /\ num = NumBlocks
  BY DEF Init, q
<1>5. /\ next = [x \in Nodes |-> IF x = Tail0 THEN None
                                 ELSE c[(CHOOSE i \in 0 .. NumBlocks : c[i] = x) + 1]]
      /\ prev = [x \in Nodes |-> IF x = Head0 THEN None
                                 ELSE c[(CHOOSE i \in 0 .. NumBlocks : c[i + 1] = x)]]
  BY DEF Init, q
<1>6. \A x \in Nodes : x = Head0 \/ x = Tail0 \/ (x \in 1 .. NumBlocks /\ c[x] = x)
  BY <1>1, <1>3 DEF Nodes, Blocks
<1>6a. Head0 # Tail0 BY QueueAssumption
<1> HIDE DEF c
<1>7. \A i \in 0 .. NumBlocks : /\ (CHOOSE j \in 0 .. NumBlocks : c[j] = c[i]) = i
                                /\ (CHOOSE j \in 0 .. NumBlocks : c[j + 1] = c[i + 1]) = i
  <2> TAKE i \in 0 .. NumBlocks
  <2>1. \A j \in 0 .. NumBlocks : /\ j \in 0 .. NumBlocks + 1 /\ j + 1 \in 0 .. NumBlocks + 1
                                  /\ (j + 1 = i + 1 => j = i)
    BY <1>1
  <2>2. \A j \in 0 .. NumBlocks : (c[j] = c[i] <=> j = i) /\ (c[j + 1] = c[i + 1] <=> j = i)
    BY <2>1, <1>3
  <2>3. (CHOOSE j \in 0 .. NumBlocks : c[j] = c[i]) \in {j \in 0 .. NumBlocks : c[j] = c[i]}
    BY <2>2
  <2>4. (CHOOSE j \in 0 .. NumBlocks : c[j + 1] = c[i + 1])
          \in {j \in 0 .. NumBlocks : c[j + 1] = c[i + 1]}
    BY <2>2
  <2> QED BY <2>2, <2>3, <2>4
<1>8. \A i \in 0 .. NumBlocks : next[c[i]] = c[i + 1] /\ prev[c[i + 1]] = c[i]
  <2> TAKE i \in 0 .. NumBlocks
  <2>1. /\ i \in 0 .. NumBlocks + 1 /\ i + 1 \in 0 .. NumBlocks + 1
        /\ i # NumBlocks + 1 /\ i + 1 # 0
        /\ 0 \in 0 .. NumBlocks + 1 /\ NumBlocks + 1 \in 0 .. NumBlocks + 1
    BY <1>1
  <2>2. /\ c[i] \in Nodes /\ c[i + 1] \in Nodes /\ c[i] # Tail0 /\ c[i + 1] # Head0
    BY <2>1, <1>3
  <2>3. next[c[i]] = c[(CHOOSE j \in 0 .. NumBlocks : c[j] = c[i]) + 1]
    BY <2>2, <1>5
  <2>4. prev[c[i + 1]] = c[CHOOSE j \in 0 .. NumBlocks : c[j + 1] = c[i + 1]]
    BY <2>2, <1>5
  <2> QED BY <2>3, <2>4, <1>7
<1>9. next[Tail0] = None /\ prev[Head0] = None
  BY <1>5 DEF Nodes
<1>10. /\ next \in [Nodes -> Nodes \cup {None}]
       /\ prev \in [Nodes -> Nodes \cup {None}]
  <2>1. \A x \in Nodes : next[x] \in Nodes \cup {None} /\ prev[x] \in Nodes \cup {None}
    <3> TAKE x \in Nodes
    <3>1. x = Head0 \/ x = Tail0 \/ (x \in 1 .. NumBlocks /\ c[x] = x) BY <1>6
    <3>2. /\ 0 \in 0 .. NumBlocks /\ NumBlocks \in 0 .. NumBlocks
          /\ 1 \in 0 .. NumBlocks + 1 /\ NumBlocks \in 0 .. NumBlocks + 1
      BY <1>1
    <3>3. CASE x = Head0
      <4>1. next[x] = c[0 + 1] BY <3>2, <3>3, <1>3, <1>8
      <4> QED BY <4>1, <3>2, <3>3, <1>3, <1>9
    <3>4. CASE x = Tail0
      <4>1. prev[x] = c[NumBlocks] BY <3>2, <3>4, <1>3, <1>8
      <4> QED BY <4>1, <3>2, <3>4, <1>3, <1>9
    <3>5. CASE x \in 1 .. NumBlocks /\ c[x] = x
      <4>1. /\ x \in 0 .. NumBlocks /\ x - 1 \in 0 .. NumBlocks /\ (x - 1) + 1 = x
            /\ x + 1 \in 0 .. NumBlocks + 1 /\ x - 1 \in 0 .. NumBlocks + 1
        BY <3>5, <1>1
      <4>2. next[x] = c[x + 1] BY <4>1, <3>5, <1>8
      <4>3. prev[x] = c[x - 1] BY <4>1, <3>5, <1>8
      <4> QED BY <4>1, <4>2, <4>3, <1>3
    <3> QED BY <3>1, <3>3, <3>4, <3>5
  <2>2. next = [x \in Nodes |-> next[x]] /\ prev = [x \in Nodes |-> prev[x]]
    <3> DEFINE f(x) == c[(CHOOSE i \in 0 .. NumBlocks : c[i] = x) + 1]
               g(x) == c[(CHOOSE i \in 0 .. NumBlocks : c[i + 1] = x)]
    <3>1. /\ next = [x \in Nodes |-> IF x = Tail0 THEN None ELSE f(x)]
          /\ prev = [x \in Nodes |-> IF x = Head0 THEN None ELSE g(x)]
      BY <1>5, Zenon
    <3> HIDE DEF f, g
    <3> QED BY ONLY <3>1
  <2> QED BY <2>1, <2>2
<1>11. LinksAreTheOrder
  BY <1>1, <1>4, <1>8, <1>9 DEF LinksAreTheOrder, c
<1>12. ElementsOf(q) = Blocks
  BY <1>1 DEF ElementsOf, Blocks
<1> QED
  BY <1>1, <1>2, <1>4, <1>10, <1>11, <1>12 DEF Inv

-----------------------------------------------------------------------------
\* Step by step: each call keeps the invariant and is a call of the queue.
LEMMA RaiseStep == ASSUME Inv, Raise PROVE Inv' /\ Promise!Refuse
<1>1. Inv' BY DEF Inv, Raise, LinksAreTheOrder
<1>2. Promise!Refuse BY DEF Raise, Promise!Refuse
<1> QED BY <1>1, <1>2

\* What popleft and popleft_n have in common: the first blocks leave the chain.
LEMMA TakeStep ==
  ASSUME Inv, NEW n \in 1 .. Len(order), NEW l \in Seq(Blocks), l = SubSeq(order, 1, n),
         Relink(Head0, <<>>, Chain(Head0, order, Tail0)[n + 1], ElementsOf(l)),
         num' = num - n, held' = held \cup ElementsOf(l),
         returned' = l, order' = SubSeq(order, n + 1, Len(order))
  PROVE  Inv' /\ \E k \in 0 .. Len(order) : Promise!Evict(k)
<1> DEFINE c == Chain(Head0, order, Tail0)
<1>1. /\ Len(order) \in Nat /\ order \in Seq(Blocks) /\ num = Len(order) /\ c[0] = Head0
      /\ \A i \in 1 .. Len(order) : order[i] \in Blocks
  BY LinksRead
<1> HIDE DEF c
<1>2. /\ order' \in Seq(Blocks) /\ Len(order') = Len(order) - n
      /\ \A i \in 1 .. Len(order') : order'[i] = order[i + n]
  BY <1>1
<1>3. Spliced(order', 0, <<>>, n + 1)
  BY <1>1, <1>2 DEF Spliced
<1>4. ElementsOf(l) = Between(0, n + 1)
  <2>1. Len(l) = n /\ \A i \in 1 .. n : l[i] = order[i] BY <1>1
  <2> QED BY <2>1 DEF ElementsOf, Between
<1>5. <<>> \in Seq(Blocks) /\ Distinct(<<>>) /\ ElementsOf(<<>>) = {}
  BY DEF Distinct, ElementsOf
<1>6. num' = Len(order') BY <1>1, <1>2
<1>7. held' = (held \cup Between(0, n + 1)) \ ElementsOf(<<>>) BY <1>4, <1>5
<1>8. Relink(c[0], <<>>, c[n + 1], Between(0, n + 1)) BY <1>1, <1>4 DEF c
<1>9. 0 \in 0 .. Len(order) /\ n + 1 \in 0 + 1 .. Len(order) + 1 /\ ElementsOf(<<>>) \subseteq held
  BY <1>1, <1>5
<1>10. Inv' BY <1>3, <1>5, <1>6, <1>7, <1>8, <1>9, RelinkSplices DEF c
<1>11. Promise!Evict(n) BY <1>1 DEF Promise!Evict
<1> QED BY <1>1, <1>10, <1>11

\* popleft takes the first block of the order, or raises.
LEMMA PopLeftStep == ASSUME Inv, PopLeft PROVE Inv' /\ Promise!Next
<1> DEFINE c == Chain(Head0, order, Tail0)
           first == next[Head0]
<1>1. /\ Len(order) \in Nat /\ order \in Seq(Blocks)
      /\ \A i \in 1 .. Len(order) : c[i] = order[i] /\ order[i] \in Blocks
      /\ c[0] = Head0 /\ c[Len(order) + 1] = Tail0
      /\ \A i \in 0 .. Len(order) + 1 : c[i] # None
      /\ \A i \in 0 .. Len(order) : next[c[i]] = c[i + 1]
  BY LinksRead
<1> HIDE DEF c
<1>2. first = c[1] /\ first # Tail0 BY <1>1 DEF PopLeft
<1>3. 1 \in 1 .. Len(order) /\ 1 \in 0 .. Len(order) /\ 2 \in 0 .. Len(order) + 1
  BY <1>1, <1>2
<1>4. first = order[1] /\ next[first] = c[2] /\ c[2] # None BY <1>1, <1>2, <1>3
<1>5. SubSeq(order, 1, 1) = <<first>> /\ <<first>> \in Seq(Blocks)
  <2>1. first \in Blocks BY <1>1, <1>3, <1>4
  <2>2. <<first>> \in Seq(Blocks) /\ Len(<<first>>) = 1 /\ <<first>>[1] = first BY <2>1
  <2>3. \A i \in 1 .. 1 : order[i] \in Blocks BY <1>1, <1>3
  <2>4. /\ SubSeq(order, 1, 1) \in Seq(Blocks)
        /\ Len(SubSeq(order, 1, 1)) = 1 /\ SubSeq(order, 1, 1)[1] = order[1]
    BY <2>3, SubSeqProperties
  <2> DEFINE s == SubSeq(order, 1, 1)
             t == <<first>>
  <2>5. s \in Seq(Blocks) /\ t \in Seq(Blocks) /\ Len(s) = Len(t) BY <2>2, <2>4
  <2>6. \A i \in 1 .. Len(s) : s[i] = t[i]
    <3>1. s[1] = t[1] /\ Len(s) = 1 BY <2>2, <2>4, <1>4
    <3> HIDE DEF s, t
    <3> QED BY <3>1
  <2> HIDE DEF s, t
  <2>7. s = t BY <2>5, <2>6, SeqEqual
  <2> QED BY <2>2, <2>7 DEF s, t
<1>6. ElementsOf(<<first>>) = {first} BY DEF ElementsOf
<1>7. /\ Relink(Head0, <<>>, c[1 + 1], {first})
      /\ num' = num - 1 /\ held' = held \cup {first} /\ returned' = <<first>>
      /\ order' = SubSeq(order, 1 + 1, Len(order))
  BY <1>4 DEF PopLeft
<1> HIDE DEF first
<1>8. Inv' /\ \E k \in 0 .. Len(order) : Promise!Evict(k)
  BY <1>3, <1>5, <1>6, <1>7, TakeStep DEF c
<1> QED BY <1>8 DEF Promise!Next

\* popleft_n takes the first n blocks of the order.
LEMMA PopLeftNStep ==
  ASSUME Inv, NEW n \in 0 .. NumBlocks, PopLeftN(n)
  PROVE  Inv' /\ Promise!Next
<1> DEFINE c == Chain(Head0, order, Tail0)
<1>1. /\ Len(order) \in Nat /\ order \in Seq(Blocks) /\ num = Len(order)
      /\ \A i \in 1 .. Len(order) : c[i] = order[i] /\ order[i] \in Blocks
      /\ \A i \in 0 .. Len(order) : next[c[i]] = c[i + 1]
  BY LinksRead
<1> HIDE DEF c
<1>2. n \in 0 .. Len(order) BY <1>1, QueueAssumption DEF PopLeftN
<1>3. PICK l \in Lists(n) :
        /\ IsWalk(l)
        /\ IF n = 0 THEN UNCHANGED <<next, prev>>
                    ELSE Relink(Head0, <<>>, next[Last(l)], ElementsOf(l))
        /\ num' = num - n /\ held' = held \cup ElementsOf(l) /\ returned' = l
        /\ order' = SubSeq(order, n + 1, Len(order))
  BY DEF PopLeftN
<1>4. l \in Seq(Blocks) /\ Len(l) = n BY <1>1, <1>2 DEF Lists
<1>5. l = SubSeq(order, 1, n) BY <1>2, <1>3, <1>4, WalkFollowsOrder
<1>6. CASE n = 0
  <2>1. ElementsOf(l) = {} BY <1>4, <1>6 DEF ElementsOf
  <2>2. order' = order BY <1>1, <1>3, <1>6
  <2>3. UNCHANGED <<next, prev, num, held>> BY <1>1, <1>3, <1>6, <2>1
  <2>4. Inv' BY <2>2, <2>3 DEF Inv, LinksAreTheOrder
  <2>5. Promise!Evict(n) BY <1>1, <1>2, <1>3, <1>5 DEF Promise!Evict
  <2> QED BY <1>2, <2>4, <2>5 DEF Promise!Next
<1>7. CASE n # 0
  <2>1. n \in 1 .. Len(order) BY <1>2, <1>7
  <2>2. Last(l) = c[n] BY <1>1, <1>4, <1>5, <1>7, <2>1 DEF Last
  <2>3. next[Last(l)] = c[n + 1] BY <1>1, <1>2, <2>2
  <2>4. Relink(Head0, <<>>, c[n + 1], ElementsOf(l)) BY <1>3, <1>7, <2>3
  <2>5. Inv' /\ \E k \in 0 .. Len(order) : Promise!Evict(k)
    BY <1>3, <1>4, <1>5, <2>1, <2>4, TakeStep DEF c
  <2> QED BY <2>5 DEF Promise!Next
<1> QED BY <1>6, <1>7

\* remove takes a block out of the middle of the order.
LEMMA RemoveStep ==
  ASSUME Inv, NEW b \in Blocks, Remove(b)
  PROVE  Inv' /\ Promise!Next
<1> DEFINE c == Chain(Head0, order, Tail0)
<1>1. /\ Len(order) \in Nat /\ order \in Seq(Blocks) /\ num = Len(order)
      /\ \A i \in 1 .. Len(order) : c[i] = order[i] /\ order[i] \in Blocks
      /\ \A i \in 0 .. Len(order) : next[c[i]] = c[i + 1] /\ prev[c[i + 1]] = c[i]
  BY LinksRead
<1> HIDE DEF c
<1>2. CASE prev[b] = None \/ next[b] = None
  <2>1. Raise BY <1>2 DEF Remove
  <2> QED BY <2>1, RaiseStep DEF Promise!Next
<1>3. CASE ~(prev[b] = None \/ next[b] = None)
  <2>1. /\ Relink(prev[b], <<>>, next[b], {b})
        /\ num' = num - 1 /\ held' = held \cup {b} /\ returned' = <<>>
        /\ \E i \in 1 .. Len(order) :
             /\ order[i] = b
             /\ order' = SubSeq(order, 1, i - 1) \o SubSeq(order, i + 1, Len(order))
    BY <1>3 DEF Remove
  <2>2. PICK i \in 1 .. Len(order) :
             /\ order[i] = b
             /\ order' = SubSeq(order, 1, i - 1) \o SubSeq(order, i + 1, Len(order))
    BY <2>1
  <2>3. /\ i \in Nat /\ i - 1 \in 0 .. Len(order) /\ i \in 0 .. Len(order) /\ (i - 1) + 1 = i
        /\ i + 1 \in (i - 1) + 1 .. Len(order) + 1
    BY <1>1
  <2>4. prev[b] = c[i - 1] /\ next[b] = c[i + 1] BY <1>1, <2>2, <2>3
  <2> DEFINE s == SubSeq(order, 1, i - 1)
             t == SubSeq(order, i + 1, Len(order))
  <2>5. /\ s \in Seq(Blocks) /\ Len(s) = i - 1 /\ \A j \in 1 .. i - 1 : s[j] = order[j]
        /\ t \in Seq(Blocks) /\ Len(t) = Len(order) - i
        /\ \A j \in 1 .. Len(order) - i : t[j] = order[j + i]
    BY <1>1, <2>3
  <2>6. order' = s \o t BY <2>2
  <2> HIDE DEF s, t
  <2>7. /\ order' \in Seq(Blocks) /\ Len(order') = Len(order) - 1
        /\ \A j \in 1 .. Len(order') :
             order'[j] = IF j <= i - 1 THEN order[j] ELSE order[j + 1]
    <3>1. /\ order' \in Seq(Blocks) /\ Len(order') = Len(order) - 1
          /\ \A j \in 1 .. Len(order') :
               order'[j] = IF j <= i - 1 THEN s[j] ELSE t[j - (i - 1)]
      <4>1. /\ s \o t \in Seq(Blocks) /\ Len(s \o t) = Len(s) + Len(t)
            /\ \A j \in 1 .. Len(s) + Len(t) :
                 (s \o t)[j] = IF j <= Len(s) THEN s[j] ELSE t[j - Len(s)]
        BY <2>5, ConcatProperties
      <4>2. Len(s) + Len(t) = Len(order) - 1 BY <2>5, <1>1, <2>3
      <4> QED BY <4>1, <4>2, <2>5, <2>6
    <3>2. ASSUME NEW j \in 1 .. Len(order'), ~(j <= i - 1)
          PROVE  t[j - (i - 1)] = order[j + 1]
      <4>1. j - (i - 1) \in 1 .. Len(order) - i /\ (j - (i - 1)) + i = j + 1
        BY <3>1, <3>2, <1>1, <2>3
      <4> QED BY <4>1, <2>5
    <3>3. ASSUME NEW j \in 1 .. Len(order'), j <= i - 1
          PROVE  s[j] = order[j]
      <4>1. j \in 1 .. i - 1 BY <3>3, <3>1, <1>1, <2>3
      <4> QED BY <4>1, <2>5
    <3> QED BY <3>1, <3>2, <3>3
  <2>8. Spliced(order', i - 1, <<>>, i + 1)
    <3>1. Len(<<>>) = 0 OBVIOUS
    <3>2. \A j \in 1 .. Len(order') : ~(j <= i - 1) =>
            ~(j <= (i - 1) + 0) /\ j - (i - 1) - 0 - 1 + (i + 1) = j + 1
      BY <2>3, <2>7, <1>1
    <3>3. Len(order') = (i - 1) + 0 + Len(order) + 1 - (i + 1) BY <2>3, <2>7, <1>1
    <3> QED BY <2>7, <3>1, <3>2, <3>3 DEF Spliced
  <2>9. Between(i - 1, i + 1) = {b}
    <3>1. (i - 1) + 1 .. (i + 1) - 1 = {i} BY <2>3
    <3> QED BY <3>1, <2>2 DEF Between
  <2>10. <<>> \in Seq(Blocks) /\ Distinct(<<>>) /\ ElementsOf(<<>>) = {}
    BY DEF Distinct, ElementsOf
  <2>11. /\ num' = Len(order')
         /\ held' = (held \cup Between(i - 1, i + 1)) \ ElementsOf(<<>>)
         /\ Relink(c[i - 1], <<>>, c[i + 1], Between(i - 1, i + 1))
         /\ ElementsOf(<<>>) \subseteq held
    BY <1>1, <2>1, <2>4, <2>7, <2>9, <2>10
  <2>12. Inv' BY <2>3, <2>8, <2>10, <2>11, RelinkSplices DEF c
  <2>13. Promise!Reuse(i) BY <2>1, <2>2 DEF Promise!Reuse, Promise!Without
  <2> QED BY <2>12, <2>13 DEF Promise!Next
<1> QED BY <1>2, <1>3

\* What the three calls that give blocks back have in common.
LEMMA GiveStep ==
  ASSUME Inv, NEW a \in 0 .. Len(order), NEW n \in 0 .. NumBlocks, NEW l \in Lists(n),
         GiveBack(l), Spliced(order', a, l, a + 1),
         order' \in {order \o l, l \o order},
         LET c == Chain(Head0, order, Tail0) IN Relink(c[a], l, c[a + 1], {})
  PROVE  Inv' /\ Promise!Next
<1>1. Len(order) \in Nat /\ order \in Seq(Blocks) /\ num = Len(order) BY LinksRead
<1>2. l \in Seq(Blocks) /\ Len(l) = n /\ Distinct(l)
  BY QueueAssumption DEF Lists, Distinct
<1>3. /\ ElementsOf(l) \subseteq held /\ num' = num + Len(l)
      /\ held' = held \ ElementsOf(l) /\ returned' = <<>>
  BY DEF GiveBack
<1>4. Between(a, a + 1) = {}
  <2>1. (a + 1) .. (a + 1) - 1 = {} BY <1>1
  <2> QED BY <2>1 DEF Between
<1>5. Len(order') = Len(order) + n /\ order' \in Seq(Blocks)
  BY <1>1, <1>2 DEF Spliced
<1>6. /\ a + 1 \in a + 1 .. Len(order) + 1
      /\ num' = Len(order')
      /\ held' = (held \cup Between(a, a + 1)) \ ElementsOf(l)
  BY <1>1, <1>2, <1>3, <1>4, <1>5
<1>7. Inv' BY <1>2, <1>3, <1>4, <1>6, RelinkSplices
<1>8. Promise!GiveBack(l)
  <2>1. \A i \in 1 .. Len(l) : l[i] \notin ElementsOf(order) BY <1>3 DEF Inv, ElementsOf
  <2> QED BY <1>3, <2>1 DEF Promise!GiveBack, Promise!Free, ElementsOf
<1>9. l \in Promise!Lists(n) BY DEF Lists, Promise!Lists, Blocks, Promise!Blocks
<1> QED BY <1>7, <1>8, <1>9 DEF Promise!Next

\* append and append_n put blocks at the end of the order.
LEMMA AppendStep ==
  ASSUME Inv, NEW n \in 0 .. NumBlocks, NEW l \in Lists(n), GiveBack(l),
         Relink(prev[Tail0], l, Tail0, {}), order' = order \o l
  PROVE  Inv' /\ Promise!Next
<1> DEFINE c == Chain(Head0, order, Tail0)
<1>1. /\ Len(order) \in Nat /\ order \in Seq(Blocks)
      /\ c[Len(order) + 1] = Tail0
      /\ \A i \in 0 .. Len(order) : prev[c[i + 1]] = c[i]
  BY LinksRead
<1> HIDE DEF c
<1>2. prev[Tail0] = c[Len(order)] /\ Len(order) \in 0 .. Len(order) BY <1>1
<1>3. l \in Seq(Blocks) BY QueueAssumption DEF Lists
<1>4. Spliced(order', Len(order), l, Len(order) + 1)
  BY <1>1, <1>3, ConcatProperties DEF Spliced
<1>5. Relink(c[Len(order)], l, c[Len(order) + 1], {}) BY <1>1, <1>2
<1> QED BY <1>2, <1>4, <1>5, GiveStep DEF c

\* prepend_n puts blocks before the first of the order, in their order.
LEMMA PrependStep ==
  ASSUME Inv, NEW n \in 0 .. NumBlocks, NEW l \in Lists(n), GiveBack(l),
         Relink(Head0, l, next[Head0], {}), order' = l \o order
  PROVE  Inv' /\ Promise!Next
<1> DEFINE c == Chain(Head0, order, Tail0)
<1>1. /\ Len(order) \in Nat /\ order \in Seq(Blocks)
      /\ c[0] = Head0
      /\ \A i \in 0 .. Len(order) : next[c[i]] = c[i + 1]
  BY LinksRead
<1> HIDE DEF c
<1>2. next[Head0] = c[0 + 1] /\ 0 \in 0 .. Len(order) BY <1>1
<1>3. l \in Seq(Blocks) /\ Len(l) \in Nat BY QueueAssumption DEF Lists
<1>4. Spliced(order', 0, l, 0 + 1)
  <2>1. /\ order' \in Seq(Blocks) /\ Len(order') = Len(l) + Len(order)
        /\ \A i \in 1 .. Len(l) + Len(order) :
             order'[i] = IF i <= Len(l) THEN l[i] ELSE order[i - Len(l)]
    BY <1>1, <1>3, ConcatProperties
  <2>2. \A i \in 1 .. Len(l) + Len(order) :
          ~(i <= 0) /\ i - 0 = i /\ i - 0 - Len(l) - 1 + (0 + 1) = i - Len(l)
    BY <1>1, <1>3
  <2> QED BY <1>1, <1>3, <2>1, <2>2 DEF Spliced
<1>5. Relink(c[0], l, c[0 + 1], {}) BY <1>1, <1>2
<1> QED BY <1>2, <1>4, <1>5, GiveStep DEF c

\* Giving nothing back changes nothing.
LEMMA GiveNothing ==
  ASSUME Inv, NEW l \in Lists(0), GiveBack(l), UNCHANGED <<next, prev>>,
         order' \in {order \o l, l \o order}
  PROVE  Inv' /\ Promise!Next
<1>1. Len(order) \in Nat /\ order \in Seq(Blocks) /\ num = Len(order) BY LinksRead
<1>2. l \in Seq(Blocks) /\ Len(l) = 0 /\ l = <<>> BY DEF Lists
<1>3. order' = order BY <1>1, <1>2, ConcatEmptySeq
<1>4. ElementsOf(l) = {} BY <1>2 DEF ElementsOf
<1>5. held' = held /\ num' = num /\ returned' = <<>> BY <1>1, <1>2, <1>4 DEF GiveBack
<1>6. Inv' BY <1>3, <1>5 DEF Inv, LinksAreTheOrder
<1>7. Promise!GiveBack(l) BY <1>2, <1>5 DEF Promise!GiveBack
<1>8. l \in Promise!Lists(0) BY DEF Lists, Promise!Lists, Blocks, Promise!Blocks
<1>9. 0 \in 0 .. NumBlocks BY QueueAssumption
<1> QED BY <1>6, <1>7, <1>8, <1>9 DEF Promise!Next

\* What get_all_free_blocks returns is the order: a walk that stops where the
\* next node has no successor has stopped at the last free block.
LEMMA GetAllStep == ASSUME Inv, GetAllFreeBlocks PROVE Inv' /\ Promise!Next
<1> DEFINE c == Chain(Head0, order, Tail0)
           L == Len(order)
<1>1. /\ L \in Nat /\ order \in Seq(Blocks) /\ num = L
      /\ \A i \in 1 .. L : c[i] = order[i] /\ order[i] \in Blocks
      /\ c[0] = Head0 /\ c[L + 1] = Tail0
      /\ \A i \in 0 .. L + 1 : c[i] # None
      /\ \A i \in 0 .. L : next[c[i]] = c[i + 1] /\ c[i] # Tail0
      /\ next[Tail0] = None
  BY LinksRead
<1>2a. PICK n \in 0 .. NumBlocks : \E l \in Lists(n) :
        IsWalk(l) /\ next[next[Last(l)]] = None /\ returned' = l
  BY DEF GetAllFreeBlocks
<1>2. PICK l \in Lists(n) : IsWalk(l) /\ next[next[Last(l)]] = None /\ returned' = l
  BY <1>2a
<1>3. l \in Seq(Blocks) /\ Len(l) = n /\ n \in Nat BY QueueAssumption DEF Lists
<1>4. UNCHANGED <<next, prev, num, held, order>> BY DEF GetAllFreeBlocks
<1> HIDE DEF c, L
<1>5. n <= L
  <2> SUFFICES ASSUME n > L PROVE FALSE BY <1>1, <1>3
  <2> DEFINE k == [i \in 1 .. L |-> l[i]]
  <2>1. \A i \in 1 .. L : i \in 1 .. n BY <1>1, <1>3
  <2>2. k \in Seq(Blocks) /\ Len(k) = L /\ \A i \in 1 .. L : k[i] = l[i]
    <3>1. \A i \in 1 .. L : l[i] \in Blocks BY <1>3, <2>1
    <3> QED BY <3>1, <1>1
  <2> HIDE DEF k
  <2>3. IsWalk(k)
    <3> SUFFICES ASSUME NEW i \in 1 .. L PROVE k[i] = next[IF i = 1 THEN Head0 ELSE k[i - 1]]
      BY <2>2 DEF IsWalk
    <3>1. l[i] = next[IF i = 1 THEN Head0 ELSE l[i - 1]] BY <2>1, <1>2, <1>3 DEF IsWalk
    <3>2. CASE i = 1 BY <3>1, <3>2, <2>2
    <3>3. CASE i # 1
      <4>1. i - 1 \in 1 .. L BY <3>3, <1>1
      <4> QED BY <3>1, <3>3, <4>1, <2>2
    <3> QED BY <3>2, <3>3
  <2>4. L \in 0 .. L /\ L <= Len(order) BY <1>1 DEF L
  <2>5. k = SubSeq(order, 1, L) BY <2>2, <2>3, <2>4, WalkFollowsOrder DEF L
  <2>6. \A i \in 1 .. L : k[i] = order[i] BY <2>5, <1>1 DEF L
  <2>7. L + 1 \in 1 .. n /\ (L + 1) - 1 = L BY <1>1, <1>3
  <2>8. l[L + 1] = next[IF L + 1 = 1 THEN Head0 ELSE l[L]] BY <2>7, <1>2, <1>3 DEF IsWalk
  <2>9. (IF L + 1 = 1 THEN Head0 ELSE l[L]) = c[L]
    <3>1. CASE L = 0 BY <3>1, <1>1
    <3>2. CASE L # 0
      <4>1. L \in 1 .. L /\ L + 1 # 1 BY <3>2, <1>1
      <4> QED BY <4>1, <2>2, <2>6, <1>1
    <3> QED BY <3>1, <3>2
  <2>10. l[L + 1] = Tail0 BY <2>4, <2>8, <2>9, <1>1
  <2>11. l[L + 1] \in Blocks BY <2>7, <1>3
  <2> QED BY <2>10, <2>11, QueueAssumption
<1>6. l = SubSeq(order, 1, n)
  <2>1. n \in 0 .. Len(order) BY <1>5, <1>1, <1>3 DEF L
  <2> QED BY <2>1, <1>2, <1>3, WalkFollowsOrder
<1>7. Last(l) = c[n]
  <2>1. CASE n = 0 BY <2>1, <1>1, <1>3 DEF Last
  <2>2. CASE n # 0
    <3>1. n \in 1 .. L BY <2>2, <1>3, <1>5, <1>1
    <3>2. l[n] = order[n] BY <3>1, <1>6, <1>1 DEF L
    <3> QED BY <3>1, <3>2, <2>2, <1>1, <1>3 DEF Last
  <2> QED BY <2>1, <2>2
<1>8. n = L
  <2> SUFFICES ASSUME n # L PROVE FALSE OBVIOUS
  <2>1. n \in 0 .. L /\ n + 1 \in 0 .. L /\ (n + 1) + 1 \in 0 .. L + 1 BY <1>1, <1>3, <1>5
  <2>2. next[next[Last(l)]] = c[(n + 1) + 1] BY <2>1, <1>1, <1>7
  <2> QED BY <2>1, <2>2, <1>1, <1>2
<1>9. returned' = order BY <1>1, <1>2, <1>6, <1>8, SubSeqFull DEF L
<1>10. Inv' BY <1>4 DEF Inv, LinksAreTheOrder
<1>11. Promise!Inspect BY <1>4, <1>9 DEF Promise!Inspect
<1> QED BY <1>10, <1>11 DEF Promise!Next

\* Every call keeps the invariant and is a call of the queue.
LEMMA NextStep == ASSUME Inv, Next PROVE Inv' /\ Promise!Next
<1>1. ASSUME NEW n \in 1 .. NumBlocks + 1, PopTooMany(n) PROVE Inv' /\ Promise!Next
  BY <1>1, RaiseStep DEF PopTooMany, Promise!Next
<1>2. CASE PopLeft BY <1>2, PopLeftStep
<1>3. ASSUME NEW n \in 0 .. NumBlocks, PopLeftN(n) PROVE Inv' /\ Promise!Next
  BY <1>3, PopLeftNStep
<1>4. ASSUME NEW b \in Blocks, Remove(b) PROVE Inv' /\ Promise!Next
  BY <1>4, RemoveStep
<1>5. ASSUME NEW b \in Blocks, AppendBlock(b) PROVE Inv' /\ Promise!Next
  <2>1. /\ <<b>> \in [1 .. 1 -> Blocks] /\ 1 \in 0 .. NumBlocks
        /\ \A i, j \in 1 .. 1 : <<b>>[i] = <<b>>[j] => i = j
    BY QueueAssumption DEF Blocks
  <2>2. <<b>> \in Lists(1) BY <2>1 DEF Lists
  <2>3. order \in Seq(Blocks) BY DEF Inv
  <2>4. order' = order \o <<b>> BY <1>5, <2>3 DEF AppendBlock
  <2> QED BY <1>5, <2>1, <2>2, <2>4, AppendStep DEF AppendBlock
<1>6. ASSUME NEW n \in 0 .. NumBlocks, NEW l \in Lists(n), AppendN(l) \/ PrependN(l)
      PROVE  Inv' /\ Promise!Next
  <2>1. Len(l) = n BY QueueAssumption DEF Lists
  <2>2. CASE n = 0
    <3>1. /\ l \in Lists(0) /\ GiveBack(l) /\ UNCHANGED <<next, prev>>
          /\ order' \in {order \o l, l \o order}
      BY <1>6, <2>1, <2>2 DEF AppendN, PrependN
    <3> QED BY <3>1, GiveNothing
  <2>3. CASE n # 0 /\ AppendN(l)
    BY <2>1, <2>3, AppendStep DEF AppendN
  <2>4. CASE n # 0 /\ PrependN(l)
    BY <2>1, <2>4, PrependStep DEF PrependN
  <2> QED BY <1>6, <2>2, <2>3, <2>4
<1>7. CASE GetAllFreeBlocks BY <1>7, GetAllStep
<1> QED BY <1>1, <1>2, <1>3, <1>4, <1>5, <1>6, <1>7 DEF Next

\* So does a step that changes nothing.
LEMMA StutterStep == ASSUME Inv, UNCHANGED vars PROVE Inv'
BY DEF Inv, LinksAreTheOrder, vars

-----------------------------------------------------------------------------
\* The invariant is inductive.
THEOREM InvHolds == Spec => []Inv
<1>1. Inv /\ [Next]_vars => Inv' BY NextStep, StutterStep
<1> QED BY <1>1, InitInv, PTL DEF Spec

\* Whatever the calls and their order, the links are the order of eviction, read
\* in either direction, and the counter is their number.
THEOREM LinksAlwaysTheOrder == Spec => []LinksAreTheOrder
<1>1. Inv => LinksAreTheOrder BY DEF Inv
<1> QED BY <1>1, InvHolds, PTL

\* A block has links exactly while the pool does not hold it: no free block can
\* be mistaken for one in use, nor the reverse.
THEOREM HeldAlwaysUnlinked == Spec => []HeldBlocksAreUnlinked
<1>1. ASSUME Inv PROVE HeldBlocksAreUnlinked
  <2> DEFINE c == Chain(Head0, order, Tail0)
             L == Len(order)
  <2>1. /\ L \in Nat
        /\ \A i \in 1 .. L : c[i] = order[i]
        /\ \A i \in 0 .. L + 1 : c[i] # None
        /\ \A i \in 0 .. L : next[c[i]] = c[i + 1] /\ prev[c[i + 1]] = c[i]
    BY <1>1, LinksRead
  <2>2. held = Blocks \ ElementsOf(order) /\ \A b \in held : next[b] = None /\ prev[b] = None
    BY <1>1 DEF Inv
  <2> HIDE DEF c
  <2>3. ASSUME NEW b \in Blocks, b \notin held PROVE next[b] # None /\ prev[b] # None
    <3>1. PICK i \in 1 .. L : order[i] = b BY <2>2, <2>3 DEF ElementsOf
    <3>2. i \in 0 .. L /\ i - 1 \in 0 .. L /\ (i - 1) + 1 = i /\ i + 1 \in 0 .. L + 1
          /\ i - 1 \in 0 .. L + 1
      BY <2>1
    <3>3. next[b] = c[i + 1] /\ prev[b] = c[i - 1] BY <2>1, <3>1, <3>2
    <3> QED BY <2>1, <3>2, <3>3
  <2> QED BY <2>2, <2>3 DEF HeldBlocksAreUnlinked
<1> QED BY <1>1, InvHolds, PTL

\* The types, the bound on the counter included: there are no more free blocks
\* than blocks, because no block is twice in the order.
THEOREM TypesHold == Spec => []TypeOK
<1>1. ASSUME Inv PROVE TypeOK
  <2>1. Len(order) \in Nat /\ order \in Seq(Blocks) /\ Distinct(order) /\ num = Len(order)
    BY <1>1, LinksRead DEF Inv
  <2>2. num <= NumBlocks
    <3> DEFINE A == 1 .. Len(order)
    <3>1. IsFiniteSet(Blocks) /\ Cardinality(Blocks) = NumBlocks
      <4>1. IsFiniteSet(1 .. NumBlocks) /\ Cardinality(1 .. NumBlocks) = NumBlocks - 1 + 1
        BY QueueAssumption, FS_Interval
      <4> QED BY <4>1, QueueAssumption DEF Blocks
    <3>2. IsFiniteSet(A) /\ Cardinality(A) = Len(order)
      <4>1. /\ IsFiniteSet(1 .. Len(order))
            /\ Cardinality(1 .. Len(order)) = IF 1 > Len(order) THEN 0 ELSE Len(order) - 1 + 1
        <5>1. 1 \in Int /\ Len(order) \in Int BY <2>1
        <5> QED BY ONLY <5>1, FS_Interval
      <4>2. Len(order) = IF 1 > Len(order) THEN 0 ELSE Len(order) - 1 + 1 BY <2>1
      <4> QED BY <4>1, <4>2
    <3>3. order \in Injection(A, Blocks)
      <4>1. order \in [A -> Blocks] BY <2>1
      <4> QED BY <4>1, <2>1 DEF Distinct, Injection, IsInjective
    <3> HIDE DEF A
    <3>4. Cardinality(A) <= Cardinality(Blocks) BY <3>1, <3>2, <3>3, FS_Injection
    <3> QED BY <2>1, <3>1, <3>2, <3>4
  <2> QED BY <1>1, <2>1, <2>2, QueueAssumption DEF TypeOK, Inv
<1> QED BY <1>1, InvHolds, PTL

\* The list implements the queue of FreeBlocks: its initial state is the queue's,
\* and every call is one of the queue's, with the order as the queue.
THEOREM ListIsTheQueue == Spec => ImplementsFreeBlocks
<1>1. Init => Promise!Init BY DEF Init, Promise!Init, Blocks, Promise!Blocks
<1>2. Inv /\ [Next]_vars => [Promise!Next]_<<order, returned>>
  BY NextStep DEF vars
<1> QED BY <1>1, <1>2, InvHolds, PTL DEF Spec, ImplementsFreeBlocks, Promise!Spec
=============================================================================

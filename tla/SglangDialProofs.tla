-------------------------- MODULE SglangDialProofs --------------------------
(***************************************************************************)
(* Rows and lambdas in SGLang's scheduler process, for any buffer, batches *)
(* of any shape and any movement of the dial.  The argument: the rows of a *)
(* position are one segment of the batch, which is where the buffer puts   *)
(* the position's lambda and where the rows written to the cache are read  *)
(* from; so what enters the path of a seal was projected at the seal.      *)
(***************************************************************************)
EXTENDS SglangDial, FiniteSetTheorems, SequenceTheorems, TLAPS

-----------------------------------------------------------------------------
\* What comes first in 1 .. n is as many as it has members.
LEMMA InitialSegment ==
  ASSUME NEW n \in Nat, NEW S \in SUBSET (1 .. n),
         \A i \in S : \A j \in 1 .. i : j \in S
  PROVE  Cardinality(S) \in 0 .. n /\ S = 1 .. Cardinality(S)
<1> DEFINE c == Cardinality(S)
<1>1. IsFiniteSet(1 .. n) /\ Cardinality(1 .. n) = n
  BY FS_Interval
<1>2. IsFiniteSet(S) /\ c <= n
  BY <1>1, FS_Subset, ZenonT(60)
<1>3. c \in 0 .. n
  BY <1>2, FS_CardinalityType
<1>4. ASSUME NEW i \in S PROVE i \in 1 .. c
  <2>1. 1 .. i \in SUBSET S
    BY <1>4
  <2>2. i \in 1 .. n /\ Cardinality(1 .. i) = i
    BY FS_Interval
  <2>3. Cardinality(1 .. i) <= c
    BY <1>2, <2>1, FS_Subset
  <2>4. QED
    BY <1>3, <2>2, <2>3
<1>5. ASSUME NEW j \in 1 .. c, j \notin S PROVE FALSE
  <2>1. j \in Int /\ 1 <= j /\ j <= c
    BY <1>3
  <2>2. S \in SUBSET (1 .. j - 1)
    <3> SUFFICES ASSUME NEW i \in S PROVE i \in 1 .. j - 1
      OBVIOUS
    <3>1. i \in 1 .. n /\ (j \in 1 .. i => j \in S)
      OBVIOUS
    <3>2. QED
      BY <1>5, <2>1, <3>1
  <2>3. IsFiniteSet(1 .. j - 1) /\ Cardinality(1 .. j - 1) = j - 1
    BY <2>1, FS_Interval
  <2>4. c <= j - 1
    BY <2>2, <2>3, FS_Subset
  <2>5. QED
    BY <1>3, <2>1, <2>4
<1>6. S = 1 .. c
  BY <1>4, <1>5
<1>7. QED
  BY <1>3, <1>6

\* A layout: the rows of a batch of bs requests, position after position.
Layout(rows, n, bs) ==
  /\ n \in Nat /\ bs \in Nat /\ rows \in [1 .. n -> 1 .. bs]
  /\ \A i, j \in 1 .. n : i <= j => rows[i] <= rows[j]

\* How many rows a position has, and how many come before them.
Own(rows, p) == Cardinality({i \in DOMAIN rows : rows[i] = p})
Before(rows, p) == Cardinality({i \in DOMAIN rows : rows[i] < p})

\* The rows of a position are a segment.
LEMMA RowsOfPosition ==
  ASSUME NEW rows, NEW n, NEW bs, Layout(rows, n, bs), NEW p \in 1 .. bs
  PROVE  /\ Own(rows, p) \in Nat /\ Before(rows, p) \in Nat
         /\ \A j \in 1 .. Own(rows, p) :
              Before(rows, p) + j \in 1 .. n /\ rows[Before(rows, p) + j] = p
<1> DEFINE A == {i \in 1 .. n : rows[i] < p}
           B == {i \in 1 .. n : rows[i] <= p}
           O == {i \in 1 .. n : rows[i] = p}
           a == Cardinality(A)
           b == Cardinality(B)
<1>1. n \in Nat /\ bs \in Nat /\ p \in Int /\ DOMAIN rows = 1 .. n
      /\ \A i \in 1 .. n : rows[i] \in Int
  BY DEF Layout
<1>2. a \in 0 .. n /\ A = 1 .. a
  <2>1. \A i \in A : \A j \in 1 .. i : j \in A
    BY <1>1 DEF Layout
  <2>2. A \in SUBSET (1 .. n)
    OBVIOUS
  <2> HIDE DEF A
  <2>3. QED
    BY <1>1, <2>1, <2>2, InitialSegment
<1>3. b \in 0 .. n /\ B = 1 .. b
  <2>1. \A i \in B : \A j \in 1 .. i : j \in B
    BY <1>1 DEF Layout
  <2>2. B \in SUBSET (1 .. n)
    OBVIOUS
  <2> HIDE DEF B
  <2>3. QED
    BY <1>1, <2>1, <2>2, InitialSegment
<1>4. O = (a + 1) .. b /\ a <= b
  <2>1. \A i \in 1 .. n : (i \in O <=> i \in B /\ i \notin A) /\ (i \in A => i \in B)
    BY <1>1
  <2>2. O \subseteq 1 .. n /\ A \subseteq B /\ A \subseteq 1 .. n /\ B \subseteq 1 .. n
    BY <2>1
  <2> HIDE DEF A, B, O
  <2>3. a <= b
    <3>1. a # 0 => a \in 1 .. a
      BY <1>1, <1>2
    <3>2. QED
      BY <1>1, <1>2, <1>3, <2>2, <3>1
  <2>4. ASSUME NEW i \in O PROVE i \in (a + 1) .. b
    BY <1>1, <1>2, <1>3, <2>1, <2>2, <2>3
  <2>5. ASSUME NEW i \in (a + 1) .. b PROVE i \in O
    <3>1. i \in 1 .. b /\ i \notin 1 .. a /\ i \in 1 .. n
      BY <1>1, <1>2, <1>3
    <3>2. QED
      BY <1>2, <1>3, <2>1, <3>1
  <2>6. QED
    BY <2>3, <2>4, <2>5
<1>5. Cardinality(O) = b - a
  <2> HIDE DEF A, B, O
  <2>1. a + 1 \in Int /\ b \in Int
    BY <1>1, <1>2, <1>3
  <2>2. Cardinality((a + 1) .. b) = IF a + 1 > b THEN 0 ELSE b - (a + 1) + 1
    BY <2>1, FS_Interval
  <2>3. QED
    BY <1>1, <1>2, <1>3, <1>4, <2>2
<1>6. ASSUME NEW j \in 1 .. Cardinality(O)
      PROVE  a + j \in 1 .. n /\ rows[a + j] = p
  <2>1. a + j \in O
    <3> HIDE DEF A, B, O
    <3>1. QED
      BY <1>1, <1>2, <1>3, <1>4, <1>5
  <2>2. QED
    BY <2>1
<1>7. Cardinality(O) \in Nat /\ a \in Nat
  <2> HIDE DEF A, B, O
  <2>1. QED
    BY <1>1, <1>2, <1>3, <1>4, <1>5
<1>8. Own(rows, p) = Cardinality(O) /\ Before(rows, p) = a
  BY <1>1 DEF Own, Before
<1> HIDE DEF O, a
<1>9. QED
  BY <1>6, <1>7, <1>8

\* A batch is a sequence of requests.
LEMMA BatchIs ==
  ASSUME NEW batch \in Batches
  PROVE  /\ Len(batch) \in Nat \ {0} /\ batch \in [1 .. Len(batch) -> Reqs]
         /\ DOMAIN batch = 1 .. Len(batch) /\ batch \in Seq(Reqs)
         /\ \A p, q \in 1 .. Len(batch) : p # q => batch[p] # batch[q]
<1>1. Cardinality(Reqs) \in Nat
  BY DialAssumption, FS_CardinalityType
<1>2. PICK n \in 1 .. Cardinality(Reqs) : batch \in [1 .. n -> Reqs]
  BY DEF Batches
<1>3. n \in Nat \ {0}
  BY <1>1, <1>2
<1>4. batch \in Seq(Reqs) /\ Len(batch) = n
  BY <1>2, <1>3
<1>5. QED
  BY <1>2, <1>3, <1>4 DEF Batches

\* Products keep the order.
LEMMA Product ==
  ASSUME NEW k \in Nat, NEW x \in Nat, NEW y \in Nat, x <= y
  PROVE  k * x \in Nat /\ k * y \in Nat /\ k * x <= k * y
<1>1. y - x \in Nat /\ k * (y - x) \in Nat
  OBVIOUS
<1>2. k * (y - x) = k * y - k * x
  OBVIOUS
<1>3. k * x \in Nat /\ k * y \in Nat
  OBVIOUS
<1>4. QED
  BY <1>1, <1>2, <1>3

\* Quotients: the only multiple of k within k of a.
LEMMA Quotient ==
  ASSUME NEW a \in Nat, NEW k \in Nat \ {0}
  PROVE  /\ a \div k \in Nat /\ k * (a \div k) <= a /\ a < k * (a \div k) + k
         /\ \A q \in Nat : k * q <= a /\ a < k * q + k => a \div k = q
<1> DEFINE d == a \div k
<1>1. d \in Int /\ a % k \in 0 .. k - 1 /\ a = k * d + (a % k)
  OBVIOUS
<1>2. k * d <= a /\ a < k * d + k
  BY <1>1
<1>3. d \in Nat
  <2>1. d <= -1 => k * d <= -k
    BY <1>1
  <2>2. QED
    BY <1>1, <1>2, <2>1
<1>4. ASSUME NEW q \in Nat, k * q <= a, a < k * q + k PROVE d = q
  <2>1. q + 1 <= d => k * q + k <= k * d
    BY <1>3
  <2>2. d + 1 <= q => k * d + k <= k * q
    BY <1>3
  <2>3. k * d \in Nat /\ k * q \in Nat
    BY <1>3
  <2>4. QED
    BY <1>2, <1>3, <1>4, <2>1, <2>2, <2>3
<1>5. QED
  BY <1>2, <1>3, <1>4

\* The layout of a decode: k rows each.
Equally(k, bs) == [i \in 1 .. k * bs |-> (i - 1) \div k + 1]

LEMMA EqualShares ==
  ASSUME NEW k \in Nat \ {0}, NEW bs \in Nat \ {0}
  PROVE  /\ Layout(Equally(k, bs), k * bs, bs) /\ Len(Equally(k, bs)) = k * bs
         /\ (k * bs) \div bs = k /\ (k * bs) % bs = 0
         /\ \A p \in 1 .. bs : Own(Equally(k, bs), p) = k
<1> DEFINE n == k * bs
           rows == [i \in 1 .. k * bs |-> (i - 1) \div k + 1]
<1>1. n \in Nat
  OBVIOUS
<1>2. ASSUME NEW i \in 1 .. n
      PROVE  /\ i - 1 \in Nat /\ (i - 1) \div k \in Nat
             /\ k * ((i - 1) \div k) <= i - 1 /\ i - 1 < k * ((i - 1) \div k) + k
             /\ \A q \in Nat : k * q <= i - 1 /\ i - 1 < k * q + k => (i - 1) \div k = q
  <2>1. i - 1 \in Nat
    BY <1>1
  <2>2. QED
    BY <2>1, Quotient
<1>3. ASSUME NEW i \in 1 .. n PROVE rows[i] \in 1 .. bs /\ rows[i] = (i - 1) \div k + 1
  <2> DEFINE d == (i - 1) \div k
  <2>1. d \in Nat /\ k * d <= i - 1 /\ i - 1 < n
    BY <1>1, <1>2
  <2>2. bs <= d => k * bs <= k * d
    BY <2>1, Product
  <2>3. k * d \in Nat
    BY <2>1
  <2>4. d < bs
    BY <1>1, <2>1, <2>2, <2>3
  <2>5. rows[i] = d + 1
    OBVIOUS
  <2>6. QED
    BY <2>1, <2>4, <2>5
<1>4. ASSUME NEW i \in 1 .. n, NEW j \in 1 .. n, i <= j PROVE rows[i] <= rows[j]
  <2> DEFINE d == (i - 1) \div k
             e == (j - 1) \div k
  <2>1. /\ d \in Nat /\ e \in Nat /\ k * d <= i - 1 /\ j - 1 < k * e + k
        /\ i \in Int /\ j \in Int
    BY <1>1, <1>2
  <2>2. e + 1 <= d => k * e + k <= k * d
    BY <2>1, Product
  <2>3. k * d \in Nat /\ k * e \in Nat
    BY <2>1, Product
  <2>4. d <= e
    <3> DEFINE x == k * d
               y == k * e
    <3>1. x \in Nat /\ y \in Nat /\ x <= i - 1 /\ j - 1 < y + k /\ (e + 1 <= d => y + k <= x)
      BY <2>1, <2>2, <2>3
    <3> HIDE DEF x, y
    <3>2. ~ e + 1 <= d
      BY <1>4, <2>1, <3>1
    <3>3. QED
      BY <2>1, <3>2
  <2>5. QED
    BY <1>3, <2>1, <2>4
<1>5. DOMAIN rows = 1 .. n /\ Len(rows) = n /\ rows \in [1 .. n -> 1 .. bs]
  <2>1. rows \in [1 .. n -> 1 .. bs]
    BY <1>3
  <2>2. QED
    BY <1>1, <2>1
<1>6. Layout(rows, n, bs)
  BY <1>1, <1>4, <1>5 DEF Layout
<1>7. n \div bs = k /\ n % bs = 0
  <2>1. bs * k <= n /\ n < bs * k + bs
    BY <1>1
  <2>2. n \div bs = k
    BY <1>1, <2>1, Quotient
  <2> HIDE DEF n
  <2>3. n = bs * (n \div bs) + (n % bs) /\ n % bs \in 0 .. bs - 1
    BY <1>1
  <2>4. n = bs * k
    BY DEF n
  <2>5. n % bs = 0
    <3> DEFINE m == n % bs
               x == bs * k
    <3>1. n = x + m /\ n = x /\ m \in Int /\ x \in Int
      BY <2>2, <2>3, <2>4
    <3> HIDE DEF m, x
    <3>2. m = 0
      BY <3>1
    <3>3. QED
      BY <3>2 DEF m
  <2>6. QED
    BY <2>2, <2>5
<1>8. ASSUME NEW p \in 1 .. bs PROVE Cardinality({i \in DOMAIN rows : rows[i] = p}) = k
  <2> DEFINE m == k * (p - 1)
             O == {i \in 1 .. n : rows[i] = p}
  <2>1. p - 1 \in Nat /\ m \in Nat /\ p - 1 <= bs - 1
    OBVIOUS
  <2>2. m + k <= n
    <3>1. k * (p - 1) <= k * (bs - 1)
      BY <2>1
    <3>2. k * (bs - 1) = n - k
      OBVIOUS
    <3>3. QED
      BY <1>1, <2>1, <3>1, <3>2
  <2>3. ASSUME NEW i \in 1 .. n PROVE rows[i] = p <=> i \in (m + 1) .. (m + k)
    <3>1. i \in Int /\ rows[i] = (i - 1) \div k + 1 /\ (i - 1) \div k \in Nat
      BY <1>1, <1>2, <1>3
    <3>2. CASE rows[i] = p
      <4>1. (i - 1) \div k = p - 1
        BY <2>1, <3>1, <3>2
      <4>2. m <= i - 1 /\ i - 1 < m + k
        BY <4>1, <1>2
      <4>3. QED
        BY <2>1, <3>1, <3>2, <4>2
    <3>3. CASE i \in (m + 1) .. (m + k)
      <4>1. m <= i - 1 /\ i - 1 < m + k
        BY <2>1, <3>1, <3>3
      <4>2. (i - 1) \div k = p - 1
        BY <1>2, <2>1, <4>1
      <4>3. QED
        BY <3>1, <3>3, <4>2
    <3>4. QED
      BY <3>2, <3>3
  <2>4. (m + 1) .. (m + k) \subseteq 1 .. n
    <3> HIDE DEF m, n
    <3>1. QED
      BY <1>1, <2>1, <2>2
  <2>5. O = (m + 1) .. (m + k)
    BY <2>3, <2>4
  <2>6. Cardinality((m + 1) .. (m + k)) = k
    <3>1. m + 1 \in Int /\ m + k \in Int
      BY <2>1
    <3>2. QED
      BY <2>1, <3>1, FS_Interval
  <2>7. QED
    BY <1>5, <2>5, <2>6
<1>9. QED
  BY <1>5, <1>6, <1>7, <1>8 DEF Equally, Own

-----------------------------------------------------------------------------
\* What a request wants is a lambda in range.
LEMMA WantedType ==
  ASSUME TypeOK, NEW r \in Reqs
  PROVE  Wanted(r) \in Lambdas /\ (extraKey[r] \in Lambdas => Wanted(r) = extraKey[r])
BY DialAssumption DEF TypeOK, Wanted, ParseRequestLambda, Seals

\* The buffer: a row holds its request's lambda or the dial, and in a batch that
\* fits, its request's.
LEMMA FillIs ==
  ASSUME TypeOK, NEW batch \in Batches, NEW rows, NEW n \in Nat, NEW extend \in BOOLEAN,
         Layout(rows, n, Len(batch)),
         ~ extend => /\ n % Len(batch) = 0
                     /\ \A i \in 1 .. n : (i - 1) \div (n \div Len(batch)) + 1 = rows[i]
  PROVE  LET buf == FillBatch(batch, rows, extend) IN
         /\ buf \in [Buffer -> Lambdas]
         /\ \A i \in 1 .. n : i <= BufferRows => buf[i] \in {Wanted(batch[rows[i]]), value}
         /\ \A i \in 1 .. n : n <= BufferRows => buf[i] = Wanted(batch[rows[i]])
<1> DEFINE bs == Len(batch)
           vals == [p \in DOMAIN batch |-> Wanted(batch[p])]
           buf == FillBatch(batch, rows, extend)
<1>1. bs \in Nat \ {0} /\ batch \in [1 .. bs -> Reqs] /\ DOMAIN batch = 1 .. bs
  BY BatchIs
<1>2. vals \in [1 .. bs -> Lambdas] /\ \A p \in 1 .. bs : vals[p] = Wanted(batch[p])
  BY <1>1, WantedType
<1>3. value \in Lambdas /\ BufferRows \in Nat
  BY DialAssumption DEF TypeOK
<1>4. rows \in [1 .. n -> 1 .. bs] /\ Len(rows) = n
  BY DEF Layout
<1>5. CASE Cardinality(Image(vals)) = 1
  <2>1. vals \in Surjection(1 .. bs, Image(vals))
    BY <1>2 DEF Surjection, Image
  <2>2. IsFiniteSet(Image(vals))
    BY <1>1, <2>1, FS_Interval, FS_Surjection
  <2>3. PICK x : Image(vals) = {x}
    BY <1>5, <2>2, FS_Singleton
  <2>4. \A p \in 1 .. bs : vals[p] = x
    BY <1>2, <2>3 DEF Image
  <2>5. buf = [i \in Buffer |-> vals[1]] /\ vals[1] = x /\ vals[1] \in Lambdas
    <3>1. 1 \in 1 .. bs
      BY <1>1
    <3>2. QED
      BY <1>2, <1>5, <2>4, <3>1 DEF FillBatch
  <2> HIDE DEF buf
  <2>6. \A i \in 1 .. n : i <= BufferRows => buf[i] = Wanted(batch[rows[i]])
    BY <1>2, <1>3, <1>4, <2>4, <2>5 DEF Buffer
  <2>7. buf \in [Buffer -> Lambdas]
    BY <2>5
  <2>8. \A i \in 1 .. n : n <= BufferRows => i <= BufferRows
    BY <1>3
  <2>9. QED
    BY <2>6, <2>7, <2>8 DEF buf
<1>6. CASE Cardinality(Image(vals)) # 1 /\ ~ Fits(rows, bs, extend)
  <2>1. buf = [i \in Buffer |-> value]
    BY <1>6 DEF FillBatch
  <2>2. extend \/ n % bs = 0
    OBVIOUS
  <2>3. ~ n <= BufferRows
    BY <1>4, <1>6, <2>2 DEF Fits
  <2>4. QED
    BY <1>3, <2>1, <2>3 DEF Buffer
<1>7. CASE Cardinality(Image(vals)) # 1 /\ Fits(rows, bs, extend)
  <2>1. buf = [i \in Buffer |-> IF i <= n THEN vals[PositionOf(rows, bs, extend, i)]
                                ELSE value]
    BY <1>4, <1>7 DEF FillBatch
  <2>2. \A i \in 1 .. n : PositionOf(rows, bs, extend, i) = rows[i]
    BY <1>4 DEF PositionOf
  <2>3. \A i \in 1 .. n : i <= BufferRows => buf[i] = Wanted(batch[rows[i]])
    BY <1>2, <1>3, <1>4, <2>1, <2>2 DEF Buffer
  <2>4. buf \in [Buffer -> Lambdas]
    <3>1. ASSUME NEW i \in Buffer
          PROVE  (IF i <= n THEN vals[PositionOf(rows, bs, extend, i)] ELSE value) \in Lambdas
      <4>1. i <= n => i \in 1 .. n
        BY <1>3 DEF Buffer
      <4>2. QED
        BY <1>2, <1>3, <1>4, <2>2, <4>1
    <3>2. QED
      BY <2>1, <3>1
  <2>5. QED
    BY <1>3, <2>3, <2>4
<1>8. QED
  BY <1>5, <1>6, <1>7

-----------------------------------------------------------------------------
AllAre(t, l) == \A i \in 1 .. Len(t) : t[i] = l

\* What a seal's rows are, as long as no forward has been too wide.
SealsAreKept ==
  /\ \A r \in Reqs : stage[r] # "running" => kv[r] = <<>>
  /\ ~ wide => /\ \A r \in Reqs : extraKey[r] \in Lambdas => AllAre(kv[r], extraKey[r])
              /\ \A k \in Lambdas : AllAre(radix[k], k)

IInv == TypeOK /\ SealsAreKept /\ NeverAnothersLambda /\ SealedHitsMatch

\* The seal a request has, or has not.
LEMMA KeyType ==
  ASSUME TypeOK, NEW r \in Reqs
  PROVE  extraKey[r] \in DOMAIN radix /\ radix[extraKey[r]] \in Seq(Lambdas)
BY DEF TypeOK

\* The start of a path.
LEMMA Prefix ==
  ASSUME NEW t \in Seq(Lambdas), NEW b \in Nat, b <= Len(t)
  PROVE  /\ SubSeq(t, 1, b) \in Seq(Lambdas) /\ Len(SubSeq(t, 1, b)) = b
         /\ \A l : AllAre(t, l) => AllAre(SubSeq(t, 1, b), l)
<1>1. Len(t) \in Nat /\ \A i \in 1 .. b : i \in 1 .. Len(t) /\ t[i] \in Lambdas
  OBVIOUS
<1>2. /\ SubSeq(t, 1, b) \in Seq(Lambdas)
      /\ Len(SubSeq(t, 1, b)) = IF 1 <= b THEN b - 1 + 1 ELSE 0
      /\ \A i \in 1 .. b - 1 + 1 : SubSeq(t, 1, b)[i] = t[1 + i - 1]
  BY <1>1, SubSeqProperties
<1>3. Len(SubSeq(t, 1, b)) = b /\ \A i \in 1 .. b : SubSeq(t, 1, b)[i] = t[i]
  BY <1>2
<1>4. QED
  BY <1>1, <1>2, <1>3 DEF AllAre

\* What the radix tree holds once a request's rows are inserted.
LEMMA Inserted ==
  ASSUME NEW path \in Seq(Lambdas), NEW t \in Seq(Lambdas)
  PROVE  /\ Insert(path, t) \in Seq(Lambdas) /\ Len(t) <= Len(Insert(path, t))
         /\ \A l : AllAre(path, l) /\ AllAre(t, l) => AllAre(Insert(path, t), l)
<1> DEFINE a == Len(path)
           b == Len(t)
           end == SubSeq(t, a + 1, b)
<1>1. a \in Nat /\ b \in Nat
  OBVIOUS
<1>2. CASE ~ b > a
  BY <1>1, <1>2 DEF Insert
<1>3. CASE b > a
  <2>1. /\ end \in Seq(Lambdas) /\ Len(end) = b - a
        /\ \A i \in 1 .. b - a : end[i] = t[a + i]
    <3>1. \A i \in a + 1 .. b : t[i] \in Lambdas
      BY <1>1
    <3>2. /\ end \in Seq(Lambdas)
          /\ Len(end) = IF a + 1 <= b THEN b - (a + 1) + 1 ELSE 0
          /\ \A i \in 1 .. b - (a + 1) + 1 : end[i] = t[a + 1 + i - 1]
      BY <1>1, <3>1, SubSeqProperties
    <3> HIDE DEF a, b, end
    <3>3. b - (a + 1) + 1 = b - a /\ a + 1 <= b
      BY <1>1, <1>3
    <3>4. \A i \in 1 .. b - a : a + 1 + i - 1 = a + i
      BY <1>1
    <3>5. QED
      BY <3>2, <3>3, <3>4
  <2> HIDE DEF end
  <2>2. /\ path \o end \in Seq(Lambdas) /\ Len(path \o end) = a + (b - a)
        /\ \A i \in 1 .. a + (b - a) : (path \o end)[i] = IF i <= a THEN path[i] ELSE end[i - a]
    BY <2>1, ConcatProperties
  <2>3. a + (b - a) = b
    BY <1>1
  <2>4. Insert(path, t) = path \o end
    BY <1>3 DEF Insert, end
  <2>5. ASSUME NEW l, AllAre(path, l), AllAre(t, l), NEW i \in 1 .. b
        PROVE  (path \o end)[i] = l
    <3>1. CASE i <= a
      <4>1. i \in 1 .. a
        BY <1>1, <3>1
      <4>2. QED
        BY <2>2, <2>3, <2>5, <3>1, <4>1 DEF AllAre
    <3>2. CASE ~ i <= a
      <4>1. i - a \in 1 .. b - a /\ a + (i - a) = i
        BY <1>1, <3>2
      <4>2. (path \o end)[i] = t[i]
        BY <2>1, <2>2, <2>3, <3>2, <4>1
      <4>3. QED
        BY <2>5, <4>2 DEF AllAre
    <3>3. QED
      BY <3>1, <3>2
  <2>6. Len(path \o end) = b
    BY <2>2, <2>3
  <2>7. \A l : AllAre(path, l) /\ AllAre(t, l) => AllAre(path \o end, l)
    BY <2>5, <2>6 DEF AllAre
  <2>8. QED
    BY <1>1, <2>2, <2>4, <2>6, <2>7
<1>4. QED
  BY <1>2, <1>3

LEMMA InitInv == Init => IInv
<1> SUFFICES ASSUME Init PROVE IInv
  OBVIOUS
<1>1. LamInit \in Lambdas /\ MaxTokens \in Nat
  BY DialAssumption
<1>2. TypeOK
  <2>1. wide \in BOOLEAN
    BY DEF Init
  <2>2. QED
    BY <1>1, <2>1 DEF Init, TypeOK
<1>3. SealsAreKept
  BY DialAssumption DEF Init, SealsAreKept, AllAre, Seals
<1>4. NeverAnothersLambda /\ SealedHitsMatch
  BY DialAssumption DEF Init, NeverAnothersLambda, SealedHitsMatch, NoHit, Seals
<1>5. QED
  BY <1>2, <1>3, <1>4 DEF IInv

\* A step without a forward or a reuse says nothing of either.
LEMMA NothingRun ==
  ASSUME forward' = <<>>, hit' = NoHit
  PROVE  NeverAnothersLambda' /\ SealedHitsMatch'
<1>1. DOMAIN forward' = {} /\ hit'.key = NoSeal
  BY DEF NoHit
<1>2. NoSeal \notin Lambdas
  BY DialAssumption DEF Seals
<1>3. QED
  BY <1>1, <1>2 DEF NeverAnothersLambda, SealedHitsMatch

LEMMA ArriveInv ==
  ASSUME IInv, NEW r \in Reqs, NEW k \in Seals \cup {NoSeal}, NEW n \in 1 .. MaxTokens,
         Arrive(r, k, n)
  PROVE  IInv'
<1>1. /\ stage[r] = "new" /\ stage' = [stage EXCEPT ![r] = "waiting"]
      /\ extraKey' = [extraKey EXCEPT ![r] = k] /\ len' = [len EXCEPT ![r] = n]
      /\ forward' = <<>> /\ hit' = NoHit
      /\ UNCHANGED <<value, tok, kv, radix, wide>>
  BY DEF Arrive
<1>2. kv[r] = <<>> /\ Len(kv[r]) = 0
  BY <1>1 DEF IInv, SealsAreKept
<1>3. MaxTokens \in Nat
  BY DialAssumption
<1>4. TypeOK'
  BY <1>1, <1>2, <1>3 DEF IInv, TypeOK
<1>5. SealsAreKept'
  <2>1. \A q \in Reqs : /\ stage'[q] = IF q = r THEN "waiting" ELSE stage[q]
                        /\ extraKey'[q] = IF q = r THEN k ELSE extraKey[q]
    BY <1>1 DEF IInv, TypeOK
  <2>2. \A l : AllAre(kv[r], l)
    BY <1>2 DEF AllAre
  <2>3. QED
    BY <1>1, <1>2, <2>1, <2>2 DEF IInv, SealsAreKept, AllAre
<1>6. QED
  BY <1>1, <1>4, <1>5, NothingRun DEF IInv

LEMMA MatchInv ==
  ASSUME IInv, NEW r \in Reqs, NEW b \in 0 .. MaxTokens, Match(r, b)
  PROVE  IInv'
<1> DEFINE path == radix[extraKey[r]]
           t == SubSeq(path, 1, b)
<1>1. /\ stage[r] = "waiting" /\ b < len[r] /\ b <= Len(path)
      /\ stage' = [stage EXCEPT ![r] = "running"] /\ kv' = [kv EXCEPT ![r] = t]
      /\ hit' = [rows |-> t, key |-> extraKey[r], lam |-> Wanted(r)]
      /\ forward' = <<>>
      /\ UNCHANGED <<value, tok, extraKey, len, radix, wide>>
  BY DEF Match
<1>2. b \in Nat /\ path \in Seq(Lambdas)
  BY DialAssumption, KeyType DEF IInv
<1>3. /\ t \in Seq(Lambdas) /\ Len(t) = b
      /\ \A l : AllAre(path, l) => AllAre(t, l)
  BY <1>1, <1>2, Prefix
<1> HIDE DEF t
<1>4. /\ kv'[r] = t /\ stage'[r] = "running"
      /\ \A q \in Reqs \ {r} : kv'[q] = kv[q] /\ stage'[q] = stage[q]
  BY <1>1 DEF IInv, TypeOK
<1>5. TypeOK'
  <2>1. b <= len[r]
    BY <1>1, <1>2, DialAssumption DEF IInv, TypeOK
  <2>2. QED
    BY <1>1, <1>3, <1>4, <2>1 DEF IInv, TypeOK
<1>6. ~ wide /\ extraKey[r] \in Lambdas => AllAre(t, extraKey[r])
  BY <1>3 DEF IInv, SealsAreKept
<1>7. SealsAreKept'
  BY <1>1, <1>4, <1>6 DEF IInv, SealsAreKept, AllAre
<1>8. NeverAnothersLambda'
  BY <1>1 DEF NeverAnothersLambda
<1>9. SealedHitsMatch'
  <2> SUFFICES ASSUME ~ wide, extraKey[r] \in Lambdas, NEW i \in DOMAIN t
               PROVE  t[i] = Wanted(r)
    BY <1>1 DEF SealedHitsMatch
  <2>1. DOMAIN t = 1 .. Len(t)
    BY <1>3
  <2>2. Wanted(r) = extraKey[r]
    BY WantedType DEF IInv
  <2>3. QED
    BY <1>6, <2>1, <2>2 DEF AllAre
<1>10. QED
  BY <1>5, <1>7, <1>8, <1>9 DEF IInv

\* A request's rows enter the tree.
LEMMA CacheInv ==
  ASSUME IInv, NEW r \in Reqs, NEW next \in {"running", "done"}, Cache(r, next)
  PROVE  IInv'
<1> DEFINE k == extraKey[r]
           path == Insert(radix[k], kv[r])
           t == SubSeq(path, 1, Len(kv[r]))
<1>1. /\ stage[r] = "running" /\ stage' = [stage EXCEPT ![r] = next]
      /\ radix' = [radix EXCEPT ![k] = path]
      /\ forward' = <<>> /\ hit' = NoHit
      /\ UNCHANGED <<value, tok, extraKey, len, wide>>
  BY DEF Cache
<1>2. k \in DOMAIN radix /\ radix[k] \in Seq(Lambdas)
      /\ kv[r] \in Seq(Lambdas) /\ Len(kv[r]) \in Nat
  BY KeyType DEF IInv, TypeOK
<1>3. /\ path \in Seq(Lambdas) /\ Len(kv[r]) <= Len(path)
      /\ \A l : AllAre(radix[k], l) /\ AllAre(kv[r], l) => AllAre(path, l)
  BY <1>2, Inserted
<1>4. radix'[k] = path /\ \A j \in DOMAIN radix \ {k} : radix'[j] = radix[j]
  BY <1>1, <1>2
<1> HIDE DEF path
<1>5. /\ t \in Seq(Lambdas) /\ Len(t) = Len(kv[r])
      /\ \A l : AllAre(path, l) => AllAre(t, l)
  BY <1>2, <1>3, Prefix
<1>6. kv' = [kv EXCEPT ![r] = IF next = "done" THEN <<>> ELSE t]
  <2>1. kv' = [kv EXCEPT ![r] = IF next = "done" THEN <<>>
                                ELSE SubSeq(radix'[k], 1, Len(kv[r]))]
    BY DEF Cache
  <2>2. SubSeq(radix'[k], 1, Len(kv[r])) = t
    BY <1>4
  <2>3. QED
    BY <2>1, <2>2
<1> HIDE DEF t
<1>7. /\ kv'[r] = (IF next = "done" THEN <<>> ELSE t) /\ stage'[r] = next
      /\ \A q \in Reqs \ {r} : kv'[q] = kv[q] /\ stage'[q] = stage[q]
  BY <1>1, <1>6 DEF IInv, TypeOK
<1>8. kv'[r] \in Seq(Lambdas) /\ Len(kv'[r]) <= Len(kv[r])
  <2>1. Len(<<>>) = 0 /\ <<>> \in Seq(Lambdas)
    OBVIOUS
  <2>2. QED
    BY <1>2, <1>5, <1>7, <2>1
<1>9. TypeOK'
  <2>1. kv' \in [Reqs -> Seq(Lambdas)]
    BY <1>6, <1>7, <1>8 DEF IInv, TypeOK
  <2>2. radix' \in [Seals \cup {NoSeal} -> Seq(Lambdas)]
    BY <1>1, <1>3 DEF IInv, TypeOK
  <2>3. Len(kv'[r]) <= len[r]
    <3>1. Len(kv[r]) <= len[r] /\ len[r] \in Int /\ Len(kv'[r]) \in Int
      BY <1>8, DialAssumption DEF IInv, TypeOK
    <3>2. QED
      BY <1>2, <1>8, <3>1
  <2>4. QED
    BY <1>1, <1>7, <2>1, <2>2, <2>3 DEF IInv, TypeOK
<1>10. SealsAreKept'
  <2>1. ~ wide /\ k \in Lambdas => AllAre(path, k) /\ AllAre(kv'[r], k)
    <3> SUFFICES ASSUME ~ wide, k \in Lambdas PROVE AllAre(path, k) /\ AllAre(kv'[r], k)
      OBVIOUS
    <3>1. AllAre(path, k)
      BY <1>3 DEF IInv, SealsAreKept
    <3>2. AllAre(<<>>, k)
      BY DEF AllAre
    <3>3. QED
      BY <1>5, <1>7, <3>1, <3>2
  <2>2. Lambdas \subseteq DOMAIN radix
    BY DEF IInv, TypeOK, Seals
  <2>3. \A l \in Lambdas : ~ wide => AllAre(radix'[l], l)
    BY <1>4, <2>1, <2>2 DEF IInv, SealsAreKept
  <2>4. \A q \in Reqs : ~ wide /\ extraKey[q] \in Lambdas => AllAre(kv'[q], extraKey[q])
    BY <1>7, <2>1 DEF IInv, SealsAreKept
  <2>5. \A q \in Reqs : stage'[q] # "running" => kv'[q] = <<>>
    BY <1>7 DEF IInv, SealsAreKept
  <2>6. QED
    BY <1>1, <2>3, <2>4, <2>5 DEF SealsAreKept, AllAre
<1>11. QED
  BY <1>1, <1>9, <1>10, NothingRun DEF IInv

LEMMA RetractInv ==
  ASSUME IInv, NEW r \in Reqs, Retract(r)
  PROVE  IInv'
<1>1. /\ stage' = [stage EXCEPT ![r] = "waiting"] /\ kv' = [kv EXCEPT ![r] = <<>>]
      /\ forward' = <<>> /\ hit' = NoHit
      /\ UNCHANGED <<value, tok, extraKey, len, radix, wide>>
  BY DEF Retract
<1>2. /\ kv'[r] = <<>> /\ stage'[r] = "waiting"
      /\ \A q \in Reqs \ {r} : kv'[q] = kv[q] /\ stage'[q] = stage[q]
  BY <1>1 DEF IInv, TypeOK
<1>3. TypeOK'
  <2>1. kv' \in [Reqs -> Seq(Lambdas)] /\ stage' \in [Reqs -> {"new", "waiting", "running", "done"}]
    BY <1>1 DEF IInv, TypeOK
  <2>2. Len(kv'[r]) <= len[r]
    BY <1>2, DialAssumption DEF IInv, TypeOK
  <2>3. QED
    BY <1>1, <1>2, <2>1, <2>2 DEF IInv, TypeOK
<1>4. SealsAreKept'
  <2>1. \A l : AllAre(<<>>, l)
    BY DEF AllAre
  <2>2. QED
    BY <1>1, <1>2, <2>1 DEF IInv, SealsAreKept, AllAre
<1>5. QED
  BY <1>1, <1>3, <1>4, NothingRun DEF IInv

LEMMA EvictInv ==
  ASSUME IInv, NEW k \in Seals \cup {NoSeal}, NEW n \in 0 .. MaxTokens, Evict(k, n)
  PROVE  IInv'
<1> DEFINE t == SubSeq(radix[k], 1, n)
<1>1. /\ n < Len(radix[k]) /\ radix' = [radix EXCEPT ![k] = t]
      /\ forward' = <<>> /\ hit' = NoHit
      /\ UNCHANGED <<value, tok, stage, extraKey, len, kv, wide>>
  BY DEF Evict
<1>2. radix[k] \in Seq(Lambdas) /\ n \in Nat /\ k \in DOMAIN radix
  BY DialAssumption DEF IInv, TypeOK
<1>3. n <= Len(radix[k])
  BY <1>1, <1>2
<1>4. t \in Seq(Lambdas) /\ \A l : AllAre(radix[k], l) => AllAre(t, l)
  BY <1>2, <1>3, Prefix
<1> HIDE DEF t
<1>5. radix'[k] = t /\ \A j \in DOMAIN radix \ {k} : radix'[j] = radix[j]
  BY <1>1, <1>2
<1>6. TypeOK'
  BY <1>1, <1>4 DEF IInv, TypeOK
<1>7. SealsAreKept'
  <2>1. Lambdas \subseteq DOMAIN radix
    BY DEF IInv, TypeOK, Seals
  <2>2. \A l \in Lambdas : ~ wide => AllAre(radix'[l], l)
    BY <1>4, <1>5, <2>1 DEF IInv, SealsAreKept
  <2>3. QED
    BY <1>1, <2>2 DEF IInv, SealsAreKept, AllAre
<1>8. QED
  BY <1>1, <1>6, <1>7, NothingRun DEF IInv

LEMMA SetLambdaInv ==
  ASSUME IInv, NEW l \in Lambdas, SetLambda(l)
  PROVE  IInv'
<1>1. /\ value' = l /\ tok' = [i \in Buffer |-> l] /\ forward' = <<>> /\ hit' = NoHit
      /\ UNCHANGED <<stage, extraKey, len, kv, radix, wide>>
  BY DEF SetLambda
<1>2. TypeOK'
  BY <1>1 DEF IInv, TypeOK
<1>3. SealsAreKept'
  BY <1>1 DEF IInv, SealsAreKept, AllAre
<1>4. QED
  BY <1>1, <1>2, <1>3, NothingRun DEF IInv

\* One forward.  What is asked of the caller: the layout is the one fill_batch
\* reconstructs, each request has rows to keep, and room for them.
LEMMA ForwardInv ==
  ASSUME IInv, NEW batch \in Batches, NEW rows, NEW n \in Nat \ {0}, NEW extend \in BOOLEAN,
         NEW padding \in Nat, NEW kept,
         Layout(rows, n, Len(batch)),
         ~ extend => /\ n % Len(batch) = 0
                     /\ \A i \in 1 .. n : (i - 1) \div (n \div Len(batch)) + 1 = rows[i],
         \A p \in 1 .. Len(batch) :
           /\ stage[batch[p]] = "running"
           /\ kept[p] \in 0 .. Own(rows, p)
           /\ Len(kv[batch[p]]) + kept[p] <= len'[batch[p]],
         \A r \in Reqs \ Image(batch) : len'[r] = len[r],
         len' \in [Reqs -> 0 .. MaxTokens],
         Forward(batch, rows, extend, padding, kept)
  PROVE  IInv'
<1> DEFINE bs == Len(batch)
           buf == FillBatch(batch, rows, extend)
           width == Len(rows) + padding
           lams == [i \in 1 .. width |-> Apply(buf, width, i)]
           new(p) == SubSeq(RowsOf(rows, p, lams), 1, kept[p])
           at(r) == CHOOSE p \in DOMAIN batch : batch[p] = r
<1>1. /\ bs \in Nat \ {0} /\ batch \in [1 .. bs -> Reqs] /\ DOMAIN batch = 1 .. bs
      /\ \A p, q \in 1 .. bs : p # q => batch[p] # batch[q]
  BY BatchIs
<1>2. rows \in [1 .. n -> 1 .. bs] /\ Len(rows) = n /\ width = n + padding /\ width \in Nat
  <2>1. rows \in [1 .. n -> 1 .. bs]
    BY DEF Layout
  <2>2. Len(rows) = n
    BY <2>1
  <2>3. QED
    BY <2>1, <2>2
<1>3. TypeOK /\ value \in Lambdas /\ BufferRows \in Nat
  BY DialAssumption DEF IInv, TypeOK
<1>4. /\ buf \in [Buffer -> Lambdas]
      /\ \A i \in 1 .. n : i <= BufferRows => buf[i] \in {Wanted(batch[rows[i]]), value}
      /\ \A i \in 1 .. n : n <= BufferRows => buf[i] = Wanted(batch[rows[i]])
  BY <1>3, FillIs
<1> HIDE DEF buf
<1>5. ASSUME NEW i \in 1 .. width
      PROVE  /\ lams[i] \in Lambdas
             /\ i <= n => lams[i] \in {Wanted(batch[rows[i]]), value}
             /\ width <= BufferRows /\ i <= n => lams[i] = Wanted(batch[rows[i]])
  <2>1. lams[i] = IF width <= BufferRows THEN buf[i] ELSE value
    BY DEF Apply
  <2>2. CASE width <= BufferRows
    <3>1. i \in Buffer /\ (i <= n => i \in 1 .. n /\ i <= BufferRows /\ n <= BufferRows)
      BY <1>2, <1>3, <2>2 DEF Buffer
    <3>2. QED
      BY <1>4, <2>1, <2>2, <3>1
  <2>3. CASE ~ width <= BufferRows
    BY <1>3, <2>1, <2>3
  <2>4. QED
    BY <2>2, <2>3
<1> HIDE DEF lams
<1>6. ASSUME NEW p \in 1 .. bs
      PROVE  /\ new(p) \in Seq(Lambdas) /\ Len(new(p)) = kept[p] /\ kept[p] \in Nat
             /\ width <= BufferRows => AllAre(new(p), Wanted(batch[p]))
  <2> DEFINE a == Before(rows, p)
             c == Own(rows, p)
             t == RowsOf(rows, p, lams)
  <2>1. /\ c \in Nat /\ a \in Nat
        /\ \A j \in 1 .. c : a + j \in 1 .. n /\ rows[a + j] = p
    BY RowsOfPosition
  <2>0. t = [j \in 1 .. c |-> lams[a + j]]
    BY DEF RowsOf, Own, Before
  <2>2. kept[p] \in 0 .. c
    OBVIOUS
  <2> HIDE DEF a, c, t
  <2>3. /\ c \in Nat /\ a \in Nat /\ kept[p] \in 0 .. c
        /\ \A j \in 1 .. c : a + j \in 1 .. n /\ rows[a + j] = p
        /\ t = [j \in 1 .. c |-> lams[a + j]]
    BY <2>1, <2>2, <2>0
  <2>4. \A i \in 1 .. n : i \in 1 .. width /\ i <= n
    <3> DEFINE w == width
    <3>1. w = n + padding /\ n \in Nat /\ padding \in Nat
      BY <1>2
    <3> HIDE DEF w
    <3>2. \A i \in 1 .. n : i \in 1 .. w /\ i <= n
      BY <3>1
    <3>3. QED
      BY <3>2 DEF w
  <2>5. \A j \in 1 .. c : t[j] \in Lambdas
    BY <1>5, <2>3, <2>4
  <2>6. t \in Seq(Lambdas) /\ Len(t) = c
    BY <2>3, <2>5
  <2>7. \A j \in 1 .. c : width <= BufferRows => t[j] = Wanted(batch[p])
    BY <1>5, <2>3, <2>4, ZenonT(60)
  <2>8. kept[p] \in Nat /\ kept[p] <= Len(t)
    BY <2>3, <2>6
  <2>9. /\ new(p) \in Seq(Lambdas) /\ Len(new(p)) = kept[p]
        /\ \A l : AllAre(t, l) => AllAre(new(p), l)
    BY <2>6, <2>8, Prefix DEF t
  <2>10. QED
    BY <2>6, <2>7, <2>8, <2>9 DEF AllAre
<1>7. ASSUME NEW r \in Image(batch)
      PROVE  at(r) \in 1 .. bs /\ batch[at(r)] = r /\ r \in Reqs
  BY <1>1 DEF Image
<1>8. /\ tok' = buf /\ hit' = NoHit /\ wide' = (wide \/ width > BufferRows)
      /\ forward' = [i \in 1 .. width |->
                        [owner |-> IF i <= Len(rows) THEN {batch[rows[i]]} ELSE {},
                         lam   |-> lams[i]]]
      /\ UNCHANGED <<value, extraKey, radix, stage>>
  BY DEF Forward, buf, lams
<1>9. kv' = [r \in Reqs |-> IF r \in Image(batch) THEN kv[r] \o new(at(r)) ELSE kv[r]]
  BY DEF Forward, buf, lams
<1> HIDE DEF new, at
<1>10. ASSUME NEW r \in Reqs
       PROVE  /\ kv'[r] \in Seq(Lambdas) /\ Len(kv'[r]) <= len'[r]
              /\ stage[r] # "running" => kv'[r] = kv[r]
              /\ \A l : AllAre(kv[r], l) /\ (r \in Image(batch) => AllAre(new(at(r)), l))
                         => AllAre(kv'[r], l)
  <2>1. kv[r] \in Seq(Lambdas) /\ Len(kv[r]) <= len[r]
    BY <1>3 DEF TypeOK
  <2>2. CASE r \notin Image(batch)
    BY <1>9, <2>1, <2>2
  <2>3. CASE r \in Image(batch)
    <3>1. /\ at(r) \in 1 .. bs /\ batch[at(r)] = r
          /\ new(at(r)) \in Seq(Lambdas) /\ Len(new(at(r))) = kept[at(r)]
          /\ stage[r] = "running" /\ Len(kv[r]) + kept[at(r)] <= len'[r]
      BY <2>3, <1>6, <1>7
    <3> DEFINE u == new(at(r))
               s == kv[r] \o u
    <3>0. u \in Seq(Lambdas)
      BY <3>1
    <3> HIDE DEF u
    <3>2. /\ s \in Seq(Lambdas) /\ Len(s) = Len(kv[r]) + Len(u)
          /\ \A i \in 1 .. Len(kv[r]) + Len(u) :
               s[i] = IF i <= Len(kv[r]) THEN kv[r][i] ELSE u[i - Len(kv[r])]
      BY <2>1, <3>0, ConcatProperties
    <3>3. kv'[r] = s
      BY <1>9, <2>3 DEF u
    <3> HIDE DEF s
    <3>4. ASSUME NEW l, AllAre(kv[r], l), AllAre(u, l) PROVE AllAre(s, l)
      <4> SUFFICES ASSUME NEW i \in 1 .. Len(s) PROVE s[i] = l
        BY DEF AllAre
      <4>1. Len(kv[r]) \in Nat /\ Len(u) \in Nat
        BY <2>1, <3>1 DEF u
      <4>2. CASE i <= Len(kv[r])
        <5>1. i \in 1 .. Len(kv[r])
          BY <3>2, <4>1, <4>2
        <5>2. QED
          BY <3>2, <3>4, <4>2, <5>1 DEF AllAre
      <4>3. CASE ~ i <= Len(kv[r])
        <5>1. i - Len(kv[r]) \in 1 .. Len(u)
          BY <3>2, <4>1, <4>3
        <5>2. QED
          BY <3>2, <3>4, <4>3, <5>1 DEF AllAre
      <4>4. QED
        BY <4>2, <4>3
    <3>5. QED
      BY <2>3, <3>1, <3>2, <3>3, <3>4 DEF u
  <2>4. QED
    BY <2>2, <2>3
<1>11. TypeOK'
  <2>1. kv' \in [Reqs -> Seq(Lambdas)]
    BY <1>9, <1>10
  <2>2. QED
    BY <1>3, <1>4, <1>8, <1>10, <2>1 DEF TypeOK
<1>12. ASSUME ~ wide', NEW r \in Reqs, extraKey[r] \in Lambdas
       PROVE  AllAre(kv'[r], extraKey[r])
  <2>1. ~ width > BufferRows /\ ~ wide
    <3>1. wide' <=> (wide \/ width > BufferRows)
      BY <1>8, Zenon
    <3>2. QED
      BY <1>12, <3>1
  <2>0. width <= BufferRows
    BY <1>2, <1>3, <2>1
  <2>2. AllAre(kv[r], extraKey[r])
    BY <1>12, <2>1 DEF IInv, SealsAreKept
  <2>3. r \in Image(batch) => AllAre(new(at(r)), extraKey[r])
    BY <1>3, <1>6, <1>7, <1>12, <2>0, WantedType
  <2>4. QED
    BY <1>10, <2>2, <2>3
<1>13. SealsAreKept'
  <2>1. \A r \in Reqs : stage'[r] # "running" => kv'[r] = <<>>
    BY <1>8, <1>10 DEF IInv, SealsAreKept
  <2>2. ~ wide' => \A k \in Lambdas : AllAre(radix'[k], k)
    BY <1>8 DEF IInv, SealsAreKept
  <2>3. QED
    BY <1>8, <1>12, <2>1, <2>2 DEF SealsAreKept, AllAre
<1>14. NeverAnothersLambda'
  <2>1. \A r : Wanted(r)' = Wanted(r)
    BY <1>8 DEF Wanted
  <2> SUFFICES ASSUME NEW i \in DOMAIN forward', NEW r \in forward'[i].owner
               PROVE  forward'[i].lam \in {Wanted(r), value}
    BY <1>8, <2>1 DEF NeverAnothersLambda
  <2>2. /\ i \in 1 .. width /\ forward'[i].lam = lams[i]
        /\ forward'[i].owner = IF i <= n THEN {batch[rows[i]]} ELSE {}
    BY <1>2, <1>8
  <2>3. i <= n /\ r = batch[rows[i]]
    BY <2>2
  <2>4. QED
    BY <1>5, <2>2, <2>3
<1>15. SealedHitsMatch'
  <2>1. hit'.key = NoSeal
    BY <1>8 DEF NoHit
  <2>2. NoSeal \notin Lambdas
    BY DialAssumption DEF Seals
  <2>3. QED
    BY <2>1, <2>2 DEF SealedHitsMatch
<1>16. QED
  BY <1>11, <1>13, <1>14, <1>15 DEF IInv

\* Prefill: the layout says how many rows each request has.
LEMMA ExtendInv ==
  ASSUME IInv, NEW batch \in Batches, NEW padding \in 0 .. MaxPadding,
         NEW n \in 1 .. Len(batch) * MaxTokens, NEW rows \in Layouts(Len(batch), n),
         Extend(batch, rows, padding)
  PROVE  IInv'
<1> DEFINE bs == Len(batch)
           share == [p \in DOMAIN batch |-> Cardinality({i \in DOMAIN rows : rows[i] = p})]
<1>1. bs \in Nat \ {0} /\ batch \in [1 .. bs -> Reqs] /\ DOMAIN batch = 1 .. bs
  BY BatchIs
<1>2. MaxTokens \in Nat /\ MaxPadding \in Nat
  BY DialAssumption
<1>3. n \in Nat \ {0} /\ padding \in Nat
  <2>1. bs * MaxTokens \in Nat
    BY <1>1, <1>2
  <2>2. QED
    BY <1>2, <2>1
<1>4. Layout(rows, n, bs)
  BY <1>1, <1>3 DEF Layouts, Layout
<1>5. /\ \A p \in DOMAIN batch : /\ stage[batch[p]] = "running"
                                /\ share[p] <= len[batch[p]] - Len(kv[batch[p]])
      /\ Forward(batch, rows, TRUE, padding, share)
      /\ len' = len
  BY DEF Extend
<1>6. ASSUME NEW p \in 1 .. bs
      PROVE  /\ stage[batch[p]] = "running"
             /\ share[p] \in 0 .. Own(rows, p)
             /\ Len(kv[batch[p]]) + share[p] <= len'[batch[p]]
  <2>1. share[p] = Own(rows, p) /\ Own(rows, p) \in Nat
    BY <1>1, <1>4, RowsOfPosition DEF Own
  <2> HIDE DEF share
  <2>2. /\ batch[p] \in Reqs /\ Len(kv[batch[p]]) \in Nat /\ len[batch[p]] \in Int
    BY <1>1, <1>2 DEF IInv, TypeOK
  <2>3. stage[batch[p]] = "running" /\ share[p] <= len[batch[p]] - Len(kv[batch[p]])
    BY <1>1, <1>5
  <2>4. QED
    BY <1>5, <2>1, <2>2, <2>3
<1>7. len' \in [Reqs -> 0 .. MaxTokens] /\ \A r \in Reqs \ Image(batch) : len'[r] = len[r]
  BY <1>5 DEF IInv, TypeOK
<1> HIDE DEF share
<1>8. QED
  BY <1>3, <1>4, <1>5, <1>6, <1>7, ForwardInv

\* Decode and speculative verification: k rows each, of which kept[p] are accepted.
LEMMA DecodeInv ==
  ASSUME IInv, NEW batch \in Batches, NEW padding \in 0 .. MaxPadding,
         NEW k \in Shares, NEW kept \in [DOMAIN batch -> 1 .. k],
         Decode(batch, k, padding, kept)
  PROVE  IInv'
<1> DEFINE bs == Len(batch)
           rows == [i \in 1 .. k * bs |-> (i - 1) \div k + 1]
           n == k * bs
           at(r) == CHOOSE p \in DOMAIN batch : batch[p] = r
<1>1. /\ bs \in Nat \ {0} /\ batch \in [1 .. bs -> Reqs] /\ DOMAIN batch = 1 .. bs
      /\ \A p, q \in 1 .. bs : p # q => batch[p] # batch[q]
  BY BatchIs
<1>2. MaxTokens \in Nat /\ padding \in Nat /\ k \in Nat \ {0}
  BY DialAssumption
<1>3. /\ Layout(rows, n, bs) /\ Len(rows) = n /\ n \div bs = k /\ n % bs = 0
      /\ \A p \in 1 .. bs : Own(rows, p) = k
  <2>1. rows = Equally(k, bs)
    BY DEF Equally
  <2> HIDE DEF rows
  <2>2. /\ Layout(Equally(k, bs), k * bs, bs) /\ Len(Equally(k, bs)) = k * bs
        /\ (k * bs) \div bs = k /\ (k * bs) % bs = 0
        /\ \A p \in 1 .. bs : Own(Equally(k, bs), p) = k
    BY <1>1, <1>2, EqualShares
  <2>3. QED
    BY <2>1, <2>2
<1>4. n \in Nat \ {0}
  <2>1. k * 1 <= k * bs /\ k * bs \in Nat
    BY <1>1, <1>2, Product
  <2>2. QED
    BY <1>2, <2>1
<1>5. \A i \in 1 .. n : (i - 1) \div (n \div bs) + 1 = rows[i]
  BY <1>3
<1>6. /\ \A p \in DOMAIN batch : /\ stage[batch[p]] = "running"
                                /\ Len(kv[batch[p]]) = len[batch[p]]
                                /\ len[batch[p]] + kept[p] <= MaxTokens
      /\ Forward(batch, rows, FALSE, padding, kept)
      /\ len' = [r \in Reqs |-> IF r \in Image(batch) THEN len[r] + kept[at(r)] ELSE len[r]]
  BY DEF Decode
<1> HIDE DEF rows, n
<1>7. ASSUME NEW p \in 1 .. bs
      PROVE  /\ batch[p] \in Image(batch) /\ batch[p] \in Reqs /\ at(batch[p]) = p
             /\ kept[p] \in 1 .. k /\ kept[p] \in Nat
  BY <1>1, <1>2 DEF Image
<1>8. ASSUME NEW p \in 1 .. bs
      PROVE  /\ stage[batch[p]] = "running"
             /\ kept[p] \in 0 .. Own(rows, p)
             /\ Len(kv[batch[p]]) + kept[p] <= len'[batch[p]]
  <2>1. len'[batch[p]] = len[batch[p]] + kept[p]
    BY <1>6, <1>7
  <2>2. stage[batch[p]] = "running" /\ Len(kv[batch[p]]) = len[batch[p]]
    BY <1>1, <1>6
  <2>3. len[batch[p]] \in Int
    BY <1>2, <1>7 DEF IInv, TypeOK
  <2>4. kept[p] \in 0 .. Own(rows, p)
    BY <1>2, <1>3, <1>7
  <2>5. QED
    BY <1>7, <2>1, <2>2, <2>3, <2>4
<1>9. len' \in [Reqs -> 0 .. MaxTokens] /\ \A r \in Reqs \ Image(batch) : len'[r] = len[r]
  <2>1. ASSUME NEW r \in Reqs
        PROVE  (IF r \in Image(batch) THEN len[r] + kept[at(r)] ELSE len[r]) \in 0 .. MaxTokens
    <3>1. len[r] \in 0 .. MaxTokens
      BY DEF IInv, TypeOK
    <3>2. CASE r \in Image(batch)
      <4>1. PICK p \in 1 .. bs : r = batch[p]
        BY <1>1, <3>2 DEF Image
      <4>2. at(r) = p /\ kept[p] \in Nat /\ len[r] + kept[p] <= MaxTokens
        BY <1>1, <1>6, <1>7, <4>1
      <4> HIDE DEF at
      <4>3. len[r] + kept[at(r)] \in 0 .. MaxTokens
        BY <1>2, <3>1, <4>2
      <4>4. QED
        BY <3>2, <4>3
    <3>3. QED
      BY <3>1, <3>2
  <2> HIDE DEF at
  <2>2. QED
    BY <1>6, <2>1
<1>10. QED
  BY <1>2, <1>3, <1>4, <1>5, <1>6, <1>8, <1>9, ForwardInv

LEMMA NextInv == IInv /\ [Next]_vars => IInv'
<1> SUFFICES ASSUME IInv, [Next]_vars PROVE IInv'
  OBVIOUS
<1>1. ASSUME NEW r \in Reqs, NEW k \in Seals \cup {NoSeal}, NEW n \in 1 .. MaxTokens,
             Arrive(r, k, n)
      PROVE  IInv'
  BY <1>1, ArriveInv
<1>2. ASSUME NEW r \in Reqs, NEW b \in 0 .. MaxTokens, Match(r, b) PROVE IInv'
  BY <1>2, MatchInv
<1>3. ASSUME NEW batch \in Batches, NEW padding \in 0 .. MaxPadding,
             NEW n \in 1 .. Len(batch) * MaxTokens, NEW rows \in Layouts(Len(batch), n),
             Extend(batch, rows, padding)
      PROVE  IInv'
  BY <1>3, ExtendInv
<1>4. ASSUME NEW batch \in Batches, NEW padding \in 0 .. MaxPadding,
             NEW k \in Shares, NEW kept \in [DOMAIN batch -> 1 .. k],
             Decode(batch, k, padding, kept)
      PROVE  IInv'
  BY <1>4, DecodeInv
<1>5. ASSUME NEW r \in Reqs, NEW next \in {"running", "done"}, Cache(r, next) PROVE IInv'
  BY <1>5, CacheInv
<1>6. ASSUME NEW r \in Reqs, Retract(r) PROVE IInv'
  BY <1>6, RetractInv
<1>7. ASSUME NEW k \in Seals \cup {NoSeal}, NEW n \in 0 .. MaxTokens, Evict(k, n) PROVE IInv'
  BY <1>7, EvictInv
<1>8. ASSUME NEW l \in Lambdas, SetLambda(l) PROVE IInv'
  BY <1>8, SetLambdaInv
<1>9. CASE UNCHANGED vars
  <2>1. UNCHANGED <<value, tok, stage, extraKey, len, kv, radix, forward, hit, wide>>
    BY <1>9 DEF vars
  <2>2. TypeOK' /\ SealsAreKept'
    BY <2>1 DEF IInv, TypeOK, SealsAreKept, AllAre
  <2>3. NeverAnothersLambda' /\ SealedHitsMatch'
    BY <2>1 DEF IInv, NeverAnothersLambda, SealedHitsMatch, Wanted
  <2>4. QED
    BY <2>2, <2>3 DEF IInv
<1>10. QED
  BY <1>1, <1>2, <1>3, <1>4, <1>5, <1>6, <1>7, <1>8, <1>9 DEF Next

LEMMA Inductive == Spec => []IInv
BY InitInv, NextInv, PTL DEF Spec

\* Type correctness; no request has more computed tokens than tokens.
THEOREM TypeCorrect == Spec => []TypeOK
<1>1. IInv => TypeOK
  BY DEF IInv
<1>2. QED
  BY <1>1, Inductive, PTL

\* fill_batch and apply: no row is projected with the lambda of another request,
\* whatever the sizes of buffer, batch, layout and padding.
THEOREM OwnLambdaOrDial == Spec => []NeverAnothersLambda
<1>1. IInv => NeverAnothersLambda
  BY DEF IInv
<1>2. QED
  BY <1>1, Inductive, PTL

\* While forwards fit the buffer, a sealed request reuses rows of its seal only, for
\* any traffic, evictions and movement of the dial.
THEOREM SealedIsolation == Spec => []SealedHitsMatch
<1>1. IInv => SealedHitsMatch
  BY DEF IInv
<1>2. QED
  BY <1>1, Inductive, PTL
=============================================================================

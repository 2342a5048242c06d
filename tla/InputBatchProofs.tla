-------------------------- MODULE InputBatchProofs --------------------------
(***************************************************************************)
(* The batch update, for any number of rows and requests.  The argument is *)
(* one of counting: condense pairs the holes below num_reqs with the last  *)
(* requests by rank, and there are as many of one as of the other, so every*)
(* hole is filled, every request keeps exactly one place, and what moves   *)
(* down leaves nothing behind.                                             *)
(***************************************************************************)
EXTENDS InputBatch, FiniteSetTheorems, SequenceTheorems, TLAPS

-----------------------------------------------------------------------------
\* The place of x in S, counted from below and from above.
Up(S, x) == Cardinality({y \in S : y <= x})
Down(S, x) == Cardinality({y \in S : y >= x})

LEMMA UpRank ==
  ASSUME NEW S \in SUBSET Int, IsFiniteSet(S)
  PROVE  /\ \A x \in S : Up(S, x) \in 1 .. Cardinality(S)
         /\ \A x, y \in S : x < y => Up(S, x) < Up(S, y)
         /\ \A k \in 1 .. Cardinality(S) : \E x \in S : Up(S, x) = k
<1> DEFINE n == Cardinality(S)
           B(x) == {y \in S : y <= x}
           f == [x \in S |-> Up(S, x)]
<1>1. n \in Nat
  BY FS_CardinalityType
<1>2. ASSUME NEW x \in S
      PROVE  B(x) \in SUBSET S /\ IsFiniteSet(B(x)) /\ x \in B(x) /\ Up(S, x) = Cardinality(B(x))
  <2>1. B(x) \in SUBSET S /\ x \in B(x) /\ Up(S, x) = Cardinality(B(x))
    BY DEF Up
  <2> HIDE DEF B
  <2>2. QED
    BY <2>1, FS_Subset
<1>3. ASSUME NEW x \in S PROVE Up(S, x) \in 1 .. n
  <2> HIDE DEF B
  <2>1. Up(S, x) \in Nat /\ Up(S, x) <= n
    BY <1>2, FS_Subset, FS_CardinalityType
  <2>2. Up(S, x) # 0
    BY <1>2, FS_EmptySet
  <2>3. QED
    BY <1>1, <2>1, <2>2
<1>4. ASSUME NEW x \in S, NEW y \in S, x < y PROVE Up(S, x) < Up(S, y)
  <2>1. B(x) \in SUBSET B(y) /\ y \notin B(x) /\ y \in B(y)
    <3>1. x \in Int /\ y \in Int /\ \A z \in S : z \in Int
      OBVIOUS
    <3>2. \A z \in S : z <= x => z <= y
      BY <1>4, <3>1
    <3>3. ~ y <= x /\ y <= y
      BY <1>4, <3>1
    <3>4. QED
      BY <3>2, <3>3
  <2> HIDE DEF B
  <2>2. Cardinality(B(x)) <= Cardinality(B(y)) /\ Cardinality(B(x)) # Cardinality(B(y))
    BY <1>2, <2>1, FS_Subset
  <2>3. Cardinality(B(x)) \in Nat /\ Cardinality(B(y)) \in Nat
    BY <1>2, FS_CardinalityType
  <2>4. QED
    BY <1>2, <2>2, <2>3
<1>5. f \in Injection(S, 1 .. n)
  <2>1. \A x, y \in S : x # y => Up(S, x) # Up(S, y)
    <3> SUFFICES ASSUME NEW x \in S, NEW y \in S, x # y PROVE Up(S, x) # Up(S, y)
      OBVIOUS
    <3>1. x < y \/ y < x
      OBVIOUS
    <3>2. Up(S, x) \in Int /\ Up(S, y) \in Int
      BY <1>1, <1>3
    <3>3. QED
      BY <1>4, <3>1, <3>2
  <2>2. f \in [S -> 1 .. n] /\ \A x \in S : f[x] = Up(S, x)
    BY <1>3
  <2> HIDE DEF f
  <2>3. \A x, y \in S : f[x] = f[y] => x = y
    BY <2>1, <2>2
  <2>4. QED
    BY <2>2, <2>3 DEF Injection, IsInjective
<1>6. f \in Surjection(S, 1 .. n)
  <2>1. IsFiniteSet(1 .. n) /\ Cardinality(1 .. n) = n
    BY <1>1, FS_Interval
  <2>2. QED
    BY <1>5, <2>1, FS_Injection
<1>7. QED
  BY <1>3, <1>4, <1>6 DEF Surjection

LEMMA DownRank ==
  ASSUME NEW S \in SUBSET Int, IsFiniteSet(S)
  PROVE  /\ \A x \in S : Down(S, x) \in 1 .. Cardinality(S)
         /\ \A x, y \in S : x < y => Down(S, y) < Down(S, x)
         /\ \A k \in 1 .. Cardinality(S) : \E x \in S : Down(S, x) = k
<1> DEFINE n == Cardinality(S)
           B(x) == {y \in S : y >= x}
           f == [x \in S |-> Down(S, x)]
<1>1. n \in Nat
  BY FS_CardinalityType
<1>2. ASSUME NEW x \in S
      PROVE  B(x) \in SUBSET S /\ IsFiniteSet(B(x)) /\ x \in B(x) /\ Down(S, x) = Cardinality(B(x))
  <2>1. B(x) \in SUBSET S /\ x \in B(x) /\ Down(S, x) = Cardinality(B(x))
    BY DEF Down
  <2> HIDE DEF B
  <2>2. QED
    BY <2>1, FS_Subset
<1>3. ASSUME NEW x \in S PROVE Down(S, x) \in 1 .. n
  <2> HIDE DEF B
  <2>1. Down(S, x) \in Nat /\ Down(S, x) <= n
    BY <1>2, FS_Subset, FS_CardinalityType
  <2>2. Down(S, x) # 0
    BY <1>2, FS_EmptySet
  <2>3. QED
    BY <1>1, <2>1, <2>2
<1>4. ASSUME NEW x \in S, NEW y \in S, x < y PROVE Down(S, y) < Down(S, x)
  <2>1. B(y) \in SUBSET B(x) /\ x \notin B(y) /\ x \in B(x)
    <3>1. x \in Int /\ y \in Int /\ \A z \in S : z \in Int
      OBVIOUS
    <3>2. \A z \in S : z >= y => z >= x
      BY <1>4, <3>1
    <3>3. ~ x >= y /\ x >= x
      BY <1>4, <3>1
    <3>4. QED
      BY <3>2, <3>3
  <2> HIDE DEF B
  <2>2. Cardinality(B(y)) <= Cardinality(B(x)) /\ Cardinality(B(x)) # Cardinality(B(y))
    BY <1>2, <2>1, FS_Subset
  <2>3. Cardinality(B(x)) \in Nat /\ Cardinality(B(y)) \in Nat
    BY <1>2, FS_CardinalityType
  <2>4. QED
    BY <1>2, <2>2, <2>3
<1>5. f \in Injection(S, 1 .. n)
  <2>1. \A x, y \in S : x # y => Down(S, x) # Down(S, y)
    <3> SUFFICES ASSUME NEW x \in S, NEW y \in S, x # y PROVE Down(S, x) # Down(S, y)
      OBVIOUS
    <3>1. x < y \/ y < x
      OBVIOUS
    <3>2. Down(S, x) \in Int /\ Down(S, y) \in Int
      BY <1>1, <1>3
    <3>3. QED
      BY <1>4, <3>1, <3>2
  <2>2. f \in [S -> 1 .. n] /\ \A x \in S : f[x] = Down(S, x)
    BY <1>3
  <2> HIDE DEF f
  <2>3. \A x, y \in S : f[x] = f[y] => x = y
    BY <2>1, <2>2
  <2>4. QED
    BY <2>2, <2>3 DEF Injection, IsInjective
<1>6. f \in Surjection(S, 1 .. n)
  <2>1. IsFiniteSet(1 .. n) /\ Cardinality(1 .. n) = n
    BY <1>1, FS_Interval
  <2>2. QED
    BY <1>5, <2>1, FS_Injection
<1>7. QED
  BY <1>3, <1>4, <1>6 DEF Surjection

\* A set of rows that is not empty has a lowest.
LEMMA Lowest ==
  ASSUME NEW S \in SUBSET Int, IsFiniteSet(S), S # {}
  PROVE  \E i \in S : \A j \in S : i <= j
<1>1. Cardinality(S) \in Nat /\ Cardinality(S) # 0
  BY FS_CardinalityType, FS_EmptySet
<1>2. 1 \in 1 .. Cardinality(S)
  BY <1>1
<1>3. PICK i \in S : Up(S, i) = 1
  BY <1>2, UpRank
<1>4. ASSUME NEW j \in S, j < i PROVE FALSE
  <2>1. Up(S, j) \in 1 .. Cardinality(S) /\ Up(S, j) < 1
    BY <1>3, <1>4, UpRank
  <2>2. QED
    BY <1>1, <2>1
<1>5. QED
  BY <1>4

-----------------------------------------------------------------------------
\* What the list has at an index.
Entry(i) == IF i < Len(ids) THEN ids[i + 1] ELSE Nobody

Types ==
  /\ TypeOK
  /\ DOMAIN added \subseteq Slots
  /\ moved \in [Slots -> Slots \cup {Nobody}]

\* The list and the map name the same requests at the same places.
SamePlaces ==
  /\ \A i \in 1 .. Len(ids) : ids[i] # Nobody => index[ids[i]] = i - 1
  /\ \A r \in Resident : index[r] < Len(ids) /\ ids[index[r] + 1] = r

\* The holes of the list.
Empty == {i \in Slots : i < Len(ids) /\ ids[i + 1] = Nobody}
HolesAreKnown == Empty = IF phase \in {"removing", "adding"} THEN removed ELSE {}

\* What each phase has done to the batch update.
Phases ==
  /\ phase = "ready" => removed = {}
  /\ phase \in {"ready", "removing"} => DOMAIN added = {}
  /\ phase # "condensed" => moved = [i \in Slots |-> i]

\* The batch update, applied to what a processor has, gives the list.
UpdateIsTrue == \A i \in Slots : Updated(moved[i]) = Entry(i)

IInv ==
  /\ Types /\ SamePlaces /\ HolesAreKnown /\ Phases /\ UpdateIsTrue
  /\ RowsFollowRequests /\ NothingLeftBehind

-----------------------------------------------------------------------------
\* There are as many residents as entries of the list that are not holes.
LEMMA Counting ==
  ASSUME Types, SamePlaces
  PROVE  /\ Len(ids) \in Nat /\ Len(ids) <= MaxNumReqs /\ MaxNumReqs \in Nat
         /\ Empty \in SUBSET (0 .. Len(ids) - 1) /\ IsFiniteSet(Empty)
         /\ IsFiniteSet(Resident) /\ NumReqs \in Nat
         /\ Cardinality(Empty) \in Nat /\ NumReqs = Len(ids) - Cardinality(Empty)
<1> DEFINE all == 0 .. Len(ids) - 1
           taken == all \ Empty
           f == [i \in taken |-> ids[i + 1]]
<1>1. /\ Len(ids) \in Nat /\ Len(ids) <= MaxNumReqs /\ MaxNumReqs \in Nat
      /\ \A i \in 1 .. Len(ids) : ids[i] \in Reqs \cup {Nobody}
  BY BatchAssumption DEF Types, TypeOK
<1>2. /\ all \subseteq Slots /\ IsFiniteSet(all) /\ Cardinality(all) = Len(ids)
      /\ Empty \in SUBSET all
  <2>1. all \subseteq Slots
    BY <1>1 DEF Slots
  <2>0. Len(ids) - 1 \in Int /\ 0 \in Int
    BY <1>1
  <2>2. IsFiniteSet(all) /\ Cardinality(all) = IF 0 > Len(ids) - 1 THEN 0 ELSE Len(ids) - 1 - 0 + 1
    BY <2>0, FS_Interval
  <2>3. Empty \in SUBSET all
    BY <1>1 DEF Empty, Slots
  <2>4. QED
    BY <1>1, <2>1, <2>2, <2>3
<1>3. IsFiniteSet(Empty) /\ Cardinality(Empty) \in Nat
  BY <1>2, FS_Subset, FS_CardinalityType
<1>4. IsFiniteSet(taken) /\ Cardinality(taken) = Len(ids) - Cardinality(Empty)
  <2>1. all \cap Empty = Empty
    BY <1>2
  <2>2. IsFiniteSet(all \ Empty)
        /\ Cardinality(all \ Empty) = Cardinality(all) - Cardinality(all \cap Empty)
    BY <1>2, FS_Difference
  <2> HIDE DEF all
  <2>3. QED
    BY <1>2, <2>1, <2>2
<1>5. ASSUME NEW i \in taken PROVE ids[i + 1] \in Resident /\ index[ids[i + 1]] = i
  <2>1. i \in Slots /\ i < Len(ids) /\ i + 1 \in 1 .. Len(ids) /\ i \in Nat
    BY <1>1, <1>2
  <2>2. ids[i + 1] # Nobody
    BY <2>1 DEF Empty
  <2>3. index[ids[i + 1]] = i + 1 - 1
    BY <2>1, <2>2 DEF SamePlaces
  <2>4. QED
    BY <1>1, <2>1, <2>2, <2>3 DEF Resident
<1>6. ASSUME NEW r \in Resident PROVE index[r] \in taken /\ ids[index[r] + 1] = r
  <2>1. index[r] \in Slots /\ r # Nobody
    BY BatchAssumption DEF Resident, Types, TypeOK
  <2>2. index[r] < Len(ids) /\ ids[index[r] + 1] = r
    BY DEF SamePlaces
  <2>3. index[r] \in all
    BY <1>1, <2>1, <2>2 DEF Slots
  <2>4. QED
    BY <2>1, <2>2, <2>3 DEF Empty
<1>7. f \in Bijection(taken, Resident)
  <2>1. f \in [taken -> Resident] /\ \A i \in taken : f[i] = ids[i + 1]
    BY <1>5
  <2> HIDE DEF f, taken
  <2>2. \A i, j \in taken : f[i] = f[j] => i = j
    BY <1>5, <2>1
  <2>3. \A r \in Resident : \E i \in taken : f[i] = r
    BY <1>6, <2>1
  <2>4. QED
    BY <2>1, <2>2, <2>3 DEF Bijection, Injection, Surjection, IsInjective
<1>8. IsFiniteSet(Resident) /\ Cardinality(Resident) = Cardinality(taken)
  BY <1>4, <1>7, FS_Bijection DEF ExistsBijection
<1>9. QED
  BY <1>1, <1>2, <1>3, <1>4, <1>8, FS_CardinalityType DEF NumReqs

\* num_reqs is the length of the list, less its holes.
LEMMA NumReqsIs ==
  ASSUME IInv
  PROVE  /\ NumReqs \in Nat /\ Len(ids) \in Nat /\ Len(ids) <= MaxNumReqs /\ MaxNumReqs \in Nat
         /\ NumReqs <= Len(ids)
         /\ phase \notin {"removing", "adding"} => NumReqs = Len(ids)
         /\ phase # "condensed" =>
              /\ removed = Empty /\ removed \in SUBSET (0 .. Len(ids) - 1)
              /\ IsFiniteSet(removed) /\ NumReqs = Len(ids) - Cardinality(removed)
              /\ Cardinality(removed) \in Nat
<1>1. /\ Len(ids) \in Nat /\ Len(ids) <= MaxNumReqs /\ MaxNumReqs \in Nat
      /\ Empty \in SUBSET (0 .. Len(ids) - 1) /\ IsFiniteSet(Empty) /\ NumReqs \in Nat
      /\ Cardinality(Empty) \in Nat /\ NumReqs = Len(ids) - Cardinality(Empty)
  BY Counting DEF IInv
<1>2. phase \notin {"removing", "adding"} => NumReqs = Len(ids)
  <2>1. phase \notin {"removing", "adding"} => Cardinality(Empty) = 0
    BY FS_EmptySet DEF IInv, HolesAreKnown
  <2>2. QED
    BY <1>1, <2>1
<1>3. phase # "condensed" => removed = Empty
  BY DEF IInv, HolesAreKnown, Phases, Types, TypeOK
<1>4. NumReqs <= Len(ids)
  BY <1>1
<1> HIDE DEF Empty, NumReqs
<1>5. QED
  BY <1>1, <1>2, <1>3, <1>4

\* The moves of condense pair the holes below num_reqs with the last requests.
LEMMA SourceIs ==
  ASSUME IInv, phase # "condensed"
  PROVE  /\ \A h \in Holes : Source(h) \in LastRows
         /\ \A g, h \in Holes : Source(g) = Source(h) => g = h
         /\ \A t \in LastRows : \E h \in Holes : Source(h) = t
<1> DEFINE N == NumReqs
           L == Len(ids)
           above == N .. L - 1
<1>1. /\ N \in Nat /\ L \in Nat /\ N <= L /\ removed \in SUBSET (0 .. L - 1)
      /\ IsFiniteSet(removed) /\ N = L - Cardinality(removed) /\ Cardinality(removed) \in Nat
  BY NumReqsIs
<1>2. IsFiniteSet(above) /\ Cardinality(above) = Cardinality(removed)
  <2>0. L - 1 \in Int /\ N \in Int
    BY <1>1
  <2>1. Cardinality(above) = IF N > L - 1 THEN 0 ELSE L - 1 - N + 1
    BY <2>0, FS_Interval
  <2>2. IsFiniteSet(above)
    BY <2>0, FS_Interval
  <2> HIDE DEF N, L, above
  <2>3. QED
    BY <1>1, <2>1, <2>2
<1>3. Holes \in SUBSET removed /\ LastRows = above \ removed /\ removed \ Holes = above \cap removed
  <2>1. Holes \in SUBSET removed
    BY DEF Holes
  <2>2. LastRows = above \ removed
    BY DEF LastRows
  <2>3. ASSUME NEW i \in removed PROVE i \notin Holes <=> i \in above
    <3>1. i \in 0 .. L - 1 /\ (i \in Holes <=> i < N)
      BY <1>1 DEF Holes
    <3> HIDE DEF N, L
    <3>2. QED
      BY <1>1, <3>1
  <2>4. QED
    BY <2>1, <2>2, <2>3
<1>4. IsFiniteSet(Holes) /\ IsFiniteSet(LastRows) /\ Cardinality(LastRows) = Cardinality(Holes)
  <2> HIDE DEF above
  <2>1. IsFiniteSet(Holes) /\ Cardinality(Holes) \in Nat
    BY <1>1, <1>3, FS_Subset, FS_CardinalityType
  <2>2. IsFiniteSet(above \ removed)
        /\ Cardinality(above \ removed) = Cardinality(above) - Cardinality(above \cap removed)
    BY <1>2, FS_Difference
  <2>3. Cardinality(removed \ Holes) = Cardinality(removed) - Cardinality(removed \cap Holes)
    BY <1>1, FS_Difference
  <2>4. removed \cap Holes = Holes
    BY <1>3
  <2>5. Cardinality(LastRows) = Cardinality(above) - Cardinality(above \cap removed)
    BY <1>3, <2>2
  <2>6. Cardinality(above \cap removed) = Cardinality(removed) - Cardinality(Holes)
    BY <1>3, <2>3, <2>4
  <2>7. IsFiniteSet(LastRows)
    BY <1>3, <2>2
  <2> HIDE DEF Holes, LastRows, N, L
  <2>8. Cardinality(LastRows) = Cardinality(Holes)
    BY <1>1, <1>2, <2>1, <2>5, <2>6
  <2>9. QED
    BY <2>1, <2>7, <2>8
<1>5. Holes \in SUBSET Int /\ LastRows \in SUBSET Int
  BY <1>1, <1>3
<1>6. ASSUME NEW h \in Holes
      PROVE  Source(h) \in LastRows /\ Down(LastRows, Source(h)) = Up(Holes, h)
  <2>1. Up(Holes, h) \in 1 .. Cardinality(LastRows)
    BY <1>4, <1>5, UpRank
  <2>2. \E t \in LastRows : Down(LastRows, t) = Up(Holes, h)
    BY <1>4, <1>5, <2>1, DownRank
  <2>3. Source(h) = CHOOSE t \in LastRows : Up(Holes, h) = Down(LastRows, t)
    BY DEF Source, Up, Down
  <2>4. QED
    BY <2>2, <2>3
<1>10. \A g \in Holes : Up(Holes, g) \in Int
  <2>1. Cardinality(Holes) \in Int
    BY <1>4, FS_CardinalityType
  <2>2. \A g \in Holes : Up(Holes, g) \in 1 .. Cardinality(Holes)
    BY <1>4, <1>5, UpRank
  <2> HIDE DEF Holes
  <2>3. QED
    BY <2>1, <2>2
<1>11. \A t \in LastRows : Down(LastRows, t) \in Int
  <2>1. Cardinality(LastRows) \in Int
    BY <1>4, FS_CardinalityType
  <2>2. \A t \in LastRows : Down(LastRows, t) \in 1 .. Cardinality(LastRows)
    BY <1>4, <1>5, DownRank
  <2> HIDE DEF LastRows
  <2>3. QED
    BY <2>1, <2>2
<1>7. ASSUME NEW g \in Holes, NEW h \in Holes, Source(g) = Source(h) PROVE g = h
  <2>1. Up(Holes, g) = Up(Holes, h)
    BY <1>6, <1>7
  <2>2. g < h => Up(Holes, g) < Up(Holes, h)
    BY <1>4, <1>5, UpRank
  <2>3. h < g => Up(Holes, h) < Up(Holes, g)
    BY <1>4, <1>5, UpRank
  <2>4. Up(Holes, g) \in Int /\ g \in Int /\ h \in Int
    BY <1>5, <1>10
  <2>5. QED
    BY <2>1, <2>2, <2>3, <2>4
<1>8. ASSUME NEW t \in LastRows PROVE \E h \in Holes : Source(h) = t
  <2>1. Down(LastRows, t) \in 1 .. Cardinality(Holes)
    BY <1>4, <1>5, DownRank
  <2>2. PICK h \in Holes : Up(Holes, h) = Down(LastRows, t)
    BY <1>4, <1>5, <2>1, UpRank
  <2>3. Source(h) \in LastRows /\ Down(LastRows, Source(h)) = Down(LastRows, t)
    BY <1>6, <2>2
  <2>4. /\ Source(h) < t => Down(LastRows, t) < Down(LastRows, Source(h))
        /\ t < Source(h) => Down(LastRows, Source(h)) < Down(LastRows, t)
    BY <1>4, <1>5, <2>3, DownRank
  <2>5. Down(LastRows, t) \in Int /\ t \in Int /\ Source(h) \in Int
    BY <1>5, <1>11, <2>3
  <2>6. Source(h) = t
    BY <2>3, <2>4, <2>5
  <2>7. QED
    BY <2>6
<1>9. QED
  BY <1>6, <1>7, <1>8

\* Who is where, read from the list, from the map and from the generators.
LEMMA Places ==
  ASSUME IInv
  PROVE  /\ Nobody \notin Reqs /\ Nobody \notin Slots /\ Slots \subseteq Nat /\ -1 \notin Slots
         /\ \A q \in Resident : /\ q \in Reqs /\ q # Nobody /\ index[q] \in Slots
                                /\ index[q] < Len(ids) /\ ids[index[q] + 1] = q
                                /\ index[q] + 1 \in 1 .. Len(ids)
         /\ \A i \in Slots : i < Len(ids) /\ ids[i + 1] # Nobody =>
                               ids[i + 1] \in Resident /\ index[ids[i + 1]] = i
         /\ \A i \in Slots : generator[i] # Nobody =>
                               generator[i] \in Resident /\ index[generator[i]] = i
         /\ \A i \in Slots : Entry(i) \in Reqs \cup {Nobody}
<1>1. /\ Nobody \notin Reqs /\ Nobody \notin Slots /\ Slots \subseteq Nat /\ -1 \notin Slots
      /\ Len(ids) \in Nat
  BY NumReqsIs, BatchAssumption DEF Slots
<1>2. \A i \in Slots : i < Len(ids) => i + 1 \in 1 .. Len(ids)
  BY <1>1
<1>3. ASSUME NEW q \in Resident
      PROVE  /\ q \in Reqs /\ q # Nobody /\ index[q] \in Slots
             /\ index[q] < Len(ids) /\ ids[index[q] + 1] = q
             /\ index[q] + 1 \in 1 .. Len(ids)
  <2>1. q \in Reqs /\ q # Nobody /\ index[q] \in Slots
    BY <1>1 DEF IInv, Types, TypeOK, Resident
  <2>2. index[q] < Len(ids) /\ ids[index[q] + 1] = q
    BY DEF IInv, SamePlaces
  <2>3. QED
    BY <1>2, <2>1, <2>2
<1>4. ASSUME NEW i \in Slots, i < Len(ids), ids[i + 1] # Nobody
      PROVE  ids[i + 1] \in Resident /\ index[ids[i + 1]] = i
  <2>1. i + 1 \in 1 .. Len(ids) /\ i \in Nat
    BY <1>1, <1>2, <1>4
  <2>2. index[ids[i + 1]] = i + 1 - 1
    BY <1>4, <2>1 DEF IInv, SamePlaces
  <2>3. ids[i + 1] \in Reqs
    BY <1>4, <2>1 DEF IInv, Types, TypeOK
  <2>4. QED
    BY <1>1, <2>1, <2>2, <2>3 DEF Resident
<1>5. ASSUME NEW i \in Slots, generator[i] # Nobody
      PROVE  generator[i] \in Resident /\ index[generator[i]] = i
  BY <1>1, <1>5 DEF IInv, Types, TypeOK, NothingLeftBehind, Resident
<1>6. ASSUME NEW i \in Slots PROVE Entry(i) \in Reqs \cup {Nobody}
  <2>1. CASE i < Len(ids)
    BY <1>2, <2>1 DEF Entry, IInv, Types, TypeOK
  <2>2. CASE ~ i < Len(ids)
    BY <2>2 DEF Entry
  <2>3. QED
    BY <2>1, <2>2
<1>7. QED
  BY <1>1, <1>3, <1>4, <1>5, <1>6

\* Until condense, no entry has moved.
LEMMA NothingMovedYet ==
  ASSUME IInv, phase # "condensed"
  PROVE  /\ \A i \in Slots : moved[i] = i
         /\ \A i \in Slots : Updated(i) = Entry(i)
         /\ removed = Empty
         /\ \A i \in Slots : i \in removed <=> i < Len(ids) /\ ids[i + 1] = Nobody
<1>1. \A i \in Slots : moved[i] = i
  BY DEF IInv, Phases
<1>2. removed = Empty
  BY NumReqsIs
<1>3. QED
  BY <1>1, <1>2 DEF IInv, UpdateIsTrue, Empty

-----------------------------------------------------------------------------
LEMMA InitInv == Init => IInv
<1> SUFFICES ASSUME Init PROVE IInv
  OBVIOUS
<1> USE DEF Init
<1>1. ids = <<>> /\ Len(ids) = 0 /\ Resident = {} /\ Empty = {} /\ Nobody \notin Slots
  BY BatchAssumption DEF Resident, Empty, Slots
<1>2. MaxNumReqs \in Nat
  BY BatchAssumption
<1>3. Types
  <2>1. ids \in Seq(Reqs \cup {Nobody})
    BY <1>1
  <2>2. Len(ids) <= MaxNumReqs
    BY <1>1, <1>2
  <2>3. index \in [Reqs -> Slots \cup {-1}] /\ loraReqs \in [LoraIds -> SUBSET Reqs]
    OBVIOUS
  <2>4. DOMAIN added \subseteq Slots /\ moved \in [Slots -> Slots \cup {Nobody}]
    OBVIOUS
  <2>5. QED
    BY <2>1, <2>2, <2>3, <2>4 DEF Types, TypeOK
<1>4. SamePlaces
  BY <1>1 DEF SamePlaces
<1>5. HolesAreKnown /\ Phases
  BY <1>1 DEF HolesAreKnown, Phases
<1>6. UpdateIsTrue
  <2> SUFFICES ASSUME NEW i \in Slots PROVE Updated(moved[i]) = Entry(i)
    BY DEF UpdateIsTrue
  <2>1. moved[i] = i /\ i # Nobody /\ mirror[i] = Nobody /\ DOMAIN added = {} /\ removed = {}
    BY <1>1
  <2>2. Entry(i) = Nobody
    BY <1>1, BatchAssumption DEF Entry, Slots
  <2>3. QED
    BY <2>1, <2>2 DEF Updated
<1>7. RowsFollowRequests
  BY <1>1 DEF RowsFollowRequests
<1>8. NothingLeftBehind
  BY <1>1 DEF NothingLeftBehind
<1>9. QED
  BY <1>3, <1>4, <1>5, <1>6, <1>7, <1>8 DEF IInv

\* remove_request
LEMMA RemoveInv ==
  ASSUME IInv, NEW r \in Reqs, RemoveRequest(r)
  PROVE  IInv'
<1> DEFINE i == index[r]
<1>1. /\ phase \in {"ready", "removing"} /\ r \in Resident /\ phase' = "removing"
      /\ index' = [index EXCEPT ![r] = -1]
      /\ ids' = [ids EXCEPT ![i + 1] = Nobody]
      /\ lora' = [lora EXCEPT ![i] = 0]
      /\ loraReqs' = [l \in LoraIds |-> IF l = lora[i] THEN loraReqs[l] \ {r} ELSE loraReqs[l]]
      /\ generator' = [generator EXCEPT ![i] = Nobody]
      /\ mask' = [mask EXCEPT ![i] = Nobody]
      /\ removed' = removed \cup {i}
      /\ row' = row /\ refusal' = refusal /\ added' = added /\ moved' = moved /\ mirror' = mirror
  BY DEF RemoveRequest
<1>2. /\ i \in Slots /\ i \in Nat /\ i < Len(ids) /\ ids[i + 1] = r /\ r # Nobody
      /\ i + 1 \in 1 .. Len(ids) /\ Len(ids) \in Nat /\ Len(ids) <= MaxNumReqs
      /\ Nobody \notin Slots /\ Slots \subseteq Nat /\ -1 \notin Slots
  BY <1>1, Places, NumReqsIs
<1>3. /\ ids' \in Seq(Reqs \cup {Nobody}) /\ Len(ids') = Len(ids)
      /\ \A j \in 1 .. Len(ids) : ids'[j] = IF j = i + 1 THEN Nobody ELSE ids[j]
  <2>1. ids \in Seq(Reqs \cup {Nobody})
    BY DEF IInv, Types, TypeOK
  <2> HIDE DEF i
  <2>2. QED
    BY <1>1, <1>2, <2>1, ExceptSeq
<1>4. \A q \in Reqs : index'[q] = IF q = r THEN -1 ELSE index[q]
  BY <1>1 DEF IInv, Types, TypeOK
<1>5. Resident' = Resident \ {r}
  BY <1>1, <1>4 DEF Resident
<1>6. \A q \in Resident' : q \in Resident /\ index'[q] = index[q] /\ index[q] # i
  BY <1>2, <1>4, <1>5, Places
<1>7. \A j \in Slots : Entry(j)' = IF j = i THEN Nobody ELSE Entry(j)
  <2> SUFFICES ASSUME NEW j \in Slots PROVE Entry(j)' = IF j = i THEN Nobody ELSE Entry(j)
    OBVIOUS
  <2> HIDE DEF i
  <2>1. j \in Nat /\ (j < Len(ids) => j + 1 \in 1 .. Len(ids)) /\ (j = i <=> j + 1 = i + 1)
    BY <1>2
  <2>2. QED
    BY <1>2, <1>3, <2>1 DEF Entry
<1>8. Types'
  <2> HIDE DEF i
  <2>1. index' \in [Reqs -> Slots \cup {-1}]
    BY <1>1 DEF IInv, Types, TypeOK
  <2>2. /\ row' \in [Slots -> Reqs \cup {Nobody}] /\ lora' \in [Slots -> LoraIds \cup {0}]
        /\ generator' \in [Slots -> Reqs \cup {Nobody}] /\ mask' \in [Slots -> Reqs \cup {Nobody}]
    BY <1>1, <1>2 DEF IInv, Types, TypeOK
  <2>3. loraReqs' \in [LoraIds -> SUBSET Reqs]
    BY <1>1 DEF IInv, Types, TypeOK
  <2>4. /\ phase' \in {"ready", "removing", "adding", "condensed"} /\ removed' \subseteq Slots
        /\ DOMAIN added' \subseteq Slots /\ moved' \in [Slots -> Slots \cup {Nobody}]
    BY <1>1, <1>2 DEF IInv, Types, TypeOK
  <2>5. ids' \in Seq(Reqs \cup {Nobody}) /\ Len(ids') <= MaxNumReqs
    BY <1>2, <1>3
  <2>6. QED
    BY <2>1, <2>2, <2>3, <2>4, <2>5 DEF Types, TypeOK
<1>9. SamePlaces'
  <2>1. ASSUME NEW j \in 1 .. Len(ids'), ids'[j] # Nobody PROVE index'[ids'[j]] = j - 1
    <3>1. j \in 1 .. Len(ids) /\ j # i + 1 /\ ids'[j] = ids[j]
      BY <1>3, <2>1
    <3>2. index[ids[j]] = j - 1 /\ ids[j] \in Reqs
      BY <2>1, <3>1 DEF IInv, SamePlaces, Types, TypeOK
    <3>3. ids[j] # r
      BY <1>2, <3>1, <3>2
    <3>4. QED
      BY <1>4, <3>1, <3>2, <3>3
  <2>2. ASSUME NEW q \in Resident' PROVE index'[q] < Len(ids') /\ ids'[index'[q] + 1] = q
    <3>1. /\ index'[q] = index[q] /\ index[q] # i /\ index[q] \in Nat /\ index[q] < Len(ids)
          /\ index[q] + 1 \in 1 .. Len(ids) /\ ids[index[q] + 1] = q
      BY <1>2, <1>6, Places
    <3>2. index[q] + 1 # i + 1
      BY <1>2, <3>1
    <3>3. QED
      BY <1>3, <3>1, <3>2
  <2>3. QED
    BY <2>1, <2>2 DEF SamePlaces
<1>10. HolesAreKnown'
  <2>1. Empty' = Empty \cup {i}
    <3> HIDE DEF i
    <3>1. ASSUME NEW j \in Slots
          PROVE  (j < Len(ids') /\ ids'[j + 1] = Nobody) <=> (j < Len(ids) /\ ids[j + 1] = Nobody) \/ j = i
      <4>1. j \in Nat /\ (j < Len(ids) => j + 1 \in 1 .. Len(ids)) /\ (j = i <=> j + 1 = i + 1)
        BY <1>2
      <4>2. QED
        BY <1>2, <1>3, <4>1
    <3>2. QED
      BY <1>2, <3>1 DEF Empty
  <2>2. removed = Empty
    BY <1>1, NothingMovedYet
  <2>3. QED
    BY <1>1, <2>1, <2>2 DEF HolesAreKnown
<1>11. Phases'
  BY <1>1 DEF IInv, Phases
<1>12. UpdateIsTrue'
  <2> SUFFICES ASSUME NEW j \in Slots PROVE Updated(moved[j])' = Entry(j)'
    BY DEF UpdateIsTrue
  <2>1. moved'[j] = j /\ j # Nobody /\ DOMAIN added' = {} /\ DOMAIN added = {}
    BY <1>1, <1>2, NothingMovedYet DEF IInv, Phases
  <2>2. Entry(j) = IF j \in removed THEN Nobody ELSE mirror[j]
    BY <1>1, <2>1, NothingMovedYet DEF Updated
  <2>3. Updated(moved[j])' = IF j \in removed \cup {i} THEN Nobody ELSE mirror[j]
    BY <1>1, <2>1 DEF Updated
  <2>4. QED
    BY <1>7, <2>2, <2>3
<1>13. RowsFollowRequests'
  <2> SUFFICES ASSUME NEW q \in Resident'
               PROVE  /\ row'[index'[q]] = q /\ lora'[index'[q]] = LoraOf[q]
                      /\ generator'[index'[q]] = IF q \in Seeded THEN q ELSE Nobody
    BY DEF RowsFollowRequests
  <2>1. q \in Resident /\ index'[q] = index[q] /\ index[q] # i /\ index[q] \in Slots
    BY <1>6, Places
  <2>2. /\ row[index[q]] = q /\ lora[index[q]] = LoraOf[q]
        /\ generator[index[q]] = IF q \in Seeded THEN q ELSE Nobody
    BY <2>1 DEF IInv, RowsFollowRequests
  <2>3. /\ row'[index[q]] = row[index[q]] /\ lora'[index[q]] = lora[index[q]]
        /\ generator'[index[q]] = generator[index[q]]
    BY <1>1, <2>1 DEF IInv, Types, TypeOK
  <2>4. QED
    BY <2>1, <2>2, <2>3
<1>14. NothingLeftBehind'
  <2>1. ASSUME NEW j \in Slots, generator'[j] # Nobody PROVE index'[generator'[j]] = j
    <3>1. j # i /\ generator'[j] = generator[j]
      BY <1>1, <1>2, <2>1 DEF IInv, Types, TypeOK
    <3>2. generator[j] \in Resident /\ generator[j] \in Reqs /\ index[generator[j]] = j
      BY <2>1, <3>1, Places
    <3>3. QED
      BY <1>4, <3>1, <3>2
  <2>2. ASSUME NEW l \in LoraIds PROVE loraReqs'[l] = {q \in Resident' : LoraOf[q] = l}
    <3>1. loraReqs[l] = {q \in Resident : LoraOf[q] = l}
      BY DEF IInv, NothingLeftBehind
    <3>2. lora[i] = LoraOf[r]
      BY <1>1 DEF IInv, RowsFollowRequests
    <3>3. loraReqs'[l] = IF l = LoraOf[r] THEN loraReqs[l] \ {r} ELSE loraReqs[l]
      BY <1>1, <3>2
    <3>4. QED
      BY <1>5, <3>1, <3>3
  <2>3. QED
    BY <2>1, <2>2 DEF NothingLeftBehind
<1>15. QED
  BY <1>8, <1>9, <1>10, <1>11, <1>12, <1>13, <1>14 DEF IInv

\* add_request: the place it takes is a hole, or else the end of the list.
LEMMA FreePlace ==
  ASSUME IInv, phase # "condensed", NewIndex < MaxNumReqs
  PROVE  /\ NewIndex \in Slots /\ NewIndex <= Len(ids)
         /\ NewIndex < Len(ids) => ids[NewIndex + 1] = Nobody
         /\ \A q \in Resident : index[q] # NewIndex
         /\ generator[NewIndex] = Nobody
<1> DEFINE i == NewIndex
<1>0. i < MaxNumReqs
  OBVIOUS
<1>1. /\ Len(ids) \in Nat /\ Len(ids) <= MaxNumReqs /\ MaxNumReqs \in Nat
      /\ removed \in SUBSET (0 .. Len(ids) - 1) /\ IsFiniteSet(removed)
      /\ NumReqs = Len(ids) - Cardinality(removed)
  BY NumReqsIs
<1>2. i \in Slots /\ i <= Len(ids) /\ (i < Len(ids) => ids[i + 1] = Nobody)
  <2>1. CASE removed # {}
    <3>1. removed \in SUBSET Int
      BY <1>1
    <3>2. \E h \in removed : \A j \in removed : h <= j
      BY <1>1, <2>1, <3>1, Lowest
    <3>3. i \in removed
      BY <2>1, <3>2 DEF NewIndex
    <3>4. i \in Empty
      BY <3>3, NothingMovedYet
    <3>5. i \in Slots /\ i < Len(ids) /\ ids[i + 1] = Nobody
      BY <3>4 DEF Empty
    <3> HIDE DEF i
    <3>6. QED
      BY <1>1, <3>5 DEF Slots
  <2>2. CASE removed = {}
    <3>1. i = NumReqs /\ NumReqs = Len(ids)
      BY <1>1, <2>2, FS_EmptySet DEF NewIndex
    <3> HIDE DEF i
    <3>2. QED
      BY <1>0, <1>1, <3>1 DEF Slots
  <2>3. QED
    BY <2>1, <2>2
<1>3. ASSUME NEW q \in Resident, index[q] = i PROVE FALSE
  BY <1>2, <1>3, Places
<1>4. generator[i] = Nobody
  BY <1>2, <1>3, Places
<1>5. QED
  BY <1>2, <1>3, <1>4

LEMMA AddInv ==
  ASSUME IInv, NEW r \in Reqs, AddRequest(r)
  PROVE  IInv'
<1> DEFINE i == NewIndex
<1>1. /\ phase \in {"ready", "removing", "adding"} /\ r \notin Resident
      /\ i < MaxNumReqs /\ phase' = "adding"
      /\ ids' = IF i = Len(ids) THEN Append(ids, r) ELSE [ids EXCEPT ![i + 1] = r]
      /\ index' = [index EXCEPT ![r] = i]
      /\ row' = [row EXCEPT ![i] = r]
      /\ lora' = [lora EXCEPT ![i] = LoraOf[r]]
      /\ loraReqs' = [l \in LoraIds |->
                        IF l = LoraOf[r] THEN loraReqs[l] \cup {r} ELSE loraReqs[l]]
      /\ generator' = IF r \in Seeded THEN [generator EXCEPT ![i] = r] ELSE generator
      /\ mask' = IF r \in Masked THEN [mask EXCEPT ![i] = r] ELSE mask
      /\ removed' = removed \ {i}
      /\ added' = [j \in DOMAIN added \cup {i} |-> IF j = i THEN r ELSE added[j]]
      /\ moved' = moved /\ mirror' = mirror
  BY DEF AddRequest
<1>2. /\ i \in Slots /\ i <= Len(ids) /\ (i < Len(ids) => ids[i + 1] = Nobody)
      /\ (\A q \in Resident : index[q] # i) /\ generator[i] = Nobody
  BY <1>1, FreePlace
<1>3. /\ i \in Nat /\ Len(ids) \in Nat /\ Len(ids) <= MaxNumReqs /\ MaxNumReqs \in Nat
      /\ Nobody \notin Slots /\ Slots \subseteq Nat /\ -1 \notin Slots /\ Nobody \notin Reqs
  BY <1>2, Places, NumReqsIs
<1> HIDE DEF i
<1>4. /\ ids' \in Seq(Reqs \cup {Nobody})
      /\ Len(ids') \in Nat /\ Len(ids') = (IF i = Len(ids) THEN Len(ids) + 1 ELSE Len(ids))
      /\ \A j \in 1 .. Len(ids') : ids'[j] = IF j = i + 1 THEN r ELSE ids[j]
  <2>1. ids \in Seq(Reqs \cup {Nobody})
    BY DEF IInv, Types, TypeOK
  <2>2. CASE i = Len(ids)
    <3>1. /\ ids' \in Seq(Reqs \cup {Nobody}) /\ Len(ids') = Len(ids) + 1
          /\ \A j \in 1 .. Len(ids) : ids'[j] = ids[j]
          /\ ids'[Len(ids) + 1] = r
      BY <1>1, <2>1, <2>2, AppendProperties
    <3>2. \A j \in 1 .. Len(ids) + 1 : (j = i + 1 \/ j \in 1 .. Len(ids)) /\ (j \in 1 .. Len(ids) => j # i + 1)
      BY <1>3, <2>2
    <3>3. QED
      BY <1>3, <2>2, <3>1, <3>2
  <2>3. CASE i # Len(ids)
    <3>1. i + 1 \in 1 .. Len(ids)
      BY <1>2, <1>3, <2>3
    <3>2. r \in Reqs \cup {Nobody} /\ ids' = [ids EXCEPT ![i + 1] = r]
      BY <1>1, <2>3
    <3>3. /\ ids' \in Seq(Reqs \cup {Nobody}) /\ Len(ids') = Len(ids)
          /\ \A j \in 1 .. Len(ids) : ids'[j] = IF j = i + 1 THEN r ELSE ids[j]
      BY <2>1, <3>1, <3>2, ExceptSeq
    <3>4. QED
      BY <1>3, <2>3, <3>3
  <2>4. QED
    BY <2>2, <2>3
<1>5. i + 1 \in 1 .. Len(ids') /\ ids'[i + 1] = r /\ i < Len(ids') /\ Len(ids') <= MaxNumReqs
  BY <1>1, <1>2, <1>3, <1>4
<1>6. \A q \in Reqs : index'[q] = IF q = r THEN i ELSE index[q]
  BY <1>1 DEF IInv, Types, TypeOK
<1>7. Resident' = Resident \cup {r}
  BY <1>2, <1>3, <1>6 DEF Resident
<1>8. \A q \in Resident' : q # r => q \in Resident /\ index'[q] = index[q] /\ index[q] # i
  BY <1>2, <1>6, <1>7, Places
<1>9. ASSUME NEW j \in Slots, j # i
      PROVE  Entry(j)' = Entry(j) /\ (j < Len(ids') <=> j < Len(ids))
             /\ (j < Len(ids) => ids'[j + 1] = ids[j + 1])
  <2>1. j \in Nat /\ j + 1 # i + 1
    BY <1>3, <1>9
  <2>2. j < Len(ids') <=> j < Len(ids)
    BY <1>3, <1>4, <1>9, <2>1
  <2>3. j < Len(ids) => ids'[j + 1] = ids[j + 1]
    BY <1>4, <2>1, <2>2
  <2>4. QED
    BY <2>2, <2>3 DEF Entry
<1>10. Types'
  <2>1. index' \in [Reqs -> Slots \cup {-1}]
    BY <1>1, <1>2 DEF IInv, Types, TypeOK
  <2>2. /\ row' \in [Slots -> Reqs \cup {Nobody}]
        /\ generator' \in [Slots -> Reqs \cup {Nobody}] /\ mask' \in [Slots -> Reqs \cup {Nobody}]
    BY <1>1, <1>2 DEF IInv, Types, TypeOK
  <2>3. lora' \in [Slots -> LoraIds \cup {0}]
    BY <1>1, <1>2, BatchAssumption DEF IInv, Types, TypeOK
  <2>4. loraReqs' \in [LoraIds -> SUBSET Reqs]
    BY <1>1 DEF IInv, Types, TypeOK
  <2>5. /\ phase' \in {"ready", "removing", "adding", "condensed"} /\ removed' \subseteq Slots
        /\ DOMAIN added' \subseteq Slots /\ moved' \in [Slots -> Slots \cup {Nobody}]
    BY <1>1, <1>2 DEF IInv, Types, TypeOK
  <2>6. QED
    BY <1>4, <1>5, <2>1, <2>2, <2>3, <2>4, <2>5 DEF Types, TypeOK
<1>11. SamePlaces'
  <2>1. ASSUME NEW j \in 1 .. Len(ids'), ids'[j] # Nobody PROVE index'[ids'[j]] = j - 1
    <3>1. CASE j = i + 1
      BY <1>3, <1>5, <1>6, <3>1
    <3>2. CASE j # i + 1
      <4>1. j \in 1 .. Len(ids) /\ ids'[j] = ids[j]
        BY <1>3, <1>4, <2>1, <3>2
      <4>2. index[ids[j]] = j - 1 /\ ids[j] \in Reqs
        BY <2>1, <4>1 DEF IInv, SamePlaces, Types, TypeOK
      <4>3. j - 1 # -1
        BY <1>3, <4>1
      <4>4. ids[j] # r
        BY <1>1, <4>2, <4>3 DEF Resident
      <4>5. QED
        BY <1>6, <4>1, <4>2, <4>4
    <3>3. QED
      BY <3>1, <3>2
  <2>2. ASSUME NEW q \in Resident' PROVE index'[q] < Len(ids') /\ ids'[index'[q] + 1] = q
    <3>1. CASE q = r
      BY <1>5, <1>6, <3>1
    <3>2. CASE q # r
      <4>1. /\ index'[q] = index[q] /\ index[q] # i /\ index[q] \in Slots
            /\ index[q] < Len(ids) /\ ids[index[q] + 1] = q
        BY <1>8, <3>2, Places
      <4>2. QED
        BY <1>9, <4>1
    <3>3. QED
      BY <3>1, <3>2
  <2>3. QED
    BY <2>1, <2>2 DEF SamePlaces
<1>12. HolesAreKnown'
  <2>1. Empty' = Empty \ {i}
    <3>1. ASSUME NEW j \in Slots
          PROVE  (j < Len(ids') /\ ids'[j + 1] = Nobody) <=> (j < Len(ids) /\ ids[j + 1] = Nobody) /\ j # i
      BY <1>3, <1>5, <1>9
    <3>2. QED
      BY <3>1 DEF Empty
  <2>2. removed = Empty
    BY <1>1, NothingMovedYet
  <2>3. QED
    BY <1>1, <2>1, <2>2 DEF HolesAreKnown
<1>13. Phases'
  BY <1>1 DEF IInv, Phases
<1>14. UpdateIsTrue'
  <2> SUFFICES ASSUME NEW j \in Slots PROVE Updated(moved[j])' = Entry(j)'
    BY DEF UpdateIsTrue
  <2>1. moved'[j] = j /\ j # Nobody
    BY <1>1, <1>3, NothingMovedYet
  <2>2. CASE j = i
    <3>1. Updated(moved[j])' = r
      BY <1>1, <2>1, <2>2 DEF Updated
    <3>2. Entry(j)' = r
      BY <1>5, <2>2 DEF Entry
    <3>3. QED
      BY <3>1, <3>2
  <2>3. CASE j # i
    <3>1. Updated(moved[j])' = Updated(j)
      BY <1>1, <2>1, <2>3 DEF Updated
    <3>2. QED
      BY <1>1, <1>9, <2>3, <3>1, NothingMovedYet
  <2>4. QED
    BY <2>2, <2>3
<1>15. RowsFollowRequests'
  <2> SUFFICES ASSUME NEW q \in Resident'
               PROVE  /\ row'[index'[q]] = q /\ lora'[index'[q]] = LoraOf[q]
                      /\ generator'[index'[q]] = IF q \in Seeded THEN q ELSE Nobody
    BY DEF RowsFollowRequests
  <2>1. CASE q = r
    <3>1. index'[q] = i
      BY <1>6, <2>1
    <3>2. row'[i] = r /\ lora'[i] = LoraOf[r]
      BY <1>1, <1>2 DEF IInv, Types, TypeOK
    <3>3. generator'[i] = IF r \in Seeded THEN r ELSE Nobody
      BY <1>1, <1>2 DEF IInv, Types, TypeOK
    <3>4. QED
      BY <2>1, <3>1, <3>2, <3>3
  <2>2. CASE q # r
    <3>1. q \in Resident /\ index'[q] = index[q] /\ index[q] # i /\ index[q] \in Slots
      BY <1>8, <2>2, Places
    <3>2. /\ row[index[q]] = q /\ lora[index[q]] = LoraOf[q]
          /\ generator[index[q]] = IF q \in Seeded THEN q ELSE Nobody
      BY <3>1 DEF IInv, RowsFollowRequests
    <3>3. /\ row'[index[q]] = row[index[q]] /\ lora'[index[q]] = lora[index[q]]
          /\ generator'[index[q]] = generator[index[q]]
      BY <1>1, <3>1 DEF IInv, Types, TypeOK
    <3>4. QED
      BY <3>1, <3>2, <3>3
  <2>3. QED
    BY <2>1, <2>2
<1>16. NothingLeftBehind'
  <2>1. ASSUME NEW j \in Slots, generator'[j] # Nobody PROVE index'[generator'[j]] = j
    <3>1. CASE j = i
      <4>1. generator'[i] = r
        BY <1>1, <1>2, <2>1, <3>1 DEF IInv, Types, TypeOK
      <4>2. QED
        BY <1>6, <3>1, <4>1
    <3>2. CASE j # i
      <4>1. generator'[j] = generator[j]
        BY <1>1, <2>1, <3>2 DEF IInv, Types, TypeOK
      <4>2. generator[j] \in Resident /\ generator[j] \in Reqs /\ index[generator[j]] = j
        BY <2>1, <4>1, Places
      <4>3. QED
        BY <1>1, <1>6, <4>1, <4>2
    <3>3. QED
      BY <3>1, <3>2
  <2>2. ASSUME NEW l \in LoraIds PROVE loraReqs'[l] = {q \in Resident' : LoraOf[q] = l}
    <3>1. loraReqs[l] = {q \in Resident : LoraOf[q] = l}
      BY DEF IInv, NothingLeftBehind
    <3>2. loraReqs'[l] = IF l = LoraOf[r] THEN loraReqs[l] \cup {r} ELSE loraReqs[l]
      BY <1>1
    <3>3. QED
      BY <1>7, <3>1, <3>2
  <2>3. QED
    BY <2>1, <2>2 DEF NothingLeftBehind
<1>17. QED
  BY <1>10, <1>11, <1>12, <1>13, <1>14, <1>15, <1>16 DEF IInv

-----------------------------------------------------------------------------
\* Where condense takes the entry of an index from.
From(i) == IF i \in Holes THEN Source(i) ELSE i

LEMMA FromIs ==
  ASSUME IInv, phase # "condensed"
  PROVE  /\ \A i \in 0 .. NumReqs - 1 :
              /\ i \in Slots /\ From(i) \in Slots /\ From(i) < Len(ids)
              /\ ids[From(i) + 1] # Nobody /\ From(i) \notin removed /\ i \notin LastRows
         /\ \A i, j \in 0 .. NumReqs - 1 : From(i) = From(j) => i = j
         /\ \A q \in Resident : \E i \in 0 .. NumReqs - 1 : From(i) = index[q]
         /\ \A i \in Slots : i \in Holes => i \in 0 .. NumReqs - 1
         /\ \A i \in Slots : i \notin 0 .. NumReqs - 1 =>
              From(i) = i /\ (i < Len(ids) => i \in removed \/ i \in LastRows)
         /\ LastRows \subseteq Slots /\ Holes \subseteq Slots
         /\ \A i \in LastRows : i \notin 0 .. NumReqs - 1
<1> DEFINE N == NumReqs
           L == Len(ids)
<1>1. /\ N \in Nat /\ L \in Nat /\ N <= L /\ L <= MaxNumReqs /\ MaxNumReqs \in Nat
      /\ removed \in SUBSET (0 .. L - 1)
  BY NumReqsIs
<1>2. \A i : i \in LastRows <=> i \in N .. L - 1 /\ i \notin removed
  BY DEF LastRows
<1>3. \A i : i \in Holes <=> i \in removed /\ i < N
  BY DEF Holes
<1>4. \A i \in Slots : i \in removed <=> i < L /\ ids[i + 1] = Nobody
  BY NothingMovedYet
<1>5. /\ \A h \in Holes : Source(h) \in LastRows
      /\ \A g, h \in Holes : Source(g) = Source(h) => g = h
      /\ \A t \in LastRows : \E h \in Holes : Source(h) = t
  BY SourceIs
<1>6. \A q \in Resident : index[q] \in Slots /\ index[q] < L /\ ids[index[q] + 1] = q /\ q # Nobody
  BY Places
<1> HIDE DEF N, L
<1>7. /\ LastRows \subseteq Slots /\ Holes \subseteq Slots
      /\ \A i \in Slots : i \in Holes => i \in 0 .. N - 1
      /\ \A i \in LastRows : i \notin 0 .. N - 1 /\ i < L /\ i \notin removed
  <2>1. ASSUME NEW i \in LastRows
        PROVE  i \in Slots /\ i \notin 0 .. N - 1 /\ i < L /\ i \notin removed
    <3>1. i \in N .. L - 1 /\ i \notin removed
      BY <1>2
    <3>2. QED
      BY <1>1, <3>1 DEF Slots
  <2>2. ASSUME NEW i \in Holes PROVE i \in Slots /\ i \in 0 .. N - 1
    <3>1. i \in 0 .. L - 1 /\ i < N
      BY <1>1, <1>3
    <3>2. QED
      BY <1>1, <3>1 DEF Slots
  <2>3. QED
    BY <2>1, <2>2
<1>8. ASSUME NEW i \in 0 .. N - 1
      PROVE  /\ i \in Slots /\ From(i) \in Slots /\ From(i) < L
             /\ ids[From(i) + 1] # Nobody /\ From(i) \notin removed /\ i \notin LastRows
  <2>1. i \in Slots /\ i < L /\ i < N /\ i \notin LastRows
    BY <1>1, <1>7 DEF Slots
  <2>2. From(i) \in Slots /\ From(i) < L /\ From(i) \notin removed
    <3>1. CASE i \in Holes
      BY <1>5, <1>7, <3>1 DEF From
    <3>2. CASE i \notin Holes
      BY <1>3, <2>1, <3>2 DEF From
    <3>3. QED
      BY <3>1, <3>2
  <2>3. QED
    BY <1>4, <2>1, <2>2
<1>9. ASSUME NEW i \in 0 .. N - 1, NEW j \in 0 .. N - 1, From(i) = From(j) PROVE i = j
  <2>1. CASE i \in Holes /\ j \in Holes
    BY <1>5, <1>9, <2>1 DEF From
  <2>2. CASE i \notin Holes /\ j \notin Holes
    BY <1>9, <2>2 DEF From
  <2>3. CASE i \in Holes /\ j \notin Holes
    BY <1>5, <1>7, <1>9, <2>3 DEF From
  <2>4. CASE i \notin Holes /\ j \in Holes
    BY <1>5, <1>7, <1>9, <2>4 DEF From
  <2>5. QED
    BY <2>1, <2>2, <2>3, <2>4
<1>10. ASSUME NEW q \in Resident PROVE \E i \in 0 .. N - 1 : From(i) = index[q]
  <2>1. index[q] \in Slots /\ index[q] < L /\ index[q] \notin removed
    BY <1>4, <1>6
  <2>2. CASE index[q] \in 0 .. N - 1
    <3>1. From(index[q]) = index[q]
      BY <1>3, <2>1 DEF From
    <3>2. QED
      BY <2>2, <3>1
  <2>3. CASE index[q] \notin 0 .. N - 1
    <3>1. index[q] \in LastRows
      BY <1>1, <1>2, <2>1, <2>3 DEF Slots
    <3>2. PICK h \in Holes : Source(h) = index[q]
      BY <1>5, <3>1
    <3>3. h \in 0 .. N - 1 /\ From(h) = index[q]
      BY <1>7, <3>2 DEF From
    <3>4. QED
      BY <3>3
  <2>4. QED
    BY <2>2, <2>3
<1>11. ASSUME NEW i \in Slots, i \notin 0 .. N - 1
       PROVE  From(i) = i /\ (i < L => i \in removed \/ i \in LastRows)
  <2>1. i \notin Holes
    BY <1>7, <1>11
  <2>2. i < L => i \in N .. L - 1
    BY <1>1, <1>11 DEF Slots
  <2>3. QED
    BY <1>2, <2>1, <2>2 DEF From
<1>12. QED
  BY <1>7, <1>8, <1>9, <1>10, <1>11 DEF N, L

\* condense, with nothing removed or nothing left
LEMMA CondenseEasyInv ==
  ASSUME IInv, Condense, removed = {} \/ NumReqs = 0
  PROVE  IInv'
<1>1. /\ phase \in {"ready", "removing", "adding"} /\ phase' = "condensed"
      /\ added' = added /\ mirror' = mirror
  BY DEF Condense
<1>2. /\ \A i \in Slots : moved[i] = i
      /\ \A i \in Slots : Updated(i) = Entry(i)
      /\ removed = Empty
  BY <1>1, NothingMovedYet
<1>3. CASE removed = {}
  <2>1. /\ ids' = ids /\ index' = index /\ row' = row /\ lora' = lora /\ loraReqs' = loraReqs
        /\ refusal' = refusal /\ generator' = generator /\ mask' = mask
        /\ moved' = moved /\ removed' = removed
    BY <1>3 DEF Condense, batch
  <2>2. Types' /\ SamePlaces' /\ RowsFollowRequests' /\ NothingLeftBehind'
    BY <1>1, <2>1 DEF IInv, Types, TypeOK, SamePlaces, RowsFollowRequests, NothingLeftBehind, Resident
  <2>3. HolesAreKnown' /\ Phases'
    BY <1>1, <1>2, <1>3, <2>1 DEF HolesAreKnown, Phases, Empty
  <2>4. UpdateIsTrue'
    BY <1>1, <2>1 DEF IInv, UpdateIsTrue, Updated, Entry
  <2>5. QED
    BY <2>2, <2>3, <2>4 DEF IInv
<1>4. CASE removed # {} /\ NumReqs = 0
  <2>1. /\ ids' = <<>> /\ index' = index /\ row' = row /\ lora' = lora /\ loraReqs' = loraReqs
        /\ refusal' = refusal /\ generator' = generator /\ mask' = mask
        /\ moved' = moved /\ removed' = removed
    BY <1>4 DEF Condense
  <2>2. Resident = {} /\ Resident' = {}
    <3>1. IsFiniteSet(Resident) /\ Cardinality(Resident) = 0
      BY <1>4, Counting DEF IInv, NumReqs
    <3>2. Resident = {}
      BY <3>1, FS_EmptySet
    <3>3. QED
      BY <2>1, <3>2 DEF Resident
  <2>3. ids' \in Seq(Reqs \cup {Nobody}) /\ Len(ids') = 0 /\ MaxNumReqs \in Nat /\ Slots \subseteq Nat
    BY <2>1, NumReqsIs, Places
  <2>4. Types'
    BY <1>1, <2>1, <2>3 DEF IInv, Types, TypeOK
  <2>5. SamePlaces' /\ RowsFollowRequests'
    BY <2>2, <2>3 DEF SamePlaces, RowsFollowRequests
  <2>6. NothingLeftBehind'
    BY <2>1, <2>2 DEF IInv, NothingLeftBehind
  <2>7. HolesAreKnown' /\ Phases'
    <3>1. \A j \in Slots : ~ j < Len(ids')
      BY <2>3
    <3>2. Empty' = {}
      BY <3>1 DEF Empty
    <3>3. QED
      BY <1>1, <3>2 DEF HolesAreKnown, Phases
  <2>8. UpdateIsTrue'
    <3> SUFFICES ASSUME NEW j \in Slots PROVE Updated(moved[j])' = Entry(j)'
      BY DEF UpdateIsTrue
    <3>1. Entry(j)' = Nobody
      BY <2>3 DEF Entry
    <3>2. Entry(j) = Nobody
      BY <2>2, Places DEF Entry
    <3>3. Updated(moved[j])' = Updated(j)
      BY <1>1, <1>2, <2>1 DEF Updated
    <3>4. QED
      BY <1>2, <3>1, <3>2, <3>3
  <2>9. QED
    BY <2>4, <2>5, <2>6, <2>7, <2>8 DEF IInv
<1>5. QED
  BY <1>3, <1>4

\* condense, when there are holes to fill
LEMMA CondenseMovesInv ==
  ASSUME IInv, Condense, removed # {}, NumReqs # 0
  PROVE  IInv'
<1> DEFINE N == NumReqs
           L == Len(ids)
<1>1. /\ phase \in {"ready", "removing", "adding"} /\ phase' = "condensed"
      /\ added' = added /\ mirror' = mirror
      /\ ids' = [j \in 1 .. N |-> IF j - 1 \in Holes THEN ids[Source(j - 1) + 1] ELSE ids[j]]
      /\ index' = [r \in Reqs |->
                     IF \E i \in Holes : ids[Source(i) + 1] = r
                     THEN CHOOSE i \in Holes : ids[Source(i) + 1] = r ELSE index[r]]
      /\ row' = Over(row, Filled(row))
      /\ lora' = Over(lora, Filled(lora))
      /\ generator' = Over(Over(generator, Filled(generator)), MovedOut)
      /\ mask' = Over(mask, Filled(mask))
      /\ moved' = Over(Over(moved, Filled(moved)), MovedOut)
      /\ removed' = removed \ Holes
      /\ loraReqs' = loraReqs /\ refusal' = refusal
  BY DEF Condense
<1>2. /\ \A i \in Slots : moved[i] = i
      /\ \A i \in Slots : Updated(i) = Entry(i)
      /\ removed = Empty
      /\ \A i \in Slots : i \in removed <=> i < L /\ ids[i + 1] = Nobody
  BY <1>1, NothingMovedYet
<1>3. /\ N \in Nat /\ L \in Nat /\ N <= L /\ L <= MaxNumReqs /\ MaxNumReqs \in Nat
      /\ removed \in SUBSET (0 .. L - 1)
  BY <1>1, NumReqsIs
<1>4. /\ \A i \in 0 .. N - 1 :
           /\ i \in Slots /\ From(i) \in Slots /\ From(i) < L
           /\ ids[From(i) + 1] # Nobody /\ From(i) \notin removed /\ i \notin LastRows
      /\ \A i, j \in 0 .. N - 1 : From(i) = From(j) => i = j
      /\ \A q \in Resident : \E i \in 0 .. N - 1 : From(i) = index[q]
      /\ \A i \in Slots : i \in Holes => i \in 0 .. N - 1
      /\ \A i \in Slots : i \notin 0 .. N - 1 =>
           From(i) = i /\ (i < L => i \in removed \/ i \in LastRows)
      /\ LastRows \subseteq Slots /\ Holes \subseteq Slots
      /\ \A i \in LastRows : i \notin 0 .. N - 1
  BY <1>1, FromIs
<1>5. /\ Nobody \notin Reqs /\ Nobody \notin Slots /\ Slots \subseteq Nat /\ -1 \notin Slots
      /\ \A q \in Resident : /\ q \in Reqs /\ q # Nobody /\ index[q] \in Slots
                             /\ index[q] < L /\ ids[index[q] + 1] = q
      /\ \A i \in Slots : i < L /\ ids[i + 1] # Nobody =>
                            ids[i + 1] \in Resident /\ index[ids[i + 1]] = i
      /\ \A i \in Slots : generator[i] # Nobody =>
                            generator[i] \in Resident /\ index[generator[i]] = i
  BY Places
<1>6. \A i \in 0 .. N - 1 : ids[From(i) + 1] \in Resident /\ index[ids[From(i) + 1]] = From(i)
  BY <1>4, <1>5
<1>7. /\ \A i \in Slots : row'[i] = row[From(i)] /\ lora'[i] = lora[From(i)]
      /\ \A i \in Slots : generator'[i] = IF i \in LastRows THEN Nobody ELSE generator[From(i)]
      /\ \A i \in Slots : moved'[i] = IF i \in LastRows THEN Nobody ELSE From(i)
  <2>1. ASSUME NEW i \in Slots PROVE row'[i] = row[From(i)] /\ lora'[i] = lora[From(i)]
    BY <1>1 DEF IInv, Types, TypeOK, Over, Filled, From
  <2>2. ASSUME NEW i \in Slots
        PROVE  generator'[i] = IF i \in LastRows THEN Nobody ELSE generator[From(i)]
    BY <1>1 DEF IInv, Types, TypeOK, Over, Filled, MovedOut, From
  <2>3. ASSUME NEW i \in Slots PROVE moved'[i] = IF i \in LastRows THEN Nobody ELSE moved[From(i)]
    BY <1>1 DEF IInv, Types, TypeOK, Over, Filled, MovedOut, From
  <2>4. ASSUME NEW i \in Slots PROVE From(i) \in Slots
    BY <1>4
  <2>5. QED
    BY <1>2, <2>1, <2>2, <2>3, <2>4
<1>8. /\ DOMAIN ids' = 1 .. N /\ Len(ids') = N /\ ids' \in Seq(Reqs \cup {Nobody})
      /\ \A i \in 0 .. N - 1 : i + 1 \in 1 .. N /\ ids'[i + 1] = ids[From(i) + 1]
      /\ \A j \in 1 .. N : j - 1 \in 0 .. N - 1 /\ ids'[j] = ids[From(j - 1) + 1]
  <2> HIDE DEF N, L
  <2>1. \A j \in 1 .. N : j - 1 \in 0 .. N - 1 /\ j - 1 + 1 = j
    BY <1>3
  <2>2. \A j \in 1 .. N : ids'[j] = ids[From(j - 1) + 1]
    BY <1>1, <2>1 DEF From
  <2>3. \A j \in 1 .. N : ids'[j] \in Reqs \cup {Nobody}
    BY <1>5, <1>6, <2>1, <2>2
  <2>4. ids' \in [1 .. N -> Reqs \cup {Nobody}]
    BY <1>1, <2>3
  <2>5. Len(ids') = N /\ ids' \in Seq(Reqs \cup {Nobody})
    BY <1>3, <2>4
  <2>6. \A i \in 0 .. N - 1 : i + 1 \in 1 .. N /\ i + 1 - 1 = i
    BY <1>3
  <2>7. QED
    BY <2>1, <2>2, <2>4, <2>5, <2>6
<1>9. ASSUME NEW q \in Resident
      PROVE  index'[q] \in 0 .. N - 1 /\ From(index'[q]) = index[q]
  <2>1. PICK i \in 0 .. N - 1 : From(i) = index[q]
    BY <1>4
  <2>2. ASSUME NEW h \in Holes, ids[Source(h) + 1] = q PROVE h = i
    <3>1. h \in 0 .. N - 1 /\ From(h) = Source(h)
      BY <1>4 DEF From
    <3>2. index[q] = From(h)
      BY <1>6, <2>2, <3>1
    <3>3. QED
      BY <1>4, <2>1, <3>1, <3>2
  <2>3. CASE i \in Holes
    <3>1. ids[Source(i) + 1] = q
      BY <1>5, <2>1, <2>3 DEF From
    <3>2. index'[q] = CHOOSE h \in Holes : ids[Source(h) + 1] = q
      BY <1>1, <1>5, <2>3, <3>1
    <3>3. index'[q] = i
      BY <2>2, <2>3, <3>1, <3>2
    <3>4. QED
      BY <2>1, <3>3
  <2>4. CASE i \notin Holes
    <3>1. index'[q] = index[q]
      BY <1>1, <1>5, <2>2, <2>4
    <3>2. From(i) = i
      BY <2>4 DEF From
    <3>3. QED
      BY <2>1, <3>1, <3>2
  <2>5. QED
    BY <2>3, <2>4
<1>10. /\ \A q \in Reqs : q \notin Resident => index'[q] = -1
       /\ Resident' = Resident
  <2>1. ASSUME NEW q \in Reqs, q \notin Resident PROVE index'[q] = -1
    <3>1. ASSUME NEW h \in Holes PROVE ids[Source(h) + 1] # q
      BY <1>4, <1>6, <2>1 DEF From
    <3>2. index'[q] = index[q]
      BY <1>1, <3>1
    <3>3. QED
      BY <2>1, <3>2 DEF Resident
  <2>2. \A q \in Resident : q \in Reqs /\ index'[q] # -1
    BY <1>4, <1>5, <1>9
  <2>3. QED
    BY <2>1, <2>2 DEF Resident
<1>11. Types'
  <2>1. index' \in [Reqs -> Slots \cup {-1}]
    <3>1. \A q \in Reqs : index'[q] \in Slots \cup {-1}
      BY <1>4, <1>9, <1>10
    <3>2. QED
      BY <1>1, <3>1
  <2>2. row' \in [Slots -> Reqs \cup {Nobody}] /\ lora' \in [Slots -> LoraIds \cup {0}]
    <3>1. DOMAIN row' = Slots /\ row' = [i \in DOMAIN row' |-> row'[i]]
          /\ DOMAIN lora' = Slots /\ lora' = [i \in DOMAIN lora' |-> lora'[i]]
      BY <1>1 DEF IInv, Types, TypeOK, Over
    <3>2. \A i \in Slots : row'[i] \in Reqs \cup {Nobody} /\ lora'[i] \in LoraIds \cup {0}
      BY <1>4, <1>7 DEF IInv, Types, TypeOK
    <3>3. QED
      BY <3>1, <3>2
  <2>3. mask' \in [Slots -> Reqs \cup {Nobody}]
    <3>1. \A i \in Slots : mask'[i] = mask[From(i)]
      BY <1>1 DEF IInv, Types, TypeOK, Over, Filled, From
    <3>2. DOMAIN mask' = Slots /\ mask' = [i \in DOMAIN mask' |-> mask'[i]]
      BY <1>1 DEF IInv, Types, TypeOK, Over
    <3>3. \A i \in Slots : mask'[i] \in Reqs \cup {Nobody}
      BY <1>4, <3>1 DEF IInv, Types, TypeOK
    <3>4. QED
      BY <3>2, <3>3
  <2>4. generator' \in [Slots -> Reqs \cup {Nobody}] /\ moved' \in [Slots -> Slots \cup {Nobody}]
    <3>1. DOMAIN generator' = Slots /\ generator' = [i \in DOMAIN generator' |-> generator'[i]]
          /\ DOMAIN moved' = Slots /\ moved' = [i \in DOMAIN moved' |-> moved'[i]]
      BY <1>1 DEF IInv, Types, TypeOK, Over
    <3>2. \A i \in Slots : generator'[i] \in Reqs \cup {Nobody} /\ moved'[i] \in Slots \cup {Nobody}
      BY <1>4, <1>7 DEF IInv, Types, TypeOK
    <3>3. QED
      BY <3>1, <3>2
  <2>5. /\ phase' \in {"ready", "removing", "adding", "condensed"} /\ removed' \subseteq Slots
        /\ DOMAIN added' \subseteq Slots /\ loraReqs' \in [LoraIds -> SUBSET Reqs]
    BY <1>1 DEF IInv, Types, TypeOK
  <2>6. ids' \in Seq(Reqs \cup {Nobody}) /\ Len(ids') <= MaxNumReqs
    BY <1>3, <1>8
  <2>7. QED
    BY <2>1, <2>2, <2>3, <2>4, <2>5, <2>6 DEF Types, TypeOK
<1>12. SamePlaces'
  <2>1. ASSUME NEW j \in 1 .. Len(ids'), ids'[j] # Nobody PROVE index'[ids'[j]] = j - 1
    <3>1. j - 1 \in 0 .. N - 1 /\ ids'[j] = ids[From(j - 1) + 1]
      BY <1>8
    <3>2. ids'[j] \in Resident /\ index[ids'[j]] = From(j - 1)
      BY <1>6, <3>1
    <3>3. index'[ids'[j]] \in 0 .. N - 1 /\ From(index'[ids'[j]]) = From(j - 1)
      BY <1>9, <3>2
    <3>4. QED
      BY <1>4, <3>1, <3>3
  <2>2. ASSUME NEW q \in Resident' PROVE index'[q] < Len(ids') /\ ids'[index'[q] + 1] = q
    <3>1. q \in Resident /\ index'[q] \in 0 .. N - 1 /\ From(index'[q]) = index[q]
      BY <1>9, <1>10
    <3>2. ids'[index'[q] + 1] = q
      BY <1>5, <1>8, <3>1
    <3> HIDE DEF N
    <3>3. index'[q] < Len(ids')
      BY <1>3, <1>8, <3>1
    <3>4. QED
      BY <3>2, <3>3
  <2>3. QED
    BY <2>1, <2>2 DEF SamePlaces
<1>13. \A j \in Slots : j < Len(ids') <=> j \in 0 .. N - 1
  <2> HIDE DEF N
  <2>1. QED
    BY <1>3, <1>5, <1>8
<1>14. HolesAreKnown' /\ Phases'
  <2>1. Empty' = {}
    BY <1>4, <1>8, <1>13 DEF Empty
  <2>2. QED
    BY <1>1, <2>1 DEF HolesAreKnown, Phases
<1>15. UpdateIsTrue'
  <2> SUFFICES ASSUME NEW j \in Slots PROVE Updated(moved[j])' = Entry(j)'
    BY DEF UpdateIsTrue
  <2>1. CASE j \in LastRows
    <3>1. moved'[j] = Nobody /\ Entry(j)' = Nobody
      BY <1>4, <1>7, <1>13, <2>1 DEF Entry
    <3>2. QED
      BY <3>1 DEF Updated
  <2>2. CASE j \in 0 .. N - 1
    <3>1. moved'[j] = From(j) /\ From(j) \in Slots /\ From(j) \notin removed /\ From(j) < L
      BY <1>4, <1>7, <2>2
    <3>2. Updated(moved[j])' = Updated(From(j))
      BY <1>1, <3>1 DEF Updated
    <3>3. Entry(j)' = Entry(From(j))
      BY <1>8, <1>13, <2>2, <3>1 DEF Entry
    <3>4. QED
      BY <1>2, <3>1, <3>2, <3>3
  <2>3. CASE j \notin LastRows /\ j \notin 0 .. N - 1
    <3>1. moved'[j] = j /\ j \notin Holes /\ (j < L => j \in removed)
      BY <1>4, <1>7, <2>3
    <3>2. Updated(moved[j])' = Updated(j)
      BY <1>1, <3>1 DEF Updated
    <3>3. Entry(j)' = Nobody
      BY <1>13, <2>3 DEF Entry
    <3>4. Entry(j) = Nobody
      BY <1>2, <3>1 DEF Entry
    <3>5. QED
      BY <1>2, <3>2, <3>3, <3>4
  <2>4. QED
    BY <2>1, <2>2, <2>3
<1>16. RowsFollowRequests'
  <2> SUFFICES ASSUME NEW q \in Resident'
               PROVE  /\ row'[index'[q]] = q /\ lora'[index'[q]] = LoraOf[q]
                      /\ generator'[index'[q]] = IF q \in Seeded THEN q ELSE Nobody
    BY DEF RowsFollowRequests
  <2>1. /\ q \in Resident /\ index'[q] \in Slots /\ index'[q] \notin LastRows
        /\ From(index'[q]) = index[q]
    BY <1>4, <1>9, <1>10
  <2>2. /\ row[index[q]] = q /\ lora[index[q]] = LoraOf[q]
        /\ generator[index[q]] = IF q \in Seeded THEN q ELSE Nobody
    BY <2>1 DEF IInv, RowsFollowRequests
  <2>3. QED
    BY <1>7, <2>1, <2>2
<1>17. NothingLeftBehind'
  <2>1. ASSUME NEW j \in Slots, generator'[j] # Nobody PROVE index'[generator'[j]] = j
    <3> DEFINE g == generator'[j]
    <3>1. j \notin LastRows /\ g = generator[From(j)] /\ From(j) \in Slots
      BY <1>4, <1>7, <2>1
    <3>2. g \in Resident /\ index[g] = From(j)
      BY <1>5, <2>1, <3>1
    <3>3. index'[g] \in 0 .. N - 1 /\ From(index'[g]) = From(j)
      BY <1>9, <3>2
    <3>4. CASE j \in 0 .. N - 1
      BY <1>4, <3>3, <3>4
    <3>5. CASE j \notin 0 .. N - 1
      <4>1. From(j) = j /\ j < L /\ ids[j + 1] = g
        BY <1>4, <1>5, <3>2, <3>5
      <4>2. j \notin removed
        BY <1>2, <1>5, <3>2, <4>1
      <4>3. QED
        BY <1>4, <3>1, <3>5, <4>1, <4>2
    <3>6. QED
      BY <3>4, <3>5
  <2>2. \A l \in LoraIds : loraReqs'[l] = {q \in Resident' : LoraOf[q] = l}
    BY <1>1, <1>10 DEF IInv, NothingLeftBehind
  <2>3. QED
    BY <2>1, <2>2 DEF NothingLeftBehind
<1>18. QED
  BY <1>11, <1>12, <1>14, <1>15, <1>16, <1>17 DEF IInv

\* swap_states
LEMMA SwapInv ==
  ASSUME IInv, NEW i \in Slots, NEW j \in Slots, SwapStates(i, j)
  PROVE  IInv'
<1> DEFINE Other(k) == IF k = i THEN j ELSE IF k = j THEN i ELSE k
           p == ids[i + 1]
           q == ids[j + 1]
<1>1. /\ phase = "condensed" /\ phase' = phase /\ i < j /\ j < NumReqs
      /\ ids' = [ids EXCEPT ![i + 1] = q, ![j + 1] = p]
      /\ index' = [index EXCEPT ![p] = index[q], ![q] = index[p]]
      /\ row' = [row EXCEPT ![i] = row[j], ![j] = row[i]]
      /\ lora' = [lora EXCEPT ![i] = lora[j], ![j] = lora[i]]
      /\ generator' = [generator EXCEPT ![i] = generator[j], ![j] = generator[i]]
      /\ mask' = [mask EXCEPT ![i] = mask[j]]
      /\ moved' = [moved EXCEPT ![i] = moved[j], ![j] = moved[i]]
      /\ loraReqs' = loraReqs /\ removed' = removed /\ added' = added /\ mirror' = mirror
  BY DEF SwapStates, Swapped
<1>2. /\ Len(ids) \in Nat /\ NumReqs = Len(ids) /\ Len(ids) <= MaxNumReqs /\ MaxNumReqs \in Nat
      /\ Slots \subseteq Nat /\ Nobody \notin Reqs
  BY <1>1, NumReqsIs, Places
<1>3. i \in Nat /\ j \in Nat /\ i # j /\ i < Len(ids) /\ j < Len(ids)
  <2>1. i \in Nat /\ j \in Nat
    BY <1>2
  <2> HIDE DEF Other, p, q
  <2>2. QED
    BY <1>1, <1>2, <2>1
<1>4. \A k \in Slots : k < Len(ids) => ids[k + 1] # Nobody
  <2>1. Empty = {}
    BY <1>1 DEF IInv, HolesAreKnown
  <2>2. QED
    BY <2>1 DEF Empty
<1>5. /\ p \in Resident /\ q \in Resident /\ index[p] = i /\ index[q] = j /\ p # q
      /\ p \in Reqs /\ q \in Reqs
  <2>1. p \in Resident /\ q \in Resident /\ index[p] = i /\ index[q] = j
    BY <1>3, <1>4, Places
  <2>2. QED
    BY <1>3, <2>1 DEF Resident
<1>6. \A k \in Slots : Other(k) \in Slots /\ Other(Other(k)) = k /\ (k < Len(ids) <=> Other(k) < Len(ids))
  BY <1>3
<1>7. /\ ids' \in Seq(Reqs \cup {Nobody}) /\ Len(ids') = Len(ids)
      /\ \A k \in Slots : k < Len(ids) => ids'[k + 1] = ids[Other(k) + 1]
      /\ \A k \in 1 .. Len(ids) : k - 1 \in Slots /\ k - 1 < Len(ids) /\ k - 1 + 1 = k
  <2>1. ids \in Seq(Reqs \cup {Nobody}) /\ p \in Reqs \cup {Nobody} /\ q \in Reqs \cup {Nobody}
    BY <1>5 DEF IInv, Types, TypeOK
  <2>2. i + 1 \in 1 .. Len(ids) /\ j + 1 \in 1 .. Len(ids) /\ i + 1 # j + 1
    BY <1>2, <1>3
  <2> DEFINE s == [ids EXCEPT ![i + 1] = q]
  <2> HIDE DEF p, q
  <2>3. /\ s \in Seq(Reqs \cup {Nobody}) /\ Len(s) = Len(ids)
        /\ \A k \in 1 .. Len(ids) : s[k] = IF k = i + 1 THEN q ELSE ids[k]
    BY <2>1, <2>2, ExceptSeq
  <2>4. ids' = [s EXCEPT ![j + 1] = p]
    BY <1>1
  <2> HIDE DEF s, Other
  <2>5. /\ ids' \in Seq(Reqs \cup {Nobody}) /\ Len(ids') = Len(s)
        /\ \A k \in 1 .. Len(s) : ids'[k] = IF k = j + 1 THEN p ELSE s[k]
    BY <2>1, <2>2, <2>3, <2>4, ExceptSeq
  <2>6. \A k \in 1 .. Len(ids) : ids'[k] = IF k = j + 1 THEN p ELSE IF k = i + 1 THEN q ELSE ids[k]
    BY <2>3, <2>5
  <2>7. \A k \in 1 .. Len(ids) : k - 1 \in Slots /\ k - 1 < Len(ids) /\ k - 1 + 1 = k
    BY <1>2 DEF Slots
  <2>8. ASSUME NEW k \in Slots, k < Len(ids) PROVE ids'[k + 1] = ids[Other(k) + 1]
    <3>1. k + 1 \in 1 .. Len(ids) /\ (k + 1 = i + 1 <=> k = i) /\ (k + 1 = j + 1 <=> k = j)
      BY <1>2, <1>3, <2>8
    <3>2. QED
      BY <2>6, <3>1 DEF Other, p, q
  <2>9. QED
    BY <2>3, <2>5, <2>7, <2>8
<1>8. \A k \in Slots : Entry(k)' = Entry(Other(k))
  <2> HIDE DEF Other
  <2>1. QED
    BY <1>6, <1>7 DEF Entry
<1>9. \A k \in Slots : /\ row'[k] = row[Other(k)] /\ lora'[k] = lora[Other(k)]
                      /\ generator'[k] = generator[Other(k)] /\ moved'[k] = moved[Other(k)]
  BY <1>1 DEF IInv, Types, TypeOK
<1>10. /\ Resident' = Resident
       /\ \A r \in Resident : index'[r] = Other(index[r])
  <2>1. \A r \in Reqs : index'[r] = IF r = p THEN j ELSE IF r = q THEN i ELSE index[r]
    BY <1>1, <1>5 DEF IInv, Types, TypeOK
  <2>2. \A r \in Resident : r # p => index[r] # i
    BY Places
  <2>3. \A r \in Resident : r # q => index[r] # j
    BY Places
  <2>4. i # -1 /\ j # -1
    BY <1>3
  <2>5. Resident' = Resident
    BY <1>5, <2>1, <2>4 DEF Resident
  <2>6. QED
    BY <1>5, <2>1, <2>2, <2>3, <2>5 DEF Resident
<1> HIDE DEF Other
<1>11. Types'
  <2>1. index' \in [Reqs -> Slots \cup {-1}]
    BY <1>1, <1>5 DEF IInv, Types, TypeOK
  <2>2. /\ row' \in [Slots -> Reqs \cup {Nobody}] /\ lora' \in [Slots -> LoraIds \cup {0}]
        /\ generator' \in [Slots -> Reqs \cup {Nobody}] /\ mask' \in [Slots -> Reqs \cup {Nobody}]
    BY <1>1 DEF IInv, Types, TypeOK
  <2>3. /\ phase' \in {"ready", "removing", "adding", "condensed"} /\ removed' \subseteq Slots
        /\ DOMAIN added' \subseteq Slots /\ moved' \in [Slots -> Slots \cup {Nobody}]
        /\ loraReqs' \in [LoraIds -> SUBSET Reqs]
    BY <1>1 DEF IInv, Types, TypeOK
  <2>4. ids' \in Seq(Reqs \cup {Nobody}) /\ Len(ids') <= MaxNumReqs
    BY <1>2, <1>7
  <2>5. QED
    BY <2>1, <2>2, <2>3, <2>4 DEF Types, TypeOK
<1>12. SamePlaces'
  <2>1. ASSUME NEW k \in 1 .. Len(ids'), ids'[k] # Nobody PROVE index'[ids'[k]] = k - 1
    <3>1. k - 1 \in Slots /\ k - 1 < Len(ids) /\ ids'[k] = ids[Other(k - 1) + 1]
      BY <1>7
    <3>2. Other(k - 1) \in Slots /\ Other(k - 1) < Len(ids) /\ Other(Other(k - 1)) = k - 1
      BY <1>6, <3>1
    <3>3. ids'[k] \in Resident /\ index[ids'[k]] = Other(k - 1)
      BY <1>4, <3>1, <3>2, Places
    <3>4. QED
      BY <1>10, <3>2, <3>3
  <2>2. ASSUME NEW r \in Resident' PROVE index'[r] < Len(ids') /\ ids'[index'[r] + 1] = r
    <3>1. /\ r \in Resident /\ index'[r] = Other(index[r])
          /\ index[r] \in Slots /\ index[r] < Len(ids) /\ ids[index[r] + 1] = r
      BY <1>10, Places
    <3>2. QED
      BY <1>6, <1>7, <3>1
  <2>3. QED
    BY <2>1, <2>2 DEF SamePlaces
<1>13. HolesAreKnown' /\ Phases'
  <2>1. Empty' = {}
    BY <1>4, <1>6, <1>7 DEF Empty
  <2>2. QED
    BY <1>1, <2>1 DEF HolesAreKnown, Phases
<1>14. UpdateIsTrue'
  <2> SUFFICES ASSUME NEW k \in Slots PROVE Updated(moved[k])' = Entry(k)'
    BY DEF UpdateIsTrue
  <2>1. moved'[k] = moved[Other(k)]
    BY <1>9
  <2>2. removed' = removed /\ added' = added /\ mirror' = mirror
    BY <1>1
  <2>3. Updated(moved[k])' = Updated(moved[Other(k)])
    BY <2>1, <2>2 DEF Updated
  <2>4. QED
    BY <1>6, <1>8, <2>3 DEF IInv, UpdateIsTrue
<1>15. RowsFollowRequests'
  <2> SUFFICES ASSUME NEW r \in Resident'
               PROVE  /\ row'[index'[r]] = r /\ lora'[index'[r]] = LoraOf[r]
                      /\ generator'[index'[r]] = IF r \in Seeded THEN r ELSE Nobody
    BY DEF RowsFollowRequests
  <2>1. /\ r \in Resident /\ index'[r] = Other(index[r]) /\ index[r] \in Slots
        /\ Other(index[r]) \in Slots /\ Other(Other(index[r])) = index[r]
    BY <1>6, <1>10, Places
  <2>2. /\ row[index[r]] = r /\ lora[index[r]] = LoraOf[r]
        /\ generator[index[r]] = IF r \in Seeded THEN r ELSE Nobody
    BY <2>1 DEF IInv, RowsFollowRequests
  <2>3. QED
    BY <1>9, <2>1, <2>2
<1>16. NothingLeftBehind'
  <2>1. ASSUME NEW k \in Slots, generator'[k] # Nobody PROVE index'[generator'[k]] = k
    <3>1. generator'[k] = generator[Other(k)] /\ Other(k) \in Slots /\ Other(Other(k)) = k
      BY <1>6, <1>9
    <3>2. generator'[k] \in Resident /\ index[generator'[k]] = Other(k)
      BY <2>1, <3>1, Places
    <3>3. QED
      BY <1>10, <3>1, <3>2
  <2>2. \A l \in LoraIds : loraReqs'[l] = {r \in Resident' : LoraOf[r] = l}
    BY <1>1, <1>10 DEF IInv, NothingLeftBehind
  <2>3. QED
    BY <2>1, <2>2 DEF NothingLeftBehind
<1>17. QED
  BY <1>11, <1>12, <1>13, <1>14, <1>15, <1>16 DEF IInv

\* refresh_metadata
LEMMA RefreshInv ==
  ASSUME IInv, RefreshMetadata
  PROVE  IInv'
<1>1. /\ phase = "condensed" /\ phase' = "ready"
      /\ mirror' = [i \in Slots |-> Updated(moved[i])]
      /\ removed' = {} /\ added' = [i \in {} |-> Nobody] /\ moved' = [i \in Slots |-> i]
      /\ ids' = ids /\ index' = index /\ row' = row /\ lora' = lora /\ loraReqs' = loraReqs
      /\ refusal' = refusal /\ generator' = generator /\ mask' = mask
  BY DEF RefreshMetadata, batch
<1>2. Types' /\ SamePlaces' /\ RowsFollowRequests' /\ NothingLeftBehind'
  BY <1>1 DEF IInv, Types, TypeOK, SamePlaces, RowsFollowRequests, NothingLeftBehind, Resident
<1>3. HolesAreKnown' /\ Phases'
  BY <1>1 DEF IInv, HolesAreKnown, Phases, Empty
<1>4. UpdateIsTrue'
  <2> SUFFICES ASSUME NEW j \in Slots PROVE Updated(moved[j])' = Entry(j)'
    BY DEF UpdateIsTrue
  <2>1. moved'[j] = j /\ j # Nobody /\ mirror'[j] = Updated(moved[j])
    BY <1>1, Places
  <2>2. Updated(moved[j])' = mirror'[j]
    BY <1>1, <2>1 DEF Updated
  <2>3. Entry(j)' = Entry(j)
    BY <1>1 DEF Entry
  <2>4. QED
    BY <2>1, <2>2, <2>3 DEF IInv, UpdateIsTrue
<1>5. QED
  BY <1>2, <1>3, <1>4 DEF IInv

-----------------------------------------------------------------------------
LEMMA NextInv == IInv /\ [Next]_vars => IInv'
<1> SUFFICES ASSUME IInv, [Next]_vars PROVE IInv'
  OBVIOUS
<1>1. CASE UNCHANGED vars
  <2>1. /\ phase' = phase /\ removed' = removed /\ added' = added /\ moved' = moved
        /\ mirror' = mirror /\ ids' = ids /\ index' = index /\ row' = row /\ lora' = lora
        /\ loraReqs' = loraReqs /\ refusal' = refusal /\ generator' = generator /\ mask' = mask
    BY <1>1 DEF vars, batch
  <2>2. Types' /\ SamePlaces' /\ RowsFollowRequests' /\ NothingLeftBehind'
    BY <2>1 DEF IInv, Types, TypeOK, SamePlaces, RowsFollowRequests, NothingLeftBehind, Resident
  <2>3. HolesAreKnown' /\ Phases' /\ UpdateIsTrue'
    BY <2>1 DEF IInv, HolesAreKnown, Phases, Empty, UpdateIsTrue, Updated, Entry
  <2>4. QED
    BY <2>2, <2>3 DEF IInv
<1>2. CASE \E r \in Reqs : RemoveRequest(r)
  BY <1>2, RemoveInv
<1>3. CASE \E r \in Reqs : AddRequest(r)
  BY <1>3, AddInv
<1>4. CASE Condense
  BY <1>4, CondenseEasyInv, CondenseMovesInv
<1>5. CASE \E i, j \in Slots : SwapStates(i, j)
  BY <1>5, SwapInv
<1>6. CASE RefreshMetadata
  BY <1>6, RefreshInv
<1>7. QED
  BY <1>1, <1>2, <1>3, <1>4, <1>5, <1>6 DEF Next

LEMMA Inductive == Spec => []IInv
BY InitInv, NextInv, PTL DEF Spec

\* Everything has its type; the list and the map agree all along an update, and the
\* list has no hole when the step runs.
THEOREM Dense == Spec => []DenseIndex
<1>1. IInv => DenseIndex
  BY DEF IInv, Types, DenseIndex, SamePlaces, HolesAreKnown, Empty
<1>2. QED
  BY <1>1, Inductive, PTL

\* The rows, the adapter and the generator at a request's index are the request's,
\* whatever was removed, added, condensed and swapped.
THEOREM RowsFollow == Spec => []RowsFollowRequests
<1>1. IInv => RowsFollowRequests
  BY DEF IInv
<1>2. QED
  BY <1>1, Inductive, PTL

\* No generator and no adapter outlives its request.
THEOREM NothingInherited == Spec => []NothingLeftBehind
<1>1. IInv => NothingLeftBehind
  BY DEF IInv
<1>2. QED
  BY <1>1, Inductive, PTL

\* A logits processor that saw only the batch updates has every request where the
\* batch has it when the step runs.
THEOREM Followed == Spec => []ProcessorsFollow
<1>1. IInv => ProcessorsFollow
  <2> SUFFICES ASSUME IInv, phase = "ready", NEW i \in Slots
               PROVE  mirror[i] = IF i < Len(ids) THEN ids[i + 1] ELSE Nobody
    BY DEF ProcessorsFollow
  <2>1. moved[i] = i /\ i # Nobody /\ DOMAIN added = {} /\ removed = {}
    BY Places, NothingMovedYet DEF IInv, Phases
  <2>2. Updated(i) = mirror[i]
    BY <2>1 DEF Updated
  <2>3. QED
    BY <2>1, <2>2 DEF IInv, UpdateIsTrue, Entry
<1>2. QED
  BY <1>1, Inductive, PTL
=============================================================================

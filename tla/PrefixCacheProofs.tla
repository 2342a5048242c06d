-------------------------- MODULE PrefixCacheProofs --------------------------
(***************************************************************************)
(* Which prefix reuses are safe, for every set of requests, salts and      *)
(* lambdas and every block size: those of sealed requests always, all of   *)
(* them when the engine core and the worker share the dial and it only     *)
(* moves while no request is in flight.                                    *)
(***************************************************************************)
EXTENDS PrefixCache, SequenceTheorems, TLAPS

(***************************************************************************)
(* Sequences of rows.                                                      *)
(***************************************************************************)

\* A function on 1..n is a sequence of length n.
LEMMA FunctionIsSequence ==
  ASSUME NEW S, NEW n \in Nat, NEW f \in [1 .. n -> S]
  PROVE  f \in Seq(S) /\ Len(f) = n
OBVIOUS

\* Appending m rows at lambda x to a sequence of rows.
Extends(t, s, m, x) ==
  /\ t \in Seq(Lambdas)
  /\ Len(t) = Len(s) + m
  /\ \A i \in 1 .. Len(t) : t[i] = IF i <= Len(s) THEN s[i] ELSE x

LEMMA AppendRows ==
  ASSUME NEW s \in Seq(Lambdas), NEW m \in Nat, NEW x \in Lambdas
  PROVE  Extends(s \o [i \in 1 .. m |-> x], s, m, x)
<1> DEFINE f == [i \in 1 .. m |-> x]
<1>1. f \in [1 .. m -> Lambdas]
  OBVIOUS
<1>2. f \in Seq(Lambdas) /\ Len(f) = m
  BY <1>1, FunctionIsSequence
<1>3. \A i \in 1 .. m : f[i] = x
  OBVIOUS
<1> HIDE DEF f
<1>4. s \o f \in Seq(Lambdas) /\ Len(s \o f) = Len(s) + m
  BY <1>2
<1>5. \A i \in 1 .. Len(s) + m :
        (s \o f)[i] = IF i <= Len(s) THEN s[i] ELSE f[i - Len(s)]
  BY <1>2
<1>6. QED
  BY <1>3, <1>4, <1>5 DEF Extends, f

\* Every index of b blocks lies in one of them.
LEMMA IndexInBlock ==
  ASSUME NEW b \in Nat, NEW j \in 1 .. b * BlockSize
  PROVE  \E i \in 1 .. b : \E o \in 1 .. BlockSize : j = BlockSize * (i - 1) + o
<1> DEFINE q == (j - 1) \div BlockSize
<1>1. BlockSize \in Nat /\ BlockSize > 0
  BY CacheAssumption
<1>2. q \in Int /\ BlockSize * q <= j - 1 /\ j - 1 < BlockSize * q + BlockSize
  BY <1>1
<1> HIDE DEF q
<1>3. q >= 0
  BY <1>1, <1>2
<1>4. q < b
  BY <1>1, <1>2
<1>5. q + 1 \in 1 .. b /\ j - BlockSize * q \in 1 .. BlockSize
  BY <1>1, <1>2, <1>3, <1>4
<1>6. j = BlockSize * ((q + 1) - 1) + (j - BlockSize * q)
  BY <1>1, <1>2
<1>7. QED
  BY <1>5, <1>6

\* A row of a full block is a row of the sequence.
LEMMA RowOfBlock ==
  ASSUME NEW n \in Nat, NEW i \in 1 .. n \div BlockSize, NEW o \in 1 .. BlockSize
  PROVE  BlockSize * (i - 1) + o \in 1 .. n
<1>1. BlockSize \in Nat /\ BlockSize > 0
  BY CacheAssumption
<1>2. BlockSize * (n \div BlockSize) <= n /\ n \div BlockSize \in Nat
  BY <1>1
<1>3. BlockSize * i <= BlockSize * (n \div BlockSize)
  BY <1>1, <1>2
<1>4. QED
  BY <1>1, <1>2, <1>3

-----------------------------------------------------------------------------
(***************************************************************************)
(* Blocks and the cache.                                                   *)
(***************************************************************************)

\* A full block is cached under its request's key and holds rows of it.
LEMMA FullBlockRows ==
  ASSUME NEW k, NEW t \in Seq(Lambdas), NEW e \in FullBlocks(k, t)
  PROVE  /\ e.hash[1] = k
         /\ e.rows \in [1 .. BlockSize -> Lambdas]
         /\ \A o \in 1 .. BlockSize : \E j \in 1 .. Len(t) : e.rows[o] = t[j]
         /\ Len(t) >= BlockSize
<1>1. PICK i \in 1 .. Len(t) \div BlockSize :
        e = [hash |-> BlockHash(k, i), rows |-> BlockRows(t, i)]
  BY DEF FullBlocks
<1>2. e.hash[1] = k /\ e.rows = BlockRows(t, i)
  BY <1>1 DEF BlockHash
<1>3. \A o \in 1 .. BlockSize :
        /\ BlockSize * (i - 1) + o \in 1 .. Len(t)
        /\ e.rows[o] = t[BlockSize * (i - 1) + o]
  BY <1>2, RowOfBlock DEF BlockRows
<1>4. \A o \in 1 .. BlockSize : e.rows[o] \in Lambdas
  BY <1>3
<1>5. e.rows \in [1 .. BlockSize -> Lambdas]
  BY <1>2, <1>4 DEF BlockRows
<1>6. Len(t) >= BlockSize
  <2>1. BlockSize \in Nat /\ BlockSize > 0 /\ Len(t) \in Nat
    BY CacheAssumption
  <2>2. Len(t) \div BlockSize >= 1
    BY <1>1, <2>1
  <2>3. QED
    BY <2>1, <2>2
<1>7. QED
  BY <1>2, <1>3, <1>5, <1>6

\* A reused row is a row of a block cached under the request's key.
LEMMA ReusedRowIsCached ==
  ASSUME NEW k, NEW b \in Nat, NEW t \in Prefixes(k, b), NEW j \in 1 .. b * BlockSize
  PROVE  \E e \in cache : \E o \in 1 .. BlockSize : e.hash[1] = k /\ e.rows[o] = t[j]
<1>1. PICK i \in 1 .. b : \E o \in 1 .. BlockSize : j = BlockSize * (i - 1) + o
  BY IndexInBlock
<1>2. PICK o \in 1 .. BlockSize : j = BlockSize * (i - 1) + o
  BY <1>1
<1> DEFINE e == [hash |-> BlockHash(k, i), rows |-> BlockRows(t, i)]
<1>3. e \in cache
  BY DEF Prefixes
<1>4. e.hash[1] = k
  BY DEF BlockHash
<1>5. e.rows[o] = t[j]
  BY <1>2 DEF BlockRows
<1>6. QED
  BY <1>3, <1>4, <1>5

\* What a step does to the request it computes.
LEMMA ComputeEffect ==
  ASSUME NEW r \in Reqs, NEW s \in Seq(Lambdas), NEW m \in Nat,
         Effective(salt[r]) \in Lambdas, Compute(r, s, m)
  PROVE  \E t : /\ Extends(t, s, m, Effective(salt[r]))
                /\ kv' = [kv EXCEPT ![r] = t]
                /\ cache' = cache \cup FullBlocks(key[r], t)
                /\ \E n \in {len[r], len[r] + 1} :
                     /\ n <= MaxTokens
                     /\ len' = [len EXCEPT ![r] = n]
                     /\ key' = [key EXCEPT ![r] = KeyAt(key[r], salt[r], n)]
<1> DEFINE t == s \o [i \in 1 .. m |-> Effective(salt[r])]
           n == IF Len(t) = len[r] THEN len[r] + 1 ELSE len[r]
<1>1. Extends(t, s, m, Effective(salt[r]))
  BY AppendRows
<1>2. /\ n <= MaxTokens
      /\ kv' = [kv EXCEPT ![r] = t]
      /\ cache' = cache \cup FullBlocks(key[r], t)
      /\ len' = [len EXCEPT ![r] = n]
      /\ key' = [key EXCEPT ![r] = KeyAt(key[r], salt[r], n)]
  BY DEF Compute
<1>3. n \in {len[r], len[r] + 1}
  OBVIOUS
<1> HIDE DEF t, n
<1>4. QED
  BY <1>1, <1>2, <1>3

\* The key of a request names its salt, whenever it is made.
LEMMA KeyNamesSalt ==
  ASSUME TypeOK, NEW r \in Reqs, NEW s \in Salts, NEW n \in Nat
  PROVE  /\ KeyAt(NoKey, s, n) \in (Salts \X Int) \cup {NoKey}
         /\ KeyAt(NoKey, s, n) # NoKey => KeyAt(NoKey, s, n)[1] = s
         /\ n >= BlockSize => KeyAt(NoKey, s, n) # NoKey
         /\ key[r] # NoKey => KeyAt(key[r], s, n) = key[r]
         /\ n < BlockSize => KeyAt(key[r], s, n) = key[r]
<1>1. LambdaHashKey(keyDial) \in Int
  BY CacheAssumption DEF TypeOK, LambdaHashKey
<1>2. FirstBlockKeys(s) \in Salts \X Int /\ FirstBlockKeys(s)[1] = s
  BY <1>1 DEF FirstBlockKeys
<1>3. FirstBlockKeys(s) # NoKey
  BY <1>2, CacheAssumption
<1>4. QED
  BY <1>2, <1>3, CacheAssumption DEF KeyAt

-----------------------------------------------------------------------------
(***************************************************************************)
(* Sealed requests: the strengthening says that a key names the salt of    *)
(* its request, and that seals fix the rows of requests and blocks alike.  *)
(***************************************************************************)

SealInv ==
  /\ TypeOK
  /\ \A r \in Reqs : stage[r] # "running" => kv[r] = <<>>
  /\ \A r \in Reqs : stage[r] # "new" => salt[r] \in Salts
  /\ \A r \in Reqs : key[r] # NoKey => key[r][1] = salt[r]
  /\ \A r \in Reqs : salt[r] \in Seals =>
       \A i \in 1 .. Len(kv[r]) : kv[r][i] = salt[r][2]
  /\ \A e \in cache : e.hash[1][1] \in Seals =>
       \A o \in 1 .. BlockSize : e.rows[o] = e.hash[1][1][2]
  /\ SealedHitsMatch

LEMMA SealInit == Init => SealInv
<1> SUFFICES ASSUME Init PROVE SealInv
  OBVIOUS
<1>1. TypeOK
  BY CacheAssumption DEF Init, TypeOK, NoHit, Stages
<1>2. SealedHitsMatch
  BY DEF Init, SealedHitsMatch, NoHit
<1>3. QED
  BY <1>1, <1>2, CacheAssumption DEF Init, SealInv, Salts

\* An effective lambda is a lambda.
LEMMA EffectiveType ==
  ASSUME TypeOK, NEW s \in Salts
  PROVE  Effective(s) \in Lambdas
BY DEF TypeOK, Effective, Seals

\* The step of one request: from the rows s, which obey the seal of the request,
\* to the rows t.
LEMMA SealCompute ==
  ASSUME SealInv, NEW r \in Reqs, stage[r] \in {"waiting", "running"},
         NEW s \in Seq(Lambdas), NEW m \in Nat, Len(s) + m <= len[r],
         salt[r] \in Seals => \A i \in 1 .. Len(s) : s[i] = salt[r][2],
         Compute(r, s, m), UNCHANGED <<shared, drains, keyDial, dial, salt>>,
         stage' = [stage EXCEPT ![r] = "running"],
         hit'.rows \in Seq(Lambdas), SealedHitsMatch'
  PROVE  SealInv'
<1>1. salt[r] \in Salts /\ TypeOK
  BY DEF SealInv
<1>2. PICK t : /\ Extends(t, s, m, Effective(salt[r]))
               /\ kv' = [kv EXCEPT ![r] = t]
               /\ cache' = cache \cup FullBlocks(key[r], t)
               /\ \E n \in {len[r], len[r] + 1} :
                    /\ n <= MaxTokens
                    /\ len' = [len EXCEPT ![r] = n]
                    /\ key' = [key EXCEPT ![r] = KeyAt(key[r], salt[r], n)]
  BY <1>1, EffectiveType, ComputeEffect
<1>3. PICK n \in {len[r], len[r] + 1} :
        /\ n <= MaxTokens
        /\ len' = [len EXCEPT ![r] = n]
        /\ key' = [key EXCEPT ![r] = KeyAt(key[r], salt[r], n)]
  BY <1>2
<1>4. /\ n \in 0 .. MaxTokens /\ len[r] \in 0 .. MaxTokens
      /\ t \in Seq(Lambdas) /\ Len(t) = Len(s) + m /\ Len(t) <= len[r] /\ Len(t) <= n
  BY <1>1, <1>2, <1>3 DEF Extends, TypeOK
<1>5. /\ KeyAt(key[r], salt[r], n) \in (Salts \X Int) \cup {NoKey}
      /\ KeyAt(key[r], salt[r], n) # NoKey => KeyAt(key[r], salt[r], n)[1] = salt[r]
      /\ n >= BlockSize => KeyAt(key[r], salt[r], n) # NoKey
  <2>1. n \in Nat
    BY <1>4
  <2>2. CASE key[r] = NoKey
    BY <1>1, <2>1, <2>2, KeyNamesSalt
  <2>3. CASE key[r] # NoKey
    BY <1>1, <2>1, <2>3, KeyNamesSalt DEF SealInv, TypeOK
  <2>4. QED
    BY <2>2, <2>3
<1>6. salt[r] \in Seals => \A i \in 1 .. Len(t) : t[i] = salt[r][2]
  BY <1>2 DEF Extends, Effective
<1>7. \A e \in FullBlocks(key[r], t) :
        /\ e.rows \in [1 .. BlockSize -> Lambdas]
        /\ e.hash[1][1] \in Seals => \A o \in 1 .. BlockSize : e.rows[o] = e.hash[1][1][2]
  <2> SUFFICES ASSUME NEW e \in FullBlocks(key[r], t)
               PROVE  /\ e.rows \in [1 .. BlockSize -> Lambdas]
                      /\ e.hash[1][1] \in Seals =>
                           \A o \in 1 .. BlockSize : e.rows[o] = e.hash[1][1][2]
    OBVIOUS
  <2>1. /\ e.hash[1] = key[r]
        /\ e.rows \in [1 .. BlockSize -> Lambdas]
        /\ \A o \in 1 .. BlockSize : \E j \in 1 .. Len(t) : e.rows[o] = t[j]
        /\ Len(t) >= BlockSize
    BY <1>4, FullBlockRows
  <2>2. len[r] >= BlockSize
    BY <1>4, <2>1, CacheAssumption
  <2>3. key[r] # NoKey /\ key[r][1] = salt[r]
    BY <2>2 DEF SealInv, TypeOK
  <2>4. QED
    BY <2>1, <2>3, <1>6
<1>8. TypeOK'
  <2>1. /\ shared' \in BOOLEAN /\ drains' \in BOOLEAN
        /\ keyDial' \in Lambdas /\ dial' \in Lambdas
        /\ stage' \in [Reqs -> Stages]
        /\ salt' \in [Reqs -> Salts \cup {NoSalt}]
    BY <1>1 DEF TypeOK, Stages
  <2>2. /\ len' \in [Reqs -> 0 .. MaxTokens]
        /\ key' \in [Reqs -> (Salts \X Int) \cup {NoKey}]
        /\ kv' \in [Reqs -> Seq(Lambdas)]
    BY <1>1, <1>2, <1>3, <1>4, <1>5 DEF TypeOK
  <2>3. \A q \in Reqs : /\ Len(kv'[q]) <= len'[q]
                        /\ len'[q] >= BlockSize => key'[q] # NoKey
    BY <1>1, <1>2, <1>3, <1>4, <1>5 DEF TypeOK
  <2>4. \A e \in cache' : e.rows \in [1 .. BlockSize -> Lambdas]
    BY <1>1, <1>2, <1>7 DEF TypeOK
  <2>5. QED
    BY <2>1, <2>2, <2>3, <2>4 DEF TypeOK
<1>9. \A q \in Reqs : stage'[q] # "running" => kv'[q] = <<>>
  BY <1>1, <1>2 DEF SealInv, TypeOK
<1>10. \A q \in Reqs : stage'[q] # "new" => salt'[q] \in Salts
  BY <1>1 DEF SealInv, TypeOK
<1>11. \A q \in Reqs : key'[q] # NoKey => key'[q][1] = salt'[q]
  BY <1>1, <1>3, <1>5 DEF SealInv, TypeOK
<1>12. \A q \in Reqs : salt'[q] \in Seals =>
         \A i \in 1 .. Len(kv'[q]) : kv'[q][i] = salt'[q][2]
  BY <1>1, <1>2, <1>6 DEF SealInv, TypeOK
<1>13. \A e \in cache' : e.hash[1][1] \in Seals =>
         \A o \in 1 .. BlockSize : e.rows[o] = e.hash[1][1][2]
  BY <1>2, <1>7 DEF SealInv
<1>14. QED
  BY <1>8, <1>9, <1>10, <1>11, <1>12, <1>13 DEF SealInv

\* A request that reuses a block has hashed its first one.
LEMMA KeyOfReuse ==
  ASSUME SealInv, NEW r \in Reqs, NEW b \in Nat, b * BlockSize < len[r],
         b * BlockSize >= 1
  PROVE  key[r] # NoKey /\ key[r][1] = salt[r]
<1>1. BlockSize \in Nat \ {0}
  BY CacheAssumption
<1>2. b >= 1
  BY <1>1
<1>3. BlockSize <= b * BlockSize
  BY <1>1, <1>2
<1> DEFINE n == b * BlockSize
<1>4. len[r] \in Nat /\ n \in Nat /\ BlockSize <= n /\ n < len[r]
  BY <1>1, <1>3, CacheAssumption DEF SealInv, TypeOK
<1> HIDE DEF n
<1>5. len[r] >= BlockSize
  BY <1>1, <1>4
<1>6. QED
  BY <1>5 DEF SealInv, TypeOK

\* The rows a sealed request reuses were computed at its seal.
LEMMA SealedReuse ==
  ASSUME SealInv, NEW r \in Reqs, NEW b \in Nat, b * BlockSize < len[r],
         NEW t \in Prefixes(key[r], b), salt[r] \in Seals
  PROVE  \A j \in 1 .. b * BlockSize : t[j] = salt[r][2]
<1> SUFFICES ASSUME NEW j \in 1 .. b * BlockSize PROVE t[j] = salt[r][2]
  OBVIOUS
<1>1. key[r] # NoKey /\ key[r][1] = salt[r]
  <2>1. b * BlockSize >= 1
    BY CacheAssumption
  <2>2. QED
    BY <2>1, KeyOfReuse
<1>2. PICK e \in cache : \E o \in 1 .. BlockSize : e.hash[1] = key[r] /\ e.rows[o] = t[j]
  BY ReusedRowIsCached
<1>3. QED
  BY <1>1, <1>2 DEF SealInv

LEMMA SealNext == SealInv /\ [Next]_vars => SealInv'
<1> SUFFICES ASSUME SealInv, [Next]_vars PROVE SealInv'
  OBVIOUS
<1> USE CacheAssumption
<1>0. TypeOK
  BY DEF SealInv
<1>1. ASSUME NEW r \in Reqs, NEW s \in Salts, NEW n \in 1 .. MaxTokens, Arrive(r, s, n)
      PROVE  SealInv'
  <2>1. /\ stage[r] = "new" /\ kv[r] = <<>>
        /\ key' = [key EXCEPT ![r] = KeyAt(NoKey, s, n)]
        /\ salt' = [salt EXCEPT ![r] = s]
        /\ len' = [len EXCEPT ![r] = n]
        /\ stage' = [stage EXCEPT ![r] = "waiting"]
        /\ hit' = NoHit /\ UNCHANGED <<shared, drains, keyDial, dial, kv, cache>>
    BY <1>1 DEF Arrive, SealInv
  <2>2. /\ KeyAt(NoKey, s, n) \in (Salts \X Int) \cup {NoKey}
        /\ KeyAt(NoKey, s, n) # NoKey => KeyAt(NoKey, s, n)[1] = s
        /\ n >= BlockSize => KeyAt(NoKey, s, n) # NoKey
    BY <1>0, KeyNamesSalt
  <2>3. TypeOK'
    BY <1>0, <2>1, <2>2 DEF TypeOK, Stages, NoHit
  <2>4. SealedHitsMatch'
    BY <2>1 DEF SealedHitsMatch, NoHit
  <2>5. /\ \A q \in Reqs : stage'[q] # "running" => kv'[q] = <<>>
        /\ \A q \in Reqs : stage'[q] # "new" => salt'[q] \in Salts
    BY <1>0, <2>1 DEF SealInv, TypeOK
  <2>6. \A q \in Reqs : key'[q] # NoKey => key'[q][1] = salt'[q]
    BY <1>0, <2>1, <2>2 DEF SealInv, TypeOK
  <2>7. \A q \in Reqs : salt'[q] \in Seals =>
          \A i \in 1 .. Len(kv'[q]) : kv'[q][i] = salt'[q][2]
    BY <1>0, <2>1 DEF SealInv, TypeOK
  <2>8. QED
    BY <2>1, <2>3, <2>4, <2>5, <2>6, <2>7 DEF SealInv
<1>2. ASSUME NEW r \in Reqs, NEW b \in 0 .. MaxTokens, NEW m \in 1 .. MaxTokens,
             Schedule(r, b, m)
      PROVE  SealInv'
  <2>1. PICK t \in Prefixes(key[r], b) :
          /\ Compute(r, t, m)
          /\ hit' = [rows |-> t, salt |-> salt[r], lam |-> Effective(salt[r])]
    BY <1>2 DEF Schedule
  <2>2. b * BlockSize \in Nat /\ t \in [1 .. b * BlockSize -> Lambdas]
    BY DEF Prefixes
  <2>3. t \in Seq(Lambdas) /\ Len(t) = b * BlockSize
    BY <2>2, FunctionIsSequence
  <2>4. salt[r] \in Seals => \A j \in 1 .. b * BlockSize : t[j] = salt[r][2]
    BY <1>2, SealedReuse DEF Schedule
  <2>5. hit'.rows \in Seq(Lambdas)
    BY <2>1, <2>3
  <2>6. SealedHitsMatch'
    BY <2>1, <2>2, <2>4 DEF SealedHitsMatch, Effective
  <2>7. len[r] \in Nat /\ m <= len[r] - b * BlockSize
    BY <1>0, <1>2 DEF TypeOK, Schedule
  <2>8. Len(t) + m <= len[r]
    BY <2>2, <2>3, <2>7
  <2>9. /\ m \in Nat /\ stage[r] \in {"waiting", "running"}
        /\ UNCHANGED <<shared, drains, keyDial, dial, salt>>
        /\ stage' = [stage EXCEPT ![r] = "running"]
    BY <1>2 DEF Schedule
  <2>10. salt[r] \in Seals => \A i \in 1 .. Len(t) : t[i] = salt[r][2]
    BY <2>3, <2>4
  <2>11. QED
    BY <2>1, <2>3, <2>5, <2>6, <2>8, <2>9, <2>10, SealCompute, Zenon
<1>3. ASSUME NEW r \in Reqs, NEW m \in 1 .. MaxTokens, Continue(r, m)
      PROVE  SealInv'
  <2>1. kv[r] \in Seq(Lambdas) /\ len[r] \in Nat /\ Len(kv[r]) + m <= len[r]
    BY <1>0, <1>3 DEF TypeOK, Continue
  <2>2. hit' = NoHit /\ stage' = [stage EXCEPT ![r] = "running"]
    BY <1>0, <1>3 DEF Continue, TypeOK
  <2>3. hit'.rows \in Seq(Lambdas) /\ SealedHitsMatch'
    BY <2>2 DEF NoHit, SealedHitsMatch
  <2>4. salt[r] \in Seals => \A i \in 1 .. Len(kv[r]) : kv[r][i] = salt[r][2]
    BY DEF SealInv
  <2>5. /\ m \in Nat /\ stage[r] \in {"waiting", "running"}
        /\ UNCHANGED <<shared, drains, keyDial, dial, salt>> /\ Compute(r, kv[r], m)
    BY <1>3 DEF Continue
  <2>6. QED
    BY <2>1, <2>2, <2>3, <2>4, <2>5, SealCompute, Zenon
<1>4. ASSUME NEW r \in Reqs, Preempt(r) \/ Finish(r)
      PROVE  SealInv'
  <2>1. /\ \/ stage' = [stage EXCEPT ![r] = "waiting"]
           \/ stage' = [stage EXCEPT ![r] = "done"]
        /\ stage[r] \in {"waiting", "running"}
        /\ kv' = [kv EXCEPT ![r] = <<>>]
        /\ hit' = NoHit /\ UNCHANGED <<shared, drains, keyDial, dial, salt, len, key, cache>>
    BY <1>4 DEF Preempt, Finish
  <2>2. TypeOK'
    <3>1. <<>> \in Seq(Lambdas)
      OBVIOUS
    <3>2. kv' \in [Reqs -> Seq(Lambdas)]
      BY <1>0, <2>1, <3>1 DEF TypeOK
    <3>3. stage' \in [Reqs -> Stages]
      BY <1>0, <2>1 DEF TypeOK, Stages
    <3>4. ASSUME NEW q \in Reqs PROVE Len(kv'[q]) <= len[q]
      <4>1. kv'[q] = IF q = r THEN <<>> ELSE kv[q]
        BY <1>0, <2>1 DEF TypeOK
      <4>2. len[q] \in Nat /\ Len(kv[q]) <= len[q] /\ Len(<<>>) = 0
        BY <1>0 DEF TypeOK
      <4>3. QED
        BY <4>1, <4>2
    <3>5. hit'.rows \in Seq(Lambdas)
      BY <2>1 DEF NoHit
    <3>6. QED
      BY <1>0, <2>1, <3>2, <3>3, <3>4, <3>5 DEF TypeOK
  <2>3. SealedHitsMatch'
    BY <2>1 DEF SealedHitsMatch, NoHit
  <2>4. QED
    BY <1>0, <2>1, <2>2, <2>3 DEF SealInv, TypeOK
<1>5. ASSUME NEW l \in Lambdas, SetLambda(l)
      PROVE  SealInv'
  <2>1. TypeOK'
    BY <1>0, <1>5 DEF TypeOK, SetLambda, NoHit
  <2>2. SealedHitsMatch'
    BY <1>5 DEF SetLambda, SealedHitsMatch, NoHit
  <2>3. QED
    BY <1>5, <2>1, <2>2 DEF SealInv, SetLambda
<1>6. CASE UNCHANGED vars
  BY <1>6 DEF vars, SealInv, TypeOK, SealedHitsMatch
<1>7. QED
  BY <1>1, <1>2, <1>3, <1>4, <1>5, <1>6 DEF Next

\* A sealed request never reuses rows computed at anything but its seal: in
\* either executor, wherever and whenever the dial moves, for every block size.
THEOREM SealedIsolation == Spec => []SealedHitsMatch
<1>1. SealInv => SealedHitsMatch
  BY DEF SealInv
<1>2. QED
  BY <1>1, SealInit, SealNext, PTL DEF Spec

\* The state of the cache keeps its type.
THEOREM CacheTypeCorrect == Spec => []TypeOK
<1>1. SealInv => TypeOK
  BY DEF SealInv
<1>2. QED
  BY <1>1, SealInit, SealNext, PTL DEF Spec

-----------------------------------------------------------------------------
(***************************************************************************)
(* Every request, when the dial is shared and only moves while nothing is  *)
(* in flight: between two moves, the key in force is that of the lambda in *)
(* force, and every row computed or reused rounds to it.                   *)
(***************************************************************************)

KeysDiffer == \A l, m \in Lambdas : LambdaHashKey(l) = LambdaHashKey(m) => l = m

\* A row that the key of a request with salt s may name
Fits(l, s) ==
  IF s \in Seals THEN l = s[2] ELSE LambdaHashKey(l) = LambdaHashKey(dial)

\* Whatever is reused rounds to the key of the lambda of the step.
HitsShareTheKey ==
  shared /\ drains =>
    \A i \in DOMAIN hit.rows : LambdaHashKey(hit.rows[i]) = LambdaHashKey(hit.lam)

InFlight(r) == stage[r] \in {"waiting", "running"}

DrainInv ==
  /\ shared /\ drains
  /\ SealInv
  /\ keyDial = dial
  /\ \A r \in Reqs : InFlight(r) /\ key[r] # NoKey => key[r][2] = LambdaHashKey(dial)
  /\ \A r \in Reqs : InFlight(r) =>
       \A i \in 1 .. Len(kv[r]) : Fits(kv[r][i], salt[r])
  /\ KeysNameTheirRows
  /\ HitsShareTheKey /\ hit.lam \in Lambdas

LEMMA DrainInit == ASSUME shared, drains PROVE Init => DrainInv
<1> SUFFICES ASSUME Init PROVE DrainInv
  OBVIOUS
<1>1. /\ keyDial = LamInit /\ dial = LamInit /\ cache = {} /\ hit.rows = <<>>
      /\ hit.lam \in Lambdas
      /\ \A r \in Reqs : stage[r] = "new"
  BY CacheAssumption DEF Init, NoHit
<1>2. KeysNameTheirRows /\ HitsShareTheKey
  BY <1>1 DEF KeysNameTheirRows, HitsShareTheKey
<1>3. \A r \in Reqs : ~ InFlight(r)
  BY <1>1 DEF InFlight
<1>4. QED
  BY <1>1, <1>2, <1>3, SealInit DEF DrainInv

LEMMA DrainedReuse ==
  ASSUME DrainInv, NEW r \in Reqs, InFlight(r), NEW b \in Nat,
         b * BlockSize < len[r], NEW t \in Prefixes(key[r], b)
  PROVE  \A j \in 1 .. b * BlockSize : Fits(t[j], salt[r])
<1>1. CASE salt[r] \in Seals
  BY <1>1, SealedReuse DEF DrainInv, Fits
<1>2. CASE salt[r] \notin Seals
  <2> SUFFICES ASSUME NEW j \in 1 .. b * BlockSize
               PROVE  LambdaHashKey(t[j]) = LambdaHashKey(dial)
    BY <1>2 DEF Fits
  <2>1. b * BlockSize >= 1
    BY CacheAssumption
  <2>2. key[r] # NoKey /\ key[r][1] = salt[r] /\ key[r][2] = LambdaHashKey(dial)
    BY <2>1, KeyOfReuse DEF DrainInv
  <2>3. PICK e \in cache : \E o \in 1 .. BlockSize : e.hash[1] = key[r] /\ e.rows[o] = t[j]
    BY ReusedRowIsCached
  <2>4. PICK o \in 1 .. BlockSize : e.hash[1] = key[r] /\ e.rows[o] = t[j]
    BY <2>3
  <2>5. e.rows \in [1 .. BlockSize -> Lambdas]
    BY DEF DrainInv, SealInv, TypeOK
  <2>6. QED
    BY <1>2, <2>2, <2>4, <2>5 DEF DrainInv, KeysNameTheirRows
<1>3. QED
  BY <1>1, <1>2

LEMMA EffectiveFits ==
  ASSUME NEW s PROVE Fits(Effective(s), s)
BY DEF Fits, Effective

LEMMA DrainCompute ==
  ASSUME DrainInv, SealInv', NEW r \in Reqs, InFlight(r),
         NEW s \in Seq(Lambdas), NEW m \in Nat, Len(s) + m <= len[r],
         \A i \in 1 .. Len(s) : Fits(s[i], salt[r]),
         Compute(r, s, m), UNCHANGED <<shared, drains, keyDial, dial, salt>>,
         stage' = [stage EXCEPT ![r] = "running"],
         HitsShareTheKey', hit'.lam \in Lambdas
  PROVE  DrainInv'
<1>1. salt[r] \in Salts /\ TypeOK /\ keyDial = dial
  BY DEF DrainInv, SealInv, InFlight
<1>2. PICK t : /\ Extends(t, s, m, Effective(salt[r]))
               /\ kv' = [kv EXCEPT ![r] = t]
               /\ cache' = cache \cup FullBlocks(key[r], t)
               /\ \E n \in {len[r], len[r] + 1} :
                    /\ n <= MaxTokens
                    /\ len' = [len EXCEPT ![r] = n]
                    /\ key' = [key EXCEPT ![r] = KeyAt(key[r], salt[r], n)]
  BY <1>1, EffectiveType, ComputeEffect
<1>3. PICK n \in {len[r], len[r] + 1} :
        key' = [key EXCEPT ![r] = KeyAt(key[r], salt[r], n)]
  BY <1>2
<1>4. t \in Seq(Lambdas) /\ \A i \in 1 .. Len(t) : Fits(t[i], salt[r])
  BY <1>2, EffectiveFits DEF Extends
<1>5. \A q \in Reqs : InFlight(q)' /\ key'[q] # NoKey => key'[q][2] = LambdaHashKey(dial')
  <2>1. ASSUME NEW q \in Reqs, q # r, InFlight(q)', key'[q] # NoKey
        PROVE  key'[q][2] = LambdaHashKey(dial)
    BY <1>1, <1>3, <2>1 DEF DrainInv, InFlight, TypeOK
  <2>2. ASSUME key'[r] # NoKey PROVE key'[r][2] = LambdaHashKey(dial)
    <3>1. key'[r] = KeyAt(key[r], salt[r], n)
      BY <1>1, <1>3 DEF TypeOK
    <3>2. key[r] # NoKey => key[r][2] = LambdaHashKey(dial)
      BY DEF DrainInv
    <3>3. QED
      BY <1>1, <2>2, <3>1, <3>2 DEF KeyAt, FirstBlockKeys
  <2>3. QED
    BY <2>1, <2>2
<1>6. \A q \in Reqs : InFlight(q)' =>
        \A i \in 1 .. Len(kv'[q]) : Fits(kv[q][i], salt[q])'
  BY <1>1, <1>2, <1>4 DEF DrainInv, InFlight, Fits, TypeOK
<1>7. ASSUME NEW e \in FullBlocks(key[r], t), NEW o \in DOMAIN e.rows
      PROVE  LET k == e.hash[1] IN
             IF k[1] \in Seals THEN e.rows[o] = k[1][2]
                               ELSE LambdaHashKey(e.rows[o]) = k[2]
  <2>1. /\ e.hash[1] = key[r]
        /\ e.rows \in [1 .. BlockSize -> Lambdas]
        /\ \A p \in 1 .. BlockSize : \E j \in 1 .. Len(t) : e.rows[p] = t[j]
        /\ Len(t) >= BlockSize
    BY <1>4, FullBlockRows
  <2>2. Fits(e.rows[o], salt[r])
    BY <1>4, <2>1
  <2>3. len[r] >= BlockSize
    BY <1>1, <1>2, <2>1, CacheAssumption DEF Extends, TypeOK
  <2>4. key[r] # NoKey /\ key[r][1] = salt[r] /\ key[r][2] = LambdaHashKey(dial)
    BY <1>1, <2>3 DEF DrainInv, SealInv, TypeOK
  <2>5. QED
    BY <2>1, <2>2, <2>4 DEF Fits
<1>8. KeysNameTheirRows'
  BY <1>2, <1>7 DEF DrainInv, KeysNameTheirRows
<1>9. QED
  BY <1>1, <1>5, <1>6, <1>8 DEF DrainInv

LEMMA DrainNext == DrainInv /\ [Next]_vars => DrainInv'
<1> SUFFICES ASSUME DrainInv, [Next]_vars PROVE DrainInv'
  OBVIOUS
<1>0. SealInv /\ SealInv' /\ TypeOK
  BY SealNext DEF DrainInv, SealInv
<1>1. ASSUME NEW r \in Reqs, NEW s \in Salts, NEW n \in 1 .. MaxTokens, Arrive(r, s, n)
      PROVE  DrainInv'
  <2>1. /\ kv[r] = <<>> /\ Len(kv[r]) = 0
        /\ key' = [key EXCEPT ![r] = KeyAt(NoKey, s, n)]
        /\ salt' = [salt EXCEPT ![r] = s]
        /\ stage' = [stage EXCEPT ![r] = "waiting"]
        /\ hit' = NoHit /\ UNCHANGED <<shared, drains, keyDial, dial, kv, cache>>
    BY <1>0, <1>1 DEF Arrive, SealInv
  <2>2. KeyAt(NoKey, s, n) # NoKey => KeyAt(NoKey, s, n)[2] = LambdaHashKey(dial)
    BY DEF KeyAt, FirstBlockKeys, DrainInv
  <2>3. \A q \in Reqs : InFlight(q)' /\ key'[q] # NoKey => key'[q][2] = LambdaHashKey(dial')
    BY <1>0, <2>1, <2>2 DEF DrainInv, InFlight, TypeOK
  <2>4. \A q \in Reqs : InFlight(q)' =>
          \A i \in 1 .. Len(kv'[q]) : Fits(kv[q][i], salt[q])'
    BY <1>0, <2>1 DEF DrainInv, InFlight, TypeOK, Fits
  <2>5. KeysNameTheirRows' /\ HitsShareTheKey' /\ hit'.lam \in Lambdas
    BY <2>1, CacheAssumption DEF DrainInv, KeysNameTheirRows, HitsShareTheKey, NoHit
  <2>6. QED
    BY <1>0, <2>1, <2>3, <2>4, <2>5 DEF DrainInv
<1>2. ASSUME NEW r \in Reqs, NEW b \in 0 .. MaxTokens, NEW m \in 1 .. MaxTokens,
             Schedule(r, b, m)
      PROVE  DrainInv'
  <2>1. PICK t \in Prefixes(key[r], b) :
          /\ Compute(r, t, m)
          /\ hit' = [rows |-> t, salt |-> salt[r], lam |-> Effective(salt[r])]
    BY <1>2 DEF Schedule
  <2>2. b * BlockSize \in Nat /\ t \in [1 .. b * BlockSize -> Lambdas]
    BY CacheAssumption DEF Prefixes
  <2>3. t \in Seq(Lambdas) /\ Len(t) = b * BlockSize
    BY <2>2, FunctionIsSequence
  <2>4. InFlight(r) /\ b \in Nat /\ b * BlockSize < len[r]
    BY <1>2 DEF Schedule, InFlight
  <2>5. \A j \in 1 .. b * BlockSize : Fits(t[j], salt[r])
    BY <2>4, DrainedReuse
  <2>6. HitsShareTheKey' /\ hit'.lam \in Lambdas
    BY <1>0, <2>1, <2>2, <2>4, <2>5, EffectiveType
       DEF HitsShareTheKey, Fits, Effective, SealInv, InFlight
  <2>7. len[r] \in Nat /\ m <= len[r] - b * BlockSize
    BY <1>0, <1>2 DEF TypeOK, Schedule
  <2>8. Len(t) + m <= len[r] /\ m \in Nat
    BY <2>2, <2>3, <2>7
  <2>9. /\ UNCHANGED <<shared, drains, keyDial, dial, salt>>
        /\ stage' = [stage EXCEPT ![r] = "running"]
    BY <1>2 DEF Schedule
  <2>10. \A i \in 1 .. Len(t) : Fits(t[i], salt[r])
    BY <2>3, <2>5
  <2>11. QED
    BY <1>0, <2>1, <2>3, <2>4, <2>6, <2>8, <2>9, <2>10, DrainCompute, Zenon
<1>3. ASSUME NEW r \in Reqs, NEW m \in 1 .. MaxTokens, Continue(r, m)
      PROVE  DrainInv'
  <2>1. /\ kv[r] \in Seq(Lambdas) /\ len[r] \in Nat /\ Len(kv[r]) + m <= len[r]
        /\ m \in Nat
    BY <1>0, <1>3 DEF TypeOK, Continue
  <2>2. hit' = NoHit /\ stage' = [stage EXCEPT ![r] = "running"]
    BY <1>0, <1>3 DEF Continue, TypeOK
  <2>3. HitsShareTheKey' /\ hit'.lam \in Lambdas
    BY <2>2, CacheAssumption DEF NoHit, HitsShareTheKey
  <2>4. InFlight(r) /\ UNCHANGED <<shared, drains, keyDial, dial, salt>> /\ Compute(r, kv[r], m)
    BY <1>3 DEF Continue, InFlight
  <2>5. \A i \in 1 .. Len(kv[r]) : Fits(kv[r][i], salt[r])
    BY <2>4 DEF DrainInv
  <2>6. QED
    BY <1>0, <2>1, <2>2, <2>3, <2>4, <2>5, DrainCompute, Zenon
<1>4. ASSUME NEW r \in Reqs, Preempt(r) \/ Finish(r)
      PROVE  DrainInv'
  <2>1. /\ \/ stage' = [stage EXCEPT ![r] = "waiting"]
           \/ stage' = [stage EXCEPT ![r] = "done"]
        /\ InFlight(r)
        /\ kv' = [kv EXCEPT ![r] = <<>>] /\ Len(<<>>) = 0
        /\ hit' = NoHit /\ UNCHANGED <<shared, drains, keyDial, dial, salt, len, key, cache>>
    BY <1>4 DEF Preempt, Finish, InFlight
  <2>2. \A q \in Reqs : InFlight(q)' => InFlight(q)
    BY <1>0, <2>1 DEF InFlight, TypeOK
  <2>3. KeysNameTheirRows' /\ HitsShareTheKey' /\ hit'.lam \in Lambdas
    BY <2>1, CacheAssumption DEF DrainInv, KeysNameTheirRows, HitsShareTheKey, NoHit
  <2>4. ASSUME NEW q \in Reqs, InFlight(q)'
        PROVE  \A i \in 1 .. Len(kv'[q]) : Fits(kv[q][i], salt[q])'
    <3>1. kv'[q] = IF q = r THEN <<>> ELSE kv[q]
      BY <1>0, <2>1 DEF TypeOK
    <3>2. InFlight(q) /\ \A l : Fits(l, salt[q])' <=> Fits(l, salt[q])
      BY <2>1, <2>2, <2>4 DEF Fits
    <3>3. CASE q = r
      BY <3>1, <3>3, <2>1
    <3>4. CASE q # r
      BY <3>1, <3>2, <3>4 DEF DrainInv
    <3>5. QED
      BY <3>3, <3>4
  <2>5. \A q \in Reqs : InFlight(q)' /\ key'[q] # NoKey => key'[q][2] = LambdaHashKey(dial')
    BY <2>1, <2>2 DEF DrainInv
  <2>6. QED
    BY <1>0, <2>1, <2>3, <2>4, <2>5 DEF DrainInv
<1>5. ASSUME NEW l \in Lambdas, SetLambda(l)
      PROVE  DrainInv'
  <2>1. /\ \A q \in Reqs : ~ InFlight(q)
        /\ dial' = l /\ keyDial' = l /\ hit' = NoHit
        /\ UNCHANGED <<shared, drains, stage, salt, len, key, kv, cache>>
    BY <1>5 DEF SetLambda, InFlight, DrainInv
  <2>2. \A q \in Reqs : ~ InFlight(q)'
    BY <2>1 DEF InFlight
  <2>3. KeysNameTheirRows' /\ HitsShareTheKey' /\ hit'.lam \in Lambdas
    BY <2>1, CacheAssumption DEF DrainInv, KeysNameTheirRows, HitsShareTheKey, NoHit
  <2>4. QED
    BY <1>0, <2>1, <2>2, <2>3 DEF DrainInv
<1>6. CASE UNCHANGED vars
  BY <1>0, <1>6 DEF vars, DrainInv, InFlight, Fits, KeysNameTheirRows, HitsShareTheKey
<1>7. QED
  BY <1>1, <1>2, <1>3, <1>4, <1>5, <1>6 DEF Next

\* A deployment is what it was at the start.
LEMMA ModeFixed == [Next]_vars => UNCHANGED <<shared, drains>>
BY DEF Next, vars, Arrive, Schedule, Continue, Preempt, Finish, SetLambda

DrainHolds == shared /\ drains => DrainInv

LEMMA DrainSpec == Spec => []DrainHolds
<1>1. Init => DrainHolds
  BY DrainInit DEF DrainHolds
<1>2. DrainHolds /\ [Next]_vars => DrainHolds'
  BY ModeFixed, DrainNext DEF DrainHolds
<1>3. QED
  BY <1>1, <1>2, PTL DEF Spec

\* With the worker in the engine core's process, and the dial moved only while
\* nothing is in flight, the key of every cached block says what its rows are:
\* the seal they were computed at, or a dial that rounds to the lambda in the key.
THEOREM KeysTrue == Spec => []KeysNameTheirRows
<1>1. DrainHolds => KeysNameTheirRows
  BY DEF DrainHolds, DrainInv, KeysNameTheirRows
<1>2. QED
  BY <1>1, DrainSpec, PTL

\* In that deployment a request only reuses rows of lambdas that round to the
\* thousandth of its own: the two dials are half a thousandth apart at most.
THEOREM ReuseStaysInTheKey == Spec => []HitsShareTheKey
<1>1. DrainHolds => HitsShareTheKey
  BY DEF DrainHolds, DrainInv, HitsShareTheKey
<1>2. QED
  BY <1>1, DrainSpec, PTL

\* If moreover the dial's positions do not share a key, no prefix computed at one
\* lambda is ever reused at another.
THEOREM DrainedReuseIsSafe ==
  ASSUME KeysDiffer
  PROVE  Spec => []HitsMatchTheStep
<1>1. DrainHolds => HitsMatchTheStep
  <2> SUFFICES ASSUME DrainInv, NEW i \in DOMAIN hit.rows
               PROVE  hit.rows[i] = hit.lam
    BY DEF DrainHolds, HitsMatchTheStep
  <2>1. hit.rows[i] \in Lambdas /\ hit.lam \in Lambdas
    BY DEF DrainInv, SealInv, TypeOK
  <2>2. QED
    BY <2>1 DEF KeysDiffer, DrainInv, HitsShareTheKey
<1>2. QED
  BY <1>1, DrainSpec, PTL
=============================================================================

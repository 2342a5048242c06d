----------------------------- MODULE PrefixCache -----------------------------
(***************************************************************************)
(* The prefix cache of a model whose KV depends on lambda: under which key *)
(* a block is cached, and with which lambda its rows were computed.        *)
(*                                                                         *)
(* Two copies of the dial exist.  The engine core reads one, in            *)
(* lambda_hash_key, when it hashes the blocks of a request; the worker     *)
(* reads the other when it computes their KV.  With the uniproc executor   *)
(* both are the same module variable; with the mp executor only the        *)
(* worker's ever moves.                                                    *)
(*                                                                         *)
(* The chain of block hashes keeps different texts apart, so the model     *)
(* follows requests over one text: the hash of block i is the key of its   *)
(* chain's first block and i.  The scheduler is external; evictions show   *)
(* as hits shorter than the longest match.                                 *)
(***************************************************************************)
EXTENDS Integers, Sequences

CONSTANTS
  Reqs,        \* request ids, never reused
  Lambdas,     \* values of the dial and of seals, in ten-thousandths
  PlainSalts,  \* cache_salts that seal no lambda, "absent" among them
  BlockSize,   \* tokens in a hashed block
  MaxTokens,   \* bound: the longest request
  LamInit,     \* VLLM_REFUSAL_LAMBDA_INIT
  Modes,       \* bound: the deployments, as pairs of shared and drains
  NoSalt, NoKey

Seals == {"refusal"} \X Lambdas
Salts == Seals \cup PlainSalts

ASSUME CacheAssumption ==
  /\ Lambdas \subseteq Int /\ {0, LamInit} \subseteq Lambdas
  /\ BlockSize \in Nat \ {0} /\ MaxTokens \in Nat \ {0}
  /\ Modes \subseteq BOOLEAN \X BOOLEAN
  /\ PlainSalts \cap Seals = {} /\ NoSalt \notin Salts
  /\ NoKey \notin Salts \X Int

VARIABLES
  shared,   \* is the worker in the engine core's process (uniproc executor)?
  drains,   \* is traffic drained before the dial is moved?
  keyDial,  \* _lam_value in the engine core's process
  dial,     \* _lam_value in the worker's
  stage,    \* "new", "waiting", "running" or "done"
  salt,     \* the request's cache_salt
  len,      \* num_tokens
  key,      \* extra keys of the request's first block, NoKey until it is hashed
  kv,       \* lambda each computed token of the request was projected with
  cache,    \* cached blocks: their hash and the lambdas of their rows
  hit       \* history: the tokens reused by the last scheduling decision

vars == <<shared, drains, keyDial, dial, stage, salt, len, key, kv, cache, hit>>

Stages == {"new", "waiting", "running", "done"}

-----------------------------------------------------------------------------
\* lambda_hash_key: round(lambda * 1000), ties to even
LambdaHashKey(l) ==
  LET q == l \div 10
      tenths == l % 10
  IN IF tenths < 5 \/ (tenths = 5 /\ q % 2 = 0) THEN q ELSE q + 1

\* Mutant of FirstBlockKeys: the salt is left out of the key
FirstBlockKeysUnsalted(s) == <<NoSalt, LambdaHashKey(keyDial)>>

\* Mutant of FirstBlockKeys: the lambda is left out of the key
FirstBlockKeysUndialled(s) == <<s, 0>>

\* generate_block_hash_extra_keys at start_token_idx = 0; no other block has any
FirstBlockKeys(s) == <<s, LambdaHashKey(keyDial)>>

\* request_block_hasher on n tokens: the first block is hashed once, when it is
\* full; its keys reach every later block through parent_block_hash
KeyAt(k, s, n) == IF k = NoKey /\ n >= BlockSize THEN FirstBlockKeys(s) ELSE k

\* The hash of block i of a request
BlockHash(k, i) == <<k, i>>

\* The lambda a row of the request is projected with in this step
Effective(s) == IF s \in Seals THEN s[2] ELSE dial

\* Rows of block i among the computed tokens
BlockRows(t, i) == [j \in 1 .. BlockSize |-> t[BlockSize * (i - 1) + j]]

\* The blocks that become cached once the tokens t are computed
FullBlocks(k, t) ==
  {[hash |-> BlockHash(k, i), rows |-> BlockRows(t, i)] : i \in 1 .. Len(t) \div BlockSize}

\* The token sequences a prefix lookup may return for b blocks
Prefixes(k, b) ==
  {t \in [1 .. b * BlockSize -> Lambdas] :
     \A i \in 1 .. b : [hash |-> BlockHash(k, i), rows |-> BlockRows(t, i)] \in cache}

NoHit == [rows |-> <<>>, salt |-> NoSalt, lam |-> 0]

-----------------------------------------------------------------------------
Init ==
  /\ \E m \in Modes : shared = m[1] /\ drains = m[2]
  /\ keyDial = IF shared THEN LamInit ELSE 0
  /\ dial = LamInit
  /\ stage = [r \in Reqs |-> "new"]
  /\ salt = [r \in Reqs |-> NoSalt]
  /\ len = [r \in Reqs |-> 0]
  /\ key = [r \in Reqs |-> NoKey]
  /\ kv = [r \in Reqs |-> <<>>]
  /\ cache = {}
  /\ hit = NoHit

\* A request of n prompt tokens reaches the engine core, which hashes its full
\* blocks at once
Arrive(r, s, n) ==
  /\ stage[r] = "new"
  /\ stage' = [stage EXCEPT ![r] = "waiting"]
  /\ salt' = [salt EXCEPT ![r] = s]
  /\ len' = [len EXCEPT ![r] = n]
  /\ key' = [key EXCEPT ![r] = KeyAt(NoKey, s, n)]
  /\ hit' = NoHit
  /\ UNCHANGED <<shared, drains, keyDial, dial, kv, cache>>

\* One engine step for r: from the tokens it has, m more are computed; if none is
\* left a token is sampled, and the block it fills, if any, is hashed
Compute(r, have, m) ==
  LET t == have \o [i \in 1 .. m |-> Effective(salt[r])]
      n == IF Len(t) = len[r] THEN len[r] + 1 ELSE len[r]
  IN
  /\ n <= MaxTokens
  /\ kv' = [kv EXCEPT ![r] = t]
  /\ cache' = cache \cup FullBlocks(key[r], t)
  /\ len' = [len EXCEPT ![r] = n]
  /\ key' = [key EXCEPT ![r] = KeyAt(key[r], salt[r], n)]

\* A waiting request is admitted: b cached blocks are reused (never the whole
\* request: one token at least is computed), then m tokens are computed
Schedule(r, b, m) ==
  /\ stage[r] = "waiting"
  /\ b * BlockSize < len[r]
  /\ m <= len[r] - b * BlockSize
  /\ \E t \in Prefixes(key[r], b) :
       /\ Compute(r, t, m)
       /\ hit' = [rows |-> t, salt |-> salt[r], lam |-> Effective(salt[r])]
  /\ stage' = [stage EXCEPT ![r] = "running"]
  /\ UNCHANGED <<shared, drains, keyDial, dial, salt>>

\* A running request goes on: chunked prefill or decode
Continue(r, m) ==
  /\ stage[r] = "running"
  /\ m <= len[r] - Len(kv[r])
  /\ Compute(r, kv[r], m)
  /\ hit' = NoHit
  /\ UNCHANGED <<shared, drains, keyDial, dial, stage, salt>>

\* The scheduler takes the blocks of a running request back; its hashes stay
Preempt(r) ==
  /\ stage[r] = "running"
  /\ stage' = [stage EXCEPT ![r] = "waiting"]
  /\ kv' = [kv EXCEPT ![r] = <<>>]
  /\ hit' = NoHit
  /\ UNCHANGED <<shared, drains, keyDial, dial, salt, len, key, cache>>

\* The request stops or is aborted; its blocks stay cached
Finish(r) ==
  /\ stage[r] \in {"waiting", "running"}
  /\ stage' = [stage EXCEPT ![r] = "done"]
  /\ kv' = [kv EXCEPT ![r] = <<>>]
  /\ hit' = NoHit
  /\ UNCHANGED <<shared, drains, keyDial, dial, salt, len, key, cache>>

\* POST /admin/refusal_lambda reaches the worker
SetLambda(l) ==
  /\ drains => \A r \in Reqs : stage[r] \in {"new", "done"}
  /\ dial' = l
  /\ keyDial' = IF shared THEN l ELSE keyDial
  /\ hit' = NoHit
  /\ UNCHANGED <<shared, drains, stage, salt, len, key, kv, cache>>

Next ==
  \/ \E r \in Reqs :
       \/ \E s \in Salts, n \in 1 .. MaxTokens : Arrive(r, s, n)
       \/ \E b \in 0 .. MaxTokens, m \in 1 .. MaxTokens : Schedule(r, b, m)
       \/ \E m \in 1 .. MaxTokens : Continue(r, m)
       \/ Preempt(r)
       \/ Finish(r)
  \/ \E l \in Lambdas : SetLambda(l)

Spec == Init /\ [][Next]_vars

-----------------------------------------------------------------------------
\* Type invariant; no request has more computed tokens than tokens, and a request
\* with a full block has hashed it.
TypeOK ==
  /\ shared \in BOOLEAN /\ drains \in BOOLEAN
  /\ keyDial \in Lambdas /\ dial \in Lambdas
  /\ stage \in [Reqs -> Stages]
  /\ salt \in [Reqs -> Salts \cup {NoSalt}]
  /\ len \in [Reqs -> 0 .. MaxTokens]
  /\ key \in [Reqs -> (Salts \X Int) \cup {NoKey}]
  /\ kv \in [Reqs -> Seq(Lambdas)]
  /\ \A r \in Reqs : /\ Len(kv[r]) <= len[r]
                     /\ len[r] >= BlockSize => key[r] # NoKey
  /\ \A e \in cache : e.rows \in [1 .. BlockSize -> Lambdas]
  /\ hit.rows \in Seq(Lambdas)

\* A sealed request only ever reuses rows computed at its own seal, wherever the
\* dial was when they were hashed, when they were computed and when they are
\* reused, and whichever process holds the dial.
SealedHitsMatch ==
  hit.salt \in Seals => \A i \in DOMAIN hit.rows : hit.rows[i] = hit.lam

\* With one copy of the dial, moved only while nothing is in flight, a prefix
\* cached with one lambda is never reused with another (need_extra_keys,
\* lambda_hash_key: "estados corruptos, en silencio").
HitsMatchTheStep ==
  shared /\ drains => \A i \in DOMAIN hit.rows : hit.rows[i] = hit.lam

\* In that case the key of a block says what its rows are: those of a seal were
\* computed at the seal, the others at a dial that rounds to the lambda in the key.
KeysNameTheirRows ==
  shared /\ drains =>
    \A e \in cache : \A i \in DOMAIN e.rows :
      LET k == e.hash[1] IN
      IF k[1] \in Seals THEN e.rows[i] = k[1][2] ELSE LambdaHashKey(e.rows[i]) = k[2]

\* The comment of need_extra_keys, taken at its word: a move of the dial retires
\* the blocks of the old one, here for drained traffic under either executor.
DrainedHitsMatch ==
  drains => \A i \in DOMAIN hit.rows : hit.rows[i] = hit.lam
=============================================================================

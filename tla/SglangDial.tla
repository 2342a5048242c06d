----------------------------- MODULE SglangDial -----------------------------
(***************************************************************************)
(* The projection's state in SGLang's scheduler process: the dial, one     *)
(* per-token buffer filled before every forward, and the radix tree, whose *)
(* key has a request's extra_key (hence its seal) and not the dial.        *)
(*                                                                         *)
(* fill_batch, apply and set_lambda are this repository's; the scheduler   *)
(* and the radix tree are external.  A batch is a sequence of requests,    *)
(* its layout a monotone map from rows to positions in the batch; all      *)
(* requests are over one text, so the tree is one path per extra_key.      *)
(***************************************************************************)
EXTENDS Integers, Sequences, FiniteSets

CONSTANTS
  Reqs,        \* request ids
  Lambdas,     \* the values of the dial and of seals, in tenths
  OutOfRange,  \* values a seal may have outside LAMBDA_MIN .. LAMBDA_MAX
  LamInit,     \* SGLANG_REFUSAL_LAMBDA
  BufferRows,  \* TOKEN_BUFFER_ROWS
  MaxTokens,   \* bound: the longest request
  Shares,      \* rows a request may have in a decode or speculative verify step
  MaxPadding,  \* bound: rows a graph pads a batch with
  NoSeal

Seals == Lambdas \cup OutOfRange

ASSUME DialAssumption ==
  /\ IsFiniteSet(Reqs)
  /\ Lambdas \subseteq Int /\ OutOfRange \subseteq Int /\ Lambdas \cap OutOfRange = {}
  /\ LamInit \in Lambdas
  /\ BufferRows \in Nat \ {0} /\ MaxTokens \in Nat \ {0}
  /\ Shares \subseteq Nat \ {0} /\ MaxPadding \in Nat
  /\ NoSeal \notin Seals

VARIABLES
  value,     \* _State.value, and _State.lam
  tok,       \* _State.tok: the lambda of each row
  stage,     \* "new", "waiting", "running" or "done"
  extraKey,  \* Req.extra_key: its seal, or NoSeal
  len,       \* tokens of the request
  kv,        \* the lambda each of its computed tokens was projected with
  radix,     \* extra_key -> the lambdas of the cached path
  forward,   \* history: the rows of the last forward, owner and lambda
  hit,       \* history: the last prefix reused, its request and what it wants
  wide       \* history: has a forward been wider than the buffer?

vars == <<value, tok, stage, extraKey, len, kv, radix, forward, hit, wide>>

Buffer == 1 .. BufferRows
NoHit == [rows |-> <<>>, key |-> NoSeal, lam |-> 0]

\* The range of a function
Image(f) == {f[x] : x \in DOMAIN f}

-----------------------------------------------------------------------------
\* parse_request_lambda: a value out of range is ignored
ParseRequestLambda(k) == IF k \in Lambdas THEN k ELSE NoSeal

\* The lambda a request asks for: its seal's, or else the dial's
Wanted(r) == LET l == ParseRequestLambda(extraKey[r]) IN IF l = NoSeal THEN value ELSE l

\* Mutant of PositionOf: every request is taken to have one row
PositionOfOneEach(rows, bs, extend, i) == IF i <= bs THEN i ELSE bs

\* The request a row belongs to: extend_seq_lens says so, or the rows are shared
\* equally (decode, speculative verify)
PositionOf(rows, bs, extend, i) ==
  IF extend THEN rows[i] ELSE (i - 1) \div (Len(rows) \div bs) + 1

\* A layout fill_batch knows, within the buffer
Fits(rows, bs, extend) == Len(rows) <= BufferRows /\ (extend \/ Len(rows) % bs = 0)

\* Mutant of FillBatch: the first request's lambda stands for the batch's
FillBatchFirst(batch, rows, extend) == [i \in Buffer |-> Wanted(batch[1])]

\* fill_batch
FillBatch(batch, rows, extend) ==
  LET vals == [p \in DOMAIN batch |-> Wanted(batch[p])] IN
  IF Cardinality(Image(vals)) = 1 THEN [i \in Buffer |-> vals[1]]
  ELSE IF Fits(rows, Len(batch), extend)
  THEN [i \in Buffer |-> IF i <= Len(rows)
                         THEN vals[PositionOf(rows, Len(batch), extend, i)] ELSE value]
  ELSE [i \in Buffer |-> value]

\* apply: a row of the buffer, or the dial when the batch is wider than it
Apply(buf, width, i) == IF width <= BufferRows THEN buf[i] ELSE value

\* The lambdas of the rows of position p, in a forward over lams
RowsOf(rows, p, lams) ==
  LET before == Cardinality({i \in DOMAIN rows : rows[i] < p})
  IN [j \in 1 .. Cardinality({i \in DOMAIN rows : rows[i] = p}) |-> lams[before + j]]

\* insert of the radix tree: what is cached stays, what is new is appended
Insert(path, t) ==
  IF Len(t) > Len(path) THEN path \o SubSeq(t, Len(path) + 1, Len(t)) ELSE path

-----------------------------------------------------------------------------
Init ==
  /\ value = LamInit
  /\ tok = [i \in Buffer |-> LamInit]
  /\ stage = [r \in Reqs |-> "new"]
  /\ extraKey = [r \in Reqs |-> NoSeal]
  /\ len = [r \in Reqs |-> 0]
  /\ kv = [r \in Reqs |-> <<>>]
  /\ radix = [k \in Seals \cup {NoSeal} |-> <<>>]
  /\ forward = <<>>
  /\ hit = NoHit
  /\ wide = FALSE

Arrive(r, k, n) ==
  /\ stage[r] = "new"
  /\ stage' = [stage EXCEPT ![r] = "waiting"]
  /\ extraKey' = [extraKey EXCEPT ![r] = k]
  /\ len' = [len EXCEPT ![r] = n]
  /\ forward' = <<>> /\ hit' = NoHit
  /\ UNCHANGED <<value, tok, kv, radix, wide>>

\* A waiting request is admitted and reuses b tokens of its key's path, never all
\* of its own; its first forward comes later in the same scheduling round
Match(r, b) ==
  /\ stage[r] = "waiting"
  /\ b < len[r] /\ b <= Len(radix[extraKey[r]])
  /\ stage' = [stage EXCEPT ![r] = "running"]
  /\ kv' = [kv EXCEPT ![r] = SubSeq(radix[extraKey[r]], 1, b)]
  /\ hit' = [rows |-> SubSeq(radix[extraKey[r]], 1, b), key |-> extraKey[r],
             lam |-> Wanted(r)]
  /\ forward' = <<>>
  /\ UNCHANGED <<value, tok, extraKey, len, radix, wide>>

\* One forward over a batch: the buffer is filled, then every writer reads it.
\* kept[p] of the rows of position p stay in the cache (a verify step drops the
\* rejected ones).
Forward(batch, rows, extend, padding, kept) ==
  LET buf == FillBatch(batch, rows, extend)
      width == Len(rows) + padding
      lams == [i \in 1 .. width |-> Apply(buf, width, i)]
  IN
  /\ tok' = buf
  /\ forward' = [i \in 1 .. width |->
                   [owner |-> IF i <= Len(rows) THEN {batch[rows[i]]} ELSE {},
                    lam   |-> lams[i]]]
  /\ kv' = [r \in Reqs |->
              IF r \in Image(batch)
              THEN LET p == CHOOSE p \in DOMAIN batch : batch[p] = r
                   IN kv[r] \o SubSeq(RowsOf(rows, p, lams), 1, kept[p])
              ELSE kv[r]]
  /\ hit' = NoHit
  /\ wide' = (wide \/ width > BufferRows)
  /\ UNCHANGED <<value, extraKey, radix, stage>>

\* A prefill batch: each request contributes a chunk of its uncomputed tokens
Extend(batch, rows, padding) ==
  LET share == [p \in DOMAIN batch |-> Cardinality({i \in DOMAIN rows : rows[i] = p})] IN
  /\ \A p \in DOMAIN batch : /\ stage[batch[p]] = "running"
                             /\ share[p] <= len[batch[p]] - Len(kv[batch[p]])
  /\ Forward(batch, rows, TRUE, padding, share)
  /\ UNCHANGED len

\* A decode or verify batch: each request has k rows, of which kept[p] are accepted
Decode(batch, k, padding, kept) ==
  LET rows == [i \in 1 .. k * Len(batch) |-> (i - 1) \div k + 1] IN
  /\ \A p \in DOMAIN batch : /\ stage[batch[p]] = "running"
                             /\ Len(kv[batch[p]]) = len[batch[p]]
                             /\ len[batch[p]] + kept[p] <= MaxTokens
  /\ Forward(batch, rows, FALSE, padding, kept)
  /\ len' = [r \in Reqs |-> IF r \in Image(batch)
                            THEN len[r] + kept[CHOOSE p \in DOMAIN batch : batch[p] = r]
                            ELSE len[r]]

\* cache_unfinished_req, cache_finished_req: the request's rows enter the tree
Cache(r, next) ==
  /\ stage[r] = "running"
  /\ radix' = [radix EXCEPT ![extraKey[r]] = Insert(@, kv[r])]
  /\ stage' = [stage EXCEPT ![r] = next]
  /\ kv' = [kv EXCEPT ![r] = IF next = "done" THEN <<>>
                             ELSE SubSeq(radix'[extraKey[r]], 1, Len(kv[r]))]
  /\ forward' = <<>> /\ hit' = NoHit
  /\ UNCHANGED <<value, tok, extraKey, len, wide>>

\* The request is retracted under memory pressure
Retract(r) ==
  /\ stage[r] = "running"
  /\ stage' = [stage EXCEPT ![r] = "waiting"]
  /\ kv' = [kv EXCEPT ![r] = <<>>]
  /\ forward' = <<>> /\ hit' = NoHit
  /\ UNCHANGED <<value, tok, extraKey, len, radix, wide>>

\* The end of a cached path is evicted
Evict(k, n) ==
  /\ n < Len(radix[k])
  /\ radix' = [radix EXCEPT ![k] = SubSeq(@, 1, n)]
  /\ forward' = <<>> /\ hit' = NoHit
  /\ UNCHANGED <<value, tok, stage, extraKey, len, kv, wide>>

\* set_lambda, from set_internal_state: the dial and the whole buffer
SetLambda(l) ==
  /\ value' = l
  /\ tok' = [i \in Buffer |-> l]
  /\ forward' = <<>> /\ hit' = NoHit
  /\ UNCHANGED <<stage, extraKey, len, kv, radix, wide>>

\* Batches of distinct requests, and their layouts
Batches == {b \in UNION {[1 .. n -> Reqs] : n \in 1 .. Cardinality(Reqs)} :
              \A p, q \in DOMAIN b : p # q => b[p] # b[q]}
Layouts(bs, n) == {f \in [1 .. n -> 1 .. bs] :
                     /\ \A i, j \in 1 .. n : i <= j => f[i] <= f[j]
                     /\ Image(f) = 1 .. bs}

Next ==
  \/ \E r \in Reqs, k \in Seals \cup {NoSeal}, n \in 1 .. MaxTokens : Arrive(r, k, n)
  \/ \E r \in Reqs, b \in 0 .. MaxTokens : Match(r, b)
  \/ \E batch \in Batches, padding \in 0 .. MaxPadding :
       \/ \E n \in 1 .. Len(batch) * MaxTokens :
            \E rows \in Layouts(Len(batch), n) : Extend(batch, rows, padding)
       \/ \E k \in Shares : \E kept \in [DOMAIN batch -> 1 .. k] :
            Decode(batch, k, padding, kept)
  \/ \E r \in Reqs, next \in {"running", "done"} : Cache(r, next)
  \/ \E r \in Reqs : Retract(r)
  \/ \E k \in Seals \cup {NoSeal}, n \in 0 .. MaxTokens : Evict(k, n)
  \/ \E l \in Lambdas : SetLambda(l)

Spec == Init /\ [][Next]_vars

-----------------------------------------------------------------------------
\* Type invariant; no request has more computed tokens than tokens.
TypeOK ==
  /\ value \in Lambdas
  /\ tok \in [Buffer -> Lambdas]
  /\ stage \in [Reqs -> {"new", "waiting", "running", "done"}]
  /\ extraKey \in [Reqs -> Seals \cup {NoSeal}]
  /\ len \in [Reqs -> 0 .. MaxTokens]
  /\ kv \in [Reqs -> Seq(Lambdas)]
  /\ \A r \in Reqs : Len(kv[r]) <= len[r]
  /\ radix \in [Seals \cup {NoSeal} -> Seq(Lambdas)]
  /\ wide \in BOOLEAN

\* A row is projected with its own request's lambda or, when the batch does not fit
\* the buffer, with the dial: never with the lambda of another request
\* (fill_batch: "FAIL-SAFE").
NeverAnothersLambda ==
  \A i \in DOMAIN forward : \A r \in forward[i].owner : forward[i].lam \in {Wanted(r), value}

\* As long as every forward fits the buffer, a sealed request reuses only rows
\* projected at its seal: the seal is in the radix key, whatever the dial did.
SealedHitsMatch ==
  ~ wide /\ hit.key \in Lambdas => \A i \in DOMAIN hit.rows : hit.rows[i] = hit.lam
=============================================================================

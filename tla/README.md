# Verification of the rank-1 refusal projection

This directory is a TLA+ development of the program in this repository: a vLLM
(and SGLang) overlay that, on every writer of the residual stream, subtracts
`lambda * (r . x) * r` from the output, with `lambda` chosen per token. The
formula itself is one line; what can go wrong is *which lambda a row is
projected with*, *under which key its KV is cached*, and *whether all ranks and
all layers agree about it*. Those are questions of state and ordering, and they
are what the modules here model, check and prove.

## The system

| part | state it keeps | operations | talks to |
|---|---|---|---|
| projection library (`vllm/refusal_projection.py`) | the global dial `_lam_value` and its device tensors, one persistent buffer per role, the loaded directions, the set of consumed keys | `ensure_buffers`, `fill`, `fill_neutral`, `set_lambda`, `lambda_hash_key`, `resolve_direction`, `verify_all_consumed`, `RefusalProjection.forward` | read by every worker step, by the model's constructor, by the engine's block hasher |
| per-request lambdas (`v1/worker/gpu/refusal_utils.py`) | `lambdas[slot]` | `add_request`, `remove_request`, `fill_target`, `fill_draft_neutral` | called by the V2 model runner |
| V2 model runner (`v1/worker/gpu/model_runner.py`) | slots of the persistent batch, captured graphs | `execute_model`, `sample_tokens`, `_dummy_run`, `profile_run`, `capture_model`, `load_model` | the scheduler's `SchedulerOutput`; the library |
| V1 persistent batch (`v1/worker/gpu_input_batch.py`) | dense per-index arrays, request -> index | `add_request`, `remove_request`, `swap_states`, `condense` | the V1 runner (outside `src/`) |
| prefix cache keys (`v1/core/kv_cache_utils.py`) | block hashes of each request | `generate_block_hash_extra_keys`, `get_request_block_hasher` | the dial's copy in the engine's process |
| free block queue (`v1/core/kv_cache_utils.py`) | a doubly linked list through the blocks | `popleft`, `popleft_n`, `remove`, `append`, `append_n`, `prepend_n`, `get_all_free_blocks` | the block pool (outside `src/`) |
| admin router (`entrypoints/serve/refusal/api_router.py`) and worker RPC (`v1/worker/gpu_worker.py`) | the dial of each rank | `POST`/`GET /admin/refusal_lambda`, `collective_rpc` | every rank |
| model wiring (`models_qwen3_5.py`) | which layers hold which direction | claims in the decoder layer, `verify_all_consumed` | the library |
| SGLang overlay (`runtime/sglang-dspark`) | one tensor of per-token lambdas, counters | `fill_batch`, `apply`, `resolve`, `verify_all_consumed`; a source patcher | SGLang's scheduler and model |
| vLLM 0.27.1 overlay (`runtime/vllm-0.27.1`) | files of the installed package | a source patcher | - |
| tool-call parser (`vllm/parser_qwen3.py`) | streaming parser state | tool-call extraction | the chat endpoint |
| worker life cycle (`v1/worker/gpu_worker.py`) | device memory in two pools, saved buffers, the weight-update session | `init_device`, `load_model`, `initialize_from_config`, `sleep`, `wake_up`, `start`/`update`/`finish_weight_update`, `reload_weights` | the allocator, the executor |
| KV cache sizing (`v1/core/kv_cache_utils.py`, `determine_available_memory`, `initialize_kv_cache`) | groups of layers, a `KVCacheConfig` for each worker, block sizes | `get_kv_cache_groups`, `get_kv_cache_configs`, `resolve_kv_cache_block_sizes` | every worker at start-up |
| benches (`bench`) | results in memory and in files, the dial they found | seven sweeps that turn the dial of a live server and put it back | the admin route |
| offline tools (`tools`) | - | extraction of directions, smoke tests | - |

The worker process handles one message at a time (`execute_model`,
`sample_tokens`, `set_refusal_lambda`): the concurrency is *between* processes,
namely HTTP server, engine core and ranks, and *between a step and what happens
before the next one*.

Components that are not modelled yet, or not at all, are listed with the reason
in `PROJECT.json` and at the end of this file.

## What makes each part correct, and what makes it hard

- **Rank step.** A row is projected with its own request's lambda. Slots are
  reused, requests leave and come back under the same id, batches are sorted,
  graphs read more rows than a batch has and dummy runs write the same buffers.
- **Prefix cache.** KV depends on lambda, so a block may be reused only by a
  step that would have computed it with the same lambda. The key is made when a
  block is hashed and the KV when it is computed, in two processes perhaps.
- **V1 batch.** What belongs to a request moves with it. Each array has lines of
  its own in four methods.
- **Dial RPC.** The shards of one forward must not disagree about the dial, and
  a caller must not be told 200 when some rank disagrees.
- **SGLang.** The same row property with one buffer, layouts that are inferred
  from shapes, and a radix key that has the seal only.
- **Start-up.** Every direction of the file is claimed by the one writer it was
  extracted from, or the process does not start.
- **Worker.** After a sleep each tensor holds what the pool it was born in kept.
  What a forward may then find lost must be what the caller was told to write again,
  and the dial's tensor must not fall behind the dial that is answered.
- **Free blocks.** A block says that it is free by its links alone, and leaves from
  the middle of the list: one link not cleared corrupts the list many calls later.
- **KV sizing.** Admission is decided on each worker's own memory, and then all
  workers take the smallest number of blocks; layers of different groups share
  tensors, or a packed block, at computed places.
- **Benches.** They change what production is served while they measure. Rows must
  be filed at the lambda they were measured at, and the dial must come home through
  failures, Ctrl-C and repeated measures; a killed run is resumed.
- **Patchers.** Many files are rewritten, nothing is undone: what a stopped attempt
  leaves, a file cut short included, must not pass for a whole one.

## Modules

`MCx` instantiates `x` for TLC and `xProofs` holds the theorems about `x`.

| module | models | state in the code |
|---|---|---|
| `RefusalService` | what a client is promised: each request of a step is served at its seal or at the dial in force | (abstract) |
| `RefusalStep` | one rank of the V2 runner, from `__init__` to `execute_model` and dummy runs | `lam` = `_lam_value`; `buf` = `_buf`; `tok` = each module's `_tok`; `index` = `req_id_to_index`; `lambdas` = `RefusalState.lambdas` |
| `PrefixCache` | block hashing and reuse against a moving dial | `keyDial`, `dial` = `_lam_value` in the engine core's process and in the worker's; `key` = the extra keys of a request's first block; `cache` = the cached blocks, each with the lambdas of its rows |
| `InputBatch` | `add_request`, `remove_request`, `condense`, `swap_states`, `refresh_metadata` | the list, the map and one array of each kind; `mirror` is what a logits processor knows |
| `DialRpc` | the two routes, `collective_rpc`, the ranks' queues | `dial[r]` = `_lam_value` of rank `r`; `queue[r]` its message queue |
| `SglangDial` | `fill_batch`, `apply`, `set_lambda`, the radix cache by extra key | `value`, `tok` = `_State.value`, `.tok`; `radix[k]` the cached path of an extra key |
| `FreeBlocks` | what the block pool is promised: a sequence of free blocks | (abstract) |
| `FreeBlockQueue` | the methods of `FreeKVCacheBlockQueue` | `next`, `prev` = `next_free_block`, `prev_free_block` of every block and of the two fake ends; `num` = `num_free_blocks` |
| `Worker` | one worker from `init_device` to shutdown, on either runner, with memory pools or without | `mem[t]`, `pool[t]`: what tensor `t` holds and where it was allocated; `saved` = `_sleep_saved_buffers`; `active` = `_weight_update_active`; "r_hat" is the main model's directions, "draft" the drafter's model with its own |
| `KvGroups` | the pure algorithms that group layers: page sizes, types, tuples, windows | (no state) |
| `KvSizing` | a start-up from `determine_available_memory` to `initialize_kv_cache` on every worker | `avail`, `groups`, `configs` = the local variables of `get_kv_cache_configs`; `maxLen` = `max_model_len`; `sizes` = what `resolve_kv_cache_block_sizes` returns |
| `Sweep` | the seven benches, each a record of `Rules`; the steps of a sweep are shared | `dial` what a GET answers; `found` = `original`, `initial_lambda`; `memory`, `disk` the rows in main's list and in its files |
| `SourcePatch` | both patch scripts, one anchor after the other | `count` occurrences of each anchor, `done` how often its replacement is there, `torn` the files a stopped write has cut short, `payload` whether `refusal_projection.py` is there and whole |
| `Claims` | the construction of the layers in the base build and in the port to 0.27.1, `resolve_direction`, `resolve_mtp_direction`, `verify_all_consumed` | `consumed` = `_consumed`; `proj` = `refusal_attn`, `refusal_mlp` of each layer |

`RefusalStep` is shown to implement `RefusalService`
(`Service == INSTANCE RefusalService WITH dial <- lam, served <- Served`). The
other modules are independent views of the dial: `PrefixCache` and `SglangDial`
take from `RefusalStep` only that a row is projected with its request's
effective lambda, which is what `RowsServeTheirOwner` says.

`FreeBlockQueue` implements `FreeBlocks` (`Promise == INSTANCE FreeBlocks WITH
queue <- order`): the links read as a list are the sequence, call by call.

Variables marked *history* in a module record what happened (the rows of the last
forward, the last prefix reused) and guide no action.

Abstractions that matter:

- A lambda is a model value, except in `PrefixCache` and `SglangDial` where it is
  an integer (ten-thousandths and tenths), because `lambda_hash_key` rounds and
  `parse_request_lambda` compares with bounds. A salt is the lambda it seals, or
  one of `PlainSalts` (absent, foreign, garbled).
- Prefix caches are about one text: the chain of hashes, or the tree, keeps
  different texts apart. What can be confused is the lambda.
- The schedulers, the block pool, the radix tree, the executor's queues and the
  V1 runner's order of calls are not in this repository. They are modelled as
  what may legally call this code: any batch, any layout, any eviction.
- A worker handles one message at a time, so a handler is one action.

## Runs

| run | question | bounds |
|---|---|---|
| `rank_rows` | Does every row of every forward read its owner's lambda, do the slots mirror the scheduler, do unowned and drafter rows read the dial, and does the rank implement the service? | 3 requests on 2 slots (contention, reuse), 3 rows (a batch of two can be padded and its runs uneven), 2 lambdas and a salt without one |
| `cache` | With one dial and drained POSTs, is every reuse of the lambda of the step, and does each key name its rows? Do seals isolate whatever the dial does and whoever holds it? | 3 requests, blocks of 2, 4 tokens (two blocks: a chain), 2 lambdas with different keys; where the dial moves at any moment, any 2 of the requests (`PairsInTheWorst`) |
| `cache_mp` (violation) | Does the key name the rows with the mp executor, where the engine core's dial never moves? | 2 requests, drained |
| `batch_rows` | Does everything of a request follow it, is nothing left, do logits processors follow? | 4 requests on 4 rows (two holes below two survivors), one adapter shared by two, two seeded, one masked |
| `rpc_agree` | Do shards agree, are answers true, is every call answered, when setting may fail on any rank? | 2 ranks, 2 overlapping callers, 2 steps in flight |
| `sglang_rows` | Is a row ever given another request's lambda; do seals isolate? | 2 requests, 2 tokens, a buffer of 4 rows with batches up to 6 and one row of padding, one seal out of range |
| `claims` | Half-ablated models, wrong layers, the drafter, the roles, whatever the backbone is called | 12 layers (indices of one and two digits), 7 files (complete, sparse, too long, single keys), both builds, the 2 documented prefix schemes and 4 a release may bring (another first level; one called `draft`, `dspark` or `mtp`), 3 modes, 3 pipeline tranches |
| `free_queue` | Are the links one list in both directions, are held blocks unlinked, is the list the promised sequence? | 4 blocks (a middle one with two neighbours, and the two ends), all orders of calls |
| `worker` | What do forwards find after sleeps, wake-ups and updates? Does the dial's tensor follow the dial? | 3 lambdas, both runners, with and without a drafter and pools; no other bound |
| `kv_sizing` | Does each layer have its room, does the admitted request fit, is the fitted length the longest, can one scheduler plan for all? | 2 workers as ranks or stages, 23 models of up to 9 layers (the served one's 3 to 1 among them) as they are, fitted, and with the blocks given; 5 budgets |
| `sweep` | At which lambda are rows filed, is anything recorded twice, what does a kill outside a dump cost, does the dial come home, does a run end? | 7 benches, 2 lambdas, 2 prompts, 2 repetitions, 3 runs, 2 failures of any kind |
| `patch` | Is an image ever half patched? What does exit code 0 mean? | 17 and 18 anchors, 2 runs over one tree (`MaxRuns`), 1 anchor moved (`MaxMoved`), 1 write stopped in its middle (`MaxCuts`), not in the last run: one attempt that leaves its tree and one that finds it |

Why the bounds are enough to mean something: each hazard needs at most two
requests that differ in their lambda and a third party (a reuse, a POST, a
retraction) and every run has them; the mutants, one for each property, are
variants of the code with a plausible defect, and each is caught within these
bounds. Where there are theorems (below) they remove the bounds. `Sweep` needs two
failures: one that makes a run raise and one that its restore meets.
Three constant facts are checked as assumptions of `MC` modules: that
`balanced_orders` is a balanced design for 2 to 7 arms (`OrdersAreBalanced`), that the
groups of a type share the layers of each stage evenly (`EvenOnEveryShape`), and that no
stage of the starts explored splits the tuples of layers (`TuplesOnEveryShape`).

A type invariant is checked on its own in `rank_rows`, and is a conjunct of the first
property in `batch_rows`, `kv_sizing`, `sweep` and `patch`; that of every other module
is a theorem.

Symmetry among requests is used where no temporal formula with fairness is checked
and no request has properties of its own (`rank_rows`, the cache and the SGLang
runs; `InputBatch` gives each request its own adapter, mask or seed and uses
none). `sglang_rows` explores once the states that differ only in the old
contents of the buffer: every forward fills it before reading it.

Deadlock is checked where a system does not stop. `Claims` ends in `Settled`,
`KvSizing` in `Started` and `Worker` in `Gone`; a bench or a patch script may
really end, so `sweep` and `patch` do not check it.

### Fairness

Two runs state a liveness property. `CallsAreAnswered` (`DialRpc`) assumes weak
fairness of the engine core's handling of its inbox (`Dispatch`, `Reply`) and of
each rank's busy loop (`Handle`). The engine core empties its input queue
before it schedules, and a worker's loop takes the next message
whenever it is not handling one. Nothing is assumed of callers, and steps are
not required to be broadcast. That a rank answers in finite time is assumed: the
RPC in this code has no timeout. `ComesToAnEnd` (`Sweep`) assumes weak fairness of
the bench's own steps together (`Step`): it is one sequential process, and each of its
requests has a timeout, hence answers or fails; failures, kills, restarts and the
operator owe nothing.

## Theorems

| theorem | says | inductive invariant |
|---|---|---|
| `TypeCorrect`, `RowsCorrect`, `UnownedRowsCorrect`, `SlotsCorrect` (`RefusalStepProofs`) | the invariants of `rank_rows`, for any number of requests, slots and rows | `IInv` |
| `Refinement` | `Spec => ImplementsService` | `IInv`, step by step |
| `SealedIsolation`, `CacheTypeCorrect` (`PrefixCacheProofs`) | sealed reuse is safe in either executor, for any block size and any movement of the dial | `SealInv` |
| `KeysTrue`, `ReuseStaysInTheKey` | in the modes `shared` and `drains`, each key names the lambda of its rows, and a reuse is of a lambda with the step's key, whatever lambdas there are | `DrainInv` |
| `DrainedReuseIsSafe` | in those modes and assuming `KeysDiffer`, every reuse is of the step's own lambda | `DrainInv` |
| `LinksAlwaysTheOrder`, `HeldAlwaysUnlinked`, `TypesHold` (`FreeBlockQueueProofs`) | the invariants of `free_queue`, for any number of blocks | `Inv` |
| `ListIsTheQueue` | `Spec => ImplementsFreeBlocks` | `Inv`, call by call |
| `NothingReadIsLost`, `TensorFollowsTheDial`, `NoBufferIsForgotten`, `WorkerTypes` (`StartupProofs`) | the invariants of `worker`, for any set of lambdas | `WorkerInv` |
| `Dense`, `RowsFollow`, `NothingInherited`, `Followed` (`InputBatchProofs`) | the invariants of `batch_rows`, for any number of rows and requests | `IInv` |
| `OneLambdaPerForward`, `AnswersHold`, `TypeCorrect` (`DialProofs`) | the invariants of `rpc_agree`, for any number of ranks, callers and steps | `RpcInv` |
| `OwnLambdaOrDial`, `SealedIsolation`, `TypeCorrect` (`SglangDialProofs`) | the invariants of `sglang_rows`, for any requests, buffer, batches and dial | `IInv` |
| `FullyAblated`, `OwnDirections`, `RightOrRefused`, `ClaimsTypes` (`StartupProofs`) | the invariants of `claims`, for any file, any prefixes of the backbone and up to 100 layers | `ClaimsInv` |
| `ImageWhole`, `ZeroApplied` (`StartupProofs`) | the invariants of `patch`, for any base tree, any number of attempts and any stops, in the middle of writes too | `PatchInv` |
| `TrueRows`, `NothingTwiceNothingLost`, `DialAtHomeAtTheEnd`, `ProductionBetweenWindows`, `OneWindowAtRisk` (`DialProofs`) | the invariants and the action property of `sweep`, for any bench, lambdas, prompts, repetitions, runs and failures | `SweepInv` |
| `OneScheduler`, `WholeBlocks`, `FittedIsLargest`, `RoomForEveryLayer` (`KvSizingProofs`) | the invariants of `kv_sizing`, for any number of workers, layers, stages, memories and lengths | `SizingInv` |
| `AdmittedFits` | the admitted request fits on every worker, wherever the stages keep whole tuples of layers (`KeepsTuples`) | `SizingInv`, `GroupsMade` |

`IInv` strengthens the four invariants with `BuffersBound`: from `load_model` on,
both buffers exist and every module holds its own. Without it a step cannot be
shown to write where the modules read. A step is then decomposed as the code
is: `RemoveKeepsMirror` and `AddKeepsMirror` say that slots stay a mirror of
requests through removals and additions, `OutputKeepsMirror` composes them over
one scheduler output, `TargetRowsAreOwners` follows a row through `idx_mapping`,
and `ForwardRows` says what the forward reads.

`SealInv` adds to `SealedHitsMatch` that a request's key names its salt, that
the rows of a sealed request and of a block with a sealed key are at the seal,
and that a request out of the running set has no rows. `DrainInv` adds that the
two dials are one, that the key and the rows of every request in flight name it,
and that each key names its rows. `KeysDiffer` cannot be dropped:
`lambda_hash_key` rounds to thousandths, so two dials closer than that share
keys. The assumptions on the constants are those of the `ASSUME` of each module;
TLC evaluates them in the runs.

`Inv` of the queue says that `order` has no repetition, that held blocks are the others,
and that the links are the order's. Every call that changes links splices a list between
two neighbours, so one lemma (`RelinkSplices`) carries all of them: what the links are
after a splice, for any list taken out and put in. `WalkFollowsOrder` says that what a
walk reads is a prefix of the order.

The worker's `WorkerInv` adds to its properties which pool each tensor was born in, that
whatever is lost is of a pool and has not been written since a sleep of level 2 (`deep`),
and that the main model's directions are lost only while their copies are held. What is
left for a forward to find lost is the parameters, the drafter, and the dial's tensor
where there are no rows.

The batch's `IInv` says where the holes are (`HolesAreKnown`) and that the batch update,
applied to what a processor has, gives the list at every moment of an update
(`UpdateIsTrue`), not only when the step runs: that is what each method preserves.
`condense` is an argument of counting: `Counting` makes `num_reqs` the length of the
list less its holes, so there are as many holes below it as requests at or above it,
and `SourceIs` pairs them by rank (`UpRank`, `DownRank`). `FromIs` then reads the whole
method as one renaming of indices, under which every array is compared.

The calls' `RpcInv` is about what a rank has yet to handle: the last steps broadcast, in
their order, and behind them the call the engine core waits on (`QueueOK`). A rank
therefore moves its dial only when it has run every step before the call, and a step
that some rank has yet to run meets the dial the others ran it with (`InFlightOK`).

In SGLang the rows of a position are one segment of the batch, in the buffer as in the
cache (`InitialSegment` and the lemmas on layouts); `SealsAreKept` says that what is
held or cached under a seal was projected at it.

A claim is consumed only by the writer it is the direction of (`ConsumedOK`,
`PlacedOK`); so where the file is consumed the file is projected. Nothing is assumed of
the backbone's prefixes; of the drafter's, that it hangs from `mtp.` (`DraftStemsAssumption`).
A level called `draft` or `mtp` makes the backbone's layers take the drafter's direction
and buffer as they are built; that such a model never serves is what the check gives:
layers taken for a drafter's claim no key, and the keys left over refuse the start
(`RightOrRefused`). The condition `ReadAlike` cannot be dropped: the base build has two
tests of a prefix, and where the prefix does not begin with `model.` they differ (below).

The benches' `SweepInv` says where a prompt of the open visit is: it is to be measured, in
flight, measured or filed, and never in two of these (`WindowOK`, `CoveredOK`); that what a
closed window measured is filed (`PastOK`); which rows are in no file yet (`DiskOK`);
and that the dial is at the visit's lambda while a window is open (`AtLamOK`), by the
bench's own POST and not by assumption. The rules of the seven benches enter only where
they differ.

`PatchInv` relates a run to all that were stopped before it over the same tree. An anchor
that goes with its replacement can be written once (`WrittenOK`): what a run finds beyond
the first of them was never reached by another (`BeyondOK`), so a run that comes to its end
has met there the base's own anchors, in files nobody has cut. What a stopped write left
may hold any part of the anchors and replacements of its file, which is all that is needed.

`SizingInv` has one part for each phase of a start-up, which holds from then on
(`SizesTyped`, `MemoryPlanned`, `MemoryChecked`, `ConfigsBuilt`, `SizesResolved`,
`TablesMade`); the steps keep it by substitution, and the weight is in what the pure
operators compute. The library's sums, maxima, folds and sorted sets are characterised once
(a sum over a finite set is given by its value at none and by adding one element; a sorted
set is a list without repetition), by induction on the size of a set: `NatAll` and `PickInduction`
state induction for a set of numbers, so that no fact takes an operator as a parameter. From there:
`GroupsOK` is what grouping promises on every path (layers in one group each, of specs
that plan alike, of one page size or of a uniform type); `IsShare` carries it to a worker's
part; `FitsInBlocks` and `FitsInPackedBlocks` turn the bytes that are checked into the
blocks that are taken; `LongestIs` is the binary search; and `LayoutIsRoomy` says of the
three layouts what a layer is owed. The packed one needs the order of its places only to be
an order: offsets are partial sums along it (`PrefixSums`), so that two pages never overlap.

`AdmittedFits` says `KeepsTuples(scenario) => AdmittedRequestFits`, and the condition cannot
be dropped: the bytes of a tuple are taken from the stage's own full layers
(`kv_cache_utils.py:1847`), which are too few where a stage has window layers of a page size
and none of the full layers that have it. A model whose groups are not tuples meets it
always, and so does a start without pipeline stages.

Every safety property that a passing run checks is proved. Only
model-checked are the liveness properties (`CallsAreAnswered`, `ComesToAnEnd`), `KvGroups`'
choices of a best size (that `ApproximateGcd` is the cheapest, which no property needs) and
the constant facts above. The models themselves are proved about, not the Python: that
each definition says what its lines do is what the map in `PROJECT.json` is for.

## Where the code and what it says of itself differ

One is shown by a run and recorded under `findings`: with the mp executor the key does
not follow the dial at all (`cache_mp`). The others were met while modelling, are in the
modules as the code has them, and have no run of their own:

- `models_qwen3_5.py:220` takes every prefix that does not start with `model.` for the
  drafter's, while `_ckpt_key` looks for `mtp` and takes the index. Under a backbone prefix
  such as `language_model.model.layers.N` every key is claimed, the check passes and the
  backbone reads the drafter's buffer, though `_ckpt_key` calls itself immune to any number
  of levels above (`refusal_projection.py:449`). Layers that have no direction in the file
  take the drafter's there too, in the modes `mean` and `last`. The port to 0.27.1 has one
  rule for both and is not affected. What is checked and proved of the base build is for
  prefixes that begin with `model` (`ReadAlike`).
- A kill while v2 dumps its results loses the chunks dumped before, and not the last one
  alone, though its docstring (`bench_overrefusal_v2.py:71`) and line 742 promise that:
  `volcar` (line 723) truncates the one file it rewrites. `compare_full` writes its results
  in the same way and promises nothing about it. `KillCostsAWindow` is about every other kill.
- Without draining, a POST with requests in flight files rows of one lambda under the
  key of another: `HitsMatchTheStep` needs the mode `drains`.
- SGLang's radix key has no dial, so unsealed prefixes survive a POST, drained or not.
- `condense` does not move `request_refusal_lambda`; this is latent, nothing in this
  repository reads the array.
- `VLLM_REFUSAL_MTP_MODE=last` takes the last key in string order, layer 9's before layer
  63's.
- `swap_states` exchanges two rows of `allowed_token_ids_mask_cpu_tensor` by tuple
  assignment of views (`gpu_input_batch.py:687`), which duplicates one; the comment at
  line 614 of the same method warns against that form.
- `condense` copies a row of that mask down and does not clear the source
  (`gpu_input_batch.py:811`); the next request added there without
  `allowed_token_ids` finds it set.
- `sleep(2)` saves the named buffers of `model_runner.model` (`gpu_worker.py:219`). The
  drafter's directions are buffers of another model (`speculator.model`, loaded at
  `model_runner.py:303`): with `VLLM_REFUSAL_MTP_MODE` on, nothing brings them back after a
  wake-up, as nothing brings back the drafter's parameters, and it proposes tokens from
  whatever it finds. Verification rejects them; what is lost is the acceptance.
- `patch_vllm_0271.py` run by hand neither copies nor checks its payload, which only the
  Dockerfile's `COPY` lines put there: it exits with 0 over a tree that cannot be imported.
- `patch_sglang_qwen38_27b.py` calls itself fail-closed. In an image build it is. Run by
  hand over a tree where an earlier write of `qwen3_5.py` was cut short behind its four first
  anchors, which their replacements repeat, it replaces them a second time and may find
  what follows as well, and exits with 0 over a file without its end. That is the
  exception `ZeroMeansApplied` names (`Redone`).
- `bench/comprehensive/README.md:7` says that every runner restores the dial in a
  `finally`; `bench_niah.py` has none and leaves the dial at its last lambda, even when
  nothing fails. The properties on the dial's way home are about the five with a `finally`.
- SGLang's `apply` says padding rows read the global dial; when all requests of a
  batch want one lambda `fill_batch` fills the whole buffer with it. Such rows
  are discarded. By the same path a batch wider than the buffer whose requests
  all carry one seal is projected with the dial without the warning that
  other batches get.

## Plan

What would come next, in this order.

1. The start-up of the SGLang overlay (`resolve`, `verify_all_consumed` under tensor
   parallelism) as a second instance of what `Claims` says of vLLM.
2. The chunked rows of a request that is preempted and resumed under another dial, as a
   composition of `PrefixCache` and `RefusalStep` rather than two views.
3. The block pool, if it ever joins the repository: `PrefixCache` and
   `FreeBlockQueue` would then meet in one module.

## Not modelled, and why

The arithmetic of the projection (fp32 products, bf16 casts) and the tools that
extract directions are numerical; the benches' prompts, scoring, statistics and
reports, the deployment files, recipes and results are I/O and data. Sampling, speculative
verification, async scheduling and pipeline relays in `model_runner.py` do not
touch the lambdas and appear only as the batches they produce. Multimodal,
LoRA and prompt-embedding keys join the extra keys of a block independently of
the lambda. `parser_qwen3.py` is a table of tags that an engine outside `src/`
interprets, and conversions of text. Of the KV sizing, the EAGLE annotation of groups,
context parallelism and the rows of encoder-decoder models are left out. Of the
benches, Ctrl-C during a restore, a second Ctrl-C while a pool drains (which would leave
requests in flight behind a dial that has gone home), two sweeps at once, the endless wait
for an idle queue that `bench_strongreject_refusal.py` and `bench_quality_multilambda.py`
offer as an option (`wait_for_queue`), v2's rule on the measured pace, and a resumed
`compare_full`'s reuse of files of contaminated attempts are left out. Of the patchers,
where in a file its anchors are is not known, so that a write cut short may leave any of
them, and the gates of the Dockerfiles, which read the tree, are part of a build's success.
Of the worker, the KV cache: a forward reads the rows it or an earlier forward of the same
request wrote, and no request and no cached block outlives a sleep.

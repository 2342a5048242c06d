----------------------------- MODULE InputBatch -----------------------------
(***************************************************************************)
(* The persistent batch of the V1 runner: dense arrays indexed by batch    *)
(* position, from which requests are removed, into which they are added,   *)
(* and which are condensed and reordered before each step.  Whatever a     *)
(* request owns must move with it, array by array; each array has its own  *)
(* lines in add_request, remove_request, condense and swap_states.         *)
(*                                                                         *)
(* The order of the calls is the V1 runner's (outside this repository):    *)
(* removals, additions, condense, reordering swaps, refresh_metadata.      *)
(***************************************************************************)
EXTENDS Integers, FiniteSets, Sequences

CONSTANTS
  Reqs,        \* request ids
  MaxNumReqs,  \* rows of every array
  LoraIds,     \* adapters; 0 is "no LoRA"
  LoraOf,      \* request -> its adapter, or 0
  Seeded,      \* the requests with a generator of their own
  Masked,      \* the requests with allowed_token_ids
  LambdaOf,    \* request -> its refusal_lambda, NaN when it has none
  NaN,
  Reorders,    \* does the attention backend reorder the batch (swap_states)?
  Nobody

ASSUME BatchAssumption ==
  /\ MaxNumReqs \in Nat \ {0}
  /\ 0 \notin LoraIds
  /\ LoraOf \in [Reqs -> LoraIds \cup {0}]
  /\ Seeded \subseteq Reqs /\ Masked \subseteq Reqs
  /\ DOMAIN LambdaOf = Reqs
  /\ Reorders \in BOOLEAN
  /\ Nobody \notin Reqs /\ Nobody \notin 0 .. MaxNumReqs - 1

VARIABLES
  phase,      \* which call of the step comes next
  ids,        \* _req_ids: the list, Nobody where a request was removed
  index,      \* req_id_to_index, -1 for the requests not in the batch
  row,        \* index -> whose tokens, block table and sampling scalars it holds
  lora,       \* request_lora_mapping
  loraReqs,   \* lora_id_to_request_ids
  refusal,    \* request_refusal_lambda
  generator,  \* generators (and bad_words_token_ids): a dict keyed by index
  mask,       \* allowed_token_ids_mask_cpu_tensor: whose mask each row is
  removed,    \* batch_update_builder.removed
  added,      \* batch_update_builder.added, by index
  moved,      \* batch_update_builder.moved: where the entry at i comes from
  mirror      \* index -> request, as a logits processor tracks it

batch == <<ids, index, row, lora, loraReqs, refusal, generator, mask>>
vars == <<phase, batch, removed, added, moved, mirror>>

Slots == 0 .. MaxNumReqs - 1
Resident == {r \in Reqs : index[r] # -1}
NumReqs == Cardinality(Resident)

\* Overriding part of a function by another
Over(f, g) == [i \in DOMAIN f |-> IF i \in DOMAIN g THEN g[i] ELSE f[i]]

Swapped(f, i, j) == [f EXCEPT ![i] = f[j], ![j] = f[i]]

-----------------------------------------------------------------------------
Init ==
  /\ phase = "ready"
  /\ ids = <<>>
  /\ index = [r \in Reqs |-> -1]
  /\ row = [i \in Slots |-> Nobody]
  /\ lora = [i \in Slots |-> 0]
  /\ loraReqs = [l \in LoraIds |-> {}]
  /\ refusal = [i \in Slots |-> NaN]
  /\ generator = [i \in Slots |-> Nobody]
  /\ mask = [i \in Slots |-> Nobody]
  /\ removed = {}
  /\ added = [i \in {} |-> Nobody]
  /\ moved = [i \in Slots |-> i]
  /\ mirror = [i \in Slots |-> Nobody]

\* remove_request
RemoveRequest(r) ==
  LET i == index[r] IN
  /\ phase \in {"ready", "removing"} /\ r \in Resident
  /\ phase' = "removing"
  /\ index' = [index EXCEPT ![r] = -1]
  /\ ids' = [ids EXCEPT ![i + 1] = Nobody]
  /\ lora' = [lora EXCEPT ![i] = 0]
  /\ loraReqs' = [l \in LoraIds |-> IF l = lora[i] THEN loraReqs[l] \ {r} ELSE loraReqs[l]]
  /\ generator' = [generator EXCEPT ![i] = Nobody]
  /\ mask' = [mask EXCEPT ![i] = Nobody]
  /\ removed' = removed \cup {i}
  /\ UNCHANGED <<row, refusal, added, moved, mirror>>

\* Mutant of NewIndex: the holes are not reused
NewIndexAtEnd == NumReqs

\* _register_add_request: the lowest hole left by a removal, or else the end
NewIndex ==
  IF removed # {} THEN CHOOSE i \in removed : \A j \in removed : i <= j ELSE NumReqs

\* add_request
AddRequest(r) ==
  LET i == NewIndex IN
  /\ phase \in {"ready", "removing", "adding"} /\ r \notin Resident
  /\ i < MaxNumReqs
  /\ phase' = "adding"
  /\ ids' = IF i = Len(ids) THEN Append(ids, r) ELSE [ids EXCEPT ![i + 1] = r]
  /\ index' = [index EXCEPT ![r] = i]
  /\ row' = [row EXCEPT ![i] = r]
  /\ lora' = [lora EXCEPT ![i] = LoraOf[r]]
  /\ loraReqs' = [l \in LoraIds |->
                    IF l = LoraOf[r] THEN loraReqs[l] \cup {r} ELSE loraReqs[l]]
  /\ refusal' = [refusal EXCEPT ![i] = LambdaOf[r]]
  /\ generator' = IF r \in Seeded THEN [generator EXCEPT ![i] = r] ELSE generator
  /\ mask' = IF r \in Masked THEN [mask EXCEPT ![i] = r] ELSE mask
  /\ removed' = removed \ {i}
  /\ added' = [j \in DOMAIN added \cup {i} |-> IF j = i THEN r ELSE added[j]]
  /\ UNCHANGED <<moved, mirror>>

\* The moves of condense: the k-th lowest hole below num_reqs takes the k-th last
\* request at or above it
Holes == {i \in removed : i < NumReqs}
LastRows == {i \in NumReqs .. Len(ids) - 1 : i \notin removed}
Source(hole) ==
  CHOOSE i \in LastRows :
    Cardinality({h \in Holes : h <= hole}) = Cardinality({t \in LastRows : t >= i})

\* Mutant of Filled: the holes are filled from the wrong end of the list
FilledAscending(f) ==
  [i \in Holes |-> f[CHOOSE t \in LastRows :
     Cardinality({h \in Holes : h <= i}) = Cardinality({u \in LastRows : u <= t})]]

\* An array once every hole has taken its source's entry
Filled(f) == [i \in Holes |-> f[Source(i)]]

\* Mutant of MovedOut: the generator is copied down but not taken out of its old index
MovedOutNowhere == [i \in {} |-> Nobody]

\* A dict keyed by index loses the entries that moved down
MovedOut == [i \in LastRows |-> Nobody]

\* condense
Condense ==
  /\ phase \in {"ready", "removing", "adding"}
  /\ phase' = "condensed"
  /\ IF removed = {} THEN UNCHANGED <<batch, moved, removed>>
     ELSE IF NumReqs = 0 THEN /\ ids' = <<>>
                              /\ UNCHANGED <<index, row, lora, loraReqs, refusal,
                                             generator, mask, moved, removed>>
     ELSE /\ ids' = [j \in 1 .. NumReqs |->
                       IF j - 1 \in Holes THEN ids[Source(j - 1) + 1] ELSE ids[j]]
          /\ index' = [r \in Reqs |->
                         IF \E i \in Holes : ids[Source(i) + 1] = r
                         THEN CHOOSE i \in Holes : ids[Source(i) + 1] = r ELSE index[r]]
          /\ row' = Over(row, Filled(row))
          /\ lora' = Over(lora, Filled(lora))
          /\ generator' = Over(Over(generator, Filled(generator)), MovedOut)
          /\ mask' = Over(mask, Filled(mask))
          /\ moved' = Over(Over(moved, Filled(moved)), MovedOut)
          /\ removed' = removed \ Holes
          /\ UNCHANGED <<loraReqs, refusal>>
  /\ UNCHANGED <<added, mirror>>

\* Mutant of SwapStates: the logits processors are not told
SwapStatesUntold(i, j) ==
  /\ Reorders /\ phase = "condensed" /\ i < j /\ j < NumReqs
  /\ ids' = Swapped(ids, i + 1, j + 1)
  /\ index' = Swapped(index, ids[i + 1], ids[j + 1])
  /\ row' = Swapped(row, i, j)
  /\ lora' = Swapped(lora, i, j)
  /\ refusal' = Swapped(refusal, i, j)
  /\ generator' = Swapped(generator, i, j)
  /\ mask' = [mask EXCEPT ![i] = mask[j]]
  /\ UNCHANGED <<phase, loraReqs, removed, added, mirror, moved>>

\* swap_states.  The rows of the mask are views of one tensor, so the tuple
\* assignment reads the second row after it has been written.
SwapStates(i, j) ==
  /\ Reorders /\ phase = "condensed" /\ i < j /\ j < NumReqs
  /\ ids' = Swapped(ids, i + 1, j + 1)
  /\ index' = Swapped(index, ids[i + 1], ids[j + 1])
  /\ row' = Swapped(row, i, j)
  /\ lora' = Swapped(lora, i, j)
  /\ refusal' = Swapped(refusal, i, j)
  /\ generator' = Swapped(generator, i, j)
  /\ mask' = [mask EXCEPT ![i] = mask[j]]
  /\ moved' = Swapped(moved, i, j)
  /\ UNCHANGED <<phase, loraReqs, removed, added, mirror>>

\* What a logits processor does with a batch update: additions, removals, moves
Updated(i) ==
  IF i = Nobody THEN Nobody
  ELSE IF i \in DOMAIN added THEN added[i]
  ELSE IF i \in removed THEN Nobody ELSE mirror[i]

\* refresh_metadata; the step then runs on the batch
RefreshMetadata ==
  /\ phase = "condensed"
  /\ phase' = "ready"
  /\ mirror' = [i \in Slots |-> Updated(moved[i])]
  /\ removed' = {}
  /\ added' = [i \in {} |-> Nobody]
  /\ moved' = [i \in Slots |-> i]
  /\ UNCHANGED batch

Next ==
  \/ \E r \in Reqs : RemoveRequest(r)
  \/ \E r \in Reqs : AddRequest(r)
  \/ Condense
  \/ \E i, j \in Slots : SwapStates(i, j)
  \/ RefreshMetadata

Spec == Init /\ [][Next]_vars

-----------------------------------------------------------------------------
\* Type invariant.
TypeOK ==
  /\ phase \in {"ready", "removing", "adding", "condensed"}
  /\ ids \in Seq(Reqs \cup {Nobody}) /\ Len(ids) <= MaxNumReqs
  /\ index \in [Reqs -> Slots \cup {-1}]
  /\ row \in [Slots -> Reqs \cup {Nobody}]
  /\ lora \in [Slots -> LoraIds \cup {0}]
  /\ loraReqs \in [LoraIds -> SUBSET Reqs]
  /\ generator \in [Slots -> Reqs \cup {Nobody}]
  /\ mask \in [Slots -> Reqs \cup {Nobody}]
  /\ removed \subseteq Slots

\* Everything has its type; the list and the map name the same requests at the same
\* places all along an update, and the list has no hole when the step runs.
DenseIndex ==
  /\ TypeOK
  /\ \A i \in 1 .. Len(ids) : ids[i] # Nobody => index[ids[i]] = i - 1
  /\ \A r \in Resident : index[r] < Len(ids) /\ ids[index[r] + 1] = r
  /\ {i \in Slots : i < Len(ids) /\ ids[i + 1] = Nobody} =
       IF phase \in {"removing", "adding"} THEN removed ELSE {}

\* Whatever was removed, added, condensed or swapped, the data at a request's index
\* is the request's: its tokens and block table, its adapter, its generator.
RowsFollowRequests ==
  \A r \in Resident :
    /\ row[index[r]] = r
    /\ lora[index[r]] = LoraOf[r]
    /\ generator[index[r]] = IF r \in Seeded THEN r ELSE Nobody

\* No generator or adapter outlives its request: an index past the batch has no
\* generator for the next request to inherit, and an adapter is held by exactly
\* the resident requests that use it.
NothingLeftBehind ==
  /\ \A i \in Slots : generator[i] # Nobody => index[generator[i]] = i
  /\ \A l \in LoraIds : loraReqs[l] = {r \in Resident : LoraOf[r] = l}

\* When the step runs, a logits processor that only saw the batch updates places
\* every request where the batch does, and holds nothing past the batch.
ProcessorsFollow ==
  phase = "ready" =>
    \A i \in Slots : mirror[i] = IF i < Len(ids) THEN ids[i + 1] ELSE Nobody
=============================================================================

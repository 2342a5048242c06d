------------------------------- MODULE Worker -------------------------------
(***************************************************************************)
(* The life of one worker process: start-up, sleep and wake-up, weight     *)
(* updates, and what a forward finds in device memory afterwards.          *)
(*                                                                         *)
(* Sleeping unmaps the memory pools in which load_model and                *)
(* initialize_kv_cache allocate.  Level 1 keeps a copy of the weights'     *)
(* pool, level 2 of nothing but the main model's named buffers: the        *)
(* drafter, a model of its own, gets nothing back.  So what a              *)
(* tensor holds after a wake-up depends on the pool it was born in, and    *)
(* touching one whose pool is unmapped kills the process.  The allocator   *)
(* and the executor are external; the executor does not put a sleeping     *)
(* worker to sleep, wakes only what sleeps, and runs no step meanwhile.    *)
(***************************************************************************)
EXTENDS Integers

CONSTANTS
  Lambdas,           \* values of the dial
  LamZero, LamInit,  \* _lam_value before any layer exists; VLLM_REFUSAL_LAMBDA_INIT
  Outside,           \* memory of no pool: the standard allocator's
  Intact,            \* a tensor that holds what it was made to hold
  Partial,           \* weights some chunks of which are of another version
  Lost,              \* what is found in memory unmapped and mapped again
  Absent             \* a tensor not allocated yet

Pools == {"weights", "kv_cache"}
\* "draft" stands for all of the drafter's model, its directions included.  The KV cache
\* itself is not among them: a forward reads the rows it or an earlier one of the same
\* request has written, and no request and no cached block outlives a sleep
Tensors == {"params", "r_hat", "draft", "lam", "rows", "layout", "zero_meta"}
Values == Lambdas \cup {Intact, Partial, Lost}

ASSUME WorkerAssumption ==
  /\ {LamZero, LamInit} \subseteq Lambdas
  /\ Lambdas \cap {Intact, Partial, Lost, Absent} = {}
  /\ Intact # Lost /\ Partial # Lost /\ Absent \notin {Intact, Partial, Lost}
  /\ Outside \notin Pools

VARIABLES
  v2,       \* use_v2_model_runner
  drafter,  \* is there a speculator with a model?
  pooled,   \* enable_cumem_allocator: are there pools, and can the worker sleep?
  phase,    \* "new", "device", "loaded", "profiled", "allocated", "ready", "down"
  mapped,   \* the pools that are mapped
  mem,      \* what each tensor holds
  pool,     \* the pool it was allocated in
  lam,      \* _lam_value
  saved,    \* _sleep_saved_buffers: a buffer's name -> what it held
  active,   \* _weight_update_active
  faulted,  \* memory that is not mapped was touched
  deep,     \* history: tensors not written since the last sleep of level 2
  ran       \* history: what the last forward found lost, and deep as it ran

vars == <<v2, drafter, pooled, phase, mapped, mem, pool, lam, saved, active, faulted, deep, ran>>

\* The tensors model.named_buffers() finds: parameters are not, the dial and the
\* rows are plain attributes, and speculator.model is not in model_runner.model
NamedBuffers == {"r_hat"}

NoRun == [lost |-> {}, deep |-> {}]

Up == phase = "ready" /\ ~faulted
Awake == mapped = Pools

\* Are all of these tensors in memory that is mapped?
Reachable(ts) == \A t \in ts : pool[t] \in mapped \cup {Outside}

Hold(ts, v) == [t \in Tensors |-> IF t \in ts THEN v ELSE mem[t]]

\* _maybe_get_memory_pool_context
PoolFor(tag) == IF pooled THEN tag ELSE Outside

Allocate(ts, p) == [t \in Tensors |-> IF t \in ts THEN p ELSE pool[t]]

-----------------------------------------------------------------------------
Init ==
  /\ v2 \in BOOLEAN /\ drafter \in BOOLEAN /\ pooled \in BOOLEAN
  /\ phase = "new"
  /\ mapped = Pools
  /\ mem = [t \in Tensors |-> Absent]
  /\ pool = [t \in Tensors |-> Outside]
  /\ lam = LamZero
  /\ saved = <<>>
  /\ active = FALSE
  /\ faulted = FALSE
  /\ deep = {}
  /\ ran = NoRun

\* init_device: the V2 runner's __init__ allocates the rows of both roles, before
\* and outside any pool
InitDevice ==
  /\ phase = "new"
  /\ phase' = "device"
  /\ mem' = IF v2 THEN Hold({"rows"}, lam) ELSE mem
  /\ UNCHANGED <<v2, drafter, pooled, mapped, pool, lam, saved, active, faulted, deep, ran>>

\* load_model: parameters, the layers' directions, the drafter and the dial's tensor
LoadModel ==
  /\ phase = "device"
  /\ phase' = "loaded"
  /\ LET model == {"params", "r_hat"} \cup (IF drafter THEN {"draft"} ELSE {})
     IN /\ mem' = [Hold(model, Intact) EXCEPT !["lam"] = LamInit]
        /\ pool' = Allocate(model \cup {"lam"}, PoolFor("weights"))
  /\ lam' = LamInit
  /\ UNCHANGED <<v2, drafter, pooled, mapped, saved, active, faulted, deep, ran>>

\* What a forward reads the dial from: the rows it has just filled, or the tensor
\* when no rows existed as the layers were built
DialTensor == IF v2 THEN "rows" ELSE "lam"

\* The tensors a step reads
StepReads == {"params", "r_hat", "layout", "zero_meta", DialTensor}
               \cup (IF drafter THEN {"draft"} ELSE {})

\* One forward: the V2 runner fills the rows with the dial, the model reads, and
\* after it the drafter
RunForward ==
  /\ mem' = IF v2 THEN Hold({"rows"}, lam) ELSE mem
  /\ ran' = [lost |-> {t \in StepReads : mem'[t] = Lost}, deep |-> deep]

\* determine_available_memory: a forward before there is any KV cache, of the
\* default or of kv_cache_memory_bytes; how much is left is KvSizing's
DetermineAvailableMemory ==
  /\ phase = "loaded"
  /\ phase' = "profiled"
  /\ RunForward
  /\ UNCHANGED <<v2, drafter, pooled, mapped, pool, lam, saved, active, faulted, deep>>

\* Mutant of InitializeFromConfig: the zeroing metadata is built inside the pool
InitializeAllInPool ==
  /\ phase = "profiled"
  /\ phase' = "allocated"
  /\ mem' = Hold({"layout", "zero_meta"}, Intact)
  /\ pool' = Allocate({"layout", "zero_meta"}, PoolFor("kv_cache"))
  /\ UNCHANGED <<v2, drafter, pooled, mapped, lam, saved, active, faulted, deep, ran>>

\* initialize_from_config: the block tables' layout tensors are born in the KV
\* pool, the metadata that zeroes new blocks outside it
InitializeFromConfig ==
  /\ phase = "profiled"
  /\ phase' = "allocated"
  /\ mem' = Hold({"layout", "zero_meta"}, Intact)
  /\ pool' = Allocate({"layout"}, PoolFor("kv_cache"))
  /\ UNCHANGED <<v2, drafter, pooled, mapped, lam, saved, active, faulted, deep, ran>>

\* compile_or_warm_up_model: dummy runs, then the capture
CompileOrWarmUpModel ==
  /\ phase = "allocated"
  /\ phase' = "ready"
  /\ RunForward
  /\ UNCHANGED <<v2, drafter, pooled, mapped, pool, lam, saved, active, faulted, deep>>

-----------------------------------------------------------------------------
\* execute_model; nothing asks whether an update is open or what a sleep has lost
ExecuteModel ==
  /\ Up /\ Awake
  /\ RunForward
  /\ UNCHANGED <<v2, drafter, pooled, phase, mapped, pool, lam, saved, active, faulted, deep>>

\* A call that touches memory that is not mapped: the process is lost
Fault ==
  /\ faulted' = TRUE
  /\ UNCHANGED <<v2, drafter, pooled, phase, mapped, mem, pool, lam, saved, active, deep, ran>>

\* Mutant of SetRefusalLambda: the dial's tensor is not written
SetRefusalLambdaUnfilled(l) ==
  /\ Up
  /\ IF Reachable({"lam"})
     THEN /\ lam' = l
          /\ UNCHANGED <<v2, drafter, pooled, phase, mapped, mem, pool, saved, active, faulted, deep, ran>>
     ELSE Fault

\* set_refusal_lambda: fill_ on the tensor, then _lam_value
SetRefusalLambda(l) ==
  /\ Up
  /\ IF Reachable({"lam"})
     THEN /\ mem' = Hold({"lam"}, l)
          /\ lam' = l
          /\ deep' = deep \ {"lam"}
          /\ UNCHANGED <<v2, drafter, pooled, phase, mapped, pool, saved, active, faulted, ran>>
     ELSE Fault

\* suspend(level) of the allocator: what is left in each tensor
Suspended(level) ==
  [t \in Tensors |-> IF pool[t] = Outside \/ (level = 1 /\ pool[t] = "weights")
                     THEN mem[t] ELSE Lost]

\* sleep(level): level 2 saves the named buffers first
Sleep(level) ==
  /\ Up /\ pooled /\ Awake
  /\ saved' = IF level = 2 THEN [b \in NamedBuffers |-> mem[b]] ELSE saved
  /\ mem' = Suspended(level)
  /\ mapped' = {}
  /\ deep' = IF level = 2 THEN Tensors ELSE deep
  /\ UNCHANGED <<v2, drafter, pooled, phase, pool, lam, active, faulted, ran>>

\* Mutant of WakeUp: saved buffers are dropped by the first wake-up of any tag
WakeUpForgets(tags) ==
  /\ Up /\ tags # {} /\ tags \cap mapped = {}
  /\ LET now == mapped \cup tags
     IN /\ mapped' = now
        /\ saved' = <<>>
        /\ mem' = [t \in Tensors |->
                     IF t \in DOMAIN saved /\ "weights" \in now THEN saved[t]
                     ELSE IF t = "layout" /\ "kv_cache" \in tags THEN Intact ELSE mem[t]]
        /\ UNCHANGED <<v2, drafter, pooled, phase, pool, lam, active, faulted, deep, ran>>

\* wake_up(tags): resume, then copy what was saved back into the buffers,
\* wherever they are, then rebuild the layout tensors with the KV pool
WakeUp(tags) ==
  /\ Up /\ tags # {} /\ tags \cap mapped = {}
  /\ LET now == mapped \cup tags
     IN IF saved # <<>> /\ "weights" \notin now
        THEN Fault
        ELSE /\ mapped' = now
             /\ saved' = <<>>
             /\ mem' = [t \in Tensors |->
                          IF t \in DOMAIN saved THEN saved[t]
                          ELSE IF t = "layout" /\ "kv_cache" \in tags THEN Intact
                          ELSE mem[t]]
             /\ UNCHANGED <<v2, drafter, pooled, phase, pool, lam, active, faulted, deep, ran>>

-----------------------------------------------------------------------------
\* The session and the reload concern model_runner.model: none writes the drafter.

\* start_weight_update
StartWeightUpdate ==
  /\ Up /\ ~active
  /\ active' = TRUE
  /\ UNCHANGED <<v2, drafter, pooled, phase, mapped, mem, pool, lam, saved, faulted, deep, ran>>

\* update_weights: a chunk that fails ends the session
UpdateWeights(ok) ==
  /\ Up /\ active
  /\ IF Reachable({"params"})
     THEN /\ mem' = Hold({"params"}, Partial)
          /\ active' = ok
          /\ deep' = deep \ {"params"}
          /\ UNCHANGED <<v2, drafter, pooled, phase, mapped, pool, lam, saved, faulted, ran>>
     ELSE Fault

\* finish_weight_update: one that fails leaves the session open; one that succeeds
\* leaves the weights whole, unless the caller left chunks out or slept them away
FinishWeightUpdate(ok) ==
  /\ Up /\ active
  /\ IF Reachable({"params"})
     THEN /\ mem' \in IF ok THEN {Hold({"params"}, v) : v \in {Intact, Partial}} ELSE {mem}
          /\ active' = ~ok
          /\ deep' = IF ok THEN deep \ {"params"} ELSE deep
          /\ UNCHANGED <<v2, drafter, pooled, phase, mapped, pool, lam, saved, faulted, ran>>
     ELSE Fault

\* reload_weights
ReloadWeights ==
  /\ Up
  /\ IF Reachable({"params"})
     THEN /\ mem' = Hold({"params"}, Intact)
          /\ deep' = deep \ {"params"}
          /\ UNCHANGED <<v2, drafter, pooled, phase, mapped, pool, lam, saved, active, faulted, ran>>
     ELSE Fault

Shutdown ==
  /\ phase # "down"
  /\ phase' = "down"
  /\ UNCHANGED <<v2, drafter, pooled, mapped, mem, pool, lam, saved, active, faulted, deep, ran>>

Gone == phase = "down" /\ UNCHANGED vars

Next ==
  \/ InitDevice \/ LoadModel \/ DetermineAvailableMemory \/ InitializeFromConfig \/ CompileOrWarmUpModel
  \/ ExecuteModel
  \/ \E l \in Lambdas : SetRefusalLambda(l)
  \/ \E level \in {1, 2} : Sleep(level)
  \/ \E tags \in SUBSET Pools : WakeUp(tags)
  \/ StartWeightUpdate \/ ReloadWeights
  \/ \E ok \in BOOLEAN : UpdateWeights(ok) \/ FinishWeightUpdate(ok)
  \/ Shutdown \/ Gone

Spec == Init /\ [][Next]_vars

-----------------------------------------------------------------------------
(***************************************************************************)
(* Properties.                                                             *)
(***************************************************************************)

\* Type invariant.
TypeOK ==
  /\ {v2, drafter, pooled, active, faulted} \subseteq BOOLEAN
  /\ phase \in {"new", "device", "loaded", "profiled", "allocated", "ready", "down"}
  /\ mapped \subseteq Pools
  /\ mem \in [Tensors -> Values \cup {Absent}]
  /\ pool \in [Tensors -> Pools \cup {Outside}]
  /\ lam \in Lambdas
  /\ DOMAIN saved \subseteq NamedBuffers
  /\ deep \subseteq Tensors /\ ran.lost \subseteq Tensors

\* What a sleep may cost the forwards after it, whatever wake-ups by tag, weight updates
\* and POSTs come between: nothing after sleeps of level 1.  After one of level 2 the
\* parameters until they are updated or reloaded, the dial's own tensor, where there are no
\* rows, until the next POST, and the drafter, its directions included, which nothing ever
\* writes again.  The main model's directions come back from their copies, the layout is
\* rebuilt, the zeroing metadata and the rows were never in a pool.
ForwardsReadLiveMemory ==
  ran.lost \subseteq ran.deep \cap {"params", "draft", "lam"} /\ (v2 => "lam" \notin ran.lost)

\* The dial's tensor never holds another dial than the one the rank answers with:
\* a POST that reaches it in a sleep does not leave the two apart.
TensorHoldsTheDial == mem["lam"] \in {Absent, Lost, lam}

\* No wake-up loses the saved buffers: once the weights are mapped again there is
\* nothing left to restore and the main model's directions are in place.
BuffersComeBack ==
  ~faulted /\ "weights" \in mapped /\ mem["r_hat"] # Absent
    => saved = <<>> /\ mem["r_hat"] = Intact
=============================================================================

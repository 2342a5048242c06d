------------------------------- MODULE KvSizing -------------------------------
(***************************************************************************)
(* How the engine sizes the KV cache at start-up: each worker measures the  *)
(* memory it can give, the layers of the whole model are grouped, each      *)
(* worker's part of the groups is checked against its memory, and all the   *)
(* workers end with one number of blocks, which one scheduler hands out.    *)
(*                                                                          *)
(* The engine core, which calls these functions in this order, is external. *)
(***************************************************************************)
EXTENDS KvGroups

CONSTANTS
  Workers,
  Scenarios,     \* bound: what is started, see ScenarioFields
  Budgets,       \* bound: gpu_memory_utilization's share less weights and activations
  Graphs,        \* bound: estimates of the CUDA graphs' memory
  Unknown        \* not measured yet

\* specs: layer -> spec; hybrid: is the hybrid manager enabled; caching: prefixes;
\* owns: worker -> its layers; fixed: kv_cache_memory_bytes or 0; reserved: the
\* frontend's decoders; override: num_gpu_blocks_override or 0; block and hashBlock: the
\* configured block_size and hash_block_size, 0 for none
ScenarioFields ==
  [specs : Seq(Specs), owns : [Workers -> SUBSET Nat], maxLen : Nat \ {0}, autoFit : BOOLEAN,
   override : Nat, hybrid : BOOLEAN, crossLayers : BOOLEAN, fixed : Nat, reserved : Nat,
   caching : BOOLEAN, block : Nat, hashBlock : Nat]

ASSUME SizingAssumption ==
  /\ MaxBatched \in Nat \ {0} /\ SpecBlocks \in Nat
  /\ IsFiniteSet(Workers) /\ Workers # {}
  /\ Scenarios \subseteq ScenarioFields
  /\ \A c \in Scenarios : UNION {c.owns[w] : w \in Workers} = DOMAIN c.specs
  /\ Budgets \subseteq Int /\ Graphs \subseteq Nat /\ Unknown \notin Int

VARIABLES
  scenario,  \* what is started
  phase,     \* "profiling", "grouping", "planning", "checking", "building",
             \* "resolving", "agreed", "ready" or "refused"
  avail,     \* worker -> bytes for its KV cache
  groups,    \* kv_cache_groups of the whole model
  maxLen,    \* max_model_len
  configs,   \* worker -> its KVCacheConfig
  sizes,     \* the scheduler's block size and that of the keys, <<0, 0>> before
  tables     \* worker -> the width of a request's row in each group's block table

sizingVars == <<scenario, phase, avail, groups, maxLen, configs, sizes, tables>>

NoConfig == [num |-> 0, tensors |-> <<>>, groups |-> <<>>]

-----------------------------------------------------------------------------
\* One spec of a group; all of them unless the group is of uniform type
SpecOf(g) == g.specs[Min(DOMAIN g.specs)]
PageOf(g, l) == PageSize(g.specs[l])
AllPages(g) == SumFunction([l \in DOMAIN g.specs |-> PageSize(g.specs[l])])

\* _project_kv_cache_groups_to_worker: a group that keeps no layer keeps its specs
Project(g, own) ==
  LET mine == InOrder(ToSet(g.layers) \cap own)
  IN IF g.uniform /\ mine # <<>> THEN Group(mine, TRUE, Restrict(g.specs, ToSet(mine)))
     ELSE [g EXCEPT !.layers = mine]

Projected(w) == [i \in DOMAIN groups |-> Project(groups[i], scenario.owns[w])]

SingleUniform(gs) == Len(gs) = 1 /\ gs[1].uniform
AllUniform(gs) == \A i \in DOMAIN gs : gs[i].uniform

\* _use_packed_kv_cache_config
Packed(gs) == ~SingleUniform(gs) /\ (AllUniform(gs) \/ (scenario.crossLayers /\ Len(gs) > 1))

\* The most layers a group has, and the layers of one page among a group's
GroupSize(gs) == Max({Len(gs[i].layers) : i \in DOMAIN gs})
OfPage(g, p) == InOrder({l \in ToSet(g.layers) : PageOf(g, l) = p})

\* _bucket_layers_by_page_size: slot k of a page holds the k-th such layer of each
\* group
PagesIn(gs) == UNION {{PageOf(gs[i], l) : l \in ToSet(gs[i].layers)} : i \in DOMAIN gs}
Slots(gs, p) == Max({Len(OfPage(gs[i], p)) : i \in DOMAIN gs})
SharedBy(gs, p, k) ==
  {OfPage(gs[i], p)[k] : i \in {i \in DOMAIN gs : k <= Len(OfPage(gs[i], p))}}

PackedBytes(gs) == SumFunction([p \in PagesIn(gs) |-> p * Slots(gs, p)])

\* _pool_bytes_per_block
PoolBytesPerBlock(gs) ==
  CASE SingleUniform(gs) -> AllPages(gs[1])
    [] Packed(gs) -> PackedBytes(gs)
    [] OTHER -> PageSize(SpecOf(gs[1])) * GroupSize(gs)

\* The most blocks a request of n tokens takes in a group, and in all of them
GroupPages(g, n) == Max({PagesFor(s, n) : s \in Values(g.specs)})
RequestPages(gs, n) == SumFunction([i \in DOMAIN gs |-> GroupPages(gs[i], n)])

\* The bytes such a request takes, layer by layer
LayerBytes(g, n) ==
  SumFunction([l \in DOMAIN g.specs |-> PagesFor(g.specs[l], n) * PageOf(g, l)])

\* Mutant of NeededBytes: a hybrid model is counted by its longest group alone
NeededBytesOfOne(gs, n) ==
  IF SingleUniform(gs) THEN LayerBytes(gs[1], n)
  ELSE GroupSize(gs) * PageSize(SpecOf(gs[1])) * Max({GroupPages(gs[i], n) : i \in DOMAIN gs})

\* _max_memory_usage_bytes_from_groups: what one request of n tokens needs
NeededBytes(gs, n) ==
  LET tuple == SumFunction([p \in PageSizes(gs[1].specs) |-> p])
      tuples == Max({LayerTuples(gs[i].specs) : i \in DOMAIN gs})
  IN CASE SingleUniform(gs) -> LayerBytes(gs[1], n)
       [] ~SingleUniform(gs) /\ AllUniform(gs) -> tuples * tuple * RequestPages(gs, n)
       [] OTHER -> GroupSize(gs) * PageSize(SpecOf(gs[1])) * RequestPages(gs, n)

\* Mutant of LongestThatFits: the search stops a length short
LongestThatFitsShort(gs, mem, original) ==
  LET search[range \in (1 .. original + 1) \X (0 .. original)] ==
        LET lo == range[1]
            hi == range[2]
            mid == (lo + hi) \div 2
        IN IF lo >= hi THEN lo - 1
           ELSE search[IF NeededBytes(gs, mid) <= mem THEN <<mid + 1, hi>> ELSE <<lo, mid - 1>>]
  IN IF NeededBytes(gs, 1) > mem THEN 0 ELSE search[<<2, original>>]

\* _estimate_max_model_len_from_groups: binary search, 0 if one token is too many
LongestThatFits(gs, mem, original) ==
  LET search[range \in (1 .. original + 1) \X (0 .. original)] ==
        LET lo == range[1]
            hi == range[2]
            mid == (lo + hi) \div 2
        IN IF lo > hi THEN hi
           ELSE search[IF NeededBytes(gs, mid) <= mem THEN <<mid + 1, hi>> ELSE <<lo, mid - 1>>]
  IN IF NeededBytes(gs, 1) > mem THEN 0 ELSE search[<<1, original>>]

-----------------------------------------------------------------------------
Refuse ==
  /\ phase' = "refused"
  /\ UNCHANGED <<scenario, avail, groups, maxLen, configs, sizes, tables>>

SizingInit ==
  /\ scenario \in Scenarios
  /\ phase = "profiling"
  /\ avail = [w \in Workers |-> Unknown]
  /\ groups = <<>>
  /\ maxLen = scenario.maxLen
  /\ configs = [w \in Workers |-> NoConfig]
  /\ sizes = <<0, 0>>
  /\ tables = [w \in Workers |-> <<>>]

\* determine_available_memory: the budget less the CUDA graphs, or what the
\* configuration fixes, less what _reserve_mm_ipc_gpu_memory keeps for the frontend
DetermineAvailableMemory(w, budget, graphs) ==
  LET measured == IF scenario.fixed # 0 THEN scenario.fixed ELSE budget - graphs
      left == measured - scenario.reserved
  IN
  /\ phase = "profiling" /\ avail[w] = Unknown
  /\ IF scenario.reserved > 0 /\ left <= 0
     THEN Refuse
     ELSE /\ avail' = [avail EXCEPT ![w] = left]
          /\ phase' = IF \A v \in Workers \ {w} : avail[v] # Unknown THEN "grouping" ELSE phase
          /\ UNCHANGED <<scenario, groups, maxLen, configs, sizes, tables>>

\* get_kv_cache_configs, first part: the groups of the whole model, or Refused
ModelGroups(c) ==
  LET specs == IF c.hybrid \/ DOMAIN c.specs = {} THEN c.specs ELSE UnifyHybrid(c.specs)
  IN IF specs = Refused THEN Refused ELSE Groups(specs)

GroupLayers ==
  LET gs == ModelGroups(scenario) IN
  /\ phase = "grouping"
  /\ IF gs = Refused
     THEN Refuse
     ELSE /\ groups' = gs
          /\ phase' = "planning"
          /\ UNCHANGED <<scenario, avail, maxLen, configs, sizes, tables>>

Fitted(mem) ==
  Min({scenario.maxLen} \cup
      {LongestThatFits(Projected(w), mem[w], scenario.maxLen) : w \in Workers})

\* Then num_gpu_blocks_override replaces the memory by what so many blocks take,
\* and _auto_fit_max_model_len lowers the length to what fits everywhere
PlanMemory ==
  LET mem == [w \in Workers |->
                IF scenario.override = 0 \/ groups = <<>> THEN avail[w]
                ELSE scenario.override * PoolBytesPerBlock(Projected(w))]
      fitted == Fitted(mem)
  IN
  /\ phase = "planning"
  /\ IF scenario.autoFit /\ groups # <<>> /\ fitted = 0
     THEN Refuse
     ELSE /\ avail' = mem
          /\ maxLen' = IF scenario.autoFit /\ groups # <<>> THEN fitted ELSE maxLen
          /\ phase' = "checking"
          /\ UNCHANGED <<scenario, groups, configs, sizes, tables>>

\* _check_enough_kv_cache_memory on every worker
CheckMemory ==
  /\ phase = "checking"
  /\ IF groups # <<>> /\ \E w \in Workers :
          avail[w] <= 0 \/ NeededBytes(Projected(w), maxLen) > avail[w]
     THEN Refuse
     ELSE /\ phase' = "building"
          /\ UNCHANGED <<scenario, avail, groups, maxLen, configs, sizes, tables>>

\* get_num_blocks, and its like of the other layouts
NumBlocks(gs, mem) ==
  CASE scenario.override # 0 -> scenario.override
    [] scenario.override = 0 /\ SingleUniform(gs) -> mem \div AllPages(gs[1])
    [] scenario.override = 0 /\ Packed(gs) -> mem \div PackedBytes(gs)
    [] OTHER -> (mem \div PageSize(SpecOf(gs[1]))) \div GroupSize(gs)

Tensor(size, shared, offset, stride) ==
  [size |-> size, shared |-> shared, offset |-> offset, stride |-> stride]

\* _get_kv_cache_config_packed: one backing, in which a block holds a page of each
\* slot, one after the other
PackedTensors(gs, n) ==
  LET places == UNION {{<<p, k>> : k \in 1 .. Slots(gs, p)} : p \in PagesIn(gs)}
      before(a, b) == a[1] < b[1] \/ (a[1] = b[1] /\ a[2] < b[2])
      order == Sorted(places, before)
      offset(i) == SumFunction([j \in 1 .. i - 1 |-> order[j][1]])
  IN [i \in DOMAIN order |->
        Tensor(PackedBytes(gs) * n, SharedBy(gs, order[i][1], order[i][2]), offset(i),
               PackedBytes(gs))]

\* Mutant of PooledTensors: the layers of a group share a tensor
PooledTensorsByGroup(gs, n) ==
  [i \in DOMAIN gs |-> Tensor(PageSize(SpecOf(gs[1])) * n, ToSet(gs[i].layers), 0, 0)]

\* The i-th layers of all groups share a tensor
PooledTensors(gs, n) ==
  [i \in 1 .. GroupSize(gs) |->
     Tensor(PageSize(SpecOf(gs[1])) * n,
            {gs[j].layers[i] : j \in {j \in DOMAIN gs : i <= Len(gs[j].layers)}}, 0, 0)]

\* get_kv_cache_config_from_groups, on one worker
Config(gs, mem) ==
  LET n == NumBlocks(gs, mem)
      tensors ==
        CASE SingleUniform(gs) ->
               [i \in DOMAIN gs[1].layers |->
                  Tensor(PageOf(gs[1], gs[1].layers[i]) * n, {gs[1].layers[i]}, 0, 0)]
          [] Packed(gs) -> PackedTensors(gs, n)
          [] OTHER -> PooledTensors(gs, n)
  IN IF gs = <<>> THEN [num |-> 1, tensors |-> <<>>, groups |-> <<>>]
     ELSE [num |-> n, tensors |-> tensors, groups |-> gs]

\* Mutant of Shrunk: the worker keeps its own number of blocks
ShrunkTensors(c, n) ==
  [c EXCEPT !.tensors = [i \in DOMAIN c.tensors |->
                           [c.tensors[i] EXCEPT !.size = (@ \div c.num) * n]]]

\* All workers take the smallest number of blocks, and their tensors shrink with it
Shrunk(c, n) ==
  [c EXCEPT !.num = n,
            !.tensors = [i \in DOMAIN c.tensors |->
                           [c.tensors[i] EXCEPT !.size = (@ \div c.num) * n]]]

Built(w) == Config(Projected(w), avail[w])
LeastBlocks == Min({Built(w).num : w \in Workers})
LayersOn(w) == SumFunction([i \in DOMAIN groups |-> Len(Projected(w)[i].layers)])

\* The last part of get_kv_cache_configs; it asserts that each layer is in a group, and
\* divides by zero for a worker without layers or without blocks
BuildConfigs ==
  /\ phase = "building"
  /\ IF \E w \in Workers : \/ LayersOn(w) # Cardinality(scenario.owns[w])
                           \/ groups # <<>> /\ (scenario.owns[w] = {} \/ Built(w).num = 0)
     THEN Refuse
     ELSE /\ configs' = [w \in Workers |-> Shrunk(Built(w), LeastBlocks)]
          /\ phase' = "resolving"
          /\ UNCHANGED <<scenario, avail, groups, maxLen, sizes, tables>>

\* generate_scheduler_kv_cache_config takes any worker's groups; one of uniform type
\* is planned by any of its layers' specs
SchedulerSpecs(w) == [i \in DOMAIN groups |-> SpecOf(configs[w].groups[i])]

Gcd(S) == Max({d \in 1 .. Min(S) : \A n \in S : n % d = 0})
Lcm(S) == Min({m \in 1 .. ProductSet(S) : \A n \in S : m % n = 0})

\* The scheduler's unit: whole blocks of every group
SchedulerBlock(S) == Lcm(S)

\* A recurrent group whose blocks are not the configured ones: no finer keys
BacksOff(specs) ==
  \E i \in DOMAIN specs : specs[i].kind = "mamba" /\ specs[i].block # scenario.block

Blocks(specs) == {specs[i].block : i \in DOMAIN specs}
FinerKeys(specs) == Len(specs) > 1 /\ scenario.caching /\ ~BacksOff(specs)
HashBlock(specs) == IF scenario.hashBlock # 0 THEN scenario.hashBlock ELSE Gcd(Blocks(specs))

\* resolve_kv_cache_block_sizes, without context parallelism
SchedulerSizes(specs) ==
  LET unit == SchedulerBlock(Blocks(specs))
  IN CASE Len(specs) <= 1 -> <<scenario.block, scenario.block>>
       [] Len(specs) > 1 /\ ~FinerKeys(specs) -> <<unit, unit>>
       [] OTHER -> <<unit, HashBlock(specs)>>

ResolveBlockSizes(w) ==
  LET specs == SchedulerSpecs(w) IN
  /\ phase = "resolving"
  /\ IF FinerKeys(specs) /\ \E n \in Blocks(specs) : n % HashBlock(specs) # 0
     THEN Refuse
     ELSE /\ sizes' = SchedulerSizes(specs)
          /\ phase' = "agreed"
          /\ UNCHANGED <<scenario, avail, groups, maxLen, configs, tables>>

\* The blocks of a request's row in a group's block table
RowWidth(s) ==
  LET aligned == IF s.block <= 128 THEN RoundUp(CeilDiv(maxLen, s.block), 128 \div s.block)
                 ELSE CeilDiv(maxLen, s.block)
  IN IF s.kind = "mamba" THEN (IF scenario.caching THEN aligned ELSE 1) + SpecBlocks ELSE aligned

Rows(w) == [i \in DOMAIN groups |-> RowWidth(SpecOf(configs[w].groups[i]))]

\* initialize_kv_cache on a worker, told the length beforehand (update_max_model_len)
InitializeKvCache(w) ==
  /\ phase = "agreed" /\ tables[w] = <<>>
  /\ tables' = [tables EXCEPT ![w] = Rows(w)]
  /\ phase' = IF groups = <<>> \/ \A v \in Workers \ {w} : tables[v] # <<>> THEN "ready" ELSE phase
  /\ UNCHANGED <<scenario, avail, groups, maxLen, configs, sizes>>

Started == phase \in {"ready", "refused"} /\ UNCHANGED sizingVars

SizingNext ==
  \/ \E w \in Workers, b \in Budgets, g \in Graphs : DetermineAvailableMemory(w, b, g)
  \/ GroupLayers \/ PlanMemory \/ CheckMemory \/ BuildConfigs
  \/ \E w \in Workers : ResolveBlockSizes(w) \/ InitializeKvCache(w)
  \/ Started

SizingSpec == SizingInit /\ [][SizingNext]_sizingVars

\* The bytes of a block in all of a uniform group's layers, or in one of another's
BlockBytes(g) == IF g.uniform THEN AllPages(g) ELSE PageSize(SpecOf(g))

\* get_max_concurrency_for_kv_cache_config, rounded down: requests of the longest length
Reported(c) ==
  LET layers == GroupSize(c.groups)
      bytes == SumFunction([i \in DOMAIN c.groups |->
                              GroupPages(c.groups[i], maxLen) * BlockBytes(c.groups[i])])
  IN c.num \div CeilDiv(layers * bytes, BlockBytes(c.groups[1]) * layers)

\* Mutant of Coarse: the key before the block
CoarseBefore(keys, scale) ==
  [b \in 1 .. Len(keys) \div scale |-> keys[IF b * scale > 1 THEN b * scale - 1 ELSE 1]]

\* BlockHashListWithBlockSize: a block's key is the key of its last part
Coarse(keys, scale) == [b \in 1 .. Len(keys) \div scale |-> keys[b * scale]]

-----------------------------------------------------------------------------
(***************************************************************************)
(* Properties.                                                             *)
(***************************************************************************)

Agreed == phase \in {"agreed", "ready"}

\* Every pipeline stage of c has full layers of every page size, or none of them: a tuple
\* of its layers then has the pages of one of the model's.  The bytes a stage checks are
\* those of its own tuples, which are too few when it has the window layers of a page size
\* and none of the full layers that have it.
KeepsTuples(c) ==
  LET gs == ModelGroups(c) IN
  gs # Refused /\ Len(gs) > 1 /\ AllUniform(gs) =>
    \A w \in Workers : PageSizes(Project(gs[1], c.owns[w]).specs) = PageSizes(gs[1].specs)

\* The bytes a worker's tensors take: those of a packed layout alias one backing
Backing(c) ==
  LET lengths == {c.tensors[i].size : i \in DOMAIN c.tensors}
  IN IF \E i \in DOMAIN c.tensors : c.tensors[i].stride # 0 THEN Max(lengths)
     ELSE SumFunction([i \in DOMAIN c.tensors |-> c.tensors[i].size])

\* Type invariant.
SizingTypeOK ==
  /\ scenario \in Scenarios
  /\ phase \in {"profiling", "grouping", "planning", "checking", "building", "resolving",
                "agreed", "ready", "refused"}
  /\ \A w \in Workers : avail[w] = Unknown \/ avail[w] \in Int
  /\ maxLen \in 1 .. scenario.maxLen
  /\ \A i \in DOMAIN groups : ToSet(groups[i].layers) = DOMAIN groups[i].specs
  /\ UNION {ToSet(groups[i].layers) : i \in DOMAIN groups} \subseteq DOMAIN scenario.specs

\* One tensor of c has layer l of group g, with room for a page of every block; no other
\* layer of the group is in it, which would write the same blocks
HasItsRoom(c, g, l) ==
  \E t \in DOMAIN c.tensors :
    /\ l \in c.tensors[t].shared
    /\ \A u \in DOMAIN c.tensors : l \in c.tensors[u].shared => u = t
    /\ c.tensors[t].size >= PageOf(g, l) * c.num
    /\ c.tensors[t].shared \cap ToSet(g.layers) = {l}

\* In a packed block the pages of different tensors do not overlap, and each ends within
\* the block
PagesAt(c, t) ==
  UNION {{PageOf(g, l) : l \in c.tensors[t].shared \cap ToSet(g.layers)} : g \in ToSet(c.groups)}
EndAt(c, t) == c.tensors[t].offset + Max(PagesAt(c, t))

PackedPagesDisjoint(c) ==
  \A t, u \in DOMAIN c.tensors : c.tensors[t].stride # 0 =>
    /\ EndAt(c, t) <= c.tensors[t].stride
    /\ t # u => EndAt(c, t) <= c.tensors[u].offset \/ EndAt(c, u) <= c.tensors[t].offset

\* Each layer of a worker is in a group and has its room in memory that no other layer
\* writes under the same block, in either layout, and the tensors take no more than the
\* memory the worker measured (with an override, than so many blocks take on it).
EveryLayerHasItsRoom ==
  /\ SizingTypeOK
  /\ Agreed => \A w \in Workers :
       LET c == configs[w] IN
       /\ UNION {ToSet(g.layers) : g \in ToSet(c.groups)} = scenario.owns[w]
       /\ \A g \in ToSet(c.groups) : \A l \in ToSet(g.layers) : HasItsRoom(c, g, l)
       /\ PackedPagesDisjoint(c)
       /\ c.tensors = <<>> \/ Backing(c) <= avail[w]

\* A request of max_model_len tokens, the length that was fitted or asked for, fits in
\* the blocks that are left when the workers have agreed on a number, its blocks fit the
\* row of each block table (with those a recurrent layer keeps for drafts), and as many
\* such requests as the log reports fit at once.  (The last not for groups of several
\* uniform types, whose bytes per block differ.)
AdmittedRequestFits ==
  Agreed /\ groups # <<>> => \A w \in Workers :
    LET pages == RequestPages(groups, maxLen)
        row(s) == IF s.kind = "mamba" THEN PagesFor(s, maxLen) ELSE CeilDiv(maxLen, s.block)
    IN /\ pages <= configs[w].num
       /\ \A i \in DOMAIN tables[w] : row(SpecOf(groups[i])) <= tables[w][i]
       /\ ~(AllUniform(groups) /\ Len(groups) > 1) => Reported(configs[w]) * pages <= configs[w].num

\* Auto-fit lowers the length no more than it must: one token more does not fit in the
\* blocks some worker has.  (Groups of several uniform types are counted by the largest
\* tuple, which may ask for more than the packed blocks take.)
AutoFitIsLargest ==
  Agreed /\ scenario.autoFit /\ maxLen < scenario.maxLen /\ ~(AllUniform(groups) /\ Len(groups) > 1) =>
    \E w \in Workers :
      RequestPages(groups, maxLen + 1) > NumBlocks(Projected(w), avail[w])

\* A boundary the scheduler rounds to is the end of a block in every group, and the keys
\* of a prompt, computed once, name in each group the tokens up to the end of each of
\* its blocks, neither less nor more.
KeysNameWholeBlocks ==
  Agreed /\ Len(groups) > 1 => \A w \in Workers : \A i \in DOMAIN groups :
    LET block == SchedulerSpecs(w)[i].block
        keys(n) == [k \in 1 .. n \div sizes[2] |-> k * sizes[2]]
    IN /\ sizes[1] % block = 0
       /\ FinerKeys(SchedulerSpecs(w)) =>
            \A n \in 1 .. 2 * sizes[1] :
              Coarse(keys(n), block \div sizes[2]) = [b \in 1 .. n \div block |-> b * block]

\* One scheduler plans for all: the workers have as many blocks, and whichever of them
\* it takes its groups from, a block of a group holds as many tokens in every layer.
OneSchedulerForAll ==
  Agreed => \A v, w \in Workers :
    /\ configs[v].num = configs[w].num
    /\ \A i \in DOMAIN configs[v].groups :
         \A s \in Values(configs[w].groups[i].specs) : SchedulerSpecs(v)[i].block = s.block

=============================================================================

------------------------------- MODULE KvGroups -------------------------------
(***************************************************************************)
(* How the attention layers of a model are grouped so that one pool of     *)
(* equal blocks serves them all.  Layers are numbered in the model's       *)
(* order; each has the specification of its KV cache.  A group shares one  *)
(* block table: block b of the group is block b of each of its layers.     *)
(*                                                                         *)
(* The specification classes live in a file that is not in src/; their     *)
(* sizes are modelled from how kv_cache_utils.py uses them.                *)
(***************************************************************************)
EXTENDS Integers, FiniteSets, SequencesExt

CONSTANTS
  MaxBatched,    \* max_num_batched_tokens
  SpecBlocks,    \* num_speculative_blocks of the recurrent layers
  Refused        \* grouping raised

Kinds == {"full", "sliding", "chunked", "mamba", "mla", "swa_mla", "hidden"}

\* A layer's spec: its block in tokens, the bytes of a token (of a recurrent layer, of its
\* state), its window or chunk, the padded page or 0, and whether its backend can pad
Specs == [kind : Kinds, block : Nat \ {0}, bytes : Nat \ {0}, window : Nat, pad : Nat,
          strided : BOOLEAN]

\* FullAttentionSpec and what derives from it; SlidingWindowSpec and what does
IsFull(s) == s.kind \in {"full", "mla"}
IsSliding(s) == s.kind \in {"sliding", "swa_mla"}

CeilDiv(a, b) == (a + b - 1) \div b
RoundUp(a, b) == CeilDiv(a, b) * b

\* page_size_bytes: the bytes of one block in one layer
PageSize(s) ==
  CASE s.pad # 0 -> s.pad
    [] s.pad = 0 /\ s.kind = "mamba" -> s.bytes
    [] OTHER -> s.block * s.bytes

\* The blocks a request of n tokens may hold at a time
PagesFor(s, n) ==
  CASE s.kind = "mamba" -> 1 + SpecBlocks
    [] IsSliding(s) ->
         CeilDiv(IF s.window - 1 + MaxBatched < n THEN s.window - 1 + MaxBatched ELSE n,
                 s.block) + 1
    [] s.kind = "chunked" ->
         CeilDiv(IF s.window + MaxBatched < n THEN s.window + MaxBatched ELSE n, s.block)
    [] OTHER -> CeilDiv(n, s.block)

\* merge accepts all of these specs as one; full layers may differ in their window
Mergeable(S) ==
  \A s, t \in S : \/ s = t
                  \/ s.kind = "full" /\ [s EXCEPT !.window = 0] = [t EXCEPT !.window = 0]

\* UniformTypeKVCacheSpecs.is_uniform_type: one block size and one number of slots
UniformType(S) ==
  \A s, t \in S :
    /\ s.block = t.block
    /\ s.kind = t.kind \/ {s.kind, t.kind} \in {{"full", "mla"}, {"sliding", "swa_mla"}}
    /\ ~IsFull(s) => s.window = t.window

Values(specs) == {specs[l] : l \in DOMAIN specs}

\* A group: its layers in order, and either one spec for all or one for each
Group(layers, uniform, specs) == [layers |-> layers, uniform |-> uniform, specs |-> specs]

\* The elements of S by a total order (SetToSortSeq tries the orders one by one)
Sorted(S, before(_, _)) ==
  [k \in 1 .. Cardinality(S) |->
     CHOOSE x \in S : Cardinality({y \in S : before(y, x)}) = k - 1]
InOrder(S) == Sorted(S, <)

\* Every k-th layer from the i-th: layers[i::k]
Stride(layers, i, k) ==
  [j \in 1 .. CeilDiv(Len(layers) - i + 1, k) |-> layers[i + (j - 1) * k]]

-----------------------------------------------------------------------------
\* unify_kv_cache_spec_page_size, one layer: a smaller page that divides the
\* largest takes more tokens, one that does not is padded if its backend can
Unified(s, page) ==
  CASE PageSize(s) = page -> s
    [] PageSize(s) # page /\ page % PageSize(s) = 0 ->
         [s EXCEPT !.block = @ * (page \div PageSize(s))]
    [] OTHER -> IF s.kind \notin {"mamba", "hidden"} /\ s.strided
                THEN [s EXCEPT !.pad = page] ELSE s

\* All layers of one page size, or Refused: it raises, or its assertion does
UnifyPageSize(specs) ==
  LET page == Max({PageSize(s) : s \in Values(specs)})
      unified == [l \in DOMAIN specs |-> Unified(specs[l], page)]
  IN IF \A s \in Values(unified) : PageSize(s) = page THEN unified ELSE Refused

\* The layers of each spec, by first appearance
SameType(specs) ==
  LET layersOf(s) == InOrder({l \in DOMAIN specs : specs[l] = s})
  IN Sorted({layersOf(s) : s \in Values(specs)}, LAMBDA a, b : a[1] < b[1])

\* The smallest type sets the size of a group, unless the largest is close to it
GroupSizeOf(types) ==
  LET sizes == {Len(types[i]) : i \in DOMAIN types}
  IN IF 2 * Max(sizes) < 3 * Min(sizes) THEN Max(sizes) ELSE Min(sizes)

\* One type's layers over as many groups as it takes, interleaved
Split(layers, size) ==
  LET n == CeilDiv(Len(layers), size) IN [i \in 1 .. n |-> Stride(layers, i, n)]

\* _get_kv_cache_groups_uniform_page_size
GroupsByType(specs) ==
  LET types == SameType(specs)
      size == GroupSizeOf(types)
      split == FlattenSeq([i \in DOMAIN types |-> Split(types[i], size)])
  IN [g \in DOMAIN split |->
        Group(split[g], FALSE, [l \in ToSet(split[g]) |-> specs[split[g][1]]])]

\* A layer of hidden states gets a group of its own, padded to the common page
Hidden(s, page) ==
  [s EXCEPT !.block = IF page \div s.bytes > 1 THEN page \div s.bytes ELSE 1, !.pad = page]

\* The general path of get_kv_cache_groups; with hidden states alone, min of no type raises
HybridGroups(specs) ==
  LET hidden == {l \in DOMAIN specs : specs[l].kind = "hidden"}
      attention == DOMAIN specs \ hidden
      rest == UnifyPageSize([l \in attention |-> specs[l]])
  IN IF attention = {} \/ rest = Refused THEN Refused
     ELSE LET page == Max({PageSize(s) : s \in Values(rest)})
              own == [i \in 1 .. Cardinality(hidden) |->
                        LET l == InOrder(hidden)[i]
                        IN Group(<<l>>, FALSE, [k \in {l} |-> Hidden(specs[k], page)])]
          IN GroupsByType(rest) \o own

-----------------------------------------------------------------------------
\* get_page_sizes and get_num_layer_tuples of the specs of one type
PageSizes(specs) == {PageSize(s) : s \in Values(specs)}
LayersOfPage(specs, p) == {l \in DOMAIN specs : PageSize(specs[l]) = p}
LayerTuples(specs) ==
  Max({Cardinality(LayersOfPage(specs, p)) : p \in PageSizes(specs)})

\* The bytes-free padding a tuple count d costs: each x rounded up to a multiple
Padding(xs, d) == SumFunction([i \in DOMAIN xs |-> RoundUp(xs[i], d) - xs[i]])

\* _approximate_gcd: the count of least padding, the largest of those
ApproximateGcd(xs, low) ==
  LET ds == low .. Max({xs[i] : i \in DOMAIN xs} \cup {low})
  IN CHOOSE d \in ds :
       \A e \in ds : Padding(xs, d) < Padding(xs, e) \/ (Padding(xs, d) = Padding(xs, e) /\ d >= e)

\* group_and_unify_kv_cache_specs: the full layers, then each window's
Windows(specs) ==
  LET swa == {l \in DOMAIN specs : specs[l].kind = "swa_mla"}
      like(l) == {k \in swa : /\ specs[k].block = specs[l].block
                              /\ specs[k].window = specs[l].window}
  IN Sorted({like(l) : l \in swa}, LAMBDA A, B : Min(A) < Min(B))

\* The window layers' pages are padded to the nearest page of the full layers
PaddedTo(s, pages) ==
  LET p == Min({q \in pages : q >= PageSize(s)})
  IN IF PageSize(s) < p THEN [s EXCEPT !.pad = p] ELSE s

PaddedWindow(specs, layers, pages) == [l \in layers |-> PaddedTo(specs[l], pages)]

\* The layers of the i-th of n groups: of each page size, every n-th
Tuple(specs, i, n) ==
  UNION {ToSet(Stride(InOrder(LayersOfPage(specs, p)), i, n)) : p \in PageSizes(specs)}

\* One window's groups, d layer tuples in each
TupleGroups(specs, d) ==
  LET n == CeilDiv(LayerTuples(specs), d)
  IN [i \in 1 .. n |-> LET layers == Tuple(specs, i, n)
                       IN Group(InOrder(layers), TRUE, Restrict(specs, layers))]

FullLayers(specs) == Restrict(specs, {l \in DOMAIN specs : specs[l].kind = "mla"})

\* _get_kv_cache_groups_uniform_groups: groups of whole layer tuples
UniformGroups(specs) ==
  LET full == FullLayers(specs)
      windows == Windows(specs)
      swa == [i \in DOMAIN windows |-> PaddedWindow(specs, windows[i], PageSizes(full))]
      tuples == <<LayerTuples(full)>>
                \o [i \in DOMAIN windows |-> LayerTuples(Restrict(specs, windows[i]))]
      d == ApproximateGcd(tuples, tuples[1])
  IN <<Group(InOrder(DOMAIN full), TRUE, full)>>
     \o FlattenSeq([i \in DOMAIN swa |-> TupleGroups(swa[i], d)])

\* The shapes _get_kv_cache_groups_uniform_groups asserts
UniformGroupsApply(specs) ==
  LET full == FullLayers(specs) IN
  /\ DOMAIN full # {} /\ UniformType(Values(full))
  /\ \A S \in ToSet(Windows(specs)) :
       LET padded == PaddedWindow(specs, S, PageSizes(full))
       IN /\ Max({PageSize(specs[l]) : l \in S}) <= Max(PageSizes(full))
          /\ \A p, q \in PageSizes(padded) :
               Cardinality(LayersOfPage(padded, p)) = Cardinality(LayersOfPage(padded, q))

-----------------------------------------------------------------------------
\* unify_hybrid_kv_cache_specs: without the hybrid manager, layers with a window
\* or chunks are cached like full ones
AsFull(s, block) ==
  CASE s.kind = "swa_mla" -> [s EXCEPT !.kind = "mla", !.block = block, !.window = 0]
    [] s.kind \in {"sliding", "chunked"} -> [s EXCEPT !.kind = "full"]
    [] OTHER -> s

UnifyHybrid(specs) ==
  LET full == {l \in DOMAIN specs : IsFull(specs[l])}
      bounded == {l \in DOMAIN specs : IsSliding(specs[l]) \/ specs[l].kind = "chunked"}
      converted == [l \in DOMAIN specs |-> AsFull(specs[l], specs[Min(full)].block)]
      after == IF full # {} /\ bounded # {} THEN converted ELSE specs
  IN CASE Mergeable(Values(specs)) \/ UniformType(Values(specs)) -> specs
       [] OTHER -> IF Mergeable(Values(after)) \/ UniformType(Values(after)) THEN after
                   ELSE Refused

\* get_kv_cache_groups, on the specs unify_hybrid left
Groups(specs) ==
  CASE DOMAIN specs = {} -> <<>>
    [] DOMAIN specs # {} /\ Mergeable(Values(specs)) ->
         <<Group(InOrder(DOMAIN specs), FALSE, specs)>>
    [] DOMAIN specs # {} /\ ~Mergeable(Values(specs)) /\ UniformType(Values(specs)) ->
         <<Group(InOrder(DOMAIN specs), TRUE, specs)>>
    [] OTHER -> IF \A s \in Values(specs) : s.kind # "swa_mla" THEN HybridGroups(specs)
                ELSE IF UniformGroupsApply(specs) THEN UniformGroups(specs) ELSE Refused
=============================================================================

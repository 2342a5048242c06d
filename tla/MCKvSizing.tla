------------------------------ MODULE MCKvSizing ------------------------------
(* Instances of KvSizing: two workers, up to eight layers, pages of a few bytes. *)
EXTENDS KvSizing

CONSTANTS w1, w2

\* A layer's spec: block tokens of bytes each (a recurrent layer: bytes in all)
Layer(kind, block, bytes, window) ==
  [kind |-> kind, block |-> block, bytes |-> bytes, window |-> window, pad |-> 0,
   strided |-> FALSE]
Full == Layer("full", 4, 2, 0)
Slide == Layer("sliding", 4, 2, 4)
Chunk == Layer("chunked", 4, 2, 4)
State == Layer("mamba", 8, 8, 0)
Wide == Layer("full", 4, 4, 0)
Odd == [Layer("sliding", 4, 3, 4) EXCEPT !.strided = TRUE]
Mla == Layer("mla", 4, 2, 0)
MlaWide == Layer("mla", 4, 4, 0)
SlideMla == Layer("swa_mla", 2, 3, 4)
SlideMlaWide == Layer("swa_mla", 2, 6, 4)

Stages(n, k) == [w \in {w1, w2} |-> IF w = w1 THEN 1 .. k ELSE k + 1 .. n]
Ranks(n) == [w \in {w1, w2} |-> 1 .. n]

Start(specs, owns) ==
  [specs |-> specs, owns |-> owns, maxLen |-> 12, autoFit |-> FALSE, override |-> 0,
   hybrid |-> TRUE, crossLayers |-> FALSE, fixed |-> 0, reserved |-> 0, caching |-> TRUE,
   block |-> 4, hashBlock |-> 0]

\* The served model: three recurrent layers to one of full attention, on two stages
Qwen == <<State, State, State, Full, State, State, State, Full>>
Gemma == <<Full, Slide, Slide, Full, Slide, Slide>>
Deepseek == <<Mla, MlaWide, SlideMla, SlideMlaWide, SlideMla, SlideMlaWide, SlideMla, SlideMlaWide>>

Shapes ==
  {Start(Qwen, Stages(8, 4)), [Start(Qwen, Ranks(8)) EXCEPT !.caching = FALSE],
   [Start(Qwen, Ranks(8)) EXCEPT !.block = 8],
   Start(Gemma, Stages(6, 3)), [Start(Gemma, Ranks(6)) EXCEPT !.crossLayers = TRUE],
   [Start(Gemma, Ranks(6)) EXCEPT !.hybrid = FALSE],
   Start(<<Full, Full, Slide, Slide, Slide>>, Ranks(5)),
   Start(<<Full, Full, Full>>, Stages(3, 2)), Start(<<Full, Full>>, Stages(2, 2)),
   Start(<<Wide, Full, Full>>, Stages(3, 1)),
   Start(<<Full, Full, Chunk>>, Ranks(3)),
   [Start(<<Full, Full, Chunk>>, Ranks(3)) EXCEPT !.hybrid = FALSE],
   [Start(<<Full, State>>, Ranks(2)) EXCEPT !.hybrid = FALSE],
   Start(<<Wide, Slide, Odd>>, Ranks(3)), Start(<<Wide, [Odd EXCEPT !.strided = FALSE]>>, Ranks(2)),
   Start(<<Full, Slide, Layer("hidden", 4, 3, 0)>>, Ranks(3)),
   Start(<<Wide, Slide, Layer("hidden", 4, 5, 0)>>, Ranks(3)),
   [Start(<<Wide, Slide>>, Ranks(2)) EXCEPT !.hashBlock = 3],
   [Start(<<Wide, Slide>>, Ranks(2)) EXCEPT !.hashBlock = 2],
   Start(Deepseek, Ranks(8)), Start(Deepseek \o <<SlideMla>>, Ranks(9)),
   [Start(<<Mla, SlideMla>>, Ranks(2)) EXCEPT !.hybrid = FALSE],
   Start(<<>>, Ranks(0))}

\* Each shape as it is, with the length fitted, with the number of blocks given, and two
\* of them with the memory given or reserved for the frontend
Starts ==
  UNION {{c, [c EXCEPT !.autoFit = TRUE], [c EXCEPT !.override = 7],
          [c EXCEPT !.override = 7, !.autoFit = TRUE]} : c \in Shapes}
  \cup {[Start(Qwen, Ranks(8)) EXCEPT !.fixed = 160, !.reserved = r] : r \in {0, 60, 160}}
  \cup {[Start(Gemma, Stages(6, 3)) EXCEPT !.reserved = 40]}

\* The groups of a type share each worker's layers evenly, so that a pipeline stage does
\* not pad one group while another is full: layers[i::num_groups]
StagesAreEven(gs, own) ==
  \A i, j \in DOMAIN gs :
    ~gs[i].uniform /\ SpecOf(gs[i]) = SpecOf(gs[j]) =>
      Len(Project(gs[i], own).layers) - Len(Project(gs[j], own).layers) <= 1

ASSUME EvenOnEveryShape ==
  \A c \in {c \in Shapes : DOMAIN c.specs # {} /\ Groups(c.specs) # Refused}, w \in Workers :
    StagesAreEven(Groups(c.specs), c.owns[w])

\* No stage of these splits the layer tuples: the one shape that has them is not staged
ASSUME TuplesOnEveryShape == \A c \in Scenarios : KeepsTuples(c)

Memory == {40, 96, 150, 270, 420}
Estimates == {0, 10}
=============================================================================

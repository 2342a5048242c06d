----------------------------- MODULE StartupProofs -----------------------------
(***************************************************************************)
(* From the image to the serving process: the patch of the engine's source  *)
(* (SourcePatch), the directions a loading model claims (Claims) and what   *)
(* stays of them in memory while the worker sleeps and wakes (Worker).      *)
(***************************************************************************)
EXTENDS Worker, Claims, SourcePatch, SequenceTheorems, TLAPS

-----------------------------------------------------------------------------
(***************************************************************************)
(* The claims, for every file, every depth of model, every tranche of      *)
(* layers and every prefix.  The argument: a key is consumed only by the   *)
(* writer it is the direction of, which is then projected; so where the    *)
(* whole file is consumed the whole file is projected.  A prefix that      *)
(* makes no key consumes nothing, so under it no whole model passes the    *)
(* check; and under a prefix that makes keys no layer of the backbone is   *)
(* taken for the drafter's, where the two tests of the build agree.        *)
(***************************************************************************)

KeyOf(w) == <<w[2], SubOf(w)>>

ConfOK ==
  /\ conf.build \in Builds /\ conf.stem \in Stems /\ conf.draft \in DraftStems
  /\ conf.file \in Files /\ conf.range \in Ranges

\* No level above is called a drafter's
Plain == ~ Names(conf.stem, {"mtp", "draft"})

\* Prefixes whose placements are right as they are made
ReadRight == ReadAlike /\ (Plain \/ ~ NoKeyFor(conf.stem))

\* What is placed: a backbone's writer its own direction for the target, the
\* drafter's writers a direction for the draft, unless the mode is off.
PlacedOK ==
  \A w \in Writers : proj[w] # NoProjection =>
    IF w[1] = "backbone" THEN ReadRight => proj[w] = [dir |-> KeyOf(w), role |-> "target"]
    ELSE proj[w].role = "draft" /\ conf.mode # "off"

\* A consumed key is projected, and a prefix without keys consumes none.
ConsumedOK ==
  /\ \A k \in consumed : \E w \in Writers :
       w[1] = "backbone" /\ (ReadRight => proj[w] # NoProjection) /\ k = KeyOf(w)
  /\ NoKeyFor(conf.stem) => consumed = {}

\* Past the check of a whole model, everything is consumed.
CheckedOK == status \in {"checked", "serving"} /\ WholeModel => conf.file \subseteq consumed

ClaimsInv == ConfOK /\ ClaimsTypeOK /\ PlacedOK /\ ConsumedOK /\ CheckedOK

\* Where the prefix is read alike and makes keys, or is plain, no layer of the backbone
\* is taken for the drafter's.
LEMMA NotTheDrafters ==
  ASSUME ReadRight, ConfOK
  PROVE  ~ IsDraft(conf.stem)
<1>1. conf.build \in {"base", "port"}
  BY ClaimsAssumption DEF ConfOK
<1>2. CASE conf.build = "port"
  BY <1>2 DEF ReadRight, Plain, NoKeyFor, Names, IsDraft
<1>3. CASE conf.build = "base"
  BY <1>3 DEF ReadRight, ReadAlike, IsDraft
<1>4. QED
  BY <1>1, <1>2, <1>3

\* A layer of the backbone claims none but its writers' own keys, and where it is read
\* right it gets, for each of its writers, the writer's own if the file has it.
LEMMA BackboneLayer ==
  ASSUME ConfOK, NEW i \in 0 .. NumLayers - 1
  PROVE  LET layer == Layer(conf.stem, i, AttnSub(i))
             mine == IF NoKeyFor(conf.stem) THEN {}
                     ELSE {<<i, AttnSub(i)>>, <<i, "mlp.down_proj">>} \cap conf.file
             Own(k) == IF k \in mine THEN [dir |-> k, role |-> "target"] ELSE NoProjection
         IN /\ layer.keys \subseteq mine
            /\ ReadRight => /\ layer.attn = Own(<<i, AttnSub(i)>>)
                            /\ layer.mlp = Own(<<i, "mlp.down_proj">>)
<1> DEFINE k1 == <<i, AttnSub(i)>>
           k2 == <<i, "mlp.down_proj">>
           layer == Layer(conf.stem, i, AttnSub(i))
           mine == IF NoKeyFor(conf.stem) THEN {} ELSE {k1, k2} \cap conf.file
           Own(k) == IF k \in mine THEN [dir |-> k, role |-> "target"] ELSE NoProjection
           r1 == ResolveDirection(conf.stem, i, AttnSub(i))
           r2 == ResolveDirection(conf.stem, i, "mlp.down_proj")
<1>1. AttnSub(i) \in Sublayers /\ "mlp.down_proj" \in Sublayers
  BY DEF AttnSub, Sublayers
<1>2. i \in Nat
  BY ClaimsAssumption
<1>3. k1 # NoKey /\ k2 # NoKey
  BY <1>1, <1>2, ClaimsAssumption DEF Keys
<1>4. NoKey \notin conf.file
  BY ClaimsAssumption DEF ConfOK
<1>5. r1 = (IF k1 \in mine THEN k1 ELSE NoKey) /\ r2 = (IF k2 \in mine THEN k2 ELSE NoKey)
  <2>1. CASE NoKeyFor(conf.stem)
    BY <1>4, <2>1 DEF ResolveDirection, CkptKey
  <2>2. CASE ~ NoKeyFor(conf.stem)
    BY <2>2 DEF ResolveDirection, CkptKey
  <2>3. QED
    BY <2>1, <2>2
<1>6. layer.keys \subseteq mine
  <2>1. layer.keys \subseteq {r1, r2} \ {NoKey}
    BY DEF Layer
  <2>2. QED
    BY <1>3, <1>5, <2>1
<1>7. ASSUME ReadRight
      PROVE  layer.attn = Own(k1) /\ layer.mlp = Own(k2)
  <2>1. ~ IsDraft(conf.stem)
    BY <1>7, NotTheDrafters
  <2>2. layer.attn = Projection(r1, conf.stem) /\ layer.mlp = Projection(r2, conf.stem)
    BY <2>1 DEF Layer
  <2>3. Projection(r1, conf.stem) = Own(k1)
    BY <1>3, <1>5, <2>1 DEF Projection
  <2>4. Projection(r2, conf.stem) = Own(k2)
    BY <1>3, <1>5, <2>1 DEF Projection
  <2>5. QED
    BY <2>2, <2>3, <2>4
<1>8. QED
  BY <1>6, <1>7

\* The drafter's layer claims nothing, and takes a direction unless the mode is off.
LEMMA DraftLayer ==
  ASSUME ConfOK
  PROVE  LET layer == Layer(conf.draft, 0, "self_attn.o_proj") IN
         /\ layer.keys = {}
         /\ \A p \in {layer.attn, layer.mlp} :
              p # NoProjection => p.role = "draft" /\ conf.mode # "off"
<1>1. NoKeyFor(conf.draft) /\ IsDraft(conf.draft)
  <2>1. conf.draft[1] # "model" /\ "mtp" \in Image(conf.draft)
    BY DraftStemsAssumption DEF ConfOK
  <2>2. QED
    BY <2>1 DEF NoKeyFor, IsDraft, Names
<1>2. NoKey \notin conf.file
  BY ClaimsAssumption DEF ConfOK
<1>3. \A sub : ResolveDirection(conf.draft, 0, sub) = NoKey
  BY <1>1, <1>2 DEF ResolveDirection, CkptKey
<1> DEFINE layer == Layer(conf.draft, 0, "self_attn.o_proj")
           p == Projection(ResolveMtpDirection, conf.draft)
<1>5. layer.keys = {} /\ layer.attn = p /\ layer.mlp = p
  BY <1>1, <1>3 DEF Layer
<1>6. conf.mode = "off" => p = NoProjection
  BY DEF Projection, ResolveMtpDirection
<1>7. p # NoProjection => p = [dir |-> ResolveMtpDirection, role |-> "draft"]
  BY <1>1 DEF Projection
<1>8. p # NoProjection => p.role = "draft"
  <2>1. [dir |-> ResolveMtpDirection, role |-> "draft"].role = "draft"
    OBVIOUS
  <2>2. QED
    BY <1>7, <2>1
<1>9. QED
  BY <1>5, <1>6, <1>8

LEMMA ClaimsInitInv == ClaimsInit => ClaimsInv
<1> SUFFICES ASSUME ClaimsInit PROVE ClaimsInv
  OBVIOUS
<1>1. PICK build \in Builds, stem \in Stems, draft \in DraftStems, file \in Files, mode \in Modes,
           range \in Ranges :
        /\ conf = [build |-> build, stem |-> stem, draft |-> draft, file |-> file,
                   mode |-> mode, range |-> range]
        /\ next = range[1]
  BY DEF ClaimsInit
<1>2. ConfOK
  BY <1>1 DEF ConfOK
<1>3. next \in conf.range[1] .. conf.range[2]
  <2>1. range[1] \in 0 .. NumLayers /\ range[2] \in 0 .. NumLayers /\ range[1] <= range[2]
    BY ClaimsAssumption
  <2>2. conf.range = range
    BY <1>1
  <2>3. QED
    BY <1>1, <2>1, <2>2, ClaimsAssumption
<1>4. QED
  BY <1>2, <1>3 DEF ClaimsInit, ClaimsInv, ClaimsTypeOK, PlacedOK, ConsumedOK, CheckedOK

\* Building a layer of the backbone.
LEMMA BuildLayerInv == ClaimsInv /\ BuildLayer => ClaimsInv'
<1> SUFFICES ASSUME ClaimsInv, BuildLayer PROVE ClaimsInv'
  OBVIOUS
<1> DEFINE layer == Layer(conf.stem, next, AttnSub(next))
           wa == <<"backbone", next, "attn">>
           wm == <<"backbone", next, "mlp">>
           ka == <<next, AttnSub(next)>>
           km == <<next, "mlp.down_proj">>
           mine == IF NoKeyFor(conf.stem) THEN {} ELSE {ka, km} \cap conf.file
           Own(k) == IF k \in mine THEN [dir |-> k, role |-> "target"] ELSE NoProjection
<1>1. /\ conf' = conf /\ status' = status /\ status = "building" /\ next < conf.range[2]
      /\ next' = next + 1 /\ consumed' = consumed \cup layer.keys
      /\ proj' = [proj EXCEPT ![wa] = layer.attn, ![wm] = layer.mlp]
  BY DEF BuildLayer, Place
<1>2. /\ conf.range[1] \in 0 .. NumLayers /\ conf.range[2] \in 0 .. NumLayers
      /\ NumLayers \in Nat
  BY ClaimsAssumption DEF ClaimsInv, ConfOK
<1>3. next \in conf.range[1] .. conf.range[2] /\ next \in 0 .. NumLayers - 1
  BY <1>1, <1>2 DEF ClaimsInv, ClaimsTypeOK
<1>4. wa \in Writers /\ wm \in Writers /\ wa # wm
  BY <1>3 DEF Writers
<1>5. layer.keys \subseteq mine /\ (ReadRight => layer.attn = Own(ka) /\ layer.mlp = Own(km))
  BY <1>3, BackboneLayer DEF ClaimsInv
<1> HIDE DEF layer, mine
<1>a. mine \subseteq {ka, km} \cap conf.file /\ (NoKeyFor(conf.stem) => mine = {})
  BY DEF mine
<1>b. ReadRight' = ReadRight /\ NoKeyFor(conf.stem)' = NoKeyFor(conf.stem)
  BY <1>1 DEF ReadRight, ReadAlike, Plain, NoKeyFor, Names
<1>6. KeyOf(wa) = ka /\ KeyOf(wm) = km
  BY DEF KeyOf, SubOf
<1>7. /\ ReadRight => proj'[wa] = Own(ka) /\ proj'[wm] = Own(km)
      /\ \A w \in Writers \ {wa, wm} : proj'[w] = proj[w]
      /\ DOMAIN proj' = Writers
  BY <1>1, <1>4, <1>5 DEF ClaimsInv, ClaimsTypeOK
<1>8. ConfOK'
  BY <1>1 DEF ClaimsInv, ConfOK
<1>9. ClaimsTypeOK'
  BY <1>1, <1>2, <1>3, <1>5, <1>a, <1>7 DEF ClaimsInv, ClaimsTypeOK
<1>10. PlacedOK'
  <2> SUFFICES ASSUME NEW w \in Writers, proj'[w] # NoProjection
               PROVE  IF w[1] = "backbone"
                      THEN ReadRight => proj'[w] = [dir |-> KeyOf(w), role |-> "target"]
                      ELSE proj'[w].role = "draft" /\ conf.mode # "off"
    BY <1>1, <1>b DEF PlacedOK, KeyOf, SubOf
  <2>1. CASE w = wa
    BY <2>1, <1>6, <1>7
  <2>2. CASE w = wm
    BY <2>2, <1>6, <1>7
  <2>3. CASE w \notin {wa, wm}
    BY <2>3, <1>7 DEF ClaimsInv, PlacedOK
  <2>4. QED
    BY <2>1, <2>2, <2>3
<1>11. ConsumedOK'
  <2>1. NoKeyFor(conf.stem) => consumed' = {}
    BY <1>1, <1>5, <1>a DEF ClaimsInv, ConsumedOK
  <2>2. ASSUME NEW k \in consumed'
        PROVE  \E w \in Writers :
                 w[1] = "backbone" /\ (ReadRight => proj'[w] # NoProjection) /\ k = KeyOf(w)
    <3>1. wa[1] = "backbone" /\ wm[1] = "backbone"
      OBVIOUS
    <3>2. CASE k \in layer.keys
      <4>1. k \in mine /\ k \in conf.file /\ k \in Keys
        BY <1>5, <1>a, <3>2, ClaimsAssumption DEF ClaimsInv, ConfOK
      <4>2. Own(k) # NoProjection
        BY <4>1, ClaimsAssumption
      <4>3. k = ka \/ k = km
        BY <1>a, <4>1
      <4>4. QED
        BY <1>4, <1>6, <1>7, <3>1, <4>2, <4>3
    <3>3. CASE k \in consumed /\ k \notin {ka, km}
      <4>1. PICK w \in Writers :
              w[1] = "backbone" /\ (ReadRight => proj[w] # NoProjection) /\ k = KeyOf(w)
        BY <3>3 DEF ClaimsInv, ConsumedOK
      <4>2. w \notin {wa, wm}
        BY <1>6, <3>3, <4>1
      <4>3. QED
        BY <1>7, <4>1, <4>2
    <3>4. CASE k \in consumed /\ k \in {ka, km}
      <4>1. ~ NoKeyFor(conf.stem) /\ k \in conf.file /\ k \in Keys
        BY <3>4, ClaimsAssumption DEF ClaimsInv, ClaimsTypeOK, ConsumedOK, ConfOK
      <4>2. k \in mine
        BY <3>4, <4>1 DEF mine
      <4>3. Own(k) # NoProjection
        BY <4>1, <4>2, ClaimsAssumption
      <4>4. QED
        BY <1>4, <1>6, <1>7, <3>1, <3>4, <4>3
    <3>5. QED
      BY <1>1, <3>2, <3>3, <3>4
  <2>3. \A w : KeyOf(w)' = KeyOf(w)
    BY DEF KeyOf, SubOf
  <2>4. QED
    BY <1>b, <2>1, <2>2, <2>3 DEF ConsumedOK
<1>12. CheckedOK'
  BY <1>1 DEF CheckedOK
<1>13. QED
  BY <1>8, <1>9, <1>10, <1>11, <1>12 DEF ClaimsInv

\* Building the drafter's.
LEMMA BuildDrafterInv == ClaimsInv /\ BuildDrafter => ClaimsInv'
<1> SUFFICES ASSUME ClaimsInv, BuildDrafter PROVE ClaimsInv'
  OBVIOUS
<1> DEFINE layer == Layer(conf.draft, 0, "self_attn.o_proj")
           wa == <<"draft", 0, "attn">>
           wm == <<"draft", 0, "mlp">>
<1>1. /\ conf' = conf /\ status = "checked" /\ status' = "serving" /\ next' = next
      /\ consumed' = consumed \cup layer.keys
      /\ proj' = [proj EXCEPT ![wa] = layer.attn, ![wm] = layer.mlp]
  BY DEF BuildDrafter, Place
<1>2. /\ layer.keys = {}
      /\ \A p \in {layer.attn, layer.mlp} :
           p # NoProjection => p.role = "draft" /\ conf.mode # "off"
  BY DraftLayer DEF ClaimsInv
<1>3. consumed' = consumed
  BY <1>1, <1>2
<1>4. wa \in Writers /\ wm \in Writers /\ wa # wm /\ wa[1] = "draft" /\ wm[1] = "draft"
  BY DEF Writers
<1>5. /\ proj'[wa] = layer.attn /\ proj'[wm] = layer.mlp
      /\ \A w \in Writers \ {wa, wm} : proj'[w] = proj[w]
      /\ DOMAIN proj' = Writers
  BY <1>1, <1>4 DEF ClaimsInv, ClaimsTypeOK
<1>6. ConfOK' /\ ClaimsTypeOK'
  BY <1>1, <1>3, <1>5 DEF ClaimsInv, ClaimsTypeOK, ConfOK
<1>b. ReadRight' = ReadRight /\ NoKeyFor(conf.stem)' = NoKeyFor(conf.stem)
  BY <1>1 DEF ReadRight, ReadAlike, Plain, NoKeyFor, Names
<1>7. PlacedOK'
  <2> SUFFICES ASSUME NEW w \in Writers, proj'[w] # NoProjection
               PROVE  IF w[1] = "backbone"
                      THEN ReadRight => proj'[w] = [dir |-> KeyOf(w), role |-> "target"]
                      ELSE proj'[w].role = "draft" /\ conf.mode # "off"
    BY <1>1, <1>b DEF PlacedOK, KeyOf, SubOf
  <2>1. CASE w \in {wa, wm}
    BY <2>1, <1>2, <1>4, <1>5
  <2>2. CASE w \notin {wa, wm}
    BY <2>2, <1>5 DEF ClaimsInv, PlacedOK
  <2>3. QED
    BY <2>1, <2>2
<1>8. ConsumedOK'
  <2>1. ASSUME NEW k \in consumed
        PROVE  \E w \in Writers :
                 w[1] = "backbone" /\ (ReadRight => proj'[w] # NoProjection) /\ k = KeyOf(w)
    <3>1. PICK w \in Writers :
            w[1] = "backbone" /\ (ReadRight => proj[w] # NoProjection) /\ k = KeyOf(w)
      BY DEF ClaimsInv, ConsumedOK
    <3>2. w \notin {wa, wm}
      BY <3>1, <1>4
    <3>3. QED
      BY <3>1, <3>2, <1>5
  <2>2. \A w : KeyOf(w)' = KeyOf(w)
    BY DEF KeyOf, SubOf
  <2>3. QED
    BY <1>3, <1>b, <2>1, <2>2 DEF ClaimsInv, ConsumedOK
<1>9. CheckedOK'
  BY <1>1, <1>3 DEF ClaimsInv, CheckedOK, WholeModel
<1>10. QED
  BY <1>6, <1>7, <1>8, <1>9 DEF ClaimsInv

LEMMA ClaimsNextInv == ClaimsInv /\ [ClaimsNext]_claimsVars => ClaimsInv'
<1> SUFFICES ASSUME ClaimsInv, [ClaimsNext]_claimsVars PROVE ClaimsInv'
  OBVIOUS
<1>1. CASE BuildLayer
  BY <1>1, BuildLayerInv
<1>2. CASE Verify
  <2>1. /\ conf' = conf /\ next' = next /\ consumed' = consumed /\ proj' = proj
        /\ status' = IF WholeModel /\ ~ conf.file \subseteq consumed
                     THEN "aborted" ELSE "checked"
    BY <1>2 DEF Verify
  <2>2. CheckedOK'
    BY <2>1 DEF CheckedOK, WholeModel
  <2>3. QED
    BY <2>1, <2>2 DEF ClaimsInv, ConfOK, ClaimsTypeOK, PlacedOK, ConsumedOK, KeyOf, SubOf,
                      ReadRight, ReadAlike, Plain, NoKeyFor, Names
<1>3. CASE BuildDrafter
  BY <1>3, BuildDrafterInv
<1>4. CASE UNCHANGED claimsVars
  BY <1>4 DEF claimsVars, ClaimsInv, ConfOK, ClaimsTypeOK, PlacedOK, ConsumedOK, CheckedOK, WholeModel,
              KeyOf, SubOf, ReadRight, ReadAlike, Plain, NoKeyFor, Names
<1>5. CASE Settled
  BY <1>4, <1>5 DEF Settled
<1>6. QED
  BY <1>1, <1>2, <1>3, <1>4, <1>5 DEF ClaimsNext

LEMMA ClaimsInvariance == ClaimsSpec => []ClaimsInv
BY ClaimsInitInv, ClaimsNextInv, PTL DEF ClaimsSpec

\* Type correctness: among others, nothing is consumed that the file does not have.
THEOREM ClaimsTypes == ClaimsSpec => []ClaimsTypeOK
<1>1. ClaimsInv => ClaimsTypeOK
  BY DEF ClaimsInv
<1>2. QED
  BY <1>1, ClaimsInvariance, PTL

\* A whole model that serves under a prefix read alike was read right.
LEMMA ServedRight ==
  ASSUME ClaimsInv, status = "serving", WholeModel, ReadAlike
  PROVE  ReadRight /\ conf.file \subseteq consumed
<1>1. conf.file \subseteq consumed
  BY DEF ClaimsInv, CheckedOK
<1>2. conf.file # {}
  BY ClaimsAssumption DEF ClaimsInv, ConfOK
<1>3. QED
  BY <1>1, <1>2 DEF ClaimsInv, ConsumedOK, ReadRight

\* verify_all_consumed: a whole model that serves has every direction of its file on
\* the writer the direction was measured at, for any file and any number of layers.
THEOREM FullyAblated == ClaimsSpec => []NeverHalfAblated
<1>1. ClaimsInv => NeverHalfAblated
  <2> SUFFICES ASSUME ClaimsInv, status = "serving", WholeModel, ReadAlike, NEW k \in conf.file
               PROVE  \E w \in Writers : /\ w[1] = "backbone" /\ proj[w] # NoProjection
                                         /\ k = <<w[2], SubOf(w)>>
    BY DEF NeverHalfAblated
  <2>1. k \in consumed /\ ReadRight
    BY ServedRight
  <2>2. QED
    BY <2>1 DEF ClaimsInv, ConsumedOK, KeyOf
<1>2. QED
  BY <1>1, ClaimsInvariance, PTL

\* resolve_direction, resolve_mtp_direction: no writer of the backbone is given
\* another's direction, and none of the drafter's any where the mode is off.
THEOREM OwnDirections == ClaimsSpec => []EachWriterItsOwn
<1>1. ClaimsInv => EachWriterItsOwn
  <2> SUFFICES ASSUME ClaimsInv, NEW w \in Writers, proj[w] # NoProjection
               PROVE  IF w[1] = "backbone"
                      THEN ReadAlike /\ (Names(conf.stem, {"mtp", "draft"})
                                           => status = "serving" /\ WholeModel)
                             => proj[w].dir = <<w[2], SubOf(w)>>
                      ELSE conf.mode # "off"
    BY DEF EachWriterItsOwn
  <2>1. ReadAlike /\ (Names(conf.stem, {"mtp", "draft"}) => status = "serving" /\ WholeModel)
          => ReadRight
    BY ServedRight DEF ReadRight, Plain
  <2>2. \A k : [dir |-> k, role |-> "target"].dir = k
    OBVIOUS
  <2>3. QED
    BY <2>1, <2>2 DEF ClaimsInv, PlacedOK, KeyOf
<1>2. QED
  BY <1>1, ClaimsInvariance, PTL

\* verify_all_consumed: whatever the engine calls the backbone, a whole model that serves
\* reads the target's buffer with it and the drafter's with the drafter.
THEOREM RightOrRefused == ClaimsSpec => []RenamedOrRefused
<1>1. ClaimsInv => RenamedOrRefused
  <2> SUFFICES ASSUME ClaimsInv, status = "serving", WholeModel, ReadAlike,
                      NEW w \in Writers, proj[w] # NoProjection
               PROVE  proj[w].role = IF w[1] = "backbone" THEN "target" ELSE "draft"
    BY DEF RenamedOrRefused
  <2>1. ReadRight
    BY ServedRight
  <2>2. \A k : [dir |-> k, role |-> "target"].role = "target"
    OBVIOUS
  <2>3. QED
    BY <2>1, <2>2 DEF ClaimsInv, PlacedOK
<1>2. QED
  BY <1>1, ClaimsInvariance, PTL

-----------------------------------------------------------------------------
(***************************************************************************)
(* The patches.  Both scripts' lists of anchors are fixed; the base tree,  *)
(* the way they are run and the runs over one tree are not.                *)
(***************************************************************************)

SourceFiles ==
  {"qwen3_5", "qwen2_moe", "scheduler", "http_server", "forward_batch_info",
   "output", "model_runner", "kv_cache_utils", "gpu_worker", "serve"}

AnchorType == [file : SourceFiles, kept : BOOLEAN]

LEMMA AnchorKinds ==
  \A f \in SourceFiles :
    Kept(f) \in AnchorType /\ Dropped(f) \in AnchorType /\ ~ Dropped(f).kept
BY DEF AnchorType, Kept, Dropped

LEMMA LongerKeepsFirst ==
  ASSUME NEW S, NEW a \in Seq(S), NEW b \in Seq(S), NEW n \in Nat, n >= 5, Len(a) >= n
  PROVE  /\ a \o b \in Seq(S) /\ Len(a \o b) >= n
         /\ (a \o b)[1] = a[1] /\ (a \o b)[5] = a[5]
BY ConcatProperties, LenProperties

\* The lists of anchors are sequences, and each script has an anchor that its
\* replacement removes: a second run over a patched tree cannot pass it.
LEMMA SglangAnchors ==
  /\ Sglang \in Seq(AnchorType)
  /\ 5 \in DOMAIN Sglang /\ ~ Sglang[5].kept
<1> DEFINE T1 == PatchModel \o PatchMlp
           T2 == T1 \o PatchScheduler
           T3 == T2 \o PatchHttpServer
<1>1. /\ PatchModel \in Seq(AnchorType) /\ Len(PatchModel) >= 5 /\ ~ PatchModel[5].kept
  BY AnchorKinds DEF PatchModel, SourceFiles
<1>2. PatchMlp \in Seq(AnchorType)
  BY AnchorKinds DEF PatchMlp, SourceFiles
<1>3. PatchScheduler \in Seq(AnchorType)
  BY AnchorKinds DEF PatchScheduler, SourceFiles
<1>4. PatchHttpServer \in Seq(AnchorType)
  BY AnchorKinds DEF PatchHttpServer, SourceFiles
<1>5. PatchForwardBatch \in Seq(AnchorType)
  BY AnchorKinds DEF PatchForwardBatch, SourceFiles
<1> HIDE DEF T1, T2, T3
<1>6. T1 \in Seq(AnchorType) /\ Len(T1) >= 5 /\ T1[5] = PatchModel[5]
  BY <1>1, <1>2, LongerKeepsFirst DEF T1
<1>7. T2 \in Seq(AnchorType) /\ Len(T2) >= 5 /\ T2[5] = PatchModel[5]
  BY <1>6, <1>3, LongerKeepsFirst DEF T2
<1>8. T3 \in Seq(AnchorType) /\ Len(T3) >= 5 /\ T3[5] = PatchModel[5]
  BY <1>7, <1>4, LongerKeepsFirst DEF T3
<1>9. Sglang = T3 \o PatchForwardBatch
  BY DEF Sglang, T1, T2, T3
<1>10. Sglang \in Seq(AnchorType) /\ Len(Sglang) >= 5 /\ Sglang[5] = PatchModel[5]
  BY <1>8, <1>5, <1>9, LongerKeepsFirst
<1>11. QED
  BY <1>1, <1>10, LenProperties

LEMMA VllmAnchors ==
  /\ Vllm \in Seq(AnchorType)
  /\ 1 \in DOMAIN Vllm /\ ~ Vllm[1].kept
<1> DEFINE T1 == PatchQwen \o PatchSchedOutput
           T2 == T1 \o PatchModelRunner
           T3 == T2 \o PatchKvCache
           T4 == T3 \o PatchWorker
<1>1. /\ PatchQwen \in Seq(AnchorType) /\ Len(PatchQwen) >= 5 /\ ~ PatchQwen[1].kept
  BY AnchorKinds DEF PatchQwen, SourceFiles
<1>2. PatchSchedOutput \in Seq(AnchorType)
  BY AnchorKinds DEF PatchSchedOutput, SourceFiles
<1>3. PatchModelRunner \in Seq(AnchorType)
  BY AnchorKinds DEF PatchModelRunner, SourceFiles
<1>4. PatchKvCache \in Seq(AnchorType)
  BY AnchorKinds DEF PatchKvCache, SourceFiles
<1>5. PatchWorker \in Seq(AnchorType)
  BY AnchorKinds DEF PatchWorker, SourceFiles
<1>6. PatchServe \in Seq(AnchorType)
  BY AnchorKinds DEF PatchServe, SourceFiles
<1> HIDE DEF T1, T2, T3, T4
<1>7. T1 \in Seq(AnchorType) /\ Len(T1) >= 5 /\ T1[1] = PatchQwen[1]
  BY <1>1, <1>2, LongerKeepsFirst DEF T1
<1>8. T2 \in Seq(AnchorType) /\ Len(T2) >= 5 /\ T2[1] = PatchQwen[1]
  BY <1>7, <1>3, LongerKeepsFirst DEF T2
<1>9. T3 \in Seq(AnchorType) /\ Len(T3) >= 5 /\ T3[1] = PatchQwen[1]
  BY <1>8, <1>4, LongerKeepsFirst DEF T3
<1>10. T4 \in Seq(AnchorType) /\ Len(T4) >= 5 /\ T4[1] = PatchQwen[1]
  BY <1>9, <1>5, LongerKeepsFirst DEF T4
<1>11. Vllm = T4 \o PatchServe
  BY DEF Vllm, T1, T2, T3, T4
<1>12. Vllm \in Seq(AnchorType) /\ Len(Vllm) >= 5 /\ Vllm[1] = PatchQwen[1]
  BY <1>10, <1>6, <1>11, LongerKeepsFirst
<1>13. QED
  BY <1>1, <1>12, LenProperties

\* What the proofs use of the two scripts.
LEMMA AnchorsOfAScript ==
  ASSUME script \in DOMAIN Scripts
  PROVE  /\ Anchors \in Seq(AnchorType) /\ Len(Anchors) \in Nat
         /\ Sites = 1 .. Len(Anchors)
         /\ \E s \in Sites : ~ Anchors[s].kept
<1>1. Anchors \in Seq(AnchorType) /\ \E s \in DOMAIN Anchors : ~ Anchors[s].kept
  <2>1. CASE script = "sglang"
    BY <2>1, SglangAnchors DEF Anchors, Scripts
  <2>2. CASE script = "vllm"
    BY <2>2, VllmAnchors DEF Anchors, Scripts
  <2>3. QED
    BY <2>1, <2>2 DEF Scripts
<1>2. QED
  BY <1>1, LenProperties DEF Sites

-----------------------------------------------------------------------------
(***************************************************************************)
(* The invariant.  An anchor that goes with its replacement is gone once   *)
(* the replacement was written, in part or whole, and no attempt passes it *)
(* again; so an attempt that gets past the first such anchor is the first  *)
(* to write there, and what lies beyond is still the base's.               *)
(***************************************************************************)

Running == pc \in {"copy", "replace", "write", "exited"}

\* The sites this run has passed
Passed == 1 .. site - 1

\* What was written is a beginning of the list, and what was not is not in the tree.
WrittenOK ==
  /\ \A s \in written : (~ Anchors[s].kept => count[s] = 0) /\ 1 .. s \subseteq written
  /\ \A s \in Sites \ written : done[s] = 0

\* A run has written all it has passed.
AtOK ==
  /\ Running => Passed \subseteq written /\ \A s \in Passed : done[s] >= 1
  /\ pc = "copy" => site = 1
  /\ pc = "write" => site \in Sites /\ count[site] = 1
  /\ pc = "exited" => site = Len(Anchors) + 1
  /\ pc \in {"replace", "write", "exited"} /\ script = "sglang" => payload

\* A run past an anchor that goes is the first there.
Beyond == Running /\ ~(Passed \subseteq Redone)

BeyondOK == Beyond => written = Passed /\ \A s \in written \ Redone : done[s] = 1

\* Files that no attempt but this run has reached are whole and the base's.
FreshOK ==
  written \subseteq Redone \/ Beyond =>
    /\ torn \subseteq FilesOf(Redone)
    /\ \A s \in Sites :
         FileOf(s) \notin FilesOf(Redone) =>
           IF s \in written THEN base[s] = 1 ELSE count[s] = base[s]

BuildOK == Running /\ way = "image" => written = Passed /\ \A s \in Passed : done[s] = 1

ImageOK == image # <<>> => image = [s \in Sites |-> 1]

PatchInv == PatchTypeOK /\ WrittenOK /\ AtOK /\ BeyondOK /\ FreshOK /\ BuildOK /\ ImageOK

LEMMA MovedType ==
  ASSUME NEW moves \in [1 .. MaxMoved -> Sites \X (0 .. 2)]
  PROVE  Moved(moves) \in [Sites -> 0 .. 2]
<1>1. ASSUME NEW s \in Sites
      PROVE  Moved(moves)[s] \in 0 .. 2
  <2> DEFINE at == {i \in DOMAIN moves : moves[i][1] = s}
  <2>1. Moved(moves)[s] = IF at = {} THEN 1 ELSE moves[CHOOSE i \in at : TRUE][2]
    BY <1>1 DEF Moved
  <2>2. CASE at = {}
    BY <2>1, <2>2
  <2>3. CASE at # {}
    <3>1. (CHOOSE i \in at : TRUE) \in 1 .. MaxMoved
      BY <2>3
    <3>2. QED
      BY <2>1, <2>3, <3>1
  <2>4. QED
    BY <2>2, <2>3
<1>2. QED
  BY <1>1 DEF Moved

LEMMA PatchInitInv == PatchInit => PatchInv
<1> SUFFICES ASSUME PatchInit PROVE PatchInv
  OBVIOUS
<1>1. /\ base \in [Sites -> 0 .. 2] /\ script \in DOMAIN Scripts /\ way \in Ways
      /\ version \in BOOLEAN /\ payload \in BOOLEAN
      /\ count = base /\ done = [s \in Sites |-> 0] /\ torn = {} /\ written = {}
      /\ pc = "idle" /\ site = 1 /\ runs = 0 /\ cuts = 0 /\ image = <<>>
  BY MovedType DEF PatchInit
<1>2. Len(Anchors) \in Nat
  BY <1>1, AnchorsOfAScript
<1>3. PatchTypeOK
  <2>1. \A s \in Sites : count[s] <= base[s]
    BY <1>1
  <2>2. runs \in 0 .. MaxRuns /\ cuts \in 0 .. MaxCuts
    BY <1>1, PatchAssumption
  <2>3. QED
    BY <1>1, <1>2, <2>1, <2>2 DEF PatchTypeOK
<1>4. WrittenOK /\ AtOK /\ BeyondOK /\ FreshOK /\ BuildOK /\ ImageOK
  BY <1>1 DEF WrittenOK, AtOK, BeyondOK, Beyond, FreshOK, BuildOK, ImageOK, Running
<1>5. QED
  BY <1>3, <1>4 DEF PatchInv

\* The texts before and after a replacement.
LEMMA TextAfter ==
  ASSUME PatchTypeOK, pc = "write", site \in Sites, count[site] = 1
  PROVE  /\ CountAfter \in [Sites -> 0 .. 2] /\ DoneAfter \in [Sites -> 0 .. 2]
         /\ CountAfter[site] = IF Anchors[site].kept THEN 1 ELSE 0
         /\ DoneAfter[site] >= 1 /\ (done[site] = 0 => DoneAfter[site] = 1)
         /\ \A s \in Sites \ {site} : CountAfter[s] = count[s] /\ DoneAfter[s] = done[s]
         /\ \A s \in Sites : CountAfter[s] <= count[s]
<1>1. count \in [Sites -> 0 .. 2] /\ done \in [Sites -> 0 .. 2]
  BY DEF PatchTypeOK
<1>2. DoneAfter = [s \in Sites |->
                    IF s = site THEN (IF done[s] = 0 THEN 1 ELSE 2) ELSE done[s]]
  BY <1>1 DEF DoneAfter
<1>3. CASE Anchors[site].kept
  <2>1. CountAfter = count
    BY <1>3 DEF CountAfter
  <2>2. QED
    BY <1>1, <1>2, <1>3, <2>1
<1>4. CASE ~ Anchors[site].kept
  <2>1. CountAfter = [count EXCEPT ![site] = @ - 1] /\ count[site] - 1 = 0
    BY <1>4 DEF CountAfter
  <2>2. QED
    BY <1>1, <1>2, <1>4, <2>1
<1>5. QED
  BY <1>3, <1>4

\* An attempt begins.
LEMMA MainStep == ASSUME PatchInv, Main PROVE PatchInv'
<1>1. /\ UNCHANGED <<script, way, base, version, cuts, image>>
      /\ pc' \in {"copy", "replace", "died"} /\ site' = 1 /\ runs' = runs + 1 /\ runs < MaxRuns
      /\ pc' = "replace" => script = "vllm"
  BY DEF Main, Begin, PatchInv, PatchTypeOK, Scripts
<1>2. /\ PatchTypeOK /\ Len(Anchors) \in Nat
      /\ Anchors' = Anchors /\ Sites' = Sites /\ Redone' = Redone
      /\ \A s : FileOf(s)' = FileOf(s)
      /\ FilesOf(Redone)' = FilesOf(Redone) /\ FilesOf(Sites)' = FilesOf(Sites)
  BY <1>1, AnchorsOfAScript DEF PatchInv, PatchTypeOK, Anchors, Sites, Redone, FileOf, FilesOf
<1>3. Passed' = {}
  BY <1>1 DEF Passed
<1>4. /\ AtOK' /\ BeyondOK' /\ ImageOK'
  BY <1>1, <1>2, <1>3 DEF PatchInv, AtOK, BeyondOK, Beyond, ImageOK
<1>5. CASE way = "image"
  <2>1. /\ count' = base /\ done' = [s \in Sites |-> 0] /\ torn' = {} /\ written' = {}
        /\ payload' \in BOOLEAN
    BY <1>5 DEF Main
  <2>2. PatchTypeOK'
    <3>1. \A s \in Sites : count'[s] <= base'[s]
      BY <1>1, <1>2, <2>1 DEF PatchTypeOK
    <3>2. QED
      BY <1>1, <1>2, <2>1, <3>1, PatchAssumption DEF PatchTypeOK
  <2>3. WrittenOK' /\ BuildOK'
    BY <1>1, <1>2, <1>3, <2>1 DEF WrittenOK, BuildOK
  <2>4. FreshOK'
    BY <1>1, <1>2, <2>1 DEF FreshOK
  <2>5. QED
    BY <1>4, <2>2, <2>3, <2>4 DEF PatchInv
<1>6. CASE way # "image"
  <2>1. UNCHANGED tree
    BY <1>6 DEF Main
  <2>2. PatchTypeOK'
    BY <1>1, <1>2, <2>1, PatchAssumption DEF PatchTypeOK, tree
  <2>3. WrittenOK' /\ BuildOK'
    BY <1>1, <1>2, <1>6, <2>1 DEF PatchInv, WrittenOK, BuildOK, tree
  <2>4. ~Beyond'
    BY <1>3 DEF Beyond
  <2>5. FreshOK'
    BY <1>1, <1>2, <2>1, <2>4 DEF PatchInv, FreshOK, tree
  <2>6. QED
    BY <1>4, <2>2, <2>3, <2>5 DEF PatchInv
<1>7. QED
  BY <1>5, <1>6

\* The payload, the count of an anchor, the end and a stop between two writes leave the
\* anchors as they are.
LEMMA QuietStep ==
  ASSUME PatchInv, CopyPayload \/ Replace \/ Exit \/ Stop PROVE PatchInv'
<1>1. /\ UNCHANGED <<script, way, base, version, count, done, torn, written, site, runs, cuts>>
      /\ payload' \in BOOLEAN /\ pc' \in {"replace", "write", "exited", "died"}
      /\ pc' # "died" => Running /\ (payload \/ pc = "copy" => payload')
      /\ pc' = "write" => pc = "replace" /\ site \in Sites /\ count[site] = 1
      /\ pc' = "exited" => pc = "replace" /\ site \notin Sites
      /\ image' = image \/ (Exit /\ way = "image" /\ image' = done)
  <2>0. payload \in BOOLEAN /\ (pc = "replace" /\ script = "sglang" => payload)
    BY DEF PatchInv, PatchTypeOK, AtOK
  <2>1. CASE CopyPayload
    BY <2>0, <2>1 DEF CopyPayload, Running
  <2>2. CASE Replace
    BY <2>0, <2>2 DEF Replace, tree, Running
  <2>3. CASE Exit
    BY <2>0, <2>3 DEF Exit, tree, Running
  <2>4. CASE Stop
    BY <2>0, <2>4 DEF Stop, Running
  <2>5. QED
    BY <2>1, <2>2, <2>3, <2>4
<1>2. /\ PatchTypeOK /\ Len(Anchors) \in Nat /\ Sites = 1 .. Len(Anchors)
      /\ Anchors' = Anchors /\ Sites' = Sites /\ Redone' = Redone
      /\ \A s : FileOf(s)' = FileOf(s)
      /\ FilesOf(Redone)' = FilesOf(Redone) /\ FilesOf(Sites)' = FilesOf(Sites)
      /\ Passed' = Passed
  BY <1>1, AnchorsOfAScript
     DEF PatchInv, PatchTypeOK, Anchors, Sites, Redone, FileOf, FilesOf, Passed
<1>3. Running' => Running
  BY <1>1 DEF Running
<1>4. PatchTypeOK'
  BY <1>1, <1>2 DEF PatchTypeOK
<1>5. WrittenOK' /\ BuildOK'
  BY <1>1, <1>2, <1>3 DEF PatchInv, WrittenOK, BuildOK
<1>6. BeyondOK' /\ FreshOK'
  BY <1>1, <1>2, <1>3 DEF PatchInv, BeyondOK, Beyond, FreshOK
<1>7. pc' = "exited" => site = Len(Anchors) + 1
  BY <1>1, <1>2 DEF PatchTypeOK
<1>8. AtOK'
  BY <1>1, <1>2, <1>3, <1>7 DEF PatchInv, AtOK, Running
<1>9. ImageOK'
  <2>1. CASE image' = image
    BY <1>1, <1>2, <2>1 DEF PatchInv, ImageOK
  <2>2. CASE Exit /\ way = "image" /\ image' = done
    <3>1. Running /\ site = Len(Anchors) + 1
      BY <1>2, <2>2 DEF Exit, Running, PatchTypeOK
    <3>2. Passed = Sites
      BY <1>2, <3>1 DEF Passed
    <3>3. done = [s \in Sites |-> 1]
      BY <1>2, <2>2, <3>1, <3>2 DEF PatchInv, BuildOK, PatchTypeOK
    <3>4. QED
      BY <1>2, <2>2, <3>3 DEF ImageOK
  <2>3. QED
    BY <1>1, <2>1, <2>2
<1>10. QED
  BY <1>4, <1>5, <1>6, <1>8, <1>9 DEF PatchInv

\* A run writes the text with the replacement.
LEMMA WriteStep == ASSUME PatchInv, WriteText PROVE PatchInv'
<1>1. /\ UNCHANGED <<script, way, base, version, torn, payload, runs, cuts, image>>
      /\ pc = "write" /\ pc' = "replace" /\ site' = site + 1
      /\ count' = CountAfter /\ done' = DoneAfter /\ written' = written \cup {site}
  BY DEF WriteText
<1>2. /\ PatchTypeOK /\ Len(Anchors) \in Nat /\ Sites = 1 .. Len(Anchors)
      /\ Anchors' = Anchors /\ Sites' = Sites /\ Redone' = Redone
      /\ \A s : FileOf(s)' = FileOf(s)
      /\ FilesOf(Redone)' = FilesOf(Redone) /\ FilesOf(Sites)' = FilesOf(Sites)
  BY <1>1, AnchorsOfAScript DEF PatchInv, PatchTypeOK, Anchors, Sites, Redone, FileOf, FilesOf
<1>3. /\ site \in Sites /\ count[site] = 1 /\ Running /\ Running'
      /\ Passed \subseteq written /\ \A s \in Passed : done[s] >= 1
  BY <1>1 DEF PatchInv, AtOK, Running
<1>4. /\ count' \in [Sites -> 0 .. 2] /\ done' \in [Sites -> 0 .. 2]
      /\ count'[site] = IF Anchors[site].kept THEN 1 ELSE 0
      /\ done'[site] >= 1 /\ (done[site] = 0 => done'[site] = 1)
      /\ \A s \in Sites \ {site} : count'[s] = count[s] /\ done'[s] = done[s]
      /\ \A s \in Sites : count'[s] <= count[s]
  BY <1>1, <1>2, <1>3, TextAfter
<1>5. /\ Passed' = Passed \cup {site} /\ site \notin Passed /\ Passed \subseteq Sites
      /\ 1 .. site = Passed \cup {site} /\ \A s \in Passed : s \in Nat /\ s < site
  BY <1>1, <1>2, <1>3 DEF Passed
<1>6. written \subseteq Sites /\ written' \subseteq Sites
  BY <1>1, <1>2, <1>3 DEF PatchTypeOK
<1>7. PatchTypeOK'
  <2>1. \A s \in Sites : count'[s] <= base[s]
    <3>1. \A s \in Sites : /\ count'[s] \in 0 .. 2 /\ count[s] \in 0 .. 2 /\ base[s] \in 0 .. 2
                           /\ count'[s] <= count[s] /\ count[s] <= base[s]
      BY <1>2, <1>4 DEF PatchTypeOK
    <3>2. QED
      BY <3>1
  <2>2. site' \in 1 .. Len(Anchors) + 1
    BY <1>1, <1>2, <1>3
  <2>3. QED
    BY <1>1, <1>2, <1>4, <1>6, <2>1, <2>2 DEF PatchTypeOK
<1>8. WrittenOK'
  BY <1>1, <1>2, <1>3, <1>4, <1>5, <1>6 DEF PatchInv, WrittenOK
<1>9. AtOK'
  BY <1>1, <1>2, <1>3, <1>4, <1>5, <1>6 DEF PatchInv, AtOK
\* An anchor that goes and is there was never replaced, nor was any after it.
<1>10. ~ Anchors[site].kept => written = Passed
  <2>1. ASSUME ~ Anchors[site].kept, NEW s \in written PROVE s \in Passed
    <3>1. site \notin written
      BY <1>3, <2>1 DEF PatchInv, WrittenOK
    <3>2. 1 .. s \subseteq written /\ s \in Sites
      BY <1>6, <2>1 DEF PatchInv, WrittenOK
    <3>3. QED
      BY <1>2, <1>3, <3>1, <3>2 DEF Passed
  <2>2. QED
    BY <1>3, <2>1
<1>11. Passed \subseteq Redone /\ Anchors[site].kept => site \in Redone
  <2>1. ASSUME Passed \subseteq Redone, Anchors[site].kept, NEW r \in 1 .. site
        PROVE  Anchors[r].kept
    <3>1. CASE r = site
      BY <2>1, <3>1
    <3>2. CASE r # site
      <4>1. r \in Redone /\ r \in 1 .. r
        BY <1>5, <2>1, <3>2
      <4>2. QED
        BY <4>1 DEF Redone
    <3>3. QED
      BY <3>1, <3>2
  <2>2. QED
    BY <1>3, <2>1 DEF Redone
<1>12. Beyond' => written = Passed /\ (Beyond \/ written \subseteq Redone)
  <2>1. CASE Beyond
    BY <2>1 DEF PatchInv, BeyondOK
  <2>2. CASE ~Beyond /\ Beyond'
    <3>1. Passed \subseteq Redone /\ site \notin Redone
      BY <1>2, <1>3, <1>5, <2>2 DEF Beyond
    <3>2. ~ Anchors[site].kept
      BY <1>11, <3>1
    <3>3. QED
      BY <1>10, <3>1, <3>2
  <2>3. QED
    BY <2>1, <2>2
<1>13. Beyond' => site \notin written /\ done[site] = 0
  BY <1>3, <1>5, <1>12 DEF PatchInv, WrittenOK
<1>14. BeyondOK'
  <2>1. ASSUME Beyond', NEW s \in written \ Redone PROVE done[s] = 1
    BY <1>12, <2>1 DEF PatchInv, BeyondOK
  <2>2. QED
    BY <1>1, <1>2, <1>3, <1>4, <1>5, <1>6, <1>12, <1>13, <2>1 DEF BeyondOK
<1>15. FreshOK'
  <2>1. CASE written' \subseteq Redone
    <3>1. site \in Redone /\ written \subseteq Redone
      BY <1>1, <2>1
    <3>2. FileOf(site) \in FilesOf(Redone)
      BY <3>1 DEF FilesOf
    <3>3. \A s \in Sites : FileOf(s) \notin FilesOf(Redone) => s # site /\ s \notin written
      BY <3>1, <3>2 DEF FilesOf
    <3>4. QED
      BY <1>1, <1>2, <1>4, <3>1, <3>3 DEF PatchInv, FreshOK
  <2>2. CASE Beyond'
    <3>1. written \subseteq Redone \/ Beyond
      BY <1>12, <2>2
    <3>2. FileOf(site) \notin FilesOf(Redone) => base[site] = 1
      BY <1>3, <1>13, <2>2, <3>1 DEF PatchInv, FreshOK
    <3>3. QED
      BY <1>1, <1>2, <1>4, <3>1, <3>2 DEF PatchInv, FreshOK
  <2>3. QED
    BY <1>2, <2>1, <2>2 DEF FreshOK
<1>16. BuildOK' /\ ImageOK'
  BY <1>1, <1>2, <1>3, <1>4, <1>5, <1>6 DEF PatchInv, BuildOK, ImageOK, WrittenOK
<1>17. QED
  BY <1>7, <1>8, <1>9, <1>14, <1>15, <1>16 DEF PatchInv

\* A write that is stopped leaves no more than the text it was writing.
LEMMA CutStep == ASSUME PatchInv, Cut PROVE PatchInv'
<1>1. /\ UNCHANGED <<script, way, base, version, payload, site, runs, image>>
      /\ pc = "write" /\ pc' = "died" /\ cuts < MaxCuts /\ cuts' = cuts + 1
      /\ torn' = torn \cup {FileOf(site)} /\ written' = written \cup {site}
  BY DEF Cut
<1>2. /\ PatchTypeOK /\ Len(Anchors) \in Nat /\ Sites = 1 .. Len(Anchors)
      /\ Anchors' = Anchors /\ Sites' = Sites /\ Redone' = Redone
      /\ \A s : FileOf(s)' = FileOf(s)
      /\ FilesOf(Redone)' = FilesOf(Redone) /\ FilesOf(Sites)' = FilesOf(Sites)
  BY <1>1, AnchorsOfAScript DEF PatchInv, PatchTypeOK, Anchors, Sites, Redone, FileOf, FilesOf
<1>3. /\ site \in Sites /\ count[site] = 1 /\ Running /\ ~Running'
      /\ Passed \subseteq written
  BY <1>1 DEF PatchInv, AtOK, Running
<1>4. /\ CountAfter \in [Sites -> 0 .. 2] /\ DoneAfter \in [Sites -> 0 .. 2]
      /\ CountAfter[site] = IF Anchors[site].kept THEN 1 ELSE 0
      /\ \A s \in Sites \ {site} : CountAfter[s] = count[s] /\ DoneAfter[s] = done[s]
      /\ \A s \in Sites : CountAfter[s] <= count[s]
  BY <1>1, <1>2, <1>3, TextAfter
<1>5. PICK lost, single, ends :
        /\ lost \subseteq {s \in Sites : FileOf(s) = FileOf(site)}
        /\ single \subseteq {s \in Sites : FileOf(s) = FileOf(site)}
        /\ count' = Left(CountAfter, lost, single)
        /\ done' = Left(DoneAfter, lost \cup ends, single)
  BY DEF Cut
<1>6. /\ count' \in [Sites -> 0 .. 2] /\ done' \in [Sites -> 0 .. 2]
      /\ \A s \in Sites : count'[s] <= CountAfter[s] /\ done'[s] <= DoneAfter[s]
      /\ \A s \in Sites : FileOf(s) # FileOf(site) => count'[s] = count[s]
  <2>1. /\ count' = [s \in Sites |-> IF s \in lost THEN 0
                                      ELSE IF s \in single /\ CountAfter[s] > 1 THEN 1
                                      ELSE CountAfter[s]]
        /\ done' = [s \in Sites |-> IF s \in lost \cup ends THEN 0
                                     ELSE IF s \in single /\ DoneAfter[s] > 1 THEN 1
                                     ELSE DoneAfter[s]]
    BY <1>5 DEF Left
  <2>2. count' \in [Sites -> 0 .. 2] /\ done' \in [Sites -> 0 .. 2]
    BY <1>4, <2>1
  <2>3. ASSUME NEW s \in Sites PROVE count'[s] <= CountAfter[s] /\ done'[s] <= DoneAfter[s]
    <3>1. CountAfter[s] \in 0 .. 2 /\ DoneAfter[s] \in 0 .. 2
      BY <1>4
    <3>2. QED
      BY <2>1, <3>1
  <2>4. ASSUME NEW s \in Sites, FileOf(s) # FileOf(site) PROVE count'[s] = count[s]
    <3>1. s # site /\ s \notin lost /\ s \notin single
      BY <1>5, <2>4
    <3>2. QED
      BY <1>4, <2>1, <3>1
  <2>5. QED
    BY <2>2, <2>3, <2>4
<1>7. PatchTypeOK'
  <2>1. \A s \in Sites : count'[s] <= base[s]
    <3>1. \A s \in Sites : /\ count'[s] \in 0 .. 2 /\ CountAfter[s] \in 0 .. 2
                           /\ count[s] \in 0 .. 2 /\ base[s] \in 0 .. 2
                           /\ count'[s] <= CountAfter[s] /\ CountAfter[s] <= count[s]
                           /\ count[s] <= base[s]
      BY <1>2, <1>4, <1>6 DEF PatchTypeOK
    <3>2. QED
      BY <3>1
  <2>2. torn' \subseteq FilesOf(Sites) /\ written' \subseteq Sites
    BY <1>1, <1>2, <1>3 DEF PatchTypeOK, FilesOf
  <2>3. cuts' \in 0 .. MaxCuts
    BY <1>1, <1>2, PatchAssumption DEF PatchTypeOK
  <2>4. QED
    BY <1>1, <1>2, <1>6, <2>1, <2>2, <2>3 DEF PatchTypeOK
<1>8. WrittenOK'
  <2>1. written \subseteq Sites /\ site \in Sites
    BY <1>2, <1>3 DEF PatchTypeOK
  <2>2. ASSUME NEW s \in written', ~ Anchors[s].kept PROVE count'[s] = 0
    <3>1. s \in Sites /\ count'[s] \in 0 .. 2 /\ count'[s] <= CountAfter[s]
      BY <1>1, <1>6, <2>1
    <3>2. CountAfter[s] = 0
      BY <1>1, <1>4, <2>2, <3>1 DEF PatchInv, WrittenOK
    <3>3. QED
      BY <3>1, <3>2
  <2>3. ASSUME NEW s \in written' PROVE 1 .. s \subseteq written'
    <3>1. 1 .. site \subseteq Passed \cup {site}
      BY <1>2, <2>1 DEF Passed
    <3>2. QED
      BY <1>1, <1>3, <2>3, <3>1 DEF PatchInv, WrittenOK
  <2>4. ASSUME NEW s \in Sites \ written' PROVE done'[s] = 0
    <3>1. DoneAfter[s] = 0
      BY <1>1, <1>4 DEF PatchInv, WrittenOK
    <3>2. done'[s] \in 0 .. 2 /\ done'[s] <= DoneAfter[s]
      BY <1>6
    <3>3. QED
      BY <3>1, <3>2
  <2>5. QED
    BY <1>2, <2>2, <2>3, <2>4 DEF WrittenOK
<1>9. AtOK' /\ BeyondOK' /\ BuildOK' /\ ImageOK'
  BY <1>1, <1>2, <1>3 DEF PatchInv, AtOK, BeyondOK, Beyond, BuildOK, ImageOK
<1>10. FreshOK'
  <2>1. SUFFICES ASSUME written' \subseteq Redone
        PROVE  /\ torn' \subseteq FilesOf(Redone)
               /\ \A s \in Sites : FileOf(s) \notin FilesOf(Redone) =>
                    s \notin written' /\ count'[s] = base[s]
    BY <1>1, <1>2, <1>3 DEF FreshOK, Beyond
  <2>2. site \in Redone /\ written \subseteq Redone /\ FileOf(site) \in FilesOf(Redone)
    BY <1>1, <2>1 DEF FilesOf
  <2>3. torn' \subseteq FilesOf(Redone)
    BY <1>1, <2>2 DEF PatchInv, FreshOK
  <2>4. ASSUME NEW s \in Sites, FileOf(s) \notin FilesOf(Redone)
        PROVE  s \notin written' /\ count'[s] = base[s]
    <3>1. s \notin written' /\ s \notin written
      BY <2>1, <2>2, <2>4 DEF FilesOf
    <3>2. FileOf(s) # FileOf(site)
      BY <2>2, <2>4
    <3>3. QED
      BY <1>6, <2>2, <2>4, <3>1, <3>2 DEF PatchInv, FreshOK
  <2>5. QED
    BY <2>3, <2>4
<1>11. QED
  BY <1>7, <1>8, <1>9, <1>10 DEF PatchInv

LEMMA PatchNextInv == PatchInv /\ [PatchNext]_patchVars => PatchInv'
<1> SUFFICES ASSUME PatchInv, [PatchNext]_patchVars PROVE PatchInv'
  OBVIOUS
<1>1. CASE UNCHANGED patchVars
  <2>1. /\ Anchors' = Anchors /\ Sites' = Sites /\ Redone' = Redone /\ Passed' = Passed
        /\ \A s : FileOf(s)' = FileOf(s)
        /\ FilesOf(Redone)' = FilesOf(Redone) /\ FilesOf(Sites)' = FilesOf(Sites)
    BY <1>1 DEF patchVars, Anchors, Sites, Redone, Passed, FileOf, FilesOf
  <2>2. PatchTypeOK' /\ WrittenOK' /\ AtOK'
    BY <1>1, <2>1 DEF PatchInv, PatchTypeOK, WrittenOK, AtOK, Running, patchVars
  <2>3. BeyondOK' /\ FreshOK' /\ BuildOK' /\ ImageOK'
    BY <1>1, <2>1 DEF PatchInv, BeyondOK, Beyond, FreshOK, BuildOK, ImageOK, Running, patchVars
  <2>4. QED
    BY <2>2, <2>3 DEF PatchInv
<1>2. QED
  BY <1>1, MainStep, QuietStep, WriteStep, CutStep DEF PatchNext

LEMMA PatchInvariance == PatchSpec => []PatchInv
BY PatchInitInv, PatchNextInv, PTL DEF PatchSpec

\* Never an image half patched: whatever base an image is built from, and however many
\* attempts at it are stopped and wherever (Main, Replace, Exit).
THEOREM ImageWhole == PatchSpec => []ImagesAreWhole
<1>1. PatchInv => ImagesAreWhole
  BY DEF PatchInv, ImageOK, ImagesAreWhole
<1>2. QED
  BY <1>1, PatchInvariance, PTL

\* Exit code 0 means that every replacement is in the tree, once and over the published
\* source, but for the anchors a later attempt finds again and the file they are in
\* (replace, main).
THEOREM ZeroApplied == PatchSpec => []ZeroMeansApplied
<1>1. PatchInv => ZeroMeansApplied
  <2>1. SUFFICES ASSUME PatchInv, pc = "exited" PROVE ZeroMeansApplied
    BY DEF ZeroMeansApplied
  <2>2. /\ Len(Anchors) \in Nat /\ Sites = 1 .. Len(Anchors)
        /\ \E s \in Sites : ~ Anchors[s].kept
    BY <2>1, AnchorsOfAScript DEF PatchInv, PatchTypeOK
  <2>3. Running /\ Passed = Sites
    BY <2>1, <2>2 DEF PatchInv, AtOK, Running, Passed
  <2>4. ~(Passed \subseteq Redone)
    BY <2>2, <2>3 DEF Redone
  <2>5. Beyond /\ written = Sites
    BY <2>1, <2>3, <2>4 DEF PatchInv, Beyond, BeyondOK
  <2>6. \A s \in Sites : done[s] >= 1 /\ (s \notin Redone => done[s] = 1)
    BY <2>1, <2>3, <2>5 DEF PatchInv, AtOK, BeyondOK
  <2>7. /\ torn \subseteq FilesOf(Redone)
        /\ \A s \in Sites : FileOf(s) \notin FilesOf(Redone) => base[s] = 1
    BY <2>1, <2>5 DEF PatchInv, FreshOK
  <2>8. script = "sglang" => payload
    BY <2>1 DEF PatchInv, AtOK
  <2>9. QED
    BY <2>1, <2>6, <2>7, <2>8 DEF ZeroMeansApplied
<1>2. QED
  BY <1>1, PatchInvariance, PTL

-----------------------------------------------------------------------------
(***************************************************************************)
(* What a forward finds after any history of sleeps, wake-ups, updates and  *)
(* POSTs, for any set of dials.  The argument is about where each tensor    *)
(* was born: what is outside the pools is never lost, the directions and    *)
(* the layout are brought back by the wake-up that maps their pool, and the *)
(* rest of the weights' pool is lost to sleeps of level 2 only.             *)
(***************************************************************************)

\* Where the tensors live once they are allocated.
Birthplaces ==
  /\ pool \in [Tensors -> Pools \cup {Outside}]
  /\ pool["rows"] = Outside /\ pool["zero_meta"] = Outside
  /\ pool["layout"] \in {Outside, "kv_cache"}
  /\ \A t \in {"params", "r_hat", "draft", "lam"} : pool[t] \in {Outside, "weights"}

\* What each tensor can hold, and what a lost one implies.
Contents ==
  /\ mem \in [Tensors -> Values \cup {Absent}]
  /\ mem["zero_meta"] \in {Intact, Absent}
  /\ mem["rows"] \in Lambdas \cup {Absent}
  /\ mem["layout"] \in {Intact, Absent, Lost}
  /\ mem["layout"] = Lost => "kv_cache" \notin mapped
  /\ mem["lam"] \in {Absent, Lost, lam}
  /\ deep \subseteq Tensors
  /\ \A t \in {"params", "draft", "lam"} : mem[t] = Lost => t \in deep
  /\ saved = <<>> => mem["r_hat"] \in {Intact, Absent}
  /\ saved # <<>> => /\ "weights" \notin mapped
                     /\ DOMAIN saved = {"r_hat"} /\ saved["r_hat"] \in {Intact, Absent}

\* The last forward.
LastRun ==
  /\ ran.lost \subseteq ran.deep \cap {"params", "draft", "lam"}
  /\ v2 => "lam" \notin ran.lost

WorkerInv ==
  /\ {v2, drafter, pooled, active, faulted} \subseteq BOOLEAN
  /\ phase \in {"new", "device", "loaded", "profiled", "allocated", "ready", "down"}
  /\ mapped \subseteq Pools /\ lam \in Lambdas
  /\ phase \notin {"ready", "down"} => mapped = Pools
  /\ Birthplaces /\ Contents /\ LastRun

\* A lost tensor is none of what the model calls intact, absent or a dial.
LEMMA LostIsApart == Lost \notin Lambdas /\ Lost # Intact /\ Lost # Absent
BY WorkerAssumption

\* Nothing is saved exactly when the copies have no name.
LEMMA SavedNames ==
  /\ DOMAIN <<>> = {}
  /\ [b \in NamedBuffers |-> mem[b]] # <<>>
  /\ DOMAIN [b \in NamedBuffers |-> mem[b]] = {"r_hat"}
<1>1. DOMAIN <<>> = {}
  OBVIOUS
<1>2. DOMAIN [b \in NamedBuffers |-> mem[b]] = {"r_hat"}
  BY DEF NamedBuffers
<1>3. QED
  BY <1>1, <1>2

\* Writing a value to some tensors.
LEMMA HoldIs ==
  ASSUME NEW ts \in SUBSET Tensors, NEW v, mem \in [Tensors -> Values \cup {Absent}],
         v \in Values \cup {Absent}
  PROVE  /\ Hold(ts, v) \in [Tensors -> Values \cup {Absent}]
         /\ \A t \in Tensors : Hold(ts, v)[t] = IF t \in ts THEN v ELSE mem[t]
BY DEF Hold

\* The worker starts with nothing allocated.
LEMMA WorkerInitInv == Init => WorkerInv
<1> SUFFICES ASSUME Init PROVE WorkerInv
  OBVIOUS
<1>1. Birthplaces
  BY DEF Init, Birthplaces, Tensors
<1>2. Contents
  <2>1. saved = <<>> /\ deep = {} /\ \A t \in Tensors : mem[t] = Absent
    BY DEF Init
  <2>2. mem \in [Tensors -> Values \cup {Absent}]
    BY DEF Init
  <2>3. QED
    BY <2>1, <2>2, LostIsApart DEF Contents, Tensors
<1>3. LastRun
  BY WorkerAssumption DEF Init, LastRun, NoRun
<1>4. QED
  BY <1>1, <1>2, <1>3, WorkerAssumption DEF Init, WorkerInv

\* A forward with all of its pools mapped finds what it reads.
LEMMA ForwardStep ==
  ASSUME WorkerInv, mapped = Pools, RunForward,
         UNCHANGED <<v2, drafter, pooled, mapped, pool, lam, saved, active, faulted, deep>>
  PROVE  Contents' /\ LastRun' /\ Birthplaces'
<1>1. lam \in Values /\ Lost # lam /\ Lost # Intact /\ Lost # Absent /\ lam \in Lambdas
  BY LostIsApart DEF WorkerInv, Values
<1>2. mem' \in [Tensors -> Values \cup {Absent}]
  BY <1>1 DEF RunForward, Hold, WorkerInv, Contents
<1>3. \A t \in Tensors : mem'[t] = IF v2 /\ t = "rows" THEN lam ELSE mem[t]
  BY DEF RunForward, Hold, WorkerInv, Contents
<1>4. Contents'
  BY <1>1, <1>2, <1>3 DEF WorkerInv, Contents, Tensors
<1>5. saved = <<>> /\ mem["r_hat"] # Lost /\ mem["layout"] # Lost /\ mem["zero_meta"] # Lost
  BY <1>1 DEF WorkerInv, Contents, Pools
<1>6. ran'.lost = {t \in StepReads : mem'[t] = Lost} /\ ran'.deep = deep
  BY DEF RunForward
<1>7. \A t \in StepReads :
        mem'[t] = Lost => t \in deep \cap {"params", "draft", "lam"} /\ (v2 => t # "lam")
  <2>1. \A t \in StepReads : t \in Tensors /\ (v2 => t # "lam") /\ (~v2 => t # "rows")
    BY DEF StepReads, DialTensor, Tensors
  <2>2. \A t \in StepReads : mem'[t] = Lost => mem[t] = Lost /\ t # "rows"
    BY <1>1, <1>3, <2>1
  <2>3. \A t \in StepReads : mem'[t] = Lost => t \in {"params", "draft", "lam"}
    BY <1>5, <2>1, <2>2 DEF Tensors
  <2>4. QED
    BY <2>1, <2>2, <2>3 DEF WorkerInv, Contents
<1>8. LastRun'
  BY <1>6, <1>7 DEF LastRun
<1>9. QED
  BY <1>4, <1>8 DEF WorkerInv, Birthplaces

\* A write to the parameters alone disturbs nothing a forward is checked for.
LEMMA ParamsStep ==
  ASSUME WorkerInv, NEW v \in {Intact, Partial}, mem' = Hold({"params"}, v),
         deep' = deep \ {"params"}, UNCHANGED <<mapped, lam, saved>>
  PROVE  Contents'
<1>1. v \in Values /\ v # Lost
  BY WorkerAssumption DEF Values
<1>2. /\ mem' \in [Tensors -> Values \cup {Absent}] /\ mem'["params"] = v
      /\ \A t \in Tensors : t # "params" => mem'[t] = mem[t]
  BY <1>1 DEF Hold, WorkerInv, Contents, Tensors
<1>3. QED
  BY <1>1, <1>2 DEF WorkerInv, Contents, Tensors

\* Start-up.
LEMMA StartUpStep ==
  ASSUME WorkerInv,
         \/ InitDevice \/ LoadModel \/ DetermineAvailableMemory \/ InitializeFromConfig
         \/ CompileOrWarmUpModel
  PROVE  WorkerInv'
<1>0. /\ mem \in [Tensors -> Values \cup {Absent}] /\ pool \in [Tensors -> Pools \cup {Outside}]
      /\ lam \in Lambdas /\ LamInit \in Lambdas /\ Lambdas \subseteq Values /\ Intact \in Values
  BY WorkerAssumption DEF WorkerInv, Contents, Birthplaces, Values
<1>1. CASE InitDevice
  <2>1. mapped = Pools
    BY <1>1 DEF WorkerInv, InitDevice
  <2>2. /\ mem' \in [Tensors -> Values \cup {Absent}]
        /\ \A t \in Tensors : mem'[t] = IF v2 /\ t = "rows" THEN lam ELSE mem[t]
    BY <1>0, <1>1 DEF InitDevice, Hold
  <2>3. Contents'
    BY <1>0, <1>1, <2>2 DEF WorkerInv, Contents, InitDevice, Tensors
  <2>4. QED
    BY <1>1, <2>1, <2>3 DEF WorkerInv, InitDevice, Birthplaces, LastRun
<1>2. CASE LoadModel
  <2>1. mapped = Pools
    BY <1>2 DEF WorkerInv, LoadModel
  <2> DEFINE model == {"params", "r_hat"} \cup (IF drafter THEN {"draft"} ELSE {})
  <2>0. /\ mem' = [Hold(model, Intact) EXCEPT !["lam"] = LamInit]
        /\ pool' = Allocate(model \cup {"lam"}, PoolFor("weights"))
    BY <1>2 DEF LoadModel
  <2>a. /\ {"params", "r_hat"} \subseteq model /\ model \subseteq {"params", "r_hat", "draft"}
        /\ model \subseteq Tensors
    BY DEF Tensors
  <2> HIDE DEF model
  <2>2. /\ mem' \in [Tensors -> Values \cup {Absent}]
        /\ mem'["r_hat"] = Intact /\ mem'["params"] = Intact /\ mem'["lam"] = LamInit
        /\ mem'["draft"] \in {Intact, mem["draft"]}
        /\ \A t \in Tensors : t \notin {"params", "r_hat", "draft", "lam"} => mem'[t] = mem[t]
    BY <1>0, <2>0, <2>a DEF Hold, Tensors
  <2>3. saved = <<>>
    BY <2>1 DEF WorkerInv, Contents, Pools
  <2>4. Contents'
    <3>1. UNCHANGED <<mapped, saved, deep>> /\ lam' = LamInit
      BY <1>2 DEF LoadModel
    <3>2. LamInit # Lost /\ Intact # Lost
      BY <1>0, LostIsApart
    <3>3. \A t \in {"params", "draft", "lam"} : mem'[t] = Lost => t \in deep
      BY <2>2, <3>2 DEF WorkerInv, Contents
    <3>4. QED
      BY <2>2, <2>3, <3>1, <3>3 DEF WorkerInv, Contents, Tensors
  <2>5. Birthplaces'
    BY <1>0, <2>0, <2>a DEF WorkerInv, Birthplaces, Allocate, PoolFor, Tensors, Pools
  <2>6. QED
    BY <1>0, <1>2, <2>1, <2>4, <2>5 DEF WorkerInv, LoadModel, LastRun
<1>3. CASE DetermineAvailableMemory
  <2>1. mapped = Pools
    BY <1>3 DEF WorkerInv, DetermineAvailableMemory
  <2>2. Contents' /\ LastRun' /\ Birthplaces'
    BY <1>3, <2>1, ForwardStep DEF DetermineAvailableMemory
  <2>3. QED
    BY <1>3, <2>1, <2>2 DEF WorkerInv, DetermineAvailableMemory
<1>4. CASE InitializeFromConfig
  <2>1. mapped = Pools
    BY <1>4 DEF WorkerInv, InitializeFromConfig
  <2>2. /\ mem' \in [Tensors -> Values \cup {Absent}]
        /\ mem'["layout"] = Intact /\ mem'["zero_meta"] = Intact
        /\ \A t \in Tensors : t \notin {"layout", "zero_meta"} => mem'[t] = mem[t]
    BY <1>0, <1>4 DEF InitializeFromConfig, Hold, Tensors
  <2>3. Contents'
    BY <1>4, <2>2, LostIsApart DEF WorkerInv, Contents, InitializeFromConfig, Tensors
  <2>4. Birthplaces'
    BY <1>0, <1>4 DEF WorkerInv, Birthplaces, InitializeFromConfig, Allocate, PoolFor, Tensors, Pools
  <2>5. QED
    BY <1>4, <2>1, <2>3, <2>4 DEF WorkerInv, InitializeFromConfig, LastRun
<1>5. CASE CompileOrWarmUpModel
  <2>1. mapped = Pools
    BY <1>5 DEF WorkerInv, CompileOrWarmUpModel
  <2>2. Contents' /\ LastRun' /\ Birthplaces'
    BY <1>5, <2>1, ForwardStep DEF CompileOrWarmUpModel
  <2>3. QED
    BY <1>5, <2>1, <2>2 DEF WorkerInv, CompileOrWarmUpModel
<1>6. QED
  BY <1>1, <1>2, <1>3, <1>4, <1>5

\* A fault changes nothing but the flag.
LEMMA FaultStep == ASSUME WorkerInv, Fault PROVE WorkerInv'
BY DEF WorkerInv, Fault, Birthplaces, Contents, LastRun

\* A POST writes the tensor and the value together, or neither.
LEMMA SetStep == ASSUME WorkerInv, NEW l \in Lambdas, SetRefusalLambda(l) PROVE WorkerInv'
<1>1. CASE Reachable({"lam"})
  <2>1. l \in Values
    BY DEF Values
  <2>2. /\ mem' \in [Tensors -> Values \cup {Absent}]
        /\ mem'["lam"] = l /\ lam' = l
        /\ \A t \in Tensors : t # "lam" => mem'[t] = mem[t]
    BY <1>1, <2>1 DEF SetRefusalLambda, Hold, WorkerInv, Contents, Tensors
  <2>3. /\ UNCHANGED <<v2, drafter, pooled, phase, mapped, pool, saved, active, faulted, ran>>
        /\ deep' = deep \ {"lam"}
    BY <1>1 DEF SetRefusalLambda
  <2>4. Contents'
    BY <2>2, <2>3, LostIsApart DEF WorkerInv, Contents, Tensors
  <2>5. QED
    BY <2>2, <2>3, <2>4 DEF WorkerInv, Birthplaces, LastRun
<1>2. CASE ~Reachable({"lam"})
  BY <1>2, FaultStep DEF SetRefusalLambda
<1>3. QED
  BY <1>1, <1>2

\* Sleep loses the pools and keeps copies of the directions.
LEMMA SleepStep == ASSUME WorkerInv, NEW level \in {1, 2}, Sleep(level) PROVE WorkerInv'
<1>1. /\ mapped = Pools /\ mapped' = {} /\ phase = "ready" /\ saved = <<>>
      /\ deep' = IF level = 2 THEN Tensors ELSE deep
      /\ UNCHANGED <<v2, drafter, pooled, phase, pool, lam, active, faulted, ran>>
  BY DEF Sleep, Up, Awake, WorkerInv, Contents, Pools
<1>2. /\ mem' \in [Tensors -> Values \cup {Absent}]
      /\ \A t \in Tensors :
           mem'[t] = IF pool[t] = Outside \/ (level = 1 /\ pool[t] = "weights")
                     THEN mem[t] ELSE Lost
  BY DEF Sleep, Suspended, WorkerInv, Contents, Values
<1>3. /\ mem'["zero_meta"] \in {Intact, Absent} /\ mem'["rows"] \in Lambdas \cup {Absent}
      /\ mem'["layout"] \in {Intact, Absent, Lost} /\ mem'["lam"] \in {Absent, Lost, lam'}
  BY <1>1, <1>2 DEF WorkerInv, Birthplaces, Contents, Tensors
<1>4. /\ mem["r_hat"] \in {Intact, Absent}
      /\ deep' \subseteq Tensors
      /\ \A t \in {"params", "draft", "lam"} : mem'[t] = Lost => t \in deep'
  <2>1. mem["r_hat"] \in {Intact, Absent} /\ deep' \subseteq Tensors
    BY <1>1 DEF WorkerInv, Contents
  <2>2. ASSUME NEW t \in {"params", "draft", "lam"}, mem'[t] = Lost PROVE t \in deep'
    <3>1. t \in Tensors /\ pool[t] \in {Outside, "weights"}
      BY DEF WorkerInv, Birthplaces, Tensors
    <3>2. QED
      BY <1>1, <1>2, <2>2, <3>1 DEF WorkerInv, Contents
  <2>3. QED
    BY <2>1, <2>2
<1>5. CASE level = 1
  <2>1. mem'["r_hat"] = mem["r_hat"] /\ saved' = saved
    BY <1>2, <1>5 DEF Sleep, WorkerInv, Birthplaces, Tensors
  <2>2. Contents'
    BY <1>1, <1>2, <1>3, <1>4, <2>1 DEF Contents
  <2>3. QED
    BY <1>1, <2>2 DEF WorkerInv, Birthplaces, LastRun
<1>6. CASE level = 2
  <2>1. saved' = [b \in NamedBuffers |-> mem[b]]
    BY <1>6 DEF Sleep
  <2>2. saved' # <<>> /\ DOMAIN saved' = {"r_hat"} /\ saved'["r_hat"] = mem["r_hat"]
    BY <2>1, SavedNames DEF NamedBuffers
  <2>3. Contents'
    BY <1>1, <1>2, <1>3, <1>4, <2>2 DEF Contents
  <2>4. QED
    BY <1>1, <2>3 DEF WorkerInv, Birthplaces, LastRun
<1>7. QED
  BY <1>5, <1>6

\* A wake-up brings back what a forward reads of the pools it maps.
LEMMA WakeStep == ASSUME WorkerInv, NEW tags \in SUBSET Pools, WakeUp(tags) PROVE WorkerInv'
<1>1. CASE saved # <<>> /\ "weights" \notin mapped \cup tags
  BY <1>1, FaultStep DEF WakeUp
<1>2. CASE ~(saved # <<>> /\ "weights" \notin mapped \cup tags)
  <2>1. /\ mapped' = mapped \cup tags /\ saved' = <<>> /\ phase = "ready"
        /\ mem' = [t \in Tensors |->
                     IF t \in DOMAIN saved THEN saved[t]
                     ELSE IF t = "layout" /\ "kv_cache" \in tags THEN Intact
                     ELSE mem[t]]
        /\ UNCHANGED <<v2, drafter, pooled, phase, pool, lam, active, faulted, deep, ran>>
    BY <1>2 DEF WakeUp, Up
  <2>2. DOMAIN saved \subseteq {"r_hat"} /\ (saved = <<>> \/ DOMAIN saved = {"r_hat"})
    BY SavedNames DEF WorkerInv, Contents
  <2>3. \A t \in Tensors \ {"r_hat", "layout"} : mem'[t] = mem[t]
    BY <2>1, <2>2
  <2>4. mem'["r_hat"] \in {Intact, Absent}
    <3>1. CASE saved = <<>>
      BY <2>1, <3>1, SavedNames DEF WorkerInv, Contents, Tensors
    <3>2. CASE saved # <<>>
      BY <2>1, <3>2 DEF WorkerInv, Contents, Tensors
    <3>3. QED
      BY <3>1, <3>2
  <2>5. mem'["layout"] = IF "kv_cache" \in tags THEN Intact ELSE mem["layout"]
    BY <2>1, <2>2 DEF Tensors
  <2>6. mem' \in [Tensors -> Values \cup {Absent}]
    <3>1. \A t \in Tensors : mem'[t] \in Values \cup {Absent}
      BY <2>3, <2>4, <2>5 DEF WorkerInv, Contents, Values, Tensors
    <3>2. QED
      BY <2>1, <3>1
  <2>7. Contents'
    BY <2>1, <2>3, <2>4, <2>5, <2>6, LostIsApart DEF WorkerInv, Contents, Tensors
  <2>8. mapped' \subseteq Pools
    BY <2>1 DEF WorkerInv
  <2>9. QED
    BY <2>1, <2>7, <2>8 DEF WorkerInv, Birthplaces, LastRun
<1>3. QED
  BY <1>1, <1>2

\* Weight updates write parameters only.
LEMMA WeightStep ==
  ASSUME WorkerInv,
         \/ StartWeightUpdate \/ ReloadWeights
         \/ \E ok \in BOOLEAN : UpdateWeights(ok) \/ FinishWeightUpdate(ok)
  PROVE  WorkerInv'
<1>1. CASE StartWeightUpdate
  BY <1>1 DEF StartWeightUpdate, WorkerInv, Birthplaces, Contents, LastRun
<1>2. CASE Fault
  BY <1>2, FaultStep
<1>3. ASSUME NEW v \in {Intact, Partial}, mem' = Hold({"params"}, v), active' \in BOOLEAN,
             deep' = deep \ {"params"},
             UNCHANGED <<v2, drafter, pooled, phase, mapped, pool, lam, saved, faulted, ran>>
      PROVE  WorkerInv'
  <2>1. Contents'
    BY <1>3, ParamsStep
  <2>2. QED
    BY <1>3, <2>1 DEF WorkerInv, Birthplaces, LastRun
<1>4. ASSUME mem' = mem, active' \in BOOLEAN,
             UNCHANGED <<v2, drafter, pooled, phase, mapped, pool, lam, saved, faulted, deep, ran>>
      PROVE  WorkerInv'
  BY <1>4 DEF WorkerInv, Birthplaces, Contents, LastRun
<1>5. active \in BOOLEAN
  BY DEF WorkerInv
<1>6. CASE ReloadWeights
  BY <1>2, <1>3, <1>5, <1>6 DEF ReloadWeights
<1>7. ASSUME NEW ok \in BOOLEAN, UpdateWeights(ok) PROVE WorkerInv'
  BY <1>2, <1>3, <1>7 DEF UpdateWeights
<1>8. ASSUME NEW ok \in BOOLEAN, FinishWeightUpdate(ok) PROVE WorkerInv'
  <2>1. CASE ok
    BY <1>2, <1>3, <1>8, <2>1 DEF FinishWeightUpdate
  <2>2. CASE ~ok
    BY <1>2, <1>4, <1>8, <2>2 DEF FinishWeightUpdate
  <2>3. QED
    BY <2>1, <2>2
<1>9. QED
  BY <1>1, <1>6, <1>7, <1>8

\* Every step keeps the invariant.
LEMMA WorkerNextInv == WorkerInv /\ [Next]_vars => WorkerInv'
<1> SUFFICES ASSUME WorkerInv, [Next]_vars PROVE WorkerInv'
  OBVIOUS
<1>1. CASE ExecuteModel
  <2>1. mapped = Pools /\ RunForward /\ phase = "ready"
        /\ UNCHANGED <<v2, drafter, pooled, phase, mapped, pool, lam, saved, active, faulted, deep>>
    BY <1>1 DEF ExecuteModel, Awake, Up
  <2>2. Contents' /\ LastRun' /\ Birthplaces'
    BY <2>1, ForwardStep
  <2>3. QED
    BY <2>1, <2>2 DEF WorkerInv
<1>2. CASE Shutdown
  BY <1>2 DEF Shutdown, WorkerInv, Birthplaces, Contents, LastRun
<1>3. CASE UNCHANGED vars
  BY <1>3 DEF vars, WorkerInv, Birthplaces, Contents, LastRun
<1>4. QED
  BY <1>1, <1>2, <1>3, StartUpStep, SetStep, SleepStep, WakeStep, WeightStep DEF Next, Gone

\* The invariant holds always.
LEMMA WorkerInvariance == Spec => []WorkerInv
BY WorkerInitInv, WorkerNextInv, PTL DEF Spec

\* After any history a forward finds lost at most what a sleep of level 2 took and nothing
\* has written since: parameters, the drafter, the dial's tensor of a runner without rows
\* (Worker.sleep, Worker.wake_up).
THEOREM NothingReadIsLost == Spec => []ForwardsReadLiveMemory
<1>1. WorkerInv => ForwardsReadLiveMemory
  BY DEF WorkerInv, LastRun, ForwardsReadLiveMemory
<1>2. QED
  BY <1>1, WorkerInvariance, PTL

\* The dial's tensor is lost or holds the dial (set_lambda).
THEOREM TensorFollowsTheDial == Spec => []TensorHoldsTheDial
<1>1. WorkerInv => TensorHoldsTheDial
  BY DEF WorkerInv, Contents, TensorHoldsTheDial
<1>2. QED
  BY <1>1, WorkerInvariance, PTL

\* Saved buffers are restored by the wake-up that maps the weights
\* (_sleep_saved_buffers).
THEOREM NoBufferIsForgotten == Spec => []BuffersComeBack
<1>1. WorkerInv => BuffersComeBack
  BY DEF WorkerInv, Contents, BuffersComeBack
<1>2. QED
  BY <1>1, WorkerInvariance, PTL

\* The worker's state keeps its type.
THEOREM WorkerTypes == Spec => []TypeOK
<1>1. WorkerInv => TypeOK
  <2> SUFFICES ASSUME WorkerInv PROVE TypeOK
    OBVIOUS
  <2>1. ran.lost \subseteq Tensors
    <3>1. ran.lost \subseteq ran.deep \cap {"params", "draft", "lam"}
      BY DEF WorkerInv, LastRun
    <3>2. {"params", "draft", "lam"} \subseteq Tensors
      BY DEF Tensors
    <3>3. QED
      BY <3>1, <3>2
  <2>2. QED
    BY <2>1, SavedNames DEF WorkerInv, Birthplaces, Contents, TypeOK, NamedBuffers
<1>2. QED
  BY <1>1, WorkerInvariance, PTL
===============================================================================

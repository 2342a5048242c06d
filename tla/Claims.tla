------------------------------- MODULE Claims -------------------------------
(***************************************************************************)
(* Start-up: the backbone's layers are built one by one, each claims the   *)
(* directions of its two writers by the name it has at run time; the claims*)
(* are checked; then the drafter's layer is built, by the same class.      *)
(*                                                                         *)
(* A prefix is what the engine calls a layer: the components of its stem   *)
(* and its index.  A key is what the checkpoint calls a writer: a layer's  *)
(* index and a sublayer.  Stems are arbitrary: the engine may put any      *)
(* levels above a layer, and rename them with the next release.            *)
(*                                                                         *)
(* There are two builds, and they tell the drafter's layer apart by tests  *)
(* of their own: the model file of the base image, and the file the port   *)
(* to vLLM 0.27.1 patches.                                                 *)
(***************************************************************************)
EXTENDS Integers, Sequences

CONSTANTS
  NumLayers,   \* num_hidden_layers
  Builds,      \* which model file: "base", "port"
  Full,        \* the layers of full attention; the others are linear
  Stems,       \* prefixes the engine may give the backbone
  DraftStems,  \* prefixes it may give the drafter
  Files,       \* the sets of keys a directions file may have
  Modes,       \* values of VLLM_REFUSAL_MTP_MODE
  Ranges,      \* the tranches of layers a pipeline rank may hold
  NoKey, NoProjection

Sublayers == {"linear_attn.out_proj", "self_attn.o_proj", "mlp.down_proj"}
Keys == Nat \X Sublayers

ASSUME ClaimsAssumption ==
  /\ NumLayers \in Nat \ {0} /\ NumLayers <= 100
  /\ Full \subseteq 0 .. NumLayers - 1
  /\ \A s \in Stems \cup DraftStems : s \in Seq(STRING) /\ s # <<>>
  /\ Builds \subseteq {"base", "port"}
  /\ \A f \in Files : f # {} /\ f \subseteq Keys
  /\ Modes \subseteq {"off", "last", "mean"}
  /\ Ranges \subseteq (0 .. NumLayers) \X (0 .. NumLayers)
  /\ \A r \in Ranges : r[1] <= r[2]
  /\ NoKey \notin Keys
  /\ NoProjection \notin [dir : Keys, role : {"target", "draft"}]

VARIABLES
  conf,      \* what the process was started with
  next,      \* the next layer to build
  consumed,  \* _consumed
  proj,      \* writer -> its projection: whose direction, which buffer
  status     \* "building", "checked", "serving" or "aborted"

claimsVars == <<conf, next, consumed, proj, status>>

Writers == ({"backbone"} \X (0 .. NumLayers - 1) \X {"attn", "mlp"})
           \cup {<<"draft", 0, "attn">>, <<"draft", 0, "mlp">>}
Image(s) == {s[i] : i \in DOMAIN s}

\* The drafter hangs from "mtp.": of the backbone's prefixes nothing is assumed
ASSUME DraftStemsAssumption ==
  \A s \in DraftStems : s[1] # "model" /\ "mtp" \in Image(s)

-----------------------------------------------------------------------------
AttnSub(i) == IF i \in Full THEN "self_attn.o_proj" ELSE "linear_attn.out_proj"

\* Does one of the prefix's components have one of these words in it?
Names(stem, words) == Image(stem) \cap words # {}

\* Prefixes _ckpt_key takes for a drafter's
NoKeyFor(stem) ==
  Names(stem, IF conf.build = "port" THEN {"mtp", "draft", "dspark"} ELSE {"mtp"})

\* Mutant of CkptKey: layers are numbered from one
CkptKeyFromOne(stem, i, sub) == IF NoKeyFor(stem) THEN NoKey ELSE <<i + 1, sub>>

\* _ckpt_key: the index alone makes the key, whatever the levels above
CkptKey(stem, i, sub) == IF NoKeyFor(stem) THEN NoKey ELSE <<i, sub>>

\* resolve_direction: the key, if the file has it
ResolveDirection(stem, i, sub) ==
  LET k == CkptKey(stem, i, sub) IN IF k \in conf.file THEN k ELSE NoKey

\* Keys sort as strings: the decimal digits of the layer, then "." (-1)
Text(k) ==
  LET n == k[1] IN IF n < 10 THEN <<n, -1>> ELSE <<n \div 10, n % 10, -1>>
SubRank(s) == CASE s = "linear_attn.out_proj" -> 0
                [] s = "mlp.down_proj" -> 1
                [] s = "self_attn.o_proj" -> 2
SortsBefore(k, j) ==
  IF k[1] = j[1] THEN SubRank(k[2]) < SubRank(j[2])
  ELSE \E i \in DOMAIN Text(k) \cap DOMAIN Text(j) :
         /\ Text(k)[i] < Text(j)[i]
         /\ \A h \in 1 .. i - 1 : Text(k)[h] = Text(j)[h]

\* resolve_mtp_direction: the drafter's direction
ResolveMtpDirection ==
  CASE conf.mode = "off" -> NoKey
    [] conf.mode = "last" ->
         CHOOSE k \in conf.file : \A j \in conf.file : ~ SortsBefore(k, j)
    [] conf.mode = "mean" -> <<"mean", conf.file>>

\* is_mtp of the base, is_draft of the port
IsDraft(stem) ==
  IF conf.build = "port" THEN Names(stem, {"mtp", "draft"}) ELSE stem[1] # "model"

\* RefusalProjection(*got, role = role), or none
Projection(dir, stem) ==
  IF dir = NoKey THEN NoProjection
  ELSE [dir |-> dir, role |-> IF IsDraft(stem) THEN "draft" ELSE "target"]

\* Qwen3_5DecoderLayer.__init__: what the two writers of a layer get.  The base asks for
\* the layer's directions first, the port for the drafter's
Layer(stem, i, sub) ==
  LET asks == ~(conf.build = "port" /\ IsDraft(stem))
      attn == IF asks THEN ResolveDirection(stem, i, sub) ELSE NoKey
      mlp == IF asks THEN ResolveDirection(stem, i, "mlp.down_proj") ELSE NoKey
      drafted == attn = NoKey /\ IsDraft(stem)
  IN [attn |-> Projection(IF drafted THEN ResolveMtpDirection ELSE attn, stem),
      mlp  |-> Projection(IF drafted THEN ResolveMtpDirection ELSE mlp, stem),
      keys |-> {attn, mlp} \ {NoKey}]

ClaimsInit ==
  /\ \E build \in Builds, stem \in Stems, draft \in DraftStems, file \in Files, mode \in Modes,
        range \in Ranges :
       /\ conf = [build |-> build, stem |-> stem, draft |-> draft, file |-> file,
                  mode |-> mode, range |-> range]
       /\ next = range[1]
  /\ consumed = {}
  /\ proj = [w \in Writers |-> NoProjection]
  /\ status = "building"

Place(model, i, layer) ==
  proj' = [proj EXCEPT ![<<model, i, "attn">>] = layer.attn, ![<<model, i, "mlp">>] = layer.mlp]

\* make_layers builds the next layer of the backbone
BuildLayer ==
  LET layer == Layer(conf.stem, next, AttnSub(next)) IN
  /\ status = "building" /\ next < conf.range[2]
  /\ consumed' = consumed \cup layer.keys
  /\ Place("backbone", next, layer)
  /\ next' = next + 1
  /\ UNCHANGED <<conf, status>>

WholeModel == conf.range = <<0, NumLayers>>

\* Mutant of Verify: the claims are counted and not compared
VerifyCount ==
  /\ status = "building" /\ next = conf.range[2]
  /\ status' = IF WholeModel /\ consumed = {} THEN "aborted" ELSE "checked"
  /\ UNCHANGED <<conf, next, consumed, proj>>

\* Mutant of Verify: directions nobody claims are logged
VerifyWarns ==
  /\ status = "building" /\ next = conf.range[2]
  /\ status' = "checked"
  /\ UNCHANGED <<conf, next, consumed, proj>>

\* verify_all_consumed, called only where every layer has been built
Verify ==
  /\ status = "building" /\ next = conf.range[2]
  /\ status' = IF WholeModel /\ ~ conf.file \subseteq consumed THEN "aborted" ELSE "checked"
  /\ UNCHANGED <<conf, next, consumed, proj>>

\* The drafter: one layer of full attention, of the same class
BuildDrafter ==
  LET layer == Layer(conf.draft, 0, "self_attn.o_proj") IN
  /\ status = "checked"
  /\ consumed' = consumed \cup layer.keys
  /\ Place("draft", 0, layer)
  /\ status' = "serving"
  /\ UNCHANGED <<conf, next>>

\* The process serves, or has stopped: nothing of this changes again
Settled == status \in {"serving", "aborted"} /\ UNCHANGED claimsVars

ClaimsNext == BuildLayer \/ Verify \/ BuildDrafter \/ Settled

ClaimsSpec == ClaimsInit /\ [][ClaimsNext]_claimsVars

-----------------------------------------------------------------------------
\* Type invariant.
ClaimsTypeOK ==
  /\ next \in conf.range[1] .. conf.range[2]
  /\ consumed \subseteq conf.file
  /\ status \in {"building", "checked", "serving", "aborted"}
  /\ DOMAIN proj = Writers

SubOf(w) == IF w[3] = "mlp" THEN "mlp.down_proj" ELSE AttnSub(w[2])

\* The port reads any prefix by one rule.  The base's two tests, whether a prefix starts
\* with "model." and whether it holds "mtp", agree where it does start so.
ReadAlike == conf.build = "port" \/ conf.stem[1] = "model"

\* A whole model that serves projects every writer the file has a direction for,
\* and no other of the backbone: never half ablated (verify_all_consumed).
NeverHalfAblated ==
  status = "serving" /\ WholeModel /\ ReadAlike =>
    conf.file = {k \in conf.file :
                   \E w \in Writers : /\ w[1] = "backbone" /\ proj[w] # NoProjection
                                      /\ k = <<w[2], SubOf(w)>>}

\* Whatever levels the engine puts above a layer, a writer of the backbone that is
\* projected is projected with its own layer's and sublayer's direction, at the latest
\* when a whole model serves, and on every tranche where no level is called a drafter's.
\* With the mode off the drafter is left alone, though its layer is numbered from 0 like
\* the backbone's first.
EachWriterItsOwn ==
  \A w \in Writers : proj[w] # NoProjection =>
    IF w[1] = "backbone"
    THEN ReadAlike /\ (Names(conf.stem, {"mtp", "draft"}) => status = "serving" /\ WholeModel)
           => proj[w].dir = <<w[2], SubOf(w)>>
    ELSE conf.mode # "off"

\* A backbone under another name than today's is read right or does not start: a whole
\* model never serves with a writer of the backbone that reads the drafter's buffer, nor
\* the other way round, though a level called "draft" or "mtp" makes its layers take the
\* drafter's direction and buffer as they are built.
RenamedOrRefused ==
  status = "serving" /\ WholeModel /\ ReadAlike =>
    \A w \in Writers : proj[w] # NoProjection =>
      proj[w].role = IF w[1] = "backbone" THEN "target" ELSE "draft"
=============================================================================

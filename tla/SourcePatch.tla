---------------------------- MODULE SourcePatch ----------------------------
(***************************************************************************)
(* The two scripts that put the projection into an engine's source tree:   *)
(* patch_sglang_qwen38_27b.py and patch_vllm_0271.py.  Each replaces a     *)
(* list of anchors, one after the other, every one by reading a file,      *)
(* counting the anchor and writing the file again; nothing is undone.      *)
(*                                                                         *)
(* A tree is the number of occurrences each anchor has left and the times  *)
(* each replacement is in it.  An image build starts from the base tree    *)
(* and keeps its tree only if the script and the gates succeed; a run by   *)
(* hand works on whatever an earlier run has left, a file cut short by a   *)
(* write that was stopped included.                                        *)
(***************************************************************************)
EXTENDS Integers, Sequences

CONSTANTS
  Ways,      \* how the script is run: "image", "hand"
  MaxMoved,  \* bound: anchors missing from the base, or there twice
  MaxRuns,   \* bound: runs over one tree
  MaxCuts    \* bound: writes stopped in the middle

ASSUME PatchAssumption ==
  Ways \subseteq {"image", "hand"} /\ MaxMoved \in Nat /\ MaxRuns \in Nat \ {0} /\ MaxCuts \in Nat

-----------------------------------------------------------------------------
(* The anchors in the order of main.  An anchor that its own replacement    *)
(* repeats is still there afterwards: kept.  The others are gone.          *)

Kept(file) == [file |-> file, kept |-> TRUE]
Dropped(file) == [file |-> file, kept |-> FALSE]

\* S0 .. S6: import, init, verification, the two writers of a layer
PatchModel ==
  LET f == "qwen3_5" IN <<Kept(f), Kept(f), Kept(f), Kept(f), Dropped(f), Kept(f), Dropped(f)>>

\* M0 .. M2: import, direction, both outputs of the MLP
PatchMlp == LET f == "qwen2_moe" IN <<Kept(f), Kept(f), Dropped(f)>>

\* D0 .. D3: the dial as an internal state of the scheduler
PatchScheduler == LET f == "scheduler" IN <<Dropped(f), Kept(f), Kept(f), Dropped(f)>>

\* H0: the admin routes
PatchHttpServer == <<Kept("http_server")>>

\* F0, F1: a lambda for each token of the batch
PatchForwardBatch == <<Kept("forward_batch_info"), Dropped("forward_batch_info")>>

Sglang == PatchModel \o PatchMlp \o PatchScheduler \o PatchHttpServer \o PatchForwardBatch

\* Imports, the projecting layer, the check of unclaimed directions
PatchQwen == LET f == "qwen3_5" IN <<Dropped(f), Dropped(f), Dropped(f), Dropped(f), Dropped(f)>>

\* The salt of a new request travels to the worker
PatchSchedOutput == LET f == "output" IN <<Kept(f), Kept(f), Dropped(f)>>

\* The lambda of each request and each token of a step
PatchModelRunner == LET f == "model_runner" IN <<Kept(f), Dropped(f), Dropped(f), Dropped(f), Dropped(f)>>

\* The lambda in the keys of the prefix cache
PatchKvCache == LET f == "kv_cache_utils" IN <<Kept(f), Dropped(f), Dropped(f)>>

\* The RPCs of the dial
PatchWorker == <<Kept("gpu_worker")>>

\* The admin router
PatchServe == <<Dropped("serve")>>

Vllm == PatchQwen \o PatchSchedOutput \o PatchModelRunner \o PatchKvCache
          \o PatchWorker \o PatchServe

Scripts == [sglang |-> Sglang, vllm |-> Vllm]

VARIABLES
  script,   \* which script
  way,      \* how it is run
  base,     \* occurrences of each anchor in the published tree
  version,  \* does the tree have a version.py?
  count,    \* occurrences of each anchor in the tree at hand
  done,     \* its replacements in that tree: 0, 1, or 2 for twice and more
  torn,     \* files cut short since the base
  payload,  \* is refusal_projection.py whole and in the tree?
  pc,       \* where the script is
  site,     \* the anchor it is at
  written,  \* history: anchors whose replacement was written since the base, in part or whole
  runs,     \* runs so far
  cuts,     \* writes stopped so far
  image     \* the replacements in the image built, or <<>>

patchVars == <<script, way, base, version, count, done, torn, payload, pc, site,
               written, runs, cuts, image>>

tree == <<count, done, torn, payload, written>>

Anchors == Scripts[script]
Sites == DOMAIN Anchors
FileOf(s) == Anchors[s].file
FilesOf(S) == {FileOf(s) : s \in S}

\* The published tree, with the occurrences of some anchors changed
Moved(moves) ==
  [s \in Sites |-> LET at == {i \in DOMAIN moves : moves[i][1] = s}
                   IN IF at = {} THEN 1 ELSE moves[CHOOSE i \in at : TRUE][2]]

\* By hand, vLLM's payload is in the tree if the operator has copied it
PatchInit ==
  /\ script \in DOMAIN Scripts /\ way \in Ways
  /\ version \in BOOLEAN /\ (script = "sglang" => version)
  /\ \E moves \in [1 .. MaxMoved -> Sites \X (0 .. 2)] : base = Moved(moves)
  /\ payload \in (IF script = "vllm" /\ way = "hand" THEN BOOLEAN ELSE {FALSE})
  /\ count = base /\ done = [s \in Sites |-> 0] /\ torn = {} /\ written = {}
  /\ pc = "idle" /\ site = 1 /\ runs = 0 /\ cuts = 0 /\ image = <<>>

\* main begins.  SGLang's script goes on to the payload; vLLM's looks for version.py and
\* leaves the payload to the Dockerfile, which has copied it
Begin ==
  /\ pc' = CASE script = "sglang" -> "copy"
             [] script = "vllm" /\ version -> "replace"
             [] OTHER -> "died"
  /\ site' = 1 /\ runs' = runs + 1
  /\ UNCHANGED <<script, way, base, version, cuts, image>>

\* Mutant of Main: an image is built over the tree of the last attempt
MainOver ==
  /\ pc \in {"idle", "exited", "died"} /\ runs < MaxRuns
  /\ payload' = (payload \/ (script = "vllm" /\ way = "image"))
  /\ UNCHANGED <<count, done, torn, written>>
  /\ Begin

\* A build begins with the base image, a run by hand with the tree as it is
Main ==
  /\ pc \in {"idle", "exited", "died"} /\ runs < MaxRuns
  /\ IF way = "image"
     THEN /\ count' = base /\ done' = [s \in Sites |-> 0] /\ torn' = {} /\ written' = {}
          /\ payload' = (script = "vllm")
     ELSE UNCHANGED tree
  /\ Begin

\* shutil.copyfile of SGLang's script, whole
CopyPayload ==
  /\ pc = "copy" /\ pc' = "replace" /\ payload' = TRUE
  /\ UNCHANGED <<script, way, base, version, count, done, torn, written, site, runs, cuts, image>>

\* Mutant of Replace: one occurrence is enough
ReplaceFirst ==
  /\ pc = "replace" /\ site \in Sites
  /\ pc' = IF count[site] = 0 THEN "died" ELSE "write"
  /\ UNCHANGED <<script, way, base, version, tree, site, runs, cuts, image>>

\* replace: the anchor must be in the text exactly once
Replace ==
  /\ pc = "replace" /\ site \in Sites
  /\ pc' = IF count[site] = 1 THEN "write" ELSE "died"
  /\ UNCHANGED <<script, way, base, version, tree, site, runs, cuts, image>>

\* The text with the replacement in place of the anchor
CountAfter == IF Anchors[site].kept THEN count ELSE [count EXCEPT ![site] = @ - 1]
DoneAfter == [done EXCEPT ![site] = IF @ = 0 THEN 1 ELSE 2]

\* is written over the file
WriteText ==
  /\ pc = "write"
  /\ count' = CountAfter /\ done' = DoneAfter /\ written' = written \cup {site}
  /\ pc' = "replace" /\ site' = site + 1
  /\ UNCHANGED <<script, way, base, version, torn, payload, runs, cuts, image>>

\* What is left of the occurrences f: none of those in lost, one at most of those in single
Left(f, lost, single) ==
  [s \in Sites |-> IF s \in lost THEN 0 ELSE IF s \in single /\ f[s] > 1 THEN 1 ELSE f[s]]

\* The write is stopped and leaves the beginning of the text.  Where in a file its anchors
\* are is not known here: any of them, and any replacement, may be behind the end (lost), or
\* the second of two (single).  The text may also end in the middle of one replacement,
\* behind the anchor it repeats (ends).  In the last of MaxRuns it would show nothing more.
Cut ==
  /\ pc = "write" /\ cuts < MaxCuts /\ runs < MaxRuns /\ pc' = "died"
  /\ LET here == {s \in Sites : FileOf(s) = FileOf(site)}
     IN \E lost \in SUBSET here,
           single \in SUBSET {s \in here : CountAfter[s] > 1 \/ DoneAfter[s] > 1},
           ends \in {{}} \cup {{s} : s \in {r \in here : Anchors[r].kept}} :
          /\ count' = Left(CountAfter, lost, single)
          /\ done' = Left(DoneAfter, lost \cup ends, single)
  /\ torn' = torn \cup {FileOf(site)} /\ written' = written \cup {site}
  /\ cuts' = cuts + 1
  /\ UNCHANGED <<script, way, base, version, payload, site, runs, image>>

\* All anchors applied: the script exits with 0, and a build keeps the tree
Exit ==
  /\ pc = "replace" /\ site \notin Sites
  /\ pc' = "exited"
  /\ image' = IF way = "image" THEN done ELSE image
  /\ UNCHANGED <<script, way, base, version, tree, site, runs, cuts>>

\* The process is killed, or the disk is full; a payload being copied may be cut short
Stop ==
  /\ pc \in {"copy", "replace"} /\ pc' = "died"
  /\ payload' \in {payload, payload /\ pc # "copy"}
  /\ UNCHANGED <<script, way, base, version, count, done, torn, written, site, runs, cuts, image>>

PatchNext == Main \/ CopyPayload \/ Replace \/ WriteText \/ Cut \/ Exit \/ Stop

PatchSpec == PatchInit /\ [][PatchNext]_patchVars

-----------------------------------------------------------------------------
\* Types; no attempt adds an anchor
PatchTypeOK ==
  /\ script \in DOMAIN Scripts /\ way \in Ways /\ {version, payload} \subseteq BOOLEAN
  /\ base \in [Sites -> 0 .. 2] /\ count \in [Sites -> 0 .. 2] /\ done \in [Sites -> 0 .. 2]
  /\ torn \subseteq FilesOf(Sites) /\ written \subseteq Sites
  /\ pc \in {"idle", "copy", "replace", "write", "exited", "died"}
  /\ site \in 1 .. Len(Anchors) + 1 /\ runs \in 0 .. MaxRuns /\ cuts \in 0 .. MaxCuts
  /\ \A s \in Sites : count[s] <= base[s]

\* Never an image half patched: a build that succeeds has made every replacement once,
\* whatever attempts were stopped before it.
ImagesAreWhole == PatchTypeOK /\ (image # <<>> => image = [s \in Sites |-> 1])

\* The anchors before the first that goes with its replacement: a run by hand finds them
\* again after an attempt that came no further.
Redone == {s \in Sites : \A r \in 1 .. s : Anchors[r].kept}

\* Exit code 0 means that every replacement is in the tree: once, over a source where its
\* anchor was there once and in a file that is whole.  A run by hand after an attempt that
\* was stopped is no exception, but for the anchors of Redone, which may be replaced again,
\* and for the file they are in, which may have lost its end.  vLLM's script has no such
\* anchors; SGLang's also leaves the payload whole.
ZeroMeansApplied ==
  pc = "exited" =>
    /\ \A s \in Sites : done[s] >= 1 /\ (s \notin Redone => done[s] = 1)
    /\ \A s \in Sites : FileOf(s) \notin FilesOf(Redone) => base[s] = 1
    /\ torn \subseteq FilesOf(Redone)
    /\ script = "sglang" => payload

=============================================================================

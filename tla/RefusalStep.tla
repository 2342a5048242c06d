---------------------------- MODULE RefusalStep ----------------------------
(***************************************************************************)
(* One worker rank of the vLLM V2 runner: which lambda every row of every  *)
(* forward is projected with.                                              *)
(*                                                                         *)
(* State: the rank's global dial (_lam_value), the two persistent per-role *)
(* buffers (_buf), the slots of the persistent batch (req_id_to_index) and *)
(* the per-slot lambdas (RefusalState.lambdas).  The worker is one thread: *)
(* a handler runs to its end before the next message, so each handler is   *)
(* one action.  The scheduler is external: the action ExecuteModel takes   *)
(* any output it may legally send.                                         *)
(***************************************************************************)
EXTENDS Integers, FiniteSets, Sequences

CONSTANTS
  Reqs,          \* request ids
  MaxNumReqs,    \* slots of the persistent batch
  MaxNumTokens,  \* rows of each buffer = the scheduler's token budget
  Lambdas,       \* values a dial or a seal may take
  PlainSalts,    \* cache_salts that carry no lambda: absent, foreign, garbled
  NoLambda,      \* NaN: "use the global dial"
  LamZero,       \* the dial before any projection module is built (0.0)
  LamInit,       \* VLLM_REFUSAL_LAMBDA_INIT
  NoSlot, NoSalt, NoBuf

ASSUME StepAssumption ==
  /\ MaxNumReqs \in Nat \ {0}
  /\ MaxNumTokens \in Nat \ {0}
  /\ {LamZero, LamInit} \subseteq Lambdas
  /\ NoLambda \notin Lambdas
  /\ Lambdas \cap PlainSalts = {}
  /\ NoSalt \notin Lambdas \cup PlainSalts
  /\ NoSlot \notin 0 .. MaxNumReqs - 1
  /\ NoBuf \notin [1 .. MaxNumTokens -> Lambdas]

VARIABLES
  phase,    \* "new", "runner", "loaded", "serving": how far the worker started up
  lam,      \* _lam_value of this process
  buf,      \* role -> its buffer, NoBuf before ensure_buffers
  tok,      \* role -> does a projection module of the role hold the buffer (self._tok)
  index,    \* req_states.req_id_to_index, NoSlot when the worker does not hold it
  lambdas,  \* RefusalState.lambdas
  salt,     \* the cache_salt of each request alive in the scheduler
  ran       \* history: the last forward (what each row was, what it was served with)

vars == <<phase, lam, buf, tok, index, lambdas, salt, ran>>

Roles == {"target", "draft"}
Slots == 0 .. MaxNumReqs - 1
Rows  == 1 .. MaxNumTokens
Salts == Lambdas \cup PlainSalts

Alive    == {r \in Reqs : salt[r] # NoSalt}
Resident == {r \in Reqs : index[r] # NoSlot}

-----------------------------------------------------------------------------
(***************************************************************************)
(* The pure parts.                                                         *)
(***************************************************************************)

\* parse_request_lambda: the lambda a salt seals, NoLambda for any other salt
ParseRequestLambda(s) == IF s \in Lambdas THEN s ELSE NoLambda

\* Mutant of PerReq: the NaN of an unsealed request is never resolved
PerReqUnresolved(l, g) == l

\* RefusalState._per_req on one slot: NaN is resolved to the dial in force
PerReq(l, g) == IF l = NoLambda THEN g ELSE l

\* fill_neutral: the whole buffer of a role takes the dial
FillNeutral(role, g) ==
  IF buf[role] = NoBuf THEN NoBuf ELSE [i \in Rows |-> g]

\* Mutant of Fill: the rows past the batch keep what the last step wrote
FillStaleTail(role, t, n, g) ==
  IF buf[role] = NoBuf THEN NoBuf
  ELSE [i \in Rows |-> IF i <= n THEN t[i] ELSE buf[role][i]]

\* fill: rows 1..n take tok, the rest the dial; a batch that does not fit is
\* never clipped
Fill(role, t, n, g) ==
  IF buf[role] = NoBuf THEN NoBuf
  ELSE IF n > MaxNumTokens THEN FillNeutral(role, g)
  ELSE [i \in Rows |-> IF i <= n THEN t[i] ELSE g]

\* What rows 1..m of a forward multiply the projection by: the buffer bound at
\* construction, or the global scalar when none existed then
Read(b, role, g, m) ==
  [i \in 1 .. m |-> IF tok[role] THEN b[role][i] ELSE g]

\* Mutant of RemoveRequests: the slot's lambda outlives its holder
RemoveRequestsKeepLambda(st, gone) ==
  [index   |-> [r \in Reqs |-> IF r \in gone THEN NoSlot ELSE st.index[r]],
   lambdas |-> st.lambdas]

\* _remove_request for every request of a set: slot freed, its lambda cleared
RemoveRequests(st, gone) ==
  [index   |-> [r \in Reqs |-> IF r \in gone THEN NoSlot ELSE st.index[r]],
   lambdas |-> [s \in Slots |-> IF \E r \in gone : st.index[r] = s
                                THEN NoLambda ELSE st.lambdas[s]]]

\* Mutant of AddRequests: the seal is not written to the slot
AddRequestsUnsealed(st, new, place) ==
  LET clean == RemoveRequests(st, new)
  IN [index   |-> [r \in Reqs |-> IF r \in new THEN place[r] ELSE clean.index[r]],
      lambdas |-> clean.lambdas]

\* add_requests: a request already held is removed first (streaming update),
\* then each new one takes a free slot and writes its lambda there
AddRequests(st, new, place) ==
  LET clean == RemoveRequests(st, new)
  IN [index   |-> [r \in Reqs |-> IF r \in new THEN place[r] ELSE clean.index[r]],
      lambdas |-> [s \in Slots |->
                     IF \E r \in new : place[r] = s
                     THEN ParseRequestLambda(salt[CHOOSE r \in new : place[r] = s])
                     ELSE clean.lambdas[s]]]

\* The slots free for the new requests once gone and new have left theirs
FreeSlots(leaving) == Slots \ {index[r] : r \in Resident \ leaving}

Injective(f) == \A x, y \in DOMAIN f : f[x] = f[y] => x = y

\* The batches of k requests prepare_inputs may build over a set of requests
Batches(S, k) == {b \in [1 .. k -> S] : Injective(b)}

\* The layouts of n tokens over k batch positions: row i belongs to position
\* pos[i]; each position holds a run of at least one row and the runs grow
\* (prepare_inputs sorts by num_scheduled_tokens).  pos is what both
\* query_start_loc and np.repeat(_, num_scheduled_tokens) encode.
NumScheduled(pos, j) == Cardinality({i \in DOMAIN pos : pos[i] = j})
Layouts == [k \in 0 .. MaxNumReqs |-> [n \in 0 .. MaxNumTokens |->
  {pos \in [1 .. n -> 1 .. k] :
     /\ \A i, j \in 1 .. n : i <= j => pos[i] <= pos[j]
     /\ \A j \in 1 .. k : NumScheduled(pos, j) >= 1
     /\ \A i, j \in 1 .. k : i <= j => NumScheduled(pos, i) <= NumScheduled(pos, j)}]]

\* Mutant of IdxMapping: batch order taken for slot order
IdxMappingByPosition(batch, idx) == [j \in DOMAIN batch |-> j - 1]

\* idx_mapping: batch position -> slot
IdxMapping(batch, idx) == [j \in DOMAIN batch |-> idx[batch[j]]]

\* fill_target's row lambdas: _per_req repeated over the scheduled tokens
TargetRows(batch, pos, st, g) ==
  LET per == [j \in DOMAIN batch |->
                PerReq(st.lambdas[IdxMapping(batch, st.index)[j]], g)]
  IN [i \in DOMAIN pos |-> per[pos[i]]]

NoRun == [kind |-> "none", owner |-> <<>>, salts |-> <<>>, dial |-> LamZero,
          rows |-> <<>>, drafts |-> <<>>]

-----------------------------------------------------------------------------
(***************************************************************************)
(* Start-up: the runner's __init__ creates the buffers, load_model builds  *)
(* the projection modules, profile_run and capture_model follow.           *)
(***************************************************************************)

Init ==
  /\ phase = "new"
  /\ lam = LamZero
  /\ buf = [role \in Roles |-> NoBuf]
  /\ tok = [role \in Roles |-> FALSE]
  /\ index = [r \in Reqs |-> NoSlot]
  /\ lambdas = [s \in Slots |-> NoLambda]
  /\ salt = [r \in Reqs |-> NoSalt]
  /\ ran = NoRun

\* GPUModelRunner.__init__ -> RefusalState -> ensure_buffers
RunnerInit ==
  /\ phase = "new"
  /\ phase' = "runner"
  /\ buf' = [role \in Roles |-> [i \in Rows |-> lam]]
  /\ UNCHANGED <<lam, tok, index, lambdas, salt, ran>>

\* load_model: the first RefusalProjection creates the dial's tensor at
\* LAMBDA_INIT, and each binds the buffer of its role, if it exists
LoadModel ==
  /\ phase = "runner"
  /\ phase' = "loaded"
  /\ lam' = LamInit
  /\ tok' = [role \in Roles |-> buf[role] # NoBuf]
  /\ UNCHANGED <<buf, index, lambdas, salt, ran>>

\* profile_run, then capture_model, which never goes through execute_model and
\* leaves the buffers as the profile run filled them
ProfileAndCapture ==
  /\ phase = "loaded"
  /\ phase' = "serving"
  /\ buf' = [role \in Roles |-> FillNeutral(role, lam)]
  /\ ran' = [NoRun EXCEPT !.kind = "dummy", !.dial = lam,
                          !.rows = Read(buf', "target", lam, MaxNumTokens),
                          !.drafts = Read(buf', "draft", lam, MaxNumTokens)]
  /\ UNCHANGED <<lam, tok, index, lambdas, salt>>

-----------------------------------------------------------------------------
(***************************************************************************)
(* Serving.                                                                *)
(***************************************************************************)

\* A request reaches the scheduler with a salt of its own
Arrive(r, s) ==
  /\ phase = "serving"
  /\ r \notin Alive
  /\ salt' = [salt EXCEPT ![r] = s]
  /\ UNCHANGED <<phase, lam, buf, tok, index, lambdas, ran>>

\* set_refusal_lambda, handled by this rank between two steps
SetLambda(l) ==
  /\ phase = "serving"
  /\ lam' = l
  /\ UNCHANGED <<phase, buf, tok, index, lambdas, salt, ran>>

\* The second half of execute_model: n scheduled tokens in batch order.  An empty
\* batch returns before the buffers are touched.
Forward(batch, pos, n, st) ==
  IF n = 0 THEN UNCHANGED <<buf, ran>>
  ELSE /\ buf' = [role \in Roles |->
                   IF role = "target"
                   THEN Fill(role, TargetRows(batch, pos, st, lam), n, lam)
                   ELSE FillNeutral(role, lam)]
       /\ \E padded \in n .. MaxNumTokens :
            ran' = [kind   |-> "real",
                    owner  |-> [i \in 1 .. n |-> batch[pos[i]]],
                    salts  |-> [i \in 1 .. n |-> salt[batch[pos[i]]]],
                    dial   |-> lam,
                    rows   |-> Read(buf', "target", lam, padded),
                    drafts |-> Read(buf', "draft", lam, padded)]

\* execute_model: finish_requests, add_requests, then prepare_inputs and the
\* forward.  The scheduler's output names requests finished or aborted (the
\* worker may never have held them), requests preempted, and requests sent whole
\* (new, resumed, or a streaming update of a held one).
ExecuteModel(finished, preempted, new) ==
  LET gone == finished \cup preempted
      free == FreeSlots(gone \cup new)
  IN
  /\ phase = "serving"
  /\ \E place \in [new -> free] :
       LET st == AddRequests(
                   RemoveRequests([index |-> index, lambdas |-> lambdas], gone),
                   new, place)
       IN
       /\ Injective(place)
       /\ index' = st.index
       /\ lambdas' = st.lambdas
       /\ salt' = [r \in Reqs |-> IF r \in finished THEN NoSalt ELSE salt[r]]
       /\ \E k \in 0 .. MaxNumReqs :
            \E batch \in Batches((Resident \ gone) \cup new, k) :
              /\ new \subseteq {batch[j] : j \in 1 .. k}
              /\ \E n \in 0 .. MaxNumTokens :
                   \E pos \in Layouts[k][n] : Forward(batch, pos, n, st)
  /\ UNCHANGED <<phase, lam, tok>>

\* execute_model(dummy_run=True) between real steps (an idle data-parallel rank)
DummyRun(n) ==
  /\ phase = "serving"
  /\ buf' = [role \in Roles |-> FillNeutral(role, lam)]
  /\ ran' = [NoRun EXCEPT !.kind = "dummy", !.dial = lam,
                          !.rows = Read(buf', "target", lam, n),
                          !.drafts = Read(buf', "draft", lam, n)]
  /\ UNCHANGED <<phase, lam, tok, index, lambdas, salt>>

Next ==
  \/ RunnerInit
  \/ LoadModel
  \/ ProfileAndCapture
  \/ \E r \in Reqs, s \in Salts : Arrive(r, s)
  \/ \E l \in Lambdas : SetLambda(l)
  \/ \E finished \in SUBSET Alive :
       \E preempted \in SUBSET (Resident \ finished) :
         \E new \in SUBSET (Alive \ (finished \cup preempted)) :
           ExecuteModel(finished, preempted, new)
  \/ \E n \in Rows : DummyRun(n)

Spec == Init /\ [][Next]_vars

-----------------------------------------------------------------------------
(***************************************************************************)
(* Properties.                                                             *)
(***************************************************************************)

\* Type invariant of the rank's state.
TypeOK ==
  /\ phase \in {"new", "runner", "loaded", "serving"}
  /\ lam \in Lambdas
  /\ buf \in [Roles -> [Rows -> Lambdas] \cup {NoBuf}]
  /\ tok \in [Roles -> BOOLEAN]
  /\ index \in [Reqs -> Slots \cup {NoSlot}]
  /\ lambdas \in [Slots -> Lambdas \cup {NoLambda}]
  /\ salt \in [Reqs -> Salts \cup {NoSalt}]
  /\ ran.kind \in {"none", "real", "dummy"}
  /\ ran.dial \in Lambdas

\* Every row of a forward that belongs to a request is projected with that
\* request's own lambda: its seal or, without one, the dial in force at the step.
\* No row ever reads the lambda of another request, of an earlier step or of
\* an earlier holder of the slot (fill_target, refusal_utils.py).
RowsServeTheirOwner ==
  \A i \in DOMAIN ran.owner :
    /\ i \in DOMAIN ran.rows
    /\ ran.rows[i] = PerReq(ParseRequestLambda(ran.salts[i]), ran.dial)

\* Rows nobody owns (graph padding, dummy and profile runs) and every row of the
\* drafter read the dial in force, never what an earlier step left in the buffer
\* (fill, fill_neutral, fill_draft_neutral).
UnownedRowsReadTheDial ==
  /\ \A i \in DOMAIN ran.rows \ DOMAIN ran.owner : ran.rows[i] = ran.dial
  /\ \A i \in DOMAIN ran.drafts : ran.drafts[i] = ran.dial

\* The slots mirror the requests the scheduler holds: no two requests share a
\* slot, a held slot carries the seal of its holder, a free slot carries none
\* (what remove_request's comment promises to the next holder).
SlotsMirrorRequests ==
  /\ \A r \in Resident : r \in Alive /\ lambdas[index[r]] = ParseRequestLambda(salt[r])
  /\ \A r, q \in Resident : index[r] = index[q] => r = q
  /\ \A s \in Slots : (\A r \in Resident : index[r] # s) => lambdas[s] = NoLambda

\* The pairs the last forward served, as the service sees them
Served == {<<ran.owner[i], ran.rows[i]>> : i \in DOMAIN ran.owner}

Service == INSTANCE RefusalService WITH dial <- lam, served <- Served

\* The rank implements the service: slots, preemption, streaming updates,
\* padding, dummy runs and start-up are invisible to the requests.
ImplementsService == Service!Spec
=============================================================================

------------------------- MODULE RefusalStepProofs -------------------------
(***************************************************************************)
(* Proofs about RefusalStep, for every number of requests, slots, rows and *)
(* lambdas: type correctness, the three safety invariants and the          *)
(* refinement of RefusalService.                                           *)
(***************************************************************************)
EXTENDS RefusalStep, FiniteSetTheorems, TLAPS

\* The slot state of the batch as one value, and what is asked of it while the
\* worker walks through a scheduler output.
Current == [index |-> index, lambdas |-> lambdas]

Held(st) == {r \in Reqs : st.index[r] # NoSlot}

SlotStates == [index : [Reqs -> Slots \cup {NoSlot}],
               lambdas : [Slots -> Lambdas \cup {NoLambda}]]

Mirrors(st) ==
  /\ \A r \in Held(st) : st.lambdas[st.index[r]] = ParseRequestLambda(salt[r])
  /\ \A r, q \in Held(st) : st.index[r] = st.index[q] => r = q
  /\ \A s \in Slots : (\A r \in Held(st) : st.index[r] # s) => st.lambdas[s] = NoLambda

\* The start-up order: the buffers exist from the runner's __init__ on, and the
\* projection modules of a loaded model hold them.
BuffersBound ==
  /\ phase # "new" => \A role \in Roles : buf[role] # NoBuf
  /\ phase \in {"loaded", "serving"} => \A role \in Roles : tok[role]

-----------------------------------------------------------------------------
\* A lambda read from a salt is a lambda or NaN; resolving NaN gives a lambda.
LEMMA ParseType ==
  ASSUME NEW s PROVE ParseRequestLambda(s) \in Lambdas \cup {NoLambda}
BY DEF ParseRequestLambda

LEMMA PerReqType ==
  ASSUME NEW l \in Lambdas \cup {NoLambda}, NEW g \in Lambdas
  PROVE  PerReq(l, g) \in Lambdas
BY DEF PerReq

\* Removing a set of requests keeps the slots a mirror of the others.
LEMMA RemoveKeepsMirror ==
  ASSUME NEW st \in SlotStates, Mirrors(st), NEW gone \in SUBSET Reqs
  PROVE  /\ RemoveRequests(st, gone) \in SlotStates
         /\ Mirrors(RemoveRequests(st, gone))
         /\ Held(RemoveRequests(st, gone)) = Held(st) \ gone
         /\ \A r \in Reqs \ gone : RemoveRequests(st, gone).index[r] = st.index[r]
<1> DEFINE out == RemoveRequests(st, gone)
<1>1. /\ out.index = [r \in Reqs |-> IF r \in gone THEN NoSlot ELSE st.index[r]]
      /\ out.lambdas = [s \in Slots |-> IF \E r \in gone : st.index[r] = s
                                        THEN NoLambda ELSE st.lambdas[s]]
  BY DEF RemoveRequests
<1>2. /\ st.index \in [Reqs -> Slots \cup {NoSlot}]
      /\ st.lambdas \in [Slots -> Lambdas \cup {NoLambda}]
  BY DEF SlotStates
<1>3. NoSlot \notin Slots
  BY StepAssumption DEF Slots
<1>4. out \in SlotStates
  BY <1>1, <1>2 DEF SlotStates, RemoveRequests
<1>5. Held(out) = Held(st) \ gone
  BY <1>1, <1>2 DEF Held
<1>6. \A r \in Reqs \ gone : out.index[r] = st.index[r]
  BY <1>1
<1>7. Mirrors(out)
  <2>1. ASSUME NEW r \in Held(out)
        PROVE  out.lambdas[out.index[r]] = ParseRequestLambda(salt[r])
    <3>1. r \in Held(st) \ gone /\ out.index[r] = st.index[r] /\ st.index[r] \in Slots
      BY <1>1, <1>2, <1>5 DEF Held
    <3>2. ~ \E q \in gone : st.index[q] = st.index[r]
      BY <3>1, <1>2, <1>3 DEF Mirrors, Held
    <3>3. QED
      BY <3>1, <3>2, <1>1 DEF Mirrors
  <2>2. \A r, q \in Held(out) : out.index[r] = out.index[q] => r = q
    BY <1>5, <1>6 DEF Mirrors, Held
  <2>3. ASSUME NEW s \in Slots, \A r \in Held(out) : out.index[r] # s
        PROVE  out.lambdas[s] = NoLambda
    <3>1. CASE \E r \in gone : st.index[r] = s
      BY <3>1, <1>1
    <3>2. CASE ~ \E r \in gone : st.index[r] = s
      <4>1. \A r \in Held(st) : st.index[r] # s
        BY <3>2, <2>3, <1>5, <1>6 DEF Held
      <4>2. QED
        BY <4>1, <3>2, <1>1 DEF Mirrors
    <3>3. QED
      BY <3>1, <3>2
  <2>4. QED
    BY <2>1, <2>2, <2>3 DEF Mirrors
<1>8. QED
  BY <1>4, <1>5, <1>6, <1>7

\* Adding requests into distinct free slots keeps the slots a mirror.
LEMMA AddKeepsMirror ==
  ASSUME NEW st \in SlotStates, Mirrors(st), NEW new \in SUBSET Reqs,
         NEW place \in [new -> Slots], Injective(place),
         \A r \in new, q \in Held(st) \ new : place[r] # st.index[q]
  PROVE  /\ AddRequests(st, new, place) \in SlotStates
         /\ Mirrors(AddRequests(st, new, place))
         /\ Held(AddRequests(st, new, place)) = Held(st) \cup new
<1> DEFINE clean == RemoveRequests(st, new)
           out == AddRequests(st, new, place)
<1>0. /\ clean \in SlotStates /\ Mirrors(clean) /\ Held(clean) = Held(st) \ new
      /\ \A r \in Reqs \ new : clean.index[r] = st.index[r]
  BY RemoveKeepsMirror
<1>1. /\ out.index = [r \in Reqs |-> IF r \in new THEN place[r] ELSE clean.index[r]]
      /\ out.lambdas = [s \in Slots |->
           IF \E r \in new : place[r] = s
           THEN ParseRequestLambda(salt[CHOOSE r \in new : place[r] = s])
           ELSE clean.lambdas[s]]
  BY DEF AddRequests
<1>2. /\ clean.index \in [Reqs -> Slots \cup {NoSlot}]
      /\ clean.lambdas \in [Slots -> Lambdas \cup {NoLambda}]
  BY <1>0 DEF SlotStates
<1>3. NoSlot \notin Slots
  BY StepAssumption DEF Slots
<1>4. out \in SlotStates
  <2>1. out.index \in [Reqs -> Slots \cup {NoSlot}]
    BY <1>1, <1>2
  <2>2. out.lambdas \in [Slots -> Lambdas \cup {NoLambda}]
    BY <1>1, <1>2, ParseType
  <2>3. out = [index |-> out.index, lambdas |-> out.lambdas]
    BY DEF AddRequests
  <2>4. QED
    BY <2>1, <2>2, <2>3 DEF SlotStates
<1>5. Held(out) = Held(st) \cup new
  BY <1>0, <1>1, <1>2, <1>3 DEF Held
<1>6. ASSUME NEW r \in new
      PROVE  out.index[r] = place[r] /\ out.lambdas[place[r]] = ParseRequestLambda(salt[r])
  <2>1. \A q \in new : place[q] = place[r] => q = r
    BY <1>6 DEF Injective
  <2>2. (CHOOSE q \in new : place[q] = place[r]) = r
    BY <2>1, <1>6
  <2>3. place[r] \in Slots
    BY <1>6
  <2>4. QED
    BY <1>1, <1>6, <2>2, <2>3
<1>7. ASSUME NEW r \in Held(out) \ new
      PROVE  /\ r \in Held(clean) /\ out.index[r] = clean.index[r]
             /\ out.index[r] \in Slots
             /\ \A q \in new : place[q] # out.index[r]
             /\ out.lambdas[out.index[r]] = clean.lambdas[out.index[r]]
  <2>1. r \in Held(clean) /\ out.index[r] = clean.index[r] /\ out.index[r] \in Slots
    BY <1>7, <1>0, <1>1, <1>2, <1>5 DEF Held
  <2>2. \A q \in new : place[q] # out.index[r]
    BY <2>1, <1>0, <1>7 DEF Held
  <2>3. QED
    BY <1>1, <2>1, <2>2
<1>8. Mirrors(out)
  <2>1. ASSUME NEW r \in Held(out)
        PROVE  out.lambdas[out.index[r]] = ParseRequestLambda(salt[r])
    BY <1>0, <1>6, <1>7 DEF Mirrors
  <2>2. ASSUME NEW r \in Held(out), NEW q \in Held(out), out.index[r] = out.index[q]
        PROVE  r = q
    <3>1. CASE r \in new /\ q \in new
      BY <3>1, <2>2, <1>6 DEF Injective
    <3>2. CASE r \in new /\ q \notin new
      BY <3>2, <2>2, <1>6, <1>7
    <3>3. CASE r \notin new /\ q \in new
      BY <3>3, <2>2, <1>6, <1>7
    <3>4. CASE r \notin new /\ q \notin new
      BY <3>4, <2>2, <1>0, <1>7 DEF Mirrors
    <3>5. QED
      BY <3>1, <3>2, <3>3, <3>4
  <2>3. ASSUME NEW s \in Slots, \A r \in Held(out) : out.index[r] # s
        PROVE  out.lambdas[s] = NoLambda
    <3>1. ~ \E r \in new : place[r] = s
      BY <2>3, <1>5, <1>6
    <3>2. \A r \in Held(clean) : clean.index[r] # s
      BY <2>3, <1>0, <1>1, <1>5 DEF Held
    <3>3. QED
      BY <3>1, <3>2, <1>0, <1>1 DEF Mirrors
  <2>4. QED
    BY <2>1, <2>2, <2>3 DEF Mirrors
<1>9. QED
  BY <1>4, <1>5, <1>8

-----------------------------------------------------------------------------
(***************************************************************************)
(* The inductive invariant and what one scheduler output does to it.       *)
(***************************************************************************)

IInv ==
  /\ TypeOK
  /\ BuffersBound
  /\ SlotsMirrorRequests
  /\ RowsServeTheirOwner
  /\ UnownedRowsReadTheDial

\* The slot state after the requests that left and the new ones are dealt with:
\* it mirrors the requests held, and holds exactly those.
LEMMA OutputKeepsMirror ==
  ASSUME TypeOK, SlotsMirrorRequests,
         NEW gone \in SUBSET Alive, NEW new \in SUBSET (Alive \ gone),
         NEW place \in [new -> FreeSlots(gone \cup new)], Injective(place),
         NEW st, st = AddRequests(RemoveRequests(Current, gone), new, place)
  PROVE  /\ st \in SlotStates
         /\ Mirrors(st)
         /\ Held(st) = (Resident \ gone) \cup new
<1>1. Current \in SlotStates /\ Mirrors(Current) /\ Held(Current) = Resident
  BY DEF Current, SlotStates, Mirrors, Held, Resident, TypeOK, SlotsMirrorRequests
<1>2. gone \in SUBSET Reqs /\ new \in SUBSET Reqs
  BY DEF Alive
<1> DEFINE mid == RemoveRequests(Current, gone)
<1>3. /\ mid \in SlotStates /\ Mirrors(mid) /\ Held(mid) = Resident \ gone
      /\ \A r \in Reqs \ gone : mid.index[r] = index[r]
  BY <1>1, <1>2, RemoveKeepsMirror DEF Current
<1>4. place \in [new -> Slots]
  BY DEF FreeSlots
<1>5. \A r \in new, q \in Held(mid) \ new : place[r] # mid.index[q]
  BY <1>3 DEF FreeSlots, Resident
<1>6. st = AddRequests(mid, new, place)
  OBVIOUS
<1> HIDE DEF mid
<1>7. QED
  BY <1>2, <1>3, <1>4, <1>5, <1>6, AddKeepsMirror

\* The rows fill_target computes: row i carries the lambda of its request.
LEMMA TargetRowsAreOwners ==
  ASSUME TypeOK, NEW st \in SlotStates, Mirrors(st), NEW k, NEW n,
         NEW batch \in [1 .. k -> Held(st)], NEW pos \in [1 .. n -> 1 .. k],
         NEW i \in 1 .. n
  PROVE  /\ TargetRows(batch, pos, st, lam)[i]
               = PerReq(ParseRequestLambda(salt[batch[pos[i]]]), lam)
         /\ TargetRows(batch, pos, st, lam)[i] \in Lambdas
<1>1. pos[i] \in 1 .. k /\ batch[pos[i]] \in Held(st)
  OBVIOUS
<1>2. st.lambdas[st.index[batch[pos[i]]]] = ParseRequestLambda(salt[batch[pos[i]]])
  BY <1>1 DEF Mirrors
<1>3. TargetRows(batch, pos, st, lam)[i]
        = PerReq(st.lambdas[st.index[batch[pos[i]]]], lam)
  BY <1>1 DEF TargetRows, IdxMapping
<1>4. ParseRequestLambda(salt[batch[pos[i]]]) \in Lambdas \cup {NoLambda}
  BY ParseType
<1>5. PerReq(ParseRequestLambda(salt[batch[pos[i]]]), lam) \in Lambdas
  BY <1>4, PerReqType DEF TypeOK
<1>6. QED
  BY <1>2, <1>3, <1>5

\* What a forward leaves in the buffers and in its record.
LEMMA ForwardRows ==
  ASSUME TypeOK, BuffersBound, phase = "serving", RowsServeTheirOwner,
         UnownedRowsReadTheDial,
         NEW st \in SlotStates, Mirrors(st), NEW k \in Nat, NEW n \in 0 .. MaxNumTokens,
         NEW batch \in [1 .. k -> Held(st)], NEW pos \in [1 .. n -> 1 .. k],
         Forward(batch, pos, n, st)
  PROVE  /\ buf' \in [Roles -> [Rows -> Lambdas]] \/ buf' = buf
         /\ ran'.kind \in {"none", "real", "dummy"} /\ ran'.dial \in Lambdas
         /\ RowsServeTheirOwner'
         /\ UnownedRowsReadTheDial'
<1>1. CASE n = 0
  BY <1>1 DEF Forward, TypeOK, RowsServeTheirOwner, UnownedRowsReadTheDial
<1>2. CASE n # 0
  <2> DEFINE rows == TargetRows(batch, pos, st, lam)
  <2>1. /\ \A role \in Roles : buf[role] # NoBuf /\ tok[role]
        /\ lam \in Lambdas /\ n \in Nat /\ n <= MaxNumTokens /\ MaxNumTokens \in Nat
        /\ "target" \in Roles /\ "draft" \in Roles
    BY StepAssumption DEF BuffersBound, TypeOK, Roles
  <2>2. /\ Fill("target", rows, n, lam) = [i \in Rows |-> IF i <= n THEN rows[i] ELSE lam]
        /\ FillNeutral("draft", lam) = [i \in Rows |-> lam]
    BY <2>1 DEF Fill, FillNeutral
  <2>3. \A i \in 1 .. n : /\ rows[i] = PerReq(ParseRequestLambda(salt[batch[pos[i]]]), lam)
                           /\ rows[i] \in Lambdas
    BY TargetRowsAreOwners
  <2> HIDE DEF rows
  <2>4. buf' = [role \in Roles |-> IF role = "target" THEN Fill("target", rows, n, lam)
                                   ELSE FillNeutral("draft", lam)]
    BY <1>2, <2>1 DEF Forward, Roles, rows
  <2>5. /\ \A i \in Rows : buf'["target"][i] = IF i <= n THEN rows[i] ELSE lam
        /\ \A i \in Rows : buf'["draft"][i] = lam
    BY <2>1, <2>2, <2>4 DEF Roles
  <2>6. buf' \in [Roles -> [Rows -> Lambdas]]
    <3>1. lam \in Lambdas
      BY DEF TypeOK
    <3>2. \A i \in Rows : (IF i <= n THEN rows[i] ELSE lam) \in Lambdas
      BY <2>3, <3>1 DEF Rows
    <3>3. /\ Fill("target", rows, n, lam) \in [Rows -> Lambdas]
          /\ FillNeutral("draft", lam) \in [Rows -> Lambdas]
      BY <2>2, <3>1, <3>2
    <3>4. QED
      BY <2>4, <3>3
  <2>7. PICK padded \in n .. MaxNumTokens :
          ran' = [kind   |-> "real",
                  owner  |-> [i \in 1 .. n |-> batch[pos[i]]],
                  salts  |-> [i \in 1 .. n |-> salt[batch[pos[i]]]],
                  dial   |-> lam,
                  rows   |-> Read(buf', "target", lam, padded),
                  drafts |-> Read(buf', "draft", lam, padded)]
    BY <1>2 DEF Forward
  <2>8. /\ DOMAIN ran'.owner = 1 .. n
        /\ DOMAIN ran'.rows = 1 .. padded /\ DOMAIN ran'.drafts = 1 .. padded
        /\ \A i \in 1 .. padded : /\ i \in Rows
                                  /\ ran'.rows[i] = buf'["target"][i]
                                  /\ ran'.drafts[i] = buf'["draft"][i]
        /\ \A i \in 1 .. n : i \in 1 .. padded /\ ran'.salts[i] = salt[batch[pos[i]]]
        /\ ran'.dial = lam /\ ran'.kind = "real"
    BY <2>1, <2>7 DEF Read, Rows
  <2>9. RowsServeTheirOwner'
    BY <2>1, <2>3, <2>5, <2>8 DEF RowsServeTheirOwner
  <2>10. UnownedRowsReadTheDial'
    BY <2>1, <2>5, <2>8 DEF UnownedRowsReadTheDial
  <2>11. QED
    BY <2>1, <2>6, <2>8, <2>9, <2>10
<1>3. QED
  BY <1>1, <1>2

\* A scheduler output, finished, preempted and new requests and the forward
\* together, keeps the inductive invariant.
LEMMA ExecuteKeepsIInv ==
  ASSUME IInv, NEW finished \in SUBSET Alive,
         NEW preempted \in SUBSET (Resident \ finished),
         NEW new \in SUBSET (Alive \ (finished \cup preempted)),
         ExecuteModel(finished, preempted, new)
  PROVE  IInv'
<1> DEFINE gone == finished \cup preempted
<1>1. /\ phase = "serving"
      /\ salt' = [r \in Reqs |-> IF r \in finished THEN NoSalt ELSE salt[r]]
      /\ UNCHANGED <<phase, lam, tok>>
  BY DEF ExecuteModel
<1>2. PICK place \in [new -> FreeSlots(gone \cup new)] :
        LET st == AddRequests(RemoveRequests(Current, gone), new, place)
        IN /\ Injective(place)
           /\ index' = st.index
           /\ lambdas' = st.lambdas
           /\ \E k \in 0 .. MaxNumReqs, n \in 0 .. MaxNumTokens :
                \E batch \in Batches((Resident \ gone) \cup new, k), pos \in Layouts[k][n] :
                  /\ new \subseteq {batch[j] : j \in 1 .. k}
                  /\ Forward(batch, pos, n, st)
  BY DEF ExecuteModel, Current
<1>3. PICK st : st = AddRequests(RemoveRequests(Current, gone), new, place)
  OBVIOUS
<1>4. /\ Injective(place)
      /\ index' = st.index
      /\ lambdas' = st.lambdas
      /\ \E k \in 0 .. MaxNumReqs, n \in 0 .. MaxNumTokens :
           \E batch \in Batches((Resident \ gone) \cup new, k), pos \in Layouts[k][n] :
             Forward(batch, pos, n, st)
  BY <1>2, <1>3
<1>5. PICK k \in 0 .. MaxNumReqs, n \in 0 .. MaxNumTokens :
        \E batch \in Batches((Resident \ gone) \cup new, k), pos \in Layouts[k][n] :
          Forward(batch, pos, n, st)
  BY <1>4
<1>6. PICK batch \in Batches((Resident \ gone) \cup new, k), pos \in Layouts[k][n] :
        Forward(batch, pos, n, st)
  BY <1>5
<1>7. /\ TypeOK /\ BuffersBound /\ SlotsMirrorRequests
      /\ RowsServeTheirOwner /\ UnownedRowsReadTheDial
  BY DEF IInv
<1>8. gone \in SUBSET Alive /\ new \in SUBSET (Alive \ gone) /\ Resident \subseteq Alive
  BY <1>7 DEF SlotsMirrorRequests
<1> HIDE DEF gone
<1>9. /\ st \in SlotStates /\ Mirrors(st) /\ Held(st) = (Resident \ gone) \cup new
  BY <1>3, <1>4, <1>7, <1>8, OutputKeepsMirror
<1>10. batch \in [1 .. k -> Held(st)] /\ pos \in [1 .. n -> 1 .. k] /\ k \in Nat
  <2>1. batch \in [1 .. k -> Held(st)]
    BY <1>9 DEF Batches
  <2>2. Layouts[k][n] \subseteq [1 .. n -> 1 .. k]
    BY DEF Layouts
  <2>3. QED
    BY <2>1, <2>2
<1>11. /\ buf' \in [Roles -> [Rows -> Lambdas]] \/ buf' = buf
       /\ ran'.kind \in {"none", "real", "dummy"} /\ ran'.dial \in Lambdas
       /\ RowsServeTheirOwner'
       /\ UnownedRowsReadTheDial'
  BY <1>1, <1>6, <1>7, <1>9, <1>10, ForwardRows
<1>12. TypeOK'
  BY <1>1, <1>4, <1>7, <1>9, <1>11 DEF TypeOK, SlotStates
<1>13. BuffersBound'
  <2>1. \A role \in Roles : buf[role] # NoBuf /\ tok[role]
    BY <1>1, <1>7 DEF BuffersBound
  <2>2. CASE buf' \in [Roles -> [Rows -> Lambdas]]
    BY <1>1, <2>1, <2>2, StepAssumption DEF BuffersBound, Rows
  <2>3. CASE buf' = buf
    BY <1>1, <2>1, <2>3 DEF BuffersBound
  <2>4. QED
    BY <1>11, <2>2, <2>3
<1>14. SlotsMirrorRequests'
  <2>1. Resident' = Held(st)
    BY <1>4 DEF Resident, Held
  <2>2. \A r \in Held(st) : r \in Reqs /\ r \notin finished /\ r \in Alive
    BY <1>8, <1>9 DEF Alive, gone
  <2>3. \A r \in Held(st) : salt'[r] = salt[r] /\ r \in Alive'
    BY <1>1, <2>2 DEF Alive
  <2>4. \A r \in Resident' : r \in Alive' /\ lambdas'[index'[r]] = ParseRequestLambda(salt'[r])
    BY <1>4, <1>9, <2>1, <2>3 DEF Mirrors
  <2>5. \A r, q \in Resident' : index'[r] = index'[q] => r = q
    BY <1>4, <1>9, <2>1 DEF Mirrors
  <2>6. \A s \in Slots : (\A r \in Resident' : index'[r] # s) => lambdas'[s] = NoLambda
    BY <1>4, <1>9, <2>1 DEF Mirrors
  <2>7. QED
    BY <2>4, <2>5, <2>6 DEF SlotsMirrorRequests
<1>15. QED
  BY <1>11, <1>12, <1>13, <1>14 DEF IInv

\* A forward no request takes part in: all its rows read the dial.
LEMMA NeutralForward ==
  ASSUME IInv, phase \in {"loaded", "serving"}, NEW n \in Rows,
         buf' = [role \in Roles |-> FillNeutral(role, lam)],
         ran' = [NoRun EXCEPT !.kind = "dummy", !.dial = lam,
                              !.rows = Read(buf', "target", lam, n),
                              !.drafts = Read(buf', "draft", lam, n)]
  PROVE  /\ buf' \in [Roles -> [Rows -> Lambdas]]
         /\ ran'.kind = "dummy" /\ ran'.dial = lam /\ DOMAIN ran'.owner = {}
         /\ RowsServeTheirOwner'
         /\ UnownedRowsReadTheDial'
<1>1. /\ \A role \in Roles : buf[role] # NoBuf /\ tok[role]
      /\ lam \in Lambdas /\ "target" \in Roles /\ "draft" \in Roles
  BY DEF IInv, BuffersBound, TypeOK, Roles
<1>2. \A role \in Roles : buf'[role] = [i \in Rows |-> lam]
  BY <1>1 DEF FillNeutral
<1>3. n \in Nat /\ 1 .. n \subseteq Rows
  BY StepAssumption DEF Rows
<1>4. /\ ran'.kind = "dummy" /\ ran'.dial = lam /\ ran'.owner = <<>>
      /\ ran'.rows = Read(buf', "target", lam, n)
      /\ ran'.drafts = Read(buf', "draft", lam, n)
  BY DEF NoRun
<1>5. /\ ran'.rows = [i \in 1 .. n |-> lam]
      /\ ran'.drafts = [i \in 1 .. n |-> lam]
  BY <1>1, <1>2, <1>3, <1>4 DEF Read
<1>6. DOMAIN ran'.owner = {}
  BY <1>4
<1>7. /\ \A i \in DOMAIN ran'.rows : ran'.rows[i] = ran'.dial
      /\ \A i \in DOMAIN ran'.drafts : ran'.drafts[i] = ran'.dial
  <2> DEFINE r == ran'.rows
             d == ran'.drafts
             g == ran'.dial
  <2>1. r = [i \in 1 .. n |-> lam] /\ d = [i \in 1 .. n |-> lam] /\ g = lam
    BY <1>4, <1>5
  <2> HIDE DEF r, d, g
  <2>2. (\A i \in DOMAIN r : r[i] = g) /\ (\A i \in DOMAIN d : d[i] = g)
    BY <2>1
  <2>3. QED
    BY <2>2 DEF r, d, g
<1>8. RowsServeTheirOwner' /\ UnownedRowsReadTheDial'
  BY <1>6, <1>7 DEF RowsServeTheirOwner, UnownedRowsReadTheDial
<1>9. buf' \in [Roles -> [Rows -> Lambdas]]
  BY <1>1, <1>2
<1>10. QED
  BY <1>4, <1>6, <1>8, <1>9

LEMMA InitIInv == Init => IInv
<1> SUFFICES ASSUME Init PROVE IInv
  OBVIOUS
<1>1. TypeOK
  BY StepAssumption DEF Init, TypeOK, NoRun
<1>2. BuffersBound
  BY DEF Init, BuffersBound
<1>3. SlotsMirrorRequests
  BY DEF Init, SlotsMirrorRequests, Resident
<1>4. DOMAIN ran.owner = {} /\ DOMAIN ran.rows = {} /\ DOMAIN ran.drafts = {}
  BY DEF Init, NoRun
<1>5. RowsServeTheirOwner /\ UnownedRowsReadTheDial
  BY <1>4 DEF RowsServeTheirOwner, UnownedRowsReadTheDial
<1>6. QED
  BY <1>1, <1>2, <1>3, <1>5 DEF IInv

LEMMA NextIInv == IInv /\ [Next]_vars => IInv'
<1> SUFFICES ASSUME IInv, [Next]_vars PROVE IInv'
  OBVIOUS
<1> USE DEF IInv
<1>1. CASE RunnerInit
  <2>1. UNCHANGED <<lam, tok, index, lambdas, salt, ran>>
    BY <1>1 DEF RunnerInit
  <2>2. TypeOK'
    BY <1>1 DEF RunnerInit, TypeOK
  <2>3. BuffersBound'
    BY <1>1, StepAssumption DEF RunnerInit, BuffersBound, TypeOK, Rows
  <2>4. QED
    BY <2>1, <2>2, <2>3 DEF SlotsMirrorRequests, Resident, Alive, RowsServeTheirOwner,
                            UnownedRowsReadTheDial
<1>2. CASE LoadModel
  <2>1. UNCHANGED <<buf, index, lambdas, salt, ran>>
    BY <1>2 DEF LoadModel
  <2>2. TypeOK' /\ BuffersBound'
    BY <1>2, StepAssumption DEF LoadModel, TypeOK, BuffersBound
  <2>3. QED
    BY <2>1, <2>2 DEF SlotsMirrorRequests, Resident, Alive, RowsServeTheirOwner,
                      UnownedRowsReadTheDial
<1>3. CASE ProfileAndCapture
  <2>1. MaxNumTokens \in Rows
    BY StepAssumption DEF Rows
  <2>2. /\ buf' \in [Roles -> [Rows -> Lambdas]]
        /\ ran'.kind = "dummy" /\ ran'.dial = lam
        /\ RowsServeTheirOwner' /\ UnownedRowsReadTheDial'
    BY <1>3, <2>1, NeutralForward DEF ProfileAndCapture
  <2>3. phase' = "serving" /\ phase = "loaded" /\ UNCHANGED <<lam, tok, index, lambdas, salt>>
    BY <1>3 DEF ProfileAndCapture
  <2>4. TypeOK' /\ BuffersBound'
    BY <2>2, <2>3, StepAssumption DEF TypeOK, BuffersBound, Rows
  <2>5. SlotsMirrorRequests'
    BY <2>3 DEF SlotsMirrorRequests, Resident, Alive
  <2>6. QED
    BY <2>2, <2>4, <2>5
<1>4. ASSUME NEW r \in Reqs, NEW s \in Salts, Arrive(r, s)
      PROVE  IInv'
  <2>1. UNCHANGED <<phase, lam, buf, tok, index, lambdas, ran>>
    BY <1>4 DEF Arrive
  <2>2. TypeOK' /\ BuffersBound'
    BY <1>4, <2>1 DEF Arrive, TypeOK, BuffersBound
  <2>3. SlotsMirrorRequests'
    <3>1. Resident' = Resident
      BY <2>1 DEF Resident
    <3>2. r \notin Resident
      BY <1>4 DEF Arrive, SlotsMirrorRequests
    <3>3. \A q \in Resident : salt'[q] = salt[q]
      BY <1>4, <3>2 DEF Arrive, TypeOK, Resident
    <3>4. \A q \in Resident : q \in Alive'
      BY <3>3 DEF SlotsMirrorRequests, Alive
    <3>5. QED
      BY <2>1, <3>1, <3>3, <3>4 DEF SlotsMirrorRequests
  <2>4. QED
    BY <2>1, <2>2, <2>3 DEF RowsServeTheirOwner, UnownedRowsReadTheDial
<1>5. ASSUME NEW l \in Lambdas, SetLambda(l)
      PROVE  IInv'
  <2>1. UNCHANGED <<phase, buf, tok, index, lambdas, salt, ran>>
    BY <1>5 DEF SetLambda
  <2>2. TypeOK' /\ BuffersBound'
    BY <1>5, <2>1 DEF SetLambda, TypeOK, BuffersBound
  <2>3. QED
    BY <2>1, <2>2 DEF SlotsMirrorRequests, Resident, Alive, RowsServeTheirOwner,
                      UnownedRowsReadTheDial
<1>6. ASSUME NEW finished \in SUBSET Alive,
             NEW preempted \in SUBSET (Resident \ finished),
             NEW new \in SUBSET (Alive \ (finished \cup preempted)),
             ExecuteModel(finished, preempted, new)
      PROVE  IInv'
  BY <1>6, ExecuteKeepsIInv
<1>7. ASSUME NEW n \in Rows, DummyRun(n)
      PROVE  IInv'
  <2>1. /\ buf' \in [Roles -> [Rows -> Lambdas]]
        /\ ran'.kind = "dummy" /\ ran'.dial = lam
        /\ RowsServeTheirOwner' /\ UnownedRowsReadTheDial'
    BY <1>7, NeutralForward DEF DummyRun
  <2>2. UNCHANGED <<phase, lam, tok, index, lambdas, salt>>
    BY <1>7 DEF DummyRun
  <2>3. TypeOK' /\ BuffersBound'
    BY <2>1, <2>2, StepAssumption DEF TypeOK, BuffersBound, Rows
  <2>4. SlotsMirrorRequests'
    BY <2>2 DEF SlotsMirrorRequests, Resident, Alive
  <2>5. QED
    BY <2>1, <2>3, <2>4
<1>8. CASE UNCHANGED vars
  BY <1>8 DEF vars, TypeOK, BuffersBound, SlotsMirrorRequests, Resident, Alive,
              RowsServeTheirOwner, UnownedRowsReadTheDial
<1>9. QED
  BY <1>1, <1>2, <1>3, <1>4, <1>5, <1>6, <1>7, <1>8 DEF Next

\* The strengthened invariant of every behaviour of the rank.
THEOREM InductiveInvariant == Spec => []IInv
BY InitIInv, NextIInv, PTL DEF Spec

\* Type correctness of the rank's state (RefusalState, _buf, _lam_value).
THEOREM TypeCorrect == Spec => []TypeOK
<1>1. IInv => TypeOK
  BY DEF IInv
<1>2. QED
  BY <1>1, InductiveInvariant, PTL

\* Every owned row of every forward carries the lambda of its own request.
THEOREM RowsCorrect == Spec => []RowsServeTheirOwner
<1>1. IInv => RowsServeTheirOwner
  BY DEF IInv
<1>2. QED
  BY <1>1, InductiveInvariant, PTL

\* Padding, dummy and drafter rows read the dial in force, never stale content.
THEOREM UnownedRowsCorrect == Spec => []UnownedRowsReadTheDial
<1>1. IInv => UnownedRowsReadTheDial
  BY DEF IInv
<1>2. QED
  BY <1>1, InductiveInvariant, PTL

\* The slots of RefusalState mirror the requests the worker holds.
THEOREM SlotsCorrect == Spec => []SlotsMirrorRequests
<1>1. IInv => SlotsMirrorRequests
  BY DEF IInv
<1>2. QED
  BY <1>1, InductiveInvariant, PTL

-----------------------------------------------------------------------------
(***************************************************************************)
(* The rank implements RefusalService.                                     *)
(***************************************************************************)

Pairs(B) == {<<r, Service!Effective(r)>> : r \in B}

\* A forward with n > 0 rows serves the requests of its batch, each at its
\* effective lambda; an empty one changes nothing.
LEMMA ForwardServes ==
  ASSUME RowsServeTheirOwner',
         NEW n \in 0 .. MaxNumTokens, NEW k \in 0 .. MaxNumReqs,
         NEW pos \in Layouts[k][n]
  PROVE  \A batch \in [1 .. k -> Reqs] : \A st, B :
           Forward(batch, pos, n, st) /\ B = {batch[j] : j \in 1 .. k}
             => Served' = IF B = {} THEN Served ELSE Pairs(B)
<1> SUFFICES ASSUME NEW batch \in [1 .. k -> Reqs], NEW st, NEW B,
                    Forward(batch, pos, n, st), B = {batch[j] : j \in 1 .. k}
             PROVE  Served' = IF B = {} THEN Served ELSE Pairs(B)
  OBVIOUS
<1>1. /\ pos \in [1 .. n -> 1 .. k]
      /\ \A j \in 1 .. k : NumScheduled(pos, j) >= 1
  BY DEF Layouts
<1>2. \A j \in 1 .. k : \E i \in 1 .. n : pos[i] = j
  <2> SUFFICES ASSUME NEW j \in 1 .. k, ~ \E i \in 1 .. n : pos[i] = j
               PROVE  FALSE
    OBVIOUS
  <2>1. {i \in DOMAIN pos : pos[i] = j} = {}
    BY <1>1
  <2>2. NumScheduled(pos, j) = 0
    BY <2>1, FS_EmptySet DEF NumScheduled
  <2>3. QED
    BY <1>1, <2>2
<1>3. CASE n = 0
  <2>1. B = {}
    BY <1>2, <1>3
  <2>2. Served' = Served
    BY <1>3 DEF Forward, Served
  <2>3. QED
    BY <2>1, <2>2
<1>4. CASE n # 0
  <2>1. 1 \in 1 .. n /\ B # {}
    BY <1>1, <1>4
  <2>2. PICK padded \in n .. MaxNumTokens :
          ran' = [kind   |-> "real",
                  owner  |-> [i \in 1 .. n |-> batch[pos[i]]],
                  salts  |-> [i \in 1 .. n |-> salt[batch[pos[i]]]],
                  dial   |-> lam,
                  rows   |-> Read(buf', "target", lam, padded),
                  drafts |-> Read(buf', "draft", lam, padded)]
    BY <1>4 DEF Forward
  <2>3. /\ DOMAIN ran'.owner = 1 .. n
        /\ \A i \in 1 .. n : /\ ran'.owner[i] = batch[pos[i]]
                              /\ ran'.salts[i] = salt[batch[pos[i]]]
        /\ ran'.dial = lam
    BY <2>2
  <2>4. \A r : PerReq(ParseRequestLambda(salt[r]), lam) = Service!Effective(r)
    BY StepAssumption DEF PerReq, ParseRequestLambda, Service!Effective
  <2>5. \A i \in 1 .. n : ran'.rows[i] = Service!Effective(batch[pos[i]])
    BY <2>3, <2>4 DEF RowsServeTheirOwner
  <2>6. Served' = {<<ran'.owner[i], ran'.rows[i]>> : i \in 1 .. n}
    BY <2>3 DEF Served
  <2>7. \A x : x \in Served' <=> \E i \in 1 .. n :
                 x = <<batch[pos[i]], Service!Effective(batch[pos[i]])>>
    <3>1. \A i \in 1 .. n : <<ran'.owner[i], ran'.rows[i]>>
                           = <<batch[pos[i]], Service!Effective(batch[pos[i]])>>
      BY <2>3, <2>5
    <3>2. \A x : x \in Served' <=> \E i \in 1 .. n : x = <<ran'.owner[i], ran'.rows[i]>>
      BY <2>6, Zenon
    <3>3. QED
      BY <3>1, <3>2
  <2>8. \A x : x \in Pairs(B) <=> \E i \in 1 .. n :
                 x = <<batch[pos[i]], Service!Effective(batch[pos[i]])>>
    <3>1. \A i \in 1 .. n : batch[pos[i]] \in B
      BY <1>1
    <3>2. \A r \in B : \E i \in 1 .. n : r = batch[pos[i]]
      BY <1>2
    <3>3. QED
      BY <3>1, <3>2, Zenon DEF Pairs
  <2>9. Served' = Pairs(B)
    BY <2>7, <2>8, Zenon
  <2>10. QED
    BY <2>1, <2>9
<1>5. QED
  BY <1>3, <1>4

LEMMA StepRefines == IInv /\ IInv' /\ [Next]_vars => [Service!Next]_(Service!vars)
<1> SUFFICES ASSUME IInv, IInv', [Next]_vars
             PROVE  Service!Next \/ UNCHANGED <<lam, salt, Served>>
  BY DEF Service!vars
<1>1. CASE RunnerInit
  BY <1>1 DEF RunnerInit, Served
<1>2. CASE LoadModel
  <2>1. Service!SetDial(LamInit)
    BY <1>2 DEF LoadModel, Service!SetDial, Served
  <2>2. QED
    BY <2>1, StepAssumption DEF Service!Next
<1>3. CASE ProfileAndCapture
  <2>1. MaxNumTokens \in Rows
    BY StepAssumption DEF Rows
  <2>2. DOMAIN ran'.owner = {}
    BY <1>3, <2>1, NeutralForward DEF ProfileAndCapture
  <2>3. Service!Idle
    BY <1>3, <2>2 DEF ProfileAndCapture, Service!Idle, Served
  <2>4. QED
    BY <2>3 DEF Service!Next
<1>4. ASSUME NEW r \in Reqs, NEW s \in Salts, Arrive(r, s)
      PROVE  Service!Next
  <2>1. Service!Arrive(r, s)
    BY <1>4 DEF Arrive, Service!Arrive, Service!Alive, Alive, Served
  <2>2. QED
    BY <2>1 DEF Service!Next, Salts
<1>5. ASSUME NEW l \in Lambdas, SetLambda(l)
      PROVE  Service!Next
  <2>1. Service!SetDial(l)
    BY <1>5 DEF SetLambda, Service!SetDial, Served
  <2>2. QED
    BY <2>1 DEF Service!Next
<1>6. ASSUME NEW finished \in SUBSET Alive,
             NEW preempted \in SUBSET (Resident \ finished),
             NEW new \in SUBSET (Alive \ (finished \cup preempted)),
             ExecuteModel(finished, preempted, new)
      PROVE  Service!Next
  <2> DEFINE S == (Resident \ (finished \cup preempted)) \cup new
  <2>1. PICK st : \E k \in 0 .. MaxNumReqs, n \in 0 .. MaxNumTokens :
          \E batch \in Batches(S, k), pos \in Layouts[k][n] : Forward(batch, pos, n, st)
    BY <1>6 DEF ExecuteModel
  <2>1a. PICK k \in 0 .. MaxNumReqs, n \in 0 .. MaxNumTokens :
          \E batch \in Batches(S, k), pos \in Layouts[k][n] : Forward(batch, pos, n, st)
    BY <2>1
  <2>2. PICK batch \in Batches(S, k), pos \in Layouts[k][n] : Forward(batch, pos, n, st)
    BY <2>1a
  <2>2a. PICK B : B = {batch[j] : j \in 1 .. k}
    OBVIOUS
  <2>3. batch \in [1 .. k -> S]
    BY DEF Batches
  <2>4. B \subseteq Alive \ finished
    BY <2>2a, <2>3 DEF IInv, SlotsMirrorRequests
  <2>5. Served' = IF B = {} THEN Served ELSE Pairs(B)
    <3>1. RowsServeTheirOwner'
      BY DEF IInv
    <3>2. batch \in [1 .. k -> Reqs]
      BY <2>3 DEF Alive, Resident
    <3>3. \A b \in [1 .. k -> Reqs] : \A t, C :
            Forward(b, pos, n, t) /\ C = {b[j] : j \in 1 .. k}
              => Served' = IF C = {} THEN Served ELSE Pairs(C)
      BY <3>1, ForwardServes, Zenon
    <3>4. QED
      BY <2>2, <2>2a, <3>2, <3>3, Zenon
  <2>6. /\ salt' = [r \in Reqs |-> IF r \in finished THEN NoSalt ELSE salt[r]]
        /\ lam' = lam
    BY <1>6 DEF ExecuteModel
  <2> HIDE DEF S
  <2>7. Service!Leave(finished) /\ Service!Serve(B)
    BY <2>5, <2>6 DEF Service!Leave, Service!Serve, Pairs
  <2>8. finished \in SUBSET Service!Alive /\ B \in SUBSET (Service!Alive \ finished)
    BY <2>4 DEF Service!Alive, Alive
  <2>9. QED
    BY <2>6, <2>7, <2>8 DEF Service!Step, Service!Next
<1>7. ASSUME NEW n \in Rows, DummyRun(n)
      PROVE  Service!Next
  <2>1. /\ phase = "serving"
        /\ DOMAIN ran'.owner = {}
    BY <1>7, NeutralForward DEF DummyRun
  <2>2. Service!Idle
    BY <1>7, <2>1 DEF DummyRun, Service!Idle, Served
  <2>3. QED
    BY <2>2 DEF Service!Next
<1>8. CASE UNCHANGED vars
  BY <1>8 DEF vars, Served
<1>9. QED
  BY <1>1, <1>2, <1>3, <1>4, <1>5, <1>6, <1>7, <1>8 DEF Next

\* Every behaviour of the rank is one of the service: each request is served at
\* its seal, or at the dial in force, whatever slot, preemption, streaming
\* update, padding or dummy run happens in between.
THEOREM Refinement == Spec => ImplementsService
<1>1. Init => Service!Init
  <2> SUFFICES ASSUME Init PROVE Service!Init
    OBVIOUS
  <2>1. ran.owner = <<>>
    BY DEF Init, NoRun
  <2>2. Served = {}
    BY <2>1 DEF Served
  <2>3. QED
    BY <2>2, StepAssumption DEF Init, Service!Init
<1>2. QED
  BY <1>1, StepRefines, InductiveInvariant, PTL DEF Spec, ImplementsService, Service!Spec
=============================================================================

------------------------------- MODULE DialRpc -------------------------------
(***************************************************************************)
(* Moving the dial while the ranks run steps: HTTP handlers, the engine    *)
(* core that serializes their calls with the steps, and the ranks, each    *)
(* reading its own FIFO of messages at its own pace.                       *)
(*                                                                         *)
(* The handlers and the worker's methods are this repository's; the engine *)
(* core and the queues are modelled from how they are used here: a utility *)
(* call is handled between steps and waits for every rank's reply, steps   *)
(* do not wait, and every rank gets the same messages in the same order.   *)
(***************************************************************************)
EXTENDS Integers, Sequences, FiniteSets

CONSTANTS
  Ranks,
  Clients,      \* HTTP callers, one call at a time each
  Lambdas,      \* values within LAMBDA_MIN .. LAMBDA_MAX
  LamInit,
  MaxSteps,     \* bound: engine steps
  MaxInFlight,  \* steps broadcast and not yet run by every rank
  Failed, NoCall

ASSUME RpcAssumption ==
  /\ Ranks # {} /\ IsFiniteSet(Ranks)
  /\ LamInit \in Lambdas
  /\ MaxSteps \in Nat /\ MaxInFlight \in Nat \ {0}
  /\ Failed \notin Lambdas /\ NoCall \notin Clients

VARIABLES
  client,   \* client -> its call: kind, value, status
  inbox,    \* the utility calls the engine core has not handled
  call,     \* the client whose call the engine core waits on, or NoCall
  queue,    \* rank -> the messages it has not handled
  replies,  \* rank -> what it answered to the call in progress
  dial,     \* rank -> its _lam_value
  ran,      \* history: step -> rank -> the lambda it ran the step with
  steps,    \* steps broadcast so far
  torn,     \* history: the last POST handled was not answered 200
  suspect,  \* history: the steps broadcast while torn
  overtaken \* history: the callers whose last call a later POST has overtaken

vars == <<client, inbox, call, queue, replies, dial, ran, steps, torn,
          suspect, overtaken>>

Steps == 1 .. MaxSteps
Status == {"idle", "pending", "ok", "error"}

InFlight == {n \in 1 .. steps : \E r \in Ranks : r \notin DOMAIN ran[n]}

-----------------------------------------------------------------------------
Init ==
  /\ client = [c \in Clients |-> [kind |-> "get", value |-> LamInit, status |-> "idle"]]
  /\ inbox = <<>>
  /\ call = NoCall
  /\ queue = [r \in Ranks |-> <<>>]
  /\ replies = [r \in {} |-> LamInit]
  /\ dial = [r \in Ranks |-> LamInit]
  /\ ran = [n \in Steps |-> [r \in {} |-> LamInit]]
  /\ steps = 0
  /\ torn = FALSE /\ suspect = {}
  /\ overtaken = {}

\* Mutant of Request: a call that finds another waiting is never queued
RequestUnlessBusy(c, kind, l) ==
  /\ client[c].status # "pending"
  /\ client' = [client EXCEPT ![c] = [kind |-> kind, value |-> l, status |-> "pending"]]
  /\ inbox' = IF inbox = <<>> THEN <<c>> ELSE inbox
  /\ UNCHANGED <<call, queue, replies, dial, ran, steps, torn, suspect, overtaken>>

\* A handler of the router calls collective_rpc: the call is queued
Request(c, kind, l) ==
  /\ client[c].status # "pending"
  /\ client' = [client EXCEPT ![c] = [kind |-> kind, value |-> l, status |-> "pending"]]
  /\ inbox' = Append(inbox, c)
  /\ UNCHANGED <<call, queue, replies, dial, ran, steps, torn, suspect, overtaken>>

\* POST and GET /admin/refusal_lambda
Post(c, l) == Request(c, "set", l)

Get(c) == Request(c, "get", LamInit)

\* The engine core takes the next utility call and broadcasts it
Dispatch ==
  /\ call = NoCall /\ inbox # <<>>
  /\ LET c == Head(inbox) IN
     /\ call' = c
     /\ queue' = [r \in Ranks |-> Append(queue[r], [kind  |-> client[c].kind,
                                                   value |-> client[c].value,
                                                   step  |-> 0])]
     /\ overtaken' = (IF client[c].kind = "set" THEN Clients ELSE overtaken) \ {c}
  /\ inbox' = Tail(inbox)
  /\ replies' = [r \in {} |-> LamInit]
  /\ UNCHANGED <<client, dial, ran, steps, torn, suspect>>

\* The engine core broadcasts a step
BroadcastStep ==
  /\ call = NoCall /\ steps < MaxSteps /\ Cardinality(InFlight) < MaxInFlight
  /\ steps' = steps + 1
  /\ suspect' = IF torn THEN suspect \cup {steps + 1} ELSE suspect
  /\ queue' = [r \in Ranks |-> Append(queue[r], [kind  |-> "step",
                                                value |-> LamInit,
                                                step  |-> steps + 1])]
  /\ UNCHANGED <<client, inbox, call, replies, dial, ran, torn, overtaken>>

Answer(r, v) == replies' = [q \in DOMAIN replies \cup {r} |-> IF q = r THEN v ELSE replies[q]]

\* execute_model on a rank: the forward reads the rank's own dial
RunStep(r, msg) ==
  /\ msg.kind = "step"
  /\ ran' = [ran EXCEPT ![msg.step] =
               [q \in DOMAIN @ \cup {r} |-> IF q = r THEN dial[r] ELSE @[q]]]
  /\ UNCHANGED <<dial, replies>>

\* Mutant of SetRefusalLambda: one rank only applies
SetRefusalLambdaOneRank(r, msg) ==
  /\ msg.kind = "set"
  /\ dial' = [dial EXCEPT ![CHOOSE q \in Ranks : TRUE] = msg.value]
  /\ Answer(r, msg.value)
  /\ UNCHANGED ran

\* set_refusal_lambda on a rank: applied, or the tensor's fill_ raised before
\* anything moved
SetRefusalLambda(r, msg) ==
  /\ msg.kind = "set"
  /\ \/ /\ dial' = [dial EXCEPT ![r] = msg.value]
        /\ Answer(r, msg.value)
     \/ /\ Answer(r, Failed)
        /\ UNCHANGED dial
  /\ UNCHANGED ran

\* get_refusal_lambda on a rank
GetRefusalLambda(r, msg) ==
  /\ msg.kind = "get"
  /\ Answer(r, dial[r])
  /\ UNCHANGED <<dial, ran>>

\* A rank handles the next message of its queue
Handle(r) ==
  /\ queue[r] # <<>>
  /\ LET msg == Head(queue[r]) IN
     \/ RunStep(r, msg)
     \/ SetRefusalLambda(r, msg)
     \/ GetRefusalLambda(r, msg)
  /\ queue' = [queue EXCEPT ![r] = Tail(queue[r])]
  /\ UNCHANGED <<client, inbox, call, steps, torn, suspect, overtaken>>

\* Mutant of Agreed: the first rank's answer stands for all
AgreedFirst(c) ==
  LET first == CHOOSE r \in Ranks : TRUE
  IN /\ replies[first] # Failed
     /\ client[c].kind = "set" => replies[first] = client[c].value

\* What the handler checks of the replies: a POST wants its value from every
\* rank, a GET wants one value from all; a failed rank raises in either
Agreed(c) ==
  /\ \A r \in Ranks : replies[r] # Failed
  /\ IF client[c].kind = "set"
     THEN \A r \in Ranks : replies[r] = client[c].value
     ELSE \A r, q \in Ranks : replies[r] = replies[q]

\* Every rank has answered: the handler replies 200 or 500 (a GET, consistent or not)
Reply ==
  /\ call # NoCall /\ DOMAIN replies = Ranks
  /\ client' = [client EXCEPT ![call].status = IF Agreed(call) THEN "ok" ELSE "error",
                              ![call].value =
                                 IF client[call].kind = "get" /\ Agreed(call)
                                 THEN replies[CHOOSE r \in Ranks : TRUE] ELSE @]
  /\ torn' = IF client[call].kind = "set" THEN ~ Agreed(call) ELSE torn
  /\ call' = NoCall
  /\ UNCHANGED <<inbox, queue, replies, dial, ran, steps, suspect, overtaken>>

EngineStep == Dispatch \/ BroadcastStep \/ Reply

Next ==
  \/ \E c \in Clients : (\E l \in Lambdas : Post(c, l)) \/ Get(c)
  \/ EngineStep
  \/ \E r \in Ranks : Handle(r)

\* The engine core drains its inbox before it schedules, and every process keeps
\* running; callers owe nothing
Fairness ==
  /\ WF_vars(Dispatch) /\ WF_vars(Reply)
  /\ \A r \in Ranks : WF_vars(Handle(r))

Spec == Init /\ [][Next]_vars
FairSpec == Spec /\ Fairness

-----------------------------------------------------------------------------
\* Type invariant.
TypeOK ==
  /\ client \in [Clients -> [kind : {"set", "get"}, value : Lambdas, status : Status]]
  /\ inbox \in Seq(Clients)
  /\ call \in Clients \cup {NoCall}
  /\ queue \in [Ranks -> Seq([kind : {"set", "get", "step"},
                             value : Lambdas, step : 0 .. MaxSteps])]
  /\ DOMAIN replies \subseteq Ranks
  /\ dial \in [Ranks -> Lambdas]
  /\ steps \in 0 .. MaxSteps
  /\ torn \in BOOLEAN /\ suspect \subseteq 1 .. steps

\* The ranks that have run a step ran it with the same lambda, however far apart
\* they are and whatever calls are under way, unless the POST handled before the
\* step was answered 500: tensor-parallel shards of one forward never mix lambdas
\* with nobody told ("un cluster con lambdas distintos por rank produce basura
\* silenciosa").
StepsAgree ==
  \A n \in Steps \ suspect : \A r, q \in DOMAIN ran[n] : ran[n][r] = ran[n][q]

\* What a caller was told holds on every rank until a later POST is handled, even
\* if setting the dial can fail on some rank: the value of a POST answered 200,
\* the value of a GET answered consistent.
AnswersHoldEverywhere ==
  \A c \in Clients : client[c].status = "ok" /\ c \notin overtaken =>
    \A r \in Ranks : dial[r] = client[c].value

\* Every call is answered.
CallsAreAnswered ==
  \A c \in Clients : client[c].status = "pending" ~> client[c].status \in {"ok", "error"}
=============================================================================

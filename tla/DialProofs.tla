----------------------------- MODULE DialProofs -----------------------------
(***************************************************************************)
(* Theorems about the dial: the calls of the engine core that move it      *)
(* (DialRpc) and the benches that turn it (Sweep).                         *)
(***************************************************************************)
EXTENDS DialRpc, Sweep, SequenceTheorems, TLAPS

(***************************************************************************)
(* DialRpc.  What calls and steps in flight come to, for any number of     *)
(* ranks, callers and steps, and however far the ranks drift apart.  The   *)
(* argument is about what a rank has yet to handle: the last steps         *)
(* broadcast, in their order, and behind them the call the engine core     *)
(* waits on, if the rank has not answered it.  So a rank moves its dial    *)
(* only when it has run every step, and a step not yet run anywhere meets  *)
(* the dial it was broadcast under.                                        *)
(***************************************************************************)

Waiting(r) == call # NoCall /\ r \notin DOMAIN replies

\* The steps rank r has yet to run
Backlog(r) == Len(queue[r]) - (IF Waiting(r) THEN 1 ELSE 0)

StepMsg(n) == [kind |-> "step", value |-> LamInit, step |-> n]
CallMsg == [kind |-> client[call].kind, value |-> client[call].value, step |-> 0]

Setting == call # NoCall /\ client[call].kind = "set"

\* The calls not yet answered are each of another client, who waits.
CallsOK ==
  /\ call # NoCall => client[call].status = "pending"
  /\ \A i \in DOMAIN inbox : inbox[i] # call /\ client[inbox[i]].status = "pending"
  /\ \A i, j \in DOMAIN inbox : i # j => inbox[i] # inbox[j]

\* What a rank has yet to handle.
QueueOK ==
  \A r \in Ranks :
    /\ Backlog(r) \in 0 .. steps
    /\ \A i \in 1 .. Backlog(r) : queue[r][i] = StepMsg(steps - Backlog(r) + i)
    /\ Waiting(r) => queue[r][Len(queue[r])] = CallMsg
    /\ call # NoCall /\ r \in DOMAIN replies => queue[r] = <<>>

\* What a rank has run.
RanOK ==
  /\ DOMAIN ran = Steps
  /\ \A n \in Steps : /\ DOMAIN ran[n] \subseteq Ranks
                      /\ \A r \in Ranks : r \in DOMAIN ran[n] <=> n <= steps - Backlog(r)

\* A step not suspect will meet, on the ranks that have yet to run it, the lambda
\* the others ran it with.
InFlightOK ==
  \A n \in (1 .. steps) \ suspect : \A r, q \in Ranks :
    r \notin DOMAIN ran[n] =>
      dial[r] = IF q \in DOMAIN ran[n] THEN ran[n][q] ELSE dial[q]

\* What an answer says, and where the dials stand if no POST is under way.
DialsOK ==
  /\ call # NoCall => \A r \in DOMAIN replies : replies[r] # Failed => dial[r] = replies[r]
  /\ ~ torn /\ ~ Setting => \A r, q \in Ranks : dial[r] = dial[q]
  /\ Setting => overtaken = Clients \ {call}

RpcInv ==
  /\ TypeOK /\ CallsOK /\ QueueOK /\ RanOK /\ InFlightOK /\ DialsOK
  /\ StepsAgree /\ AnswersHoldEverywhere

Msgs == [kind : {"set", "get", "step"}, value : Lambdas, step : 0 .. MaxSteps]

-----------------------------------------------------------------------------
\* What can be in a queue.
LEMMA MsgTypes ==
  ASSUME TypeOK
  PROVE  /\ \A n \in 0 .. MaxSteps : StepMsg(n) \in Msgs
         /\ \A c \in Clients : [kind |-> client[c].kind, value |-> client[c].value,
                               step |-> 0] \in Msgs
<1>1. LamInit \in Lambdas /\ 0 \in 0 .. MaxSteps
  BY RpcAssumption
<1>2. \A c \in Clients : client[c].kind \in {"set", "get"} /\ client[c].value \in Lambdas
  BY DEF TypeOK
<1>3. QED
  BY <1>1, <1>2 DEF StepMsg, Msgs

\* A message appended to a queue.
LEMMA Appended ==
  ASSUME NEW S, NEW s \in Seq(S), NEW e \in S
  PROVE  /\ Append(s, e) \in Seq(S) /\ Len(Append(s, e)) = Len(s) + 1
         /\ \A i \in 1 .. Len(s) : Append(s, e)[i] = s[i]
         /\ Append(s, e)[Len(s) + 1] = e
  OBVIOUS

LEMMA InitInv == Init => RpcInv
<1> SUFFICES ASSUME Init PROVE RpcInv
  OBVIOUS
<1> USE DEF Init
<1>1. LamInit \in Lambdas /\ MaxSteps \in Nat
  BY RpcAssumption
<1>2. DOMAIN [r \in {} |-> LamInit] = {}
  OBVIOUS
<1>3. TypeOK
  <2>1. client \in [Clients -> [kind : {"set", "get"}, value : Lambdas, status : Status]]
    BY <1>1 DEF Status
  <2>2. inbox \in Seq(Clients) /\ call \in Clients \cup {NoCall}
    OBVIOUS
  <2>3. queue \in [Ranks -> Seq([kind : {"set", "get", "step"},
                               value : Lambdas, step : 0 .. MaxSteps])]
    OBVIOUS
  <2>4. DOMAIN replies \subseteq Ranks /\ dial \in [Ranks -> Lambdas]
    BY <1>1, <1>2
  <2>5. steps \in 0 .. MaxSteps /\ torn \in BOOLEAN /\ suspect \subseteq 1 .. steps
    <3>1. steps = 0 /\ 0 \in 0 .. MaxSteps
      BY <1>1
    <3>2. torn \in BOOLEAN
      OBVIOUS
    <3>3. suspect \subseteq 1 .. steps
      OBVIOUS
    <3>4. QED
      BY <3>1, <3>2, <3>3
  <2>6. QED
    BY <2>1, <2>2, <2>3, <2>4, <2>5 DEF TypeOK
<1>4. \A r \in Ranks : Backlog(r) = 0 /\ ~ Waiting(r)
  BY DEF Backlog, Waiting
<1>5. CallsOK /\ QueueOK
  BY <1>4 DEF CallsOK, QueueOK
<1>6. RanOK /\ InFlightOK /\ StepsAgree
  BY <1>1, <1>2, <1>4 DEF RanOK, InFlightOK, StepsAgree, Steps
<1>7. DialsOK
  BY DEF DialsOK, Setting
<1>8. AnswersHoldEverywhere
  BY DEF AnswersHoldEverywhere
<1>9. QED
  BY <1>3, <1>5, <1>6, <1>7, <1>8 DEF RpcInv

\* A caller asks: it was waiting for nothing, so neither the call in progress nor
\* any in the inbox is its own.
LEMMA RequestInv ==
  ASSUME RpcInv, NEW c \in Clients, NEW kind \in {"set", "get"}, NEW l \in Lambdas,
         Request(c, kind, l)
  PROVE  RpcInv'
<1>1. /\ client[c].status # "pending"
      /\ client' = [client EXCEPT ![c] = [kind |-> kind, value |-> l, status |-> "pending"]]
      /\ inbox' = Append(inbox, c)
      /\ UNCHANGED <<call, queue, replies, dial, ran, steps, torn, suspect, overtaken>>
  BY DEF Request
<1>2. client \in [Clients -> [kind : {"set", "get"}, value : Lambdas, status : Status]]
      /\ inbox \in Seq(Clients)
  BY DEF RpcInv, TypeOK
<1>3. call # NoCall => call # c
  BY <1>1 DEF RpcInv, CallsOK
<1>4. \A i \in DOMAIN inbox : inbox[i] # c
  BY <1>1 DEF RpcInv, CallsOK
<1>5. /\ inbox' \in Seq(Clients) /\ Len(inbox') = Len(inbox) + 1
      /\ \A i \in 1 .. Len(inbox) : inbox'[i] = inbox[i]
      /\ inbox'[Len(inbox) + 1] = c
  BY <1>1, <1>2, Appended
<1>6. client'[c].status = "pending" /\ \A d \in Clients \ {c} : client'[d] = client[d]
  BY <1>1, <1>2
<1>7. TypeOK'
  BY <1>1, <1>2, <1>5 DEF RpcInv, TypeOK, Status
<1>8. CallsOK'
  <2>1. call # NoCall => client'[call].status = "pending"
    BY <1>2, <1>3, <1>6 DEF RpcInv, CallsOK, TypeOK
  <2>2. \A i \in 1 .. Len(inbox) + 1 : inbox'[i] # call /\ client'[inbox'[i]].status = "pending"
    <3>1. c # call
      BY <1>3, RpcAssumption
    <3>2. \A i \in 1 .. Len(inbox) : inbox[i] \in Clients \ {c} /\ inbox[i] # call
                                    /\ client[inbox[i]].status = "pending"
      BY <1>2, <1>4 DEF RpcInv, CallsOK
    <3>3. \A i \in 1 .. Len(inbox) + 1 : i \in 1 .. Len(inbox) \/ i = Len(inbox) + 1
      BY <1>2
    <3>4. ASSUME NEW i \in 1 .. Len(inbox)
          PROVE  inbox'[i] # call /\ client'[inbox'[i]].status = "pending"
      BY ONLY <1>5, <1>6, <3>2, <3>4
    <3>5. inbox'[Len(inbox) + 1] # call /\ client'[inbox'[Len(inbox) + 1]].status = "pending"
      BY ONLY <1>5, <1>6, <3>1
    <3>6. QED
      BY ONLY <3>3, <3>4, <3>5
  <2>3. \A i, j \in 1 .. Len(inbox) + 1 : i # j => inbox'[i] # inbox'[j]
    BY <1>2, <1>4, <1>5 DEF RpcInv, CallsOK
  <2>4. DOMAIN inbox' = 1 .. Len(inbox) + 1
    BY <1>2, <1>5
  <2>5. QED
    BY <1>1, <2>1, <2>2, <2>3, <2>4 DEF CallsOK
<1>9. call # NoCall => client'[call] = client[call]
  BY <1>3, <1>6 DEF RpcInv, TypeOK
<1>10. \A r \in Ranks : Waiting(r)' = Waiting(r) /\ Backlog(r)' = Backlog(r)
  BY <1>1 DEF Waiting, Backlog
<1>11. QueueOK'
  BY <1>1, <1>9, <1>10 DEF RpcInv, QueueOK, CallMsg, Waiting, StepMsg
<1>12. RanOK' /\ InFlightOK' /\ StepsAgree'
  BY <1>1, <1>10 DEF RpcInv, RanOK, InFlightOK, StepsAgree
<1>13. DialsOK'
  BY <1>1, <1>9 DEF RpcInv, DialsOK, Setting
<1>14. AnswersHoldEverywhere'
  BY <1>1, <1>6 DEF RpcInv, AnswersHoldEverywhere
<1>15. QED
  BY <1>7, <1>8, <1>11, <1>12, <1>13, <1>14 DEF RpcInv

\* The engine core takes a call: it goes behind the steps every rank has yet to run.
LEMMA DispatchInv == RpcInv /\ Dispatch => RpcInv'
<1> SUFFICES ASSUME RpcInv, Dispatch PROVE RpcInv'
  OBVIOUS
<1> DEFINE c == Head(inbox)
           msg == [kind |-> client[c].kind, value |-> client[c].value, step |-> 0]
<1>1. /\ call = NoCall /\ inbox # <<>> /\ call' = c /\ inbox' = Tail(inbox)
      /\ queue' = [r \in Ranks |-> Append(queue[r], msg)]
      /\ overtaken' = (IF client[c].kind = "set" THEN Clients ELSE overtaken) \ {c}
      /\ replies' = [r \in {} |-> LamInit]
      /\ UNCHANGED <<client, dial, ran, steps, torn, suspect>>
  BY DEF Dispatch
<1>2. inbox \in Seq(Clients) /\ Len(inbox) >= 1 /\ c = inbox[1] /\ c \in Clients
  BY <1>1 DEF RpcInv, TypeOK
<1>3. c # NoCall /\ client[c].status = "pending"
  BY <1>2, RpcAssumption DEF RpcInv, CallsOK
<1>4. /\ inbox' \in Seq(Clients) /\ DOMAIN inbox' = 1 .. Len(inbox) - 1
      /\ \A i \in 1 .. Len(inbox) - 1 : inbox'[i] = inbox[i + 1]
  BY <1>1, <1>2
<1>5. DOMAIN replies' = {}
  BY <1>1
<1>6. msg \in Msgs
  BY <1>2, MsgTypes DEF RpcInv
<1>7. \A r \in Ranks : queue[r] \in Seq(Msgs)
  BY DEF RpcInv, TypeOK, Msgs
<1>8. \A r \in Ranks :
        /\ queue'[r] \in Seq(Msgs) /\ Len(queue'[r]) = Len(queue[r]) + 1
        /\ \A i \in 1 .. Len(queue[r]) : queue'[r][i] = queue[r][i]
        /\ queue'[r][Len(queue'[r])] = msg
  BY <1>1, <1>6, <1>7, Appended
<1>9. \A r \in Ranks : /\ Waiting(r)' /\ ~ Waiting(r)
                        /\ Backlog(r) = Len(queue[r]) /\ Backlog(r)' = Backlog(r)
  BY <1>1, <1>3, <1>5, <1>7, <1>8 DEF Waiting, Backlog
<1>10. TypeOK'
  BY <1>1, <1>2, <1>4, <1>5, <1>8 DEF RpcInv, TypeOK, Msgs
<1>11. CallsOK'
  BY <1>1, <1>2, <1>3, <1>4 DEF RpcInv, CallsOK
<1>12. QueueOK'
  <2>1. CallMsg' = msg
    BY <1>1 DEF CallMsg
  <2>2. QED
    BY <1>1, <1>5, <1>8, <1>9, <2>1 DEF RpcInv, QueueOK, StepMsg
<1>13. RanOK' /\ InFlightOK' /\ StepsAgree'
  BY <1>1, <1>9 DEF RpcInv, RanOK, InFlightOK, StepsAgree
<1>14. DialsOK'
  BY <1>1, <1>5 DEF RpcInv, DialsOK, Setting
<1>15. AnswersHoldEverywhere'
  BY <1>1, <1>3 DEF RpcInv, AnswersHoldEverywhere
<1>16. QED
  BY <1>10, <1>11, <1>12, <1>13, <1>14, <1>15 DEF RpcInv

\* A step goes last in every queue, and no call is under way: the dials stay where
\* they are until it has been run.
LEMMA BroadcastInv == RpcInv /\ BroadcastStep => RpcInv'
<1> SUFFICES ASSUME RpcInv, BroadcastStep PROVE RpcInv'
  OBVIOUS
<1> DEFINE n == steps + 1
<1>1. /\ call = NoCall /\ steps < MaxSteps /\ steps' = n
      /\ suspect' = IF torn THEN suspect \cup {n} ELSE suspect
      /\ queue' = [r \in Ranks |-> Append(queue[r], StepMsg(n))]
      /\ UNCHANGED <<client, inbox, call, replies, dial, ran, torn, overtaken>>
  BY DEF BroadcastStep, StepMsg
<1>2. steps \in Nat /\ MaxSteps \in Nat /\ n \in Steps /\ n \in 0 .. MaxSteps
  BY <1>1, RpcAssumption DEF RpcInv, TypeOK, Steps
<1>3. StepMsg(n) \in Msgs
  BY <1>2, MsgTypes DEF RpcInv
<1>4. \A r \in Ranks : queue[r] \in Seq(Msgs)
  BY DEF RpcInv, TypeOK, Msgs
<1>5. \A r \in Ranks :
        /\ queue'[r] \in Seq(Msgs) /\ Len(queue'[r]) = Len(queue[r]) + 1
        /\ \A i \in 1 .. Len(queue[r]) : queue'[r][i] = queue[r][i]
        /\ queue'[r][Len(queue[r]) + 1] = StepMsg(n)
  BY <1>1, <1>3, <1>4, Appended
<1>6. \A r \in Ranks : /\ ~ Waiting(r)' /\ ~ Waiting(r)
                        /\ Backlog(r) = Len(queue[r]) /\ Backlog(r)' = Backlog(r) + 1
                        /\ Backlog(r) \in 0 .. steps
  BY <1>1, <1>4, <1>5 DEF Waiting, Backlog, RpcInv, QueueOK
<1>7. TypeOK'
  <2>1. suspect' \subseteq 1 .. n
    BY <1>1, <1>2 DEF RpcInv, TypeOK
  <2>2. QED
    BY <1>1, <1>2, <1>5, <2>1 DEF RpcInv, TypeOK, Msgs
<1>8. CallsOK'
  BY <1>1 DEF RpcInv, CallsOK
<1>9. QueueOK'
  <2> SUFFICES ASSUME NEW r \in Ranks
               PROVE  /\ Backlog(r)' \in 0 .. n
                      /\ \A i \in 1 .. Backlog(r)' : queue'[r][i] = StepMsg(n - Backlog(r)' + i)
    BY <1>1, <1>6 DEF QueueOK, StepMsg
  <2>1. Backlog(r)' \in 0 .. n
    BY <1>2, <1>6
  <2>2. ASSUME NEW i \in 1 .. Backlog(r)'
        PROVE  queue'[r][i] = StepMsg(n - Backlog(r)' + i)
    <3>1. n - Backlog(r)' + i = steps - Backlog(r) + i
      BY <1>2, <1>6
    <3>2. CASE i \in 1 .. Backlog(r)
      BY <3>1, <3>2, <1>5, <1>6 DEF RpcInv, QueueOK
    <3>3. CASE i = Backlog(r) + 1
      <4>1. n - Backlog(r)' + i = n
        BY <3>3, <1>2, <1>6
      <4>2. QED
        BY <3>3, <4>1, <1>5, <1>6
    <3>4. i \in 1 .. Backlog(r) \/ i = Backlog(r) + 1
      <4>1. Backlog(r) \in Nat /\ i \in 1 .. Backlog(r) + 1
        BY <1>2, <1>6
      <4>2. QED
        BY <4>1
    <3>5. QED
      BY <3>2, <3>3, <3>4
  <2>3. QED
    BY <2>1, <2>2
<1>10. \A r \in Ranks : steps' - Backlog(r)' = steps - Backlog(r)
  <2> SUFFICES ASSUME NEW r \in Ranks PROVE n - Backlog(r)' = steps - Backlog(r)
    BY <1>1
  <2>1. Backlog(r) \in Nat /\ Backlog(r)' = Backlog(r) + 1
    BY <1>2, <1>6
  <2>2. QED
    BY <1>2, <2>1
<1>11. RanOK'
  BY <1>1, <1>10 DEF RpcInv, RanOK
<1>12. DialsOK'
  BY <1>1 DEF RpcInv, DialsOK, Setting
<1>13. InFlightOK'
  <2> SUFFICES ASSUME NEW k \in (1 .. n) \ suspect', NEW r \in Ranks, NEW q \in Ranks,
                      r \notin DOMAIN ran[k]
               PROVE  dial[r] = IF q \in DOMAIN ran[k] THEN ran[k][q] ELSE dial[q]
    BY <1>1 DEF InFlightOK
  <2>1. CASE k \in 1 .. steps
    BY <2>1, <1>1 DEF RpcInv, InFlightOK
  <2>2. CASE k = n
    <3>1. ~ torn
      BY <2>2, <1>1
    <3>2. dial[r] = dial[q]
      BY <3>1, <1>1 DEF RpcInv, DialsOK, Setting
    <3>3. ~ (n <= steps - Backlog(q))
      BY <1>2, <1>6
    <3>4. q \notin DOMAIN ran[k]
      BY <2>2, <3>3, <1>2 DEF RpcInv, RanOK
    <3>5. QED
      BY <3>2, <3>4
  <2>3. QED
    BY <2>1, <2>2, <1>2
<1>14. StepsAgree'
  BY <1>1 DEF RpcInv, StepsAgree
<1>15. AnswersHoldEverywhere'
  BY <1>1 DEF RpcInv, AnswersHoldEverywhere
<1>16. QED
  BY <1>7, <1>8, <1>9, <1>11, <1>12, <1>13, <1>14, <1>15 DEF RpcInv

\* What is first in a rank's queue: the first step it has yet to run, or the call.
LEMMA HeadIs ==
  ASSUME RpcInv, NEW r \in Ranks, queue[r] # <<>>
  PROVE  /\ queue[r] \in Seq(Msgs) /\ Len(queue[r]) \in Nat \ {0}
         /\ Tail(queue[r]) \in Seq(Msgs) /\ Len(Tail(queue[r])) = Len(queue[r]) - 1
         /\ \A i \in 1 .. Len(queue[r]) - 1 : Tail(queue[r])[i] = queue[r][i + 1]
         /\ \/ /\ Backlog(r) \in 1 .. steps
               /\ Head(queue[r]) = StepMsg(steps - Backlog(r) + 1)
            \/ /\ Backlog(r) = 0 /\ Waiting(r) /\ Len(queue[r]) = 1
               /\ Head(queue[r]) = CallMsg
<1>1. queue[r] \in Seq(Msgs)
  BY DEF RpcInv, TypeOK, Msgs
<1>2. steps \in Nat
  BY RpcAssumption DEF RpcInv, TypeOK
<1>3. Len(queue[r]) \in Nat \ {0} /\ Head(queue[r]) = queue[r][1]
  BY <1>1
<1>4. Backlog(r) \in 0 .. steps
  BY DEF RpcInv, QueueOK
<1>5. CASE Backlog(r) = 0
  <2>1. Waiting(r) /\ Len(queue[r]) = 1
    <3>1. ~ Waiting(r) => Backlog(r) = Len(queue[r])
      BY <1>3 DEF Backlog
    <3>2. Waiting(r) => Backlog(r) = Len(queue[r]) - 1
      BY <1>3 DEF Backlog
    <3>3. QED
      BY <1>3, <1>5, <3>1, <3>2
  <2>2. queue[r][Len(queue[r])] = CallMsg
    BY <2>1 DEF RpcInv, QueueOK
  <2>3. QED
    BY <1>1, <1>3, <1>5, <2>1, <2>2
<1>6. CASE Backlog(r) # 0
  <2>1. Backlog(r) \in 1 .. steps /\ 1 \in 1 .. Backlog(r)
    BY <1>2, <1>4, <1>6
  <2>2. queue[r][1] = StepMsg(steps - Backlog(r) + 1)
    BY <2>1 DEF RpcInv, QueueOK
  <2>3. QED
    BY <1>1, <1>3, <2>1, <2>2
<1>7. QED
  BY <1>5, <1>6

\* A rank runs the first step it has yet to run.
LEMMA RunStepInv ==
  ASSUME RpcInv, NEW r \in Ranks, Handle(r), RunStep(r, Head(queue[r]))
  PROVE  RpcInv'
<1> DEFINE k == steps - Backlog(r) + 1
<1>1. /\ queue[r] # <<>> /\ queue' = [queue EXCEPT ![r] = Tail(queue[r])]
      /\ UNCHANGED <<client, inbox, call, steps, torn, suspect, overtaken>>
  BY DEF Handle
<1>2. Head(queue[r]).kind = "step"
  BY DEF RunStep
<1>3. ~ Head(queue[r]) = CallMsg \/ ~ Waiting(r)
  <2> SUFFICES ASSUME Waiting(r) PROVE ~ Head(queue[r]) = CallMsg
    OBVIOUS
  <2>1. client[call].kind \in {"set", "get"}
    BY DEF Waiting, RpcInv, TypeOK
  <2>2. CallMsg.kind \in {"set", "get"}
    BY <2>1 DEF CallMsg
  <2>3. QED
    BY <1>2, <2>2
<1>4. Backlog(r) \in 1 .. steps /\ Head(queue[r]) = StepMsg(k)
  BY <1>1, <1>3, HeadIs
<1>5. steps \in 0 .. MaxSteps /\ steps \in Nat /\ MaxSteps \in Nat /\ k \in 1 .. steps
      /\ k \in Steps
  BY <1>4, RpcAssumption DEF RpcInv, TypeOK, Steps
<1>6. /\ ran' = [ran EXCEPT ![k] =
                   [q \in DOMAIN @ \cup {r} |-> IF q = r THEN dial[r] ELSE @[q]]]
      /\ dial' = dial /\ replies' = replies
  <2>1. Head(queue[r]).step = k
    BY <1>4 DEF StepMsg
  <2>2. QED
    BY <2>1 DEF RunStep
<1>7. /\ DOMAIN ran' = Steps /\ \A n \in Steps \ {k} : ran'[n] = ran[n]
      /\ DOMAIN ran'[k] = DOMAIN ran[k] \cup {r}
      /\ ran'[k][r] = dial[r]
      /\ \A q \in DOMAIN ran[k] \ {r} : ran'[k][q] = ran[k][q]
  BY <1>5, <1>6 DEF RpcInv, RanOK
<1>8. /\ queue[r] \in Seq(Msgs) /\ Len(queue[r]) \in Nat \ {0}
      /\ queue'[r] \in Seq(Msgs) /\ Len(queue'[r]) = Len(queue[r]) - 1
      /\ \A i \in 1 .. Len(queue[r]) - 1 : queue'[r][i] = queue[r][i + 1]
      /\ \A q \in Ranks \ {r} : queue'[q] = queue[q]
  <2>1. DOMAIN queue = Ranks
    BY DEF RpcInv, TypeOK
  <2>2. QED
    BY <1>1, <2>1, HeadIs
<1>9. /\ Backlog(r)' = Backlog(r) - 1 /\ Waiting(r)' = Waiting(r)
      /\ \A q \in Ranks \ {r} : Backlog(q)' = Backlog(q) /\ Waiting(q)' = Waiting(q)
  BY <1>1, <1>6, <1>8 DEF Backlog, Waiting
<1>10. CallMsg' = CallMsg
  BY <1>1 DEF CallMsg
<1>11. TypeOK'
  <2>1. queue' \in [Ranks -> Seq(Msgs)]
    BY <1>1, <1>8 DEF RpcInv, TypeOK, Msgs
  <2>2. QED
    BY <1>1, <1>6, <2>1 DEF RpcInv, TypeOK, Msgs
<1>12. CallsOK'
  BY <1>1 DEF RpcInv, CallsOK
<1>13. QueueOK'
  <2>1. ASSUME NEW q \in Ranks, q # r
        PROVE  /\ Backlog(q)' \in 0 .. steps
               /\ \A i \in 1 .. Backlog(q)' : queue'[q][i] = StepMsg(steps - Backlog(q)' + i)
               /\ Waiting(q)' => queue'[q][Len(queue'[q])] = CallMsg
               /\ call # NoCall /\ q \in DOMAIN replies => queue'[q] = <<>>
    BY <2>1, <1>8, <1>9 DEF RpcInv, QueueOK
  <2>2. Backlog(r)' \in 0 .. steps
    BY <1>4, <1>5, <1>9
  <2>3. ASSUME NEW i \in 1 .. Backlog(r)'
        PROVE  queue'[r][i] = StepMsg(steps - Backlog(r)' + i)
    <3>1. /\ i + 1 \in 1 .. Backlog(r)
          /\ steps - Backlog(r)' + i = steps - Backlog(r) + (i + 1)
      BY <1>4, <1>5, <1>9
    <3>2. i \in 1 .. Len(queue[r]) - 1
      BY <1>4, <1>5, <1>8, <1>9 DEF Backlog
    <3>3. QED
      BY <1>8, <3>1, <3>2 DEF RpcInv, QueueOK
  <2>4. Waiting(r)' => queue'[r][Len(queue'[r])] = CallMsg
    <3> SUFFICES ASSUME Waiting(r) PROVE queue'[r][Len(queue'[r])] = CallMsg
      BY <1>9
    <3>1. Len(queue[r]) - 1 \in 1 .. Len(queue[r]) - 1
      BY <1>4, <1>5, <1>8 DEF Backlog
    <3>2. queue[r][Len(queue[r])] = CallMsg
      BY DEF RpcInv, QueueOK
    <3>3. QED
      BY <1>8, <3>1, <3>2
  <2>5. ~ (call # NoCall /\ r \in DOMAIN replies)
    BY <1>1 DEF RpcInv, QueueOK
  <2>6. QED
    BY <1>1, <1>6, <1>10, <2>1, <2>2, <2>3, <2>4, <2>5 DEF QueueOK, StepMsg
<1>14. r \notin DOMAIN ran[k] /\ steps - Backlog(r)' = k /\ steps - Backlog(r) = k - 1
  <2>1. steps - Backlog(r)' = k /\ steps - Backlog(r) = k - 1 /\ ~ (k <= k - 1)
    BY <1>4, <1>5, <1>9
  <2>2. QED
    BY <2>1, <1>5 DEF RpcInv, RanOK
<1>15. RanOK'
  <2> SUFFICES ASSUME NEW n \in Steps
               PROVE  /\ DOMAIN ran'[n] \subseteq Ranks
                      /\ \A q \in Ranks : q \in DOMAIN ran'[n] <=> n <= steps - Backlog(q)'
    BY <1>1, <1>7 DEF RanOK
  <2>1. DOMAIN ran'[n] \subseteq Ranks
    BY <1>7 DEF RpcInv, RanOK
  <2>2. ASSUME NEW q \in Ranks, q # r
        PROVE  q \in DOMAIN ran'[n] <=> n <= steps - Backlog(q)'
    BY <2>2, <1>7, <1>9 DEF RpcInv, RanOK
  <2>3. r \in DOMAIN ran'[n] <=> n <= steps - Backlog(r)'
    <3>1. n \in Nat
      BY <1>5 DEF Steps
    <3>2. n \in Steps \ {k} => (r \in DOMAIN ran'[n] <=> n <= k - 1)
      BY <1>7, <1>14 DEF RpcInv, RanOK
    <3>3. n # k => (n <= k <=> n <= k - 1)
      BY <3>1, <1>5
    <3>4. QED
      BY <1>5, <1>7, <1>14, <3>2, <3>3
  <2>4. QED
    BY <2>1, <2>2, <2>3
<1>16. k \notin suspect => \A q \in DOMAIN ran[k] : ran[k][q] = dial[r]
  BY <1>5, <1>14 DEF RpcInv, InFlightOK, RanOK
<1>17. InFlightOK'
  <2> SUFFICES ASSUME NEW n \in (1 .. steps) \ suspect, NEW q \in Ranks, NEW p \in Ranks,
                      q \notin DOMAIN ran'[n]
               PROVE  dial[q] = IF p \in DOMAIN ran'[n] THEN ran'[n][p] ELSE dial[p]
    <3>1. dial' = dial /\ suspect' = suspect /\ steps' = steps
      BY <1>1, <1>6
    <3>2. QED
      BY <3>1 DEF InFlightOK
  <2>1. n \in Steps
    BY <1>5 DEF Steps
  <2>2. CASE n # k
    BY <2>1, <2>2, <1>7 DEF RpcInv, InFlightOK
  <2>3. CASE n = k
    <3>1. q \notin DOMAIN ran[k] /\ q # r
      BY <2>3, <1>7
    <3>2. dial[q] = dial[r]
      BY <3>1, <2>3, <1>14 DEF RpcInv, InFlightOK
    <3>3. dial[q] = IF p \in DOMAIN ran[k] THEN ran[k][p] ELSE dial[p]
      BY <3>1, <2>3 DEF RpcInv, InFlightOK
    <3>4. QED
      BY <2>3, <3>2, <3>3, <1>7
  <2>4. QED
    BY <2>2, <2>3
<1>18. StepsAgree'
  <2> SUFFICES ASSUME NEW n \in Steps \ suspect, NEW q \in DOMAIN ran'[n],
                      NEW p \in DOMAIN ran'[n]
               PROVE  ran'[n][q] = ran'[n][p]
    BY <1>1 DEF StepsAgree
  <2>1. CASE n # k
    BY <2>1, <1>7 DEF RpcInv, StepsAgree
  <2>2. CASE n = k
    <3>1. \A s \in DOMAIN ran'[k] : ran'[k][s] = dial[r]
      BY <2>2, <1>7, <1>16
    <3>2. QED
      BY <2>2, <3>1
  <2>3. QED
    BY <2>1, <2>2
<1>19. DialsOK' /\ AnswersHoldEverywhere'
  BY <1>1, <1>6 DEF RpcInv, DialsOK, Setting, AnswersHoldEverywhere
<1>20. QED
  BY <1>11, <1>12, <1>13, <1>15, <1>17, <1>18, <1>19 DEF RpcInv

\* A rank answers the call: it has run every step, so its dial is no longer that of
\* a step in flight, and what it answers is where its dial is, unless it failed.
LEMMA AnswerInv ==
  ASSUME RpcInv, NEW r \in Ranks, NEW v,
         queue[r] # <<>>, Head(queue[r]).kind # "step",
         queue' = [queue EXCEPT ![r] = Tail(queue[r])],
         UNCHANGED <<client, inbox, call, steps, torn, suspect, overtaken, ran>>,
         Answer(r, v),
         dial' \in [Ranks -> Lambdas],
         \A q \in Ranks \ {r} : dial'[q] = dial[q],
         Head(queue[r]).kind # "set" => dial' = dial,
         v # Failed => v = dial'[r]
  PROVE  RpcInv'
<1>1. \A n : StepMsg(n).kind = "step"
  BY DEF StepMsg
<1>2. /\ Backlog(r) = 0 /\ Waiting(r) /\ Len(queue[r]) = 1
      /\ Head(queue[r]) = CallMsg
  BY <1>1, HeadIs
<1>3. queue'[r] = <<>> /\ \A q \in Ranks \ {r} : queue'[q] = queue[q]
  <2>1. DOMAIN queue = Ranks
    BY DEF RpcInv, TypeOK
  <2>2. Tail(queue[r]) = <<>>
    <3>1. Tail(queue[r]) \in Seq(Msgs) /\ Len(Tail(queue[r])) = 0
      BY <1>2, HeadIs
    <3>2. QED
      BY <3>1, EmptySeq
  <2>3. QED
    BY <2>1, <2>2
<1>4. /\ DOMAIN replies' = DOMAIN replies \cup {r}
      /\ replies'[r] = v
      /\ \A q \in DOMAIN replies \ {r} : replies'[q] = replies[q]
  BY DEF Answer
<1>5. call # NoCall /\ ~ Waiting(r)' /\ Backlog(r)' = 0
      /\ \A q \in Ranks \ {r} : Waiting(q)' = Waiting(q) /\ Backlog(q)' = Backlog(q)
  <2>1. call # NoCall /\ ~ Waiting(r)'
    BY <1>2, <1>4 DEF Waiting
  <2>2. \A q \in Ranks \ {r} : Waiting(q)' = Waiting(q)
    BY <1>4 DEF Waiting
  <2>3. Len(queue'[r]) = 0
    BY <1>3
  <2>4. Backlog(r)' = 0
    BY <2>1, <2>3 DEF Backlog
  <2>5. \A q \in Ranks \ {r} : Backlog(q)' = Backlog(q)
    BY <1>3, <2>2 DEF Backlog
  <2>6. QED
    BY <2>1, <2>2, <2>4, <2>5
<1>6. CallMsg' = CallMsg
  BY DEF CallMsg
<1>7. TypeOK'
  <2>1. queue' \in [Ranks -> Seq(Msgs)]
    BY HeadIs DEF RpcInv, TypeOK, Msgs
  <2>2. DOMAIN replies' \subseteq Ranks
    BY <1>4 DEF RpcInv, TypeOK
  <2>3. QED
    BY <2>1, <2>2 DEF RpcInv, TypeOK, Msgs
<1>8. CallsOK'
  BY DEF RpcInv, CallsOK
<1>9. QueueOK'
  <2> SUFFICES ASSUME NEW q \in Ranks
               PROVE  /\ Backlog(q)' \in 0 .. steps
                      /\ \A i \in 1 .. Backlog(q)' : queue'[q][i] = StepMsg(steps - Backlog(q)' + i)
                      /\ Waiting(q)' => queue'[q][Len(queue'[q])] = CallMsg
                      /\ call # NoCall /\ q \in DOMAIN replies' => queue'[q] = <<>>
    BY <1>6, ZenonT(60) DEF QueueOK, StepMsg
  <2>1. CASE q # r
    BY <2>1, <1>3, <1>4, <1>5 DEF RpcInv, QueueOK
  <2>2. CASE q = r
    <3>1. steps \in Nat
      BY RpcAssumption DEF RpcInv, TypeOK
    <3>2. QED
      BY <2>2, <3>1, <1>3, <1>5
  <2>3. QED
    BY <2>1, <2>2
<1>10. \A q \in Ranks : Backlog(q)' = Backlog(q)
  BY <1>2, <1>5
<1>11. RanOK'
  BY <1>10 DEF RpcInv, RanOK
<1>12. StepsAgree'
  BY DEF RpcInv, StepsAgree
<1>13. \A n \in 1 .. steps : r \in DOMAIN ran[n]
  <2>1. steps \in 0 .. MaxSteps /\ MaxSteps \in Nat
    BY RpcAssumption DEF RpcInv, TypeOK
  <2>2. QED
    BY <1>2, <2>1 DEF RpcInv, RanOK, Steps
<1>14. InFlightOK'
  <2> SUFFICES ASSUME NEW n \in (1 .. steps) \ suspect, NEW q \in Ranks, NEW p \in Ranks,
                      q \notin DOMAIN ran[n]
               PROVE  dial'[q] = IF p \in DOMAIN ran[n] THEN ran[n][p] ELSE dial'[p]
    BY DEF InFlightOK
  <2>1. q # r /\ (p = r => p \in DOMAIN ran[n])
    BY <1>13
  <2>2. dial'[q] = dial[q] /\ (p # r => dial'[p] = dial[p])
    BY <2>1
  <2>3. dial[q] = IF p \in DOMAIN ran[n] THEN ran[n][p] ELSE dial[p]
    BY DEF RpcInv, InFlightOK
  <2>4. QED
    BY <2>1, <2>2, <2>3
<1>15. ~ Setting => dial' = dial
  BY <1>2, <1>5 DEF Setting, CallMsg
<1>16. DialsOK'
  <2>1. \A q \in DOMAIN replies' : replies'[q] # Failed => dial'[q] = replies'[q]
    <3>1. DOMAIN replies \subseteq Ranks
      BY DEF RpcInv, TypeOK
    <3>2. QED
      BY <3>1, <1>4, <1>5 DEF RpcInv, DialsOK
  <2>2. Setting' = Setting
    BY DEF Setting
  <2>3. QED
    BY <1>15, <2>1, <2>2 DEF RpcInv, DialsOK
<1>17. AnswersHoldEverywhere'
  <2>1. CASE Setting
    <3>1. overtaken = Clients \ {call} /\ client[call].status = "pending"
      BY <2>1, <1>5 DEF RpcInv, DialsOK, CallsOK
    <3>2. QED
      BY <3>1 DEF AnswersHoldEverywhere
  <2>2. CASE ~ Setting
    BY <2>2, <1>15 DEF RpcInv, AnswersHoldEverywhere
  <2>3. QED
    BY <2>1, <2>2
<1>18. QED
  BY <1>7, <1>8, <1>9, <1>11, <1>12, <1>14, <1>16, <1>17 DEF RpcInv

LEMMA HandleInv ==
  ASSUME RpcInv, NEW r \in Ranks, Handle(r)
  PROVE  RpcInv'
<1> DEFINE msg == Head(queue[r])
<1>1. /\ queue[r] # <<>> /\ queue' = [queue EXCEPT ![r] = Tail(queue[r])]
      /\ UNCHANGED <<client, inbox, call, steps, torn, suspect, overtaken>>
      /\ RunStep(r, msg) \/ SetRefusalLambda(r, msg) \/ GetRefusalLambda(r, msg)
  BY DEF Handle
<1>2. dial \in [Ranks -> Lambdas]
  BY DEF RpcInv, TypeOK
<1>3. CASE RunStep(r, msg)
  BY <1>3, RunStepInv
<1>4. CASE SetRefusalLambda(r, msg)
  <2>1. msg \in Msgs
    BY <1>1, HeadIs
  <2>2. msg.kind = "set" /\ ran' = ran /\ msg.value \in Lambdas
    BY <1>4, <2>1 DEF SetRefusalLambda, Msgs
  <2>3. CASE dial' = [dial EXCEPT ![r] = msg.value] /\ Answer(r, msg.value)
    <3>1. /\ dial' \in [Ranks -> Lambdas] /\ dial'[r] = msg.value
          /\ \A q \in Ranks \ {r} : dial'[q] = dial[q]
      BY <1>2, <2>2, <2>3
    <3>2. QED
      BY <1>1, <2>2, <2>3, <3>1, AnswerInv
  <2>4. CASE dial' = dial /\ Answer(r, Failed)
    BY <1>1, <1>2, <2>2, <2>4, AnswerInv
  <2>5. QED
    BY <1>4, <2>3, <2>4 DEF SetRefusalLambda
<1>5. CASE GetRefusalLambda(r, msg)
  <2>1. msg.kind = "get" /\ Answer(r, dial[r]) /\ dial' = dial /\ ran' = ran
    BY <1>5 DEF GetRefusalLambda
  <2>2. QED
    BY <1>1, <1>2, <2>1, AnswerInv
<1>6. QED
  BY <1>1, <1>3, <1>4, <1>5

\* The handler answers: 200 only where every rank has the value it gives.
LEMMA ReplyInv == RpcInv /\ Reply => RpcInv'
<1> SUFFICES ASSUME RpcInv, Reply PROVE RpcInv'
  OBVIOUS
<1> DEFINE told == IF client[call].kind = "get" /\ Agreed(call)
                   THEN replies[CHOOSE r \in Ranks : TRUE] ELSE client[call].value
           status == IF Agreed(call) THEN "ok" ELSE "error"
<1>1. /\ call # NoCall /\ DOMAIN replies = Ranks /\ call' = NoCall
      /\ torn' = IF client[call].kind = "set" THEN ~ Agreed(call) ELSE torn
      /\ UNCHANGED <<inbox, queue, replies, dial, ran, steps, suspect, overtaken>>
  BY DEF Reply
<1>2. call \in Clients /\ client[call].status = "pending"
  BY <1>1 DEF RpcInv, TypeOK, CallsOK
<1>3. client \in [Clients -> [kind : {"set", "get"}, value : Lambdas, status : Status]]
  BY DEF RpcInv, TypeOK
<1>4. client' = [client EXCEPT ![call].status = status,
                               ![call].value = told]
  BY DEF Reply
<1>5. Agreed(call) => \A r \in Ranks : dial[r] = told
  <2> SUFFICES ASSUME Agreed(call), NEW r \in Ranks PROVE dial[r] = told
    OBVIOUS
  <2>1. dial[r] = replies[r]
    BY <1>1 DEF Agreed, RpcInv, DialsOK
  <2>2. CASE client[call].kind = "set"
    BY <2>1, <2>2 DEF Agreed
  <2>3. CASE client[call].kind # "set"
    <3>1. client[call].kind = "get"
      BY <2>3, <1>2, <1>3
    <3>2. (CHOOSE q \in Ranks : TRUE) \in Ranks
      OBVIOUS
    <3>3. QED
      BY <2>1, <2>3, <3>1, <3>2 DEF Agreed
  <2>4. QED
    BY <2>2, <2>3
<1>6. told \in Lambdas /\ status \in Status
  <2>1. PICK r \in Ranks : TRUE
    BY RpcAssumption
  <2>2. dial[r] \in Lambdas /\ client[call].value \in Lambdas
    BY <1>2, <1>3 DEF RpcInv, TypeOK
  <2>3. told \in Lambdas
    BY <2>2, <1>5
  <2>4. QED
    BY <2>3 DEF Status
<1>7. /\ client' \in [Clients -> [kind : {"set", "get"}, value : Lambdas, status : Status]]
      /\ client'[call].status = status /\ client'[call].value = told
      /\ \A c \in Clients \ {call} : client'[c] = client[c]
  BY <1>2, <1>3, <1>4, <1>6
<1>8. TypeOK'
  <2>1. torn' \in BOOLEAN
    BY <1>1 DEF RpcInv, TypeOK, Agreed
  <2>2. QED
    BY <1>1, <1>7, <2>1 DEF RpcInv, TypeOK
<1>9. CallsOK'
  <2>1. \A i \in DOMAIN inbox : inbox[i] \in Clients /\ inbox[i] # call
    BY DEF RpcInv, CallsOK, TypeOK
  <2>2. \A i \in DOMAIN inbox : inbox[i] # NoCall /\ client'[inbox[i]].status = "pending"
    BY <2>1, <1>7, RpcAssumption DEF RpcInv, CallsOK
  <2>3. QED
    BY <1>1, <2>2 DEF RpcInv, CallsOK
<1>10. \A r \in Ranks : ~ Waiting(r) /\ ~ Waiting(r)' /\ Backlog(r)' = Backlog(r)
  BY <1>1 DEF Waiting, Backlog
<1>11. QueueOK'
  BY <1>1, <1>10 DEF RpcInv, QueueOK, StepMsg
<1>12. RanOK' /\ InFlightOK' /\ StepsAgree'
  BY <1>1, <1>10 DEF RpcInv, RanOK, InFlightOK, StepsAgree
<1>13. DialsOK'
  <2>1. ~ torn' => \A r, q \in Ranks : dial[r] = dial[q]
    <3>1. CASE client[call].kind = "set"
      BY <3>1, <1>1, <1>5
    <3>2. CASE client[call].kind # "set"
      BY <3>2, <1>1 DEF RpcInv, DialsOK, Setting
    <3>3. QED
      BY <3>1, <3>2
  <2>2. QED
    BY <1>1, <2>1 DEF DialsOK, Setting
<1>14. AnswersHoldEverywhere'
  <2> SUFFICES ASSUME NEW c \in Clients, client'[c].status = "ok", c \notin overtaken,
                      NEW r \in Ranks
               PROVE  dial[r] = client'[c].value
    BY <1>1 DEF AnswersHoldEverywhere
  <2>1. CASE c = call
    BY <2>1, <1>5, <1>7
  <2>2. CASE c # call
    BY <2>2, <1>7 DEF RpcInv, AnswersHoldEverywhere
  <2>3. QED
    BY <2>1, <2>2
<1>15. QED
  BY <1>8, <1>9, <1>11, <1>12, <1>13, <1>14 DEF RpcInv

LEMMA NextInv == RpcInv /\ [Next]_vars => RpcInv'
<1> SUFFICES ASSUME RpcInv, [Next]_vars PROVE RpcInv'
  OBVIOUS
<1>1. ASSUME NEW c \in Clients, NEW l \in Lambdas, Post(c, l) PROVE RpcInv'
  BY <1>1, RequestInv DEF Post
<1>2. ASSUME NEW c \in Clients, Get(c) PROVE RpcInv'
  BY <1>2, RequestInv, RpcAssumption DEF Get
<1>3. CASE Dispatch
  BY <1>3, DispatchInv
<1>4. CASE BroadcastStep
  BY <1>4, BroadcastInv
<1>5. CASE Reply
  BY <1>5, ReplyInv
<1>6. ASSUME NEW r \in Ranks, Handle(r) PROVE RpcInv'
  BY <1>6, HandleInv
<1>7. CASE UNCHANGED vars
  <2>1. UNCHANGED <<client, inbox, call, queue, replies, dial, ran, steps, torn, suspect,
                    overtaken>>
    BY <1>7 DEF vars
  <2>2. \A r \in Ranks : Waiting(r)' = Waiting(r) /\ Backlog(r)' = Backlog(r)
    BY <2>1 DEF Waiting, Backlog
  <2>3. TypeOK' /\ CallsOK'
    BY <2>1 DEF RpcInv, TypeOK, CallsOK
  <2>4. QueueOK' /\ RanOK'
    BY <2>1, <2>2 DEF RpcInv, QueueOK, RanOK, CallMsg, StepMsg
  <2>5. InFlightOK' /\ StepsAgree' /\ DialsOK' /\ AnswersHoldEverywhere'
    BY <2>1 DEF RpcInv, InFlightOK, StepsAgree, DialsOK, Setting, AnswersHoldEverywhere
  <2>6. QED
    BY <2>3, <2>4, <2>5 DEF RpcInv
<1>8. QED
  BY <1>1, <1>2, <1>3, <1>4, <1>5, <1>6, <1>7 DEF Next, EngineStep

LEMMA RpcInvariance == Spec => []RpcInv
BY InitInv, NextInv, PTL DEF Spec

\* Type correctness.
THEOREM TypeCorrect == Spec => []TypeOK
<1>1. RpcInv => TypeOK
  BY DEF RpcInv
<1>2. QED
  BY <1>1, RpcInvariance, PTL

\* Worker.execute_model on every rank: one forward is one lambda, whatever the number
\* of ranks and callers and however many steps are in flight when the dial moves,
\* unless the POST before it was answered 500.
THEOREM OneLambdaPerForward == Spec => []StepsAgree
<1>1. RpcInv => StepsAgree
  BY DEF RpcInv
<1>2. QED
  BY <1>1, RpcInvariance, PTL

\* set_refusal_lambda, get_refusal_lambda: a 200 is true on every rank until a later
\* POST is handled.
THEOREM AnswersHold == Spec => []AnswersHoldEverywhere
<1>1. RpcInv => AnswersHoldEverywhere
  BY DEF RpcInv
<1>2. QED
  BY <1>1, RpcInvariance, PTL

-----------------------------------------------------------------------------
(***************************************************************************)
(* Sweep.  For every list of lambdas, battery, number of repeats and bound *)
(* on failures and runs: where a prompt is, what the files hold and where  *)
(* the dial stands at each place of main.                                  *)
(***************************************************************************)

\* What the seven records say.
LEMMA BenchTable ==
  ASSUME bench \in Benches
  PROVE  /\ bench \in {"refusal", "niah", "overrefusal", "v2", "quality", "strongreject",
                       "compare"}
         /\ My.saves = IF bench \in {"quality", "strongreject"} THEN "row"
                       ELSE IF bench \in {"v2", "compare"} THEN "window" ELSE "end"
         /\ My.inner <=> bench \in {"overrefusal", "v2", "quality", "compare"}
         /\ My.insists <=> bench \in {"overrefusal", "v2"}
         /\ My.last = IF bench = "refusal" THEN "success"
                      ELSE IF bench = "niah" THEN "never" ELSE "always"
         /\ My.home = IF bench \in {"refusal", "niah"} THEN "zero"
                      ELSE IF bench = "quality" THEN "given" ELSE "found"
         /\ My.pool <=> bench \in {"overrefusal", "v2", "strongreject"}
<1>1. bench \in DOMAIN Rules
  BY BenchesAssumption
<1>2. bench \in {"refusal", "niah", "overrefusal", "v2", "quality", "strongreject", "compare"}
  BY <1>1 DEF Rules
<1>3. CASE bench = "refusal"
  <2>1. My = Refusal
    BY <1>3 DEF My, Rules
  <2>2. QED
    BY <1>3, <2>1 DEF Refusal
<1>4. CASE bench = "niah"
  <2>1. My = Niah
    BY <1>4 DEF My, Rules
  <2>2. QED
    BY <1>4, <2>1 DEF Niah, Refusal
<1>5. CASE bench = "overrefusal"
  <2>1. My = Overrefusal
    BY <1>5 DEF My, Rules
  <2>2. QED
    BY <1>5, <2>1 DEF Overrefusal
<1>6. CASE bench = "v2"
  <2>1. My = OverrefusalV2
    BY <1>6 DEF My, Rules
  <2>2. QED
    BY <1>6, <2>1 DEF OverrefusalV2, Overrefusal
<1>7. CASE bench = "quality"
  <2>1. My = Quality
    BY <1>7 DEF My, Rules
  <2>2. QED
    BY <1>7, <2>1 DEF Quality
<1>8. CASE bench = "strongreject"
  <2>1. My = StrongReject
    BY <1>8 DEF My, Rules
  <2>2. QED
    BY <1>8, <2>1 DEF StrongReject
<1>9. CASE bench = "compare"
  <2>1. My = CompareFull
    BY <1>9 DEF My, Rules
  <2>2. QED
    BY <1>9, <2>1 DEF CompareFull
<1>10. QED
  BY <1>2, <1>3, <1>4, <1>5, <1>6, <1>7, <1>8, <1>9

LEMMA Modulo ==
  ASSUME NEW a \in Int, NEW n \in Nat \ {0}
  PROVE  a % n \in 0 .. n - 1 /\ a \div n \in Int
OBVIOUS

\* The orders are lists of positions of the lambdas.
LEMMA OrdersType ==
  ASSUME NEW n \in Nat \ {0}
  PROVE  /\ BalancedOrders(n) \in Seq([1 .. n -> 0 .. n - 1])
         /\ Len(BalancedOrders(n)) \in Nat \ {0}
<1> DEFINE base == [k \in 1 .. n |-> IF k % 2 = 0 THEN k \div 2 ELSE (n - (k - 1) \div 2) % n]
           shifted == [s \in 1 .. n |-> [k \in 1 .. n |-> (base[k] + s - 1) % n]]
           turned == [s \in 1 .. n |-> [k \in 1 .. n |-> shifted[s][n + 1 - k]]]
           Order == [1 .. n -> 0 .. n - 1]
<1>1. BalancedOrders(n) = IF n = 2 THEN <<<<0, 1>>, <<1, 0>>>>
                          ELSE IF n % 2 = 0 THEN shifted ELSE shifted \o turned
  BY DEF BalancedOrders
<1>2. \A k \in 1 .. n : base[k] \in Int
  <2> SUFFICES ASSUME NEW k \in 1 .. n PROVE base[k] \in Int
    OBVIOUS
  <2>1. k \in Int /\ k - 1 \in Int /\ 2 \in Nat \ {0}
    OBVIOUS
  <2>2. k \div 2 \in Int /\ (k - 1) \div 2 \in Int
    BY <2>1, Modulo
  <2>3. n - (k - 1) \div 2 \in Int
    BY <2>2
  <2>4. (n - (k - 1) \div 2) % n \in Int
    BY <2>3, Modulo
  <2>5. QED
    BY <2>2, <2>4
<1> HIDE DEF base
<1>3. shifted \in [1 .. n -> Order]
  <2> SUFFICES ASSUME NEW s \in 1 .. n, NEW k \in 1 .. n
               PROVE  (base[k] + s - 1) % n \in 0 .. n - 1
    OBVIOUS
  <2>1. base[k] + s - 1 \in Int
    BY <1>2
  <2>2. QED
    BY <2>1, Modulo
<1> HIDE DEF shifted
<1>4. turned \in [1 .. n -> Order]
  <2> SUFFICES ASSUME NEW s \in 1 .. n, NEW k \in 1 .. n
               PROVE  shifted[s][n + 1 - k] \in 0 .. n - 1
    OBVIOUS
  <2>1. n + 1 - k \in 1 .. n
    OBVIOUS
  <2>2. QED
    BY <1>3, <2>1
<1> HIDE DEF turned, Order
<1>5. shifted \in Seq(Order) /\ turned \in Seq(Order) /\ Len(shifted) = n
  BY <1>3, <1>4
<1>6. CASE n = 2
  <2>1. <<0, 1>> \in Order /\ <<1, 0>> \in Order
    BY <1>6 DEF Order
  <2>2. QED
    BY <1>1, <1>6, <2>1 DEF Order
<1>7. CASE n # 2 /\ n % 2 = 0
  BY <1>1, <1>5, <1>7 DEF Order
<1>8. CASE n # 2 /\ n % 2 # 0
  <2>1. shifted \o turned \in Seq(Order) /\ Len(shifted \o turned) = n + Len(turned)
    BY <1>5, ConcatProperties
  <2>2. Len(turned) \in Nat
    BY <1>5, LenProperties
  <2>3. QED
    BY <1>1, <1>8, <2>1, <2>2 DEF Order
<1>9. QED
  BY <1>6, <1>7, <1>8

Pieces == Prompts \cup 1 .. Reps + 2

Visits == [lam : Values, pieces : SUBSET Pieces]

LEMMA SpeedType ==
  ASSUME NEW n \in Nat \ {0}, n = Len(LambdaList), NEW v \in 1 .. Reps * n,
         NEW orders, orders = BalancedOrders(n),
         NEW rep, rep = (v - 1) \div n
  PROVE  /\ LambdaList[orders[(rep % Len(orders)) + 1][((v - 1) % n) + 1] + 1] \in Values
         /\ rep + 1 \in 1 .. Reps
<1>0. Reps \in Nat \ {0} /\ Reps * n \in Nat /\ v \in Int
  BY SweepAssumption
<1>1. rep \in Int /\ rep + 1 \in 1 .. Reps
  <2>1. (v - 1) \div n \in 0 .. Reps - 1
    BY <1>0
  <2>2. QED
    BY <1>0, <2>1
<1>2. orders \in Seq([1 .. n -> 0 .. n - 1]) /\ Len(orders) \in Nat \ {0}
  BY OrdersType
<1>3. (rep % Len(orders)) + 1 \in 1 .. Len(orders)
  <2>1. rep % Len(orders) \in 0 .. Len(orders) - 1
    BY <1>1, <1>2, Modulo, Zenon
  <2>2. QED
    BY <1>2, <2>1
<1>4. orders[(rep % Len(orders)) + 1] \in [1 .. n -> 0 .. n - 1]
  BY <1>2, <1>3
<1>5. ((v - 1) % n) + 1 \in 1 .. n
  <2>1. v - 1 \in Int
    BY <1>0
  <2>2. (v - 1) % n \in 0 .. n - 1
    BY <2>1, Modulo, Zenon
  <2>3. QED
    BY <2>2
<1>6. orders[(rep % Len(orders)) + 1][((v - 1) % n) + 1] + 1 \in 1 .. n
  <2> DEFINE order == orders[(rep % Len(orders)) + 1]
             k == ((v - 1) % n) + 1
  <2>1. order \in [1 .. n -> 0 .. n - 1] /\ k \in 1 .. n
    BY <1>4, <1>5
  <2> HIDE DEF order, k
  <2>2. order[k] + 1 \in 1 .. n
    BY <2>1
  <2>3. QED
    BY <2>2 DEF order, k
<1>7. DOMAIN LambdaList = 1 .. n
  BY SweepAssumption
<1>8. QED
  BY <1>1, <1>6, <1>7 DEF Values

LEMMA PlanType ==
  /\ Plan \in Seq(Visits) /\ Len(Plan) \in Nat /\ DOMAIN Plan = 1 .. Len(Plan)
  /\ \A v \in 1 .. Len(Plan) : Plan[v].lam \in Values /\ Plan[v].pieces \subseteq Pieces
<1> DEFINE n == Len(LambdaList)
           orders == BalancedOrders(n)
           each(pieces) == [v \in 1 .. n |-> [lam |-> LambdaList[v], pieces |-> pieces]]
           speed == [v \in 1 .. Reps * n |->
                       LET rep == (v - 1) \div n
                       IN [lam |-> LambdaList[orders[(rep % Len(orders)) + 1][((v - 1) % n) + 1] + 1],
                           pieces |-> {rep + 1}]]
<1>1. n \in Nat \ {0} /\ DOMAIN LambdaList = 1 .. n /\ Reps \in Nat \ {0}
  <2>1. Values # {}
    BY SweepAssumption
  <2>2. DOMAIN LambdaList = 1 .. n /\ n \in Nat
    BY SweepAssumption
  <2>3. QED
    BY <2>1, <2>2, SweepAssumption DEF Values
<1>2. Plan = IF bench = "compare" THEN speed \o each(Suites) ELSE each(Prompts)
  BY DEF Plan
<1>3. ASSUME NEW pieces \in SUBSET Pieces
      PROVE  each(pieces) \in Seq(Visits)
  <2>1. \A v \in 1 .. n : LambdaList[v] \in Values
    BY <1>1 DEF Values
  <2>2. each(pieces) \in [1 .. n -> Visits]
    BY <2>1 DEF Visits
  <2>3. QED
    BY <1>1, <2>2
<1>4. speed \in Seq(Visits)
  <2>1. ASSUME NEW v \in 1 .. Reps * n
        PROVE  speed[v] \in Visits
    <3> DEFINE rep == (v - 1) \div n
               lam == LambdaList[orders[(rep % Len(orders)) + 1][((v - 1) % n) + 1] + 1]
    <3>1. lam \in Values /\ rep + 1 \in 1 .. Reps
      BY <1>1, SpeedType
    <3>2. speed[v] = [lam |-> lam, pieces |-> {rep + 1}]
      OBVIOUS
    <3> HIDE DEF lam, rep, speed
    <3>3. {rep + 1} \in SUBSET Pieces
      BY <1>1, <3>1 DEF Pieces
    <3>4. QED
      BY <3>1, <3>2, <3>3 DEF Visits
  <2>2. speed \in [1 .. Reps * n -> Visits]
    BY <2>1
  <2>3. Reps * n \in Nat
    BY <1>1
  <2> HIDE DEF speed
  <2>4. QED
    BY <2>2, <2>3
<1>5. Suites \in SUBSET Pieces /\ Prompts \in SUBSET Pieces
  BY <1>1 DEF Suites, Pieces
<1> HIDE DEF n, orders, each, speed
<1>6. speed \o each(Suites) \in Seq(Visits)
  BY <1>3, <1>4, <1>5, ConcatProperties
<1>7. Plan \in Seq(Visits)
  BY <1>2, <1>3, <1>5, <1>6
<1>8. Len(Plan) \in Nat /\ DOMAIN Plan = 1 .. Len(Plan)
  BY <1>7, LenProperties
<1>9. ASSUME NEW v \in 1 .. Len(Plan)
      PROVE  Plan[v].lam \in Values /\ Plan[v].pieces \subseteq Pieces
  <2>1. Plan[v] \in Visits
    BY <1>7, <1>8, LenProperties
  <2>2. QED
    BY <2>1 DEF Visits
<1>10. QED
  BY <1>7, <1>8, <1>9

-----------------------------------------------------------------------------
(***************************************************************************)
(* The invariant.  A prompt of the visit is in one place: still to ask, in *)
(* flight, answered in this window or recorded; the windows behind are     *)
(* recorded; the dial is at the visit's lambda as long as a window is      *)
(* open.                                                                   *)
(***************************************************************************)

Asked == {g.prompt : g \in got}

\* Only compare_full counts contaminated measures, and it stops before one too many.
AttemptOK ==
  /\ bench # "compare" => attempt = 0
  /\ pc \in {"off", "next", "wait", "set", "ask"} => attempt <= MaxAttempts

\* Where main is tells which visit it is at, and what is left of it.
VisitOK ==
  /\ pc = "off" => visit = 1 /\ left = {} /\ flight = {} /\ got = {} /\ attempt = 0
  /\ pc \in {"wait", "set", "ask", "drain", "home", "save"} => visit <= Len(Plan)
  /\ pc = "next" => left = {}
  /\ pc \in {"ask", "drain"} /\ bench # "v2" => left = {}
  /\ pc = "home" /\ bench \notin {"v2", "compare"} => left = {}
  /\ pc = "drain" => raised
  /\ (pc \in {"last", "write"} /\ ~ raised) \/ pc = "ended" => visit > Len(Plan)

GotOK ==
  /\ got # {} => pc \in {"ask", "home", "killed"}
  /\ got # {} => My.saves # "row"

WindowOK ==
  Live /\ visit <= Len(Plan) =>
    /\ left \cap flight = {}
    /\ (left \cup flight) \cap Recorded(Lam) = {}
    /\ \A g \in got : g.lam = Lam /\ g.prompt \notin left \cup flight \cup Recorded(Lam)
    /\ \A g, h \in got : g.prompt = h.prompt => g = h
    /\ left \cup flight \subseteq Plan[visit].pieces
    /\ \A g \in got : g.prompt \in Plan[visit].pieces

\* As long as nothing has failed no prompt of the visit is lost.
CoveredOK ==
  pc \in {"wait", "set", "ask", "home", "save"} /\ ~ raised =>
    Plan[visit].pieces \subseteq left \cup flight \cup Asked \cup Recorded(Lam)

PastOK ==
  Live \/ pc = "ended" =>
    \A v \in 1 .. visit - 1 : Plan[v].pieces \subseteq Recorded(Plan[v].lam)

Unique(rows) == \A r, q \in rows : r.lam = q.lam /\ r.prompt = q.prompt => r = q

UniqueOK == Unique(memory) /\ Unique(disk)

\* A bench that saves each row holds what its files hold, but for the arm it rewrites; the
\* others catch up when a window closes, and compare_full is behind by the window it is in.
DiskOK ==
  /\ My.saves = "row" /\ Live => disk \subseteq memory /\ pc # "write"
  /\ My.saves = "row" /\ Live /\ pc # "save" => memory \subseteq disk
  /\ My.saves = "row" /\ pc = "save" => \A r \in memory \ disk : r.lam = Lam
  /\ My.saves = "window" /\ pc \in {"next", "wait", "set"} => memory \subseteq disk
  /\ My.saves = "window" /\ Live /\ pc \notin {"save", "write"} => ~ cut
  /\ My.saves = "window" /\ Live /\ pc \notin {"save", "write"} =>
       \A r \in memory \ disk : bench = "compare" /\ OfThisWindow(r)

AtLamOK == pc \in {"ask", "drain", "home"} /\ ~ fresh => served = Lam

RowsOK ==
  /\ bench = "v2" /\ Live => \A r \in memory \cup got : r.pod = pod
  /\ \A r \in memory \cup got \cup disk : r.ok /\ ~ r.fresh => r.at = r.lam

HomeOK ==
  /\ pc \in {"write", "ended", "failed"} /\ My.last = "always" /\ ~ gaveUp /\ ~ fresh =>
       served = Home
  /\ HomeBetweenWindows

SweepInv ==
  /\ SweepTypeOK /\ AttemptOK /\ VisitOK /\ GotOK /\ WindowOK /\ CoveredOK /\ PastOK
  /\ UniqueOK /\ DiskOK /\ AtLamOK /\ RowsOK /\ HomeOK

LEMMA InRecorded ==
  \A x, l : x \in Recorded(l) <=> \E r \in memory : r.lam = l /\ r.prompt = x
BY DEF Recorded

\* The plan, the rules and the dial's home are the run's.
LEMMA Frame ==
  ASSUME UNCHANGED bench
  PROVE  /\ Plan' = Plan /\ My' = My /\ Lam' = Plan[visit'].lam
         /\ UNCHANGED visit => Lam' = Lam
         /\ UNCHANGED found => Home' = Home
<1>1. Plan' = Plan
  BY DEF Plan
<1>2. My' = My
  BY DEF My
<1>3. Lam' = Plan[visit'].lam
  BY <1>1 DEF Lam
<1>4. ASSUME UNCHANGED found PROVE Home' = Home
  BY <1>2, <1>4 DEF Home
<1>5. ASSUME UNCHANGED visit PROVE Lam' = Lam
  BY <1>3, <1>5 DEF Lam
<1>6. QED
  BY <1>1, <1>2, <1>3, <1>4, <1>5

LEMMA FrameRecorded ==
  ASSUME UNCHANGED memory
  PROVE  \A l : Recorded(l)' = Recorded(l)
BY DEF Recorded

LEMMA FrameAsked ==
  ASSUME UNCHANGED got
  PROVE  Asked' = Asked
BY DEF Asked

LEMMA FrameWindow ==
  ASSUME UNCHANGED bench, UNCHANGED visit
  PROVE  \A r : OfThisWindow(r)' <=> OfThisWindow(r)
BY Frame DEF OfThisWindow

LEMMA LamType ==
  ASSUME visit \in 1 .. Len(Plan)
  PROVE  /\ Lam \in Values
         /\ Plan[visit].pieces \subseteq Pieces
BY PlanType DEF Lam

LEMMA HomeType ==
  ASSUME bench \in Benches, found \in Values \cup {Mixed}
  PROVE  Home \in Values \cup {Mixed}
BY BenchTable, SweepAssumption DEF Home

-----------------------------------------------------------------------------
LEMMA SweepInitInv == SweepInit => SweepInv
<1> SUFFICES ASSUME SweepInit PROVE SweepInv
  OBVIOUS
<1>1. /\ bench \in Benches /\ served \in Values \cup {Mixed} /\ fresh = FALSE /\ pod = 1
      /\ pc = "off" /\ found = 0 /\ visit = 1 /\ left = {} /\ flight = {} /\ got = {}
      /\ memory = {} /\ disk = {} /\ cut = FALSE /\ report = FALSE /\ raised = FALSE
      /\ gaveUp = FALSE /\ attempt = 0
  BY DEF SweepInit
<1>2. Len(Plan) \in Nat /\ MaxAttempts \in Nat /\ 0 \in Values
  BY PlanType, SweepAssumption
<1>3. SweepTypeOK
  <2>1. visit \in 1 .. Len(Plan) + 1 /\ attempt \in 0 .. MaxAttempts + 1 /\ pod \in Nat
    BY <1>1, <1>2
  <2>2. fresh \in BOOLEAN /\ cut \in BOOLEAN /\ report \in BOOLEAN
    BY <1>1
  <2>3. raised \in BOOLEAN /\ gaveUp \in BOOLEAN
    BY <1>1
  <2>4. got \cup memory \cup disk \subseteq Rows
    BY <1>1
  <2>5. QED
    BY <1>1, <1>2, <2>1, <2>2, <2>3, <2>4 DEF SweepTypeOK
<1>4. AttemptOK /\ VisitOK /\ GotOK /\ CoveredOK /\ AtLamOK
  BY <1>1, <1>2 DEF AttemptOK, VisitOK, GotOK, CoveredOK, AtLamOK
<1>5. WindowOK /\ PastOK /\ UniqueOK /\ DiskOK
  BY <1>1 DEF WindowOK, PastOK, UniqueOK, Unique, DiskOK, Live
<1>6. RowsOK /\ HomeOK
  BY <1>1 DEF RowsOK, HomeOK, HomeBetweenWindows
<1>7. QED
  BY <1>3, <1>4, <1>5, <1>6 DEF SweepInv

\* A step that touches no row and does not move to another visit.
LEMMA QuietStep ==
  ASSUME SweepInv,
         UNCHANGED <<bench, visit, window, memory, disk, cut, report>>,
         Live' => Live, pc' = "ended" => Live \/ pc = "ended"
  PROVE  /\ Plan' = Plan /\ My' = My /\ Lam' = Lam
         /\ WindowOK' /\ PastOK' /\ UniqueOK'
         /\ \A r \in memory \cup got \cup disk : r.ok /\ ~ r.fresh => r.at = r.lam
         /\ got' \cup memory' \cup disk' \subseteq Rows
         /\ left' \cup flight' \subseteq Pieces
         /\ visit' \in 1 .. Len(Plan) + 1 /\ attempt' \in 0 .. MaxAttempts + 1
         /\ Recorded(Lam)' = Recorded(Lam) /\ Asked' = Asked
<1>1. /\ UNCHANGED <<left, flight, got, attempt, memory, disk>>
      /\ UNCHANGED visit /\ UNCHANGED bench
  BY DEF window
<1>2. Plan' = Plan /\ My' = My /\ Lam' = Lam
  BY <1>1, Frame
<1>3. \A l : Recorded(l)' = Recorded(l)
  BY <1>1, FrameRecorded
<1>4. Asked' = Asked
  BY <1>1, FrameAsked
<1>5. Recorded(Lam)' = Recorded(Lam)
  BY <1>2, <1>3
<1>6. WindowOK'
  BY <1>1, <1>2, <1>5 DEF SweepInv, WindowOK, Live
<1>7. PastOK'
  BY <1>1, <1>2, <1>3 DEF SweepInv, PastOK, Live
<1>8. UniqueOK'
  BY <1>1 DEF SweepInv, UniqueOK, Unique
<1>9. QED
  BY <1>1, <1>2, <1>4, <1>5, <1>6, <1>7, <1>8 DEF SweepInv, SweepTypeOK, RowsOK, Pieces

LEMMA IdleInv == SweepInv /\ Idle => SweepInv'
<1> SUFFICES ASSUME SweepInv, Idle PROVE SweepInv'
  OBVIOUS
<1>1. /\ pc = "wait" /\ pc' = "set"
      /\ UNCHANGED <<bench, served, fresh, pod, found, visit, window, memory, disk, cut, report>>
      /\ UNCHANGED <<left, flight, got, attempt, raised, gaveUp>>
  BY DEF Idle, server, window, results
<1>2. /\ Plan' = Plan /\ My' = My /\ Lam' = Lam
      /\ WindowOK' /\ PastOK' /\ UniqueOK'
      /\ Recorded(Lam)' = Recorded(Lam) /\ Asked' = Asked
  BY <1>1, QuietStep DEF Live
<1>3. SweepTypeOK'
  BY <1>1, <1>2 DEF SweepInv, SweepTypeOK
<1>4. AttemptOK' /\ VisitOK' /\ GotOK' /\ AtLamOK'
  BY <1>1, <1>2 DEF SweepInv, AttemptOK, VisitOK, GotOK, AtLamOK
<1>5. CoveredOK'
  BY <1>1, <1>2 DEF SweepInv, CoveredOK
<1>6. DiskOK' /\ RowsOK'
  BY <1>1, <1>2 DEF SweepInv, DiskOK, RowsOK, Live
<1>7. HomeOK'
  BY <1>1, <1>2 DEF SweepInv, HomeOK, HomeBetweenWindows
<1>8. QED
  BY <1>2, <1>3, <1>4, <1>5, <1>6, <1>7 DEF SweepInv

LEMMA WaitBreaksInv == SweepInv /\ WaitBreaks => SweepInv'
<1> SUFFICES ASSUME SweepInv, WaitBreaks PROVE SweepInv'
  OBVIOUS
<1>1. /\ pc = "wait" /\ raised' = TRUE /\ pc' = Outer
      /\ UNCHANGED <<bench, found, visit, window, memory, disk, cut, report>>
      /\ UNCHANGED <<left, flight, got, attempt, served, fresh, pod, gaveUp>>
  BY DEF WaitBreaks, server, window, results
<1>2. /\ Plan' = Plan /\ My' = My /\ Lam' = Lam
      /\ WindowOK' /\ PastOK' /\ UniqueOK'
      /\ Recorded(Lam)' = Recorded(Lam) /\ Asked' = Asked
  BY <1>1, QuietStep DEF Live, Outer
<1>3. SweepTypeOK'
  BY <1>1, <1>2 DEF SweepInv, SweepTypeOK, Outer
<1>4. AttemptOK' /\ VisitOK' /\ GotOK' /\ AtLamOK'
  BY <1>1, <1>2, BenchTable DEF SweepInv, SweepTypeOK, AttemptOK, VisitOK, GotOK, AtLamOK, Outer
<1>5. CoveredOK'
  BY <1>1, <1>2 DEF SweepInv, CoveredOK, VisitOK, Outer
<1>6. DiskOK' /\ RowsOK'
  BY <1>1, <1>2, BenchTable, FrameWindow DEF SweepInv, SweepTypeOK, DiskOK, RowsOK, Live, Outer
<1>7. HomeOK'
  BY <1>1, <1>2, BenchTable, Frame DEF SweepInv, SweepTypeOK, HomeOK, HomeBetweenWindows, Outer
<1>8. QED
  BY <1>2, <1>3, <1>4, <1>5, <1>6, <1>7 DEF SweepInv

LEMMA DrainedInv == SweepInv /\ Drained => SweepInv'
<1> SUFFICES ASSUME SweepInv, Drained PROVE SweepInv'
  OBVIOUS
<1>1. /\ pc = "drain" /\ flight = {} /\ pc' = Inner
      /\ UNCHANGED <<bench, found, visit, window, memory, disk, cut, report>>
      /\ UNCHANGED <<left, flight, got, attempt, served, fresh, pod, raised, gaveUp>>
  BY DEF Drained, server, window, results
<1>2. /\ Plan' = Plan /\ My' = My /\ Lam' = Lam
      /\ WindowOK' /\ PastOK' /\ UniqueOK'
      /\ Recorded(Lam)' = Recorded(Lam) /\ Asked' = Asked
  BY <1>1, QuietStep DEF Live, Inner, Outer
<1>3. SweepTypeOK'
  BY <1>1, <1>2, BenchTable DEF SweepInv, SweepTypeOK, Inner, Outer
<1>4. AttemptOK' /\ VisitOK' /\ GotOK' /\ AtLamOK'
  BY <1>1, <1>2, BenchTable DEF SweepInv, SweepTypeOK, AttemptOK, VisitOK, GotOK, AtLamOK, Inner, Outer
<1>5. CoveredOK'
  BY <1>1, <1>2 DEF SweepInv, CoveredOK, VisitOK, Inner, Outer
<1>6. DiskOK' /\ RowsOK'
  BY <1>1, <1>2, BenchTable, FrameWindow DEF SweepInv, SweepTypeOK, DiskOK, RowsOK, Live, Inner, Outer
<1>7. HomeOK'
  BY <1>1, <1>2, BenchTable, Frame DEF SweepInv, SweepTypeOK, HomeOK, HomeBetweenWindows, Inner, Outer
<1>8. QED
  BY <1>2, <1>3, <1>4, <1>5, <1>6, <1>7 DEF SweepInv

LEMMA KillInv == SweepInv /\ Kill => SweepInv'
<1> SUFFICES ASSUME SweepInv, Kill PROVE SweepInv'
  OBVIOUS
<1>1. /\ Live /\ pc' = "killed"
      /\ UNCHANGED <<bench, found, visit, window, memory, disk, cut, report>>
      /\ UNCHANGED <<left, flight, got, attempt, served, fresh, pod, raised, gaveUp>>
  BY DEF Kill, server, window, results
<1>2. /\ Plan' = Plan /\ My' = My /\ Lam' = Lam
      /\ WindowOK' /\ PastOK' /\ UniqueOK'
      /\ Recorded(Lam)' = Recorded(Lam) /\ Asked' = Asked
  BY <1>1, QuietStep DEF Live
<1>3. SweepTypeOK'
  BY <1>1, <1>2 DEF SweepInv, SweepTypeOK
<1>4. AttemptOK' /\ VisitOK' /\ GotOK' /\ AtLamOK'
  BY <1>1, <1>2, BenchTable DEF SweepInv, SweepTypeOK, AttemptOK, VisitOK, GotOK, AtLamOK
<1>5. CoveredOK'
  BY <1>1, <1>2 DEF SweepInv, CoveredOK, VisitOK
<1>6. DiskOK' /\ RowsOK'
  BY <1>1, <1>2, BenchTable, FrameWindow DEF SweepInv, SweepTypeOK, DiskOK, RowsOK, Live
<1>7. HomeOK'
  BY <1>1, <1>2, BenchTable, Frame DEF SweepInv, SweepTypeOK, HomeOK, HomeBetweenWindows
<1>8. QED
  BY <1>2, <1>3, <1>4, <1>5, <1>6, <1>7 DEF SweepInv

LEMMA ServerRestartsInv == SweepInv /\ ServerRestarts => SweepInv'
<1> SUFFICES ASSUME SweepInv, ServerRestarts PROVE SweepInv'
  OBVIOUS
<1>1. /\ Live /\ served' = 0 /\ fresh' = TRUE
      /\ UNCHANGED <<bench, found, visit, window, memory, disk, cut, report>>
      /\ UNCHANGED <<left, flight, got, attempt, pod, pc, raised, gaveUp>>
  BY DEF ServerRestarts, server, window, results
<1>2. /\ Plan' = Plan /\ My' = My /\ Lam' = Lam
      /\ WindowOK' /\ PastOK' /\ UniqueOK'
      /\ Recorded(Lam)' = Recorded(Lam) /\ Asked' = Asked
  BY <1>1, QuietStep DEF Live
<1>3. SweepTypeOK'
  BY <1>1, <1>2, SweepAssumption DEF SweepInv, SweepTypeOK
<1>4. AttemptOK' /\ VisitOK' /\ GotOK' /\ AtLamOK'
  BY <1>1, <1>2, BenchTable DEF SweepInv, SweepTypeOK, AttemptOK, VisitOK, GotOK, AtLamOK
<1>5. CoveredOK'
  BY <1>1, <1>2 DEF SweepInv, CoveredOK, VisitOK
<1>6. DiskOK' /\ RowsOK'
  BY <1>1, <1>2, BenchTable, FrameWindow DEF SweepInv, SweepTypeOK, DiskOK, RowsOK, Live
<1>7. HomeOK'
  BY <1>1, <1>2, BenchTable, Frame DEF SweepInv, SweepTypeOK, HomeOK, HomeBetweenWindows
<1>8. QED
  BY <1>2, <1>3, <1>4, <1>5, <1>6, <1>7 DEF SweepInv

LEMMA PodRollsInv == SweepInv /\ PodRolls => SweepInv'
<1> SUFFICES ASSUME SweepInv, PodRolls PROVE SweepInv'
  OBVIOUS
<1>1. /\ pc = "off" /\ pod' = pod + 1 /\ served' = 0 /\ fresh' = TRUE
      /\ UNCHANGED <<bench, found, visit, window, memory, disk, cut, report>>
      /\ UNCHANGED <<left, flight, got, attempt, pc, raised, gaveUp>>
  BY DEF PodRolls, server, window, results
<1>2. /\ Plan' = Plan /\ My' = My /\ Lam' = Lam
      /\ WindowOK' /\ PastOK' /\ UniqueOK'
      /\ Recorded(Lam)' = Recorded(Lam) /\ Asked' = Asked
  BY <1>1, QuietStep DEF Live
<1>3. SweepTypeOK'
  BY <1>1, <1>2, SweepAssumption DEF SweepInv, SweepTypeOK
<1>4. AttemptOK' /\ VisitOK' /\ GotOK' /\ AtLamOK'
  BY <1>1, <1>2, BenchTable DEF SweepInv, SweepTypeOK, AttemptOK, VisitOK, GotOK, AtLamOK
<1>5. CoveredOK'
  BY <1>1, <1>2 DEF SweepInv, CoveredOK, VisitOK
<1>6. DiskOK' /\ RowsOK'
  BY <1>1, <1>2, BenchTable, FrameWindow DEF SweepInv, SweepTypeOK, DiskOK, RowsOK, Live
<1>7. HomeOK'
  BY <1>1, <1>2, BenchTable, Frame DEF SweepInv, SweepTypeOK, HomeOK, HomeBetweenWindows
<1>8. QED
  BY <1>2, <1>3, <1>4, <1>5, <1>6, <1>7 DEF SweepInv

LEMMA ByHandInv == SweepInv /\ ByHand => SweepInv'
<1> SUFFICES ASSUME SweepInv, ByHand PROVE SweepInv'
  OBVIOUS
<1>1. /\ pc = "off" /\ served' = Production /\ fresh' = FALSE
      /\ UNCHANGED <<bench, found, visit, window, memory, disk, cut, report>>
      /\ UNCHANGED <<left, flight, got, attempt, pod, pc, raised, gaveUp>>
  BY DEF ByHand, Turned, server, window, results
<1>2. /\ Plan' = Plan /\ My' = My /\ Lam' = Lam
      /\ WindowOK' /\ PastOK' /\ UniqueOK'
      /\ Recorded(Lam)' = Recorded(Lam) /\ Asked' = Asked
  BY <1>1, QuietStep DEF Live
<1>3. SweepTypeOK'
  BY <1>1, <1>2, SweepAssumption DEF SweepInv, SweepTypeOK
<1>4. AttemptOK' /\ VisitOK' /\ GotOK' /\ AtLamOK'
  BY <1>1, <1>2, BenchTable DEF SweepInv, SweepTypeOK, AttemptOK, VisitOK, GotOK, AtLamOK
<1>5. CoveredOK'
  BY <1>1, <1>2 DEF SweepInv, CoveredOK, VisitOK
<1>6. DiskOK' /\ RowsOK'
  BY <1>1, <1>2, BenchTable, FrameWindow DEF SweepInv, SweepTypeOK, DiskOK, RowsOK, Live
<1>7. HomeOK'
  BY <1>1, <1>2, BenchTable, Frame DEF SweepInv, SweepTypeOK, HomeOK, HomeBetweenWindows
<1>8. QED
  BY <1>2, <1>3, <1>4, <1>5, <1>6, <1>7 DEF SweepInv

LEMMA StutterInv == SweepInv /\ UNCHANGED sweepVars => SweepInv'
<1> SUFFICES ASSUME SweepInv, UNCHANGED sweepVars PROVE SweepInv'
  OBVIOUS
<1>1. /\ UNCHANGED pc
      /\ UNCHANGED <<bench, found, visit, window, memory, disk, cut, report>>
      /\ UNCHANGED <<left, flight, got, attempt, served, fresh, pod, raised, gaveUp>>
  BY DEF sweepVars, server, window, results
<1>2. /\ Plan' = Plan /\ My' = My /\ Lam' = Lam
      /\ WindowOK' /\ PastOK' /\ UniqueOK'
      /\ Recorded(Lam)' = Recorded(Lam) /\ Asked' = Asked
  BY <1>1, QuietStep DEF Live
<1>3. SweepTypeOK'
  BY <1>1, <1>2 DEF SweepInv, SweepTypeOK
<1>4. AttemptOK' /\ VisitOK' /\ GotOK' /\ AtLamOK'
  BY <1>1, <1>2, BenchTable DEF SweepInv, SweepTypeOK, AttemptOK, VisitOK, GotOK, AtLamOK
<1>5. CoveredOK'
  BY <1>1, <1>2 DEF SweepInv, CoveredOK, VisitOK
<1>6. DiskOK' /\ RowsOK'
  BY <1>1, <1>2, BenchTable, FrameWindow DEF SweepInv, SweepTypeOK, DiskOK, RowsOK, Live
<1>7. HomeOK'
  BY <1>1, <1>2, BenchTable, Frame DEF SweepInv, SweepTypeOK, HomeOK, HomeBetweenWindows
<1>8. QED
  BY <1>2, <1>3, <1>4, <1>5, <1>6, <1>7 DEF SweepInv

LEMMA AgainInv == SweepInv /\ Again => SweepInv'
<1> SUFFICES ASSUME SweepInv, Again PROVE SweepInv'
  OBVIOUS
<1>1. /\ pc' = "off" /\ visit' = 1 /\ left' = {} /\ flight' = {} /\ got' = {} /\ attempt' = 0
      /\ memory' = {} /\ raised' = FALSE /\ gaveUp' = FALSE
      /\ UNCHANGED <<bench, served, fresh, pod, found, disk, cut, report>>
  BY DEF Again, server
<1>2. Plan' = Plan /\ My' = My /\ Len(Plan) \in Nat /\ MaxAttempts \in Nat
  BY <1>1, Frame, PlanType, SweepAssumption
<1>3. SweepTypeOK'
  <2>1. visit' \in 1 .. Len(Plan) + 1 /\ attempt' \in 0 .. MaxAttempts + 1
    BY <1>1, <1>2
  <2>2. got' \cup memory' \cup disk' \subseteq Rows
    BY <1>1 DEF SweepInv, SweepTypeOK
  <2>3. raised' \in BOOLEAN /\ gaveUp' \in BOOLEAN
    BY <1>1
  <2>4. QED
    BY <1>1, <1>2, <2>1, <2>2, <2>3 DEF SweepInv, SweepTypeOK
<1>4. AttemptOK' /\ VisitOK' /\ GotOK' /\ AtLamOK' /\ CoveredOK'
  BY <1>1, <1>2 DEF AttemptOK, VisitOK, GotOK, AtLamOK, CoveredOK
<1>5. WindowOK' /\ PastOK' /\ UniqueOK' /\ DiskOK'
  BY <1>1 DEF SweepInv, WindowOK, PastOK, UniqueOK, Unique, DiskOK, Live
<1>6. RowsOK' /\ HomeOK'
  BY <1>1 DEF SweepInv, RowsOK, HomeOK, HomeBetweenWindows, Live
<1>7. QED
  BY <1>3, <1>4, <1>5, <1>6 DEF SweepInv

LEMMA StartInv == ASSUME NEW resume \in BOOLEAN PROVE SweepInv /\ Start(resume) => SweepInv'
<1> SUFFICES ASSUME SweepInv, Start(resume) PROVE SweepInv'
  OBVIOUS
<1>1. /\ pc = "off"
      /\ UNCHANGED <<bench, served, fresh, pod, visit, left, flight, got, attempt, raised, gaveUp>>
      /\ \/ pc' = "refused" /\ UNCHANGED <<found, memory, disk, cut, report>>
         \/ /\ pc' = "next" /\ found' = served
            /\ memory' = IF resume THEN Recalled ELSE {}
            /\ disk' = IF resume THEN disk ELSE {}
            /\ cut' = FALSE /\ report' = (resume /\ report)
  BY DEF Start, server, window, results
<1>2. /\ Plan' = Plan /\ My' = My
      /\ Len(Plan) \in Nat /\ MaxAttempts \in Nat
      /\ visit = 1 /\ left = {} /\ flight = {} /\ got = {} /\ attempt = 0
  BY <1>1, Frame, PlanType, SweepAssumption DEF SweepInv, VisitOK
<1>3. /\ memory' \subseteq memory \cup disk /\ disk' \subseteq disk
      /\ pc' = "next" => memory' \subseteq disk'
      /\ pc' = "next" /\ bench # "v2" => memory' = disk'
      /\ pc' = "next" /\ bench = "v2" => \A r \in memory' : r.pod = pod
      /\ pc' = "refused" => memory' = memory
  BY <1>1 DEF Recalled
<1>4. SweepTypeOK'
  <2>1. got' \cup memory' \cup disk' \subseteq Rows
    BY <1>1, <1>3 DEF SweepInv, SweepTypeOK
  <2>2. cut' \in BOOLEAN /\ report' \in BOOLEAN
    BY <1>1 DEF SweepInv, SweepTypeOK
  <2>3. QED
    BY <1>1, <1>2, <2>1, <2>2 DEF SweepInv, SweepTypeOK
<1>5. AttemptOK' /\ VisitOK' /\ GotOK' /\ AtLamOK' /\ CoveredOK'
  BY <1>1, <1>2 DEF AttemptOK, VisitOK, GotOK, AtLamOK, CoveredOK
<1>6. WindowOK' /\ PastOK'
  BY <1>1, <1>2 DEF WindowOK, PastOK
<1>7. UniqueOK'
  <2>1. Unique(memory)'
    <3>1. CASE pc' = "refused"
      BY <1>3, <3>1 DEF SweepInv, UniqueOK, Unique
    <3>2. CASE pc' = "next"
      BY <1>3, <3>2 DEF SweepInv, UniqueOK, Unique
    <3>3. QED
      BY <1>1, <3>1, <3>2
  <2>2. QED
    BY <1>3, <2>1 DEF SweepInv, UniqueOK, Unique
<1>8. DiskOK'
  BY <1>1, <1>2, <1>3, BenchTable DEF SweepInv, SweepTypeOK, DiskOK, Live
<1>9. RowsOK'
  BY <1>1, <1>2, <1>3 DEF SweepInv, RowsOK, Live
<1>10. HomeOK'
  BY <1>1, <1>2 DEF HomeOK, HomeBetweenWindows
<1>11. QED
  BY <1>4, <1>5, <1>6, <1>7, <1>8, <1>9, <1>10 DEF SweepInv

LEMMA NextVisitInv == SweepInv /\ NextVisit => SweepInv'
<1> SUFFICES ASSUME SweepInv, NextVisit PROVE SweepInv'
  OBVIOUS
<1>1. /\ pc = "next"
      /\ UNCHANGED <<bench, served, fresh, pod, found, flight, got, attempt, memory, disk, cut,
                     report, raised, gaveUp>>
      /\ \/ /\ visit > Len(Plan) /\ pc' \in {"write", "last"}
            /\ pc' = "write" => My.last = "never"
            /\ UNCHANGED <<visit, left>>
         \/ /\ ~ visit > Len(Plan) /\ Pending = {}
            /\ visit' = visit + 1 /\ UNCHANGED <<pc, left>>
         \/ /\ ~ visit > Len(Plan) /\ left' = Pending
            /\ pc' \in {"wait", "set"} /\ UNCHANGED visit
  BY DEF NextVisit, server, results
<1>2. /\ Plan' = Plan /\ My' = My /\ Lam' = Plan[visit'].lam /\ (visit' = visit => Lam' = Lam)
      /\ Len(Plan) \in Nat /\ MaxAttempts \in Nat /\ visit \in Nat /\ visit \in 1 .. Len(Plan) + 1
      /\ left = {} /\ flight = {} /\ got = {} /\ attempt <= MaxAttempts
  BY <1>1, Frame, PlanType, SweepAssumption
     DEF SweepInv, SweepTypeOK, VisitOK, GotOK, AttemptOK
<1>3. \A l : Recorded(l)' = Recorded(l)
  BY <1>1, FrameRecorded
<1>4. Pending = Plan[visit].pieces \ Recorded(Lam)
  BY DEF Pending
<1>5. SweepTypeOK'
  <2>1. visit' \in 1 .. Len(Plan)' + 1
    BY <1>1, <1>2
  <2>2. left' \cup flight' \subseteq Pieces
    BY <1>1, <1>2, <1>4, PlanType
  <2>3. QED
    BY <1>1, <1>2, <2>1, <2>2 DEF SweepInv, SweepTypeOK, Pieces
<1>6. AttemptOK' /\ VisitOK' /\ GotOK' /\ AtLamOK'
  BY <1>1, <1>2 DEF SweepInv, AttemptOK, VisitOK, GotOK, AtLamOK
<1>7. WindowOK'
  BY <1>1, <1>2, <1>3, <1>4 DEF WindowOK
<1>8. CoveredOK'
  BY <1>1, <1>2, <1>3, <1>4 DEF CoveredOK
<1>9. PastOK'
  <2>1. \A v \in 1 .. visit - 1 : Plan[v].pieces \subseteq Recorded(Plan[v].lam)
    BY <1>1 DEF SweepInv, PastOK, Live
  <2>2. visit' = visit + 1 => Plan[visit].pieces \subseteq Recorded(Plan[visit].lam)
    BY <1>1, <1>2, <1>4 DEF Lam
  <2>3. QED
    BY <1>1, <1>2, <1>3, <2>1, <2>2 DEF PastOK
<1>10. UniqueOK' /\ DiskOK' /\ RowsOK'
  <2>1. UniqueOK' /\ RowsOK'
    BY <1>1, <1>2 DEF SweepInv, UniqueOK, Unique, RowsOK, Live
  <2>2. My.saves = "row" => pc' # "write"
    BY <1>1, BenchTable DEF SweepInv, SweepTypeOK
  <2>3. My.saves \in {"row", "window"} => memory' \subseteq disk'
    BY <1>1 DEF SweepInv, DiskOK, Live
  <2>4. DiskOK'
    BY <1>1, <1>2, <2>2, <2>3 DEF SweepInv, DiskOK, Live
  <2>5. QED
    BY <2>1, <2>4
<1>11. HomeOK'
  BY <1>1, <1>2, BenchTable DEF SweepInv, SweepTypeOK, HomeOK, HomeBetweenWindows
<1>12. QED
  BY <1>5, <1>6, <1>7, <1>8, <1>9, <1>10, <1>11 DEF SweepInv

LEMMA SetLambdaInv == SweepInv /\ SetLambda => SweepInv'
<1> SUFFICES ASSUME SweepInv, SetLambda PROVE SweepInv'
  OBVIOUS
<1>1. /\ pc = "set"
      /\ UNCHANGED <<bench, pod, found, visit, got, attempt, memory, disk, cut, report, gaveUp>>
      /\ \/ /\ served' = Lam /\ fresh' = FALSE /\ pc' = "ask" /\ UNCHANGED raised
            /\ \E w \in Batches : flight' = w /\ left' = left \ w
         \/ /\ served' \in {served, Lam, Mixed} /\ raised' = TRUE
            /\ UNCHANGED <<fresh, flight, left>>
            /\ pc' = Outer
  BY DEF SetLambda, Turned, Failing, results
<1>2. /\ Plan' = Plan /\ My' = My /\ Lam' = Lam
      /\ visit \in 1 .. Len(Plan) /\ Len(Plan) \in Nat
      /\ Lam \in Values /\ flight = {} /\ got = {}
  <2>1. visit \in 1 .. Len(Plan) /\ Len(Plan) \in Nat
    BY <1>1, PlanType DEF SweepInv, SweepTypeOK, VisitOK
  <2>2. flight = {} /\ got = {}
    BY <1>1 DEF SweepInv, SweepTypeOK, GotOK
  <2>3. QED
    BY <1>1, <2>1, <2>2, Frame, LamType
<1>3. \A l : Recorded(l)' = Recorded(l)
  BY <1>1, FrameRecorded
<1>4. Asked' = Asked
  BY <1>1, FrameAsked
<1>5. /\ left' \cup flight' = left /\ left' \cap flight' = {}
      /\ pc' = "ask" /\ bench # "v2" => left' = {}
      /\ pc' = "ask" \/ flight' = {}
  <2>1. \A w \in Batches : w \subseteq left /\ (bench # "v2" => w = left)
    BY DEF Batches
  <2>2. CASE pc' = "ask" /\ \E w \in Batches : flight' = w /\ left' = left \ w
    BY <2>1, <2>2
  <2>3. CASE pc' = Outer /\ UNCHANGED <<flight, left>>
    BY <1>2, <2>3 DEF Outer
  <2>4. QED
    BY <1>1, <2>2, <2>3
<1>6. pc' \in {"ask", "last", "failed"} /\ (pc' = "failed" => My.last # "always")
  BY <1>1 DEF Outer
<1>7. SweepTypeOK'
  <2>1. served' \in Values \cup {Mixed} /\ fresh' \in BOOLEAN /\ raised' \in BOOLEAN
    BY <1>1, <1>2 DEF SweepInv, SweepTypeOK
  <2>2. QED
    BY <1>1, <1>2, <1>5, <1>6, <2>1 DEF SweepInv, SweepTypeOK
<1>8. AttemptOK' /\ GotOK' /\ AtLamOK'
  <2>1. AttemptOK'
    BY <1>1, <1>6 DEF SweepInv, AttemptOK
  <2>2. GotOK'
    BY <1>1, <1>2 DEF GotOK
  <2>3. pc' = "ask" => served' = Lam
    BY <1>1 DEF Outer
  <2>4. AtLamOK'
    BY <1>2, <1>6, <2>3 DEF AtLamOK
  <2>5. QED
    BY <2>1, <2>2, <2>4
<1>9. VisitOK'
  BY <1>1, <1>2, <1>5, <1>6 DEF VisitOK
<1>10. WindowOK'
  <2>1. /\ left \cap flight = {} /\ (left \cup flight) \cap Recorded(Lam) = {}
        /\ left \subseteq Plan[visit].pieces
    BY <1>1, <1>2 DEF SweepInv, WindowOK, Live
  <2>2. QED
    BY <1>1, <1>2, <1>3, <1>5, <2>1 DEF WindowOK
<1>11. CoveredOK'
  <2>1. ~ raised => Plan[visit].pieces \subseteq left \cup flight \cup Asked \cup Recorded(Lam)
    BY <1>1 DEF SweepInv, CoveredOK
  <2>2. QED
    BY <1>1, <1>2, <1>3, <1>4, <1>5, <1>6, <2>1 DEF CoveredOK
<1>12. PastOK' /\ UniqueOK' /\ RowsOK'
  BY <1>1, <1>2, <1>3, <1>6 DEF SweepInv, PastOK, UniqueOK, Unique, RowsOK, Live
<1>13. DiskOK'
  BY <1>1, <1>2, <1>6 DEF SweepInv, DiskOK, Live
<1>14. HomeOK'
  BY <1>1, <1>2, <1>6 DEF HomeOK, HomeBetweenWindows
<1>15. QED
  BY <1>7, <1>8, <1>9, <1>10, <1>11, <1>12, <1>13, <1>14 DEF SweepInv

\* A row of a prompt in flight is filed: in the window, in memory, or in memory and on
\* disk.
LEMMA KeepInv ==
  ASSUME SweepInv, pc = "ask", NEW p \in flight, NEW ok \in BOOLEAN, Keep(p, ok),
         flight' = flight \ {p},
         UNCHANGED <<bench, server, pc, found, visit, left, attempt, raised, gaveUp>>
  PROVE  SweepInv'
<1> DEFINE row == Row(p, ok)
<1>1. /\ UNCHANGED <<bench, served, fresh, pod, pc, found, visit, left, attempt, raised, gaveUp,
                     cut, report>>
      /\ \/ /\ My.saves = "row" /\ memory' = memory \cup {row} /\ disk' = disk \cup {row}
            /\ UNCHANGED got
         \/ /\ My.saves # "row" /\ memory' = memory \cup {row} /\ UNCHANGED <<disk, got>>
            /\ bench = "compare"
         \/ /\ My.saves # "row" /\ got' = got \cup {row} /\ UNCHANGED <<memory, disk>>
  BY DEF Keep, server, results
<1>2. /\ row.lam = Lam /\ row.prompt = p /\ row.at = served /\ row.ok = ok
      /\ row.fresh = fresh /\ row.pod = pod
  BY DEF Row
<1>3. /\ Plan' = Plan /\ My' = My /\ Lam' = Lam
      /\ visit \in 1 .. Len(Plan) /\ Len(Plan) \in Nat /\ Lam \in Values
  <2>1. visit \in 1 .. Len(Plan) /\ Len(Plan) \in Nat
    BY PlanType DEF SweepInv, SweepTypeOK, VisitOK
  <2>2. QED
    BY <1>1, <2>1, Frame, LamType
<1>4. row \in Rows
  <2>1. p \in Pieces /\ served \in Values \cup {Mixed} /\ fresh \in BOOLEAN /\ pod \in Nat
    BY DEF SweepInv, SweepTypeOK, Pieces
  <2>2. QED
    BY <1>3, <2>1 DEF Row, Rows, Pieces
<1> HIDE DEF row
<1>5. /\ left \cap flight = {} /\ (left \cup flight) \cap Recorded(Lam) = {}
      /\ \A g \in got : g.lam = Lam /\ g.prompt \notin left \cup flight \cup Recorded(Lam)
      /\ \A g, h \in got : g.prompt = h.prompt => g = h
      /\ left \cup flight \subseteq Plan[visit].pieces
      /\ \A g \in got : g.prompt \in Plan[visit].pieces
  BY <1>3 DEF SweepInv, WindowOK, Live
<1>6. p \notin left /\ p \notin Recorded(Lam) /\ p \notin flight'
  BY <1>5
<1>7. /\ \A l : Recorded(l) \subseteq Recorded(l)'
      /\ \A x, l : x \in Recorded(l)' => x \in Recorded(l) \/ (l = Lam /\ x = p)
      /\ UNCHANGED memory => \A l : Recorded(l)' = Recorded(l)
      /\ memory' = memory \cup {row} => p \in Recorded(Lam)'
      /\ got' = got \cup {row} => p \in Asked'
      /\ Asked \subseteq Asked'
  <2>1. \A x, l : x \in Recorded(l)' <=> \E r \in memory' : r.lam = l /\ r.prompt = x
    BY DEF Recorded
  <2>2. \A x, l : x \in Recorded(l) <=> \E r \in memory : r.lam = l /\ r.prompt = x
    BY InRecorded
  <2>3. \A x : x \in Asked' <=> \E r \in got' : r.prompt = x
    BY DEF Asked
  <2>4. \A x : x \in Asked <=> \E r \in got : r.prompt = x
    BY DEF Asked
  <2>5. memory \subseteq memory' /\ memory' \subseteq memory \cup {row} /\ got \subseteq got'
    BY <1>1
  <2>6. /\ \A l : Recorded(l) \subseteq Recorded(l)'
        /\ \A x, l : x \in Recorded(l)' => x \in Recorded(l) \/ (l = Lam /\ x = p)
    BY <1>2, <2>1, <2>2, <2>5
  <2>7. UNCHANGED memory => \A l : Recorded(l)' = Recorded(l)
    BY FrameRecorded
  <2>8. memory' = memory \cup {row} => p \in Recorded(Lam)'
    BY <1>2, <1>3, <2>1
  <2>9. (got' = got \cup {row} => p \in Asked') /\ Asked \subseteq Asked'
    BY <1>2, <2>3, <2>4, <2>5
  <2>10. QED
    BY <2>6, <2>7, <2>8, <2>9
<1>8. SweepTypeOK'
  BY <1>1, <1>3, <1>4 DEF SweepInv, SweepTypeOK
<1>9. AttemptOK' /\ VisitOK' /\ GotOK' /\ AtLamOK'
  BY <1>1, <1>3 DEF SweepInv, AttemptOK, VisitOK, GotOK, AtLamOK
<1>10. WindowOK'
  <2>1. left' \cap flight' = {} /\ (left' \cup flight') \cap Recorded(Lam)' = {}
    BY <1>1, <1>3, <1>5, <1>6, <1>7
  <2>2. \A g \in got' : g.lam = Lam /\ g.prompt \notin left' \cup flight' \cup Recorded(Lam)'
    <3>1. CASE UNCHANGED got
      BY <1>1, <1>3, <1>5, <1>7, <3>1
    <3>2. CASE got' = got \cup {row} /\ UNCHANGED memory
      BY <1>1, <1>2, <1>3, <1>5, <1>6, <1>7, <3>2
    <3>3. QED
      BY <1>1, <3>1, <3>2
  <2>3. \A g, h \in got' : g.prompt = h.prompt => g = h
    BY <1>1, <1>2, <1>5
  <2>4. /\ left' \cup flight' \subseteq Plan[visit].pieces
        /\ \A g \in got' : g.prompt \in Plan[visit].pieces
    BY <1>1, <1>2, <1>5
  <2>5. QED
    BY <1>1, <1>3, <2>1, <2>2, <2>3, <2>4 DEF WindowOK
<1>11. CoveredOK'
  BY <1>1, <1>3, <1>7 DEF SweepInv, CoveredOK
<1>12. PastOK'
  BY <1>1, <1>3, <1>7 DEF SweepInv, PastOK, Live
<1>13. UniqueOK'
  <2>1. \A r \in memory : ~ (r.lam = row.lam /\ r.prompt = row.prompt)
    BY <1>2, <1>6, InRecorded
  <2>2. Unique(memory)'
    BY <1>1, <2>1 DEF SweepInv, UniqueOK, Unique
  <2>3. My.saves = "row" => disk \subseteq memory
    BY DEF SweepInv, DiskOK, Live
  <2>4. Unique(disk)'
    BY <1>1, <2>1, <2>3 DEF SweepInv, UniqueOK, Unique
  <2>5. QED
    BY <2>2, <2>4 DEF UniqueOK
<1>14. DiskOK'
  <2>1. OfThisWindow(row)
    BY <1>2, <1>3, <1>5 DEF OfThisWindow
  <2>2. \A r : OfThisWindow(r)' <=> OfThisWindow(r)
    BY <1>1, FrameWindow
  <2>3. My.saves = "window" => \A r \in memory' \ disk' : bench = "compare" /\ OfThisWindow(r)
    BY <1>1, <2>1 DEF SweepInv, DiskOK, Live
  <2>4. QED
    BY <1>1, <1>3, <2>2, <2>3 DEF SweepInv, DiskOK, Live
<1>15. RowsOK'
  <2>1. ok /\ ~ fresh => served = Lam
    BY DEF SweepInv, AtLamOK
  <2>2. QED
    BY <1>1, <1>2, <2>1 DEF SweepInv, RowsOK, Live
<1>16. HomeOK'
  BY <1>1 DEF HomeOK, HomeBetweenWindows
<1>17. QED
  BY <1>8, <1>9, <1>10, <1>11, <1>12, <1>13, <1>14, <1>15, <1>16 DEF SweepInv

LEMMA AnswersInv == ASSUME NEW p \in flight PROVE SweepInv /\ Answers(p) => SweepInv'
<1> SUFFICES ASSUME SweepInv, Answers(p) PROVE SweepInv'
  OBVIOUS
<1>1. CASE pc = "ask"
  BY <1>1, KeepInv DEF Answers
<1>2. CASE pc = "drain"
  <2>1. /\ flight' = flight \ {p}
        /\ UNCHANGED <<bench, served, fresh, pod, pc, found, visit, left, got, attempt, memory,
                       disk, cut, report, raised, gaveUp>>
    BY <1>2 DEF Answers, server, results
  <2>2. Plan' = Plan /\ My' = My /\ Lam' = Lam /\ Asked' = Asked
    BY <2>1, Frame, FrameAsked
  <2>3. \A l : Recorded(l)' = Recorded(l)
    BY <2>1, FrameRecorded
  <2>4. SweepTypeOK' /\ AttemptOK' /\ VisitOK' /\ GotOK' /\ AtLamOK'
    BY <1>2, <2>1, <2>2
       DEF SweepInv, SweepTypeOK, AttemptOK, VisitOK, GotOK, AtLamOK
  <2>5. WindowOK' /\ PastOK'
    BY <2>1, <2>2, <2>3 DEF SweepInv, WindowOK, PastOK, Live
  <2>6. CoveredOK' /\ UniqueOK' /\ DiskOK' /\ RowsOK' /\ HomeOK'
    BY <1>2, <2>1, <2>2, FrameWindow
       DEF SweepInv, CoveredOK, UniqueOK, Unique, DiskOK, RowsOK, HomeOK, HomeBetweenWindows, Live
  <2>7. QED
    BY <2>4, <2>5, <2>6 DEF SweepInv
<1>3. QED
  BY <1>1, <1>2 DEF Answers

\* An exception leaves a window, with requests in flight only towards the drain.
LEMMA RaiseInv ==
  ASSUME SweepInv, pc = "ask", raised' = TRUE, got' = {},
         UNCHANGED <<bench, server, found, visit, left, attempt, results, gaveUp>>,
         \/ pc' = "drain" /\ UNCHANGED flight
         \/ pc' = Inner /\ flight' = {}
  PROVE  SweepInv'
<1>1. /\ UNCHANGED <<bench, served, fresh, pod, found, visit, left, attempt, memory, disk, cut,
                     report, gaveUp>>
      /\ flight' \subseteq flight
      /\ flight' # {} => pc' = "drain"
      /\ pc' \in {"drain", "home", "last", "failed"}
      /\ pc' = "failed" => My.last # "always"
  BY DEF server, results, Inner, Outer
<1>2. Plan' = Plan /\ My' = My /\ Lam' = Lam
  BY <1>1, Frame
<1>3. \A l : Recorded(l)' = Recorded(l)
  BY <1>1, FrameRecorded
<1>4. SweepTypeOK'
  BY <1>1, <1>2 DEF SweepInv, SweepTypeOK
<1>5. AttemptOK' /\ VisitOK' /\ GotOK' /\ AtLamOK'
  BY <1>1, <1>2 DEF SweepInv, AttemptOK, VisitOK, GotOK, AtLamOK
<1>6. WindowOK' /\ PastOK'
  BY <1>1, <1>2, <1>3 DEF SweepInv, WindowOK, PastOK, Live
<1>7. CoveredOK' /\ UniqueOK' /\ DiskOK' /\ RowsOK'
  BY <1>1, <1>2, FrameWindow DEF SweepInv, CoveredOK, UniqueOK, Unique, DiskOK, RowsOK, Live
<1>8. HomeOK'
  BY <1>1, <1>2 DEF HomeOK, HomeBetweenWindows
<1>9. QED
  BY <1>4, <1>5, <1>6, <1>7, <1>8 DEF SweepInv

LEMMA AnswerFailsInv ==
  ASSUME NEW p \in flight PROVE SweepInv /\ AnswerFails(p) => SweepInv'
<1> SUFFICES ASSUME SweepInv, AnswerFails(p) PROVE SweepInv'
  OBVIOUS
<1>1. CASE My.swallows
  BY <1>1, KeepInv DEF AnswerFails
<1>2. CASE ~ My.swallows
  BY <1>2, RaiseInv DEF AnswerFails
<1>3. QED
  BY <1>1, <1>2

LEMMA InterruptInv == SweepInv /\ Interrupt => SweepInv'
BY RaiseInv DEF Interrupt

LEMMA ContaminatedInv == SweepInv /\ Contaminated => SweepInv'
<1> SUFFICES ASSUME SweepInv, Contaminated PROVE SweepInv'
  OBVIOUS
<1>1. /\ bench = "compare" /\ pc = "ask" /\ pc' = "home"
      /\ left' = flight /\ flight' = {} /\ attempt' = attempt + 1
      /\ UNCHANGED <<bench, served, fresh, pod, found, visit, got, memory, disk, cut, report,
                     raised, gaveUp>>
  BY DEF Contaminated, server, results
<1>2. Plan' = Plan /\ My' = My /\ Lam' = Lam /\ Asked' = Asked
  BY <1>1, Frame, FrameAsked
<1>3. \A l : Recorded(l)' = Recorded(l)
  BY <1>1, FrameRecorded
<1>4. attempt' \in 0 .. MaxAttempts + 1
  BY <1>1, SweepAssumption DEF SweepInv, SweepTypeOK, AttemptOK
<1>5. SweepTypeOK'
  BY <1>1, <1>2, <1>4 DEF SweepInv, SweepTypeOK
<1>6. AttemptOK' /\ VisitOK' /\ GotOK' /\ AtLamOK'
  BY <1>1, <1>2 DEF SweepInv, AttemptOK, VisitOK, GotOK, AtLamOK
<1>7. WindowOK' /\ PastOK'
  BY <1>1, <1>2, <1>3 DEF SweepInv, WindowOK, PastOK, Live
<1>8. CoveredOK'
  <2>1. /\ ~ raised => Plan[visit].pieces \subseteq left \cup flight \cup Asked \cup Recorded(Lam)
        /\ left = {}
    BY <1>1 DEF SweepInv, CoveredOK, VisitOK
  <2>2. QED
    BY <1>1, <1>2, <1>3, <2>1 DEF CoveredOK
<1>9. UniqueOK' /\ DiskOK' /\ RowsOK' /\ HomeOK'
  BY <1>1, <1>2, FrameWindow
     DEF SweepInv, UniqueOK, Unique, DiskOK, RowsOK, HomeOK, HomeBetweenWindows, Live
<1>10. QED
  BY <1>5, <1>6, <1>7, <1>8, <1>9 DEF SweepInv

\* A window closes: what was answered in it is recorded.
LEMMA CloseInv ==
  ASSUME SweepInv, pc \in {"ask", "home"}, flight = {}, Close,
         UNCHANGED <<bench, pod, found, left, flight, attempt, raised>>,
         served' \in Values \cup {Mixed}, fresh' \in BOOLEAN, gaveUp' \in BOOLEAN,
         My.inner /\ My.home = "found" /\ ~ gaveUp' /\ ~ fresh' => served' = found
  PROVE  SweepInv'
<1>1. /\ memory' = memory \cup got /\ got' = {} /\ UNCHANGED report
      /\ \/ /\ pc' = "save" /\ UNCHANGED visit
            /\ disk' \subseteq disk /\ cut' \in BOOLEAN
            /\ My.saves = "row" => \A r \in disk \ disk' : r.lam = Lam
            /\ My.saves # "row" => disk' = disk
         \/ /\ raised /\ pc' = Outer /\ UNCHANGED <<disk, cut, visit>>
         \/ /\ ~ raised /\ bench \notin {"v2", "compare"}
            /\ pc' = "next" /\ visit' = visit + 1 /\ UNCHANGED <<disk, cut>>
  <2>1. Truncate => /\ disk' \subseteq disk /\ cut' \in BOOLEAN
                    /\ My.saves = "row" => \A r \in disk \ disk' : r.lam = Lam
                    /\ My.saves # "row" => disk' = disk
    BY DEF Truncate
  <2>2. QED
    BY <2>1 DEF Close
<1>2. pc' \in {"save", "last", "failed", "next"} /\ (pc' = "failed" => My.last # "always")
  BY <1>1 DEF Outer
<1>3. /\ Plan' = Plan /\ My' = My /\ Lam' = Plan[visit'].lam /\ (visit' = visit => Lam' = Lam)
      /\ visit \in 1 .. Len(Plan) /\ Len(Plan) \in Nat /\ MaxAttempts \in Nat
  <2>1. visit \in 1 .. Len(Plan) /\ Len(Plan) \in Nat
    BY PlanType DEF SweepInv, SweepTypeOK, VisitOK
  <2>2. QED
    BY <2>1, Frame, SweepAssumption
<1>4. /\ (left \cup flight) \cap Recorded(Lam) = {}
      /\ \A g \in got : g.lam = Lam /\ g.prompt \notin left \cup flight \cup Recorded(Lam)
      /\ \A g, h \in got : g.prompt = h.prompt => g = h
      /\ left \cup flight \subseteq Plan[visit].pieces
      /\ \A g \in got : g.prompt \in Plan[visit].pieces
  BY <1>3 DEF SweepInv, WindowOK, Live
<1>5. /\ \A l : Recorded(l) \subseteq Recorded(l)'
      /\ \A l : l = Lam => /\ Recorded(l)' \subseteq Recorded(l) \cup Asked
                           /\ Asked \subseteq Recorded(l)'
  <2>1. \A x, l : x \in Recorded(l)' <=> \E r \in memory' : r.lam = l /\ r.prompt = x
    BY DEF Recorded
  <2>2. \A x, l : x \in Recorded(l) <=> \E r \in memory : r.lam = l /\ r.prompt = x
    BY InRecorded
  <2>3. \A x : x \in Asked <=> \E g \in got : g.prompt = x
    BY DEF Asked
  <2>4. QED
    BY <1>1, <1>4, <2>1, <2>2, <2>3
<1>6. SweepTypeOK'
  <2>1. visit' \in 1 .. Len(Plan) + 1
    BY <1>1, <1>3
  <2>2. memory' \subseteq Rows /\ disk' \subseteq Rows /\ cut' \in BOOLEAN
    BY <1>1 DEF SweepInv, SweepTypeOK
  <2>3. QED
    BY <1>1, <1>3, <2>1, <2>2 DEF SweepInv, SweepTypeOK
<1>7. AttemptOK'
  <2>1. bench # "compare" => attempt = 0
    BY DEF SweepInv, AttemptOK
  <2>2. pc' = "next" => bench # "compare"
    BY <1>1 DEF Outer
  <2>3. QED
    BY <1>2, <1>3, <2>1, <2>2 DEF AttemptOK
<1>8. VisitOK'
  <2>1. pc' = "next" => left = {}
    BY <1>1, <1>2 DEF SweepInv, VisitOK, Outer
  <2>2. pc' = "last" => raised'
    BY <1>1, <1>2
  <2>3. pc' = "save" => visit' = visit
    BY <1>1 DEF Outer
  <2>4. QED
    BY <1>2, <1>3, <2>1, <2>2, <2>3 DEF VisitOK
<1>9. GotOK' /\ AtLamOK'
  BY <1>1, <1>2 DEF GotOK, AtLamOK
<1>10. WindowOK'
  <2>1. CASE visit' = visit
    BY <1>1, <1>3, <1>4, <1>5, <2>1 DEF WindowOK, Asked
  <2>2. CASE pc' = "next"
    <3>1. left = {}
      BY <1>1, <1>2, <2>2 DEF SweepInv, VisitOK, Outer
    <3>2. QED
      BY <1>1, <3>1 DEF WindowOK
  <2>3. QED
    BY <1>1, <2>1, <2>2
<1>11. ~ raised => Plan[visit].pieces \subseteq left \cup Asked \cup Recorded(Lam)
  BY DEF SweepInv, CoveredOK
<1>12. CoveredOK'
  <2>1. pc' = "save" => visit' = visit
    BY <1>1 DEF Outer
  <2>2. QED
    BY <1>2, <1>3, <1>5, <1>11, <2>1 DEF CoveredOK
<1>13. PastOK'
  <2>1. \A v \in 1 .. visit - 1 : \A l :
          l = Plan[v].lam => Plan[v].pieces \subseteq Recorded(l)'
    BY <1>5 DEF SweepInv, PastOK, Live
  <2>2. CASE visit' = visit
    BY <1>3, <2>1, <2>2 DEF PastOK
  <2>3. CASE ~ raised /\ pc' = "next" /\ visit' = visit + 1 /\ bench \notin {"v2", "compare"}
    <3>1. left = {}
      BY <2>3 DEF SweepInv, VisitOK
    <3>2. \A l : l = Plan[visit].lam => Plan[visit].pieces \subseteq Recorded(l)'
      BY <1>5, <1>11, <2>3, <3>1 DEF Lam
    <3>3. QED
      BY <1>3, <2>1, <2>3, <3>2 DEF PastOK
  <2>4. QED
    BY <1>1, <2>2, <2>3
<1>14. UniqueOK'
  <2>1. \A g \in got, r \in memory : ~ (r.lam = g.lam /\ r.prompt = g.prompt)
    BY <1>4, InRecorded
  <2>2. Unique(memory)'
    BY <1>1, <1>4, <2>1 DEF SweepInv, UniqueOK, Unique
  <2>3. Unique(disk)'
    BY <1>1 DEF SweepInv, UniqueOK, Unique
  <2>4. QED
    BY <2>2, <2>3 DEF UniqueOK
<1>15. DiskOK'
  <2>1. My.saves = "row" => got = {} /\ disk \subseteq memory /\ memory \subseteq disk
    BY DEF SweepInv, GotOK, DiskOK, Live
  <2>2. My.saves = "window" => bench \in {"v2", "compare"}
    BY BenchTable DEF SweepInv, SweepTypeOK
  <2>3. pc' \in {"next", "last"} => disk' = disk
    BY <1>1 DEF Outer
  <2>4. pc' = "next" => bench \notin {"v2", "compare"}
    BY <1>1 DEF Outer
  <2>5. CASE My.saves = "row"
    <3>1. pc' = "save" => Lam' = Lam /\ \A r \in disk \ disk' : r.lam = Lam
      BY <1>1, <1>3, <2>5 DEF Outer
    <3>2. disk' \subseteq disk /\ memory' = memory
      BY <1>1, <2>1, <2>5
    <3>3. QED
      BY <1>2, <1>3, <2>1, <2>3, <2>5, <3>1, <3>2 DEF DiskOK, Live
  <2>6. CASE My.saves = "window"
    <3>1. pc' \in {"save", "last", "failed"}
      BY <1>2, <2>2, <2>4, <2>6
    <3>2. CASE pc' = "last"
      <4>1. bench = "compare"
        BY <1>1, <2>2, <2>6, <3>2 DEF Close, Outer
      <4>2. UNCHANGED <<disk, cut, visit>>
        BY <1>1, <3>2 DEF Outer
      <4>3. \A r \in got : OfThisWindow(r)
        BY <1>3, <1>4 DEF OfThisWindow
      <4>4. ~ cut /\ \A r \in memory \ disk : OfThisWindow(r)
        BY <2>6 DEF SweepInv, DiskOK, Live
      <4>5. \A r : OfThisWindow(r)' <=> OfThisWindow(r)
        BY <4>2, FrameWindow
      <4>6. \A r \in memory' \ disk' : OfThisWindow(r)'
        BY <1>1, <4>2, <4>3, <4>4, <4>5
      <4>7. QED
        BY <1>3, <2>6, <3>2, <4>1, <4>2, <4>4, <4>6 DEF DiskOK
    <3>3. CASE pc' \in {"save", "failed"}
      BY <1>3, <2>6, <3>3 DEF DiskOK, Live
    <3>4. QED
      BY <3>1, <3>2, <3>3
  <2>7. QED
    BY <1>3, <2>5, <2>6 DEF DiskOK
<1>16. RowsOK'
  <2>1. memory' \cup got' = memory \cup got /\ disk' \subseteq disk
    BY <1>1
  <2>2. QED
    BY <2>1 DEF SweepInv, RowsOK, Live
<1>17. HomeOK'
  BY <1>2, <1>3 DEF HomeOK, HomeBetweenWindows
<1>18. QED
  BY <1>6, <1>7, <1>8, <1>9, <1>10, <1>12, <1>13, <1>14, <1>15, <1>16, <1>17 DEF SweepInv

LEMMA WindowDoneInv == SweepInv /\ WindowDone => SweepInv'
<1> SUFFICES ASSUME SweepInv, WindowDone PROVE SweepInv'
  OBVIOUS
<1>1. CASE My.inner
  <2>1. /\ pc = "ask" /\ flight = {} /\ pc' = "home"
        /\ UNCHANGED <<bench, found, visit, window, memory, disk, cut, report>>
        /\ UNCHANGED <<left, flight, got, attempt, served, fresh, pod, raised, gaveUp>>
    BY <1>1 DEF WindowDone, server, results, window
  <2>2. /\ Plan' = Plan /\ My' = My /\ Lam' = Lam
        /\ WindowOK' /\ PastOK' /\ UniqueOK'
        /\ Recorded(Lam)' = Recorded(Lam) /\ Asked' = Asked
    BY <2>1, QuietStep DEF Live
  <2>3. SweepTypeOK'
    BY <2>1, <2>2 DEF SweepInv, SweepTypeOK
  <2>4. AttemptOK' /\ VisitOK' /\ GotOK' /\ AtLamOK'
    BY <2>1, <2>2 DEF SweepInv, AttemptOK, VisitOK, GotOK, AtLamOK
  <2>5. CoveredOK' /\ DiskOK' /\ RowsOK' /\ HomeOK'
    BY <2>1, <2>2, FrameWindow
       DEF SweepInv, CoveredOK, DiskOK, RowsOK, HomeOK, HomeBetweenWindows, Live
  <2>6. QED
    BY <2>2, <2>3, <2>4, <2>5 DEF SweepInv
<1>2. CASE ~ My.inner
  <2>1. /\ pc = "ask" /\ flight = {} /\ Close
        /\ UNCHANGED <<bench, served, fresh, pod, found, left, flight, attempt, raised, gaveUp>>
    BY <1>2 DEF WindowDone, server
  <2>2. served \in Values \cup {Mixed} /\ fresh \in BOOLEAN /\ gaveUp \in BOOLEAN
    BY DEF SweepInv, SweepTypeOK
  <2>3. QED
    BY <1>2, <2>1, <2>2, CloseInv
<1>3. QED
  BY <1>1, <1>2

LEMMA RestoreInv == SweepInv /\ Restore => SweepInv'
<1> SUFFICES ASSUME SweepInv, Restore PROVE SweepInv'
  OBVIOUS
<1>1. /\ pc = "home" /\ flight = {} /\ bench \in Benches
      /\ UNCHANGED <<bench, found, left, flight, attempt>>
      /\ served \in Values \cup {Mixed} /\ fresh \in BOOLEAN /\ gaveUp \in BOOLEAN
      /\ found \in Values \cup {Mixed}
  BY DEF Restore, SweepInv, SweepTypeOK
<1>2. Home \in Values \cup {Mixed} /\ (My.home = "found" => Home = found)
  BY <1>1, HomeType DEF Home
<1>3. CASE /\ IF ComesHome THEN Turned(Home) ELSE UNCHANGED server
           /\ Close /\ UNCHANGED <<raised, gaveUp, faults>>
  <2>1. CASE ComesHome
    <3>1. served' = Home /\ fresh' = FALSE /\ UNCHANGED pod
      BY <1>3, <2>1 DEF Turned
    <3>2. QED
      BY <1>1, <1>2, <1>3, <3>1, CloseInv
  <2>2. CASE ~ ComesHome
    <3>1. UNCHANGED <<served, fresh, pod>>
      BY <1>3, <2>2 DEF server
    <3>2. My.inner => Lam = found
      BY <2>2 DEF ComesHome
    <3>3. My.inner /\ ~ fresh => served = found
      BY <1>1, <3>2 DEF SweepInv, AtLamOK
    <3>4. QED
      BY <1>1, <1>3, <3>1, <3>3, CloseInv
  <2>3. QED
    BY <2>1, <2>2
<1>4. CASE Failing(Home) /\ gaveUp' = TRUE /\ Close /\ UNCHANGED raised
  <2>1. served' \in Values \cup {Mixed} /\ UNCHANGED <<fresh, pod>>
    BY <1>1, <1>2, <1>4 DEF Failing
  <2>2. QED
    BY <1>1, <1>4, <2>1, CloseInv
<1>5. CASE /\ Failing(Home) /\ gaveUp' = TRUE
           /\ raised' = TRUE /\ pc' = "last" /\ got' = {}
           /\ UNCHANGED <<visit, results>>
  <2>1. /\ served' \in Values \cup {Mixed}
        /\ UNCHANGED <<fresh, pod, visit, memory, disk, cut, report>>
    BY <1>1, <1>2, <1>5 DEF Failing, results
  <2>2. Plan' = Plan /\ My' = My /\ Lam' = Lam
    BY <1>1, <2>1, Frame
  <2>3. \A l : Recorded(l)' = Recorded(l)
    BY <2>1, FrameRecorded
  <2>4. SweepTypeOK'
    BY <1>1, <1>5, <2>1, <2>2 DEF SweepInv, SweepTypeOK
  <2>5. AttemptOK' /\ VisitOK' /\ GotOK' /\ AtLamOK'
    BY <1>1, <1>5, <2>1, <2>2 DEF SweepInv, AttemptOK, VisitOK, GotOK, AtLamOK
  <2>6. WindowOK' /\ PastOK' /\ CoveredOK' /\ UniqueOK'
    BY <1>1, <1>5, <2>1, <2>2, <2>3
       DEF SweepInv, WindowOK, PastOK, CoveredOK, UniqueOK, Unique, Live
  <2>7. DiskOK' /\ RowsOK' /\ HomeOK'
    BY <1>1, <1>5, <2>1, <2>2, FrameWindow
       DEF SweepInv, DiskOK, RowsOK, HomeOK, HomeBetweenWindows, Live
  <2>8. QED
    BY <2>4, <2>5, <2>6, <2>7 DEF SweepInv
<1>6. QED
  BY <1>3, <1>4, <1>5 DEF Restore

LEMMA SaveInv == SweepInv /\ Save => SweepInv'
<1> SUFFICES ASSUME SweepInv, Save PROVE SweepInv'
  OBVIOUS
<1>1. /\ pc = "save" /\ disk' = memory /\ cut' = FALSE /\ report' = TRUE
      /\ UNCHANGED <<bench, served, fresh, pod, found, left, flight, got, memory, gaveUp>>
      /\ flight = {} /\ got = {}
  BY DEF Save, SweepInv, SweepTypeOK, GotOK, server
<1>2. \/ /\ raised /\ pc' = Outer /\ UNCHANGED <<visit, attempt, raised>>
      \/ /\ ~ raised /\ left = {} /\ pc' = "next" /\ visit' = visit + 1 /\ attempt' = 0
         /\ UNCHANGED raised
      \/ pc' = "last" /\ raised' = TRUE /\ UNCHANGED <<visit, attempt>>
      \/ /\ ~ raised /\ pc' \in {"wait", "set"} /\ UNCHANGED <<visit, attempt, raised>>
         /\ bench = "compare" => ~ (attempt > MaxAttempts)
  BY DEF Save
<1>3. pc' \in {"wait", "set", "next", "last", "failed"} /\ (pc' = "failed" => My.last # "always")
  BY <1>2 DEF Outer
<1>4. /\ Plan' = Plan /\ My' = My /\ (visit' = visit => Lam' = Lam)
      /\ visit \in 1 .. Len(Plan) /\ Len(Plan) \in Nat /\ MaxAttempts \in Nat
  <2>1. visit \in 1 .. Len(Plan) /\ Len(Plan) \in Nat
    BY <1>1, PlanType DEF SweepInv, SweepTypeOK, VisitOK
  <2>2. QED
    BY <1>1, <2>1, Frame, SweepAssumption
<1>5. /\ \A l : Recorded(l)' = Recorded(l)
      /\ Asked' = Asked /\ Asked = {}
  BY <1>1, FrameRecorded, FrameAsked DEF Asked
<1>6. SweepTypeOK'
  <2>1. visit' \in 1 .. Len(Plan) + 1
    BY <1>2, <1>4
  <2>2. attempt' \in 0 .. MaxAttempts + 1
    BY <1>2, <1>4 DEF SweepInv, SweepTypeOK
  <2>3. raised' \in BOOLEAN
    <3>1. raised' = raised \/ raised' = TRUE
      BY <1>2
    <3>2. QED
      BY <3>1 DEF SweepInv, SweepTypeOK
  <2>4. QED
    BY <1>1, <1>4, <2>1, <2>2, <2>3 DEF SweepInv, SweepTypeOK
<1>7. AttemptOK'
  <2>1. /\ bench # "compare" => attempt = 0
        /\ attempt \in Nat
    BY <1>4 DEF SweepInv, AttemptOK, SweepTypeOK
  <2>2. attempt' = attempt \/ attempt' = 0
    BY <1>2
  <2>3. pc' \in {"off", "next", "wait", "set", "ask"} => attempt' <= MaxAttempts
    BY <1>2, <1>3, <1>4, <2>1 DEF Outer
  <2>4. QED
    BY <1>1, <2>1, <2>2, <2>3 DEF AttemptOK
<1>8. VisitOK'
  <2>1. pc' = "next" => left = {}
    BY <1>2 DEF Outer
  <2>2. pc' = "last" => raised'
    BY <1>2
  <2>3. pc' \in {"wait", "set"} => visit' = visit
    BY <1>2 DEF Outer
  <2>4. QED
    BY <1>1, <1>3, <1>4, <2>1, <2>2, <2>3 DEF VisitOK
<1>9. GotOK' /\ AtLamOK'
  BY <1>1, <1>3 DEF GotOK, AtLamOK
<1>10. WindowOK'
  <2>1. CASE visit' = visit
    BY <1>1, <1>4, <1>5, <2>1 DEF SweepInv, WindowOK, Live
  <2>2. CASE left = {}
    BY <1>1, <2>2 DEF WindowOK
  <2>3. QED
    BY <1>2, <2>1, <2>2
<1>11. ~ raised => Plan[visit].pieces \subseteq left \cup Recorded(Lam)
  BY <1>1, <1>5 DEF SweepInv, CoveredOK
<1>12. CoveredOK'
  <2>1. pc' \in {"wait", "set"} => visit' = visit /\ ~ raised
    BY <1>2 DEF Outer
  <2>2. QED
    BY <1>1, <1>3, <1>4, <1>5, <1>11, <2>1 DEF CoveredOK
<1>13. PastOK'
  <2>1. \A v \in 1 .. visit - 1 : Plan[v].pieces \subseteq Recorded(Plan[v].lam)
    BY <1>1 DEF SweepInv, PastOK, Live
  <2>2. CASE visit' = visit
    BY <1>4, <1>5, <2>1, <2>2 DEF PastOK
  <2>3. CASE ~ raised /\ left = {} /\ visit' = visit + 1
    <3>1. Plan[visit].pieces \subseteq Recorded(Plan[visit].lam)
      BY <1>11, <2>3 DEF Lam
    <3>2. QED
      BY <1>4, <1>5, <2>1, <2>3, <3>1 DEF PastOK
  <2>4. QED
    BY <1>2, <2>2, <2>3
<1>14. UniqueOK' /\ DiskOK'
  <2>1. UniqueOK'
    BY <1>1 DEF SweepInv, UniqueOK, Unique
  <2>2. memory' = disk' /\ cut' = FALSE /\ pc' \notin {"save", "write"}
    BY <1>1, <1>3
  <2>3. QED
    BY <1>4, <2>1, <2>2 DEF DiskOK
<1>15. RowsOK'
  BY <1>1 DEF SweepInv, RowsOK, Live
<1>16. HomeOK'
  BY <1>1, <1>3, <1>4 DEF SweepInv, HomeOK, HomeBetweenWindows
<1>17. QED
  BY <1>6, <1>7, <1>8, <1>9, <1>10, <1>12, <1>13, <1>14, <1>15, <1>16 DEF SweepInv

LEMMA RestoreLastInv == SweepInv /\ RestoreLast => SweepInv'
<1> SUFFICES ASSUME SweepInv, RestoreLast PROVE SweepInv'
  OBVIOUS
<1>1. /\ pc = "last" /\ bench \in Benches /\ raised \in BOOLEAN
      /\ UNCHANGED <<bench, found, visit, left, flight, got, attempt, memory, disk, report>>
      /\ served \in Values \cup {Mixed} /\ fresh \in BOOLEAN /\ cut \in BOOLEAN
      /\ found \in Values \cup {Mixed}
      /\ flight = {} /\ got = {}
  BY DEF RestoreLast, SweepInv, SweepTypeOK, GotOK, window
<1>2. Home \in Values \cup {Mixed} /\ Home' = Home
  BY <1>1, HomeType, Frame
<1>3. /\ served' \in Values \cup {Mixed} /\ fresh' \in BOOLEAN /\ UNCHANGED pod
      /\ gaveUp' \in BOOLEAN /\ (~ gaveUp' => served' = Home)
  BY <1>1, <1>2 DEF RestoreLast, Turned, Failing
<1>4. /\ pc' \in {"write", "ended", "failed"} /\ cut' \in BOOLEAN /\ raised' \in BOOLEAN
      /\ \/ raised' = raised /\ (pc' = "ended" => ~ raised)
         \/ raised' = TRUE /\ pc' = "failed"
  BY <1>1 DEF RestoreLast, Finish
<1>5. Plan' = Plan /\ My' = My /\ Lam' = Lam
  BY <1>1, Frame
<1>6. \A l : Recorded(l)' = Recorded(l)
  BY <1>1, FrameRecorded
<1>7. SweepTypeOK'
  BY <1>1, <1>3, <1>4, <1>5 DEF SweepInv, SweepTypeOK
<1>8. AttemptOK' /\ VisitOK' /\ GotOK' /\ AtLamOK'
  BY <1>1, <1>4, <1>5 DEF SweepInv, AttemptOK, VisitOK, GotOK, AtLamOK
<1>9. WindowOK' /\ PastOK' /\ CoveredOK' /\ UniqueOK'
  BY <1>1, <1>4, <1>5, <1>6
     DEF SweepInv, WindowOK, PastOK, CoveredOK, UniqueOK, Unique, Live
<1>10. DiskOK' /\ RowsOK'
  <2>1. My.saves = "row" => pc' # "write"
    BY <1>1 DEF RestoreLast, Finish
  <2>2. DiskOK'
    BY <1>4, <1>5, <2>1 DEF DiskOK, Live
  <2>3. QED
    BY <1>1, <1>3, <1>4, <1>5, <2>2 DEF SweepInv, RowsOK, Live
<1>11. HomeOK'
  BY <1>2, <1>3, <1>4 DEF HomeOK, HomeBetweenWindows
<1>12. QED
  BY <1>7, <1>8, <1>9, <1>10, <1>11 DEF SweepInv

LEMMA WriteInv == SweepInv /\ Write => SweepInv'
<1> SUFFICES ASSUME SweepInv, Write PROVE SweepInv'
  OBVIOUS
<1>1. /\ pc = "write" /\ disk' = memory /\ cut' = FALSE /\ report' = TRUE
      /\ UNCHANGED <<bench, served, fresh, pod, found, visit, left, flight, got, attempt, memory,
                     raised, gaveUp>>
      /\ pc' \in {"ended", "failed"} /\ (pc' = "ended" => ~ raised)
      /\ flight = {} /\ got = {}
  BY DEF Write, SweepInv, SweepTypeOK, GotOK, server, window
<1>2. Plan' = Plan /\ My' = My /\ Lam' = Lam /\ Home' = Home
  BY <1>1, Frame
<1>3. \A l : Recorded(l)' = Recorded(l)
  BY <1>1, FrameRecorded
<1>4. SweepTypeOK'
  BY <1>1, <1>2 DEF SweepInv, SweepTypeOK
<1>5. AttemptOK' /\ VisitOK' /\ GotOK' /\ AtLamOK'
  BY <1>1, <1>2 DEF SweepInv, AttemptOK, VisitOK, GotOK, AtLamOK
<1>6. WindowOK' /\ PastOK' /\ CoveredOK' /\ UniqueOK'
  BY <1>1, <1>2, <1>3
     DEF SweepInv, WindowOK, PastOK, CoveredOK, UniqueOK, Unique, Live
<1>7. DiskOK' /\ RowsOK' /\ HomeOK'
  BY <1>1, <1>2
     DEF SweepInv, DiskOK, RowsOK, HomeOK, HomeBetweenWindows, Live
<1>8. QED
  BY <1>4, <1>5, <1>6, <1>7 DEF SweepInv

LEMMA SweepNextInv == SweepInv /\ [SweepNext]_sweepVars => SweepInv'
<1> SUFFICES ASSUME SweepInv, [SweepNext]_sweepVars PROVE SweepInv'
  OBVIOUS
<1>1. CASE Step
  <2>1. ASSUME NEW resume \in BOOLEAN, Start(resume) PROVE SweepInv'
    BY <2>1, StartInv
  <2>2. ASSUME NEW p \in flight, Answers(p) PROVE SweepInv'
    BY <2>2, AnswersInv
  <2>3. QED
    BY <1>1, <2>1, <2>2, NextVisitInv, IdleInv, SetLambdaInv, WindowDoneInv, DrainedInv,
       ContaminatedInv, RestoreInv, SaveInv, RestoreLastInv, WriteInv
       DEF Step
<1>2. CASE World
  <2>1. ASSUME NEW p \in flight, AnswerFails(p) PROVE SweepInv'
    BY <2>1, AnswerFailsInv
  <2>2. QED
    BY <1>2, <2>1, WaitBreaksInv, InterruptInv, KillInv, AgainInv, ServerRestartsInv,
       PodRollsInv, ByHandInv
       DEF World
<1>3. QED
  BY <1>1, <1>2, StutterInv DEF SweepNext

\* The invariant holds of every run of every bench of the table.
LEMMA SweepInvariance == SweepSpec => []SweepInv
BY SweepInitInv, SweepNextInv, PTL DEF SweepSpec

-----------------------------------------------------------------------------
\* A row filed under a lambda was answered at it, unless the server restarted in its
\* window, and v2 compares rows of one pod (correr_ventana, set_lambda, --resume).
THEOREM TrueRows == SweepSpec => []RowsAtTheirLambda
<1>1. SweepInv => RowsAtTheirLambda
  BY DEF SweepInv, SweepTypeOK, RowsOK, AtLamOK, Live, RowsAtTheirLambda
<1>2. QED
  BY <1>1, SweepInvariance, PTL

\* No prompt has two rows at a lambda, none with a row is asked again, and a run that ends
\* has them all (main's pending).
THEOREM NothingTwiceNothingLost == SweepSpec => []EveryPromptOnce
<1>1. ASSUME SweepInv PROVE EveryPromptOnce
  <2>1. Live /\ visit <= Len(Plan) => (flight \cup left) \cap Recorded(Lam) = {}
    BY <1>1 DEF SweepInv, WindowOK
  <2>2. \A r, q \in memory : r.lam = q.lam /\ r.prompt = q.prompt => r = q
    BY <1>1 DEF SweepInv, UniqueOK, Unique
  <2>3. ASSUME pc = "ended"
        PROVE  \A v \in DOMAIN Plan : Plan[v].pieces \subseteq Recorded(Plan[v].lam)
    <3>1. /\ visit > Len(Plan) /\ visit \in 1 .. Len(Plan) + 1
          /\ Len(Plan) \in Nat /\ DOMAIN Plan = 1 .. Len(Plan)
      BY <1>1, <2>3, PlanType DEF SweepInv, SweepTypeOK, VisitOK
    <3>2. DOMAIN Plan = 1 .. visit - 1
      BY <3>1
    <3>3. QED
      BY <1>1, <2>3, <3>2 DEF SweepInv, PastOK
  <2>4. QED
    BY <2>1, <2>2, <2>3 DEF EveryPromptOnce
<1>2. QED
  BY <1>1, SweepInvariance, PTL

\* The outer finally: a process that ends on its own leaves the dial at home, or says not.
THEOREM DialAtHomeAtTheEnd == SweepSpec => []EndsAtHome
<1>1. SweepInv => EndsAtHome
  BY DEF SweepInv, HomeOK, EndsAtHome
<1>2. QED
  BY <1>1, SweepInvariance, PTL

\* The inner finally: between two windows production has its own dial.
THEOREM ProductionBetweenWindows == SweepSpec => []HomeBetweenWindows
<1>1. SweepInv => HomeBetweenWindows
  BY DEF SweepInv, HomeOK
<1>2. QED
  BY <1>1, SweepInvariance, PTL

\* No step but a kill ends a run as killed.
LEMMA OnlyKillKills ==
  ASSUME [SweepNext]_sweepVars, pc # "killed", pc' = "killed"
  PROVE  Kill
<1>1. ASSUME Step PROVE FALSE
  BY <1>1
     DEF Step, Start, NextVisit, Idle, SetLambda, WindowDone, Drained, Contaminated, Answers,
         Restore, Save, RestoreLast, Write, Close, Finish, Inner, Outer
<1>2. ASSUME World PROVE Kill
  BY <1>2
     DEF World, WaitBreaks, Interrupt, AnswerFails, Again, ServerRestarts, PodRolls, ByHand,
         Inner, Outer
<1>3. QED
  BY <1>1, <1>2 DEF SweepNext, sweepVars

\* A kill outside a dump costs the rows of the window it interrupts, and no readable file
\* (volcar, the appended rows of bench_strongreject_refusal, out_path.write_text).
THEOREM OneWindowAtRisk == SweepSpec => KillCostsAWindow
<1>1. SweepInv /\ [SweepNext]_sweepVars =>
        (/\ pc # "killed" /\ pc' = "killed" /\ My.saves \in {"row", "window"}
         /\ ~ (My.saves = "window" /\ pc \in {"save", "write"})
         => /\ \A r \in (memory \cup got) \ disk : OfThisWindow(r)
            /\ bench = "v2" => memory \subseteq disk
            /\ My.saves = "window" => ~ cut)
  <2> SUFFICES ASSUME SweepInv, [SweepNext]_sweepVars,
                      pc # "killed", pc' = "killed", My.saves \in {"row", "window"},
                      ~ (My.saves = "window" /\ pc \in {"save", "write"})
               PROVE  /\ \A r \in (memory \cup got) \ disk : OfThisWindow(r)
                      /\ bench = "v2" => memory \subseteq disk
                      /\ My.saves = "window" => ~ cut
    OBVIOUS
  <2>1. Live
    BY OnlyKillKills DEF Kill
  <2>2. visit \in 1 .. Len(Plan) + 1 /\ Len(Plan) \in Nat /\ bench \in Benches
    BY PlanType DEF SweepInv, SweepTypeOK
  <2>3. \A r \in got \ disk : OfThisWindow(r)
    <3>1. got # {} => visit <= Len(Plan)
      BY <2>1 DEF SweepInv, GotOK, VisitOK, Live
    <3>2. QED
      BY <2>1, <3>1 DEF SweepInv, WindowOK, OfThisWindow
  <2>4. \A r \in memory \ disk : OfThisWindow(r)
    <3>1. CASE My.saves = "row"
      <4>1. pc = "save" => visit <= Len(Plan) /\ bench # "compare"
        BY <2>2, <3>1, BenchTable DEF SweepInv, VisitOK
      <4>2. QED
        BY <2>1, <3>1, <4>1 DEF SweepInv, DiskOK, OfThisWindow
    <3>2. CASE My.saves = "window"
      BY <2>1, <3>2 DEF SweepInv, DiskOK
    <3>3. QED
      BY <3>1, <3>2
  <2>5. bench = "v2" => My.saves = "window"
    BY <2>2, BenchTable
  <2>6. QED
    BY <2>1, <2>3, <2>4, <2>5 DEF SweepInv, DiskOK
<1>2. QED
  BY <1>1, SweepInvariance, PTL DEF SweepSpec, KillCostsAWindow

=============================================================================

--------------------------- MODULE RefusalService ---------------------------
(***************************************************************************)
(* What per-request projection promises, with no slots, buffers, graphs or *)
(* preemption: a forward serves each of its requests at the lambda sealed  *)
(* in the request's own cache_salt or, without a seal, at the dial in      *)
(* force when the step runs.                                               *)
(***************************************************************************)
CONSTANTS Reqs, Lambdas, PlainSalts, NoSalt

VARIABLES
  dial,    \* the global dial
  salt,    \* the cache_salt of each request alive, NoSalt for the others
  served   \* the <<request, lambda>> pairs of the last forward

vars == <<dial, salt, served>>

Alive == {r \in Reqs : salt[r] # NoSalt}

Effective(r) == IF salt[r] \in Lambdas THEN salt[r] ELSE dial

Init ==
  /\ dial \in Lambdas
  /\ salt = [r \in Reqs |-> NoSalt]
  /\ served = {}

SetDial(l) ==
  /\ dial' = l
  /\ UNCHANGED <<salt, served>>

Arrive(r, s) ==
  /\ r \notin Alive
  /\ salt' = [salt EXCEPT ![r] = s]
  /\ UNCHANGED <<dial, served>>

Leave(gone) == salt' = [r \in Reqs |-> IF r \in gone THEN NoSalt ELSE salt[r]]

Serve(batch) ==
  served' = IF batch = {} THEN served ELSE {<<r, Effective(r)>> : r \in batch}

\* A step takes the requests that ended out and serves a batch of the others
Step ==
  /\ UNCHANGED dial
  /\ \E gone \in SUBSET Alive :
       /\ Leave(gone)
       /\ \E batch \in SUBSET (Alive \ gone) : Serve(batch)

\* A forward that serves nobody
Idle ==
  /\ served' = {}
  /\ UNCHANGED <<dial, salt>>

Next ==
  \/ \E l \in Lambdas : SetDial(l)
  \/ \E r \in Reqs, s \in Lambdas \cup PlainSalts : Arrive(r, s)
  \/ Step
  \/ Idle

Spec == Init /\ [][Next]_vars
=============================================================================

------------------------------ MODULE FreeBlocks ------------------------------
(***************************************************************************)
(* What the block pool is promised by its queue of free blocks: a sequence *)
(* of different blocks, evicted from the front, given back to at either    *)
(* end, and from whose middle a block is pulled when a prefix hit brings   *)
(* it back to life.  A call that raises changes nothing.                   *)
(***************************************************************************)
EXTENDS Integers, Sequences

CONSTANTS
  NumBlocks,   \* size of the pool
  Raised       \* what a call that raises returns

VARIABLES
  queue,       \* the free blocks, the next to be evicted first
  returned     \* what the last call returned

Blocks == 1 .. NumBlocks

\* The lists of n different blocks
Lists(n) == {l \in [1 .. n -> Blocks] : \A i, j \in 1 .. n : l[i] = l[j] => i = j}

Free == {queue[i] : i \in 1 .. Len(queue)}

Without(q, i) == SubSeq(q, 1, i - 1) \o SubSeq(q, i + 1, Len(q))

Init == queue = [i \in Blocks |-> i] /\ returned = <<>>

Evict(n) ==
  /\ n <= Len(queue)
  /\ returned' = SubSeq(queue, 1, n)
  /\ queue' = SubSeq(queue, n + 1, Len(queue))

Reuse(i) ==
  /\ returned' = <<>>
  /\ queue' = Without(queue, i)

GiveBack(bs) ==
  /\ \A i \in 1 .. Len(bs) : bs[i] \notin Free
  /\ returned' = <<>>
  /\ queue' \in {queue \o bs, bs \o queue}

Inspect == returned' = queue /\ UNCHANGED queue

Refuse == returned' = Raised /\ UNCHANGED queue

Next ==
  \/ \E n \in 0 .. Len(queue) : Evict(n)
  \/ \E i \in 1 .. Len(queue) : Reuse(i)
  \/ \E n \in 0 .. NumBlocks : \E bs \in Lists(n) : GiveBack(bs)
  \/ Inspect
  \/ Refuse

Spec == Init /\ [][Next]_<<queue, returned>>
=============================================================================

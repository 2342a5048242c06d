---------------------------- MODULE FreeBlockQueue ----------------------------
(***************************************************************************)
(* FreeKVCacheBlockQueue: a doubly linked list threaded through the blocks *)
(* themselves, between a fake head and a fake tail, so that a block can    *)
(* leave from the middle.                                                  *)
(*                                                                         *)
(* Nothing in a block says that it is free but its two links: remove tells *)
(* a free block from one in use by them, so every call has to clear the    *)
(* links of what it takes out, and popleft_n does so while it is still     *)
(* walking.  The block pool that calls the queue is external: it gives     *)
(* back blocks it holds, and may by mistake remove one it holds or ask for *)
(* more than there are.                                                    *)
(***************************************************************************)
EXTENDS Integers, Sequences

CONSTANTS
  NumBlocks,    \* num_gpu_blocks
  Head0, Tail0, \* fake_free_list_head and fake_free_list_tail
  None,
  Raised        \* a call that ends in an exception

Blocks == 1 .. NumBlocks
Nodes == Blocks \cup {Head0, Tail0}

ASSUME QueueAssumption ==
  /\ NumBlocks \in Nat
  /\ Head0 # Tail0 /\ None \notin Nodes
  /\ Head0 \notin Blocks /\ Tail0 \notin Blocks
  /\ Raised \notin Seq(Blocks)

VARIABLES
  next,      \* next_free_block of each node
  prev,      \* prev_free_block
  num,       \* num_free_blocks
  held,      \* the blocks the pool has taken out and not given back
  returned,  \* what the last call returned
  order      \* history: the free blocks, as the calls so far should have left them

vars == <<next, prev, num, held, returned, order>>

-----------------------------------------------------------------------------
\* left, the blocks of l and right, numbered from 0
Chain(left, l, right) ==
  [i \in 0 .. Len(l) + 1 |-> IF i = 0 THEN left ELSE IF i = Len(l) + 1 THEN right ELSE l[i]]

\* The lists of n different blocks
Lists(n) == {l \in [1 .. n -> Blocks] : \A i, j \in 1 .. n : l[i] = l[j] => i = j}

\* Mutant of NextLinks: the blocks taken out keep their next_free_block
NextLinksKept(left, l, right, out) ==
  LET c == Chain(left, l, right)
      I(x) == {i \in 0 .. Len(l) : c[i] = x}
  IN [x \in Nodes |-> IF I(x) # {} THEN c[(CHOOSE i \in I(x) : TRUE) + 1] ELSE next[x]]

\* next_free_block once left, l and right are linked and the blocks out unlinked
NextLinks(left, l, right, out) ==
  LET c == Chain(left, l, right)
      I(x) == {i \in 0 .. Len(l) : c[i] = x}
  IN [x \in Nodes |-> IF x \in out THEN None
                      ELSE IF I(x) # {} THEN c[(CHOOSE i \in I(x) : TRUE) + 1]
                      ELSE next[x]]

\* Mutant of PrevLinks: the node on the right is not pointed back
PrevLinksForward(left, l, right, out) ==
  LET c == Chain(left, l, right)
      I(x) == {i \in 0 .. Len(l) : c[i + 1] = x /\ x # right}
  IN [x \in Nodes |-> IF x \in out THEN None
                      ELSE IF I(x) # {} THEN c[CHOOSE i \in I(x) : TRUE]
                      ELSE prev[x]]

\* The same for prev_free_block
PrevLinks(left, l, right, out) ==
  LET c == Chain(left, l, right)
      I(x) == {i \in 0 .. Len(l) : c[i + 1] = x}
  IN [x \in Nodes |-> IF x \in out THEN None
                      ELSE IF I(x) # {} THEN c[CHOOSE i \in I(x) : TRUE]
                      ELSE prev[x]]

Relink(left, l, right, out) ==
  /\ next' = NextLinks(left, l, right, out)
  /\ prev' = PrevLinks(left, l, right, out)

\* l is what a walk along next_free_block from the fake head passes first
IsWalk(l) == \A i \in 1 .. Len(l) : l[i] = next[IF i = 1 THEN Head0 ELSE l[i - 1]]

ElementsOf(l) == {l[i] : i \in 1 .. Len(l)}

Last(l) == IF Len(l) = 0 THEN Head0 ELSE l[Len(l)]

-----------------------------------------------------------------------------
\* __init__ with all the blocks of the pool, in the order of their ids
Init ==
  LET c == Chain(Head0, [i \in Blocks |-> i], Tail0) IN
  /\ next = [x \in Nodes |-> IF x = Tail0 THEN None ELSE c[(CHOOSE i \in 0 .. NumBlocks : c[i] = x) + 1]]
  /\ prev = [x \in Nodes |-> IF x = Head0 THEN None ELSE c[(CHOOSE i \in 0 .. NumBlocks : c[i + 1] = x)]]
  /\ num = NumBlocks
  /\ held = {}
  /\ returned = <<>>
  /\ order = [i \in Blocks |-> i]

\* A call that raises before it has changed a link
Raise == returned' = Raised /\ UNCHANGED <<next, prev, num, held, order>>

\* popleft() of an empty list, and popleft_n(n) of more than there are
PopTooMany(n) ==
  /\ IF n = 1 THEN next[Head0] \in {Tail0, None} ELSE num < n
  /\ Raise

\* popleft(): the block that the fake head points at
PopLeft ==
  LET first == next[Head0] IN
  /\ first \notin {Tail0, None}
  /\ IF next[first] = None
     THEN Raise
     ELSE /\ Relink(Head0, <<>>, next[first], {first})
          /\ num' = num - 1
          /\ held' = held \cup {first}
          /\ returned' = <<first>>
          /\ order' = SubSeq(order, 2, Len(order))

\* popleft_n(n): the walk clears each block's links as it leaves it behind
PopLeftN(n) ==
  /\ num >= n
  /\ \E l \in Lists(n) :
       /\ IsWalk(l)
       /\ IF n = 0
          THEN UNCHANGED <<next, prev>>
          ELSE Relink(Head0, <<>>, next[Last(l)], ElementsOf(l))
       /\ num' = num - n
       /\ held' = held \cup ElementsOf(l)
       /\ returned' = l
       /\ order' = SubSeq(order, n + 1, Len(order))

\* remove(b): a prefix hit takes b back from the middle of the list
Remove(b) ==
  IF prev[b] = None \/ next[b] = None
  THEN Raise
  ELSE /\ Relink(prev[b], <<>>, next[b], {b})
       /\ num' = num - 1
       /\ held' = held \cup {b}
       /\ returned' = <<>>
       /\ \E i \in 1 .. Len(order) :
            /\ order[i] = b
            /\ order' = SubSeq(order, 1, i - 1) \o SubSeq(order, i + 1, Len(order))

\* The part of append, append_n and prepend_n that the pool sees
GiveBack(l) ==
  /\ ElementsOf(l) \subseteq held
  /\ num' = num + Len(l)
  /\ held' = held \ ElementsOf(l)
  /\ returned' = <<>>

\* append(b): between the last block and the fake tail
AppendBlock(b) ==
  /\ GiveBack(<<b>>)
  /\ Relink(prev[Tail0], <<b>>, Tail0, {})
  /\ order' = Append(order, b)

\* append_n(l)
AppendN(l) ==
  /\ GiveBack(l)
  /\ IF Len(l) = 0 THEN UNCHANGED <<next, prev>> ELSE Relink(prev[Tail0], l, Tail0, {})
  /\ order' = order \o l

\* Mutant of PrependN: the blocks are put in front one after the other
PrependNReversed(l) ==
  /\ GiveBack(l)
  /\ IF Len(l) = 0 THEN UNCHANGED <<next, prev>>
     ELSE Relink(Head0, [i \in 1 .. Len(l) |-> l[Len(l) + 1 - i]], next[Head0], {})
  /\ order' = l \o order

\* prepend_n(l): between the fake head and the first block
PrependN(l) ==
  /\ GiveBack(l)
  /\ IF Len(l) = 0 THEN UNCHANGED <<next, prev>> ELSE Relink(Head0, l, next[Head0], {})
  /\ order' = l \o order

\* get_all_free_blocks(): the walk, up to the node that has no next_free_block
GetAllFreeBlocks ==
  /\ \E n \in 0 .. NumBlocks : \E l \in Lists(n) :
       /\ IsWalk(l)
       /\ next[next[Last(l)]] = None
       /\ returned' = l
  /\ UNCHANGED <<next, prev, num, held, order>>

Next ==
  \/ \E n \in 1 .. NumBlocks + 1 : PopTooMany(n)
  \/ PopLeft
  \/ \E n \in 0 .. NumBlocks : PopLeftN(n)
  \/ \E b \in Blocks : Remove(b)
  \/ \E b \in Blocks : AppendBlock(b)
  \/ \E n \in 0 .. NumBlocks : \E l \in Lists(n) : AppendN(l) \/ PrependN(l)
  \/ GetAllFreeBlocks

Spec == Init /\ [][Next]_vars

-----------------------------------------------------------------------------
(***************************************************************************)
(* Properties.                                                             *)
(***************************************************************************)

TypeOK ==
  /\ next \in [Nodes -> Nodes \cup {None}]
  /\ prev \in [Nodes -> Nodes \cup {None}]
  /\ num \in 0 .. NumBlocks
  /\ held \subseteq Blocks
  /\ order \in Seq(Blocks)

\* Walked in either direction, the links between the fake head and the fake tail
\* are the blocks that should be free, in the order of their eviction, and
\* num_free_blocks is their number.
LinksAreTheOrder ==
  LET c == Chain(Head0, order, Tail0) IN
  /\ \A i \in 0 .. Len(order) : next[c[i]] = c[i + 1] /\ prev[c[i + 1]] = c[i]
  /\ next[Tail0] = None /\ prev[Head0] = None
  /\ num = Len(order)

\* A block has links exactly while the pool does not hold it, and both or none:
\* what remove() takes for the sign of a block that is not in the list.  A block
\* taken twice, by an eviction and by a hit, cannot go unnoticed.
HeldBlocksAreUnlinked ==
  \A b \in Blocks : IF b \in held THEN next[b] = None /\ prev[b] = None
                                  ELSE next[b] # None /\ prev[b] # None

Promise == INSTANCE FreeBlocks WITH queue <- order

\* The list implements the queue the block pool is promised: what is evicted is
\* the front of the queue, a refused call changes nothing.
ImplementsFreeBlocks == Promise!Spec
=============================================================================

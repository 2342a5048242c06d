---------------------------- MODULE MCPrefixCache ----------------------------
(* Requests over one text, in the best and the worst case for the dial,      *)
(* which has two positions with different keys: three in the best, the third *)
(* of which may reuse what the second reused; a pair of them in the worst.   *)
EXTENDS PrefixCache, TLC

\* One process and drained traffic; two processes and POSTs at any moment, the
\* worst case for the dial
BestAndWorst == {<<TRUE, TRUE>>, <<FALSE, FALSE>>}

\* The mp executor, drained
MpDrained == {<<FALSE, TRUE>>}

\* Bound: where the dial moves at any moment, one of the requests never arrives
PairsInTheWorst == ~ drains => \E r \in Reqs : stage[r] = "new"

Symmetry == Permutations(Reqs)
=============================================================================

--------------------------- MODULE MCRefusalStep ---------------------------
(* Three requests on two slots, so that slots are contended and reused; a    *)
(* buffer of three rows, so that a batch of two requests can be padded; two  *)
(* lambdas, so that a row served with a wrong one shows.                     *)
EXTENDS RefusalStep, TLC

Symmetry == Permutations(Reqs)
=============================================================================

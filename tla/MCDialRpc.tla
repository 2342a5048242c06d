----------------------------- MODULE MCDialRpc -----------------------------
(* Two ranks, two callers whose calls overlap, steps in flight across a POST. *)
EXTENDS DialRpc
=============================================================================

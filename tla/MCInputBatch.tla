---------------------------- MODULE MCInputBatch ----------------------------
(* Four requests on four rows: a hole below two that stay, refilled or       *)
(* condensed from the tail.  Each array has requests that use it and others  *)
(* that do not.                                                              *)
EXTENDS InputBatch

CONSTANTS r1, r2, r3, r4

MCReqs == {r1, r2, r3, r4}
MCLoraOf == [r \in MCReqs |-> IF r \in {r1, r2} THEN 1 ELSE 0]
MCLambdaNone == [r \in MCReqs |-> NaN]
=============================================================================

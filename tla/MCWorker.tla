------------------------------ MODULE MCWorker ------------------------------
(* Three dials: the worker's first, the one of the start-up and another.     *)
EXTENDS Worker
=============================================================================

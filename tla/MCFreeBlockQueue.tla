--------------------------- MODULE MCFreeBlockQueue ---------------------------
(* Four blocks: two are in the middle, with a block on either side. *)
EXTENDS FreeBlockQueue
=============================================================================

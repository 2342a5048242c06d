--------------------------- MODULE MCSourcePatch ---------------------------
(* SourcePatch as it is: its tables are the scripts' own *)
EXTENDS SourcePatch

=============================================================================

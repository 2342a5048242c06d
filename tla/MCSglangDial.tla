---------------------------- MODULE MCSglangDial ----------------------------
(* Two requests over one text of up to two tokens; the dial and seals take   *)
(* two values, a third is out of range.  A verify step of three rows for     *)
(* each of two requests does not fit the buffer of four.                     *)
EXTENDS SglangDial, TLC

Symmetry == Permutations(Reqs)

\* Every forward fills the buffer before it reads it: states that differ in its
\* old contents only are explored once
View == <<value, stage, extraKey, len, kv, radix, forward, hit, wide>>
=============================================================================

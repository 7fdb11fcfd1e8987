------------------------------- MODULE MCGrid -------------------------------
(***************************************************************************)
(* Arithmetic for model checking: cells hold residues modulo 101, relaxed  *)
(* with different weights for columns and rows, so that a cell of a wrong  *)
(* iterate shows in the values computed from it.                           *)
(***************************************************************************)
EXTENDS Grid

MCRelax(f, up, left, right, down) ==
  (f + 7 * (left + right) + 12 * (up + down)) % 101

MCrhs == [c \in Cells |-> 3 * c[1] + 5 * c[2] + 1]
MCtopRow == [col \in 0 .. numCols - 1 |-> 10 + col]
=============================================================================

-------------------------------- MODULE Grid --------------------------------
(***************************************************************************)
(* The grid of the finite difference method and one relaxation of a cell,  *)
(* as the parallel and the serial solver share them.  A cell is the pair   *)
(* <<row, column>> that the code keeps as the index row * numCols_ +       *)
(* column.  How the new value of a cell is computed from f_ and the four   *)
(* cells around it is the parameter Relax.                                 *)
(***************************************************************************)
EXTENDS Integers

CONSTANTS
  numRows, numCols,       \* the size of the grid
  Relax(_, _, _, _, _),   \* new value from f_, up, left, right, down
  rhs,                    \* f_, the right-hand side, for every cell
  topRow                  \* boundary value of the top row, for every column

Cells == (0 .. numRows - 1) \X (0 .. numCols - 1)
Interior == (1 .. numRows - 2) \X (1 .. numCols - 2)

Up(c) == <<c[1] - 1, c[2]>>
Left(c) == <<c[1], c[2] - 1>>
Right(c) == <<c[1], c[2] + 1>>
Down(c) == <<c[1] + 1, c[2]>>

\* What is read to relax a cell, or to compute its residual.
Around(c) == {c, Up(c), Left(c), Right(c), Down(c)}

\* The new value of cell c, computed from buffer src.
Relaxed(src, c) ==
  Relax(rhs[c], src[Up(c)], src[Left(c)], src[Right(c)], src[Down(c)])

\* Both buffers at the start: the boundary values in the top row, else zero.
u0 == [c \in Cells |-> IF c[1] = 0 THEN topRow[c[2]] ELSE 0]

\* The loops go through the rows, and through each row from the left.
Before(c, d) == c[1] < d[1] \/ (c[1] = d[1] /\ c[2] <= d[2])
First(cells) == {c \in cells : \A d \in cells : Before(c, d)}

\* The reference: one synchronous sweep relaxes every interior cell.
Sweep(u) == [c \in Cells |-> IF c \in Interior THEN Relaxed(u, c) ELSE u[c]]
=============================================================================

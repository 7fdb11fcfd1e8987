---------------------------- MODULE SerialJacobi ----------------------------
(***************************************************************************)
(* The serial solver of tests/SerialSolver/serialSolver.cpp, the reference *)
(* checkRaceConds.sh compares the parallel solver with: Jacobi sweeps cell *)
(* by cell, reading one buffer and writing the other.                      *)
(***************************************************************************)
EXTENDS Grid

CONSTANT numiters   \* number of sweeps

VARIABLES
  u1, u2,     \* the two buffers
  currIter,   \* sweeps completed
  todo        \* interior cells this sweep has not written yet

vars == <<u1, u2, currIter, todo>>

SrcIsU1(n) == n % 2 = 0

getSrcVec(n) == IF SrcIsU1(n) THEN u1 ELSE u2
-----------------------------------------------------------------------------
Init ==
  /\ u1 = u0 /\ u2 = u0
  /\ currIter = 0
  /\ todo = Interior

\* One pass of the inner loop of Solve_Jacobi.
UpdateCell ==
  /\ currIter < numiters
  /\ \E c \in First(todo) :
       LET src == getSrcVec(currIter) IN
       /\ todo' = todo \ {c}
       /\ IF SrcIsU1(currIter)
            THEN u2' = [u2 EXCEPT ![c] = Relaxed(src, c)] /\ UNCHANGED u1
            ELSE u1' = [u1 EXCEPT ![c] = Relaxed(src, c)] /\ UNCHANGED u2
  /\ UNCHANGED currIter

\* ++currIter, after the last cell.
NextSweep ==
  /\ currIter < numiters /\ todo = {}
  /\ currIter' = currIter + 1
  /\ todo' = Interior
  /\ UNCHANGED <<u1, u2>>

Next == UpdateCell \/ NextSweep

Spec == Init /\ [][Next]_vars
=============================================================================

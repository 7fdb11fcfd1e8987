---------------------------- MODULE CheckRaceConds ----------------------------
(***************************************************************************)
(* The test tests/checkRaceConds.sh: it runs the serial solver, then the   *)
(* dynamic scheduler with the Jacobi task on the same grid, both asked for *)
(* the same number of iterations, and compares the buffers the two         *)
(* programs have written to files.                                         *)
(***************************************************************************)
EXTENDS JacobiTask

VARIABLES
  serial_u1, serial_u2,       \* buffers of the serial solver
  serial_iter, serial_todo    \* its progress

serialVars == <<serial_u1, serial_u2, serial_iter, serial_todo>>

Reference ==
  INSTANCE SerialJacobi WITH
    u1 <- serial_u1, u2 <- serial_u2, currIter <- serial_iter, todo <- serial_todo,
    numiters <- startMaxIter

-----------------------------------------------------------------------------
TestInit == Init /\ Reference!Init

\* ./SerialSolver/serialSolver $numRows $numCols $maxIters
SerialSolver ==
  /\ Reference!UpdateCell \/ Reference!NextSweep
  /\ UNCHANGED vars

\* ../hpc_task_parallel_jacobi $numRows $numCols $maxIters $threads $tasks
ParallelSolver ==
  /\ serial_iter = startMaxIter
  /\ Next
  /\ UNCHANGED serialVars

TestNext == SerialSolver \/ ParallelSolver

TestSpec == TestInit /\ [][TestNext]_<<vars, serialVars>>
-----------------------------------------------------------------------------
(***************************************************************************)
(* What the script compares, for every schedule instead of the one of a    *)
(* test: "diff u1.txt serial_u1.txt" and "diff u2.txt serial_u2.txt" find  *)
(* no difference.  The serial solver always does all the sweeps it was     *)
(* asked for, so this is for a bound that the early stop leaves where it   *)
(* was; after a stop that lowers it the script compares two different      *)
(* iterates, and FinalIsSerial says what the parallel one is.              *)
(***************************************************************************)
NoDifference == Finished /\ maxIter = startMaxIter => u1 = serial_u1 /\ u2 = serial_u2
=============================================================================

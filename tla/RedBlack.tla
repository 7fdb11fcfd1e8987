------------------------------ MODULE RedBlack ------------------------------
(***************************************************************************)
(* The red-black Gauss-Seidel solver of tests/SerialSolver/rbgs.cpp.       *)
(* calIndexes collects the indices of the inner points in two lists, row   *)
(* by row and two columns at a time; Solve_parallel then relaxes in place  *)
(* first all red and then all black points, each colour in an OpenMP       *)
(* parallel loop, whose threads take the points in any relative order      *)
(* (external).  A point's value is abstracted to the number of times it    *)
(* was relaxed.                                                            *)
(***************************************************************************)
EXTENDS Integers, Sequences, FiniteSets

CONSTANTS
  maxPoints,   \* bound: grid points in each direction
  numiter      \* iterations asked for on the command line

ASSUME maxPointsAssumption == maxPoints \in Nat /\ maxPoints >= 2
ASSUME numiterAssumption == numiter \in Nat

VARIABLES
  numGridX, numGridY,     \* size of the grid
  i, j, toggle,           \* loop variables of calIndexes
  redIndex, blackIndex,   \* the lists it fills
  numiter_p,              \* iterations completed by Solve_parallel
  pending,                \* points the running parallel loop has still to relax
  u,                      \* u[ind]: how often point ind was relaxed
  pc                      \* "row", "column": calIndexes; "red", "black"; "done"

size == <<numGridX, numGridY>>
lists == <<i, j, toggle, redIndex, blackIndex>>
vars == <<size, lists, numiter_p, pending, u, pc>>

Members(list) == {list[k] : k \in 1 .. Len(list)}

Points == 0 .. numGridX * numGridY - 1
Inner == {r * numGridX + c : r \in 1 .. numGridY - 2, c \in 1 .. numGridX - 2}
Neighbours(ind) == {ind - 1, ind + 1, ind - numGridX, ind + numGridX}

Init ==
  /\ numGridX \in 2 .. maxPoints /\ numGridY \in 2 .. maxPoints
  /\ i = 1 /\ j = 1 /\ toggle = FALSE
  /\ redIndex = <<>> /\ blackIndex = <<>>
  /\ numiter_p = 0
  /\ pending = {}
  /\ u = [ind \in Points |-> 0]
  /\ pc = "row"
-----------------------------------------------------------------------------
\* Mutant of NextRow: every row starts with the same colour.
NextRowSameColour ==
  /\ pc = "row" /\ i < numGridY - 1
  /\ toggle' = TRUE
  /\ j' = 1
  /\ pc' = "column"
  /\ UNCHANGED <<size, i, redIndex, blackIndex, numiter_p, pending, u>>

\* calIndexes: rows start with alternating colours.
NextRow ==
  /\ pc = "row" /\ i < numGridY - 1
  /\ toggle' = ~toggle
  /\ j' = 1
  /\ pc' = "column"
  /\ UNCHANGED <<size, i, redIndex, blackIndex, numiter_p, pending, u>>

\* Mutant of Push: no special case for the last column of odd grids.
PushAlways ==
  LET here == i * numGridX + j
      ofFirst == <<here>>
      ofSecond == <<here + 1>>
  IN /\ redIndex' = redIndex \o (IF toggle THEN ofFirst ELSE ofSecond)
     /\ blackIndex' = blackIndex \o (IF toggle THEN ofSecond ELSE ofFirst)

\* The point in column j gets the colour of the row, the next one the other
\* colour, unless it lies on the right boundary of an odd grid.
Push ==
  LET here == i * numGridX + j
      ofFirst == <<here>>
      ofSecond == IF numGridX % 2 = 1 /\ (j + 2) % numGridX = 0 THEN <<>> ELSE <<here + 1>>
  IN /\ redIndex' = redIndex \o (IF toggle THEN ofFirst ELSE ofSecond)
     /\ blackIndex' = blackIndex \o (IF toggle THEN ofSecond ELSE ofFirst)

NextPair ==
  /\ pc = "column" /\ j < numGridX - 1
  /\ Push
  /\ j' = j + 2
  /\ UNCHANGED <<size, i, toggle, numiter_p, pending, u, pc>>

EndRow ==
  /\ pc = "column" /\ ~(j < numGridX - 1)
  /\ i' = i + 1
  /\ pc' = "row"
  /\ UNCHANGED <<size, j, toggle, redIndex, blackIndex, numiter_p, pending, u>>

\* calIndexes returns; Solve_parallel begins with the red points.
StartSolver ==
  /\ pc = "row" /\ ~(i < numGridY - 1)
  /\ pending' = Members(redIndex)
  /\ pc' = "red"
  /\ UNCHANGED <<size, lists, numiter_p, u>>
-----------------------------------------------------------------------------
\* A thread of the parallel loop relaxes one of its points.
RelaxPoint ==
  /\ pc \in {"red", "black"}
  /\ \E ind \in pending :
       /\ u' = [u EXCEPT ![ind] = @ + 1]
       /\ pending' = pending \ {ind}
  /\ UNCHANGED <<size, lists, numiter_p, pc>>

\* The red loop ends with a barrier.
StartBlack ==
  /\ pc = "red" /\ pending = {}
  /\ pending' = Members(blackIndex)
  /\ pc' = "black"
  /\ UNCHANGED <<size, lists, numiter_p, u>>

\* Mutant of NextIteration: the red list is not gone through again.
NextIterationBlackOnly ==
  /\ pc = "black" /\ pending = {}
  /\ numiter_p' = numiter_p + 1
  /\ IF numiter_p' < numiter + 1
       THEN pc' = "black" /\ pending' = Members(blackIndex)
       ELSE pc' = "done" /\ UNCHANGED pending
  /\ UNCHANGED <<size, lists, u>>

\* So does the black one; StartInit has added one to the iterations asked for.
NextIteration ==
  /\ pc = "black" /\ pending = {}
  /\ numiter_p' = numiter_p + 1
  /\ IF numiter_p' < numiter + 1
       THEN pc' = "red" /\ pending' = Members(redIndex)
       ELSE pc' = "done" /\ UNCHANGED pending
  /\ UNCHANGED <<size, lists, u>>

Ended == pc = "done" /\ UNCHANGED vars

Next ==
  \/ NextRow \/ NextPair \/ EndRow \/ StartSolver
  \/ RelaxPoint \/ StartBlack \/ NextIteration \/ Ended

Spec == Init /\ [][Next]_vars
-----------------------------------------------------------------------------
(***************************************************************************)
(* "returns the red and black indexes of inner grid points" (rbgs.cpp:9):  *)
(* for even and odd widths, every inner point is in exactly one of the two *)
(* lists, once, and no boundary point is in any.                           *)
(***************************************************************************)
ColoursPartition ==
  pc \in {"red", "black"} =>
    /\ Members(redIndex) \cup Members(blackIndex) = Inner
    /\ Len(redIndex) + Len(blackIndex) = Cardinality(Inner)

(***************************************************************************)
(* A parallel loop has no data race: no point it still has to relax is     *)
(* read for another one of the same loop.                                  *)
(***************************************************************************)
LoopsRaceFree == \A ind \in pending : Neighbours(ind) \cap pending = {}

(***************************************************************************)
(* Gauss-Seidel order: when a point is relaxed, its inner neighbours are   *)
(* all in the state that its colour asks for, black ones from the last     *)
(* iteration, red ones from the present one, whatever the threads do.      *)
(***************************************************************************)
GaussSeidelOrder ==
  [][\A ind \in Points :
       u'[ind] # u[ind] =>
         /\ u[ind] = numiter_p
         /\ \A n \in Neighbours(ind) \cap Inner :
              u[n] = IF ind \in Members(redIndex) THEN numiter_p ELSE numiter_p + 1]_vars
=============================================================================

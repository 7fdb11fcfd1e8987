------------------------------ MODULE JacobiTask ------------------------------
(***************************************************************************)
(* The dynamic scheduler running the real task, performTask: the rows of   *)
(* the grid are divided into strips, one per task, and in each iteration a *)
(* task first sums up the residual of its strip (getLocResidual) and then  *)
(* relaxes it cell by cell (updateGrid), reading one of the buffers u1_    *)
(* and u2_ and writing the other, by the parity of its own iteration.      *)
(* Border rows are read from the strips of the neighbours, which may be    *)
(* working at the same time: there is no lock.                             *)
(*                                                                         *)
(* In between, the tasks exchange residuals, and one of them may decide    *)
(* the early stop: it sets Utility::maxIter while the others run.  What of *)
(* that is not about the buffers is modelled in SyncResidual; here any     *)
(* task may find the tolerance met, in any iteration.                      *)
(***************************************************************************)
EXTENDS Grid

CONSTANTS
  numTasks,      \* Utility::numTasks
  startMaxIter,  \* Utility::maxIter at the start
  Serial         \* Serial[n]: what the serial solver has after n sweeps (SerialJacobi)

\* "numRows should be divisible by numTasks" (grid.cpp:20).
ASSUME numTasksAssumption == numTasks \in Nat \ {0, 1}
ASSUME numRowsAssumption ==
  numRows \in Nat \ {0} /\ \E k \in 1 .. numRows : numRows = k * numTasks
ASSUME numColsAssumption == numCols \in Nat \ {0}
ASSUME startMaxIterAssumption == startMaxIter \in Nat \ {0}

VARIABLES
  iter_number, tpc, diff1,   \* as in TaskCalls
  maxIter,                   \* Utility::maxIter
  resTermFlagSet,            \* the early stop has been decided
  u1, u2,                    \* the two buffers of the grid
  phase,                     \* phase[t]: where t is in performTask
  todo                       \* todo[t]: cells of t not yet written in this call

callVars == <<iter_number, tpc, diff1>>
stopVars == <<maxIter, resTermFlagSet>>
vars == <<callVars, stopVars, u1, u2, phase, todo>>

Calls == INSTANCE TaskCalls WITH maxIter <- startMaxIter
TaskIds == 0 .. numTasks - 1

\* Bound: no task runs further than this, however late the stop is decided.
maxBound == startMaxIter + numTasks - 1

ASSUME SerialAssumption ==
  /\ Serial[0] = u0
  /\ \A n \in 0 .. maxBound - 1 : Serial[n + 1] = Sweep(Serial[n])

numlocRows == numRows \div numTasks

\* Mutant of startRow: the top strip does not skip the boundary row.
startRowZero(t) == numlocRows * t

startRow(t) == numlocRows * t + (IF Calls!TopBound(t) THEN 1 ELSE 0)

\* Mutant of endRow: the rows of a strip are taken to include row_end_.
endRowIncluded(t) ==
  numlocRows * (t + 1) + (IF Calls!BottomBound(t) THEN -1 ELSE 1)

\* Mutant of endRow: every strip skips its last row.
endRowShort(t) == numlocRows * (t + 1) - 1

endRow(t) == numlocRows * (t + 1) - (IF Calls!BottomBound(t) THEN 1 ELSE 0)

\* The cells task t updates: its rows without the left and right boundary.
Strip(t) == (startRow(t) .. endRow(t) - 1) \X (1 .. numCols - 2)

\* getSrcVec and getDestVec, by the number of the iteration.
SrcIsU1(n) == n % 2 = 0
getSrcVec(n) == IF SrcIsU1(n) THEN u1 ELSE u2

Working(t, ph) == tpc[t] = "work" /\ phase[t] = ph
-----------------------------------------------------------------------------
Init ==
  /\ Calls!Init
  /\ maxIter = startMaxIter
  /\ resTermFlagSet = FALSE
  /\ u1 = u0 /\ u2 = u0
  /\ phase = [t \in TaskIds |-> "residual"]
  /\ todo = [t \in TaskIds |-> Strip(t)]

\* isPreCondsMet and hasFinishedIters, the parts of the lambda around the task:
\* the second reads maxIter without a lock.
Test(t) ==
  /\ Calls!ReadUp(t) \/ Calls!ReadDown(t) \/ Calls!HasFinishedIters(t, maxIter)
  /\ UNCHANGED <<stopVars, u1, u2, phase, todo>>

\* isResTerCriMet: the residual exchanged by the tasks may be found on either
\* side of the tolerance, but only one task decides.
IsResTerCriMet(t) ==
  \/ phase' = [phase EXCEPT ![t] = "update"] /\ UNCHANGED resTermFlagSet
  \/ /\ ~resTermFlagSet
     /\ resTermFlagSet' = TRUE
     /\ phase' = [phase EXCEPT ![t] = "changeMaxIter"]

\* getLocResidual has read the whole strip and the rows around it.
GetLocResidual(t) ==
  /\ Working(t, "residual")
  /\ IsResTerCriMet(t)
  /\ UNCHANGED <<callVars, maxIter, u1, u2, todo>>

\* Mutant of ChangeMaxIter: stop after the present iteration.
ChangeMaxIterNow(t) ==
  /\ Working(t, "changeMaxIter")
  /\ maxIter' = iter_number[t] + 1
  /\ phase' = [phase EXCEPT ![t] = "update"]
  /\ UNCHANGED <<callVars, resTermFlagSet, u1, u2, todo>>

\* The early stop (its assertion, see SyncResidual, would end the process).
ChangeMaxIter(t) ==
  /\ Working(t, "changeMaxIter")
  /\ maxIter' = iter_number[t] + numTasks
  /\ phase' = [phase EXCEPT ![t] = "update"]
  /\ UNCHANGED <<callVars, resTermFlagSet, u1, u2, todo>>

\* One pass of the inner loop of updateGrid.
UpdateCell(t) ==
  /\ Working(t, "update")
  /\ \E c \in First(todo[t]) :
       LET src == getSrcVec(iter_number[t]) IN
       /\ todo' = [todo EXCEPT ![t] = @ \ {c}]
       /\ IF SrcIsU1(iter_number[t])
            THEN u2' = [u2 EXCEPT ![c] = Relaxed(src, c)] /\ UNCHANGED u1
            ELSE u1' = [u1 EXCEPT ![c] = Relaxed(src, c)] /\ UNCHANGED u2
  /\ UNCHANGED <<callVars, stopVars, phase>>

\* updateGrid and performTask return, then setPostConds.
SetPostConds(t) ==
  /\ Working(t, "update") /\ todo[t] = {}
  /\ Calls!SetPostConds(t)
  /\ phase' = [phase EXCEPT ![t] = "residual"]
  /\ todo' = [todo EXCEPT ![t] = Strip(t)]
  /\ UNCHANGED <<stopVars, u1, u2>>

Finished == \A t \in TaskIds : tpc[t] = "finished"

\* All tasks are done; main returns.
Ended == Finished /\ UNCHANGED vars

Task(t) ==
  Test(t) \/ GetLocResidual(t) \/ ChangeMaxIter(t) \/ UpdateCell(t) \/ SetPostConds(t)

Next == (\E t \in TaskIds : Task(t)) \/ Ended

Spec == Init /\ [][Next]_vars
-----------------------------------------------------------------------------
TypeOK ==
  /\ iter_number \in [TaskIds -> 0 .. maxBound]
  /\ tpc \in [TaskIds -> {"up", "down", "work", "check", "finished"}]
  /\ diff1 \in [TaskIds -> -1 .. 1]
  /\ maxIter \in 1 .. maxBound
  /\ resTermFlagSet \in BOOLEAN
  /\ DOMAIN u1 = Cells /\ DOMAIN u2 = Cells
  /\ phase \in [TaskIds -> {"residual", "changeMaxIter", "update"}]
  /\ todo \in [TaskIds -> SUBSET Interior]

\* The cells a call of task t may still read in its source buffer, and write
\* in the other one.
Reads(t) == IF tpc[t] = "work" THEN UNION {Around(c) : c \in todo[t]} ELSE {}
Writes(t) == IF tpc[t] = "work" THEN todo[t] ELSE {}

(***************************************************************************)
(* "used to avoid race conditions" (grid.cpp:111): no two tasks that are   *)
(* at work touch the same cell of the same buffer, one of them writing,    *)
(* although neighbours work at the same time and in different iterations.  *)
(***************************************************************************)
RaceFree ==
  \A t, v \in TaskIds :
    t # v =>
      /\ (SrcIsU1(iter_number[t]) <=> SrcIsU1(iter_number[v])) =>
           Writes(t) \cap Writes(v) = {}
      /\ ~(SrcIsU1(iter_number[t]) <=> SrcIsU1(iter_number[v])) =>
           Writes(t) \cap Reads(v) = {}

(***************************************************************************)
(* Everything a task at work still reads, for the residual or the update,  *)
(* including the rows of its neighbours, is the iterate the serial solver  *)
(* has after the same number of sweeps.                                    *)
(***************************************************************************)
ReadsSerialIterate ==
  \A t \in TaskIds :
    \A c \in Reads(t) : getSrcVec(iter_number[t])[c] = Serial[iter_number[t]][c]

(***************************************************************************)
(* Wherever the early stop sets the bound while the tasks run, unless it   *)
(* raises it: when all have stopped, both buffers are what the serial      *)
(* solver has after as many sweeps, the last iterate and the one before,   *)
(* in the strips of all tasks.                                             *)
(***************************************************************************)
FinalIsSerial ==
  Finished /\ maxIter <= startMaxIter =>
    /\ getSrcVec(maxIter) = Serial[maxIter]
    /\ getSrcVec(maxIter - 1) = Serial[maxIter - 1]
=============================================================================

------------------------------ MODULE TaskCalls ------------------------------
(***************************************************************************)
(* The tasks of the dynamic scheduler without the pool: each task is       *)
(* called again and again, by one worker at a time (the pool's             *)
(* TaskConservation), until its lambda returns false.  Which worker calls  *)
(* it, and in which order the queue hands tasks out, is left open.  The    *)
(* dynamic scheduler implements this module (DynamicScheduler!             *)
(* ImplementsTaskCalls); the modules that open up the body of a task,      *)
(* JacobiTask and SyncResidual, build on it.                               *)
(***************************************************************************)
EXTENDS Integers

CONSTANTS
  numTasks,   \* Utility::numTasks
  maxIter     \* Utility::maxIter at the start

VARIABLES
  iter_number,   \* iter_number[t]: iterations task t has completed
  tpc,           \* tpc[t]: where the lambda of t is, "up" also between two calls
  diff1          \* diff1[t]: local of isPreCondsMet, distance to the upper task

vars == <<iter_number, tpc, diff1>>

TaskIds == 0 .. numTasks - 1

TopBound(t) == t = 0
BottomBound(t) == t = numTasks - 1

Diff(t, u) == iter_number[t] - iter_number[u]

At(t, label) == tpc[t] = label
Step(t, label) == tpc' = [tpc EXCEPT ![t] = label]
-----------------------------------------------------------------------------
Init ==
  /\ iter_number = [t \in TaskIds |-> 0]
  /\ tpc = [t \in TaskIds |-> "up"]
  /\ diff1 = [t \in TaskIds |-> 0]

\* isPreCondsMet, first half.
ReadUp(t) ==
  /\ At(t, "up")
  /\ diff1' = [diff1 EXCEPT ![t] = IF TopBound(t) THEN 0 ELSE Diff(t, t - 1)]
  /\ Step(t, "down")
  /\ UNCHANGED iter_number

\* Mutant of ReadDown: the two conditions are joined by "or".
ReadDownEither(t) ==
  LET diff2 == IF BottomBound(t) THEN 0 ELSE Diff(t, t + 1)
      isPreCondsMet == diff1[t] \in {-1, 0} \/ diff2 \in {-1, 0}
  IN /\ At(t, "down")
     /\ Step(t, IF isPreCondsMet THEN "work" ELSE "check")
     /\ diff1' = [diff1 EXCEPT ![t] = 0]
     /\ UNCHANGED iter_number

\* Second half.  Its assertion never fails (DynamicScheduler!PreCondsSane).
ReadDown(t) ==
  LET diff2 == IF BottomBound(t) THEN 0 ELSE Diff(t, t + 1)
      isPreCondsMet == diff1[t] \in {-1, 0} /\ diff2 \in {-1, 0}
  IN /\ At(t, "down")
     /\ Step(t, IF isPreCondsMet THEN "work" ELSE "check")
     /\ diff1' = [diff1 EXCEPT ![t] = 0]
     /\ UNCHANGED iter_number

\* The task has been performed.
SetPostConds(t) ==
  /\ At(t, "work")
  /\ iter_number' = [iter_number EXCEPT ![t] = @ + 1]
  /\ Step(t, "check")
  /\ UNCHANGED diff1

\* The lambda returns; bound is the value of Utility::maxIter it reads.
HasFinishedIters(t, bound) ==
  /\ At(t, "check")
  /\ Step(t, IF iter_number[t] >= bound THEN "finished" ELSE "up")
  /\ UNCHANGED <<iter_number, diff1>>

Next ==
  \E t \in TaskIds :
    ReadUp(t) \/ ReadDown(t) \/ SetPostConds(t) \/ HasFinishedIters(t, maxIter)

Spec == Init /\ [][Next]_vars
=============================================================================

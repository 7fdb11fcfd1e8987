-------------------------- MODULE DynamicScheduler --------------------------
(***************************************************************************)
(* The dynamic scheduler as main.cpp builds it: numTasks tasks in a column *)
(* of strips, each enqueued once in the pool of ThreadPool.tla as the      *)
(* lambda                                                                  *)
(*                                                                         *)
(*    if (isPreCondsMet()) { sleepCycles(); setPostConds(); }              *)
(*    return not hasFinishedIters();                                       *)
(*                                                                         *)
(* A worker calls it in several steps: the iteration counters of the two   *)
(* neighbours are read one after the other, without any lock, while other  *)
(* workers advance them.  The duration of sleepCycles is the time between  *)
(* the last read and the step of setPostConds.                             *)
(***************************************************************************)
EXTENDS Integers, Sequences, FiniteSets

CONSTANTS
  numThreads,   \* Utility::numThreads
  numTasks,     \* Utility::numTasks
  num_cores,    \* processors online
  maxIter,      \* Utility::maxIter
  NDEBUG        \* TRUE if assert() is compiled out

ASSUME numThreadsAssumption == numThreads \in Nat \ {0}
\* With one task, main would wire its neighbour from past the end of tasks.
ASSUME numTasksAssumption == numTasks \in Nat \ {0, 1}
ASSUME maxIterAssumption == maxIter \in Nat
ASSUME num_coresAssumption == num_cores \in Nat \ {0}
ASSUME NDEBUGAssumption == NDEBUG \in BOOLEAN

VARIABLES
  tasks, stop, numTasksDone, wpc, task, mpc, task_id, gtiming, report, fault,
  iter_number,   \* iter_number[t]: the plain size_t of Task object t
  tpc,           \* tpc[w]: where worker w is inside the lambda
  diff1          \* diff1[w]: local of isPreCondsMet, distance to the upper task

poolVars ==
  <<tasks, stop, numTasksDone, wpc, task, mpc, task_id, gtiming, report, fault>>
taskVars == <<iter_number, tpc, diff1>>
vars == <<poolVars, taskVars>>

Pool == INSTANCE ThreadPool

Workers == 0 .. numThreads - 1
TaskIds == 0 .. numTasks - 1

\* boundary_ and nbrs_ as main sets them: task 0 is the top, the last the bottom.
TopBound(t) == t = 0
BottomBound(t) == t = numTasks - 1

AssertGap == "assert(max(abs(diff1), abs(diff2)) <= 1)"

\* Subtraction of two size_t counters, narrowed to int: the signed distance.
Diff(t, u) == iter_number[t] - iter_number[u]

Inside(w, label) == Pool!At(w, "call") /\ tpc[w] = label
Step(w, label) == tpc' = [tpc EXCEPT ![w] = label]
-----------------------------------------------------------------------------
Init ==
  /\ Pool!Init
  /\ iter_number = [t \in TaskIds |-> 0]
  /\ tpc = [w \in Workers |-> "up"]
  /\ diff1 = [w \in Workers |-> 0]

\* Mutant of ReadUp: main forgets to wire the upper neighbours.
ReadUpUnwired(w) ==
  /\ Inside(w, "up")
  /\ diff1' = [diff1 EXCEPT ![w] = 0]
  /\ Step(w, "down")
  /\ UNCHANGED <<poolVars, iter_number>>

\* isPreCondsMet, first half: read the counter of the upper neighbour.
ReadUp(w) ==
  /\ Inside(w, "up")
  /\ diff1' = [diff1 EXCEPT ![w] =
                 IF TopBound(task[w]) THEN 0 ELSE Diff(task[w], task[w] - 1)]
  /\ Step(w, "down")
  /\ UNCHANGED <<poolVars, iter_number>>

(* Mutants of ReadDown: a wrong test in isPreCondsMet. *)

\* A task may also run when it is one ahead of a neighbour.
ReadDownAhead(w) ==
  LET diff2 == IF BottomBound(task[w]) THEN 0 ELSE Diff(task[w], task[w] + 1)
      sane == diff1[w] \in -1 .. 1 /\ diff2 \in -1 .. 1
  IN /\ Inside(w, "down")
     /\ IF ~sane /\ ~NDEBUG
          THEN fault' = AssertGap /\ UNCHANGED taskVars
          ELSE /\ Step(w, "work")
               /\ diff1' = [diff1 EXCEPT ![w] = 0]
               /\ UNCHANGED <<fault, iter_number>>
     /\ UNCHANGED <<tasks, stop, numTasksDone, wpc, task, mpc, task_id, gtiming, report>>

\* The two conditions are joined by "or".
ReadDownEither(w) ==
  LET diff2 == IF BottomBound(task[w]) THEN 0 ELSE Diff(task[w], task[w] + 1)
      isPreCondsMet == diff1[w] \in {-1, 0} \/ diff2 \in {-1, 0}
  IN /\ Inside(w, "down")
     /\ Step(w, IF isPreCondsMet THEN "work" ELSE "check")
     /\ diff1' = [diff1 EXCEPT ![w] = 0]
     /\ UNCHANGED <<poolVars, iter_number>>

\* Only equal iteration numbers let a task run.
ReadDownEqual(w) ==
  LET diff2 == IF BottomBound(task[w]) THEN 0 ELSE Diff(task[w], task[w] + 1)
      isPreCondsMet == diff1[w] = 0 /\ diff2 = 0
  IN /\ Inside(w, "down")
     /\ Step(w, IF isPreCondsMet THEN "work" ELSE "check")
     /\ diff1' = [diff1 EXCEPT ![w] = 0]
     /\ UNCHANGED <<poolVars, iter_number>>

\* Second half: read the lower neighbour, check the assertion, decide.
ReadDown(w) ==
  LET diff2 == IF BottomBound(task[w]) THEN 0 ELSE Diff(task[w], task[w] + 1)
      isPreCondsMet == diff1[w] \in {-1, 0} /\ diff2 \in {-1, 0}
      sane == diff1[w] \in -1 .. 1 /\ diff2 \in -1 .. 1
  IN /\ Inside(w, "down")
     /\ IF ~sane /\ ~NDEBUG
          THEN fault' = AssertGap /\ UNCHANGED taskVars
          ELSE /\ Step(w, IF isPreCondsMet THEN "work" ELSE "check")
               /\ diff1' = [diff1 EXCEPT ![w] = 0]
               /\ UNCHANGED <<fault, iter_number>>
     /\ UNCHANGED <<tasks, stop, numTasksDone, wpc, task, mpc, task_id, gtiming, report>>

\* sleepCycles is over: iter_number++.
SetPostConds(w) ==
  /\ Inside(w, "work")
  /\ iter_number' = [iter_number EXCEPT ![task[w]] = @ + 1]
  /\ Step(w, "check")
  /\ UNCHANGED <<poolVars, diff1>>

\* Mutant of HasFinishedIters: > instead of >=.
HasFinishedItersLate(w) ==
  /\ Inside(w, "check")
  /\ Pool!Return(w, ~(iter_number[task[w]] > maxIter))
  /\ Step(w, "up")
  /\ UNCHANGED <<iter_number, diff1>>

\* Mutant of HasFinishedIters: the last iteration is left out.
HasFinishedItersEarly(w) ==
  /\ Inside(w, "check")
  /\ Pool!Return(w, ~(iter_number[task[w]] + 1 >= maxIter))
  /\ Step(w, "up")
  /\ UNCHANGED <<iter_number, diff1>>

\* The lambda returns whether the task has iterations left.
HasFinishedIters(w) ==
  /\ Inside(w, "check")
  /\ Pool!Return(w, ~(iter_number[task[w]] >= maxIter))
  /\ Step(w, "up")
  /\ UNCHANGED <<iter_number, diff1>>

CallTask(w) == ReadUp(w) \/ ReadDown(w) \/ SetPostConds(w) \/ HasFinishedIters(w)

WorkerStep(w) == CallTask(w) \/ (Pool!PoolStep(w) /\ UNCHANGED taskVars)

MainStep == Pool!Main /\ UNCHANGED taskVars

Next ==
  \/ MainStep
  \/ \E w \in Workers : WorkerStep(w)
  \/ \E w \in Workers : Pool!SpuriousWakeup(w) /\ UNCHANGED taskVars
  \/ Pool!Ended /\ UNCHANGED taskVars

Spec == Init /\ [][Next]_vars

(***************************************************************************)
(* Every thread keeps being scheduled by the operating system and gets     *)
(* queue_mutex when it wants it.  A task whose pre-condition fails goes    *)
(* back to the queue, so nothing but the FIFO order makes it progress.     *)
(***************************************************************************)
Fairness == WF_vars(MainStep) /\ \A w \in Workers : WF_vars(WorkerStep(w))

FairSpec == Spec /\ Fairness
-----------------------------------------------------------------------------
\* The iteration a task stops at: the first call runs before any test.
lastIter == IF maxIter = 0 THEN 1 ELSE maxIter

TypeOK ==
  /\ iter_number \in [TaskIds -> 0 .. lastIter]
  /\ tpc \in [Workers -> {"up", "down", "work", "check"}]
  /\ diff1 \in [Workers -> -1 .. 1]
  /\ fault \in {"none", AssertGap, Pool!TooManyThreads,
              Pool!EnqueueOnStopped, Pool!AssertStop}

(***************************************************************************)
(* The sanity check of isPreCondsMet (task.cpp:297): although the counters *)
(* of the two neighbours are read at different times and without a lock,   *)
(* neither is ever seen more than one iteration away.                      *)
(***************************************************************************)
PreCondsSane == fault # AssertGap

(***************************************************************************)
(* A worker that is past the pre-condition still has both neighbours at or *)
(* ahead of its own iteration, however long ago it looked at them, and no  *)
(* neighbour has overtaken it by more than one: it may use the iterate     *)
(* that both neighbours have produced.                                     *)
(***************************************************************************)
PreCondsStillHold ==
  \A w \in Workers :
    wpc[w] = "call" /\ tpc[w] = "work" =>
      \A u \in {task[w] - 1, task[w] + 1} \cap TaskIds :
        iter_number[u] - iter_number[task[w]] \in {0, 1}

(***************************************************************************)
(* The pool only stops when the whole computation is over: every task has  *)
(* reached its last iteration and none has gone beyond it.                 *)
(***************************************************************************)
StopMeansSolved ==
  stop => \A t \in TaskIds : iter_number[t] = lastIter

(***************************************************************************)
(* "stencils often have dependency on neighboring grids only": reading the *)
(* neighbours separately and acting later still yields only behaviours of  *)
(* StencilOrder, where test and iteration are one atomic step.             *)
(***************************************************************************)
Stencil == INSTANCE StencilOrder
ImplementsStencilOrder == Stencil!Spec

(***************************************************************************)
(* No two tasks are ever further apart in iterations than in the column,   *)
(* so that all of them are within numTasks consecutive iterations.  The    *)
(* pool itself would let one task run ahead of all others; the rings of    *)
(* numTasks slots in Task (loc_iters_, loc_res2_) rely on it.              *)
(***************************************************************************)
BoundedSpread == Stencil!BoundedSpread

(***************************************************************************)
(* The pool adds nothing to what the lambda does and loses nothing: seen   *)
(* from the tasks, with the state of the worker that calls a task taken as *)
(* the state of the task, only the behaviours of TaskCalls are left.       *)
(***************************************************************************)
Callers(t) == {w \in Workers : wpc[w] = "call" /\ task[w] = t}

callPC ==
  [t \in TaskIds |->
     IF Callers(t) # {} THEN tpc[CHOOSE w \in Callers(t) : TRUE]
     ELSE IF iter_number[t] >= lastIter THEN "finished" ELSE "up"]

callDiff ==
  [t \in TaskIds |->
     IF Callers(t) # {} THEN diff1[CHOOSE w \in Callers(t) : TRUE] ELSE 0]

Lambda == INSTANCE TaskCalls WITH tpc <- callPC, diff1 <- callDiff
ImplementsTaskCalls == Lambda!Spec

(***************************************************************************)
(* Local barriers and re-enqueueing neither deadlock nor spin for ever:    *)
(* every task reaches its last iteration, and after that every worker ends *)
(* and main returns, unless two workers stop the pool and the slower one   *)
(* fails the assertion of the pool (see ThreadPool!StopSetOnce).           *)
(***************************************************************************)
ComputationEnds ==
  <>[](/\ \A t \in TaskIds : iter_number[t] = lastIter
       /\ mpc = "returned" \/ fault = Pool!AssertStop)
=============================================================================

------------------------ MODULE StaticDecomposition ------------------------
(***************************************************************************)
(* The static scheduler of staticScheduling/staticDecomposition.cpp: main  *)
(* deals the tasks out to the threads once, as ranges of task ids, and     *)
(* starts the threads; every thread runs its range once per iteration and  *)
(* meets the others at a barrier before the next one.                      *)
(*                                                                         *)
(* The barrier is the pthread barrier that Barrier.hpp wraps (external):   *)
(* the last thread to arrive releases the round, and each thread leaves it *)
(* at its own pace, possibly when a faster one has already arrived at the  *)
(* next round.                                                             *)
(***************************************************************************)
EXTENDS Integers, FiniteSets

CONSTANTS
  niters,     \* iterations
  nthreads,   \* threads
  ntasks,     \* tasks
  num_cores   \* processors online

\* setThreadTaskMap divides by nthreads, setTaskCycles writes element ntasks - 1.
ASSUME nitersAssumption == niters \in Nat
ASSUME nthreadsAssumption == nthreads \in Nat \ {0}
ASSUME ntasksAssumption == ntasks \in Nat \ {0}
ASSUME num_coresAssumption == num_cores \in Nat \ {0}

VARIABLES
  taskInds,   \* taskInds[tid]: the pair <<start, end>> of the range of tid
  mpc,        \* where main is: "map", "spawn", "join", "returned"
  tpc,        \* tpc[tid]: where thread tid is
  iter,       \* iter[tid]: loop variable, the iteration tid is in
  taskid,     \* taskid[tid]: loop variable task, the next task of tid
  arrived,    \* the threads the barrier holds in its current round
  done,       \* done[t]: how often task t was executed to its end
  fault       \* why the process died, "none" while it lives

vars == <<taskInds, mpc, tpc, iter, taskid, arrived, done, fault>>

Threads == 0 .. nthreads - 1
TaskIds == 0 .. ntasks - 1

ThreadPC == {"unborn", "pin", "loop", "tasks", "sleep", "barrier", "ended"}

TooManyThreads == "numThreads exceeded than max number of CPUs"

Unborn == {tid \in Threads : tpc[tid] = "unborn"}

At(tid, label) == fault = "none" /\ tpc[tid] = label
Goto(tid, label) == tpc' = [tpc EXCEPT ![tid] = label]
-----------------------------------------------------------------------------
\* Mutant of Share: the last thread does not take the remainder.
ShareWithoutRemainder(tid) ==
  LET tasks_per_thread == ntasks \div nthreads
  IN <<tid * tasks_per_thread, (tid + 1) * tasks_per_thread>>

\* Mutant of Share: the end of a range is taken to be inclusive.
ShareInclusive(tid) ==
  LET tasks_per_thread == ntasks \div nthreads
  IN <<tid * tasks_per_thread,
       IF tid = nthreads - 1 THEN ntasks ELSE (tid + 1) * tasks_per_thread + 1>>

\* The range of tid: equal shares, the last thread also takes the remainder.
Share(tid) ==
  LET tasks_per_thread == ntasks \div nthreads
  IN <<tid * tasks_per_thread,
       IF tid = nthreads - 1 THEN ntasks ELSE (tid + 1) * tasks_per_thread>>

Init ==
  /\ taskInds = [tid \in Threads |-> <<0, 0>>]
  /\ mpc = "map"
  /\ tpc = [tid \in Threads |-> "unborn"]
  /\ iter = [tid \in Threads |-> 0]
  /\ taskid = [tid \in Threads |-> 0]
  /\ arrived = {}
  /\ done = [t \in TaskIds |-> 0]
  /\ fault = "none"

setThreadTaskMap ==
  /\ mpc = "map"
  /\ taskInds' = [tid \in Threads |-> Share(tid)]
  /\ mpc' = "spawn"
  /\ UNCHANGED <<tpc, iter, taskid, arrived, done, fault>>

\* runAllTasks starts the threads one by one, in the order of their ids.
Spawn ==
  /\ fault = "none" /\ mpc = "spawn"
  /\ \E tid \in Unborn :
       /\ \A other \in Unborn : tid <= other
       /\ Goto(tid, "pin")
       /\ mpc' = IF tid = nthreads - 1 THEN "join" ELSE "spawn"
  /\ UNCHANGED <<taskInds, iter, taskid, arrived, done, fault>>

\* ... and joins them.
Join ==
  /\ fault = "none" /\ mpc = "join"
  /\ \A tid \in Threads : tpc[tid] = "ended"
  /\ mpc' = "returned"
  /\ UNCHANGED <<taskInds, tpc, iter, taskid, arrived, done, fault>>

Main == setThreadTaskMap \/ Spawn \/ Join
-----------------------------------------------------------------------------
\* pinThreadOnSocket throws, in the thread, when there are too few processors.
pinThreadOnSocket(tid) ==
  /\ At(tid, "pin")
  /\ IF nthreads > num_cores
       THEN fault' = TooManyThreads /\ UNCHANGED tpc
       ELSE Goto(tid, "loop") /\ UNCHANGED fault
  /\ UNCHANGED <<taskInds, mpc, iter, taskid, arrived, done>>

\* Head of the iteration loop.
StartIter(tid) ==
  /\ At(tid, "loop")
  /\ IF iter[tid] < niters
       THEN /\ Goto(tid, "tasks")
            /\ taskid' = [taskid EXCEPT ![tid] = taskInds[tid][1]]
       ELSE /\ Goto(tid, "ended")
            /\ UNCHANGED taskid
  /\ UNCHANGED <<taskInds, mpc, iter, arrived, done, fault>>

\* sleepCycles, the synthetic task, begins ...
StartTask(tid) ==
  /\ At(tid, "tasks")
  /\ taskid[tid] < taskInds[tid][2]
  /\ Goto(tid, "sleep")
  /\ UNCHANGED <<taskInds, mpc, iter, taskid, arrived, done, fault>>

\* ... and ends.
EndTask(tid) ==
  /\ At(tid, "sleep")
  /\ done' = [done EXCEPT ![taskid[tid]] = @ + 1]
  /\ taskid' = [taskid EXCEPT ![tid] = @ + 1]
  /\ Goto(tid, "tasks")
  /\ UNCHANGED <<taskInds, mpc, iter, arrived, fault>>

\* Mutant of applyBarrier: the barrier is initialised for one thread too few.
applyBarrierOneShort(tid) ==
  /\ At(tid, "tasks")
  /\ ~(taskid[tid] < taskInds[tid][2])
  /\ arrived' = IF Cardinality(arrived) + 1 >= nthreads - 1 THEN {} ELSE arrived \cup {tid}
  /\ Goto(tid, "barrier")
  /\ UNCHANGED <<taskInds, mpc, iter, taskid, done, fault>>

\* Mutant of applyBarrier: the barrier counts one thread more, say main.
applyBarrierOneMore(tid) ==
  /\ At(tid, "tasks")
  /\ ~(taskid[tid] < taskInds[tid][2])
  /\ arrived' = IF Cardinality(arrived) + 1 = nthreads + 1 THEN {} ELSE arrived \cup {tid}
  /\ Goto(tid, "barrier")
  /\ UNCHANGED <<taskInds, mpc, iter, taskid, done, fault>>

\* pthread_barrier_wait is called; the last of nthreads releases the round.
applyBarrier(tid) ==
  /\ At(tid, "tasks")
  /\ ~(taskid[tid] < taskInds[tid][2])
  /\ arrived' = IF Cardinality(arrived) + 1 = nthreads THEN {} ELSE arrived \cup {tid}
  /\ Goto(tid, "barrier")
  /\ UNCHANGED <<taskInds, mpc, iter, taskid, done, fault>>

\* ... and returns, once the round of this thread was released.
LeaveBarrier(tid) ==
  /\ At(tid, "barrier")
  /\ tid \notin arrived
  /\ iter' = [iter EXCEPT ![tid] = @ + 1]
  /\ Goto(tid, "loop")
  /\ UNCHANGED <<taskInds, mpc, taskid, arrived, done, fault>>

Thread(tid) ==
  \/ pinThreadOnSocket(tid) \/ StartIter(tid) \/ StartTask(tid)
  \/ EndTask(tid) \/ applyBarrier(tid) \/ LeaveBarrier(tid)

\* The process has ended, normally or not.
Ended ==
  /\ mpc = "returned" \/ fault # "none"
  /\ UNCHANGED vars

Next == Main \/ (\E tid \in Threads : Thread(tid)) \/ Ended

Spec == Init /\ [][Next]_vars

\* The operating system keeps scheduling every thread.
Fairness == WF_vars(Main) /\ \A tid \in Threads : WF_vars(Thread(tid))

FairSpec == Spec /\ Fairness
-----------------------------------------------------------------------------
TypeOK ==
  /\ taskInds \in [Threads -> (0 .. ntasks) \X (0 .. ntasks)]
  /\ mpc \in {"map", "spawn", "join", "returned"}
  /\ tpc \in [Threads -> ThreadPC]
  /\ iter \in [Threads -> 0 .. niters]
  /\ taskid \in [Threads -> 0 .. ntasks]
  /\ arrived \in SUBSET Threads
  /\ done \in [TaskIds -> 0 .. niters]
  /\ fault \in {"none", TooManyThreads}

(***************************************************************************)
(* Bulk synchrony: while a thread executes a task of iteration k (counted  *)
(* from 0), every task of the grid has completed k iterations and none has *)
(* completed more than k + 1, although threads leave the barrier one by    *)
(* one and some are already waiting in the next round.                     *)
(***************************************************************************)
BulkSynchronous ==
  \A tid \in Threads :
    tpc[tid] = "sleep" =>
      /\ done[taskid[tid]] = iter[tid]
      /\ \A t \in TaskIds : done[t] - iter[tid] \in {0, 1}

(***************************************************************************)
(* The threads share out the tasks without overlap, whatever the division  *)
(* leaves over: no two threads ever execute the same task at once.         *)
(***************************************************************************)
NoSharedTask ==
  \A a, b \in Threads :
    tpc[a] = "sleep" /\ tpc[b] = "sleep" /\ taskid[a] = taskid[b] => a = b

(***************************************************************************)
(* When main returns, every task has been executed in every iteration.     *)
(***************************************************************************)
AllTasksExecuted == mpc = "returned" => \A t \in TaskIds : done[t] = niters

(***************************************************************************)
(* The global barrier is one way to keep the order of neighbouring strips  *)
(* that the dynamic scheduler keeps locally.                               *)
(***************************************************************************)
Stencil == INSTANCE StencilOrder
             WITH numTasks <- ntasks, lastIter <- niters, iter_number <- done
ImplementsStencilOrder == Stencil!Spec

(***************************************************************************)
(* Every thread passes all its barriers and main joins them all.           *)
(***************************************************************************)
AllThreadsJoined == <>(mpc = "returned")
=============================================================================

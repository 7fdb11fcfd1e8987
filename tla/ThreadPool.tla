----------------------------- MODULE ThreadPool -----------------------------
(***************************************************************************)
(* The worker pool of include/ThreadPool/ThreadPool.hpp together with the  *)
(* thread that feeds it (the enqueue loop of main.cpp and, at exit, the    *)
(* destructor of the pool).  A critical section of queue_mutex is one      *)
(* action: every access to the queue is made under that mutex, and the     *)
(* only variable read outside it, stop, is written by a section that       *)
(* writes nothing else.  The body of a task is left open here: task()      *)
(* returns whether the task wants to run again (DynamicScheduler fills it  *)
(* in).                                                                    *)
(***************************************************************************)
EXTENDS Integers, Sequences, FiniteSets

CONSTANTS
  numThreads,   \* Utility::numThreads
  numTasks,     \* Utility::numTasks
  num_cores,    \* processors online
  NDEBUG        \* TRUE if assert() is compiled out (the Makefile leaves it in)

ASSUME numThreadsAssumption == numThreads \in Nat \ {0}
ASSUME numTasksAssumption == numTasks \in Nat \ {0}
ASSUME num_coresAssumption == num_cores \in Nat \ {0}
ASSUME NDEBUGAssumption == NDEBUG \in BOOLEAN

VARIABLES
  tasks,         \* the FIFO queue of task functions, named by task id
  stop,          \* the flag that sends the workers home
  numTasksDone,  \* atomic counter of finished tasks
  wpc,           \* wpc[w]: where worker w is in its infinite loop
  task,          \* task[w]: the function worker w took from the queue
  mpc,           \* where main is: "enqueue", "notify", "join", "returned"
  task_id,       \* number of tasks main has enqueued
  gtiming,       \* how many times the global timers were stopped
  report,        \* what thread 0 printed as "global time taken"
  fault          \* why the process died, "none" while it lives

poolVars ==
  <<tasks, stop, numTasksDone, wpc, task, mpc, task_id, gtiming, report, fault>>

Workers == 0 .. numThreads - 1
TaskIds == 0 .. numTasks - 1
NoTask == -1

WorkerPC == {"pin", "lock", "wait", "call", "requeue", "count", "compare", "assert",
             "stop", "notifyAll", "record", "left", "exited"}

TooManyThreads == "numThreads exceeded than max number of CPUs"
EnqueueOnStopped == "enqueue on stopped ThreadPool"
AssertStop == "assert(stop == false)"

\* Workers that have taken a task they have neither put back nor counted.
Holders == {w \in Workers : wpc[w] \in {"call", "requeue", "count"}}

\* condition.notify_one(): one blocked worker, if any, goes for the mutex.
NotifyOne(pc) ==
  IF \E w \in Workers : pc[w] = "wait"
    THEN {[pc EXCEPT ![w] = "lock"] : w \in {v \in Workers : pc[v] = "wait"}}
    ELSE {pc}

Alive == fault = "none"

At(w, label) == Alive /\ wpc[w] = label
Goto(w, label) == wpc' = [wpc EXCEPT ![w] = label]
-----------------------------------------------------------------------------
(* main: the pool is constructed, its workers are started, nothing is queued. *)

Init ==
  /\ tasks = <<>>
  /\ stop = FALSE
  /\ numTasksDone = 0
  /\ wpc = [w \in Workers |-> "pin"]
  /\ task = [w \in Workers |-> NoTask]
  /\ mpc = "enqueue"
  /\ task_id = 0
  /\ gtiming = 0
  /\ report = "nothing"
  /\ fault = "none"

\* ThreadPool::enqueue up to the end of its critical section.
Enqueue ==
  /\ Alive /\ mpc = "enqueue"
  /\ IF stop
       THEN /\ fault' = EnqueueOnStopped
            /\ UNCHANGED <<tasks, task_id, mpc>>
       ELSE /\ tasks' = Append(tasks, task_id)
            /\ task_id' = task_id + 1
            /\ mpc' = "notify"
            /\ UNCHANGED fault
  /\ UNCHANGED <<stop, numTasksDone, wpc, task, gtiming, report>>

\* Mutant of NotifyEnqueued: the enqueue loop runs once too often (<= num_tasks).
NotifyEnqueuedOneMore ==
  /\ Alive /\ mpc = "notify"
  /\ wpc' \in NotifyOne(wpc)
  /\ mpc' = IF task_id <= numTasks THEN "enqueue" ELSE "join"
  /\ UNCHANGED <<tasks, stop, numTasksDone, task, task_id, gtiming, report, fault>>

\* Mutant of NotifyEnqueued: enqueue does not notify.
NotifyEnqueuedSilent ==
  /\ Alive /\ mpc = "notify"
  /\ mpc' = IF task_id < numTasks THEN "enqueue" ELSE "join"
  /\ UNCHANGED <<tasks, stop, numTasksDone, wpc, task, task_id, gtiming, report, fault>>

\* ... and its notification, sent after queue_mutex was released.
NotifyEnqueued ==
  /\ Alive /\ mpc = "notify"
  /\ wpc' \in NotifyOne(wpc)
  /\ mpc' = IF task_id < numTasks THEN "enqueue" ELSE "join"
  /\ UNCHANGED <<tasks, stop, numTasksDone, task, task_id, gtiming, report, fault>>

\* ~ThreadPool, run at exit: main waits for every worker to end.
Join ==
  /\ Alive /\ mpc = "join"
  /\ \A w \in Workers : wpc[w] = "exited"
  /\ mpc' = "returned"
  /\ UNCHANGED <<tasks, stop, numTasksDone, wpc, task, task_id, gtiming, report, fault>>

Main == Enqueue \/ NotifyEnqueued \/ Join
-----------------------------------------------------------------------------
(* A worker: wait for a task, call it, put it back or count it as done.  The
   constructor starts the workers before main goes on; one that has not pinned
   itself yet is one the operating system has not run yet. *)

\* First a worker pins itself to a processor, if there is one for each.
Pin(w) ==
  /\ At(w, "pin")
  /\ IF numThreads > num_cores
       THEN fault' = TooManyThreads /\ UNCHANGED wpc
       ELSE Goto(w, "lock") /\ UNCHANGED fault
  /\ UNCHANGED <<tasks, stop, numTasksDone, task, mpc, task_id, gtiming, report>>

\* Mutant of Take: front() without pop().
TakeWithoutPop(w) ==
  /\ At(w, "lock")
  /\ tasks # <<>>
  /\ task' = [task EXCEPT ![w] = Head(tasks)]
  /\ Goto(w, "call")
  /\ UNCHANGED <<tasks, stop, numTasksDone, mpc, task_id, gtiming, report, fault>>

\* The wait is over with a task in the queue: move its front into task.
Take(w) ==
  /\ At(w, "lock")
  /\ tasks # <<>>
  /\ task' = [task EXCEPT ![w] = Head(tasks)]
  /\ tasks' = Tail(tasks)
  /\ Goto(w, "call")
  /\ UNCHANGED <<stop, numTasksDone, mpc, task_id, gtiming, report, fault>>

\* The predicate of the wait is false: release the mutex and block.
Block(w) ==
  /\ At(w, "lock")
  /\ tasks = <<>> /\ ~stop
  /\ Goto(w, "wait")
  /\ UNCHANGED <<tasks, stop, numTasksDone, task, mpc, task_id, gtiming, report, fault>>

\* A blocked worker may wake without being notified and test again.
SpuriousWakeup(w) ==
  /\ At(w, "wait")
  /\ Goto(w, "lock")
  /\ UNCHANGED <<tasks, stop, numTasksDone, task, mpc, task_id, gtiming, report, fault>>

\* stop is set and the queue is empty: break out of the infinite loop.
Leave(w) ==
  /\ At(w, "lock")
  /\ tasks = <<>> /\ stop
  /\ Goto(w, "left")
  /\ UNCHANGED <<tasks, stop, numTasksDone, task, mpc, task_id, gtiming, report, fault>>

\* task() returns.
Return(w, hasTaskNotFinished) ==
  /\ At(w, "call")
  /\ Goto(w, IF hasTaskNotFinished THEN "requeue" ELSE "count")
  /\ UNCHANGED <<tasks, stop, numTasksDone, task, mpc, task_id, gtiming, report, fault>>

\* Put the task back and notify, all under queue_mutex.
Requeue(w) ==
  /\ At(w, "requeue")
  /\ IF stop
       THEN /\ fault' = EnqueueOnStopped
            /\ UNCHANGED <<tasks, task, wpc>>
       ELSE /\ tasks' = Append(tasks, task[w])
            /\ task' = [task EXCEPT ![w] = NoTask]
            /\ wpc' \in NotifyOne([wpc EXCEPT ![w] = "lock"])
            /\ UNCHANGED fault
  /\ UNCHANGED <<stop, numTasksDone, mpc, task_id, gtiming, report>>

\* numTasksDone++, atomic by itself ...
CountDone(w) ==
  /\ At(w, "count")
  /\ numTasksDone' = numTasksDone + 1
  /\ task' = [task EXCEPT ![w] = NoTask]
  /\ Goto(w, "compare")
  /\ UNCHANGED <<tasks, stop, mpc, task_id, gtiming, report, fault>>

\* Mutant of Compare: off by one, stops when one task is still running.
CompareOneEarly(w) ==
  /\ At(w, "compare")
  /\ Goto(w, IF numTasksDone >= numTasks - 1 THEN "assert" ELSE "lock")
  /\ UNCHANGED <<tasks, stop, numTasksDone, task, mpc, task_id, gtiming, report, fault>>

\* ... but read again, in a second step, to see whether this was the last task.
Compare(w) ==
  /\ At(w, "compare")
  /\ Goto(w, IF numTasksDone = numTasks THEN "assert" ELSE "lock")
  /\ UNCHANGED <<tasks, stop, numTasksDone, task, mpc, task_id, gtiming, report, fault>>

\* assert(stop == false), read without the mutex.
CheckStop(w) ==
  /\ At(w, "assert")
  /\ IF stop /\ ~NDEBUG
       THEN fault' = AssertStop /\ UNCHANGED wpc
       ELSE Goto(w, "stop") /\ UNCHANGED fault
  /\ UNCHANGED <<tasks, stop, numTasksDone, task, mpc, task_id, gtiming, report>>

SetStop(w) ==
  /\ At(w, "stop")
  /\ stop' = TRUE
  /\ Goto(w, "notifyAll")
  /\ UNCHANGED <<tasks, numTasksDone, task, mpc, task_id, gtiming, report, fault>>

\* Mutant of NotifyAll: notify_one() instead of notify_all().
NotifyAllOne(w) ==
  /\ At(w, "notifyAll")
  /\ wpc' \in NotifyOne([wpc EXCEPT ![w] = "record"])
  /\ UNCHANGED <<tasks, stop, numTasksDone, task, mpc, task_id, gtiming, report, fault>>

\* Mutant of NotifyAll: no notification at all.
NotifyAllForgotten(w) ==
  /\ At(w, "notifyAll")
  /\ Goto(w, "record")
  /\ UNCHANGED <<tasks, stop, numTasksDone, task, mpc, task_id, gtiming, report, fault>>

NotifyAll(w) ==
  /\ At(w, "notifyAll")
  /\ wpc' = [v \in Workers |-> IF v = w THEN "record"
                               ELSE IF wpc[v] = "wait" THEN "lock" ELSE wpc[v]]
  /\ UNCHANGED <<tasks, stop, numTasksDone, task, mpc, task_id, gtiming, report, fault>>

\* Store gtime.elapsed() into gtime_count and stop gtiming.
RecordTime(w) ==
  /\ At(w, "record")
  /\ gtiming' = gtiming + 1
  /\ Goto(w, "lock")
  /\ UNCHANGED <<tasks, stop, numTasksDone, task, mpc, task_id, report, fault>>

\* After the loop; thread 0 prints the global time.
Report(w) ==
  /\ At(w, "left")
  /\ report' = IF w # 0 THEN report ELSE IF gtiming = 0 THEN "unset" ELSE "measured"
  /\ Goto(w, "exited")
  /\ UNCHANGED <<tasks, stop, numTasksDone, task, mpc, task_id, gtiming, fault>>

\* Every step of a worker that holds no task function in execution.
PoolStep(w) ==
  \/ Pin(w) \/ Take(w) \/ Block(w) \/ Leave(w) \/ Requeue(w)
  \/ CountDone(w) \/ Compare(w) \/ CheckStop(w) \/ SetStop(w)
  \/ NotifyAll(w) \/ RecordTime(w) \/ Report(w)

\* The process has ended, normally or not.
Ended ==
  /\ mpc = "returned" \/ ~Alive
  /\ UNCHANGED poolVars
-----------------------------------------------------------------------------
Next ==
  \/ Main
  \/ \E w \in Workers : PoolStep(w) \/ SpuriousWakeup(w)
  \/ \E w \in Workers, again \in BOOLEAN : Return(w, again)
  \/ Ended

Spec == Init /\ [][Next]_poolVars

(***************************************************************************)
(* The operating system keeps scheduling every thread, and a thread that   *)
(* wants queue_mutex eventually gets it.  A task that is called again and  *)
(* again eventually asks not to be called again: an assumption on the      *)
(* tasks, which DynamicScheduler does without.                             *)
(***************************************************************************)
Finish(t) == \E w \in Workers : task[w] = t /\ Return(w, FALSE)

Fairness ==
  /\ WF_poolVars(Main)
  /\ \A w \in Workers :
       WF_poolVars(PoolStep(w) \/ \E again \in BOOLEAN : Return(w, again))
  /\ \A t \in TaskIds : SF_poolVars(Finish(t))

FairSpec == Spec /\ Fairness
-----------------------------------------------------------------------------
TypeOK ==
  /\ tasks \in Seq(TaskIds)
  /\ stop \in BOOLEAN
  /\ numTasksDone \in 0 .. numTasks
  /\ wpc \in [Workers -> WorkerPC]
  /\ task \in [Workers -> TaskIds \cup {NoTask}]
  /\ mpc \in {"enqueue", "notify", "join", "returned"}
  /\ task_id \in 0 .. numTasks
  /\ gtiming \in Nat
  /\ report \in {"nothing", "unset", "measured"}
  /\ fault \in {"none", TooManyThreads, EnqueueOnStopped, AssertStop}

(***************************************************************************)
(* No task is lost and none is duplicated on its way between the queue and *)
(* the workers: the tasks that were enqueued are those queued, those held  *)
(* and those counted, and no task can be run by two workers at once (its   *)
(* iteration counter is a plain size_t).                                   *)
(***************************************************************************)
TaskConservation ==
  /\ Len(tasks) + Cardinality(Holders) + numTasksDone = task_id
  /\ \A i, j \in 1 .. Len(tasks) : tasks[i] = tasks[j] => i = j
  /\ \A w \in Holders : \A i \in 1 .. Len(tasks) : tasks[i] # task[w]
  /\ \A v, w \in Holders : task[v] = task[w] => v = w

(***************************************************************************)
(* "don't allow enqueueing after stopping the pool": neither main nor a    *)
(* worker ever reaches the throw that would terminate the process.         *)
(***************************************************************************)
NoEnqueueOnStoppedPool == fault # EnqueueOnStopped

(***************************************************************************)
(* No worker sleeps while a task waits for somebody to run it: the queued  *)
(* tasks never outnumber the awake workers that hold no task (plus the one *)
(* main is about to wake).                                                 *)
(***************************************************************************)
Asleep == {w \in Workers : wpc[w] = "wait"}
Ready == {w \in Workers : wpc[w] \in
            {"pin", "lock", "compare", "assert", "stop", "notifyAll", "record"}}

WorkConserving ==
  Asleep # {} =>
    Len(tasks) <= Cardinality(Ready) + (IF mpc = "notify" THEN 1 ELSE 0)

(***************************************************************************)
(* Nobody sleeps through the end: once stop is set, a blocked worker still *)
(* has the notify_all of some other worker ahead of it.                    *)
(***************************************************************************)
NoMissedStop ==
  stop /\ Asleep # {} => \E w \in Workers : wpc[w] = "notifyAll"

(***************************************************************************)
(* If every task eventually finishes, all workers end and main returns.    *)
(***************************************************************************)
MainReturns == <>(mpc = "returned")

(***************************************************************************)
(* ThreadPool.hpp:246 asserts that whoever sets stop is the first to do    *)
(* so.                                                                     *)
(***************************************************************************)
StopSetOnce == fault # AssertStop

(***************************************************************************)
(* What thread 0 prints as "global time taken" (ThreadPool.hpp:307) is the *)
(* time that was measured.                                                 *)
(***************************************************************************)
ReportsMeasuredTime == report # "unset"
=============================================================================

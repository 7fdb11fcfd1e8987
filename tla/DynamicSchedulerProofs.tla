----------------------- MODULE DynamicSchedulerProofs -----------------------
(***************************************************************************)
(* The dynamic scheduler for any number of workers, tasks and iterations:  *)
(* its pool behaves as ThreadPool, so everything ThreadPoolProofs shows    *)
(* holds of it, and its iteration counters behave as StencilOrder.         *)
(*                                                                         *)
(* The argument rests on two facts.  A task is in one place at a time      *)
(* (PoolInv, from ThreadPoolProofs), so while a worker runs task t nobody  *)
(* else changes the counter of t.  The counters of the neighbours only     *)
(* grow meanwhile, so a difference that was read earlier is an upper bound *)
(* of the present one (DownOK), and a pre-condition once seen to hold      *)
(* keeps holding until the task has run (WorkOK).                          *)
(***************************************************************************)
EXTENDS DynamicScheduler, TLAPS

PoolProofs == INSTANCE ThreadPoolProofs

PoolInv == PoolProofs!Inv /\ PoolProofs!Placed

Calls(w, labels) == wpc[w] = "call" /\ tpc[w] \in labels

\* A worker outside of task() is at the beginning of the lambda.
Idle == \A w \in Workers : wpc[w] # "call" => tpc[w] = "up"

\* Neighbours are never more than one iteration apart.
Gap == \A t \in TaskIds : t + 1 \in TaskIds => Diff(t, t + 1) \in -1 .. 1

\* A distance to the upper neighbour that was read can only have shrunk since.
DownOK ==
  \A w \in Workers : Calls(w, {"down"}) =>
    /\ diff1[w] \in -1 .. 1
    /\ diff1[w] <= iter_number[task[w]]
    /\ ~TopBound(task[w]) => Diff(task[w], task[w] - 1) <= diff1[w]

WorkOK ==
  \A w \in Workers : Calls(w, {"work"}) =>
    \A u \in {task[w] - 1, task[w] + 1} \cap TaskIds :
      iter_number[task[w]] <= iter_number[u]

\* No task is turned away before its first iteration.
CheckOK == \A w \in Workers : Calls(w, {"check"}) => iter_number[task[w]] >= 1

\* Queued and running tasks have iterations left, those to be counted have none.
Unfinished ==
  /\ \A i \in 1 .. Len(tasks) : iter_number[tasks[i]] < lastIter
  /\ \A w \in Workers : wpc[w] = "requeue" \/ Calls(w, {"up", "down", "work"}) =>
       iter_number[task[w]] < lastIter
  /\ \A w \in Workers : wpc[w] = "count" => iter_number[task[w]] = lastIter
  /\ \A t \in TaskIds : t >= task_id => iter_number[t] = 0

\* A task that has been enqueued is queued, held by a worker, or finished.
Accounted ==
  \A t \in TaskIds :
    \/ t >= task_id
    \/ \E i \in 1 .. Len(tasks) : tasks[i] = t
    \/ \E w \in Workers : wpc[w] \in {"call", "requeue", "count"} /\ task[w] = t
    \/ iter_number[t] = lastIter

Inv ==
  /\ TypeOK
  /\ PoolInv
  /\ Idle
  /\ Gap
  /\ DownOK
  /\ WorkOK
  /\ CheckOK
  /\ Unfinished
  /\ Accounted
  /\ PreCondsSane

LEMMA lastIterType == lastIter \in Nat \ {0} /\ maxIter <= lastIter
BY maxIterAssumption DEF lastIter

-----------------------------------------------------------------------------
(* The two instances of ThreadPool, Pool! and PoolProofs!, are the same. *)

LEMMA SamePool ==
  /\ Pool!Init <=> PoolProofs!Init
  /\ [Pool!Next]_poolVars <=> [PoolProofs!Next]_(PoolProofs!poolVars)
<1>1. Pool!Init <=> PoolProofs!Init
  BY DEF Pool!Init, PoolProofs!Init, Pool!Workers, PoolProofs!Workers,
         Pool!NoTask, PoolProofs!NoTask
<1>2. Pool!Next <=> PoolProofs!Next
  BY DEF Pool!At, PoolProofs!At, Pool!Goto, PoolProofs!Goto,
         Pool!Alive, PoolProofs!Alive, Pool!NotifyOne, PoolProofs!NotifyOne,
         Pool!Workers, PoolProofs!Workers, Pool!NoTask, PoolProofs!NoTask,
         Pool!TooManyThreads, PoolProofs!TooManyThreads,
         Pool!EnqueueOnStopped, PoolProofs!EnqueueOnStopped,
         Pool!AssertStop, PoolProofs!AssertStop, Pool!poolVars, PoolProofs!poolVars,
         Pool!Enqueue, PoolProofs!Enqueue, Pool!NotifyEnqueued, PoolProofs!NotifyEnqueued,
         Pool!Join, PoolProofs!Join, Pool!Main, PoolProofs!Main,
         Pool!Pin, PoolProofs!Pin, Pool!Take, PoolProofs!Take,
         Pool!Block, PoolProofs!Block, Pool!Leave, PoolProofs!Leave,
         Pool!SpuriousWakeup, PoolProofs!SpuriousWakeup, Pool!Return, PoolProofs!Return,
         Pool!Requeue, PoolProofs!Requeue, Pool!CountDone, PoolProofs!CountDone,
         Pool!Compare, PoolProofs!Compare, Pool!CheckStop, PoolProofs!CheckStop,
         Pool!SetStop, PoolProofs!SetStop, Pool!NotifyAll, PoolProofs!NotifyAll,
         Pool!RecordTime, PoolProofs!RecordTime, Pool!Report, PoolProofs!Report,
         Pool!PoolStep, PoolProofs!PoolStep, Pool!Ended, PoolProofs!Ended,
         Pool!Next, PoolProofs!Next
<1> QED
  BY <1>1, <1>2 DEF poolVars, PoolProofs!poolVars

\* The assumptions of ThreadPool follow from those made here.
LEMMA PoolAssumptions ==
  /\ numThreads \in Nat \ {0} /\ numTasks \in Nat \ {0}
  /\ num_cores \in Nat \ {0} /\ NDEBUG \in BOOLEAN
BY numThreadsAssumption, numTasksAssumption, num_coresAssumption, NDEBUGAssumption

LEMMA PoolInit == Pool!Init => PoolInv
<1>1. PoolProofs!Init => PoolProofs!Inv
  BY PoolAssumptions, PoolProofs!InitInv
<1>2. PoolProofs!Init => PoolProofs!Placed
  BY PoolAssumptions, PoolProofs!InitPlaced
<1> QED
  BY <1>1, <1>2, SamePool DEF PoolInv

LEMMA PoolNext == PoolInv /\ [Pool!Next]_poolVars => PoolInv'
<1>1. PoolProofs!Inv /\ [PoolProofs!Next]_(PoolProofs!poolVars) => PoolProofs!Inv'
  BY PoolAssumptions, PoolProofs!NextInv
<1>2. /\ PoolProofs!Inv /\ PoolProofs!Placed
      /\ [PoolProofs!Next]_(PoolProofs!poolVars)
      => PoolProofs!Placed'
  BY PoolAssumptions, PoolProofs!NextPlaced
<1> QED
  BY <1>1, <1>2, SamePool DEF PoolInv

\* What the rest of the proof needs to know about the pool.
LEMMA PoolFacts ==
  ASSUME PoolInv
  PROVE  /\ tasks \in Seq(TaskIds)
         /\ wpc \in [Workers -> Pool!WorkerPC]
         /\ task \in [Workers -> TaskIds \cup {-1}]
         /\ task_id \in 0 .. numTasks
         /\ mpc = "enqueue" => task_id < numTasks
         /\ fault \in {"none", Pool!TooManyThreads, Pool!EnqueueOnStopped, Pool!AssertStop}
         /\ \A w \in Workers : wpc[w] \in {"call", "requeue", "count"} => task[w] \in TaskIds
         /\ \A v, w \in Workers :
              /\ wpc[v] \in {"call", "requeue", "count"}
              /\ wpc[w] \in {"call", "requeue", "count"}
              /\ task[v] = task[w]
              => v = w
         /\ \A w \in Workers : wpc[w] \in {"call", "requeue", "count"} =>
              /\ task[w] < task_id
              /\ \A i \in 1 .. Len(tasks) : tasks[i] # task[w]
<1> USE DEF PoolInv, PoolProofs!Inv, PoolProofs!Placed, PoolProofs!TypeOK,
            PoolProofs!HoldersHold, PoolProofs!Holders, PoolProofs!MainHasTask
<1>1. PoolProofs!Workers = Workers /\ PoolProofs!TaskIds = TaskIds
  BY DEF PoolProofs!Workers, Workers, PoolProofs!TaskIds, TaskIds
<1>2. /\ tasks \in Seq(TaskIds) /\ task_id \in 0 .. numTasks
      /\ mpc = "enqueue" => task_id < numTasks
  BY <1>1
<1>3. wpc \in [Workers -> Pool!WorkerPC]
  BY <1>1 DEF Pool!WorkerPC, PoolProofs!WorkerPC
<1>4. task \in [Workers -> TaskIds \cup {-1}]
  BY <1>1 DEF PoolProofs!NoTask
<1>5. fault \in {"none", Pool!TooManyThreads, Pool!EnqueueOnStopped, Pool!AssertStop}
  BY DEF Pool!TooManyThreads, Pool!EnqueueOnStopped, Pool!AssertStop,
         PoolProofs!TooManyThreads, PoolProofs!EnqueueOnStopped, PoolProofs!AssertStop
<1> QED
  BY <1>1, <1>2, <1>3, <1>4, <1>5

-----------------------------------------------------------------------------
(* Steps of the pool: they hand tasks around but leave the counters alone. *)

InPool(w) == Pool!PoolStep(w) \/ Pool!SpuriousWakeup(w)

Quiet ==
  /\ UNCHANGED <<tasks, task, task_id>>
  /\ \A v \in Workers :
       wpc'[v] = wpc[v] \/ ({wpc'[v], wpc[v]} \cap {"call", "requeue", "count"} = {})

LEMMA NotifyOneQuiet ==
  ASSUME NEW pc \in [Workers -> Pool!WorkerPC], NEW npc \in Pool!NotifyOne(pc)
  PROVE  \A v \in Workers : npc[v] = pc[v] \/ (pc[v] = "wait" /\ npc[v] = "lock")
BY DEF Pool!NotifyOne, Workers, Pool!Workers

\* Enqueue, Take, Requeue and CountDone move a task, the other steps are quiet.
LEMMA MainMoves ==
  ASSUME PoolInv, Pool!Main
  PROVE  Quiet \/ (Pool!Enqueue /\ ~stop)
<1>1. CASE Pool!Enqueue
  BY <1>1 DEF Pool!Enqueue, Quiet
<1>2. CASE Pool!NotifyEnqueued
  <2>1. \A v \in Workers : wpc'[v] = wpc[v] \/ (wpc[v] = "wait" /\ wpc'[v] = "lock")
    BY <1>2, NotifyOneQuiet, PoolFacts DEF Pool!NotifyEnqueued
  <2> QED
    BY <1>2, <2>1 DEF Pool!NotifyEnqueued, Quiet
<1>3. CASE Pool!Join
  BY <1>3 DEF Pool!Join, Quiet
<1> QED
  BY <1>1, <1>2, <1>3 DEF Pool!Main

LEMMA WorkerMoves ==
  ASSUME PoolInv, NEW w \in Workers, InPool(w)
  PROVE  Quiet \/ Pool!Take(w) \/ (Pool!Requeue(w) /\ ~stop) \/ Pool!CountDone(w)
<1>1. CASE Pool!Requeue(w) /\ stop
  BY <1>1 DEF Pool!Requeue, Quiet
<1>2. CASE \/ Pool!Pin(w) \/ Pool!Block(w) \/ Pool!SpuriousWakeup(w) \/ Pool!Leave(w)
           \/ Pool!Compare(w) \/ Pool!CheckStop(w) \/ Pool!SetStop(w)
           \/ Pool!NotifyAll(w) \/ Pool!RecordTime(w) \/ Pool!Report(w)
  <2>1. wpc \in [Workers -> Pool!WorkerPC] /\ Pool!Workers = Workers
    BY PoolFacts DEF Pool!Workers, Workers
  <2> QED
    BY <1>2, <2>1
    DEF Pool!Pin, Pool!Block, Pool!SpuriousWakeup, Pool!Leave, Pool!Compare, Pool!CheckStop,
        Pool!SetStop, Pool!NotifyAll, Pool!RecordTime, Pool!Report, Pool!At, Pool!Goto, Quiet
<1> QED
  BY <1>1, <1>2 DEF InPool, Pool!PoolStep

\* What Requeue does to the workers.
LEMMA RequeueMoves ==
  ASSUME PoolInv, NEW w \in Workers, Pool!Requeue(w), ~stop
  PROVE  /\ wpc[w] = "requeue" /\ wpc'[w] = "lock"
         /\ \A v \in Workers \ {w} :
              wpc'[v] = wpc[v] \/ (wpc[v] = "wait" /\ wpc'[v] = "lock")
         /\ tasks' = Append(tasks, task[w])
         /\ task' = [task EXCEPT ![w] = -1]
         /\ task_id' = task_id
<1> DEFINE pc == [wpc EXCEPT ![w] = "lock"]
<1>1. pc \in [Workers -> Pool!WorkerPC] /\ pc[w] = "lock" /\ \A v \in Workers \ {w} : pc[v] = wpc[v]
  BY PoolFacts DEF Pool!WorkerPC
<1>2. wpc[w] = "requeue" /\ wpc' \in Pool!NotifyOne(pc)
  BY DEF Pool!Requeue, Pool!At
<1> HIDE DEF pc
<1>3. \A v \in Workers : wpc'[v] = pc[v] \/ (pc[v] = "wait" /\ wpc'[v] = "lock")
  BY <1>1, <1>2, NotifyOneQuiet
<1> QED
  BY <1>1, <1>2, <1>3 DEF Pool!Requeue, Pool!NoTask

LEMMA TakeMoves ==
  ASSUME PoolInv, NEW w \in Workers, Pool!Take(w)
  PROVE  /\ wpc[w] = "lock" /\ wpc'[w] = "call"
         /\ \A v \in Workers \ {w} : wpc'[v] = wpc[v] /\ task'[v] = task[v]
         /\ Len(tasks) \in Nat \ {0} /\ Len(tasks') = Len(tasks) - 1
         /\ \A i \in 1 .. Len(tasks') : tasks'[i] = tasks[i + 1]
         /\ task'[w] = tasks[1]
         /\ task_id' = task_id
<1>1. /\ tasks \in Seq(TaskIds) /\ tasks # <<>> /\ tasks' = Tail(tasks)
      /\ task' = [task EXCEPT ![w] = Head(tasks)]
  BY PoolFacts DEF Pool!Take
<1>2. /\ Len(tasks) \in Nat \ {0} /\ Len(tasks') = Len(tasks) - 1
      /\ \A i \in 1 .. Len(tasks') : tasks'[i] = tasks[i + 1]
      /\ Head(tasks) = tasks[1]
  BY <1>1
<1> QED
  BY <1>1, <1>2, PoolFacts DEF Pool!Take, Pool!At, Pool!Goto

LEMMA CountDoneMoves ==
  ASSUME PoolInv, NEW w \in Workers, Pool!CountDone(w)
  PROVE  /\ wpc[w] = "count" /\ wpc'[w] = "compare"
         /\ \A v \in Workers \ {w} : wpc'[v] = wpc[v] /\ task'[v] = task[v]
         /\ UNCHANGED <<tasks, task_id>>
BY PoolFacts DEF Pool!CountDone, Pool!At, Pool!Goto

LEMMA EnqueueMoves ==
  ASSUME PoolInv, Pool!Enqueue, ~stop
  PROVE  /\ UNCHANGED <<wpc, task>>
         /\ tasks \in Seq(TaskIds)
         /\ task_id \in TaskIds
         /\ tasks' = Append(tasks, task_id)
         /\ task_id' = task_id + 1
<1>1. /\ tasks \in Seq(TaskIds) /\ task_id \in 0 .. numTasks
      /\ mpc = "enqueue" => task_id < numTasks
  BY PoolFacts
<1>2. /\ mpc = "enqueue" /\ UNCHANGED <<wpc, task>>
      /\ tasks' = Append(tasks, task_id) /\ task_id' = task_id + 1
  BY DEF Pool!Enqueue
<1> QED
  BY <1>1, <1>2, numTasksAssumption DEF TaskIds

\* The places inside task() and behind it are reached by CallTask and Take only.
LEMMA CallsKept ==
  ASSUME PoolInv, Pool!Main \/ \E w \in Workers : InPool(w)
  PROVE  /\ \A v \in Workers : wpc[v] = "call" => wpc'[v] = "call" /\ task'[v] = task[v]
         /\ \A v \in Workers : wpc'[v] \in {"requeue", "count"} =>
              wpc'[v] = wpc[v] /\ task'[v] = task[v]
         /\ \A v \in Workers : wpc'[v] = "call" /\ wpc[v] # "call" => Pool!Take(v)
<1>1. CASE Quiet
  BY <1>1 DEF Quiet
<1>2. CASE Pool!Enqueue /\ ~stop
  BY <1>2, EnqueueMoves
<1>3. ASSUME NEW w \in Workers, Pool!Take(w)
      PROVE  /\ \A v \in Workers \ {w} : wpc'[v] = wpc[v] /\ task'[v] = task[v]
             /\ wpc[w] = "lock" /\ wpc'[w] = "call"
  BY <1>3, TakeMoves
<1>4. ASSUME NEW w \in Workers, Pool!Requeue(w), ~stop
      PROVE  /\ \A v \in Workers \ {w} : task'[v] = task[v] /\
                  (wpc'[v] = wpc[v] \/ (wpc[v] = "wait" /\ wpc'[v] = "lock"))
             /\ wpc[w] = "requeue" /\ wpc'[w] = "lock"
  BY <1>4, RequeueMoves, PoolFacts
<1>5. ASSUME NEW w \in Workers, Pool!CountDone(w)
      PROVE  /\ \A v \in Workers \ {w} : wpc'[v] = wpc[v] /\ task'[v] = task[v]
             /\ wpc[w] = "count" /\ wpc'[w] = "compare"
  BY <1>5, CountDoneMoves
<1> QED
  BY <1>1, <1>2, <1>3, <1>4, <1>5, MainMoves, WorkerMoves

\* Unfinished and Accounted follow the tasks; the counters stay as they are.
LEMMA QuietKeeps ==
  ASSUME Inv, Quiet, UNCHANGED taskVars
  PROVE  Unfinished' /\ Accounted'
<1>1. /\ UNCHANGED <<tasks, task, task_id, iter_number, tpc>>
      /\ \A v \in Workers : \A pc \in {"call", "requeue", "count"} :
           wpc'[v] = pc <=> wpc[v] = pc
  BY DEF Quiet, taskVars
<1>2. UNCHANGED lastIter
  BY DEF lastIter
<1> QED
  BY <1>1, <1>2 DEF Inv, Unfinished, Accounted, Calls

LEMMA EnqueueKeeps ==
  ASSUME Inv, Pool!Enqueue, ~stop, UNCHANGED taskVars
  PROVE  Unfinished' /\ Accounted'
<1>1. /\ UNCHANGED <<wpc, task, iter_number, tpc>>
      /\ tasks \in Seq(TaskIds) /\ task_id \in TaskIds /\ task_id \in Int
      /\ tasks' = Append(tasks, task_id) /\ task_id' = task_id + 1
  BY EnqueueMoves, numTasksAssumption DEF Inv, taskVars, TaskIds
<1>2. /\ Len(tasks) \in Nat /\ Len(tasks') = Len(tasks) + 1
      /\ \A i \in 1 .. Len(tasks) : tasks'[i] = tasks[i]
      /\ tasks'[Len(tasks) + 1] = task_id
  BY <1>1
<1>3. iter_number[task_id] < lastIter
  BY <1>1, lastIterType DEF Inv, Unfinished
<1>4. UNCHANGED lastIter
  BY DEF lastIter
<1>5. Unfinished'
  BY <1>1, <1>2, <1>3, <1>4 DEF Inv, Unfinished, Calls, TaskIds
<1>6. Accounted'
  <2> SUFFICES ASSUME NEW t \in TaskIds, ~(t >= task_id')
               PROVE  \/ \E i \in 1 .. Len(tasks') : tasks'[i] = t
                      \/ \E w \in Workers :
                           wpc'[w] \in {"call", "requeue", "count"} /\ task'[w] = t
                      \/ iter_number'[t] = lastIter
    BY <1>4 DEF Accounted
  <2>1. t = task_id \/ ~(t >= task_id)
    BY <1>1 DEF TaskIds
  <2>2. CASE t = task_id
    BY <1>2, <2>2
  <2>3. CASE ~(t >= task_id)
    <3>1. CASE \E i \in 1 .. Len(tasks) : tasks[i] = t
      BY <1>2, <3>1
    <3>2. CASE ~\E i \in 1 .. Len(tasks) : tasks[i] = t
      BY <1>1, <2>3, <3>2 DEF Inv, Accounted
    <3> QED
      BY <3>1, <3>2
  <2> QED
    BY <2>1, <2>2, <2>3
<1> QED
  BY <1>5, <1>6

LEMMA TakeKeeps ==
  ASSUME Inv, NEW w \in Workers, Pool!Take(w), UNCHANGED taskVars
  PROVE  Unfinished' /\ Accounted'
<1>1. /\ wpc[w] = "lock" /\ wpc'[w] = "call"
      /\ \A v \in Workers \ {w} : wpc'[v] = wpc[v] /\ task'[v] = task[v]
      /\ Len(tasks) \in Nat \ {0} /\ Len(tasks') = Len(tasks) - 1
      /\ \A i \in 1 .. Len(tasks') : tasks'[i] = tasks[i + 1]
      /\ task'[w] = tasks[1]
      /\ task_id' = task_id
  BY TakeMoves DEF Inv
<1>2. UNCHANGED <<iter_number, tpc>> /\ UNCHANGED lastIter
  BY DEF taskVars, lastIter
<1>3. Unfinished'
  <2>1. \A i \in 1 .. Len(tasks) : iter_number[tasks[i]] < lastIter
    BY DEF Inv, Unfinished
  <2>2. \A i \in 1 .. Len(tasks') : iter_number'[tasks'[i]] < lastIter
    BY <1>1, <1>2, <2>1
  <2>3. iter_number'[task'[w]] < lastIter
    BY <1>1, <1>2, <2>1
  <2> QED
    BY <1>1, <1>2, <2>2, <2>3 DEF Inv, Unfinished, Calls
<1>4. Accounted'
  <2>1. ASSUME NEW t \in TaskIds, NEW i \in 1 .. Len(tasks), tasks[i] = t
        PROVE  \/ \E j \in 1 .. Len(tasks') : tasks'[j] = t
               \/ \E v \in Workers : wpc'[v] \in {"call", "requeue", "count"} /\ task'[v] = t
    <3>1. CASE i = 1
      BY <1>1, <2>1, <3>1
    <3>2. CASE i # 1
      <4>1. i - 1 \in 1 .. Len(tasks') /\ tasks'[i - 1] = t
        BY <1>1, <2>1, <3>2
      <4> QED
        BY <4>1
    <3> QED
      BY <3>1, <3>2
  <2>2. ASSUME NEW v \in Workers, wpc[v] \in {"call", "requeue", "count"}
        PROVE  wpc'[v] = wpc[v] /\ task'[v] = task[v]
    BY <1>1, <2>2
  <2> QED
    BY <1>1, <1>2, <2>1, <2>2 DEF Inv, Accounted
<1> QED
  BY <1>3, <1>4

LEMMA RequeueKeeps ==
  ASSUME Inv, NEW w \in Workers, Pool!Requeue(w), ~stop, UNCHANGED taskVars
  PROVE  Unfinished' /\ Accounted'
<1>1. /\ wpc[w] = "requeue" /\ wpc'[w] = "lock"
      /\ \A v \in Workers \ {w} :
           wpc'[v] = wpc[v] \/ (wpc[v] = "wait" /\ wpc'[v] = "lock")
      /\ tasks' = Append(tasks, task[w])
      /\ task' = [task EXCEPT ![w] = -1]
      /\ task_id' = task_id
  BY RequeueMoves DEF Inv
<1>2. /\ tasks \in Seq(TaskIds) /\ task[w] \in TaskIds
      /\ \A v \in Workers \ {w} : task'[v] = task[v]
  BY <1>1, PoolFacts DEF Inv
<1>3. /\ Len(tasks) \in Nat /\ Len(tasks') = Len(tasks) + 1
      /\ \A i \in 1 .. Len(tasks) : tasks'[i] = tasks[i]
      /\ tasks'[Len(tasks) + 1] = task[w]
  BY <1>1, <1>2
<1>4. UNCHANGED <<iter_number, tpc>> /\ UNCHANGED lastIter
  BY DEF taskVars, lastIter
<1>5. Unfinished'
  <2>1. \A i \in 1 .. Len(tasks') : iter_number'[tasks'[i]] < lastIter
    BY <1>1, <1>3, <1>4 DEF Inv, Unfinished
  <2> QED
    BY <1>1, <1>2, <1>4, <2>1 DEF Inv, Unfinished, Calls
<1>6. Accounted'
  <2>1. ASSUME NEW t \in TaskIds, NEW i \in 1 .. Len(tasks), tasks[i] = t
        PROVE  \E j \in 1 .. Len(tasks') : tasks'[j] = t
    BY <1>3, <2>1
  <2>2. ASSUME NEW t \in TaskIds, NEW v \in Workers, task[v] = t,
               wpc[v] \in {"call", "requeue", "count"}
        PROVE  \/ \E j \in 1 .. Len(tasks') : tasks'[j] = t
               \/ \E u \in Workers : wpc'[u] \in {"call", "requeue", "count"} /\ task'[u] = t
    <3>1. CASE v = w
      BY <1>3, <2>2, <3>1
    <3>2. CASE v # w
      BY <1>1, <1>2, <2>2, <3>2
    <3> QED
      BY <3>1, <3>2
  <2> QED
    BY <1>1, <1>4, <2>1, <2>2 DEF Inv, Accounted
<1> QED
  BY <1>5, <1>6

LEMMA CountDoneKeeps ==
  ASSUME Inv, NEW w \in Workers, Pool!CountDone(w), UNCHANGED taskVars
  PROVE  Unfinished' /\ Accounted'
<1>1. /\ wpc[w] = "count" /\ wpc'[w] = "compare"
      /\ \A v \in Workers \ {w} : wpc'[v] = wpc[v] /\ task'[v] = task[v]
      /\ UNCHANGED <<tasks, task_id>>
  BY CountDoneMoves DEF Inv
<1>2. UNCHANGED <<iter_number, tpc>> /\ UNCHANGED lastIter
  BY DEF taskVars, lastIter
<1>3. Unfinished'
  BY <1>1, <1>2 DEF Inv, Unfinished, Calls
<1>4. Accounted'
  <2>1. iter_number[task[w]] = lastIter
    BY <1>1 DEF Inv, Unfinished
  <2> QED
    BY <1>1, <1>2, <2>1 DEF Inv, Accounted
<1> QED
  BY <1>3, <1>4

PoolFaults ==
  fault \in {"none", Pool!TooManyThreads, Pool!EnqueueOnStopped, Pool!AssertStop}

LEMMA PoolFault == PoolInv => PoolFaults
BY PoolFacts DEF PoolFaults

LEMMA PoolKeeps ==
  ASSUME Inv, UNCHANGED taskVars, Pool!Main \/ \E w \in Workers : InPool(w)
  PROVE  Inv'
<1>1. PoolInv'
  <2>1. Pool!Next
    BY DEF InPool, Pool!Next, Pool!Workers, Workers
  <2> QED
    BY <2>1, PoolNext DEF Inv
<1>2. Unfinished' /\ Accounted'
  BY MainMoves, WorkerMoves, QuietKeeps, EnqueueKeeps, TakeKeeps, RequeueKeeps,
     CountDoneKeeps DEF Inv
<1>3. TypeOK' /\ PreCondsSane'
  <2>1. PoolFaults'
    BY <1>1, PoolFault, PTL
  <2> QED
    BY <2>1
    DEF PoolFaults, Inv, TypeOK, PreCondsSane, taskVars, lastIter, AssertGap, Pool!TooManyThreads,
        Pool!EnqueueOnStopped, Pool!AssertStop
<1>4. /\ \A v \in Workers : wpc[v] = "call" => wpc'[v] = "call" /\ task'[v] = task[v]
      /\ \A v \in Workers : wpc'[v] = "call" /\ wpc[v] # "call" => tpc[v] = "up"
  BY CallsKept DEF Inv, Idle
<1>5. UNCHANGED <<iter_number, tpc, diff1>>
  BY DEF taskVars
<1>6. Idle'
  BY <1>4, <1>5 DEF Inv, Idle
<1>7. Gap'
  BY <1>5 DEF Inv, Gap, Diff
<1>8. DownOK' /\ WorkOK' /\ CheckOK'
  BY <1>4, <1>5 DEF Inv, DownOK, WorkOK, CheckOK, Calls, Diff, TopBound
<1> QED
  BY <1>1, <1>2, <1>3, <1>6, <1>7, <1>8 DEF Inv

-----------------------------------------------------------------------------
(* Steps inside task(): the worker that calls task t owns the counter of t. *)

\* What every worker in task() may rely on.
LEMMA CallFacts ==
  ASSUME Inv, NEW w \in Workers, wpc[w] = "call"
  PROVE  /\ task[w] \in TaskIds /\ task[w] \in Int
         /\ iter_number[task[w]] \in 0 .. lastIter
         /\ \A v \in Workers \ {w} :
              wpc[v] \in {"call", "requeue", "count"} => task[v] # task[w]
         /\ \A i \in 1 .. Len(tasks) : tasks[i] # task[w]
         /\ task[w] < task_id
         /\ ~TopBound(task[w]) => task[w] - 1 \in TaskIds
         /\ ~BottomBound(task[w]) => task[w] + 1 \in TaskIds
<1>1. /\ task[w] \in TaskIds
      /\ \A v \in Workers \ {w} :
           wpc[v] \in {"call", "requeue", "count"} => task[v] # task[w]
      /\ \A i \in 1 .. Len(tasks) : tasks[i] # task[w]
      /\ task[w] < task_id
  BY PoolFacts DEF Inv
<1>2. iter_number[task[w]] \in 0 .. lastIter
  BY <1>1 DEF Inv, TypeOK
<1> QED
  BY <1>1, <1>2, numTasksAssumption DEF TaskIds, TopBound, BottomBound

LEMMA InitInv == Init => Inv
<1> SUFFICES ASSUME Init PROVE Inv
  OBVIOUS
<1>1. PoolInv
  BY PoolInit DEF Init
<1>2. /\ tasks = <<>> /\ task_id = 0 /\ fault = "none"
      /\ \A w \in Workers : wpc[w] = "pin"
      /\ iter_number = [t \in TaskIds |-> 0]
      /\ tpc = [w \in Workers |-> "up"] /\ diff1 = [w \in Workers |-> 0]
  BY DEF Init, Pool!Init, Pool!Workers, Workers
<1>3. TypeOK
  BY <1>2, lastIterType DEF TypeOK
<1>4. Idle /\ DownOK /\ WorkOK /\ CheckOK
  BY <1>2 DEF Idle, DownOK, WorkOK, CheckOK, Calls
<1>5. Gap
  BY <1>2 DEF Gap, Diff
<1>6. Unfinished
  <2>1. Len(tasks) = 0
    BY <1>2
  <2> QED
    BY <1>2, <2>1 DEF Unfinished, Calls
<1>7. Accounted
  BY <1>2, numTasksAssumption DEF Accounted, TaskIds
<1> QED
  BY <1>1, <1>2, <1>3, <1>4, <1>5, <1>6, <1>7 DEF Inv, PreCondsSane, AssertGap

LEMMA ReadUpInv == ASSUME Inv, NEW w \in Workers, ReadUp(w) PROVE Inv'
<1>1. /\ wpc[w] = "call" /\ tpc[w] = "up" /\ tpc' = [tpc EXCEPT ![w] = "down"]
      /\ UNCHANGED <<tasks, stop, numTasksDone, wpc, task, mpc, task_id, gtiming,
                     report, fault, iter_number>>
      /\ UNCHANGED poolVars
  BY DEF ReadUp, Inside, Step, Pool!At, poolVars
<1>2. /\ task[w] \in TaskIds /\ task[w] \in Int
      /\ iter_number[task[w]] \in 0 .. lastIter
      /\ ~TopBound(task[w]) => task[w] - 1 \in TaskIds
  BY <1>1, CallFacts
<1>3. /\ diff1'[w] = IF TopBound(task[w]) THEN 0 ELSE Diff(task[w], task[w] - 1)
      /\ diff1' = [diff1 EXCEPT ![w] = diff1'[w]]
  BY DEF ReadUp, Inv, TypeOK
<1>4. diff1'[w] \in -1 .. 1 /\ diff1'[w] <= iter_number[task[w]]
  <2>1. CASE TopBound(task[w])
    BY <1>2, <1>3, <2>1, lastIterType
  <2>2. CASE ~TopBound(task[w])
    <3>1. iter_number[task[w] - 1] \in 0 .. lastIter /\ (task[w] - 1) + 1 = task[w]
      BY <1>2, <2>2 DEF Inv, TypeOK
    <3>2. Diff(task[w] - 1, task[w]) \in -1 .. 1
      BY <1>2, <2>2, <3>1 DEF Inv, Gap
    <3> QED
      BY <1>2, <1>3, <2>2, <3>1, <3>2, lastIterType DEF Diff
  <2> QED
    BY <2>1, <2>2
<1>5. PoolInv'
  BY <1>1, PoolNext DEF Inv
<1>6. UNCHANGED lastIter /\ \A t, u \in TaskIds : Diff(t, u)' = Diff(t, u)
  BY <1>1 DEF lastIter, Diff
<1>7. TypeOK'
  BY <1>1, <1>3, <1>4, <1>6 DEF Inv, TypeOK
<1>8. Idle' /\ WorkOK' /\ CheckOK' /\ Gap' /\ PreCondsSane'
  BY <1>1 DEF Inv, TypeOK, Idle, WorkOK, CheckOK, Calls, Gap, Diff, PreCondsSane
<1>9. DownOK'
  <2> SUFFICES ASSUME NEW v \in Workers, Calls(v, {"down"})'
               PROVE  /\ diff1'[v] \in -1 .. 1
                      /\ diff1'[v] <= iter_number[task[v]]
                      /\ ~TopBound(task[v]) => Diff(task[v], task[v] - 1) <= diff1'[v]
    BY <1>1 DEF DownOK, Diff, TopBound
  <2>1. CASE v = w
    <3>1. ~TopBound(task[w]) => Diff(task[w], task[w] - 1) \in Int
      BY <1>3, <1>4
    <3> QED
      BY <1>3, <1>4, <2>1, <3>1
  <2>2. CASE v # w
    BY <1>1, <1>3, <2>2 DEF Inv, TypeOK, DownOK, Calls
  <2> QED
    BY <2>1, <2>2
<1>10. Unfinished' /\ Accounted'
  BY <1>1, <1>6 DEF Inv, TypeOK, Unfinished, Accounted, Calls
<1> QED
  BY <1>5, <1>7, <1>8, <1>9, <1>10 DEF Inv

LEMMA ReadDownInv == ASSUME Inv, NEW w \in Workers, ReadDown(w) PROVE Inv'
<1> DEFINE t == task[w]
           diff2 == IF BottomBound(t) THEN 0 ELSE Diff(t, t + 1)
           met == diff1[w] \in {-1, 0} /\ diff2 \in {-1, 0}
<1>1. wpc[w] = "call" /\ tpc[w] = "down"
  BY DEF ReadDown, Inside, Pool!At
<1>2. /\ t \in TaskIds /\ t \in Int /\ iter_number[t] \in 0 .. lastIter
      /\ ~TopBound(t) => t - 1 \in TaskIds
      /\ ~BottomBound(t) => t + 1 \in TaskIds
  BY <1>1, CallFacts
<1>3. /\ diff1[w] \in -1 .. 1 /\ diff1[w] <= iter_number[t]
      /\ ~TopBound(t) => Diff(t, t - 1) <= diff1[w]
  BY <1>1 DEF Inv, DownOK, Calls
<1>4. /\ diff2 \in -1 .. 1 /\ diff2 <= iter_number[t]
      /\ ~BottomBound(t) => diff2 = iter_number[t] - iter_number[t + 1]
                         /\ iter_number[t + 1] \in 0 .. lastIter
  BY <1>2, lastIterType DEF Inv, TypeOK, Gap, Diff
<1>5. /\ tpc' = [tpc EXCEPT ![w] = IF met THEN "work" ELSE "check"]
      /\ diff1' = [diff1 EXCEPT ![w] = 0]
      /\ UNCHANGED <<tasks, stop, numTasksDone, wpc, task, mpc, task_id, gtiming,
                     report, fault, iter_number>>
      /\ UNCHANGED poolVars
  BY <1>3, <1>4 DEF ReadDown, Step, poolVars
<1>6. met => \A u \in {t - 1, t + 1} \cap TaskIds : iter_number[t] <= iter_number[u]
  <2> SUFFICES ASSUME met, NEW u \in {t - 1, t + 1} \cap TaskIds
               PROVE  iter_number[t] <= iter_number[u]
    OBVIOUS
  <2>1. CASE u = t - 1
    <3>1. ~TopBound(t) /\ iter_number[u] \in 0 .. lastIter
      BY <1>2, <2>1 DEF TopBound, TaskIds, Inv, TypeOK
    <3> QED
      BY <1>2, <1>3, <2>1, <3>1, lastIterType DEF Diff
  <2>2. CASE u = t + 1
    <3>1. ~BottomBound(t)
      BY <1>2, <2>2, numTasksAssumption DEF BottomBound, TaskIds
    <3> QED
      BY <1>2, <1>4, <2>2, <3>1, lastIterType
  <2> QED
    BY <2>1, <2>2
<1>7. ~met => iter_number[t] >= 1
  BY <1>2, <1>3, <1>4, lastIterType
<1> HIDE DEF met, diff2, t
<1>8. PoolInv'
  BY <1>5, PoolNext DEF Inv
<1>9. UNCHANGED lastIter
  BY DEF lastIter
<1>10. TypeOK' /\ Idle' /\ Gap' /\ PreCondsSane'
  BY <1>1, <1>5, <1>9 DEF Inv, TypeOK, Idle, Gap, Diff, PreCondsSane
<1>11. DownOK'
  BY <1>5 DEF Inv, TypeOK, DownOK, Calls, Diff, TopBound
<1>12. WorkOK'
  BY <1>5, <1>6 DEF Inv, TypeOK, WorkOK, Calls, t
<1>13. CheckOK'
  BY <1>5, <1>7 DEF Inv, TypeOK, CheckOK, Calls, t
<1>14. Unfinished' /\ Accounted'
  BY <1>1, <1>5, <1>9 DEF Inv, TypeOK, Unfinished, Accounted, Calls
<1> QED
  BY <1>8, <1>10, <1>11, <1>12, <1>13, <1>14 DEF Inv

\* The step that counts an iteration; its facts also serve the refinement.
LEMMA SetPostCondsFacts ==
  ASSUME Inv, NEW w \in Workers, SetPostConds(w)
  PROVE  /\ wpc[w] = "call" /\ tpc[w] = "work" /\ tpc' = [tpc EXCEPT ![w] = "check"]
         /\ iter_number' = [iter_number EXCEPT ![task[w]] = @ + 1]
         /\ iter_number[task[w]] < lastIter
         /\ \A u \in {task[w] - 1, task[w] + 1} \cap TaskIds :
              iter_number[task[w]] <= iter_number[u]
         /\ UNCHANGED <<tasks, stop, numTasksDone, wpc, task, mpc, task_id, gtiming,
                        report, fault, diff1>>
         /\ UNCHANGED poolVars
<1>1. wpc[w] = "call" /\ tpc[w] = "work"
  BY DEF SetPostConds, Inside, Pool!At
<1>2. Calls(w, {"work"}) /\ Calls(w, {"up", "down", "work"})
  BY <1>1 DEF Calls
<1> QED
  BY <1>1, <1>2 DEF SetPostConds, Step, Inv, Unfinished, WorkOK, poolVars

LEMMA SetPostCondsInv == ASSUME Inv, NEW w \in Workers, SetPostConds(w) PROVE Inv'
<1> DEFINE t == task[w]
<1>1. /\ wpc[w] = "call" /\ tpc[w] = "work" /\ tpc' = [tpc EXCEPT ![w] = "check"]
      /\ iter_number' = [iter_number EXCEPT ![t] = @ + 1]
      /\ iter_number[t] < lastIter
      /\ \A u \in {t - 1, t + 1} \cap TaskIds : iter_number[t] <= iter_number[u]
      /\ UNCHANGED <<tasks, stop, numTasksDone, wpc, task, mpc, task_id, gtiming,
                     report, fault, diff1>>
      /\ UNCHANGED poolVars
  BY SetPostCondsFacts
<1>2. /\ t \in TaskIds /\ t \in Int /\ iter_number[t] \in 0 .. lastIter
      /\ \A v \in Workers \ {w} :
           wpc[v] \in {"call", "requeue", "count"} => task[v] # t
      /\ \A i \in 1 .. Len(tasks) : tasks[i] # t
      /\ t < task_id
  BY <1>1, CallFacts
<1> HIDE DEF t
<1>3. /\ \A u \in TaskIds : u \in Int /\ iter_number[u] \in 0 .. lastIter
      /\ iter_number'[t] = iter_number[t] + 1
      /\ \A u \in TaskIds \ {t} : iter_number'[u] = iter_number[u]
      /\ tpc'[w] = "check" /\ \A v \in Workers \ {w} : tpc'[v] = tpc[v]
  BY <1>1, <1>2 DEF Inv, TypeOK, TaskIds
<1>4. PoolInv'
  BY <1>1, PoolNext DEF Inv
<1>5. UNCHANGED lastIter
  BY DEF lastIter
<1>6. TypeOK' /\ Idle' /\ PreCondsSane'
  BY <1>1, <1>2, <1>5, lastIterType DEF Inv, TypeOK, Idle, PreCondsSane
<1>7. Gap'
  <2> SUFFICES ASSUME NEW u \in TaskIds, u + 1 \in TaskIds
               PROVE  iter_number'[u] - iter_number'[u + 1] \in -1 .. 1
    BY DEF Gap, Diff
  <2>1. iter_number[u] - iter_number[u + 1] \in -1 .. 1
    BY DEF Inv, Gap, Diff
  <2>2. CASE u = t
    <3>1. iter_number[t] <= iter_number[u + 1] /\ u + 1 # t
      BY <1>1, <1>2, <2>2
    <3> QED
      BY <1>3, <2>1, <2>2, <3>1, lastIterType
  <2>3. CASE u + 1 = t
    <3>1. u = t - 1 /\ u # t
      BY <1>3, <2>3
    <3>2. iter_number[t] <= iter_number[u]
      BY <1>1, <3>1
    <3> QED
      BY <1>3, <2>1, <2>3, <3>1, <3>2, lastIterType
  <2>4. CASE u # t /\ u + 1 # t
    BY <1>3, <2>1, <2>4
  <2> QED
    BY <2>2, <2>3, <2>4
<1>ints. \A u \in TaskIds : iter_number[u] \in Int /\ iter_number'[u] \in Int
  <2> TAKE u \in TaskIds
  <2>1. iter_number[u] \in Int
    BY <1>3, lastIterType
  <2>2. iter_number'[u] = IF u = t THEN iter_number[u] + 1 ELSE iter_number[u]
    BY <1>3
  <2> QED
    BY <2>1, <2>2
\* For another worker, a neighbour that iterates only comes closer or moves ahead.
<1>8. ASSUME NEW v \in Workers, Calls(v, {"down", "work", "check"})'
      PROVE  v = w \/ (/\ v # w /\ Calls(v, {tpc'[v]}) /\ task[v] # t
                       /\ task[v] \in TaskIds
                       /\ iter_number'[task[v]] = iter_number[task[v]]
                       /\ \A u \in TaskIds : iter_number[u] <= iter_number'[u])
  <2>1. ASSUME v # w
        PROVE  wpc[v] = "call" /\ tpc'[v] = tpc[v] /\ task[v] # t /\ task[v] \in TaskIds
    BY <1>1, <1>2, <1>3, <1>8, <2>1, CallFacts DEF Calls
  <2>2. \A u \in TaskIds : iter_number[u] <= iter_number'[u]
    BY <1>3, lastIterType
  <2> QED
    BY <1>3, <2>1, <2>2 DEF Calls
<1>9. DownOK'
  <2> SUFFICES ASSUME NEW v \in Workers, Calls(v, {"down"})'
               PROVE  /\ diff1[v] \in -1 .. 1
                      /\ diff1[v] <= iter_number'[task[v]]
                      /\ ~TopBound(task[v]) =>
                           iter_number'[task[v]] - iter_number'[task[v] - 1] <= diff1[v]
    BY <1>1 DEF DownOK, Diff, TopBound
  <2>1. /\ v # w /\ Calls(v, {"down"}) /\ task[v] \in TaskIds
        /\ iter_number'[task[v]] = iter_number[task[v]]
        /\ \A u \in TaskIds : iter_number[u] <= iter_number'[u]
    BY <1>3, <1>8 DEF Calls
  <2>2. /\ diff1[v] \in -1 .. 1 /\ diff1[v] <= iter_number[task[v]]
        /\ ~TopBound(task[v]) => Diff(task[v], task[v] - 1) <= diff1[v]
    BY <2>1 DEF Inv, DownOK
  <2>3. CASE ~TopBound(task[v])
    <3>1. task[v] - 1 \in TaskIds
      BY <2>1, <2>3, CallFacts DEF Calls
    <3>2. /\ iter_number[task[v] - 1] \in Int /\ iter_number'[task[v] - 1] \in Int
          /\ iter_number[task[v]] \in Int
      BY <1>ints, <2>1, <3>1
    <3> QED
      BY <2>1, <2>2, <2>3, <3>1, <3>2 DEF Diff
  <2> QED
    BY <2>1, <2>2, <2>3
<1>10. WorkOK'
  <2> SUFFICES ASSUME NEW v \in Workers, Calls(v, {"work"})',
                      NEW u \in {task[v] - 1, task[v] + 1} \cap TaskIds
               PROVE  iter_number'[task[v]] <= iter_number'[u]
    BY <1>1 DEF WorkOK
  <2>1. /\ v # w /\ Calls(v, {"work"}) /\ task[v] \in TaskIds
        /\ iter_number'[task[v]] = iter_number[task[v]]
        /\ iter_number[u] <= iter_number'[u]
    BY <1>3, <1>8 DEF Calls
  <2>2. iter_number[task[v]] <= iter_number[u]
    BY <2>1 DEF Inv, WorkOK
  <2>3. iter_number[u] \in Int /\ iter_number'[u] \in Int /\ iter_number[task[v]] \in Int
    BY <1>ints, <2>1
  <2> QED
    BY <2>1, <2>2, <2>3
<1>11. CheckOK'
  <2> SUFFICES ASSUME NEW v \in Workers, Calls(v, {"check"})'
               PROVE  iter_number'[task[v]] >= 1
    BY <1>1 DEF CheckOK
  <2>1. CASE v = w
    BY <1>2, <1>3, <2>1, lastIterType DEF t
  <2>2. CASE v # w
    <3>1. Calls(v, {"check"}) /\ iter_number'[task[v]] = iter_number[task[v]]
      BY <1>3, <1>8, <2>2 DEF Calls
    <3> QED
      BY <3>1 DEF Inv, CheckOK
  <2> QED
    BY <2>1, <2>2
<1>12. Unfinished'
  <2>1. \A i \in 1 .. Len(tasks) : iter_number'[tasks[i]] < lastIter
    <3> TAKE i \in 1 .. Len(tasks)
    <3>1. tasks[i] \in TaskIds \ {t}
      BY <1>2, PoolFacts DEF Inv
    <3> QED
      BY <1>3, <3>1 DEF Inv, Unfinished
  <2>2. ASSUME NEW v \in Workers,
               wpc[v] = "requeue" \/ Calls(v, {"up", "down", "work"})' \/ wpc[v] = "count"
        PROVE  /\ v # w /\ tpc'[v] = tpc[v]
               /\ iter_number'[task[v]] = iter_number[task[v]]
    <3>1. v # w /\ wpc[v] \in {"call", "requeue", "count"}
      BY <1>1, <1>3, <2>2 DEF Calls
    <3>2. task[v] \in TaskIds \ {t}
      BY <1>2, <3>1, PoolFacts DEF Inv
    <3> QED
      BY <1>3, <3>1, <3>2
  <2>3. \A u \in TaskIds : u >= task_id => iter_number'[u] = 0
    BY <1>2, <1>3, PoolFacts DEF Inv, Unfinished
  <2> QED
    BY <1>1, <1>5, <2>1, <2>2, <2>3 DEF Inv, Unfinished, Calls
<1>13. Accounted'
  <2> SUFFICES ASSUME NEW u \in TaskIds
               PROVE  \/ u >= task_id
                      \/ \E i \in 1 .. Len(tasks) : tasks[i] = u
                      \/ \E v \in Workers :
                           wpc[v] \in {"call", "requeue", "count"} /\ task[v] = u
                      \/ iter_number'[u] = lastIter
    BY <1>1, <1>5 DEF Accounted
  <2>1. CASE u = t
    BY <1>1, <2>1 DEF t
  <2>2. CASE u # t
    BY <1>3, <2>2 DEF Inv, Accounted
  <2> QED
    BY <2>1, <2>2
<1> QED
  BY <1>4, <1>6, <1>7, <1>9, <1>10, <1>11, <1>12, <1>13 DEF Inv

LEMMA HasFinishedItersInv ==
  ASSUME Inv, NEW w \in Workers, HasFinishedIters(w)
  PROVE  Inv'
<1> DEFINE t == task[w]
           again == ~(iter_number[t] >= maxIter)
<1>1. /\ wpc[w] = "call" /\ tpc[w] = "check" /\ tpc' = [tpc EXCEPT ![w] = "up"]
      /\ wpc' = [wpc EXCEPT ![w] = IF again THEN "requeue" ELSE "count"]
      /\ UNCHANGED <<tasks, stop, numTasksDone, task, mpc, task_id, gtiming,
                     report, fault, diff1, iter_number>>
  BY DEF HasFinishedIters, Inside, Step, Pool!At, Pool!Goto, Pool!Return
<1>2. t \in TaskIds /\ iter_number[t] \in 0 .. lastIter
  BY <1>1, CallFacts
<1>3. iter_number[t] >= 1
  BY <1>1 DEF Inv, CheckOK, Calls
<1>4. IF again THEN iter_number[t] < lastIter ELSE iter_number[t] = lastIter
  BY <1>2, <1>3, maxIterAssumption DEF lastIter
<1>5. PoolInv'
  <2>1. Pool!Return(w, again) /\ again \in BOOLEAN
    BY DEF HasFinishedIters
  <2>2. Pool!Next
    BY <2>1 DEF Pool!Next, Pool!Workers, Workers
  <2> QED
    BY <2>2, PoolNext DEF Inv
<1> HIDE DEF again, t
<1>6. /\ wpc'[w] = (IF again THEN "requeue" ELSE "count") /\ tpc'[w] = "up"
      /\ \A v \in Workers \ {w} : wpc'[v] = wpc[v] /\ tpc'[v] = tpc[v]
  BY <1>1, PoolFacts DEF Inv, TypeOK
<1>7. UNCHANGED lastIter
  BY DEF lastIter
<1>8. TypeOK' /\ Idle' /\ Gap' /\ PreCondsSane'
  BY <1>1, <1>6, <1>7 DEF Inv, TypeOK, Idle, Gap, Diff, PreCondsSane
<1>9. DownOK' /\ WorkOK' /\ CheckOK'
  BY <1>1, <1>6 DEF Inv, DownOK, WorkOK, CheckOK, Calls, Diff, TopBound
<1>10. Unfinished'
  BY <1>1, <1>4, <1>6, <1>7 DEF Inv, Unfinished, Calls, t
<1>11. Accounted'
  <2>1. \A v \in Workers : wpc[v] \in {"call", "requeue", "count"} =>
          wpc'[v] \in {"call", "requeue", "count"}
    BY <1>6
  <2> QED
    BY <1>1, <1>7, <2>1 DEF Inv, Accounted
<1> QED
  BY <1>5, <1>8, <1>9, <1>10, <1>11 DEF Inv

LEMMA NextInv == Inv /\ [Next]_vars => Inv'
<1> SUFFICES ASSUME Inv, [Next]_vars PROVE Inv'
  OBVIOUS
<1>1. CASE UNCHANGED vars
  <2>1. PoolInv'
    BY <1>1, PoolNext DEF Inv, vars
  <2> QED
    BY <1>1, <2>1
    DEF vars, poolVars, taskVars, Inv, TypeOK, lastIter, Idle, Gap, Diff, DownOK, TopBound,
        WorkOK, CheckOK, Unfinished, Accounted, Calls, PreCondsSane
<1>2. CASE MainStep
  BY <1>2, PoolKeeps DEF MainStep
<1>3. ASSUME NEW w \in Workers,
             WorkerStep(w) \/ (Pool!SpuriousWakeup(w) /\ UNCHANGED taskVars)
      PROVE  Inv'
  BY <1>3, PoolKeeps, ReadUpInv, ReadDownInv, SetPostCondsInv, HasFinishedItersInv
  DEF WorkerStep, CallTask, InPool
<1>4. CASE Pool!Ended /\ UNCHANGED taskVars
  BY <1>1, <1>4 DEF Pool!Ended, Pool!poolVars, poolVars, vars
<1> QED
  BY <1>1, <1>2, <1>3, <1>4 DEF Next

\* The inductive invariant holds of every behaviour.
THEOREM Invariance == Spec => []Inv
BY InitInv, NextInv, PTL DEF Spec

(***************************************************************************)
(* Types of the task objects and of the locals of isPreCondsMet; no task   *)
(* ever runs more iterations than it should.                               *)
(***************************************************************************)
THEOREM TypeCorrect == Spec => []TypeOK
<1>1. Inv => TypeOK
  BY DEF Inv
<1> QED
  BY <1>1, Invariance, PTL

(***************************************************************************)
(* The assertion of isPreCondsMet (task.cpp:297) never fails, although the *)
(* counters it compares are read one by one and without a lock.            *)
(***************************************************************************)
THEOREM AssertionHolds == Spec => []PreCondsSane
<1>1. Inv => PreCondsSane
  BY DEF Inv
<1> QED
  BY <1>1, Invariance, PTL

(***************************************************************************)
(* A pre-condition that was seen to hold keeps holding until the task has  *)
(* run: no iteration works on a neighbour that is behind it or more than   *)
(* one ahead of it.                                                        *)
(***************************************************************************)
THEOREM PreConditionIsStable == Spec => []PreCondsStillHold
<1>1. Inv => PreCondsStillHold
  <2> SUFFICES ASSUME Inv, NEW w \in Workers, wpc[w] = "call", tpc[w] = "work",
                      NEW u \in {task[w] - 1, task[w] + 1} \cap TaskIds
               PROVE  iter_number[u] - iter_number[task[w]] \in {0, 1}
    BY DEF PreCondsStillHold
  <2>1. iter_number[task[w]] <= iter_number[u]
    BY DEF Inv, WorkOK, Calls
  <2>2. /\ task[w] \in TaskIds /\ task[w] \in Int
        /\ iter_number[task[w]] \in Int /\ iter_number[u] \in Int
    BY CallFacts, lastIterType DEF Inv, TypeOK
  <2>3. CASE u = task[w] - 1
    <3>1. u + 1 = task[w]
      BY <2>2, <2>3
    <3>2. iter_number[u] - iter_number[task[w]] \in -1 .. 1
      BY <2>2, <3>1 DEF Inv, Gap, Diff
    <3> QED
      BY <2>1, <2>2, <3>2
  <2>4. CASE u = task[w] + 1
    <3>1. iter_number[task[w]] - iter_number[u] \in -1 .. 1
      BY <2>2, <2>4 DEF Inv, Gap, Diff
    <3> QED
      BY <2>1, <2>2, <3>1
  <2> QED
    BY <2>3, <2>4
<1> QED
  BY <1>1, Invariance, PTL

(***************************************************************************)
(* When a worker stops the pool, every task has done all its iterations    *)
(* and none too many: nothing is left in the queue or in anybody's hands,  *)
(* and a task is only counted when it is finished.                         *)
(***************************************************************************)
THEOREM StopsWhenSolved == Spec => []StopMeansSolved
<1>1. Inv => StopMeansSolved
  <2> SUFFICES ASSUME Inv, stop, NEW t \in TaskIds
               PROVE  iter_number[t] = lastIter
    BY DEF StopMeansSolved
  <2>1. PoolProofs!Inv /\ numTasksDone = numTasks
    BY DEF Inv, PoolInv, PoolProofs!Inv, PoolProofs!StopAfterLast
  <2>2. tasks = <<>> /\ PoolProofs!Holders = {} /\ task_id = numTasks
    BY <2>1, PoolAssumptions, PoolProofs!NothingLeft
  <2>3. \A w \in Workers : wpc[w] \notin {"call", "requeue", "count"}
    BY <2>2 DEF PoolProofs!Holders, PoolProofs!Workers, Workers
  <2>4. Len(tasks) = 0 /\ ~(t >= task_id)
    BY <2>2, numTasksAssumption DEF TaskIds
  <2> QED
    BY <2>3, <2>4 DEF Inv, Accounted
<1> QED
  BY <1>1, Invariance, PTL

(***************************************************************************)
(* The pool of the dynamic scheduler is the ThreadPool: a task function of *)
(* four steps is, to the pool, a call that returns whether it wants to run *)
(* again.  All properties of ThreadPool.tla therefore hold here.           *)
(***************************************************************************)
THEOREM ImplementsThreadPool == Spec => Pool!Spec
<1>1. Init => Pool!Init
  BY DEF Init
<1>2. Inv /\ Inv' /\ [Next]_vars => [Pool!Next]_(Pool!poolVars)
  <2> SUFFICES ASSUME Inv, Inv', [Next]_vars
               PROVE  Pool!Next \/ UNCHANGED poolVars
    BY DEF poolVars, Pool!poolVars
  <2>1. CASE UNCHANGED vars
    BY <2>1 DEF vars
  <2>2. CASE MainStep
    BY <2>2 DEF MainStep, Pool!Next
  <2>3. ASSUME NEW w \in Workers, InPool(w) PROVE Pool!Next
    BY <2>3 DEF InPool, Pool!Next, Pool!Workers, Workers
  <2>4. ASSUME NEW w \in Workers, CallTask(w)
        PROVE  Pool!Next \/ UNCHANGED poolVars
    <3>1. CASE ReadUp(w) \/ SetPostConds(w)
      BY <3>1 DEF ReadUp, SetPostConds
    <3>2. CASE ReadDown(w)
      BY <3>2 DEF ReadDown, Inv, PreCondsSane, poolVars
    <3>3. CASE HasFinishedIters(w)
      BY <3>3 DEF HasFinishedIters, Pool!Next, Pool!Workers, Workers
    <3> QED
      BY <2>4, <3>1, <3>2, <3>3 DEF CallTask
  <2>5. CASE Pool!Ended /\ UNCHANGED taskVars
    BY <2>5 DEF Pool!Next
  <2> QED
    BY <2>1, <2>2, <2>3, <2>4, <2>5 DEF Next, WorkerStep, InPool
<1>3. Pool!Spec <=> Pool!Init /\ [][Pool!Next]_(Pool!poolVars)
  BY DEF Pool!Spec
<1> QED
  BY <1>1, <1>2, <1>3, Invariance, PTL DEF Spec

(***************************************************************************)
(* The dynamic scheduler implements StencilOrder: testing the neighbours   *)
(* one by one and iterating much later is as good as doing both at once.   *)
(***************************************************************************)
THEOREM ImplementsOrder == Spec => ImplementsStencilOrder
<1>1. Init => Stencil!Init
  BY DEF Init, Stencil!Init, Stencil!TaskIds, TaskIds
<1>2. Inv /\ [Next]_vars => [Stencil!Next]_iter_number
  <2> SUFFICES ASSUME Inv, [Next]_vars, ~UNCHANGED iter_number
               PROVE  \E t \in TaskIds : Stencil!Iterate(t)
    BY DEF Stencil!Next, Stencil!TaskIds, TaskIds
  <2>1. PICK w \in Workers : SetPostConds(w)
    BY DEF Next, MainStep, WorkerStep, CallTask, ReadUp, ReadDown, HasFinishedIters,
           taskVars, vars
  <2>2. /\ iter_number' = [iter_number EXCEPT ![task[w]] = @ + 1]
        /\ iter_number[task[w]] < lastIter
        /\ \A u \in {task[w] - 1, task[w] + 1} \cap TaskIds :
             iter_number[task[w]] <= iter_number[u]
        /\ task[w] \in TaskIds
    BY <2>1, SetPostCondsFacts, CallFacts
  <2> QED
    BY <2>2 DEF Stencil!Iterate, Stencil!Nbrs, Stencil!TaskIds, TaskIds
<1>3. ImplementsStencilOrder <=> Stencil!Init /\ [][Stencil!Next]_iter_number
  BY DEF ImplementsStencilOrder, Stencil!Spec
<1> QED
  BY <1>1, <1>2, <1>3, Invariance, PTL DEF Spec

\* TaskCalls' theorems, of the tasks as they are called by the workers.
CallProofs == INSTANCE TaskCallsProofs WITH tpc <- callPC, diff1 <- callDiff

(***************************************************************************)
(* No two tasks are further apart in iterations than in the column: what   *)
(* StencilOrder promises, the scheduler inherits.                          *)
(***************************************************************************)
THEOREM Spread == Spec => []BoundedSpread
<1>1. numTasks \in Nat /\ maxIter \in Nat
  BY numTasksAssumption, maxIterAssumption
<1>2. ImplementsStencilOrder => CallProofs!Stencil!Spec
  BY DEF ImplementsStencilOrder, Stencil!Spec, CallProofs!Stencil!Spec, Stencil!Init,
         CallProofs!Stencil!Init, Stencil!Next, CallProofs!Stencil!Next, Stencil!Iterate,
         CallProofs!Stencil!Iterate, Stencil!Finished, CallProofs!Stencil!Finished,
         Stencil!Nbrs, CallProofs!Stencil!Nbrs, Stencil!TaskIds, CallProofs!Stencil!TaskIds,
         lastIter, CallProofs!lastIter
<1>3. CallProofs!Stencil!Spec => []CallProofs!Stencil!BoundedSpread
  BY <1>1, CallProofs!OrderSpread
<1>4. CallProofs!Stencil!BoundedSpread => BoundedSpread
  BY DEF CallProofs!Stencil!BoundedSpread, BoundedSpread, Stencil!BoundedSpread,
         CallProofs!Stencil!Distance, Stencil!Distance, CallProofs!Stencil!TaskIds,
         Stencil!TaskIds
<1> QED
  BY <1>2, <1>3, <1>4, ImplementsOrder, PTL

-----------------------------------------------------------------------------
(***************************************************************************)
(* Seen from the tasks: a task that is being called is where its only      *)
(* caller is, any other is between two calls or finished.                  *)
(***************************************************************************)
Seen ==
  \A w \in Workers : wpc[w] = "call" =>
    callPC[task[w]] = tpc[w] /\ callDiff[task[w]] = diff1[w]

Resting ==
  \A t \in TaskIds : (\A w \in Workers : ~(wpc[w] = "call" /\ task[w] = t)) =>
    /\ callPC[t] = IF iter_number[t] >= lastIter THEN "finished" ELSE "up"
    /\ callDiff[t] = 0

LEMMA View == Inv => Seen /\ Resting
<1> SUFFICES ASSUME Inv PROVE Seen /\ Resting
  OBVIOUS
<1>1. Seen
  <2> SUFFICES ASSUME NEW w \in Workers, wpc[w] = "call"
               PROVE  callPC[task[w]] = tpc[w] /\ callDiff[task[w]] = diff1[w]
    BY DEF Seen
  <2>1. task[w] \in TaskIds /\ w \in Callers(task[w])
    BY PoolFacts DEF Inv, Callers
  <2>2. \A v \in Callers(task[w]) : v = w
    BY PoolFacts DEF Inv, Callers
  <2>3. (CHOOSE v \in Callers(task[w]) : TRUE) = w
    BY <2>1, <2>2
  <2> QED
    BY <2>1, <2>3 DEF callPC, callDiff
<1>2. Resting
  BY DEF Resting, Callers, callPC, callDiff
<1> QED
  BY <1>1, <1>2

LEMMA ViewNext == Inv' => Seen' /\ Resting'
BY View, PTL

\* Outside of the two halves of isPreCondsMet its local is reset.
Settled == \A w \in Workers : tpc[w] # "down" => diff1[w] = 0

LEMMA InitSettled == Init => Settled
BY DEF Init, Settled

LEMMA NextSettled == Inv /\ Settled /\ [Next]_vars => Settled'
<1> SUFFICES ASSUME Inv, Settled, [Next]_vars PROVE Settled'
  OBVIOUS
<1>1. CASE UNCHANGED taskVars
  BY <1>1 DEF taskVars, Settled
<1>2. ASSUME NEW w \in Workers, CallTask(w) PROVE Settled'
  <2>1. tpc \in [Workers -> {"up", "down", "work", "check"}] /\ diff1 \in [Workers -> -1 .. 1]
    BY DEF Inv, TypeOK
  <2>2. CASE ReadUp(w)
    BY <2>1, <2>2 DEF ReadUp, Step, Settled
  <2>3. CASE ReadDown(w)
    BY <1>1, <2>1, <2>3 DEF ReadDown, Step, Settled
  <2>4. CASE SetPostConds(w) \/ HasFinishedIters(w)
    BY <2>1, <2>4 DEF SetPostConds, HasFinishedIters, Inside, Step, Settled
  <2> QED
    BY <1>2, <2>2, <2>3, <2>4 DEF CallTask
<1> QED
  BY <1>1, <1>2 DEF Next, MainStep, WorkerStep, vars

LEMMA ViewDomain ==
  /\ \A f \in {callPC, callDiff} : DOMAIN f = TaskIds
  /\ callPC = [t \in TaskIds |-> callPC[t]]
  /\ callDiff = [t \in TaskIds |-> callDiff[t]]
BY DEF callPC, callDiff

LEMMA ViewDomainNext ==
  /\ callPC' = [t \in TaskIds |-> callPC'[t]]
  /\ callDiff' = [t \in TaskIds |-> callDiff'[t]]
BY DEF callPC, callDiff

\* Handing tasks around is invisible: a task is taken at the beginning of a call.
LEMMA PoolUnseen ==
  ASSUME Inv, Inv', Settled, UNCHANGED taskVars,
         Pool!Main \/ \E w \in Workers : InPool(w)
  PROVE  callPC' = callPC /\ callDiff' = callDiff
<1>1. /\ UNCHANGED <<iter_number, tpc, diff1, lastIter>>
      /\ Seen /\ Resting /\ Seen' /\ Resting'
  BY View, ViewNext DEF taskVars, lastIter
<1>2. ASSUME NEW t \in TaskIds
      PROVE  callPC'[t] = callPC[t] /\ callDiff'[t] = callDiff[t]
  <2>1. CASE \E w \in Workers : wpc[w] = "call" /\ task[w] = t
    <3>1. PICK w \in Workers : wpc[w] = "call" /\ task[w] = t
      BY <2>1
    <3>2. wpc'[w] = "call" /\ task'[w] = t
      BY <3>1, CallsKept DEF Inv
    <3> QED
      BY <1>1, <3>1, <3>2 DEF Seen
  <2>2. CASE /\ \A w \in Workers : ~(wpc[w] = "call" /\ task[w] = t)
             /\ \A w \in Workers : ~(wpc'[w] = "call" /\ task'[w] = t)
    BY <1>1, <2>2 DEF Resting
  <2>3. CASE /\ \A w \in Workers : ~(wpc[w] = "call" /\ task[w] = t)
             /\ \E w \in Workers : wpc'[w] = "call" /\ task'[w] = t
    <3>1. PICK w \in Workers : wpc'[w] = "call" /\ task'[w] = t
      BY <2>3
    <3>2. wpc[w] # "call"
      BY <2>3, <3>1, CallsKept DEF Inv
    <3>3. tpc[w] = "up" /\ diff1[w] = 0
      BY <3>2 DEF Inv, Idle, Settled
    <3>4. callPC'[t] = "up" /\ callDiff'[t] = 0
      BY <1>1, <3>1, <3>3 DEF Seen
    <3>5. iter_number[t] < lastIter /\ iter_number[t] \in Int
      <4>1. iter_number'[t] < lastIter'
        BY <1>1, <3>1, <3>3 DEF Inv, Unfinished, Calls
      <4> QED
        BY <1>1, <4>1, lastIterType DEF Inv, TypeOK
    <3>6. callPC[t] = "up" /\ callDiff[t] = 0
      BY <1>1, <2>3, <3>5, lastIterType DEF Resting
    <3> QED
      BY <3>4, <3>6
  <2> QED
    BY <2>1, <2>2, <2>3
<1> QED
  BY <1>2, ViewDomain, ViewDomainNext

\* A step inside the lambda is seen at the task called and at no other.
LEMMA OthersUnseen ==
  ASSUME Inv, Inv', NEW w \in Workers, wpc[w] = "call", UNCHANGED task,
         \A v \in Workers \ {w} : wpc'[v] = wpc[v] /\ tpc'[v] = tpc[v] /\ diff1'[v] = diff1[v],
         \A u \in TaskIds \ {task[w]} : iter_number'[u] = iter_number[u],
         NEW u \in TaskIds, u # task[w]
  PROVE  callPC'[u] = callPC[u] /\ callDiff'[u] = callDiff[u]
<1>1. Seen /\ Resting /\ Seen' /\ Resting' /\ UNCHANGED lastIter
  BY View, ViewNext DEF lastIter
<1>2. \A v \in Workers : wpc[v] = "call" /\ task[v] = u <=> wpc'[v] = "call" /\ task'[v] = u
  OBVIOUS
<1>3. CASE \E v \in Workers : wpc[v] = "call" /\ task[v] = u
  <2>1. PICK v \in Workers : wpc[v] = "call" /\ task[v] = u
    BY <1>3
  <2>2. v # w /\ wpc'[v] = "call" /\ task'[v] = u /\ tpc'[v] = tpc[v] /\ diff1'[v] = diff1[v]
    BY <2>1
  <2> QED
    BY <1>1, <2>1, <2>2 DEF Seen
<1>4. CASE \A v \in Workers : ~(wpc[v] = "call" /\ task[v] = u)
  BY <1>1, <1>2, <1>4 DEF Resting
<1> QED
  BY <1>3, <1>4

LEMMA CallSeen ==
  ASSUME Inv, Inv', Settled, NEW w \in Workers, CallTask(w)
  PROVE  Lambda!Next
<1> DEFINE t == task[w]
<1>1. /\ wpc[w] = "call" /\ UNCHANGED task
      /\ t \in TaskIds /\ iter_number[t] \in Nat
      /\ Seen /\ Resting /\ Seen' /\ Resting'
      /\ wpc \in [Workers -> Pool!WorkerPC]
      /\ tpc \in [Workers -> {"up", "down", "work", "check"}] /\ diff1 \in [Workers -> -1 .. 1]
      /\ iter_number \in [TaskIds -> 0 .. lastIter]
  <2>1. wpc[w] = "call" /\ UNCHANGED task
    BY DEF CallTask, ReadUp, ReadDown, SetPostConds, HasFinishedIters, Inside, Pool!At,
           Pool!Return, poolVars
  <2>2. t \in TaskIds /\ wpc \in [Workers -> Pool!WorkerPC]
    BY <2>1, PoolFacts DEF Inv
  <2>3. iter_number \in [TaskIds -> 0 .. lastIter] /\ iter_number[t] \in Nat
    BY <2>2, lastIterType DEF Inv, TypeOK
  <2> QED
    BY <2>1, <2>2, <2>3, View, ViewNext DEF Inv, TypeOK
<1>2. callPC[t] = tpc[w] /\ callDiff[t] = diff1[w]
  BY <1>1 DEF Seen
<1>3. TaskIds = Lambda!TaskIds
  BY DEF TaskIds, Lambda!TaskIds
<1>4. ASSUME \A v \in Workers \ {w} :
               wpc'[v] = wpc[v] /\ tpc'[v] = tpc[v] /\ diff1'[v] = diff1[v],
             \A u \in TaskIds \ {t} : iter_number'[u] = iter_number[u]
      PROVE  /\ callPC' = [callPC EXCEPT ![t] = callPC'[t]]
             /\ callDiff' = [callDiff EXCEPT ![t] = callDiff'[t]]
  <2>1. \A u \in TaskIds : u # t => callPC'[u] = callPC[u] /\ callDiff'[u] = callDiff[u]
    BY <1>1, <1>4, OthersUnseen
  <2> QED
    BY <1>1, <2>1, ViewDomain, ViewDomainNext
<1> HIDE DEF t
<1>5. CASE ReadUp(w)
  <2>1. /\ tpc[w] = "up" /\ UNCHANGED <<wpc, task, iter_number>>
        /\ diff1' = [diff1 EXCEPT ![w] = IF TopBound(t) THEN 0 ELSE Diff(t, t - 1)]
        /\ tpc' = [tpc EXCEPT ![w] = "down"]
    BY <1>5 DEF ReadUp, Inside, Step, poolVars, t
  <2>2. /\ callPC'[t] = "down"
        /\ callDiff'[t] = IF TopBound(t) THEN 0 ELSE Diff(t, t - 1)
    BY <1>1, <2>1 DEF Seen, t
  <2>3. Lambda!ReadUp(t)
    BY <1>1, <1>2, <1>4, <2>1, <2>2
       DEF Lambda!ReadUp, Lambda!At, Lambda!Step, Lambda!TopBound, Lambda!Diff, TopBound, Diff
  <2> QED
    BY <1>1, <1>3, <2>3 DEF Lambda!Next
<1>6. CASE ReadDown(w)
  <2> DEFINE diff2 == IF BottomBound(t) THEN 0 ELSE Diff(t, t + 1)
             l == IF diff1[w] \in {-1, 0} /\ diff2 \in {-1, 0} THEN "work" ELSE "check"
  <2>1. /\ tpc[w] = "down" /\ UNCHANGED <<wpc, task, iter_number>>
        /\ tpc' = [tpc EXCEPT ![w] = l]
        /\ diff1' = [diff1 EXCEPT ![w] = 0]
    BY <1>6 DEF ReadDown, Inside, Step, Inv, PreCondsSane, t
  <2>2. callPC'[t] = l /\ callDiff'[t] = 0
    BY <1>1, <2>1 DEF Seen, t
  <2>3. /\ \A v \in Workers \ {w} :
             wpc'[v] = wpc[v] /\ tpc'[v] = tpc[v] /\ diff1'[v] = diff1[v]
        /\ \A u \in TaskIds \ {t} : iter_number'[u] = iter_number[u]
    BY <1>1, <2>1
  <2>4. /\ callPC' = [callPC EXCEPT ![t] = l]
        /\ callDiff' = [callDiff EXCEPT ![t] = 0]
    BY <1>4, <2>2, <2>3
  <2>5. Lambda!ReadDown(t)
    BY <1>2, <2>1, <2>4 DEF Lambda!ReadDown, Lambda!At, Lambda!Step, Lambda!BottomBound,
       Lambda!Diff, BottomBound, Diff
  <2> QED
    BY <1>1, <1>3, <2>5 DEF Lambda!Next
<1>7. CASE SetPostConds(w)
  <2>1. /\ tpc[w] = "work" /\ UNCHANGED <<wpc, task, diff1>>
        /\ iter_number' = [iter_number EXCEPT ![t] = iter_number[t] + 1]
        /\ tpc' = [tpc EXCEPT ![w] = "check"]
    BY <1>7 DEF SetPostConds, Inside, Step, poolVars, t
  <2>2. callPC'[t] = "check" /\ callDiff'[t] = callDiff[t]
    BY <1>1, <1>2, <2>1 DEF Seen, t
  <2>3. /\ \A v \in Workers \ {w} :
             wpc'[v] = wpc[v] /\ tpc'[v] = tpc[v] /\ diff1'[v] = diff1[v]
        /\ \A u \in TaskIds \ {t} : iter_number'[u] = iter_number[u]
    BY <1>1, <2>1
  <2>4. callPC' = [callPC EXCEPT ![t] = "check"] /\ callDiff' = callDiff
    BY <1>4, <2>2, <2>3, ViewDomain
  <2>5. Lambda!SetPostConds(t)
    BY <1>2, <2>1, <2>4 DEF Lambda!SetPostConds, Lambda!At, Lambda!Step
  <2> QED
    BY <1>1, <1>3, <2>5 DEF Lambda!Next
<1>8. CASE HasFinishedIters(w)
  <2>1. /\ tpc[w] = "check" /\ UNCHANGED <<task, iter_number, diff1>>
        /\ tpc' = [tpc EXCEPT ![w] = "up"]
        /\ wpc' = [wpc EXCEPT ![w] =
                     IF ~(iter_number[t] >= maxIter) THEN "requeue" ELSE "count"]
    BY <1>1, <1>8 DEF HasFinishedIters, Inside, Step, Pool!Return, Pool!Goto, t
  <2>2. \A v \in Workers : ~(wpc'[v] = "call" /\ task'[v] = t)
    BY <1>1, <2>1, PoolFacts DEF Inv, t
  <2>3. iter_number[t] >= maxIter <=> iter_number[t] >= lastIter
    BY <1>1, <2>1, maxIterAssumption DEF Inv, CheckOK, Calls, lastIter, t
  <2>4. /\ callPC'[t] = IF iter_number[t] >= maxIter THEN "finished" ELSE "up"
        /\ callDiff'[t] = callDiff[t]
    <3>1. lastIter' = lastIter
      BY DEF lastIter
    <3> QED
      BY <1>1, <1>2, <2>1, <2>2, <2>3, <3>1 DEF Resting, Settled
  <2>5. /\ \A v \in Workers \ {w} :
             wpc'[v] = wpc[v] /\ tpc'[v] = tpc[v] /\ diff1'[v] = diff1[v]
        /\ \A u \in TaskIds \ {t} : iter_number'[u] = iter_number[u]
    BY <1>1, <2>1
  <2>6. /\ callPC' = [callPC EXCEPT ![t] = IF iter_number[t] >= maxIter THEN "finished" ELSE "up"]
        /\ callDiff' = callDiff
    BY <1>4, <2>4, <2>5, ViewDomain
  <2>7. Lambda!HasFinishedIters(t, maxIter)
    BY <1>2, <2>1, <2>6 DEF Lambda!HasFinishedIters, Lambda!At, Lambda!Step
  <2> QED
    BY <1>1, <1>3, <2>7 DEF Lambda!Next
<1> QED
  BY <1>5, <1>6, <1>7, <1>8 DEF CallTask

(***************************************************************************)
(* The pool adds nothing to the lambda and loses nothing: the scheduler    *)
(* implements TaskCalls, on which JacobiTask and SyncResidual build.       *)
(***************************************************************************)
THEOREM ImplementsCalls == Spec => ImplementsTaskCalls
<1>1. Init => Lambda!Init
  <2> SUFFICES ASSUME Init PROVE Lambda!Init
    OBVIOUS
  <2>1. Inv
    BY InitInv
  <2>2. /\ \A w \in Workers : wpc[w] # "call"
        /\ iter_number = [t \in TaskIds |-> 0]
    BY DEF Init, Pool!Init, Pool!Workers, Workers
  <2>3. \A t \in TaskIds : callPC[t] = "up" /\ callDiff[t] = 0
    BY <2>1, <2>2, View, lastIterType DEF Resting
  <2> QED
    BY <2>2, <2>3, ViewDomain DEF Lambda!Init, Lambda!TaskIds, TaskIds
<1>2. Inv /\ Inv' /\ Settled /\ [Next]_vars => [Lambda!Next]_(Lambda!vars)
  <2> SUFFICES ASSUME Inv, Inv', Settled, [Next]_vars
               PROVE  Lambda!Next \/ UNCHANGED <<iter_number, callPC, callDiff>>
    BY DEF Lambda!vars
  <2>1. CASE UNCHANGED <<poolVars, taskVars>>
    BY <2>1 DEF poolVars, taskVars, callPC, callDiff, Callers, lastIter
  <2>2. CASE MainStep
    BY <2>2, PoolUnseen DEF MainStep, taskVars
  <2>3. ASSUME NEW w \in Workers, InPool(w), UNCHANGED taskVars
        PROVE  UNCHANGED <<iter_number, callPC, callDiff>>
    BY <2>3, PoolUnseen DEF taskVars
  <2>4. ASSUME NEW w \in Workers, CallTask(w) PROVE Lambda!Next
    BY <2>4, CallSeen
  <2>5. CASE Pool!Ended /\ UNCHANGED taskVars
    BY <2>1, <2>5 DEF Pool!Ended, Pool!poolVars, poolVars
  <2> QED
    BY <2>1, <2>2, <2>3, <2>4, <2>5 DEF Next, WorkerStep, InPool, vars
<1>3. ImplementsTaskCalls <=> Lambda!Init /\ [][Lambda!Next]_(Lambda!vars)
  BY DEF ImplementsTaskCalls, Lambda!Spec
<1> QED
  BY <1>1, <1>2, <1>3, Invariance, InitSettled, NextSettled, PTL DEF Spec

-----------------------------------------------------------------------------
(* The scheduler never comes to a halt with work left to do. *)

LEMMA SamePoolSpec == Pool!Spec => PoolProofs!Spec
<1>1. Pool!Spec <=> Pool!Init /\ [][Pool!Next]_poolVars
  BY DEF Pool!Spec, Pool!poolVars, poolVars
<1> QED
  BY <1>1, SamePool, PTL DEF PoolProofs!Spec

\* Iterations are left and isPreCondsMet does not refuse the task.
CanRun(t) ==
  /\ iter_number[t] < lastIter
  /\ \A u \in {t - 1, t + 1} \cap TaskIds : Diff(t, u) \in {-1, 0}

InPoolsHands(t) ==
  \/ t >= task_id
  \/ \E i \in 1 .. Len(tasks) : tasks[i] = t
  \/ \E w \in Workers : wpc[w] \in {"call", "requeue", "count"} /\ task[w] = t

(***************************************************************************)
(* As long as iterations are left, some task could do one at once and has  *)
(* not been lost by the pool, and somebody, main or a worker, is awake to  *)
(* bring it forward.  Refused tasks are put back and called again and      *)
(* again; this is why they do not all refuse each other.                   *)
(***************************************************************************)
WorkGoesOn ==
  (\E t \in TaskIds : iter_number[t] < lastIter) =>
    /\ \E t \in TaskIds : CanRun(t) /\ InPoolsHands(t)
    /\ mpc \in {"enqueue", "notify"} \/ \E w \in Workers : wpc[w] \notin {"wait", "exited"}

\* The task that is furthest behind can run.
LEMMA FurthestBehind ==
  ASSUME Inv, NEW t \in TaskIds, iter_number[t] < lastIter
  PROVE  \E v \in TaskIds : CanRun(v) /\ InPoolsHands(v)
<1> DEFINE T == {iter_number[u] : u \in TaskIds}
<1>1. \A u \in TaskIds : iter_number[u] \in Nat
  BY lastIterType DEF Inv, TypeOK
<1>2. T \subseteq Nat /\ T # {}
  BY <1>1
<1>3. PICK x \in T : \A y \in T : x <= y
  BY <1>2, numTasksAssumption, maxIterAssumption, CallProofs!LeastNumber
<1>4. PICK v \in TaskIds : \A u \in TaskIds : iter_number[v] <= iter_number[u]
  BY <1>3
<1>5. iter_number[v] < lastIter
  BY <1>1, <1>4, lastIterType
<1>6. ASSUME NEW u \in {v - 1, v + 1} \cap TaskIds PROVE Diff(v, u) \in {-1, 0}
  <2>1. Diff(v, u) \in -1 .. 1
    <3>1. v \in Int /\ u \in Int
      BY DEF TaskIds
    <3>2. CASE u = v + 1
      BY <3>2 DEF Inv, Gap
    <3>3. CASE u = v - 1
      <4>1. u + 1 = v
        BY <3>1, <3>3
      <4>2. Diff(u, v) \in -1 .. 1
        BY <4>1 DEF Inv, Gap
      <4> QED
        BY <1>1, <4>2 DEF Diff
    <3> QED
      BY <3>2, <3>3
  <2> QED
    BY <1>1, <1>4, <2>1 DEF Diff
<1>7. InPoolsHands(v)
  BY <1>1, <1>5, lastIterType DEF Inv, Accounted, InPoolsHands
<1> QED
  BY <1>5, <1>6, <1>7 DEF CanRun

(***************************************************************************)
(* The tasks never all refuse to run while somebody waits for them, and    *)
(* nobody lets a task that could run lie: the scheduler does not come to   *)
(* a halt before all iterations are done.                                  *)
(***************************************************************************)
THEOREM NeverStandsStill == Spec => []WorkGoesOn
<1>1. Spec => []PoolProofs!NoStandstill
  BY ImplementsThreadPool, SamePoolSpec, PoolAssumptions, PoolProofs!NeverStandsStill, PTL
<1>2. Inv /\ PoolProofs!NoStandstill => WorkGoesOn
  <2> SUFFICES ASSUME Inv, PoolProofs!NoStandstill,
                      NEW t \in TaskIds, iter_number[t] < lastIter
               PROVE  /\ \E v \in TaskIds : CanRun(v) /\ InPoolsHands(v)
                      /\ \/ mpc \in {"enqueue", "notify"}
                         \/ \E w \in Workers : wpc[w] \notin {"wait", "exited"}
    BY DEF WorkGoesOn
  <2>1. \E v \in TaskIds : CanRun(v) /\ InPoolsHands(v)
    BY FurthestBehind
  <2>2. numTasksDone # numTasks
    <3> SUFFICES ASSUME numTasksDone = numTasks PROVE FALSE
      OBVIOUS
    <3>1. tasks = <<>> /\ PoolProofs!Holders = {} /\ task_id = numTasks
      BY PoolAssumptions, PoolProofs!NothingLeft DEF Inv, PoolInv
    <3>2. \A w \in Workers : wpc[w] \notin {"call", "requeue", "count"}
      BY <3>1 DEF PoolProofs!Holders, PoolProofs!Workers, Workers
    <3>3. Len(tasks) = 0 /\ ~(t >= task_id)
      BY <3>1, numTasksAssumption DEF TaskIds
    <3>4. iter_number[t] = lastIter
      BY <3>2, <3>3 DEF Inv, Accounted
    <3> QED
      BY <3>4, lastIterType
  <2> QED
    BY <2>1, <2>2 DEF PoolProofs!NoStandstill, PoolProofs!Workers, Workers
<1> QED
  BY <1>1, <1>2, Invariance, PTL
=============================================================================

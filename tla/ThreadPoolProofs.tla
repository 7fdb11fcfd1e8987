-------------------------- MODULE ThreadPoolProofs --------------------------
(***************************************************************************)
(* The safety properties of ThreadPool for any number of workers, tasks    *)
(* and processors.                                                         *)
(*                                                                         *)
(* The argument is a count.  Every task main has enqueued is in exactly    *)
(* one of three places: in the queue, held by a worker, or counted in      *)
(* numTasksDone.  Hence numTasksDone = numTasks, the only condition under  *)
(* which a worker goes on to set stop, leaves nothing in the queue and     *)
(* nothing in anybody's hands: nobody is left who could enqueue.           *)
(***************************************************************************)
EXTENDS ThreadPool, FiniteSetTheorems, SequenceTheorems, TLAPS

HolderPC == {"call", "requeue", "count"}
StoppingPC == {"assert", "stop", "notifyAll", "record"}

\* Main has another task to enqueue whenever it is about to enqueue one.
MainHasTask == mpc = "enqueue" => task_id < numTasks

HoldersHold == \A w \in Holders : task[w] \in TaskIds

Counted == Len(tasks) + Cardinality(Holders) + numTasksDone = task_id

StopAfterLast ==
  (stop \/ \E w \in Workers : wpc[w] \in StoppingPC) => numTasksDone = numTasks

Inv ==
  /\ TypeOK
  /\ MainHasTask
  /\ HoldersHold
  /\ Counted
  /\ StopAfterLast
  /\ NoEnqueueOnStoppedPool

-----------------------------------------------------------------------------
(* What the steps do to the set of holders. *)

LEMMA WorkersFinite == \A S \in SUBSET Workers : IsFiniteSet(S) /\ Cardinality(S) \in Nat
<1> SUFFICES ASSUME NEW S \in SUBSET Workers
             PROVE  IsFiniteSet(S) /\ Cardinality(S) \in Nat
  OBVIOUS
<1>1. IsFiniteSet(Workers)
  BY numThreadsAssumption, FS_Interval DEF Workers
<1>2. IsFiniteSet(S)
  BY <1>1, FS_Subset
<1> QED
  BY <1>2, FS_CardinalityType

\* notify_one moves at most one blocked worker, and only to the mutex.
LEMMA NotifyOneEffect ==
  ASSUME NEW pc \in [Workers -> WorkerPC], NEW npc \in NotifyOne(pc)
  PROVE  /\ npc \in [Workers -> WorkerPC]
         /\ \A v \in Workers : npc[v] = pc[v] \/ (pc[v] = "wait" /\ npc[v] = "lock")
BY DEF NotifyOne, WorkerPC

\* A step after which the same workers hold tasks leaves their number alone.
LEMMA HoldersKept ==
  ASSUME \A v \in Workers : wpc'[v] \in HolderPC <=> wpc[v] \in HolderPC
  PROVE  Holders' = Holders
BY DEF Holders, HolderPC

LEMMA HolderAdded ==
  ASSUME NEW w \in Workers, wpc[w] \notin HolderPC, wpc'[w] \in HolderPC,
         \A v \in Workers \ {w} : wpc'[v] \in HolderPC <=> wpc[v] \in HolderPC
  PROVE  /\ Holders' = Holders \cup {w}
         /\ Cardinality(Holders') = Cardinality(Holders) + 1
<1>1. Holders' = Holders \cup {w} /\ w \notin Holders
  BY DEF Holders, HolderPC
<1>2. IsFiniteSet(Holders)
  BY WorkersFinite DEF Holders
<1> QED
  BY <1>1, <1>2, FS_AddElement

LEMMA HolderRemoved ==
  ASSUME NEW w \in Workers, wpc[w] \in HolderPC, wpc'[w] \notin HolderPC,
         \A v \in Workers \ {w} : wpc'[v] \in HolderPC <=> wpc[v] \in HolderPC
  PROVE  /\ Holders' = Holders \ {w}
         /\ Cardinality(Holders') = Cardinality(Holders) - 1
<1>1. Holders' = Holders \ {w} /\ w \in Holders
  BY DEF Holders, HolderPC
<1>2. IsFiniteSet(Holders)
  BY WorkersFinite DEF Holders
<1> QED
  BY <1>1, <1>2, FS_RemoveElement

\* Once the last task is counted, no worker holds one and the queue is empty.
LEMMA NothingLeft ==
  ASSUME Inv, numTasksDone = numTasks
  PROVE  tasks = <<>> /\ Holders = {} /\ task_id = numTasks
<1>1. Cardinality(Holders) \in Nat /\ IsFiniteSet(Holders)
  BY WorkersFinite DEF Holders
<1>2. Len(tasks) \in Nat
  BY LenProperties DEF Inv, TypeOK
<1>3. Len(tasks) = 0 /\ Cardinality(Holders) = 0 /\ task_id = numTasks
  BY <1>1, <1>2, numTasksAssumption DEF Inv, TypeOK, Counted
<1> QED
  BY <1>1, <1>3, FS_EmptySet, EmptySeq DEF Inv, TypeOK

-----------------------------------------------------------------------------
LEMMA InitInv == Init => Inv
<1> SUFFICES ASSUME Init PROVE Inv
  OBVIOUS
<1>1. Holders = {}
  BY DEF Init, Holders
<1>2. TypeOK
  <2>1. tasks \in Seq(TaskIds)
    BY EmptySeq DEF Init
  <2>2. numTasksDone \in 0 .. numTasks /\ task_id \in 0 .. numTasks
    BY numTasksAssumption DEF Init
  <2>3. wpc \in [Workers -> WorkerPC] /\ task \in [Workers -> TaskIds \cup {NoTask}]
    BY DEF Init, WorkerPC
  <2> QED
    BY <2>1, <2>2, <2>3 DEF Init, TypeOK
<1>3. Counted
  BY <1>1, FS_EmptySet, EmptySeq DEF Init, Counted
<1> QED
  BY <1>1, <1>2, <1>3, numTasksAssumption
  DEF Init, Inv, MainHasTask, HoldersHold, StopAfterLast, StoppingPC,
      NoEnqueueOnStoppedPool, EnqueueOnStopped

(* One lemma per step of main or of a worker. *)

LEMMA EnqueueInv == Inv /\ Enqueue => Inv'
<1> SUFFICES ASSUME Inv, Enqueue PROVE Inv'
  OBVIOUS
<1>1. task_id \in TaskIds /\ task_id < numTasks
  BY numTasksAssumption DEF Inv, TypeOK, Enqueue, MainHasTask, TaskIds
<1>2. ~stop
  BY <1>1, NothingLeft, numTasksAssumption DEF Inv, StopAfterLast
<1>3. tasks' \in Seq(TaskIds) /\ Len(tasks') = Len(tasks) + 1
  BY <1>1, <1>2 DEF Enqueue, Inv, TypeOK
<1>4. task_id' = task_id + 1 /\ mpc' = "notify"
  BY <1>2 DEF Enqueue
<1>5. Holders' = Holders
  BY DEF Enqueue, Holders
<1>6. TypeOK'
  BY <1>1, <1>2, <1>3, <1>4, numTasksAssumption DEF Enqueue, Inv, TypeOK
<1>7. Counted'
  <2>1. Len(tasks) \in Nat /\ Cardinality(Holders) \in Nat
    BY LenProperties, WorkersFinite DEF Inv, TypeOK, Holders
  <2> QED
    BY <1>3, <1>4, <1>5, <2>1 DEF Enqueue, Inv, Counted, TypeOK
<1> QED
  BY <1>2, <1>4, <1>5, <1>6, <1>7
  DEF Enqueue, Inv, MainHasTask, HoldersHold, StopAfterLast, NoEnqueueOnStoppedPool

\* Steps that only move a program counter, between places that hold no task.
LEMMA MoveInv ==
  ASSUME Inv, UNCHANGED <<tasks, numTasksDone, task, task_id, stop, fault>>,
         TypeOK', MainHasTask',
         \A v \in Workers : wpc'[v] \in HolderPC <=> wpc[v] \in HolderPC,
         \A v \in Workers : wpc'[v] \in StoppingPC =>
           wpc[v] \in StoppingPC \/ numTasksDone = numTasks
  PROVE  Inv'
<1>1. Holders' = Holders
  BY HoldersKept
<1> QED
  BY <1>1 DEF Inv, HoldersHold, Counted, StopAfterLast, NoEnqueueOnStoppedPool

LEMMA NotifyEnqueuedInv == Inv /\ NotifyEnqueued => Inv'
<1> SUFFICES ASSUME Inv, NotifyEnqueued PROVE Inv'
  OBVIOUS
<1>1. /\ wpc' \in [Workers -> WorkerPC]
      /\ \A v \in Workers : wpc'[v] = wpc[v] \/ (wpc[v] = "wait" /\ wpc'[v] = "lock")
  BY NotifyOneEffect DEF NotifyEnqueued, Inv, TypeOK
<1>2. TypeOK' /\ MainHasTask'
  BY <1>1 DEF NotifyEnqueued, Inv, TypeOK, MainHasTask
<1> QED
  BY <1>1, <1>2, MoveInv DEF NotifyEnqueued, HolderPC, StoppingPC

LEMMA JoinInv == Inv /\ Join => Inv'
<1> SUFFICES ASSUME Inv, Join PROVE Inv'
  OBVIOUS
<1>1. TypeOK' /\ MainHasTask'
  BY DEF Join, Inv, TypeOK, MainHasTask
<1> QED
  BY <1>1, MoveInv DEF Join

LEMMA TakeInv == ASSUME Inv, NEW w \in Workers, Take(w) PROVE Inv'
<1>1. /\ Head(tasks) \in TaskIds
      /\ tasks' \in Seq(TaskIds)
      /\ Len(tasks') = Len(tasks) - 1
  BY HeadTailProperties DEF Take, Inv, TypeOK
<1>2. /\ wpc[w] = "lock" /\ wpc' = [wpc EXCEPT ![w] = "call"]
      /\ wpc \in [Workers -> WorkerPC]
      /\ task' = [task EXCEPT ![w] = Head(tasks)]
      /\ task \in [Workers -> TaskIds \cup {NoTask}]
  BY DEF Take, At, Goto, Inv, TypeOK
<1>3. Holders' = Holders \cup {w} /\ Cardinality(Holders') = Cardinality(Holders) + 1
  BY <1>2, HolderAdded DEF HolderPC
<1>4. TypeOK'
  BY <1>1, <1>2 DEF Take, Inv, TypeOK, WorkerPC
<1>5. HoldersHold'
  BY <1>1, <1>2, <1>3 DEF Inv, HoldersHold, Holders
<1>6. Counted'
  <2>1. Len(tasks) \in Nat /\ Cardinality(Holders) \in Nat
    BY LenProperties, WorkersFinite DEF Inv, TypeOK, Holders
  <2> QED
    BY <1>1, <1>3, <2>1 DEF Take, Inv, Counted, TypeOK
<1>7. StopAfterLast'
  BY <1>2 DEF Take, Inv, StopAfterLast, StoppingPC
<1> QED
  BY <1>4, <1>5, <1>6, <1>7
  DEF Take, Inv, MainHasTask, NoEnqueueOnStoppedPool

LEMMA RequeueInv == ASSUME Inv, NEW w \in Workers, Requeue(w) PROVE Inv'
<1>1. w \in Holders /\ task[w] \in TaskIds
  BY DEF Requeue, At, Holders, Inv, HoldersHold
<1>2. ~stop
  BY <1>1, NothingLeft DEF Inv, StopAfterLast
<1>3. tasks' \in Seq(TaskIds) /\ Len(tasks') = Len(tasks) + 1
  BY <1>1, <1>2 DEF Requeue, Inv, TypeOK
<1>4. /\ wpc' \in [Workers -> WorkerPC]
      /\ wpc[w] = "requeue" /\ wpc'[w] = "lock"
      /\ \A v \in Workers \ {w} : wpc'[v] = wpc[v] \/ (wpc[v] = "wait" /\ wpc'[v] = "lock")
  <2> DEFINE pc == [wpc EXCEPT ![w] = "lock"]
  <2>1. pc \in [Workers -> WorkerPC] /\ wpc' \in NotifyOne(pc) /\ wpc[w] = "requeue"
    BY <1>2 DEF Requeue, At, Inv, TypeOK, WorkerPC
  <2> HIDE DEF pc
  <2>2. /\ wpc' \in [Workers -> WorkerPC]
        /\ \A v \in Workers : wpc'[v] = pc[v] \/ (pc[v] = "wait" /\ wpc'[v] = "lock")
    BY <2>1, NotifyOneEffect
  <2>3. pc[w] = "lock" /\ \A v \in Workers \ {w} : pc[v] = wpc[v]
    BY DEF pc, Inv, TypeOK
  <2> QED
    BY <2>1, <2>2, <2>3
<1>5. Holders' = Holders \ {w} /\ Cardinality(Holders') = Cardinality(Holders) - 1
  BY <1>4, HolderRemoved DEF HolderPC
<1>6. TypeOK'
  BY <1>2, <1>3, <1>4 DEF Requeue, Inv, TypeOK
<1>7. HoldersHold'
  BY <1>2, <1>5 DEF Requeue, Inv, HoldersHold, Holders, TypeOK
<1>8. Counted'
  <2>1. Len(tasks) \in Nat /\ Cardinality(Holders) \in Nat
    BY LenProperties, WorkersFinite DEF Inv, TypeOK, Holders
  <2> QED
    BY <1>3, <1>5, <2>1 DEF Requeue, Inv, Counted, TypeOK
<1>9. StopAfterLast'
  BY <1>4 DEF Requeue, Inv, StopAfterLast, StoppingPC
<1> QED
  BY <1>2, <1>6, <1>7, <1>8, <1>9
  DEF Requeue, Inv, MainHasTask, NoEnqueueOnStoppedPool

LEMMA CountDoneInv == ASSUME Inv, NEW w \in Workers, CountDone(w) PROVE Inv'
<1>1. /\ wpc[w] = "count" /\ wpc' = [wpc EXCEPT ![w] = "compare"]
      /\ wpc \in [Workers -> WorkerPC]
  BY DEF CountDone, At, Goto, Inv, TypeOK
<1>2. /\ Holders' = Holders \ {w}
      /\ Cardinality(Holders') = Cardinality(Holders) - 1
  BY <1>1, HolderRemoved DEF HolderPC
<1>3. /\ Len(tasks) \in Nat /\ Cardinality(Holders) \in Nat
      /\ Cardinality(Holders') \in Nat
  BY <1>2, LenProperties, WorkersFinite DEF Inv, TypeOK, Holders
<1>4. Counted' /\ numTasksDone + 1 \in 0 .. numTasks
  BY <1>2, <1>3, numTasksAssumption DEF CountDone, Inv, Counted, TypeOK
<1>5. TypeOK'
  BY <1>1, <1>4 DEF CountDone, Inv, TypeOK, WorkerPC
<1>6. HoldersHold'
  BY <1>2 DEF CountDone, Inv, HoldersHold, Holders, TypeOK
<1>7. StopAfterLast'
  <2>1. ~(stop \/ \E v \in Workers : wpc[v] \in StoppingPC)
    BY <1>1, NothingLeft DEF Inv, StopAfterLast, Holders
  <2> QED
    BY <1>1, <2>1 DEF CountDone, StopAfterLast, StoppingPC
<1> QED
  BY <1>4, <1>5, <1>6, <1>7
  DEF CountDone, Inv, MainHasTask, NoEnqueueOnStoppedPool

LEMMA SetStopInv == ASSUME Inv, NEW w \in Workers, SetStop(w) PROVE Inv'
<1>1. /\ wpc[w] = "stop" /\ wpc' = [wpc EXCEPT ![w] = "notifyAll"]
      /\ wpc \in [Workers -> WorkerPC]
  BY DEF SetStop, At, Goto, Inv, TypeOK
<1>2. numTasksDone = numTasks
  BY <1>1 DEF Inv, StopAfterLast, StoppingPC
<1>3. Holders' = Holders
  BY <1>1, HoldersKept DEF HolderPC
<1>4. TypeOK'
  BY <1>1 DEF SetStop, Inv, TypeOK, WorkerPC
<1> QED
  BY <1>2, <1>3, <1>4
  DEF SetStop, Inv, MainHasTask, HoldersHold, Counted, StopAfterLast, NoEnqueueOnStoppedPool

\* The steps that move one worker from a place without a task to another one.
LEMMA OtherStepsInv ==
  ASSUME Inv, NEW w \in Workers,
         \/ Block(w) \/ SpuriousWakeup(w) \/ Leave(w) \/ Compare(w)
         \/ NotifyAll(w) \/ RecordTime(w) \/ Report(w)
  PROVE  Inv'
<1> USE DEF At, Goto, HolderPC, StoppingPC
<1>1. MainHasTask'
  BY DEF Block, SpuriousWakeup, Leave, Compare, NotifyAll, RecordTime, Report,
         Inv, MainHasTask
<1>2. TypeOK'
  BY DEF Block, SpuriousWakeup, Leave, Compare, NotifyAll, RecordTime, Report,
         Inv, TypeOK, WorkerPC
<1>3. \A v \in Workers : wpc'[v] \in HolderPC <=> wpc[v] \in HolderPC
  BY DEF Block, SpuriousWakeup, Leave, Compare, NotifyAll, RecordTime, Report,
         Inv, TypeOK
<1>4. \A v \in Workers : wpc'[v] \in StoppingPC =>
        wpc[v] \in StoppingPC \/ numTasksDone = numTasks
  BY DEF Block, SpuriousWakeup, Leave, Compare, NotifyAll, RecordTime, Report,
         Inv, TypeOK
<1>5. UNCHANGED <<tasks, numTasksDone, task, task_id, stop, fault>>
  BY DEF Block, SpuriousWakeup, Leave, Compare, NotifyAll, RecordTime, Report
<1> QED
  BY <1>1, <1>2, <1>3, <1>4, <1>5, MoveInv

\* Pinning and the assertion may end the process, for another reason.
LEMMA FaultStepsInv ==
  ASSUME Inv, NEW w \in Workers, Pin(w) \/ CheckStop(w)
  PROVE  Inv'
<1> USE DEF At, Goto, HolderPC, StoppingPC, Pin, CheckStop
<1>1. MainHasTask' /\ NoEnqueueOnStoppedPool'
  BY DEF Inv, MainHasTask, NoEnqueueOnStoppedPool, TooManyThreads, AssertStop, EnqueueOnStopped
<1>2. TypeOK'
  BY DEF Inv, TypeOK, WorkerPC
<1>3. Holders' = Holders
  BY HoldersKept DEF Inv, TypeOK
<1>4. StopAfterLast'
  BY DEF Inv, TypeOK, StopAfterLast
<1> QED
  BY <1>1, <1>2, <1>3, <1>4 DEF Inv, HoldersHold, Counted

LEMMA ReturnInv ==
  ASSUME Inv, NEW w \in Workers, NEW again \in BOOLEAN, Return(w, again)
  PROVE  Inv'
<1> USE DEF At, Goto, HolderPC, StoppingPC, Return
<1>1. MainHasTask'
  BY DEF Inv, MainHasTask
<1>2. TypeOK'
  BY DEF Inv, TypeOK, WorkerPC
<1> QED
  BY <1>1, <1>2, MoveInv DEF Inv, TypeOK

LEMMA NextInv == Inv /\ [Next]_poolVars => Inv'
<1> SUFFICES ASSUME Inv, [Next]_poolVars PROVE Inv'
  OBVIOUS
<1>1. CASE UNCHANGED poolVars
  BY <1>1 DEF poolVars, Inv, TypeOK, MainHasTask, HoldersHold, Holders, Counted,
              StopAfterLast, NoEnqueueOnStoppedPool
<1>2. CASE Main
  BY <1>2, EnqueueInv, NotifyEnqueuedInv, JoinInv DEF Main
<1>3. ASSUME NEW w \in Workers, PoolStep(w) \/ SpuriousWakeup(w) PROVE Inv'
  BY <1>3, TakeInv, RequeueInv, CountDoneInv, SetStopInv, OtherStepsInv, FaultStepsInv
  DEF PoolStep
<1>4. ASSUME NEW w \in Workers, NEW again \in BOOLEAN, Return(w, again) PROVE Inv'
  BY <1>4, ReturnInv
<1>5. CASE Ended
  BY <1>1, <1>5 DEF Ended
<1> QED
  BY <1>1, <1>2, <1>3, <1>4, <1>5 DEF Next

\* The inductive invariant holds of every behaviour.
THEOREM Invariance == Spec => []Inv
BY InitInv, NextInv, PTL DEF Spec

(***************************************************************************)
(* The variables of the pool keep their types; in particular numTasksDone  *)
(* never counts a task twice and the queue only holds tasks.               *)
(***************************************************************************)
THEOREM TypeCorrect == Spec => []TypeOK
<1>1. Inv => TypeOK
  BY DEF Inv
<1> QED
  BY <1>1, Invariance, PTL

(***************************************************************************)
(* Neither main nor a worker ever enqueues on the stopped pool, so the     *)
(* exceptions of ThreadPool.hpp:221 and :357 are never thrown.             *)
(***************************************************************************)
THEOREM NeverEnqueuesOnStopped == Spec => []NoEnqueueOnStoppedPool
<1>1. Inv => NoEnqueueOnStoppedPool
  BY DEF Inv
<1> QED
  BY <1>1, Invariance, PTL

-----------------------------------------------------------------------------
(* No task is in two places at once.  The ids main has yet to enqueue are not
   around, which keeps the queue free of duplicates. *)

Placed ==
  /\ \A i, j \in 1 .. Len(tasks) : tasks[i] = tasks[j] => i = j
  /\ \A w \in Holders : \A i \in 1 .. Len(tasks) : tasks[i] # task[w]
  /\ \A v, w \in Holders : task[v] = task[w] => v = w
  /\ \A i \in 1 .. Len(tasks) : tasks[i] < task_id
  /\ \A w \in Holders : task[w] < task_id

LEMMA InitPlaced == Init => Placed
BY EmptySeq DEF Init, Placed, Holders

LEMMA EnqueuePlaced == Inv /\ Placed /\ Enqueue => Placed'
<1> SUFFICES ASSUME Inv, Placed, Enqueue PROVE Placed'
  OBVIOUS
<1>1. CASE stop
  BY <1>1 DEF Enqueue, Placed, Holders
<1>2. CASE ~stop
  <2>1. /\ Len(tasks) \in Nat /\ Len(tasks') = Len(tasks) + 1
        /\ \A i \in 1 .. Len(tasks) : tasks'[i] = tasks[i] /\ tasks[i] \in TaskIds
        /\ tasks'[Len(tasks) + 1] = task_id /\ task_id' = task_id + 1
    BY <1>2 DEF Enqueue, Inv, TypeOK
  <2>2. Holders' = Holders /\ UNCHANGED task
    BY DEF Enqueue, Holders
  <2>3. task_id \in Int /\ \A w \in Holders : task[w] \in Int
    BY numTasksAssumption DEF Inv, TypeOK, HoldersHold, TaskIds
  <2>4. \A i \in 1 .. Len(tasks) : tasks[i] \in Int
    BY <2>1 DEF TaskIds
  <2> QED
    BY <2>1, <2>2, <2>3, <2>4 DEF Placed
<1> QED
  BY <1>1, <1>2

LEMMA TakePlaced == ASSUME Inv, Placed, NEW w \in Workers, Take(w) PROVE Placed'
<1>1. /\ wpc[w] = "lock" /\ wpc' = [wpc EXCEPT ![w] = "call"]
      /\ wpc \in [Workers -> WorkerPC]
      /\ task' = [task EXCEPT ![w] = Head(tasks)]
      /\ task \in [Workers -> TaskIds \cup {NoTask}]
  BY DEF Take, At, Goto, Inv, TypeOK
<1>2. Holders' = Holders \cup {w} /\ w \notin Holders
  BY <1>1, HolderAdded DEF HolderPC, Holders
<1>3. task'[w] = tasks[1] /\ \A v \in Holders : task'[v] = task[v]
  BY <1>1, <1>2 DEF Take, Holders, Inv, TypeOK
<1>4. /\ Len(tasks) \in Nat \ {0} /\ Len(tasks') = Len(tasks) - 1
      /\ \A i \in 1 .. Len(tasks') : tasks'[i] = tasks[i + 1]
  BY DEF Take, Inv, TypeOK
<1>5. task_id' = task_id
  BY DEF Take
<1> QED
  BY <1>2, <1>3, <1>4, <1>5 DEF Placed

LEMMA RequeuePlaced == ASSUME Inv, Placed, NEW w \in Workers, Requeue(w) PROVE Placed'
<1>1. w \in Holders /\ wpc[w] = "requeue" /\ task[w] \in TaskIds
  BY DEF Requeue, At, Holders, Inv, HoldersHold
<1>2. CASE stop
  BY <1>2 DEF Requeue, Placed, Holders
<1>3. CASE ~stop
  <2>1. \A v \in Holders' : v \in Holders \ {w}
    <3> DEFINE pc == [wpc EXCEPT ![w] = "lock"]
    <3>1. pc \in [Workers -> WorkerPC] /\ wpc' \in NotifyOne(pc)
      BY <1>3 DEF Requeue, At, Inv, TypeOK, WorkerPC
    <3> HIDE DEF pc
    <3>2. \A v \in Workers : wpc'[v] = pc[v] \/ (pc[v] = "wait" /\ wpc'[v] = "lock")
      BY <3>1, NotifyOneEffect
    <3>3. pc[w] = "lock" /\ \A v \in Workers \ {w} : pc[v] = wpc[v]
      BY DEF pc, Inv, TypeOK
    <3> QED
      BY <3>2, <3>3 DEF Holders
  <2>2. \A v \in Holders' : task'[v] = task[v]
    BY <1>3, <2>1 DEF Requeue, Holders, Inv, TypeOK
  <2>3. /\ Len(tasks) \in Nat /\ Len(tasks') = Len(tasks) + 1
        /\ \A i \in 1 .. Len(tasks) : tasks'[i] = tasks[i]
        /\ tasks'[Len(tasks) + 1] = task[w]
    BY <1>1, <1>3 DEF Requeue, Inv, TypeOK
  <2>4. task_id' = task_id
    BY DEF Requeue
  <2> QED
    BY <1>1, <2>1, <2>2, <2>3, <2>4 DEF Placed
<1> QED
  BY <1>2, <1>3

LEMMA CountDonePlaced == ASSUME Inv, Placed, NEW w \in Workers, CountDone(w) PROVE Placed'
<1>1. \A v \in Holders' : v \in Holders /\ task'[v] = task[v]
  BY DEF CountDone, At, Goto, Holders, Inv, TypeOK
<1> QED
  BY <1>1 DEF CountDone, Placed

\* All other steps leave the queue and the hands of the workers alone.
LEMMA OtherPlaced ==
  ASSUME Inv, Placed,
         \/ NotifyEnqueued \/ Join
         \/ \E w \in Workers :
              \/ Pin(w) \/ Block(w) \/ SpuriousWakeup(w) \/ Leave(w) \/ Compare(w)
              \/ CheckStop(w) \/ SetStop(w) \/ NotifyAll(w) \/ RecordTime(w) \/ Report(w)
              \/ \E again \in BOOLEAN : Return(w, again)
  PROVE  Placed'
<1>1. UNCHANGED <<tasks, task, task_id>>
  BY DEF NotifyEnqueued, Join, Pin, Block, SpuriousWakeup, Leave, Compare, CheckStop,
         SetStop, NotifyAll, RecordTime, Report, Return
<1>2. Holders' = Holders
  <2>1. CASE NotifyEnqueued
    <3>1. \A v \in Workers : wpc'[v] = wpc[v] \/ (wpc[v] = "wait" /\ wpc'[v] = "lock")
      BY <2>1, NotifyOneEffect DEF NotifyEnqueued, Inv, TypeOK
    <3> QED
      BY <3>1, HoldersKept DEF HolderPC
  <2>2. CASE Join
    BY <2>2 DEF Join, Holders
  <2>3. ASSUME NEW w \in Workers,
               \/ Pin(w) \/ Block(w) \/ SpuriousWakeup(w) \/ Leave(w) \/ Compare(w)
               \/ CheckStop(w) \/ SetStop(w) \/ NotifyAll(w) \/ RecordTime(w) \/ Report(w)
               \/ \E again \in BOOLEAN : Return(w, again)
        PROVE  Holders' = Holders
    <3>1. \A v \in Workers : wpc'[v] \in HolderPC <=> wpc[v] \in HolderPC
      BY <2>3 DEF Pin, Block, SpuriousWakeup, Leave, Compare, CheckStop, SetStop, NotifyAll,
                  RecordTime, Report, Return, At, Goto, HolderPC, Inv, TypeOK
    <3> QED
      BY <3>1, HoldersKept
  <2> QED
    BY <2>1, <2>2, <2>3
<1> QED
  BY <1>1, <1>2 DEF Placed

LEMMA NextPlaced == Inv /\ Placed /\ [Next]_poolVars => Placed'
<1> SUFFICES ASSUME Inv, Placed, [Next]_poolVars PROVE Placed'
  OBVIOUS
<1>1. CASE UNCHANGED poolVars
  BY <1>1 DEF poolVars, Placed, Holders
<1>2. CASE Main
  BY <1>2, EnqueuePlaced, OtherPlaced DEF Main
<1>3. ASSUME NEW w \in Workers,
             PoolStep(w) \/ SpuriousWakeup(w) \/ \E again \in BOOLEAN : Return(w, again)
      PROVE  Placed'
  BY <1>3, TakePlaced, RequeuePlaced, CountDonePlaced, OtherPlaced DEF PoolStep
<1>4. CASE Ended
  BY <1>1, <1>4 DEF Ended
<1> QED
  BY <1>1, <1>2, <1>3, <1>4 DEF Next

(***************************************************************************)
(* No task is lost or duplicated between the queue and the workers, so no  *)
(* two workers ever run the same task: the plain counter iter_number of a  *)
(* task needs no lock.                                                     *)
(***************************************************************************)
THEOREM Conservation == Spec => []TaskConservation
<1>1. Spec => []Placed
  BY InitPlaced, Invariance, NextPlaced, PTL DEF Spec
<1>2. Inv /\ Placed => TaskConservation
  BY DEF Inv, Counted, Placed, TaskConservation
<1> QED
  BY <1>1, <1>2, Invariance, PTL

-----------------------------------------------------------------------------
(* Sleeping workers: who still has to wake them. *)

\* Only Block puts a worker to sleep, and only before the pool is stopped.
LEMMA StaysAwake ==
  ASSUME Inv, [Next]_poolVars, Asleep' # {}
  PROVE  \/ Asleep # {}
         \/ \E w \in Workers : Block(w)
<1> SUFFICES ASSUME NEW v \in Workers, wpc'[v] = "wait", wpc[v] # "wait"
             PROVE  \E w \in Workers : Block(w)
  BY DEF Asleep
<1>1. CASE UNCHANGED poolVars
  BY <1>1 DEF poolVars
<1>2. CASE Main
  <2>1. ~NotifyEnqueued
    BY NotifyOneEffect DEF NotifyEnqueued, Inv, TypeOK
  <2> QED
    BY <1>2, <2>1 DEF Main, Enqueue, Join
<1>3. ASSUME NEW w \in Workers, Requeue(w) PROVE FALSE
  <2>1. CASE stop
    BY <1>3, <2>1 DEF Requeue
  <2>2. CASE ~stop
    <3> DEFINE pc == [wpc EXCEPT ![w] = "lock"]
    <3>1. pc \in [Workers -> WorkerPC] /\ wpc' \in NotifyOne(pc)
      BY <1>3, <2>2 DEF Requeue, At, Inv, TypeOK, WorkerPC
    <3>2. pc[v] # "wait"
      BY DEF Inv, TypeOK
    <3> HIDE DEF pc
    <3> QED
      BY <3>1, <3>2, NotifyOneEffect
  <2> QED
    BY <2>1, <2>2
<1>4. ASSUME NEW w \in Workers,
             PoolStep(w) \/ SpuriousWakeup(w) \/ \E again \in BOOLEAN : Return(w, again)
      PROVE  Block(w)
  BY <1>3, <1>4
  DEF PoolStep, Pin, Take, SpuriousWakeup, Leave, CountDone, Compare, CheckStop, SetStop,
      NotifyAll, RecordTime, Report, Return, Goto, Inv, TypeOK
<1>5. CASE Ended
  BY <1>1, <1>5 DEF Ended
<1> QED
  BY <1>1, <1>2, <1>4, <1>5 DEF Next

\* The worker that has yet to call notify_all stays there until it does.
LEMMA StaysAtNotifyAll ==
  ASSUME Inv, [Next]_poolVars, NEW w \in Workers, wpc[w] = "notifyAll"
  PROVE  NotifyAll(w) \/ wpc'[w] = "notifyAll"
<1>1. CASE UNCHANGED poolVars \/ Ended
  BY <1>1 DEF poolVars, Ended
<1>2. CASE Main
  <2>1. NotifyEnqueued => wpc'[w] = "notifyAll"
    BY NotifyOneEffect DEF NotifyEnqueued, Inv, TypeOK
  <2> QED
    BY <1>2, <2>1 DEF Main, Enqueue, Join
<1>3. ASSUME NEW v \in Workers, Requeue(v) PROVE wpc'[w] = "notifyAll"
  <2>1. CASE stop
    BY <1>3, <2>1 DEF Requeue
  <2>2. CASE ~stop
    <3> DEFINE pc == [wpc EXCEPT ![v] = "lock"]
    <3>1. pc \in [Workers -> WorkerPC] /\ wpc' \in NotifyOne(pc)
      BY <1>3, <2>2 DEF Requeue, At, Inv, TypeOK, WorkerPC
    <3>2. pc[w] = "notifyAll"
      BY <1>3 DEF Requeue, At, Inv, TypeOK
    <3> HIDE DEF pc
    <3> QED
      BY <3>1, <3>2, NotifyOneEffect
  <2> QED
    BY <2>1, <2>2
<1>4. ASSUME NEW v \in Workers,
             PoolStep(v) \/ SpuriousWakeup(v) \/ \E again \in BOOLEAN : Return(v, again)
      PROVE  NotifyAll(w) \/ wpc'[w] = "notifyAll"
  BY <1>3, <1>4
  DEF PoolStep, Pin, Take, Block, SpuriousWakeup, Leave, CountDone, Compare, CheckStop,
      SetStop, NotifyAll, RecordTime, Report, Return, At, Goto, Inv, TypeOK
<1> QED
  BY <1>1, <1>2, <1>4 DEF Next

(***************************************************************************)
(* No worker sleeps through the end of the computation: while one blocks   *)
(* with stop set, some other worker has notify_all still ahead of it.      *)
(***************************************************************************)
THEOREM NobodyLeftBehind == Spec => []NoMissedStop
<1>1. Init => NoMissedStop
  BY DEF Init, NoMissedStop
<1>2. Inv /\ NoMissedStop /\ [Next]_poolVars => NoMissedStop'
  <2> SUFFICES ASSUME Inv, NoMissedStop, [Next]_poolVars, stop', Asleep' # {}
               PROVE  \E w \in Workers : wpc'[w] = "notifyAll"
    BY DEF NoMissedStop
  <2>1. CASE \E w \in Workers : SetStop(w)
    BY <2>1 DEF SetStop, Goto, Inv, TypeOK
  <2>2. CASE ~\E w \in Workers : SetStop(w)
    <3>1. stop
      BY <2>2 DEF Next, Main, Enqueue, NotifyEnqueued, Join, PoolStep, Pin, Take, Block,
                  SpuriousWakeup, Leave, Requeue, CountDone, Compare, CheckStop,
                  NotifyAll, RecordTime, Report, Return, Ended, poolVars
    <3>2. Asleep # {}
      BY <3>1, StaysAwake DEF Block
    <3>3. PICK w \in Workers : wpc[w] = "notifyAll"
      BY <3>1, <3>2 DEF NoMissedStop
    <3>4. ~NotifyAll(w)
      BY DEF NotifyAll, Asleep
    <3> QED
      BY <3>3, <3>4, StaysAtNotifyAll
  <2> QED
    BY <2>1, <2>2
<1> QED
  BY <1>1, <1>2, Invariance, PTL DEF Spec

\* How the number of ready workers follows from who becomes and stays ready.
LEMMA ReadyGrows ==
  /\ Ready \subseteq Ready' => Cardinality(Ready) <= Cardinality(Ready')
  /\ \A w \in Workers :
       Ready \ {w} \subseteq Ready' => Cardinality(Ready) - 1 <= Cardinality(Ready')
  /\ \A w \in Workers \ Ready :
       Ready \cup {w} \subseteq Ready' => Cardinality(Ready) + 1 <= Cardinality(Ready')
<1>1. IsFiniteSet(Ready) /\ IsFiniteSet(Ready')
  BY WorkersFinite DEF Ready
<1>2. Cardinality(Ready) \in Nat /\ Cardinality(Ready') \in Nat
  BY <1>1, FS_CardinalityType
<1>3. Ready \subseteq Ready' => Cardinality(Ready) <= Cardinality(Ready')
  BY <1>1, FS_Subset
<1>4. ASSUME NEW w \in Workers, Ready \ {w} \subseteq Ready'
      PROVE  Cardinality(Ready) - 1 <= Cardinality(Ready')
  <2>1. Cardinality(Ready \ {w}) <= Cardinality(Ready')
    BY <1>1, <1>4, FS_Subset
  <2>2. Cardinality(Ready \ {w}) = IF w \in Ready THEN Cardinality(Ready) - 1
                                                ELSE Cardinality(Ready)
    BY <1>1, FS_RemoveElement
  <2> QED
    BY <1>2, <2>1, <2>2
<1>5. ASSUME NEW w \in Workers \ Ready, Ready \cup {w} \subseteq Ready'
      PROVE  Cardinality(Ready) + 1 <= Cardinality(Ready')
  <2>1. Cardinality(Ready \cup {w}) <= Cardinality(Ready')
    BY <1>1, <1>5, FS_Subset
  <2>2. Cardinality(Ready \cup {w}) = Cardinality(Ready) + 1
    BY <1>1, <1>5, FS_AddElement
  <2> QED
    BY <2>1, <2>2
<1> QED
  BY <1>3, <1>4, <1>5

LEMMA NextWorkConserving ==
  ASSUME Inv, WorkConserving, [Next]_poolVars
  PROVE  WorkConserving'
<1> SUFFICES ASSUME Asleep' # {}
             PROVE  Len(tasks') <= Cardinality(Ready') + (IF mpc' = "notify" THEN 1 ELSE 0)
  BY DEF WorkConserving
<1>1. Len(tasks) \in Nat /\ Cardinality(Ready) \in Nat /\ Cardinality(Ready') \in Nat
  BY LenProperties, WorkersFinite DEF Inv, TypeOK, Ready
<1>2. ASSUME NEW w \in Workers, Block(w) \/ Leave(w)
      PROVE  Len(tasks') = 0
  BY <1>2 DEF Block, Leave
<1>3. CASE Asleep = {}
  BY <1>1, <1>2, <1>3, StaysAwake
<1>4. CASE Asleep # {}
  <2>1. Len(tasks) <= Cardinality(Ready) + (IF mpc = "notify" THEN 1 ELSE 0)
    BY <1>4 DEF WorkConserving
  <2>2. CASE UNCHANGED poolVars \/ Ended
    BY <2>1, <2>2 DEF poolVars, Ended, Ready
  <2>3. CASE Enqueue
    <3>1. Ready' = Ready /\ mpc = "enqueue"
      BY <2>3 DEF Enqueue, Ready
    <3>2. \/ Len(tasks') = Len(tasks) + 1 /\ mpc' = "notify"
          \/ UNCHANGED <<tasks, mpc>>
      BY <2>3 DEF Enqueue, Inv, TypeOK
    <3> QED
      BY <1>1, <2>1, <3>1, <3>2
  <2>4. CASE NotifyEnqueued
    <3>1. PICK w \in Workers : wpc[w] = "wait" /\ wpc' = [wpc EXCEPT ![w] = "lock"]
      BY <1>4, <2>4 DEF NotifyEnqueued, NotifyOne, Asleep
    <3>2. w \notin Ready /\ Ready \cup {w} \subseteq Ready'
      BY <3>1 DEF Ready, Inv, TypeOK
    <3>3. Cardinality(Ready) + 1 <= Cardinality(Ready')
      BY <3>2, ReadyGrows
    <3> QED
      BY <1>1, <2>1, <2>4, <3>3 DEF NotifyEnqueued
  <2>5. CASE Join
    BY <2>1, <2>5 DEF Join, Ready
  <2>6. ASSUME NEW w \in Workers, Take(w)
        PROVE  Len(tasks') <= Cardinality(Ready') + (IF mpc' = "notify" THEN 1 ELSE 0)
    <3>1. Ready \ {w} \subseteq Ready'
      BY <2>6 DEF Take, Goto, Ready, Inv, TypeOK
    <3>2. Len(tasks') = Len(tasks) - 1 /\ mpc' = mpc
      BY <2>6, HeadTailProperties DEF Take, Inv, TypeOK
    <3>3. Cardinality(Ready) - 1 <= Cardinality(Ready')
      BY <3>1, ReadyGrows
    <3> QED
      BY <1>1, <2>1, <3>2, <3>3
  <2>7. ASSUME NEW w \in Workers, Requeue(w)
        PROVE  Len(tasks') <= Cardinality(Ready') + (IF mpc' = "notify" THEN 1 ELSE 0)
    <3>1. CASE stop
      BY <2>1, <2>7, <3>1 DEF Requeue, Ready
    <3>2. CASE ~stop
      <4> DEFINE pc == [wpc EXCEPT ![w] = "lock"]
      <4>1. pc \in [Workers -> WorkerPC] /\ wpc' \in NotifyOne(pc) /\ wpc[w] = "requeue"
        BY <2>7, <3>2 DEF Requeue, At, Inv, TypeOK, WorkerPC
      <4>2. pc[w] = "lock" /\ \A v \in Workers \ {w} : pc[v] = wpc[v]
        BY DEF Inv, TypeOK
      <4> HIDE DEF pc
      <4>3. w \notin Ready /\ Ready \cup {w} \subseteq Ready'
        BY <4>1, <4>2, NotifyOneEffect DEF Ready
      <4>4. Cardinality(Ready) + 1 <= Cardinality(Ready')
        BY <4>3, ReadyGrows
      <4>5. \E t \in TaskIds : tasks' = Append(tasks, t)
        BY <2>7, <3>2 DEF Requeue, At, Holders, Inv, HoldersHold
      <4>6. Len(tasks') = Len(tasks) + 1 /\ mpc' = mpc
        BY <2>7, <4>5 DEF Requeue, Inv, TypeOK
      <4> QED
        BY <1>1, <2>1, <4>4, <4>6
    <3> QED
      BY <3>1, <3>2
  <2>8. ASSUME NEW w \in Workers,
               \/ Pin(w) \/ SpuriousWakeup(w) \/ CountDone(w) \/ Compare(w) \/ CheckStop(w)
               \/ SetStop(w) \/ NotifyAll(w) \/ RecordTime(w) \/ Report(w)
               \/ \E again \in BOOLEAN : Return(w, again)
        PROVE  Len(tasks') <= Cardinality(Ready') + (IF mpc' = "notify" THEN 1 ELSE 0)
    <3>1. Ready \subseteq Ready'
      BY <2>8 DEF Pin, SpuriousWakeup, CountDone, Compare, CheckStop, SetStop, NotifyAll,
                  RecordTime, Report, Return, At, Goto, Ready, Inv, TypeOK
    <3>2. UNCHANGED <<tasks, mpc>>
      BY <2>8 DEF Pin, SpuriousWakeup, CountDone, Compare, CheckStop, SetStop, NotifyAll,
                  RecordTime, Report, Return
    <3>3. Cardinality(Ready) <= Cardinality(Ready')
      BY <3>1, ReadyGrows
    <3> QED
      BY <1>1, <2>1, <3>2, <3>3
  <2> QED
    BY <1>1, <1>2, <2>2, <2>3, <2>4, <2>5, <2>6, <2>7, <2>8 DEF Next, Main, PoolStep
<1> QED
  BY <1>3, <1>4

(***************************************************************************)
(* No notification of enqueue is lost on the way: while a worker blocks,   *)
(* the queue is never longer than the workers are that are about to look   *)
(* into it, so no queued task waits for a worker that stays asleep.        *)
(***************************************************************************)
THEOREM NoLostWakeup == Spec => []WorkConserving
<1>1. Init => WorkConserving
  BY DEF Init, WorkConserving, Asleep
<1> QED
  BY <1>1, NextWorkConserving, Invariance, PTL DEF Spec

-----------------------------------------------------------------------------
(* The pool never comes to a halt. *)

AllEnqueued == mpc \in {"join", "returned"} => task_id = numTasks

\* Whoever counts the last task has not forgotten to stop the pool.
LastOneStops ==
  numTasksDone = numTasks =>
    stop \/ \E w \in Workers : wpc[w] \in {"compare", "assert", "stop"}

\* Nobody breaks out of the loop before.
LeaveStopped == \A w \in Workers : wpc[w] \in {"left", "exited"} => stop

(***************************************************************************)
(* Main still enqueues, or some worker is at a place it leaves without     *)
(* anybody's help, or all tasks are done and all workers have ended, so    *)
(* that main can join them: it never happens that everybody who is left    *)
(* waits for the condition variable.  TLC's deadlock check does not see    *)
(* this, as a spurious wakeup is always possible there.                    *)
(***************************************************************************)
NoStandstill ==
  \/ mpc \in {"enqueue", "notify"}
  \/ \E w \in Workers : wpc[w] \notin {"wait", "exited"}
  \/ numTasksDone = numTasks /\ \A w \in Workers : wpc[w] = "exited"

LEMMA NextAllEnqueued == Inv /\ AllEnqueued /\ [Next]_poolVars => AllEnqueued'
<1> SUFFICES ASSUME Inv, AllEnqueued, [Next]_poolVars PROVE AllEnqueued'
  OBVIOUS
<1>1. CASE Enqueue
  BY <1>1 DEF Enqueue, AllEnqueued
<1>2. CASE NotifyEnqueued
  BY <1>2, numTasksAssumption DEF NotifyEnqueued, AllEnqueued, Inv, TypeOK
<1>3. CASE Join
  BY <1>3 DEF Join, AllEnqueued
<1>4. CASE ~Main
  <2>1. UNCHANGED <<mpc, task_id>>
    BY <1>4 DEF Next, PoolStep, Pin, Take, Block, SpuriousWakeup, Leave, Requeue, CountDone,
                Compare, CheckStop, SetStop, NotifyAll, RecordTime, Report, Return, Ended,
                poolVars
  <2> QED
    BY <2>1 DEF AllEnqueued
<1> QED
  BY <1>1, <1>2, <1>3, <1>4 DEF Main

\* A worker on its way to set stop stays on it.
LEMMA StaysOnItsWay ==
  ASSUME Inv, [Next]_poolVars, numTasksDone = numTasks,
         NEW w \in Workers, wpc[w] \in {"compare", "assert", "stop"}
  PROVE  stop' \/ wpc'[w] \in {"compare", "assert", "stop"}
<1>1. CASE UNCHANGED poolVars \/ Ended
  BY <1>1 DEF poolVars, Ended
<1>2. CASE Main
  <2>1. NotifyEnqueued => wpc'[w] = wpc[w]
    BY NotifyOneEffect DEF NotifyEnqueued, Inv, TypeOK
  <2> QED
    BY <1>2, <2>1 DEF Main, Enqueue, Join
<1>3. ASSUME NEW v \in Workers, Requeue(v) PROVE FALSE
  BY <1>3, NothingLeft DEF Requeue, At, Holders
<1>4. ASSUME NEW v \in Workers,
             PoolStep(v) \/ SpuriousWakeup(v) \/ \E again \in BOOLEAN : Return(v, again)
      PROVE  stop' \/ wpc'[w] \in {"compare", "assert", "stop"}
  BY <1>3, <1>4
  DEF PoolStep, Pin, Take, Block, SpuriousWakeup, Leave, CountDone, Compare, CheckStop,
      SetStop, NotifyAll, RecordTime, Report, Return, At, Goto, Inv, TypeOK
<1> QED
  BY <1>1, <1>2, <1>4 DEF Next

LEMMA NextLastOneStops == Inv /\ LastOneStops /\ [Next]_poolVars => LastOneStops'
<1> SUFFICES ASSUME Inv, LastOneStops, [Next]_poolVars, numTasksDone' = numTasks
             PROVE  stop' \/ \E w \in Workers : wpc'[w] \in {"compare", "assert", "stop"}
  BY DEF LastOneStops
<1>1. ASSUME NEW w \in Workers, CountDone(w)
      PROVE  wpc'[w] = "compare"
  BY <1>1 DEF CountDone, Goto, Inv, TypeOK
<1>2. CASE ~\E w \in Workers : CountDone(w)
  <2>1. UNCHANGED numTasksDone
    BY <1>2 DEF Next, Main, Enqueue, NotifyEnqueued, Join, PoolStep, Pin, Take, Block,
                SpuriousWakeup, Leave, Requeue, Compare, CheckStop, SetStop,
                NotifyAll, RecordTime, Report, Return, Ended, poolVars
  <2>2. ASSUME stop PROVE stop'
    <3>1. CASE \E w \in Workers : SetStop(w)
      BY <3>1 DEF SetStop
    <3>2. CASE ~\E w \in Workers : SetStop(w)
      BY <1>2, <2>2, <3>2
      DEF Next, Main, Enqueue, NotifyEnqueued, Join, PoolStep, Pin, Take, Block,
          SpuriousWakeup, Leave, Requeue, Compare, CheckStop, NotifyAll, RecordTime,
          Report, Return, Ended, poolVars
    <3> QED
      BY <3>1, <3>2
  <2> QED
    BY <2>1, <2>2, StaysOnItsWay DEF LastOneStops
<1> QED
  BY <1>1, <1>2

LEMMA NextLeaveStopped == Inv /\ LeaveStopped /\ [Next]_poolVars => LeaveStopped'
<1> SUFFICES ASSUME Inv, LeaveStopped, [Next]_poolVars,
                    NEW w \in Workers, wpc'[w] \in {"left", "exited"}
             PROVE  stop'
  BY DEF LeaveStopped
<1>1. CASE \E v \in Workers : SetStop(v)
  BY <1>1 DEF SetStop
<1>2. CASE ~\E v \in Workers : SetStop(v)
  <2>1. stop => stop'
    BY <1>2 DEF Next, Main, Enqueue, NotifyEnqueued, Join, PoolStep, Pin, Take, Block,
                SpuriousWakeup, Leave, Requeue, CountDone, Compare, CheckStop, NotifyAll,
                RecordTime, Report, Return, Ended, poolVars
  <2>2. CASE Leave(w)
    BY <2>1, <2>2 DEF Leave
  <2>3. CASE wpc[w] \in {"left", "exited"}
    BY <2>1, <2>3 DEF LeaveStopped
  <2>4. CASE wpc[w] \notin {"left", "exited"} /\ ~Leave(w)
    <3>1. CASE UNCHANGED poolVars \/ Ended
      BY <2>4, <3>1 DEF poolVars, Ended
    <3>2. CASE Main
      <4>1. NotifyEnqueued => wpc'[w] = wpc[w] \/ wpc'[w] = "lock"
        BY NotifyOneEffect DEF NotifyEnqueued, Inv, TypeOK
      <4> QED
        BY <2>4, <3>2, <4>1 DEF Main, Enqueue, Join
    <3>3. ASSUME NEW v \in Workers, Requeue(v), ~stop PROVE FALSE
      <4> DEFINE pc == [wpc EXCEPT ![v] = "lock"]
      <4>1. pc \in [Workers -> WorkerPC] /\ wpc' \in NotifyOne(pc)
        BY <3>3 DEF Requeue, At, Inv, TypeOK, WorkerPC
      <4>2. pc[w] \notin {"left", "exited"}
        BY <2>4 DEF Inv, TypeOK
      <4> HIDE DEF pc
      <4> QED
        BY <4>1, <4>2, NotifyOneEffect
    <3>4. ASSUME NEW v \in Workers, Requeue(v), stop PROVE stop'
      BY <3>4 DEF Requeue
    <3>5. ASSUME NEW v \in Workers, PoolStep(v) \/ SpuriousWakeup(v), ~Requeue(v)
          PROVE  FALSE
      BY <1>2, <2>4, <3>5
      DEF PoolStep, Pin, Take, Block, SpuriousWakeup, Leave, CountDone, Compare, CheckStop,
          NotifyAll, RecordTime, Report, At, Goto, Inv, TypeOK
    <3>6. ASSUME NEW v \in Workers, NEW again \in BOOLEAN, Return(v, again)
          PROVE  FALSE
      BY <2>4, <3>6 DEF Return, At, Goto, Inv, TypeOK
    <3> QED
      BY <3>1, <3>2, <3>3, <3>4, <3>5, <3>6 DEF Next
  <2> QED
    BY <2>2, <2>3, <2>4
<1> QED
  BY <1>1, <1>2

\* If everybody waits, nothing is queued or held: the last task was counted.
LEMMA EverybodyWaits ==
  ASSUME Inv, WorkConserving, NoMissedStop, AllEnqueued, LastOneStops, LeaveStopped
  PROVE  NoStandstill
<1>0. ASSUME \A w \in Workers : wpc[w] = "exited" PROVE numTasksDone = numTasks
  <2>1. 0 \in Workers
    BY numThreadsAssumption DEF Workers
  <2> QED
    BY <1>0, <2>1 DEF LeaveStopped, Inv, StopAfterLast
<1> SUFFICES ASSUME mpc \notin {"enqueue", "notify"},
                    \A w \in Workers : wpc[w] \in {"wait", "exited"},
                    Asleep # {}
             PROVE  FALSE
  BY <1>0 DEF NoStandstill, Asleep
<1>1. Holders = {} /\ Ready = {}
  BY DEF Holders, Ready
<1>2. Len(tasks) = 0
  BY <1>1, FS_EmptySet, LenProperties DEF WorkConserving, Inv, TypeOK
<1>3. task_id = numTasks
  BY DEF AllEnqueued, Inv, TypeOK
<1>4. numTasksDone = numTasks
  BY <1>1, <1>2, <1>3, FS_EmptySet, numTasksAssumption DEF Inv, Counted, TypeOK
<1>5. stop
  BY <1>4 DEF LastOneStops
<1> QED
  BY <1>5 DEF NoMissedStop

(***************************************************************************)
(* The workers never all wait for one another, nor main for workers that   *)
(* nobody wakes: no wakeup of enqueue and no stop is lost, and the worker  *)
(* that counts the last task is on its way to stop the pool.               *)
(***************************************************************************)
THEOREM NeverStandsStill == Spec => []NoStandstill
<1>1. Init => AllEnqueued /\ LastOneStops /\ LeaveStopped
  BY numTasksAssumption DEF Init, AllEnqueued, LastOneStops, LeaveStopped
<1>2. Spec => []AllEnqueued
  BY <1>1, NextAllEnqueued, Invariance, PTL DEF Spec
<1>3. Spec => []LastOneStops
  BY <1>1, NextLastOneStops, Invariance, PTL DEF Spec
<1>4. Spec => []LeaveStopped
  BY <1>1, NextLeaveStopped, Invariance, PTL DEF Spec
<1> QED
  BY <1>2, <1>3, <1>4, EverybodyWaits, Invariance, NoLostWakeup, NobodyLeftBehind, PTL
=============================================================================

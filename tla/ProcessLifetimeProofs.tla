----------------------- MODULE ProcessLifetimeProofs -----------------------
(***************************************************************************)
(* What ProcessLifetime promises for any number of workers and tasks.      *)
(*                                                                         *)
(* The invariant is a table (Owned): for every place main can be in, who   *)
(* holds the grid, the pool and the vectors.  The one entry that rests on  *)
(* the workers is Joined: the statics defined before Task::TPPtr are only  *)
(* touched after its destructor has seen every worker exited.  That the    *)
(* queue holds no task function at the end comes from the pool (Drained):  *)
(* a worker leaves only when stop is set and the queue is empty, and stays *)
(* right about both.                                                       *)
(***************************************************************************)
EXTENDS ProcessLifetime, TLAPS

PoolProofs == INSTANCE ThreadPoolProofs

Wired == [t \in TaskIds |-> Adjacent(t)]

\* Who holds what while main is where it is.
Owned ==
  /\ lpc \in Starting \cup Running \cup Exiting
  /\ gridOwners \subseteq {"main", "Task::gridPtr", "pool"}
  /\ poolOwners \subseteq {"main", "Task::TPPtr"}
  /\ vectors \subseteq {"main", "Task::tasks"}
  /\ "main" \in gridOwners <=> lpc \notin {"grid", "statics", "ended"}
  /\ "Task::gridPtr" \in gridOwners <=> lpc \notin {"grid", "setGridPtr"} /\ statics >= 1
  /\ "pool" \in gridOwners <=> poolOwners # {}
  /\ "main" \in poolOwners <=> lpc \in Running
  /\ "Task::TPPtr" \in poolOwners <=> lpc \notin Starting \cup {"setTPPtr"} /\ statics >= 3
  /\ "main" \in vectors <=>
       lpc \notin {"grid", "setGridPtr", "tasks", "~gridPtr", "statics", "ended"}
  /\ "Task::tasks" \in vectors <=>
       lpc \notin {"grid", "setGridPtr", "tasks", "setTaskObjs"} /\ statics >= 2

\* How far the statics are destroyed.
Counted ==
  /\ statics \in 0 .. 4
  /\ lpc \notin {"statics", "ended"} => statics = 4
  /\ statics = 0 <=> lpc = "ended"

Built ==
  /\ made = IF lpc \in {"grid", "setGridPtr", "tasks"} THEN {} ELSE TaskIds
  /\ nbrs_ \in [TaskIds -> SUBSET TaskIds]
  /\ lpc \in {"pool"} \cup Running \cup Exiting => nbrs_ = Wired

\* No worker runs before the pool is constructed.
Unstarted == lpc \in Starting => \A w \in Workers : wpc[w] = "pin"

Joined == statics < 3 => \A w \in Workers : wpc[w] = "exited"

Drained ==
  (\E w \in Workers : wpc[w] \in {"left", "exited"}) => stop /\ tasks = <<>>

Inv == Owned /\ Counted /\ Built /\ Unstarted /\ Joined /\ Drained /\ PoolProofs!Inv

LEMMA StaticsInOrderFacts ==
  /\ Len(StaticsInOrder) = 4
  /\ StaticsInOrder[1] = "Task::gridPtr" /\ StaticsInOrder[2] = "Task::tasks"
  /\ StaticsInOrder[3] = "Task::TPPtr" /\ StaticsInOrder[4] = "Task::isAllTasksDone"
BY DEF StaticsInOrder

-----------------------------------------------------------------------------
(* The two instances of ThreadPool, Pool! and PoolProofs!, are the same. *)

LEMMA SamePool ==
  /\ Pool!Init <=> PoolProofs!Init
  /\ [Pool!Next]_poolVars <=> [PoolProofs!Next]_(PoolProofs!poolVars)
<1>1. Pool!Init <=> PoolProofs!Init
  BY DEF Pool!Init, PoolProofs!Init, Pool!Workers, PoolProofs!Workers,
         Pool!NoTask, PoolProofs!NoTask
<1>2. Pool!Next <=> PoolProofs!Next
  BY DEF Pool!At, PoolProofs!At, Pool!Goto, PoolProofs!Goto,
         Pool!Alive, PoolProofs!Alive, Pool!NotifyOne, PoolProofs!NotifyOne,
         Pool!Workers, PoolProofs!Workers, Pool!NoTask, PoolProofs!NoTask,
         Pool!TooManyThreads, PoolProofs!TooManyThreads,
         Pool!EnqueueOnStopped, PoolProofs!EnqueueOnStopped,
         Pool!AssertStop, PoolProofs!AssertStop, Pool!poolVars, PoolProofs!poolVars,
         Pool!Enqueue, PoolProofs!Enqueue, Pool!NotifyEnqueued, PoolProofs!NotifyEnqueued,
         Pool!Join, PoolProofs!Join, Pool!Main, PoolProofs!Main,
         Pool!Pin, PoolProofs!Pin, Pool!Take, PoolProofs!Take,
         Pool!Block, PoolProofs!Block, Pool!Leave, PoolProofs!Leave,
         Pool!SpuriousWakeup, PoolProofs!SpuriousWakeup, Pool!Return, PoolProofs!Return,
         Pool!Requeue, PoolProofs!Requeue, Pool!CountDone, PoolProofs!CountDone,
         Pool!Compare, PoolProofs!Compare, Pool!CheckStop, PoolProofs!CheckStop,
         Pool!SetStop, PoolProofs!SetStop, Pool!NotifyAll, PoolProofs!NotifyAll,
         Pool!RecordTime, PoolProofs!RecordTime, Pool!Report, PoolProofs!Report,
         Pool!PoolStep, PoolProofs!PoolStep, Pool!Ended, PoolProofs!Ended,
         Pool!Next, PoolProofs!Next
<1> QED
  BY <1>1, <1>2 DEF poolVars, PoolProofs!poolVars

\* The assumptions of ThreadPool follow from those made here.
LEMMA PoolAssumptions ==
  /\ numThreads \in Nat \ {0} /\ numTasks \in Nat \ {0}
  /\ num_cores \in Nat \ {0} /\ NDEBUG \in BOOLEAN
BY numThreadsAssumption, numTasksAssumption, num_coresAssumption, NDEBUGAssumption

LEMMA PoolInit == Pool!Init => PoolProofs!Inv
BY PoolAssumptions, PoolProofs!InitInv, SamePool

LEMMA PoolNext == PoolProofs!Inv /\ [Pool!Next]_poolVars => PoolProofs!Inv'
<1>1. PoolProofs!Inv /\ [PoolProofs!Next]_(PoolProofs!poolVars) => PoolProofs!Inv'
  BY PoolAssumptions, PoolProofs!NextInv
<1> QED
  BY <1>1, SamePool

\* Every step is, to the pool, one of its own or none.
LEMMA PoolStepOrNone == [Next]_vars => [Pool!Next]_poolVars
<1> SUFFICES ASSUME [Next]_vars PROVE Pool!Next \/ UNCHANGED poolVars
  OBVIOUS
<1>1. CASE UNCHANGED vars
  BY <1>1 DEF vars
<1>2. CASE NewGrid \/ SetGridPtr \/ NewTasks \/ SetTaskObjs \/ SetNbrs \/ NewPool \/ SetTPPtr
  BY <1>2 DEF NewGrid, SetGridPtr, NewTasks, SetTaskObjs, SetNbrs, NewPool, SetTPPtr
<1>3. CASE EnqueueTasks
  BY <1>3 DEF EnqueueTasks, Pool!Next, Pool!Main
<1>4. ASSUME NEW owner, ReleasePool(owner) PROVE Pool!Next \/ UNCHANGED poolVars
  BY <1>4 DEF ReleasePool, Pool!Next, Pool!Main
<1>5. CASE DestroyPool
  BY <1>4, <1>5 DEF DestroyPool
<1>6. CASE DestroyTasks \/ DestroyGridPtr
  BY <1>6 DEF DestroyTasks, DestroyGridPtr
<1>7. CASE DestroyStatic
  BY <1>4, <1>7 DEF DestroyStatic
<1>8. ASSUME NEW w \in Workers, Work(w) \/ SpuriousWakeup(w) PROVE Pool!Next
  BY <1>8 DEF Work, SpuriousWakeup, Pool!Next, Pool!Workers, Workers
<1>9. CASE Ended
  BY <1>9 DEF Ended, vars
<1> QED
  BY <1>1, <1>2, <1>3, <1>5, <1>6, <1>7, <1>8, <1>9 DEF Next, Main

(***************************************************************************)
(* main.cpp drives the pool as ThreadPool assumes: all theorems about the  *)
(* pool hold of the whole process, from its start to its exit.             *)
(***************************************************************************)
THEOREM ImplementsPool == Spec => ImplementsThreadPool
<1>1. Init => Pool!Init
  BY DEF Init
<1>2. [Next]_vars => [Pool!Next]_(Pool!poolVars)
  BY PoolStepOrNone DEF poolVars, Pool!poolVars
<1>3. ImplementsThreadPool <=> Pool!Init /\ [][Pool!Next]_(Pool!poolVars)
  BY DEF ImplementsThreadPool, Pool!Spec
<1> QED
  BY <1>1, <1>2, <1>3, PTL DEF Spec


-----------------------------------------------------------------------------
(* The invariant. *)

LEMMA InitInv == Init => Inv
<1> SUFFICES ASSUME Init PROVE Inv
  OBVIOUS
<1> USE StaticsInOrderFacts DEF Init
<1>1. Owned /\ Counted
  BY DEF Owned, Counted, Starting, Running, Exiting
<1>2. Built
  BY DEF Built, Running, Exiting
<1>3. Unstarted /\ Drained
  BY DEF Unstarted, Drained, Pool!Init, Pool!Workers, Workers
<1>4. Joined
  BY DEF Joined
<1>5. PoolProofs!Inv
  BY PoolInit
<1> QED
  BY <1>1, <1>2, <1>3, <1>4, <1>5 DEF Inv

\* What main's steps before the enqueue loop have in common.
LEMMA StartStep ==
  ASSUME NewGrid \/ SetGridPtr \/ NewTasks \/ SetTaskObjs \/ SetNbrs \/ NewPool \/ SetTPPtr
  PROVE  UNCHANGED <<poolVars, statics>>
BY DEF NewGrid, SetGridPtr, NewTasks, SetTaskObjs, SetNbrs, NewPool, SetTPPtr

\* The only releases of the pool: main's, of two, and the last one of Task::TPPtr.
LEMMA DestroyPoolEffect ==
  ASSUME Inv, DestroyPool
  PROVE  /\ lpc = "enqueue" /\ lpc' = "~tasks"
         /\ poolOwners' = {"Task::TPPtr"}
         /\ UNCHANGED <<poolVars, gridOwners, vectors, made, nbrs_, statics>>
<1>1. lpc = "enqueue" /\ lpc' = "~tasks" /\ ReleasePool("main")
  BY DEF DestroyPool, At
<1>2. poolOwners = {"main", "Task::TPPtr"}
  <2>1. statics = 4
    BY <1>1 DEF Inv, Counted
  <2>2. "main" \in poolOwners /\ "Task::TPPtr" \in poolOwners
    BY <1>1, <2>1 DEF Inv, Owned, Running, Starting
  <2> QED
    BY <2>2 DEF Inv, Owned
<1> QED
  BY <1>1, <1>2 DEF DestroyPool, ReleasePool

LEMMA DestroyTPPtrEffect ==
  ASSUME Inv, DestroyStatic, statics = 3
  PROVE  /\ \A w \in Workers : wpc[w] = "exited"
         /\ poolOwners' = {} /\ gridOwners' = gridOwners \ {"pool"}
         /\ vectors' = vectors
         /\ UNCHANGED <<tasks, stop, wpc>>
<1>1. ReleasePool("Task::TPPtr") /\ lpc = "statics"
  BY StaticsInOrderFacts DEF DestroyStatic, At
<1>2. vectors' = vectors
  BY StaticsInOrderFacts DEF DestroyStatic, Inv, Owned
<1>3. poolOwners = {"Task::TPPtr"}
  <2>1. "main" \notin poolOwners /\ "Task::TPPtr" \in poolOwners
    BY <1>1 DEF Inv, Owned, Running, Starting
  <2> QED
    BY <2>1 DEF Inv, Owned
<1>4. Pool!Join /\ poolOwners' = {} /\ gridOwners' = gridOwners \ {"pool"}
  BY <1>1, <1>3 DEF ReleasePool
<1> QED
  BY <1>2, <1>4 DEF Pool!Join, Pool!Workers, Workers

LEMMA DestroyOtherEffect ==
  ASSUME Inv, DestroyStatic, statics # 3
  PROVE  /\ gridOwners' = gridOwners \ {StaticsInOrder[statics]}
         /\ vectors' = vectors \ {StaticsInOrder[statics]}
         /\ UNCHANGED <<poolVars, poolOwners>>
<1>1. statics \in 1 .. 4 /\ lpc = "statics"
  BY DEF Inv, Counted, DestroyStatic, At
<1>2. StaticsInOrder[statics] # "Task::TPPtr"
  BY <1>1, StaticsInOrderFacts
<1> QED
  BY <1>2 DEF DestroyStatic

LEMMA NextCounted == Inv /\ [Next]_vars => Counted'
<1> SUFFICES ASSUME Inv, [Next]_vars PROVE Counted'
  OBVIOUS
<1> USE DEF Inv, Counted, At
<1>1. CASE UNCHANGED vars \/ Ended
  BY <1>1 DEF vars, ownVars, Ended
<1>2. CASE NewGrid \/ SetGridPtr \/ NewTasks \/ SetTaskObjs \/ SetNbrs \/ NewPool \/ SetTPPtr
  BY <1>2 DEF NewGrid, SetGridPtr, NewTasks, SetTaskObjs, SetNbrs, NewPool, SetTPPtr
<1>3. CASE EnqueueTasks \/ \E w \in Workers : Work(w) \/ SpuriousWakeup(w)
  BY <1>3 DEF EnqueueTasks, Work, SpuriousWakeup, ownVars
<1>4. CASE DestroyPool \/ DestroyTasks \/ DestroyGridPtr
  BY <1>4 DEF DestroyPool, DestroyTasks, DestroyGridPtr
<1>5. CASE DestroyStatic
  <2>1. statics \in 1 .. 4 /\ statics' = statics - 1
    BY <1>5 DEF DestroyStatic
  <2>2. lpc = "statics" /\ lpc' = IF statics' = 0 THEN "ended" ELSE "statics"
    BY <1>5 DEF DestroyStatic
  <2> QED
    BY <2>1, <2>2
<1> QED
  BY <1>1, <1>2, <1>3, <1>4, <1>5 DEF Next, Main

LEMMA NextBuilt == Inv /\ [Next]_vars => Built'
<1> SUFFICES ASSUME Inv, [Next]_vars PROVE Built'
  OBVIOUS
<1> USE DEF Inv, Built, At, Running, Exiting
<1>1. CASE UNCHANGED vars \/ Ended
  BY <1>1 DEF vars, ownVars, Ended
<1>2. CASE NewGrid \/ SetGridPtr \/ NewTasks \/ SetTaskObjs \/ NewPool \/ SetTPPtr
  BY <1>2 DEF NewGrid, SetGridPtr, NewTasks, SetTaskObjs, NewPool, SetTPPtr
<1>3. CASE SetNbrs
  <2>1. nbrs_' = Wired /\ UNCHANGED made /\ lpc = "setNbrs" /\ lpc' = "pool"
    BY <1>3 DEF SetNbrs, Wired
  <2>2. Wired \in [TaskIds -> SUBSET TaskIds] /\ Wired' = Wired
    BY DEF Wired, Adjacent
  <2> QED
    BY <2>1, <2>2
<1>4. CASE EnqueueTasks \/ \E w \in Workers : Work(w) \/ SpuriousWakeup(w)
  BY <1>4 DEF EnqueueTasks, Work, SpuriousWakeup, ownVars
<1>5. CASE DestroyPool \/ DestroyTasks \/ DestroyGridPtr \/ DestroyStatic
  BY <1>5 DEF DestroyPool, DestroyTasks, DestroyGridPtr, DestroyStatic
<1> QED
  BY <1>1, <1>2, <1>3, <1>4, <1>5 DEF Next, Main

LEMMA NextOwned == Inv /\ [Next]_vars => Owned'
<1> SUFFICES ASSUME Inv, [Next]_vars PROVE Owned'
  OBVIOUS
<1> USE DEF Inv, Owned, Counted, At, Starting, Running, Exiting
<1>1. CASE UNCHANGED vars \/ Ended
  BY <1>1 DEF vars, ownVars, Ended
<1>2. CASE NewGrid
  BY <1>2 DEF NewGrid
<1>3. CASE SetGridPtr
  BY <1>3 DEF SetGridPtr
<1>4. CASE NewTasks
  BY <1>4 DEF NewTasks
<1>5. CASE SetTaskObjs
  BY <1>5 DEF SetTaskObjs
<1>6. CASE SetNbrs
  BY <1>6 DEF SetNbrs
<1>7. CASE NewPool
  BY <1>7 DEF NewPool
<1>8. CASE SetTPPtr
  BY <1>8 DEF SetTPPtr
<1>9. CASE EnqueueTasks \/ \E w \in Workers : Work(w) \/ SpuriousWakeup(w)
  BY <1>9 DEF EnqueueTasks, Work, SpuriousWakeup, ownVars
<1>10. CASE DestroyPool
  <2>1. /\ lpc = "enqueue" /\ lpc' = "~tasks" /\ poolOwners' = {"Task::TPPtr"}
        /\ UNCHANGED <<gridOwners, vectors, statics>>
    BY <1>10, DestroyPoolEffect
  <2>2. statics = 4 /\ "pool" \in gridOwners
    BY <2>1
  <2> QED
    BY <2>1, <2>2
<1>11. CASE DestroyTasks
  BY <1>11 DEF DestroyTasks
<1>12. CASE DestroyGridPtr
  BY <1>12 DEF DestroyGridPtr
<1>13. CASE DestroyStatic
  <2>1. /\ statics \in 1 .. 4 /\ statics' = statics - 1
        /\ lpc = "statics" /\ lpc' = IF statics' = 0 THEN "ended" ELSE "statics"
    BY <1>13 DEF DestroyStatic
  <2>2. CASE statics = 3
    <3>1. /\ poolOwners' = {} /\ gridOwners' = gridOwners \ {"pool"}
          /\ vectors' = vectors
      BY <1>13, <2>2, DestroyTPPtrEffect
    <3> QED
      BY <2>1, <2>2, <3>1
  <2>3. CASE statics # 3
    <3>1. /\ gridOwners' = gridOwners \ {StaticsInOrder[statics]}
          /\ vectors' = vectors \ {StaticsInOrder[statics]}
          /\ poolOwners' = poolOwners
      BY <1>13, <2>3, DestroyOtherEffect
    <3>2. CASE statics = 4
      BY <2>1, <3>1, <3>2, StaticsInOrderFacts
    <3>3. CASE statics = 2
      BY <2>1, <3>1, <3>3, StaticsInOrderFacts
    <3>4. CASE statics = 1
      BY <2>1, <3>1, <3>4, StaticsInOrderFacts
    <3> QED
      BY <2>1, <2>3, <3>2, <3>3, <3>4
  <2> QED
    BY <2>2, <2>3
<1> QED
  BY <1>1, <1>2, <1>3, <1>4, <1>5, <1>6, <1>7, <1>8, <1>9, <1>10, <1>11, <1>12, <1>13
     DEF Next, Main


-----------------------------------------------------------------------------
(* The three conjuncts that speak of the workers. *)

LEMMA NextUnstarted == Inv /\ [Next]_vars => Unstarted'
<1> SUFFICES ASSUME Inv, [Next]_vars, lpc' \in Starting
             PROVE  \A w \in Workers : wpc'[w] = "pin"
  BY DEF Unstarted
<1> USE DEF Inv, Unstarted, At, Starting
<1>1. CASE UNCHANGED vars \/ Ended
  BY <1>1 DEF vars, poolVars, ownVars, Ended
<1>2. CASE NewGrid \/ SetGridPtr \/ NewTasks \/ SetTaskObjs \/ SetNbrs \/ NewPool \/ SetTPPtr
  BY <1>2 DEF NewGrid, SetGridPtr, NewTasks, SetTaskObjs, SetNbrs, NewPool, SetTPPtr,
              poolVars
<1>3. CASE EnqueueTasks \/ \E w \in Workers : Work(w) \/ SpuriousWakeup(w)
  BY <1>3 DEF EnqueueTasks, Work, SpuriousWakeup, ownVars
<1>4. CASE DestroyPool \/ DestroyTasks \/ DestroyGridPtr \/ DestroyStatic
  BY <1>4 DEF DestroyPool, DestroyTasks, DestroyGridPtr, DestroyStatic
<1> QED
  BY <1>1, <1>2, <1>3, <1>4 DEF Next, Main

\* A worker that has exited takes no step.
LEMMA ExitedStay ==
  ASSUME NEW w \in Workers, Work(w) \/ SpuriousWakeup(w)
  PROVE  wpc[w] # "exited"
BY DEF Work, SpuriousWakeup, Pool!PoolStep, Pool!Pin, Pool!Take, Pool!Block, Pool!Leave,
       Pool!Requeue, Pool!CountDone, Pool!Compare, Pool!CheckStop, Pool!SetStop,
       Pool!NotifyAll, Pool!RecordTime, Pool!Report, Pool!Return, Pool!SpuriousWakeup,
       Pool!At

LEMMA NextJoined == Inv /\ [Next]_vars => Joined'
<1> SUFFICES ASSUME Inv, [Next]_vars, statics' < 3
             PROVE  \A w \in Workers : wpc'[w] = "exited"
  BY DEF Joined
<1> USE DEF Inv, Joined, Counted, At
<1>1. CASE UNCHANGED vars \/ Ended
  BY <1>1 DEF vars, poolVars, ownVars, Ended
<1>2. CASE NewGrid \/ SetGridPtr \/ NewTasks \/ SetTaskObjs \/ SetNbrs \/ NewPool \/ SetTPPtr
  BY <1>2 DEF NewGrid, SetGridPtr, NewTasks, SetTaskObjs, SetNbrs, NewPool, SetTPPtr
<1>3. CASE EnqueueTasks
  BY <1>3 DEF EnqueueTasks, ownVars
<1>4. ASSUME NEW w \in Workers, Work(w) \/ SpuriousWakeup(w) PROVE FALSE
  <2>1. statics' = statics
    BY <1>4 DEF Work, SpuriousWakeup, ownVars
  <2> QED
    BY <1>4, <2>1, ExitedStay
<1>5. CASE DestroyPool \/ DestroyTasks \/ DestroyGridPtr
  BY <1>5 DEF DestroyPool, DestroyTasks, DestroyGridPtr
<1>6. CASE DestroyStatic
  <2>1. statics \in 1 .. 4 /\ statics' = statics - 1
    BY <1>6 DEF DestroyStatic
  <2>2. CASE statics = 3
    BY <1>6, <2>2, DestroyTPPtrEffect
  <2>3. CASE statics # 3
    BY <1>6, <2>1, <2>3, DestroyOtherEffect DEF poolVars
  <2> QED
    BY <2>2, <2>3
<1> QED
  BY <1>1, <1>2, <1>3, <1>4, <1>5, <1>6 DEF Next, Main

\* A stopped, empty pool stays so: what is thrown at it is not queued.
LEMMA StoppedStays == [Pool!Next]_poolVars /\ stop /\ tasks = <<>> => stop' /\ tasks' = <<>>
<1> SUFFICES ASSUME [Pool!Next]_poolVars, stop, tasks = <<>> PROVE stop' /\ tasks' = <<>>
  OBVIOUS
<1>1. CASE UNCHANGED poolVars \/ Pool!Ended
  BY <1>1 DEF poolVars, Pool!Ended, Pool!poolVars
<1>2. CASE Pool!Main
  BY <1>2 DEF Pool!Main, Pool!Enqueue, Pool!NotifyEnqueued, Pool!Join
<1>3. ASSUME NEW w, Pool!PoolStep(w) \/ Pool!SpuriousWakeup(w) PROVE stop' /\ tasks' = <<>>
  BY <1>3 DEF Pool!PoolStep, Pool!Pin, Pool!Take, Pool!Block, Pool!Leave,
              Pool!Requeue, Pool!CountDone, Pool!Compare, Pool!CheckStop, Pool!SetStop,
              Pool!NotifyAll, Pool!RecordTime, Pool!Report, Pool!SpuriousWakeup
<1>4. ASSUME NEW w, NEW again, Pool!Return(w, again) PROVE stop' /\ tasks' = <<>>
  BY <1>4 DEF Pool!Return
<1> QED
  BY <1>1, <1>2, <1>3, <1>4 DEF Pool!Next

LEMMA NotifyOneEffect ==
  ASSUME NEW pc \in [Workers -> PoolProofs!WorkerPC], NEW npc \in Pool!NotifyOne(pc),
         NEW v \in Workers
  PROVE  npc[v] = pc[v] \/ npc[v] = "lock"
BY DEF Pool!NotifyOne, Pool!Workers, Workers

\* Only a worker that finds the pool stopped and empty leaves its loop.
LEMMA LeaveStopped ==
  ASSUME PoolProofs!Inv, [Pool!Next]_poolVars, NEW v \in Workers,
         wpc'[v] \in {"left", "exited"}, wpc[v] \notin {"left", "exited"}
  PROVE  stop /\ tasks = <<>>
<1> DEFINE WType == wpc \in [Workers -> PoolProofs!WorkerPC]
<1>0. WType
  BY DEF PoolProofs!Inv, PoolProofs!TypeOK, PoolProofs!Workers, Workers
<1>1. wpc'[v] # wpc[v] /\ wpc'[v] \notin {"lock", "call", "requeue", "count"}
  OBVIOUS
<1>2. CASE UNCHANGED poolVars \/ Pool!Ended
  BY <1>1, <1>2 DEF poolVars, Pool!Ended, Pool!poolVars
<1>3. CASE Pool!Enqueue \/ Pool!Join
  BY <1>1, <1>3 DEF Pool!Enqueue, Pool!Join
<1>4. CASE Pool!NotifyEnqueued
  BY <1>0, <1>1, <1>4, NotifyOneEffect DEF Pool!NotifyEnqueued
<1>5. ASSUME NEW w \in Workers, Pool!Leave(w) PROVE stop /\ tasks = <<>>
  BY <1>5 DEF Pool!Leave
<1>6. ASSUME NEW w \in Workers, Pool!Report(w) PROVE FALSE
  BY <1>0, <1>1, <1>6 DEF Pool!Report, Pool!At, Pool!Goto
<1>7. ASSUME NEW w \in Workers, Pool!Requeue(w) PROVE FALSE
  <2>1. wpc' \in Pool!NotifyOne([wpc EXCEPT ![w] = "lock"])
    BY <1>1, <1>7 DEF Pool!Requeue
  <2>2. [wpc EXCEPT ![w] = "lock"] \in [Workers -> PoolProofs!WorkerPC]
    BY <1>0 DEF PoolProofs!WorkerPC
  <2>3. wpc'[v] = [wpc EXCEPT ![w] = "lock"][v] \/ wpc'[v] = "lock"
    BY <2>1, <2>2, NotifyOneEffect
  <2> QED
    BY <1>0, <1>1, <2>3
<1>8. ASSUME NEW w \in Workers,
             \/ Pool!Pin(w) \/ Pool!Take(w) \/ Pool!Block(w) \/ Pool!CountDone(w)
             \/ Pool!Compare(w) \/ Pool!CheckStop(w)
      PROVE  FALSE
  BY <1>0, <1>1, <1>8 DEF Pool!Pin, Pool!Take, Pool!Block, Pool!CountDone, Pool!Compare,
                          Pool!CheckStop, Pool!Goto
<1>9. ASSUME NEW w \in Workers,
             Pool!SetStop(w) \/ Pool!NotifyAll(w) \/ Pool!RecordTime(w) \/ Pool!SpuriousWakeup(w)
      PROVE  FALSE
  BY <1>0, <1>1, <1>9 DEF Pool!SetStop, Pool!NotifyAll, Pool!RecordTime,
                          Pool!SpuriousWakeup, Pool!Goto, Pool!Workers, Workers
<1>10. ASSUME NEW w \in Workers, NEW again \in BOOLEAN, Pool!Return(w, again) PROVE FALSE
  BY <1>0, <1>1, <1>10 DEF Pool!Return, Pool!Goto
<1> QED
  BY <1>2, <1>3, <1>4, <1>5, <1>6, <1>7, <1>8, <1>9, <1>10
     DEF Pool!Next, Pool!Main, Pool!PoolStep, Pool!Workers, Workers

LEMMA NextDrained == Inv /\ [Next]_vars => Drained'
<1> SUFFICES ASSUME Inv, [Next]_vars, NEW v \in Workers, wpc'[v] \in {"left", "exited"}
             PROVE  stop' /\ tasks' = <<>>
  BY DEF Drained
<1>1. [Pool!Next]_poolVars
  BY PoolStepOrNone
<1>2. stop /\ tasks = <<>>
  BY <1>1, LeaveStopped DEF Inv, Drained
<1> QED
  BY <1>1, <1>2, StoppedStays

LEMMA NextInv == Inv /\ [Next]_vars => Inv'
<1> SUFFICES ASSUME Inv, [Next]_vars PROVE Inv'
  OBVIOUS
<1>1. PoolProofs!Inv'
  BY PoolStepOrNone, PoolNext DEF Inv
<1> QED
  BY <1>1, NextOwned, NextCounted, NextBuilt, NextUnstarted, NextJoined, NextDrained DEF Inv

LEMMA Invariance == Spec => []Inv
BY InitInv, NextInv, PTL DEF Spec

-----------------------------------------------------------------------------
(***************************************************************************)
(* Type correctness, the pool's included.                                  *)
(***************************************************************************)
THEOREM TypeCorrect == Spec => []TypeOK
<1>1. Inv => TypeOK
  <2> SUFFICES ASSUME Inv PROVE TypeOK
    OBVIOUS
  <2>1. Pool!TypeOK
    BY DEF Inv, PoolProofs!Inv, PoolProofs!TypeOK, Pool!TypeOK, Pool!Workers,
           PoolProofs!Workers, Pool!TaskIds, PoolProofs!TaskIds, Pool!NoTask,
           PoolProofs!NoTask, Pool!WorkerPC, PoolProofs!WorkerPC, Pool!TooManyThreads,
           PoolProofs!TooManyThreads, Pool!EnqueueOnStopped, PoolProofs!EnqueueOnStopped,
           Pool!AssertStop, PoolProofs!AssertStop
  <2>2. made \subseteq TaskIds
    BY DEF Inv, Built
  <2> QED
    BY <2>1, <2>2, StaticsInOrderFacts DEF Inv, Owned, Counted, Built, TypeOK
<1> QED
  BY <1>1, Invariance, PTL

\* While some vector holds them, all Task objects exist.
LEMMA HeldLive ==
  ASSUME made = TaskIds, Vectors # {}
  PROVE  Living = TaskIds
BY DEF Living

(***************************************************************************)
(* Whatever a task uses while it is called exists, also during the exit.   *)
(***************************************************************************)
THEOREM CallsAreSafe == Spec => []CallsUseLiveObjects
<1>1. Inv => CallsUseLiveObjects
  <2> SUFFICES ASSUME Inv, NEW w \in Workers, wpc[w] = "call"
               PROVE  /\ LambdaVector \in Vectors
                      /\ Living = TaskIds
                      /\ \A t \in TaskIds : nbrs_[t] = Adjacent(t)
                      /\ "Task::gridPtr" \in gridOwners
                      /\ "Task::tasks" \in vectors
    BY DEF CallsUseLiveObjects, Pool!At
  <2>1. lpc \notin Starting /\ statics >= 3
    BY DEF Inv, Unstarted, Joined, Counted
  <2>2. LambdaVector \in Vectors
    BY DEF LambdaVector, Vectors, HoldsFunction
  <2>3. made = TaskIds
    BY <2>1 DEF Inv, Built, Starting
  <2>4. \A t \in TaskIds : nbrs_[t] = Adjacent(t)
    <3>1. nbrs_ = Wired
      BY <2>1 DEF Inv, Built, Owned
    <3> QED
      BY <3>1 DEF Wired
  <2>5. "Task::gridPtr" \in gridOwners /\ "Task::tasks" \in vectors
    <3>1. lpc \notin {"grid", "setGridPtr", "tasks", "setTaskObjs"}
      BY <2>1 DEF Starting
    <3>2. statics \in 0 .. 4
      BY DEF Inv, Counted
    <3> QED
      BY <2>1, <3>1, <3>2 DEF Inv, Owned
  <2> QED
    BY <2>2, <2>3, <2>4, <2>5, HeldLive
<1> QED
  BY <1>1, Invariance, PTL

\* Wired tasks hold each other: everyone has a neighbour.
LEMMA WiredLive ==
  ASSUME made = TaskIds, nbrs_ = Wired
  PROVE  Living = TaskIds
<1>1. ASSUME NEW t \in TaskIds PROVE \E s \in TaskIds : t \in nbrs_[s]
  <2>1. CASE t = 0
    <3>1. 1 \in TaskIds /\ t \in Adjacent(1)
      BY <2>1, numTasksAssumption DEF TaskIds, Adjacent
    <3> QED
      BY <3>1 DEF Wired
  <2>2. CASE t # 0
    <3>1. t - 1 \in TaskIds /\ t \in Adjacent(t - 1)
      BY <2>2, numTasksAssumption DEF TaskIds, Adjacent
    <3> QED
      BY <3>1 DEF Wired
  <2> QED
    BY <2>1, <2>2
<1>2. TaskIds \in {S \in SUBSET made :
                     \A t \in S : Vectors # {} \/ \E s \in S : t \in nbrs_[s]}
  BY <1>1
<1> QED
  BY <1>2 DEF Living

(***************************************************************************)
(* At the end everything is destroyed but the Task objects, all of which   *)
(* are left.                                                               *)
(***************************************************************************)
THEOREM TasksAreLeft == Spec => []OnlyTasksLeak
<1>1. Inv => OnlyTasksLeak
  <2> SUFFICES ASSUME Inv, lpc = "ended"
               PROVE  /\ gridOwners = {} /\ poolOwners = {}
                      /\ Vectors = {} /\ Living = TaskIds
    BY DEF OnlyTasksLeak
  <2>1. statics = 0
    BY DEF Inv, Counted
  <2>2. "main" \notin poolOwners /\ "Task::TPPtr" \notin poolOwners
    BY <2>1 DEF Inv, Owned, Running
  <2>3. poolOwners = {}
    BY <2>2 DEF Inv, Owned
  <2>4. "main" \notin gridOwners /\ "Task::gridPtr" \notin gridOwners /\ "pool" \notin gridOwners
    BY <2>1, <2>3 DEF Inv, Owned
  <2>5. gridOwners = {}
    BY <2>4 DEF Inv, Owned
  <2>6. "main" \notin vectors /\ "Task::tasks" \notin vectors
    BY <2>1 DEF Inv, Owned
  <2>7. vectors = {}
    BY <2>6 DEF Inv, Owned
  <2>8. \A w \in Workers : wpc[w] = "exited"
    BY <2>1 DEF Inv, Joined
  <2>9. 0 \in Workers
    BY numThreadsAssumption DEF Workers
  <2>10. tasks = <<>>
    BY <2>8, <2>9 DEF Inv, Drained
  <2>11. Vectors = {}
    BY <2>7, <2>8, <2>10 DEF Vectors, HoldsFunction
  <2>12. made = TaskIds /\ nbrs_ = Wired
    <3>1. lpc \in Exiting /\ lpc \notin {"grid", "setGridPtr", "tasks"}
      BY DEF Exiting
    <3> QED
      BY <3>1 DEF Inv, Built
  <2> QED
    BY <2>3, <2>5, <2>11, <2>12, WiredLive
<1> QED
  BY <1>1, Invariance, PTL

-----------------------------------------------------------------------------
(* The wait for the workers at the end. *)

LEMMA SamePoolSpec == ImplementsThreadPool => PoolProofs!Spec
<1>1. ImplementsThreadPool <=> Pool!Init /\ [][Pool!Next]_poolVars
  BY DEF ImplementsThreadPool, Pool!Spec, Pool!poolVars, poolVars
<1> QED
  BY <1>1, SamePool, PTL DEF PoolProofs!Spec

\* Main returns from its loop with everything enqueued, and joins only once.
Enqueued == lpc \in Exiting /\ statics >= 3 => mpc = "join"

LEMMA NextEnqueued == Inv /\ Enqueued /\ [Next]_vars => Enqueued'
<1> SUFFICES ASSUME Inv, Enqueued, [Next]_vars, lpc' \in Exiting, statics' >= 3
             PROVE  mpc' = "join"
  BY DEF Enqueued
<1> USE DEF At, Exiting, Enqueued
<1>1. CASE UNCHANGED vars \/ Ended
  BY <1>1 DEF vars, poolVars, ownVars, Ended
<1>2. CASE NewGrid \/ SetGridPtr \/ NewTasks \/ SetTaskObjs \/ SetNbrs \/ NewPool \/ SetTPPtr
  BY <1>2 DEF NewGrid, SetGridPtr, NewTasks, SetTaskObjs, SetNbrs, NewPool, SetTPPtr
<1>3. CASE EnqueueTasks
  BY <1>3 DEF EnqueueTasks, ownVars
<1>4. CASE DestroyPool
  <2>1. mpc = "join"
    BY <1>4 DEF DestroyPool
  <2> QED
    BY <1>4, <2>1, DestroyPoolEffect DEF poolVars
<1>5. CASE DestroyTasks \/ DestroyGridPtr
  BY <1>5 DEF DestroyTasks, DestroyGridPtr, poolVars
<1>6. CASE DestroyStatic
  <2>1. statics \in 1 .. 4 /\ statics' = statics - 1 /\ lpc = "statics"
    BY <1>6 DEF DestroyStatic, Inv, Counted
  <2>2. statics = 4
    BY <2>1
  <2> QED
    BY <1>6, <2>1, <2>2, DestroyOtherEffect DEF poolVars
<1>7. ASSUME NEW w \in Workers, Work(w) \/ SpuriousWakeup(w) PROVE mpc' = "join"
  <2>1. UNCHANGED <<lpc, statics>>
    BY <1>7 DEF Work, SpuriousWakeup, ownVars
  <2>2. UNCHANGED mpc
    BY <1>7 DEF Work, SpuriousWakeup, Pool!PoolStep, Pool!Pin, Pool!Take, Pool!Block,
                Pool!Leave, Pool!Requeue, Pool!CountDone, Pool!Compare, Pool!CheckStop,
                Pool!SetStop, Pool!NotifyAll, Pool!RecordTime, Pool!Report, Pool!Return,
                Pool!SpuriousWakeup
  <2> QED
    BY <2>1, <2>2
<1> QED
  BY <1>1, <1>2, <1>3, <1>4, <1>5, <1>6, <1>7 DEF Next, Main

(***************************************************************************)
(* The wait in the destructor that the last owner of the pool runs, during *)
(* the destruction of the statics, is never in vain: the workers never all *)
(* sleep there with nobody left to notify them, and when they have all     *)
(* ended, every task has been finished.                                    *)
(***************************************************************************)
THEOREM ExitIsNotInVain == Spec => []JoinIsAwaited
<1>1. Spec => []PoolProofs!NoStandstill
  BY ImplementsPool, SamePoolSpec, PoolAssumptions, PoolProofs!NeverStandsStill, PTL
<1>2. Init => Enqueued
  BY DEF Init, Enqueued, Exiting
<1>3. Enqueued /\ PoolProofs!NoStandstill => JoinIsAwaited
  BY DEF Enqueued, Exiting, JoinIsAwaited, PoolProofs!NoStandstill, PoolProofs!Workers, Workers
<1> QED
  BY <1>1, <1>2, <1>3, NextEnqueued, Invariance, PTL DEF Spec
=============================================================================

-------------------------- MODULE ProcessLifetime --------------------------
(***************************************************************************)
(* Start and exit of the process: who owns what while the workers of       *)
(* ThreadPool.tla run.  main.cpp builds the grid, the tasks and the pool,  *)
(* hands a copy of each pointer to a static member of Task, enqueues the   *)
(* tasks and returns at once.  The workers are joined only by ~ThreadPool, *)
(* which the last owner of the pool runs: the static Task::TPPtr, after    *)
(* main's locals and some other statics have already been destroyed.  The  *)
(* task functions run through all of that.                                 *)
(*                                                                         *)
(* A shared_ptr is the membership of its holder in the set of owners; an   *)
(* object with no owner is destroyed.  Memory is never exhausted, so the   *)
(* handler around the construction of the tasks has nothing to catch.      *)
(***************************************************************************)
EXTENDS Integers, Sequences, FiniteSets

CONSTANTS
  numThreads,   \* Utility::numThreads
  numTasks,     \* Utility::numTasks
  num_cores,    \* processors online
  NDEBUG        \* TRUE if assert() is compiled out

\* With one task, main would wire its neighbour from past the end of tasks.
ASSUME numTasksAssumption == numTasks \in Nat \ {0, 1}
ASSUME numThreadsAssumption == numThreads \in Nat \ {0}
ASSUME num_coresAssumption == num_cores \in Nat \ {0}
ASSUME NDEBUGAssumption == NDEBUG \in BOOLEAN

VARIABLES
  tasks, stop, numTasksDone, wpc, task, mpc, task_id, gtiming, report, fault,
  lpc,          \* the statement of main, then the destructor, that is next
  gridOwners,   \* who holds a pointer to the Grid
  poolOwners,   \* who holds a pointer to the ThreadPool
  vectors,      \* which vectors hold pointers to the Task objects: main's and
                \* Task::tasks (the copies in the task functions are apart)
  made,         \* the Task objects main has constructed
  nbrs_,        \* nbrs_[t]: the Task objects that t points to
  statics       \* how many of StaticsInOrder are not destroyed yet

poolVars ==
  <<tasks, stop, numTasksDone, wpc, task, mpc, task_id, gtiming, report, fault>>
ownVars == <<lpc, gridOwners, poolOwners, vectors, made, nbrs_, statics>>
vars == <<poolVars, ownVars>>

Pool == INSTANCE ThreadPool

Workers == 0 .. numThreads - 1
TaskIds == 0 .. numTasks - 1

Starting == {"grid", "setGridPtr", "tasks", "setTaskObjs", "setNbrs", "pool"}
Running == {"setTPPtr", "enqueue"}
Exiting == {"~tasks", "~gridPtr", "statics", "ended"}

\* Mutant of StaticsInOrder: the pool's pointer is defined before the grid's.
PoolPointerFirst ==
  <<"Task::TPPtr", "Task::gridPtr", "Task::tasks", "Task::isAllTasksDone">>

\* The static members of Task that have a destructor, in the order of their
\* definitions; they are destroyed in the reverse order.
StaticsInOrder ==
  <<"Task::gridPtr", "Task::tasks", "Task::TPPtr", "Task::isAllTasksDone">>

Existing == {StaticsInOrder[i] : i \in 1 .. statics}

\* A worker's function object lives until the end of its turn of the loop.
HoldsFunction(w) ==
  wpc[w] \in {"call", "requeue", "count", "compare", "assert", "stop",
              "notifyAll", "record"}

\* Mutant of LambdaVector: the vector is captured by reference.
LambdaVectorByReference == "main"

\* Which vector a task function looks its Task up in: a copy it captured.
LambdaVector == "copy"

\* All vectors that exist.
Vectors ==
  vectors \cup (IF tasks # <<>> \/ \E w \in Workers : HoldsFunction(w)
                  THEN {"copy"} ELSE {})

\* The Task objects that exist: held by a vector or by another such object.
Living ==
  UNION {S \in SUBSET made :
           \A t \in S : Vectors # {} \/ \E s \in S : t \in nbrs_[s]}

\* The strips above and below that of t.
Adjacent(t) == {s \in TaskIds : s = t - 1 \/ s = t + 1}

At(label) == Pool!Alive /\ lpc = label
-----------------------------------------------------------------------------
Init ==
  /\ Pool!Init
  /\ lpc = "grid"
  /\ gridOwners = {} /\ poolOwners = {} /\ vectors = {} /\ made = {}
  /\ nbrs_ = [t \in TaskIds |-> {}]
  /\ statics = Len(StaticsInOrder)
-----------------------------------------------------------------------------
(* main up to the enqueue loop, one action per statement or loop: no other
   thread runs before the pool is constructed. *)

NewGrid ==
  /\ At("grid")
  /\ gridOwners' = {"main"}
  /\ lpc' = "setGridPtr"
  /\ UNCHANGED <<poolVars, poolOwners, vectors, made, nbrs_, statics>>

\* std::move of a const reference leaves the argument alone: this is a copy.
SetGridPtr ==
  /\ At("setGridPtr")
  /\ gridOwners' = gridOwners \cup {"Task::gridPtr"}
  /\ lpc' = "tasks"
  /\ UNCHANGED <<poolVars, poolOwners, vectors, made, nbrs_, statics>>

\* The loop that constructs the tasks, each of which reads Task::gridPtr.
NewTasks ==
  /\ At("tasks") /\ "Task::gridPtr" \in gridOwners
  /\ made' = TaskIds
  /\ vectors' = vectors \cup {"main"}
  /\ lpc' = "setTaskObjs"
  /\ UNCHANGED <<poolVars, gridOwners, poolOwners, nbrs_, statics>>

SetTaskObjs ==
  /\ At("setTaskObjs")
  /\ vectors' = vectors \cup {"Task::tasks"}
  /\ lpc' = "setNbrs"
  /\ UNCHANGED <<poolVars, gridOwners, poolOwners, made, nbrs_, statics>>

\* Mutant of SetNbrs: a task points to the one below it only.
SetNbrsDown ==
  /\ At("setNbrs")
  /\ nbrs_' = [t \in TaskIds |-> {s \in TaskIds : s = t + 1}]
  /\ lpc' = "pool"
  /\ UNCHANGED <<poolVars, gridOwners, poolOwners, vectors, made, statics>>

\* The loop that wires the neighbours.
SetNbrs ==
  /\ At("setNbrs")
  /\ nbrs_' = [t \in TaskIds |-> Adjacent(t)]
  /\ lpc' = "pool"
  /\ UNCHANGED <<poolVars, gridOwners, poolOwners, vectors, made, statics>>

\* The constructor keeps a pointer to the grid and starts the workers.
NewPool ==
  /\ At("pool")
  /\ poolOwners' = {"main"}
  /\ gridOwners' = gridOwners \cup {"pool"}
  /\ lpc' = "setTPPtr"
  /\ UNCHANGED <<poolVars, vectors, made, nbrs_, statics>>

\* Mutant of SetTPPtr: the move would be a move if the parameter were not const.
SetTPPtrMoved ==
  /\ At("setTPPtr")
  /\ poolOwners' = {"Task::TPPtr"}
  /\ lpc' = "enqueue"
  /\ UNCHANGED <<poolVars, gridOwners, vectors, made, nbrs_, statics>>

SetTPPtr ==
  /\ At("setTPPtr")
  /\ poolOwners' = poolOwners \cup {"Task::TPPtr"}
  /\ lpc' = "enqueue"
  /\ UNCHANGED <<poolVars, gridOwners, vectors, made, nbrs_, statics>>

\* The loop of main that enqueues the task functions through main's own pointer.
EnqueueTasks ==
  /\ At("enqueue") /\ "main" \in poolOwners
  /\ Pool!Enqueue \/ Pool!NotifyEnqueued
  /\ UNCHANGED ownVars
-----------------------------------------------------------------------------
(* main returns: its locals are destroyed in the reverse order of their
   definitions, then the static members of Task in the reverse order of theirs. *)

\* Mutant of ReleasePool: ~ThreadPool sends the workers home and does not wait.
ReleasePoolStopping(owner) ==
  /\ poolOwners' = poolOwners \ {owner}
  /\ IF poolOwners = {owner}
       THEN /\ stop' = TRUE
            /\ wpc' = [w \in Workers |-> IF wpc[w] = "wait" THEN "lock" ELSE wpc[w]]
            /\ gridOwners' = gridOwners \ {"pool"}
            /\ UNCHANGED <<tasks, numTasksDone, task, mpc, task_id, gtiming, report,
                          fault>>
       ELSE UNCHANGED <<poolVars, gridOwners>>

\* One owner of the pool lets go of it; the last one runs ~ThreadPool, which
\* joins the workers before the members of the pool are destroyed.
ReleasePool(owner) ==
  /\ poolOwners' = poolOwners \ {owner}
  /\ IF poolOwners = {owner}
       THEN Pool!Join /\ gridOwners' = gridOwners \ {"pool"}
       ELSE UNCHANGED <<poolVars, gridOwners>>

\* The enqueue loop is over: return 0, and main's pool goes first.
DestroyPool ==
  /\ At("enqueue") /\ mpc = "join"
  /\ ReleasePool("main")
  /\ lpc' = "~tasks"
  /\ UNCHANGED <<vectors, made, nbrs_, statics>>

DestroyTasks ==
  /\ At("~tasks")
  /\ vectors' = vectors \ {"main"}
  /\ lpc' = "~gridPtr"
  /\ UNCHANGED <<poolVars, gridOwners, poolOwners, made, nbrs_, statics>>

DestroyGridPtr ==
  /\ At("~gridPtr")
  /\ gridOwners' = gridOwners \ {"main"}
  /\ lpc' = "statics"
  /\ UNCHANGED <<poolVars, poolOwners, vectors, made, nbrs_, statics>>

\* The last static member that still exists is destroyed.
DestroyStatic ==
  /\ At("statics")
  /\ LET member == StaticsInOrder[statics]
     IN /\ IF member = "Task::TPPtr" THEN ReleasePool(member)
           ELSE /\ gridOwners' = gridOwners \ {member}
                /\ UNCHANGED <<poolVars, poolOwners>>
        /\ vectors' = vectors \ {member}
  /\ statics' = statics - 1
  /\ lpc' = IF statics' = 0 THEN "ended" ELSE "statics"
  /\ UNCHANGED <<made, nbrs_>>

Main ==
  \/ NewGrid \/ SetGridPtr \/ NewTasks \/ SetTaskObjs \/ SetNbrs \/ NewPool
  \/ SetTPPtr \/ EnqueueTasks
  \/ DestroyPool \/ DestroyTasks \/ DestroyGridPtr \/ DestroyStatic
-----------------------------------------------------------------------------
\* A step of a worker; the constructor of the pool started them all.
Work(w) ==
  /\ lpc \notin Starting
  /\ Pool!PoolStep(w) \/ \E again \in BOOLEAN : Pool!Return(w, again)
  /\ UNCHANGED ownVars

SpuriousWakeup(w) ==
  /\ lpc \notin Starting
  /\ Pool!SpuriousWakeup(w)
  /\ UNCHANGED ownVars

\* The process has ended, normally or not.
Ended == (lpc = "ended" \/ ~Pool!Alive) /\ UNCHANGED vars

Next == Main \/ (\E w \in Workers : Work(w) \/ SpuriousWakeup(w)) \/ Ended

Spec == Init /\ [][Next]_vars

(***************************************************************************)
(* As in ThreadPool: every thread keeps being scheduled, and a task that   *)
(* is called again and again eventually finishes.                          *)
(***************************************************************************)
Finish(t) == Pool!Finish(t) /\ UNCHANGED ownVars

Fairness ==
  /\ WF_vars(Main)
  /\ \A w \in Workers : WF_vars(Work(w))
  /\ \A t \in TaskIds : SF_vars(Finish(t))

FairSpec == Spec /\ Fairness
-----------------------------------------------------------------------------
TypeOK ==
  /\ Pool!TypeOK
  /\ lpc \in Starting \cup Running \cup Exiting
  /\ gridOwners \subseteq {"main", "Task::gridPtr", "pool"}
  /\ poolOwners \subseteq {"main", "Task::TPPtr"}
  /\ vectors \subseteq {"main", "Task::tasks"}
  /\ made \subseteq TaskIds
  /\ nbrs_ \in [TaskIds -> SUBSET TaskIds]
  /\ statics \in 0 .. Len(StaticsInOrder)

(***************************************************************************)
(* Workers still call tasks while main's locals and the statics go: until  *)
(* its last call a task finds the vector its function looks it up in, all  *)
(* Task objects, wired to their neighbours (isPreCondsMet reads them), the *)
(* grid through Task::gridPtr (updateGrid) and Task::tasks (syncResidual). *)
(***************************************************************************)
CallsUseLiveObjects ==
  \A w \in Workers : Pool!At(w, "call") =>
    /\ LambdaVector \in Vectors
    /\ Living = TaskIds
    /\ \A t \in TaskIds : nbrs_[t] = Adjacent(t)
    /\ "Task::gridPtr" \in gridOwners
    /\ "Task::tasks" \in vectors

(***************************************************************************)
(* main has returned without waiting, so ~ThreadPool, in the middle of the *)
(* destruction of the statics, is the only place where anyone waits for    *)
(* the workers, and it sets no stop and notifies nobody.  While it waits,  *)
(* some worker is awake to bring about the end, or all have ended with     *)
(* every task finished.                                                    *)
(***************************************************************************)
JoinIsAwaited ==
  lpc = "statics" /\ statics = 3 =>
    /\ mpc = "join"
    /\ \/ \E w \in Workers : wpc[w] \notin {"wait", "exited"}
       \/ numTasksDone = numTasks /\ \A w \in Workers : wpc[w] = "exited"

(***************************************************************************)
(* What the process leaves behind: the grid, the pool and every vector are *)
(* gone, but no Task object is.  Neighbours hold each other in nbrs_, so   *)
(* ~Task, "Destructor that joins the worker thread", is never run.         *)
(***************************************************************************)
OnlyTasksLeak ==
  lpc = "ended" =>
    gridOwners = {} /\ poolOwners = {} /\ Vectors = {} /\ Living = TaskIds

(***************************************************************************)
(* main.cpp drives the pool as ThreadPool assumes: everything shown there  *)
(* of the pool and of main holds for the whole process.                    *)
(***************************************************************************)
ImplementsThreadPool == Pool!Spec

(***************************************************************************)
(* The process ends: main finds no empty pointer on its way, although both *)
(* setters say std::move, and the wait in the destructor that the last     *)
(* owner of the pool runs is never in vain.                                *)
(***************************************************************************)
ProcessEnds == <>(lpc = "ended")

(***************************************************************************)
(* The flags a call claims in syncResidual ("This should be thread safe",  *)
(* task.cpp:725) exist while it does.                                      *)
(***************************************************************************)
FlagsOutliveCalls ==
  \A w \in Workers : Pool!At(w, "call") => "Task::isAllTasksDone" \in Existing
=============================================================================

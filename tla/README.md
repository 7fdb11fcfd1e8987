# Dynamic-Task-Scheduling: TLA+ models, checks and proofs

The repository compares two ways of running an iterative stencil solver (2D
Jacobi) on a many-core machine. The grid is cut into `numTasks` horizontal
strips, one *task* each, and every task must run `maxIter` iterations; a task may
run its next iteration only when the strips above and below it are not behind.

* **Dynamic scheduling** (`dynamicScheduling/`): a pool of `numThreads` workers
  takes tasks from a FIFO queue. A task first tests its neighbours' iteration
  counters; if the test fails, or if it has iterations left, it goes back to the
  end of the queue. There is no barrier.
* **Static scheduling** (`staticScheduling/`): every thread owns a fixed range of
  tasks and all threads meet at a pthread barrier after each iteration.

## 1. Inventory

| Component | Code | State | Operations | Talks to |
|---|---|---|---|---|
| Worker pool | `include/ThreadPool/ThreadPool.hpp` | `tasks` (queue), `stop`, `numTasksDone`, worker threads, `queue_mutex`, `condition` | constructor (starts the workers), worker loop, `enqueue`, destructor (joins) | calls the task lambda; stops the global timers |
| Dynamic scheduler | `src/main.cpp`, `src/task.cpp` | per task `iter_number`, `nbrs_`, `boundary_` | the lambda: `isPreCondsMet`, `sleepCycles`, `setPostConds`, `hasFinishedIters` | called by the pool; reads the counters of neighbouring tasks without a lock |
| Jacobi task | `src/task.cpp` | grid buffers `u1_`, `u2_`, right-hand side `f_` | `performTask`, `updateGrid`, `getLocResidual` | reads border rows of the neighbours |
| Residual | `src/task.cpp` | ring of `numTasks` slots (`loc_iters_`, `loc_res2_`), `isAllTasksDone`, `global_res_`, `resTermFlagSet`, `Utility::maxIter` | `syncResidual`, `isResTerCriMet`, `changeMaxIter` | all tasks through the statics of `Task` and `mu_task` |
| Grid | `src/grid.cpp`, `src/util.cpp` | sizes, `numlocRows_`, the buffers | constructor, `getGlobalRow`, `setParams` | used by the tasks |
| Start and exit | `src/main.cpp`, statics of `src/task.cpp`, `~ThreadPool` | who owns the grid, the tasks, the pool and the vectors of tasks | construction, `setGridPtr`, `setTaskObjs`, `setTPPtr`, `setNbrs`, return, destruction of locals and statics | main returns while the workers still call tasks |
| Static scheduler | `staticDecomposition.cpp`, `Barrier.hpp` | `taskInds`, per-thread loop variables, the barrier | `setThreadTaskMap`, `runAllTasks`, `applyBarrier` | threads meet at the barrier, main joins them |
| Serial solvers | `tests/SerialSolver` | the same grid, one thread | Jacobi (reference of `checkRaceConds.sh`), red-black Gauss-Seidel | none |
| Timers | `Timer.hpp`, `Timing.hpp`, `cycletimer.hpp` | two time stamps | `start`, `stop`, `elapsed` | none |

Hard behaviour, and what makes each component correct:

* **Pool.** Workers interleave at every access outside `queue_mutex`: the task
  body, `numTasksDone++`, the comparison with `numTasks`, the assertion on `stop`,
  the two notifications and the storing of the total time. Correct means: no task
  lost, duplicated or run by two workers; nobody enqueues after `stop`; no wakeup
  is lost at the start or at the end; everybody is joined.
* **Dynamic scheduler.** A task reads two counters that other workers advance, one
  after the other and without a lock, and acts on them long afterwards. Correct
  means: the strips stay in stencil order, the sanity assertion holds, nobody
  spins for ever on refused tasks, and the pool stops exactly when all is done.
* **Start and exit.** `main` returns as soon as the tasks are enqueued. Its locals and
  then the statics of `Task` are destroyed while workers go on; they are joined only when
  the static `TPPtr`, the last owner of the pool, is. Correct means: what a task uses
  while it is called exists, the wait for the workers at the exit is never in vain, and the
  process ends.
* **Static scheduler.** Threads leave the barrier one by one. Correct means: bulk
  synchrony, and ranges that cover every task once whatever the division leaves.
* **Jacobi and residual.** Two buffers selected by the parity of the iteration, a
  ring of residual slots shared by all tasks, a `vector<bool>` written partly
  outside its mutex, a bound on the iterations that is lowered while others read
  it. Correct means: the parallel result is the serial one of the same number of
  iterations, wherever the bound is put; a residual reduced is that of its iteration; and
  lowering the bound ends every task at the same iteration.

`PROJECT.json` lists all hazards at their lines, with the properties that cover
them or the reason why none does yet.

## 2. Modules

| Module | Models | Role |
|---|---|---|
| `StencilOrder` | what both schedulers promise: test and iteration as one atomic step | abstract specification |
| `ThreadPool` | `ThreadPool.hpp` and the thread that feeds it; the task body is left open | component |
| `DynamicScheduler` | the task lambda of `main.cpp` inside the pool | composition: instantiates `ThreadPool`, implements `StencilOrder` and `TaskCalls` |
| `TaskCalls` | the tasks without the pool: each is called again and again, by one worker at a time | abstraction the next two build on |
| `Grid` | cells, relaxation of one cell, start values, the synchronous sweep | operators shared by both solvers |
| `JacobiTask` | the lambda with `performTask`: residual reads and `updateGrid` on the two buffers | component over `TaskCalls` and `Grid` |
| `SerialJacobi` | the serial reference solver, cell by cell | component over `Grid` |
| `CheckRaceConds` | the test of that name: serial solver, parallel solver, comparison | composition of `JacobiTask` and `SerialJacobi` |
| `SyncResidual` | the lambda with `performTask`: `syncResidual`, `isResTerCriMet`, `changeMaxIter` | component over `TaskCalls` |
| `ProcessLifetime` | `main` from its first object to the end of the process: owners, setters, destruction | composition with `ThreadPool`, which it implements |
| `StaticDecomposition` | the static scheduler and its barrier | component; implements `StencilOrder` |
| `RedBlack` | the red-black Gauss-Seidel solver | component |
| `MCGrid`, `MCCheckRaceConds` | arithmetic and constants for TLC | instances |
| `ThreadPoolProofs`, `DynamicSchedulerProofs`, `SyncResidualProofs`, `StaticDecompositionProofs`, `ProcessLifetimeProofs`, `RedBlackProofs` | theorems about the modules they are named after | proofs |
| `JacobiTaskProofs` | theorems about `JacobiTask` and `CheckRaceConds` | proofs |
| `TaskCallsProofs` | theorems about `TaskCalls` and `StencilOrder`, with the lemmas for the modules built on them | proofs |

`TaskCalls` is what makes the models of the task body tractable: it has a program
counter per task instead of per worker, and no queue. That is justified in two
steps: `TaskConservation` (run and theorem) says that a task is held by one worker at
most, and `ImplementsTaskCalls` (run and theorem) that the scheduler with the pool, seen
from the tasks, has only the behaviours of `TaskCalls`.

`StencilOrder` has no run of its own: the runs of `DynamicScheduler` and
`StaticDecomposition` check that they implement it, and `TaskCallsProofs` proves
`BoundedSpread` (tasks drift apart by their distance at most) of every implementation.

### How state and actions correspond to the code

**ThreadPool.** The variables `tasks`, `stop`, `numTasksDone` and `task_id` have the
names they have in the code. `wpc[w]` is the place of worker `w` in its infinite
loop, `task[w]` its local `task`. One critical section of `queue_mutex` is one
action, which is sound because the queue is accessed under that mutex only and
`stop` is written alone in its section:

| Action | ThreadPool.hpp |
|---|---|
| `Pin` | 124-149, including the exception when there are too few processors |
| `Take`, `Block`, `Leave` | 164-189: the wait with its predicate, the dequeue, the break |
| `SpuriousWakeup` | `condition.wait` may return without a notification |
| `Return` | 201: `task()` returns, with either value |
| `Requeue` | 208-231: test of `stop`, push and notify, under the mutex |
| `CountDone`, `Compare` | 240 and 244: two separate accesses to the atomic counter |
| `CheckStop`, `SetStop`, `NotifyAll`, `RecordTime` | 246, 247-250, 253, 257-260 |
| `Report` | 300-324 |
| `Enqueue`, `NotifyEnqueued`, `Join` | `enqueue` (the notification is outside the mutex), the loop of `main`, the destructor |

`Alive`/`fault` model the end of the process by an uncaught exception or a failed
assertion. `NDEBUG` says whether assertions are compiled in (the Makefile leaves
them in). The unlocked read of `stop` at line 246 races with its write; a `bool`
has no torn value, so the read returns the old or the new one, which are the two
orders of `CheckStop` and `SetStop`.

**DynamicScheduler** replaces `Return` by the four steps of the lambda: `ReadUp`
and `ReadDown` (the two counter reads of `isPreCondsMet`, with the assertion and
the decision in the second), `SetPostConds` (end of `sleepCycles` and
`iter_number++`) and `HasFinishedIters`. The counters are plain `size_t` read
while others write them. On the machines the code is built for (x86-64, it uses
`__rdtsc`), such a load or store is a single access and stores are seen in order;
the calls are to functions of another translation unit, so the compiler does not
move the accesses across each other, and between two runs of one task
`queue_mutex` orders everything. The model therefore interleaves single reads and
writes.

**StaticDecomposition** has one action per step of a thread: head of the iteration
loop, begin and end of a task (`sleepCycles`), arrival at the barrier and return
from it. The pthread barrier is external: the last arrival empties `arrived`, and
a thread may leave once it is no longer in it, even if others have already arrived
in the next round.

**StencilOrder** has one action, `Iterate(t)`: every neighbour is at least as far
as `t`, and `t` has iterations left.

**JacobiTask** opens up the step `work` of `TaskCalls`. `getLocResidual` only reads,
so it is one step at its end, and `RaceFree` and `ReadsSerialIterate` are about
everything the call may *still* read (`Reads`), from its start on. `updateGrid` is one
step per cell (`UpdateCell`), in the order of its loops. A cell is the pair of row
and column whose index is `row * numCols + column`. The early stop is part of the
model: `maxIter` is a variable, `hasFinishedIters` reads it, and `changeMaxIter` sets it
once. Which task finds the tolerance met, and in which iteration, is left open
(`IsResTerCriMet`), so whatever `SyncResidual` says about that, lost bits included, is
covered; the assertion of `changeMaxIter`, which would end the process, is modelled there.

| Definition | Code |
|---|---|
| `startRow`, `endRow`, `Strip` | `task.cpp:559-570` with `getGlobalRow` (`util.cpp:77-82`) and `numlocRows_` (`grid.cpp:32`) |
| `getSrcVec`, `SrcIsU1` | `getSrcVec`, `getDestVec` (`grid.cpp:116-130`) |
| `GetLocResidual` | `task.cpp:646-696` |
| `IsResTerCriMet`, `ChangeMaxIter` | `task.cpp:811-856`, `:866-892` |
| `UpdateCell` | `task.cpp:596-618` |
| `Test`, `SetPostConds` | the lambda, as in `TaskCalls` |

How a value is computed is a constant operator, `Relax`: nothing that is stated
depends on it. For TLC it is an arithmetic modulo 101 with different weights for rows
and columns (`MCGrid`), so that a value from a wrong iterate shows.

**SyncResidual** opens up the same step for the rest of `performTask`:

| Action | task.cpp |
|---|---|
| `StoreResidual`, `LoadWord`/`Mark` | 710, 712 |
| `Scan` | 714-723, one step per task |
| `Claim`, `ClaimWrite` | 727-737, under `mu_task`, and 754 |
| `Sum`, `LoadWord`/`Clear` | 756-762, per task |
| `StoreGres`, `StoreIters` | 779 and 780: two assignments to the grid, without a lock |
| `LoadWord`/`Release` | 799, without the mutex |
| `IsResTerCriMet` | 815-851 |
| `MaxScan`, `SetMax` | 870-882, 884-892 |

A residual is abstracted to the iteration it belongs to; `global_res` is the set of
the iterations summed up. Whether that is below the tolerance is decided when the sum is
complete (`below`): for the residual of a single iteration by `convergedAt`, for a sum
that mixes iterations either way (`Verdicts`).

`loc_iters_` and `isAllTasksDone` are `vector<bool>` (`task.hpp:40`, `:86`), and the model
has no other layout: `wordBits` bits share a machine word (`SameWord`), and writing a bit
is loading its word (`LoadWord`, `Claim`) and storing the word back with the bit changed
(`PutBack`), two steps, between which others may have stored theirs. Those writes are
then undone. The history variable `lost` says that this has happened (`Stores`); it is
set only by a store that really changes another bit, and no guard reads it. Properties that the ring
owes to its marks are stated as "a bit was lost, or ...": that is what a team can count on
that keeps the `vector<bool>`, and the condition under which it would be true without.
Other accesses are single and sequentially consistent. The one place where x86-64
could show another order is between the own mark (line 712) and the scan of the others'
(a store followed by loads); there the loop copies a `shared_ptr`, whose reference count
is incremented by a locked instruction, before each load.

**ProcessLifetime** has one action per statement of `main` (the loops that run before any
other thread exists are one action each) and one per object that is destroyed. A
`shared_ptr` is the membership of its holder in `gridOwners` or `poolOwners`; an object
nobody owns is destroyed.

| Definition | Code |
|---|---|
| `NewGrid`, `NewTasks`, `NewPool`, `EnqueueTasks` | `main.cpp:77`, `:86-113`, `:182`, `:197-227` |
| `SetGridPtr`, `SetTPPtr` | `task.cpp:151-174`: `std::move` of a const reference copies |
| `SetTaskObjs`, `SetNbrs` | `task.cpp:181-200` |
| `LambdaVector` | the capture `tasks` by value, `main.cpp:202` |
| `DestroyPool`, `DestroyTasks`, `DestroyGridPtr` | the return of `main`: locals in reverse order |
| `DestroyStatic`, `StaticsInOrder` | the statics of `task.cpp:18-31` in reverse order (`util.o` is linked before `task.o`, so the objects of `Utility` go last; those a call uses are trivial) |
| `ReleasePool` | `~ThreadPool`, run by the last owner of the pool |
| `Work` | the worker loop of `ThreadPool`, from the constructor on |

A Task object exists while a vector holds it or another existing Task does (`Living`):
reference counting frees nothing that a cycle holds. The calls are those of the build
with `performTask`, which use the most: `nbrs_`, `Task::gridPtr`, `Task::tasks` and
`isAllTasksDone`.

**CheckRaceConds** runs `SerialJacobi` to its end, then `JacobiTask`, as the script
does. **RedBlack** has one action per step of `calIndexes`; the order in which the
threads of an OpenMP loop take its points is left open (external).

## 3. Runs

| Run | Bounds | Shows |
|---|---|---|
| `thread_pool` | 3 workers, 3 tasks, any number of calls | conservation of tasks, no enqueue on a stopped pool, no lost wakeup, `main` returns if every task eventually finishes |
| `thread_pool_assert` | 3 workers, 3 tasks, with assertions | **violated**: `assert(stop == false)` can fail |
| `thread_pool_time` | 3 workers, 3 tasks | **violated**: thread 0 can print the time before it is stored |
| `dynamic_scheduler` | 3 workers, 3 strips, 2 iterations, with assertions | sanity assertion, stability of the pre-condition, stop only at the end, refinement of `StencilOrder` and `TaskCalls`, the computation ends |
| `static_decomposition` | 3 threads, 4 tasks, 3 iterations | bulk synchrony, ranges, all tasks executed, refinement, termination |
| `check_race_conds` | 8x3 grid, 4 tasks, 5 iterations, early stop at any place or never | no data race on the buffers, all values read are the serial solver's, the buffers end as the serial iterates of the bound, no difference if the bound was not changed |
| `red_black` | all grids from 2x2 to 6x6, 2 iterations | the colours partition the inner points, no race, Gauss-Seidel order |
| `sync_residual` | 3 tasks, 4 iterations, tolerance met from iteration 0 on, words of 64 bits, with assertions | bound changed by one task and never overtaken, sums of the own iteration (and at worst of the one `numTasks` before), iterations unreduced only after a lost bit, the grid keeps the latest, abort only by a late stop, all tasks stop together, the computation ends unless the bound was raised |
| `sync_residual_words` | 3 tasks, 2 iterations, words of 64 bits | **violated**: an iteration goes by without its residual |
| `sync_residual_ends` | 3 tasks, 1 iteration that becomes 3 | **violated**: a finished task is waited for |
| `process_lifetime` | 3 workers, 3 tasks | calls use live objects only, the wait in `~ThreadPool` is never in vain, only Task objects are left, refinement of `ThreadPool`, the process ends (so `main` never goes through an empty pointer: such a step is not enabled) |
| `process_lifetime_flags` | 2 workers, 3 tasks | **violated**: `isAllTasksDone` is destroyed before the last call |

Why the bounds are enough. Three workers give a worker that stops the pool, one
that counts at the same time and one that sleeps. Three strips give a top, an
inner and a bottom one, so an inner task has two neighbours that move while it
reads them. Two iterations let a task be ahead, equal and behind. In the pool,
tasks may be called again without bound (the state space is finite all the same).
Four tasks on three threads leave a remainder. Four strips of two rows give two
inner strips, each with a row that borders on either neighbour. Five iterations use both
buffers as source and as destination several times, and with four tasks an early stop
decided in iteration 0 lowers the bound to 4, one in iteration 1 leaves it at 5, and a
later one raises it. Three columns leave one inner cell per row: the race and the parity
are between rows, and the theorems are for every width (with 4 columns the run takes
longer than 5 minutes). In `sync_residual` the stop is decided in iteration 0 and lowers the
bound to 3, unless bits are lost: then it is decided in iteration 1 (the bound stays at
4), later (it is raised), or never, and the tasks get to iteration 3, which uses the slot of
iteration 0 again with what was left there. A word of 64 bits holds all slots of a vector, which
is what happens for up to 64 tasks; the theorems are for every word size. More
iterations are beyond the time of a run. In `process_lifetime` a worker can be in a call, asleep
and gone at each step of the destruction. The theorems of section 4 remove the bounds
for all safety properties. In `SyncResidual` and `JacobiTask`, `maxBound`
only bounds types and the iterates needed; no guard uses it. The
type invariants of `StaticDecomposition` and `ProcessLifetime` are proved and not run.

Assertions. The runs of the pool and of `ProcessLifetime` use `NDEBUG = TRUE`: with
assertions the process may abort at line 246 (`thread_pool_assert`), which would only cut
behaviours short. The run of the dynamic scheduler keeps them, because `PreCondsSane` is
about one, and its `ComputationEnds` allows for the other one, after the computation. So
do `sync_residual` and `sync_residual_ends`: `AbortsOnlyLate` is about `task.cpp:882`. JacobiTask
leaves that assertion out (that of `isPreCondsMet` never fails).

Fairness. Every thread is scheduled again and again and eventually gets a mutex
that is free again and again: weak fairness of main and of each worker as a whole.
Blocked workers get no fairness for spurious wakeups, so liveness never rests on
them. `ThreadPool` and `ProcessLifetime`, where the body of a task is open, also assume
that a task called again and again eventually asks not to be (strong fairness of
`Finish`); `DynamicScheduler` drops that assumption, since there it follows from the
FIFO queue and the counters. In
`SyncResidual`, weak fairness of each task stands for the FIFO queue, by which every
unfinished task is called again.

Each property has a mutant in the module it is about or one that it instantiates (a forgotten notification, an
off-by-one, a neighbour not waited for, a barrier for one thread too few), next to
the definition it replaces; the corresponding run finds it.

### Findings

1. `assert(stop == false)` (`ThreadPool.hpp:246`) can fail. The increment of
   `numTasksDone` and its comparison with `numTasks` are separate, so the workers
   that finish the last two tasks may both take themselves for the last.
2. Thread 0 may print the global time before it is stored: `stop` is published and
   everybody is woken first (`ThreadPool.hpp:249-257`, `:307`).
3. A mark of `loc_iters_` can be lost (`task.cpp:712`, `:761`): both lines rewrite a
   word of a `vector<bool>` without a lock. The residual of that iteration is then
   never reduced, and the early stop misses it. The run `sync_residual` and the theorems
   on the ring say how far the damage goes: such a loss is the only reason for an iteration
   without its residual, it also lets a claim (`:734`, `:799`) or the clearing of a mark
   get lost, and then a residual may be mixed with the one `numTasks` iterations before.
   All tasks still stop at one iteration, unless the stop comes so late that it raises
   the bound (finding 4).
4. `changeMaxIter` raises the bound when it runs in one of the last iterations
   (`task.cpp:891`). If a task finishes at the old bound between the scan and the
   assignment, its neighbours wait for it for ever.
5. `isAllTasksDone` (`task.cpp:31`) is defined after `TPPtr` (`:25`), so at exit it is
   destroyed first, and the pool, whose destructor joins the workers, after it. `main`
   returns as soon as it has enqueued the tasks (`main.cpp:230`): from then on the claim
   in `syncResidual` that "should be thread safe" (`task.cpp:725`) reads and writes a
   destroyed vector. The statics defined before `TPPtr` are safe (`CallsUseLiveObjects`).

3, 4 and 5 concern the build with `performTask`, not the `main.cpp` that is shipped. Two more
facts. In every build, the Task objects own each other through `nbrs_`, so none is ever
destroyed and `~Task`, which is to join the threads of `doStaticScheduling`, never runs
(`OnlyTasksLeak`). And `checkRaceConds.sh` asks both programs for 20000 iterations of a
100x100 grid, but only the parallel one stops early: the recorded results end at iteration
7102, 7105, 7110, 7120 and 7150 for 2, 5, 10, 20 and 50 tasks (`tests/ref_res_iter_*`,
`tests/res_iter.dat`), below the tolerance of `util.cpp:43`, while the serial solver does
all the sweeps it was asked for. So the `diff` of the script then compares different iterates, and
an empty one only says that their printed digits are the same. What it should be compared with is the serial solver after
as many sweeps as the parallel one did, and with that it agrees under every schedule
(`FinalIsSerial`, `EndsSerial`); with the script's own reference it does if the stop leaves
the bound where it was (`NoDifference`). The recorded numbers are all 7100 plus the number
of tasks (on the 10x10 grid, 57, 60 and 65 are 55 plus it), as `StopsTogether` says.

## 4. Proofs

All theorems are checked by TLAPS for every number of workers, threads, tasks and
iterations, from the named assumptions on the constants only.

* **ThreadPoolProofs.** The inductive invariant `Inv` adds a count to the types:
  `Len(tasks) + Cardinality(Holders) + numTasksDone = task_id`, and "a worker at or
  past the assertion, or `stop`, implies `numTasksDone = numTasks`". So when the
  pool stops, nothing is queued or held (`NothingLeft`): nobody can enqueue. `Placed`
  adds that ids are pairwise different and smaller than `task_id`, which gives
  `TaskConservation`. `NoMissedStop` and `WorkConserving` are inductive relative
  to `Inv`; the second counts the ready workers (`ReadyGrows`). `NeverStandsStill`: until
  all workers have ended, main enqueues or a worker is awake. If all slept and something
  was queued, `WorkConserving` would fail; if nothing was queued, all is counted, so
  whoever counted last set `stop` (`LastOneStops`) and, by `NoMissedStop`, woke the rest.
  TLC's deadlock check cannot see this: it takes a spurious wakeup for a step.
* **DynamicSchedulerProofs.** `Inv` takes over the pool's invariant through an
  instance of `ThreadPoolProofs` and adds: neighbours differ by at most one
  (`Gap`); a difference that was read is an upper bound of the present one
  (`DownOK`), because the owner of a task is the only one to change its counter and
  the neighbours only advance; a worker past the test is not ahead (`WorkOK`);
  queued tasks have iterations left and counted ones have none (`Unfinished`,
  `Accounted`). From it follow the assertion, the stability of the pre-condition,
  `StopMeansSolved`, and the refinements of `ThreadPool`, `StencilOrder` and
  `TaskCalls`. For the last (`ImplementsCalls`), the place of a task is that of the
  worker who holds it, or "at the start of a call" or "finished" if nobody does
  (`Seen`, `Resting`). Steps of the pool do not change that view (`PoolUnseen`), steps
  in a call change that of one task (`CallSeen`). With `Spread` the scheduler inherits
  `BoundedSpread` from `StencilOrder`. `NeverStandsStill` joins the two sides: while
  iterations are left, the task furthest behind would pass the test now (`FurthestBehind`)
  and is queued, held or still to be enqueued, and by the pool's theorem of that name
  main or a worker is awake.
* **TaskCallsProofs** proves the same order (`Gap`, `DownOK`, `WorkOK`) action by action,
  whatever a task does between the pre-condition and `setPostConds`, and whatever bound
  `hasFinishedIters` reads; and that all tasks are within `numTasks` iterations
  (`Drift`, `Window`). `CallsImplementOrder` turns this into a refinement of
  `StencilOrder`, of which `OrderSpread` proves `BoundedSpread`: a task that iterates is
  not ahead of its neighbour towards any other task, and that neighbour is one step
  closer (`StepTowards`). `NeverAllWait`: while iterations are left, some task that is
  still called would not be refused. It is one with the least counter, which exists by
  the well-foundedness of `<` on the naturals. The theorems take what they need of the
  constants as hypotheses, so that an instance of the module gives them to an
  implementation.
* **JacobiTaskProofs** first shows, from `numRowsAssumption` alone, that the strips
  partition the inner cells (`StripsDisjoint`, `StripsCover`) and that the cells around a
  strip belong to its two neighbours or to the boundary (`AroundStrip`). The inductive
  invariant adds to the order of the tasks what the two buffers hold (`Data`): a strip
  whose task is in iteration n has iterate n in the source buffer and, in the other one,
  iterate n + 1 where it was written and n - 1 elsewhere. By `WorkOK` a neighbour of a
  task at work is level with it, or one ahead and not at work (`AtWork`); then its strip
  still has iterate n in the buffer that is read. `ReadsSerialIterate` and `RaceFree`
  follow. For the early stop, one task decides (`StopOK`), and by `Drift` its iteration
  plus `numTasks` is beyond what anybody has done, so unless the bound is raised all tasks
  stop at it (`LastOK`), with the iterates of that number in the buffers:
  `FinalIsSerial`. `Relax` is an arbitrary operator and `Serial` any sequence that
  starts with `u0` and goes on by `Sweep` (`SerialAssumption`); the run gives it as a
  function. For the comparison, the serial solver has the same invariant, as for a single
  strip, and the parallel tasks do not move before it is done. `NoDifference` follows
  cell by cell. Seen from the counters the tasks are a `StencilOrder` up to the largest
  bound (`ImplementsOrder`).
* **SyncResidualProofs.** All theorems are about packed bits, for every word size.
  `StopInv` and `EndInv` hold whatever bits are lost: `resTermFlagSet` is set
  under the mutex, so one task decides and until then the bound is the old one
  (`Decision`), and by `Drift` the iteration of the decider plus `numTasks` is beyond
  everybody: `SafeCondition`, `OnlyOneChangesMaxIter`, the first half of `StopsTogether`. The scan of
  `changeMaxIter` finds less than that sum too (`FoundLow`), which is `AbortsOnlyLate`. A
  bound that is not raised stays ahead of all tasks, so no task has finished at another
  one and the tasks never all wait for each other (`NeverAllWait`); where it is raised
  this is false, as `sync_residual_ends` shows.
  `RingInv` is inductive until the first store that undoes another write
  (`RingInvariance`). By `Drift` the iterations in progress use different slots
  (`SlotsDiffer`). A mark that is set belongs to an iteration its task has stored and
  nobody has reduced (`MarkOK`), and stays until the reducer clears it (`Kept`); a task
  that reduces has seen the marks of all, so its iteration is the oldest anybody is in
  (`ReducesLatest`) and no second one can be reduced meanwhile; an iteration marked by all
  and not reduced has somebody on the way to reduce it (`Pending`). `OneAtATime`,
  `OnlyLossMissesIteration`, `GridHoldsLatest` and the last part of `SumsRecent` follow.
  `RecentInv` is about what a sum can hold after losses: marks and claims, real or
  resurrected, are only found in slots that all counted tasks have written
  (`MarksWritten`, `CountWritten`), and a slot holds its iteration or the one a round of the ring before
  (`SlotOK`), because nobody is `numTasks` ahead.
  The second half of `StopsTogether` assumes that the tolerance is met at least
  `numTasks` iterations before the bound (`EarlyEnough`; the run is such an instance). The
  reducer of `convergedAt` asks `isResTerCriMet` before it goes on (`EarlyInv`), so nobody
  can have reduced a later iteration, and the stop is decided in `convergedAt`. In the
  opposite case, a tolerance that no residual below the bound meets (`NeverConverges`),
  and until a bit is lost, all tasks do `startMaxIter` iterations (`NoEarlyStop`).
  `MutexComesFree`: who holds `mu_task` waits for nothing.
* **StaticDecompositionProofs.** The ranges are disjoint and cover all tasks, also with
  fewer tasks than threads (`Disjoint`, `Covered`). A thread the barrier has let go but
  that has not left it yet counts as being in the next round; then all threads are
  always in the same round (`Rounds`). With how far each is in its range (`Progress`)
  this gives `BulkSynchronous`, `NoSharedTask`, `AllTasksExecuted` and the refinement of
  `StencilOrder`. By `Rounds` the barrier never holds everybody (`NeverStandsStill`): that
  would take all threads, and the last to arrive releases them.
* **ProcessLifetimeProofs.** The process implements `ThreadPool`, so the invariant of the
  pool is taken over. `Owned` is a table of who holds the grid, the pool and the vectors
  at each place of `main`. Two entries rest on the workers: the statics defined before
  `TPPtr` are destroyed after all workers have exited (`Joined`), and workers exit only
  from a stopped pool with an empty queue, so no function that holds the vector of tasks
  is left (`Drained`). `CallsUseLiveObjects` and `OnlyTasksLeak`
  follow. `JoinIsAwaited` (`ExitIsNotInVain`): the last owner of the pool waits in `~ThreadPool` without
  setting `stop`; by the pool's `NeverStandsStill` a worker is then awake to end, or all
  have ended, because main has enqueued everything before it returned (`Enqueued`).
* **RedBlackProofs.** The invariant follows `calIndexes` (`ScanInv`): the lists hold the
  points scanned so far, a point's colour is the parity of row plus column, `toggle` is
  the parity of the row, and the lengths of the lists add up to the number of points
  (`Counted`). The loop does two columns at a time, the second guarded by `Push`, so odd
  and even widths are both covered (`LastColumn`). After the scan the lists are the two
  colours (`Complete`), which is `ColoursPartition`; neighbours differ in colour
  (`NeighbourColour`), hence `LoopsRaceFree`; and the relaxations done so far are known
  from the colour and from what is still pending (`LoopInv`), hence `GaussSeidelOrder`.

Every invariant and action property of a passing run is also a theorem. Only
model-checked are the liveness properties, which are out of the prover's reach:
`MainReturns`, `ComputationEnds` (of the dynamic scheduler), `EndsUnlessRaised` (of
`SyncResidual`), `AllThreadsJoined` and `ProcessEnds`. The theorems `NeverStandsStill`, `NeverAllWait`,
`MutexComesFree` and `ExitIsNotInVain` are their safety half: never is everybody who
matters blocked. That enabled steps are taken, and that this leads to the end, is what
the runs add. The properties that are violated in their runs are, of course, not
theorems.

## 5. Plan

Done: the modules of section 2 and the proofs of section 4. What would add most next:

* A larger instance of `SyncResidual`, where `maxIter` is far from `convergedAt` and a slot of
  the ring is used more than twice after a bit was lost. The theorems cover it for safety;
  for `EndsUnlessRaised` there is only the present run.
* Which stop `checkRaceConds.sh` would see after a lost bit: `StopsTogether` says that all
  tasks stop at the same iteration, not which one.
* A variant for each computation, as an action property: what every step but a refused
  call decreases. With `NeverStandsStill` this is as much of termination as can be proved.

## 6. Not modelled

* Durations (`sleepCycles`, `setTaskCycles`), pinning beyond its error, timers and
  statistics: no control depends on them, except whether the global time is set
  before it is printed, which is modelled.
* `num_tasks = 1` in the dynamic scheduler, where `main` reads past the end of
  `tasks` (`main.cpp:127`), is excluded by an assumption; so are grids whose rows the
  tasks do not divide (`grid.cpp:20`).
* The shipped `main.cpp` has the call of `performTask` commented out (line 212) and
  calls `sleepCycles` instead: that program is `DynamicScheduler`. The build that
  `checkRaceConds.sh` tests calls `performTask`: that is `JacobiTask` and `SyncResidual`.
* Floating-point arithmetic, output files, `displayGrid` and the like.
* `Task::doStaticScheduling` and the second `Barrier.hpp`: dead code.
* Exhausted memory: `main` handles it only around the construction of a task
  (`main.cpp:99-111`), where it prints the error and goes on without the task.

---------------------------- MODULE SyncResidual ----------------------------
(***************************************************************************)
(* performTask of the dynamic scheduler: before it updates its strip, a    *)
(* task contributes the residual of its strip to the global residual of    *)
(* its iteration (syncResidual).  The contributions are kept in rings of   *)
(* numTasks slots, the slot of iteration n is n % numTasks.  The task that *)
(* finds the marks of all tasks in a slot reduces it: it adds up the       *)
(* contributions and clears the marks.  If the result is below the         *)
(* tolerance, one task shortens the computation (isResTerCriMet,           *)
(* changeMaxIter).                                                         *)
(*                                                                         *)
(* Marks and flags are vector<bool> (task.hpp:40, :86): wordBits bits of a *)
(* vector share a machine word, so that setting one is reading the word    *)
(* and writing it back.  Apart from two short sections under mu_task       *)
(* nothing is locked.  A residual is abstracted to the iteration it        *)
(* belongs to; it is below the tolerance from iteration convergedAt on.    *)
(***************************************************************************)
EXTENDS Integers, FiniteSets

CONSTANTS
  numTasks,      \* Utility::numTasks
  startMaxIter,  \* Utility::maxIter at the start
  convergedAt,   \* first iteration whose residual is below the tolerance
  wordBits,      \* bits in a machine word of a vector<bool>
  NDEBUG         \* TRUE if assert() is compiled out

ASSUME numTasksAssumption == numTasks \in Nat \ {0, 1}
ASSUME startMaxIterAssumption == startMaxIter \in Nat \ {0}
ASSUME convergedAtAssumption == convergedAt \in Nat
ASSUME wordBitsAssumption == wordBits \in Nat \ {0}
ASSUME NDEBUGAssumption == NDEBUG \in BOOLEAN

VARIABLES
  iter_number, tpc, diff1,   \* as in TaskCalls
  maxIter,          \* Utility::maxIter
  spc,              \* spc[t]: where t is in performTask
  loc_res2,         \* loc_res2[t][ind]: iteration of the residual in the slot
  loc_iters,        \* loc_iters[t]: the marked slots of t
  isAllTasksDone,   \* slots that some task is reducing
  k,                \* k[t]: the loop of t over all tasks
  found,            \* found[t]: local numTasksFinished, or max_iter
  word,             \* word[t]: the bits read by an unfinished bit write of t
  global_res,       \* global_res[t]: iterations summed up in global_res_ of t
  below,            \* below[t]: global_res_ of t < Utility::tol
  grid_gres_,       \* Grid::grid_gres_, the iterations of that residual
  grid_iters_,      \* Grid::grid_iters_
  mu_task,          \* the task that holds the mutex mu_task, or Free
  resTermFlagSet,   \* the early stop has been decided
  fault,            \* why the process died, "none" while it lives
  reduced,          \* history: the iterations whose reduction was completed
  lost              \* history: a stored word undid the write of another task

callVars == <<iter_number, tpc, diff1>>
gridVars == <<grid_gres_, grid_iters_>>
bitVars == <<loc_iters, isAllTasksDone, word, lost>>
sumVars == <<loc_res2, global_res, below, gridVars, reduced>>
stopVars == <<maxIter, resTermFlagSet, fault>>
vars == <<callVars, bitVars, sumVars, stopVars, spc, k, found, mu_task>>

Calls == INSTANCE TaskCalls WITH maxIter <- startMaxIter

TaskIds == 0 .. numTasks - 1
Slots == 0 .. numTasks - 1
Free == -1

\* A slot that was never written holds 0.0, the iteration of no residual.
Unwritten == -1

\* Bound: no task runs further than this (see SafeCondition).
maxBound == startMaxIter + numTasks - 1

SpcLabels ==
  {"residual", "mark", "markWrite", "scan", "claim", "claimWrite", "sum", "clear", "clearWrite",
   "gridGres", "gridIters", "release", "releaseWrite", "criterion", "maxScan", "setMax", "update"}

AssertMaxIter == "assert(max_iter < Utility::maxIter)"

Alive == fault = "none"

ind(t) == iter_number[t] % numTasks
At(t, label) == Alive /\ tpc[t] = "work" /\ spc[t] = label
Goto(t, label) == spc' = [spc EXCEPT ![t] = label]

\* A step of a loop over all tasks, and where the loop goes.
Loop(t, stay, leave) ==
  IF k[t] = numTasks - 1
    THEN k' = [k EXCEPT ![t] = 0] /\ Goto(t, leave)
    ELSE k' = [k EXCEPT ![t] = @ + 1] /\ Goto(t, stay)

\* Writing the bit of t in a vector: load the word it lies in, then put the
\* word back, with that bit changed, into bits, what the vector holds by then.
Load(t, bits, next) == word' = [word EXCEPT ![t] = bits] /\ Goto(t, next)

SameWord(s) == {r \in Slots : r \div wordBits = s \div wordBits}

PutBack(t, bits) == (bits \ SameWord(ind(t))) \cup (word[t] \cap SameWord(ind(t)))

Stores(t, bits) ==
  /\ word' = [word EXCEPT ![t] = {}]
  /\ lost' = (lost \/ PutBack(t, bits) # bits)

\* What global_res_ < Utility::tol may turn out to be.  The sum of the
\* residuals of two iterations may be on either side.
Verdicts(iters) == {b \in BOOLEAN : \A n \in iters : iters = {n} => b = (n >= convergedAt)}

-----------------------------------------------------------------------------
Init ==
  /\ Calls!Init
  /\ maxIter = startMaxIter
  /\ spc = [t \in TaskIds |-> "residual"]
  /\ loc_res2 = [t \in TaskIds |-> [s \in Slots |-> Unwritten]]
  /\ loc_iters = [t \in TaskIds |-> {}]
  /\ isAllTasksDone = {}
  /\ k = [t \in TaskIds |-> 0]
  /\ found = [t \in TaskIds |-> 0]
  /\ word = [t \in TaskIds |-> {}]
  /\ global_res = [t \in TaskIds |-> {}]
  /\ below = [t \in TaskIds |-> FALSE]
  /\ grid_gres_ = {}
  /\ grid_iters_ = 0
  /\ mu_task = Free
  /\ resTermFlagSet = FALSE
  /\ fault = "none"
  /\ reduced = {}
  /\ lost = FALSE

\* isPreCondsMet and hasFinishedIters, which reads maxIter without a lock.
Test(t) ==
  /\ Alive
  /\ Calls!ReadUp(t) \/ Calls!ReadDown(t) \/ Calls!HasFinishedIters(t, maxIter)
  /\ UNCHANGED <<bitVars, sumVars, stopVars, spc, k, found, mu_task>>

(* syncResidual *)

\* Mutant of StoreResidual: a ring that is one slot short.
StoreResidualShort(t) ==
  /\ At(t, "residual")
  /\ loc_res2' = [loc_res2 EXCEPT ![t][iter_number[t] % (numTasks - 1)] = iter_number[t]]
  /\ Goto(t, "mark")
  /\ UNCHANGED <<bitVars, global_res, below, gridVars, reduced, k, found, mu_task>>

\* loc_res2_[ind] = loc_residual
StoreResidual(t) ==
  /\ At(t, "residual")
  /\ loc_res2' = [loc_res2 EXCEPT ![t][ind(t)] = iter_number[t]]
  /\ Goto(t, "mark")
  /\ UNCHANGED <<bitVars, global_res, below, gridVars, reduced, k, found, mu_task>>

\* The first half of the writes of bits outside mu_task.
LoadWord(t) ==
  /\ \/ At(t, "mark") /\ Load(t, loc_iters[t], "markWrite")
     \/ At(t, "clear") /\ Load(t, loc_iters[k[t]], "clearWrite")
     \/ At(t, "release") /\ Load(t, isAllTasksDone, "releaseWrite")
  /\ UNCHANGED <<loc_iters, isAllTasksDone, lost, sumVars, k, found, mu_task>>

\* loc_iters_[ind] = true
Mark(t) ==
  /\ At(t, "markWrite")
  /\ loc_iters' = [loc_iters EXCEPT ![t] = PutBack(t, @) \cup {ind(t)}]
  /\ Stores(t, loc_iters[t])
  /\ Goto(t, "scan")
  /\ UNCHANGED <<isAllTasksDone, sumVars, k, found, mu_task>>

\* Count the tasks that have marked this slot.
Scan(t) ==
  LET numTasksFinished == found[t] + (IF ind(t) \in loc_iters[k[t]] THEN 1 ELSE 0)
  IN /\ At(t, "scan")
     /\ Loop(t, "scan", IF numTasksFinished = numTasks THEN "claim" ELSE "criterion")
     /\ found' = [found EXCEPT ![t] = IF k[t] = numTasks - 1 THEN 0 ELSE numTasksFinished]
     /\ UNCHANGED <<bitVars, sumVars, mu_task>>

\* Mutant of Claim: no unlock where the flag is found set.
ClaimWithoutUnlock(t) ==
  /\ At(t, "claim") /\ mu_task = Free
  /\ mu_task' = t
  /\ IF ind(t) \in isAllTasksDone
       THEN Goto(t, "criterion") /\ UNCHANGED word
       ELSE Load(t, isAllTasksDone, "claimWrite")
  /\ UNCHANGED <<loc_iters, isAllTasksDone, lost, sumVars, k, found>>

\* Lock mu_task; set the flag of the slot unless some task has set it.
Claim(t) ==
  /\ At(t, "claim") /\ mu_task = Free
  /\ IF ind(t) \in isAllTasksDone
       THEN Goto(t, "criterion") /\ UNCHANGED <<word, mu_task>>
       ELSE Load(t, isAllTasksDone, "claimWrite") /\ mu_task' = t
  /\ UNCHANGED <<loc_iters, isAllTasksDone, lost, sumVars, k, found>>

\* ... unlock; begin to reduce the slot.
ClaimWrite(t) ==
  /\ At(t, "claimWrite")
  /\ isAllTasksDone' = PutBack(t, isAllTasksDone) \cup {ind(t)}
  /\ Stores(t, isAllTasksDone)
  /\ mu_task' = Free
  /\ global_res' = [global_res EXCEPT ![t] = {}]
  /\ Goto(t, "sum")
  /\ UNCHANGED <<loc_iters, loc_res2, below, gridVars, reduced, k, found>>

\* global_res_ += taskptr->loc_res2_[ind]
Sum(t) ==
  /\ At(t, "sum")
  /\ global_res' = [global_res EXCEPT ![t] = @ \cup {loc_res2[k[t]][ind(t)]}]
  /\ Goto(t, "clear")
  /\ UNCHANGED <<bitVars, loc_res2, below, gridVars, reduced, k, found, mu_task>>

\* Mutant of Clear: all marks of the task are flushed, not those of the slot.
ClearAll(t) ==
  /\ At(t, "clearWrite")
  /\ loc_iters' = [loc_iters EXCEPT ![k[t]] = {}]
  /\ Stores(t, loc_iters[k[t]])
  /\ Loop(t, "sum", "gridGres")
  /\ UNCHANGED <<isAllTasksDone, sumVars, found, mu_task>>

\* taskptr->loc_iters_[ind] = false
Clear(t) ==
  /\ At(t, "clearWrite")
  /\ loc_iters' = [loc_iters EXCEPT ![k[t]] = PutBack(t, @) \ {ind(t)}]
  /\ Stores(t, loc_iters[k[t]])
  /\ Loop(t, "sum", "gridGres")
  /\ UNCHANGED <<isAllTasksDone, sumVars, found, mu_task>>

\* gridPtr->grid_gres_ = global_res_
StoreGres(t) ==
  /\ At(t, "gridGres")
  /\ \E b \in Verdicts(global_res[t]) : below' = [below EXCEPT ![t] = b]
  /\ grid_gres_' = global_res[t]
  /\ Goto(t, "gridIters")
  /\ UNCHANGED <<bitVars, loc_res2, global_res, grid_iters_, reduced, k, found, mu_task>>

\* Mutant of StoreIters: the number of iterations instead of the iteration.
StoreItersDone(t) ==
  /\ At(t, "gridIters")
  /\ grid_iters_' = iter_number[t] + 1
  /\ Goto(t, "release")
  /\ UNCHANGED <<bitVars, loc_res2, global_res, below, grid_gres_, reduced, k, found, mu_task>>

\* gridPtr->grid_iters_ = iter_number
StoreIters(t) ==
  /\ At(t, "gridIters")
  /\ grid_iters_' = iter_number[t]
  /\ Goto(t, "release")
  /\ UNCHANGED <<bitVars, loc_res2, global_res, below, grid_gres_, reduced, k, found, mu_task>>

\* isAllTasksDone[ind] = false, without the mutex.
Release(t) ==
  /\ At(t, "releaseWrite")
  /\ isAllTasksDone' = PutBack(t, isAllTasksDone) \ {ind(t)}
  /\ Stores(t, isAllTasksDone)
  /\ reduced' = reduced \cup {iter_number[t]}
  /\ Goto(t, "criterion")
  /\ UNCHANGED <<loc_iters, loc_res2, global_res, below, gridVars, k, found, mu_task>>

SyncStep(t) ==
  /\ \/ StoreResidual(t) \/ LoadWord(t) \/ Mark(t) \/ Scan(t)
     \/ Claim(t) \/ ClaimWrite(t) \/ Sum(t) \/ Clear(t)
     \/ StoreGres(t) \/ StoreIters(t) \/ Release(t)
  /\ UNCHANGED <<callVars, stopVars>>
-----------------------------------------------------------------------------
(* isResTerCriMet and changeMaxIter *)

\* Mutant of IsResTerCriMet: the flag is not tested.
IsResTerCriMetAgain(t) ==
  /\ At(t, "criterion")
  /\ below[t] => mu_task = Free
  /\ IF below[t]
       THEN resTermFlagSet' = TRUE /\ Goto(t, "maxScan")
       ELSE UNCHANGED resTermFlagSet /\ Goto(t, "update")
  /\ UNCHANGED <<maxIter, fault, k, found>>

\* global_res_ starts as the largest number, which is not below.
IsResTerCriMet(t) ==
  /\ At(t, "criterion")
  /\ below[t] => mu_task = Free
  /\ IF below[t] /\ ~resTermFlagSet
       THEN resTermFlagSet' = TRUE /\ Goto(t, "maxScan")
       ELSE UNCHANGED resTermFlagSet /\ Goto(t, "update")
  /\ UNCHANGED <<maxIter, fault, k, found>>

\* Look for the furthest task; assert that it has iterations left.
MaxScan(t) ==
  LET seen == iter_number[k[t]]
      max_iter == IF seen > found[t] THEN seen ELSE found[t]
      last == k[t] = numTasks - 1
  IN /\ At(t, "maxScan")
     /\ IF last /\ ~(max_iter < maxIter) /\ ~NDEBUG
          THEN fault' = AssertMaxIter /\ UNCHANGED <<k, found, spc>>
          ELSE /\ Loop(t, "maxScan", "setMax")
               /\ found' = [found EXCEPT ![t] = IF last THEN 0 ELSE max_iter]
               /\ UNCHANGED fault
     /\ UNCHANGED <<maxIter, resTermFlagSet>>

\* Mutant of SetMax: stop after the present iteration.
SetMaxNow(t) ==
  /\ At(t, "setMax") /\ mu_task = Free
  /\ maxIter' = iter_number[t] + 1
  /\ Goto(t, "update")
  /\ UNCHANGED <<resTermFlagSet, fault, k, found>>

\* Mutant of SetMax: counted from the old bound.
SetMaxFurther(t) ==
  /\ At(t, "setMax") /\ mu_task = Free
  /\ maxIter' = maxIter + numTasks
  /\ Goto(t, "update")
  /\ UNCHANGED <<resTermFlagSet, fault, k, found>>

\* The new bound.
SetMax(t) ==
  /\ At(t, "setMax") /\ mu_task = Free
  /\ maxIter' = iter_number[t] + numTasks
  /\ Goto(t, "update")
  /\ UNCHANGED <<resTermFlagSet, fault, k, found>>

StopStep(t) ==
  /\ IsResTerCriMet(t) \/ MaxScan(t) \/ SetMax(t)
  /\ UNCHANGED <<callVars, bitVars, sumVars, mu_task>>
-----------------------------------------------------------------------------
\* updateGrid (JacobiTask), then setPostConds.
SetPostConds(t) ==
  /\ At(t, "update")
  /\ Calls!SetPostConds(t)
  /\ Goto(t, "residual")
  /\ UNCHANGED <<bitVars, sumVars, stopVars, k, found, mu_task>>

Task(t) == Test(t) \/ SyncStep(t) \/ StopStep(t) \/ SetPostConds(t)

Finished == \A t \in TaskIds : tpc[t] = "finished"

\* The process has ended, normally or not.
Ended == Finished \/ ~Alive

Next == (\E t \in TaskIds : Task(t)) \/ (Ended /\ UNCHANGED vars)

Spec == Init /\ [][Next]_vars

\* The queue is first in, first out: every task is called again and again.
Fairness == \A t \in TaskIds : WF_vars(Task(t))

FairSpec == Spec /\ Fairness
-----------------------------------------------------------------------------
TypeOK ==
  /\ iter_number \in [TaskIds -> 0 .. maxBound]
  /\ tpc \in [TaskIds -> {"up", "down", "work", "check", "finished"}]
  /\ maxIter \in 1 .. maxBound
  /\ spc \in [TaskIds -> SpcLabels]
  /\ loc_res2 \in [TaskIds -> [Slots -> {Unwritten} \cup 0 .. maxBound]]
  /\ loc_iters \in [TaskIds -> SUBSET Slots]
  /\ isAllTasksDone \in SUBSET Slots
  /\ k \in [TaskIds -> TaskIds]
  /\ found \in [TaskIds -> 0 .. numTasks + maxBound]
  /\ word \in [TaskIds -> SUBSET Slots]
  /\ global_res \in [TaskIds -> SUBSET ({Unwritten} \cup 0 .. maxBound)]
  /\ below \in [TaskIds -> BOOLEAN]
  /\ grid_gres_ \subseteq {Unwritten} \cup 0 .. maxBound
  /\ grid_iters_ \in 0 .. maxBound
  /\ mu_task \in TaskIds \cup {Free}
  /\ resTermFlagSet \in BOOLEAN
  /\ fault \in {"none", AssertMaxIter}
  /\ reduced \subseteq 0 .. maxBound
  /\ lost \in BOOLEAN

(***************************************************************************)
(* "safe condition" (task.cpp:890): when the bound is lowered while others *)
(* run, none of them has passed it already, and none ever does.            *)
(***************************************************************************)
SafeCondition == \A t \in TaskIds : iter_number[t] <= maxIter

(***************************************************************************)
(* "This should be called by one task" (task.cpp:862): no two tasks are in *)
(* changeMaxIter.                                                          *)
(***************************************************************************)
OnlyOneChangesMaxIter ==
  \A t, v \in TaskIds : {spc[t], spc[v]} \subseteq {"maxScan", "setMax"} => t = v

(***************************************************************************)
(* What a task has added up when its reduction ends are residuals of its   *)
(* own iteration n and, at worst, of n - numTasks, left over in the slot:  *)
(* never those of a task a round of the ring ahead, and never a slot that  *)
(* was not written (task.cpp:705-710: mod numTasks suffices).  As long as  *)
(* no bit was lost it is the residual of n, whole.                         *)
(***************************************************************************)
SumsRecent ==
  \A t \in TaskIds : spc[t] = "releaseWrite" =>
    /\ iter_number[t] \in global_res[t]
    /\ global_res[t] \subseteq Nat \cap {iter_number[t], iter_number[t] - numTasks}
    /\ lost \/ global_res[t] = {iter_number[t]}

(***************************************************************************)
(* No iteration goes by without its residual having been reduced.          *)
(***************************************************************************)
NoIterationMissed ==
  \A n \in 0 .. maxBound :
    (\A t \in TaskIds : iter_number[t] > n) => n \in reduced

(***************************************************************************)
(* The bits that share a word (task.hpp:40, :86) are the only reason why   *)
(* an iteration may go by without its residual: two tasks that count each  *)
(* other's marks at the same time never both leave it to the other.        *)
(***************************************************************************)
OnlyLossMissesIteration == lost \/ NoIterationMissed

(***************************************************************************)
(* The residual and the iteration kept in the grid (task.cpp:779-780)      *)
(* belong together, and are those of the latest iteration reduced, as long *)
(* as no bit was lost.                                                     *)
(***************************************************************************)
GridHoldsLatest ==
  ~lost /\ (\A t \in TaskIds : spc[t] # "gridIters") /\ reduced # {} =>
    /\ grid_gres_ = {grid_iters_}
    /\ \A n \in reduced : n <= grid_iters_

(***************************************************************************)
(* The assertion of changeMaxIter (task.cpp:882) can fail only if the task *)
(* that decides the stop does so in one of the last numTasks iterations,   *)
(* where the new bound would not be below the old one.                     *)
(***************************************************************************)
AbortsOnlyLate ==
  ~Alive => \E t \in TaskIds : spc[t] = "maxScan" /\ iter_number[t] + numTasks > startMaxIter

(***************************************************************************)
(* Unless the stop raises the bound, no task stops short of it or runs     *)
(* past it, so that none has stopped that others still have to wait for.   *)
(* If moreover the residual falls below the tolerance early enough and no  *)
(* bit was lost, that is numTasks iterations after the one whose residual  *)
(* did.                                                                    *)
(***************************************************************************)
StopsTogether ==
  /\ maxIter <= startMaxIter =>
       \A t \in TaskIds : tpc[t] = "finished" => iter_number[t] = maxIter
  /\ ~lost /\ Finished => \A t \in TaskIds : iter_number[t] = convergedAt + numTasks

(***************************************************************************)
(* Setting the bound to the present iteration plus numTasks is a "safe     *)
(* condition" (task.cpp:890): whenever the early stop is decided, all      *)
(* tasks come to an end.                                                   *)
(***************************************************************************)
ComputationEnds == <>(Finished \/ ~Alive)

(***************************************************************************)
(* The same where it does hold: unless the stop raises the bound, all      *)
(* tasks come to an end, whatever bits are lost and whoever decides the    *)
(* stop, if any task does.                                                 *)
(***************************************************************************)
EndsUnlessRaised == [](maxIter <= startMaxIter) => ComputationEnds
=============================================================================

---------------------------- MODULE StencilOrder ----------------------------
(***************************************************************************)
(* What both schedulers of the repository promise to the solver: the tasks *)
(* own adjacent strips of one grid, and a task starts its next iteration   *)
(* only when no neighbouring strip is behind it.  The dynamic scheduler    *)
(* keeps this order with the local pre-condition of Task::isPreCondsMet,   *)
(* the static one with a global barrier; DynamicScheduler and              *)
(* StaticDecomposition are both shown to implement this module.            *)
(***************************************************************************)
EXTENDS Integers

CONSTANTS
  numTasks,   \* number of strips, one task each
  lastIter    \* the iteration every task has to reach

VARIABLE iter_number   \* iter_number[t]: iterations task t has completed

TaskIds == 0 .. numTasks - 1

\* The strips above and below t; main wires the tasks into one column.
Nbrs(t) == {t - 1, t + 1} \cap TaskIds

Distance(t, u) == IF t <= u THEN u - t ELSE t - u
-----------------------------------------------------------------------------
Init == iter_number = [t \in TaskIds |-> 0]

\* One iteration of t, from its pre-condition to its post-condition.
Iterate(t) ==
  /\ iter_number[t] < lastIter
  /\ \A u \in Nbrs(t) : iter_number[t] <= iter_number[u]
  /\ iter_number' = [iter_number EXCEPT ![t] = @ + 1]

\* All tasks have reached the last iteration: nothing is left to do.
Finished ==
  /\ \A t \in TaskIds : iter_number[t] = lastIter
  /\ UNCHANGED iter_number

Next == (\E t \in TaskIds : Iterate(t)) \/ Finished

Spec == Init /\ [][Next]_iter_number

-----------------------------------------------------------------------------
TypeOK == iter_number \in [TaskIds -> 0 .. lastIter]

(***************************************************************************)
(* Two tasks are never further apart in iterations than in the column:     *)
(* neighbours by at most one (the sanity check of Task::isPreCondsMet) and *)
(* all tasks within numTasks consecutive iterations, which is what the     *)
(* ring buffers loc_iters_ and loc_res2_ of numTasks slots rely on.        *)
(***************************************************************************)
BoundedSpread ==
  \A t, u \in TaskIds : iter_number[t] - iter_number[u] <= Distance(t, u)
=============================================================================

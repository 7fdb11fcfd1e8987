---------------------------- MODULE TaskCallsProofs ----------------------------
(***************************************************************************)
(* What the pre-condition achieves whatever a task does between it and     *)
(* setPostConds, and whatever bound hasFinishedIters reads: each action of *)
(* TaskCalls keeps the order of the tasks.  JacobiTaskProofs uses these    *)
(* lemmas through an instance, as any module built on TaskCalls may.       *)
(***************************************************************************)
EXTENDS TaskCalls, WellFoundedInduction, TLAPS

CallTypes ==
  /\ iter_number \in [TaskIds -> Nat]
  /\ tpc \in [TaskIds -> {"up", "down", "work", "check", "finished"}]
  /\ diff1 \in [TaskIds -> -1 .. 1]

\* Neighbours are never more than one iteration apart.
Gap == \A t \in TaskIds : t + 1 \in TaskIds => Diff(t, t + 1) \in -1 .. 1

\* A distance to the upper neighbour that was read can only have shrunk since.
DownOK ==
  \A t \in TaskIds :
    tpc[t] = "down" /\ t - 1 \in TaskIds => Diff(t, t - 1) <= diff1[t]

\* A task at work is not ahead of its neighbours.
WorkOK ==
  \A t \in TaskIds : tpc[t] = "work" =>
    \A u \in {t - 1, t + 1} \cap TaskIds : iter_number[t] <= iter_number[u]

Order == CallTypes /\ Gap /\ DownOK /\ WorkOK

LEMMA InitOrder == ASSUME numTasks \in Nat, Init PROVE Order
<1>1. TaskIds \subseteq Int
  BY DEF TaskIds
<1>2. CallTypes
  BY DEF Init, CallTypes
<1> QED
  BY <1>1, <1>2 DEF Init, Order, Gap, DownOK, WorkOK, Diff, CallTypes

\* Both neighbours, seen from either side.
LEMMA Close ==
  ASSUME numTasks \in Nat, Order, NEW t \in TaskIds, NEW u \in {t - 1, t + 1} \cap TaskIds
  PROVE  Diff(t, u) \in -1 .. 1
<1>1. TaskIds \subseteq Int /\ iter_number[t] \in Nat /\ iter_number[u] \in Nat
  BY DEF TaskIds, Order, CallTypes
<1>2. CASE u = t + 1
  BY <1>2 DEF Order, Gap
<1>3. CASE u = t - 1
  <2>1. Diff(u, u + 1) \in -1 .. 1 /\ u + 1 = t
    <3>1. u + 1 = t
      BY <1>1, <1>3
    <3> QED
      BY <3>1 DEF Order, Gap
  <2> QED
    BY <1>1, <2>1 DEF Diff
<1> QED
  BY <1>2, <1>3

LEMMA ReadUpOrder ==
  ASSUME numTasks \in Nat, Order, NEW t \in TaskIds, ReadUp(t)
  PROVE  Order'
<1>1. TaskIds \subseteq Int /\ CallTypes
  BY DEF TaskIds, Order
<1>2. /\ iter_number' = iter_number
      /\ tpc' = [tpc EXCEPT ![t] = "down"]
      /\ diff1' = [diff1 EXCEPT ![t] = IF TopBound(t) THEN 0 ELSE Diff(t, t - 1)]
  BY DEF ReadUp, Step
<1>3. ~TopBound(t) => t - 1 \in TaskIds
  BY DEF TopBound, TaskIds
<1>4. diff1'[t] \in -1 .. 1
  <2>1. CASE TopBound(t)
    BY <1>1, <1>2, <2>1 DEF CallTypes
  <2>2. CASE ~TopBound(t)
    <3>1. Diff(t, t - 1) \in -1 .. 1
      BY <1>3, <2>2, Close
    <3> QED
      BY <1>1, <1>2, <2>2, <3>1 DEF CallTypes
  <2> QED
    BY <2>1, <2>2
<1>5. CallTypes'
  BY <1>1, <1>2, <1>4 DEF CallTypes
<1>6. Gap'
  BY <1>2 DEF Order, Gap, Diff
<1>7. DownOK'
  <2>1. SUFFICES ASSUME NEW v \in TaskIds, tpc'[v] = "down", v - 1 \in TaskIds
                 PROVE  Diff(v, v - 1)' <= diff1'[v]
    BY DEF DownOK
  <2>2. CASE v = t
    <3>1. ~TopBound(t)
      BY <2>1, <2>2 DEF TopBound, TaskIds
    <3>2. diff1'[v] = Diff(v, v - 1)
      BY <1>1, <1>2, <2>2, <3>1 DEF CallTypes
    <3>3. Diff(v, v - 1) \in Int
      BY <2>1, <1>1 DEF Diff, CallTypes
    <3> QED
      BY <1>2, <3>2, <3>3 DEF Diff
  <2>3. CASE v # t
    BY <1>1, <1>2, <2>1, <2>3 DEF Order, DownOK, CallTypes, Diff
  <2> QED
    BY <2>2, <2>3
<1>8. WorkOK'
  BY <1>1, <1>2 DEF Order, WorkOK, CallTypes
<1> QED
  BY <1>5, <1>6, <1>7, <1>8 DEF Order

LEMMA ReadDownOrder ==
  ASSUME numTasks \in Nat, Order, NEW t \in TaskIds, ReadDown(t)
  PROVE  Order'
<1> DEFINE diff2 == IF BottomBound(t) THEN 0 ELSE Diff(t, t + 1)
<1>1. TaskIds \subseteq Int /\ CallTypes
  BY DEF TaskIds, Order
<1>2. /\ iter_number' = iter_number
      /\ tpc[t] = "down"
      /\ tpc' = [tpc EXCEPT ![t] = IF diff1[t] \in {-1, 0} /\ diff2 \in {-1, 0}
                                     THEN "work" ELSE "check"]
      /\ diff1' = [diff1 EXCEPT ![t] = 0]
  BY DEF ReadDown, Step, At
<1>3. CallTypes'
  BY <1>1, <1>2 DEF CallTypes
<1>4. Gap'
  BY <1>2 DEF Order, Gap, Diff
<1>5. DownOK'
  BY <1>1, <1>2 DEF Order, DownOK, CallTypes, Diff
<1>6. WorkOK'
  <2>1. SUFFICES ASSUME NEW v \in TaskIds, tpc'[v] = "work",
                        NEW u \in {v - 1, v + 1} \cap TaskIds
                 PROVE  iter_number[v] <= iter_number[u]
    BY <1>2 DEF WorkOK
  <2>2. CASE v # t
    BY <1>1, <1>2, <2>1, <2>2 DEF Order, WorkOK, CallTypes
  <2>3. CASE v = t
    <3>1. diff1[t] \in {-1, 0} /\ diff2 \in {-1, 0}
      BY <1>1, <1>2, <2>1, <2>3 DEF CallTypes
    <3>2. iter_number[t] \in Nat /\ iter_number[u] \in Nat
      BY <1>1 DEF CallTypes
    <3>3. CASE u = t - 1
      <4>1. Diff(t, t - 1) <= diff1[t]
        BY <1>2, <3>3 DEF Order, DownOK
      <4> QED
        BY <2>3, <3>1, <3>2, <3>3, <4>1 DEF Diff
    <3>4. CASE u = t + 1
      <4>1. ~BottomBound(t)
        BY <3>4, <2>1 DEF BottomBound, TaskIds
      <4> QED
        BY <2>3, <3>1, <3>2, <3>4, <4>1 DEF Diff
    <3> QED
      BY <2>1, <2>3, <3>3, <3>4
  <2> QED
    BY <2>2, <2>3
<1> QED
  BY <1>3, <1>4, <1>5, <1>6 DEF Order

LEMMA SetPostCondsOrder ==
  ASSUME numTasks \in Nat, Order, NEW t \in TaskIds, SetPostConds(t)
  PROVE  Order'
<1>1. TaskIds \subseteq Int /\ CallTypes
  BY DEF TaskIds, Order
<1>2. /\ iter_number' = [iter_number EXCEPT ![t] = @ + 1]
      /\ tpc[t] = "work"
      /\ tpc' = [tpc EXCEPT ![t] = "check"]
      /\ diff1' = diff1
  BY DEF SetPostConds, Step, At
<1>3. \A v \in TaskIds : /\ iter_number[v] \in Nat
                         /\ iter_number'[v] = IF v = t THEN iter_number[v] + 1
                                              ELSE iter_number[v]
  BY <1>1, <1>2 DEF CallTypes
<1>4. CallTypes'
  BY <1>1, <1>2 DEF CallTypes
<1>5. \A u \in {t - 1, t + 1} \cap TaskIds :
        iter_number[u] \in iter_number[t] .. iter_number[t] + 1
  <2>1. SUFFICES ASSUME NEW u \in {t - 1, t + 1} \cap TaskIds
                 PROVE  iter_number[u] \in iter_number[t] .. iter_number[t] + 1
    OBVIOUS
  <2>2. Diff(t, u) \in -1 .. 1
    BY Close
  <2>3. iter_number[t] <= iter_number[u]
    BY <1>2 DEF Order, WorkOK
  <2> QED
    BY <1>3, <2>2, <2>3 DEF Diff
<1>6. Gap'
  <2>1. SUFFICES ASSUME NEW v \in TaskIds, v + 1 \in TaskIds
                 PROVE  iter_number'[v] - iter_number'[v + 1] \in -1 .. 1
    BY DEF Gap, Diff
  <2>2. iter_number[v] - iter_number[v + 1] \in -1 .. 1
    BY <2>1 DEF Order, Gap, Diff
  <2>3. CASE v = t
    <3>1. t + 1 # t /\ t + 1 \in {t - 1, t + 1} \cap TaskIds
      BY <2>1, <2>3, <1>1
    <3>2. /\ iter_number'[t] = iter_number[t] + 1 /\ iter_number[t] \in Nat
          /\ iter_number'[t + 1] = iter_number[t + 1]
          /\ iter_number[t + 1] \in iter_number[t] .. iter_number[t] + 1
      BY <1>3, <1>5, <3>1
    <3> QED
      BY <2>3, <3>2
  <2>4. CASE v + 1 = t
    <3>1. v # t /\ v \in {t - 1, t + 1} \cap TaskIds
      BY <2>1, <2>4, <1>1
    <3>2. /\ iter_number'[t] = iter_number[t] + 1 /\ iter_number[t] \in Nat
          /\ iter_number'[v] = iter_number[v]
          /\ iter_number[v] \in iter_number[t] .. iter_number[t] + 1
      BY <1>3, <1>5, <3>1
    <3> QED
      BY <2>4, <3>2
  <2>5. CASE v # t /\ v + 1 # t
    BY <1>3, <2>1, <2>2, <2>5
  <2> QED
    BY <2>3, <2>4, <2>5
<1>7. DownOK'
  <2>1. SUFFICES ASSUME NEW v \in TaskIds, tpc'[v] = "down", v - 1 \in TaskIds
                 PROVE  iter_number'[v] - iter_number'[v - 1] <= diff1[v]
    BY <1>2 DEF DownOK, Diff
  <2>2. v # t /\ tpc[v] = "down"
    BY <1>1, <1>2, <2>1 DEF CallTypes
  <2>3. iter_number[v] - iter_number[v - 1] <= diff1[v]
    BY <2>1, <2>2 DEF Order, DownOK, Diff
  <2>4. diff1[v] \in Int
    BY <1>1 DEF CallTypes
  <2> QED
    BY <1>3, <2>1, <2>2, <2>3, <2>4
<1>8. WorkOK'
  <2>1. SUFFICES ASSUME NEW v \in TaskIds, tpc'[v] = "work",
                        NEW u \in {v - 1, v + 1} \cap TaskIds
                 PROVE  iter_number'[v] <= iter_number'[u]
    BY DEF WorkOK
  <2>2. v # t /\ tpc[v] = "work"
    BY <1>1, <1>2, <2>1 DEF CallTypes
  <2>3. iter_number[v] <= iter_number[u]
    BY <2>1, <2>2 DEF Order, WorkOK
  <2> QED
    BY <1>3, <2>1, <2>2, <2>3
<1> QED
  BY <1>4, <1>6, <1>7, <1>8 DEF Order

LEMMA HasFinishedItersOrder ==
  ASSUME numTasks \in Nat, Order, NEW t \in TaskIds, NEW bound, HasFinishedIters(t, bound)
  PROVE  Order'
<1>1. /\ iter_number' = iter_number /\ diff1' = diff1
      /\ tpc' = [tpc EXCEPT ![t] = IF iter_number[t] >= bound THEN "finished" ELSE "up"]
  BY DEF HasFinishedIters, Step
<1>2. CallTypes'
  BY <1>1 DEF Order, CallTypes
<1>3. \A v \in TaskIds : tpc'[v] \in {"down", "work"} => tpc[v] = tpc'[v]
  BY <1>1 DEF Order, CallTypes
<1> QED
  BY <1>1, <1>2, <1>3 DEF Order, Gap, DownOK, WorkOK, Diff

LEMMA StutterOrder == Order /\ UNCHANGED vars => Order'
BY DEF Order, CallTypes, Gap, DownOK, WorkOK, Diff, vars

-----------------------------------------------------------------------------
(* How far the tasks drift apart.  Gap bounds neighbours only; what the rings
   of Task need is the distance of any two tasks. *)

Far(t, u) == IF t <= u THEN u - t ELSE t - u

Drift == \A t, u \in TaskIds : Diff(t, u) <= Far(t, u)

LEMMA InitDrift == ASSUME numTasks \in Nat, Init PROVE Drift
BY DEF Init, Drift, Diff, Far, TaskIds

\* All tasks are within numTasks consecutive iterations.
LEMMA Window ==
  ASSUME numTasks \in Nat, CallTypes, Drift, NEW t \in TaskIds, NEW u \in TaskIds
  PROVE  iter_number[t] < iter_number[u] + numTasks
<1>1. iter_number[t] \in Nat /\ iter_number[u] \in Nat
  BY DEF CallTypes
<1>2. iter_number[t] - iter_number[u] <= Far(t, u)
  BY DEF Drift, Diff
<1>3. Far(t, u) \in 0 .. numTasks - 1
  BY DEF Far, TaskIds
<1> QED
  BY <1>1, <1>2, <1>3

\* The neighbour of t on the way to u is one closer to u.
LEMMA StepTowards ==
  ASSUME numTasks \in Nat, NEW t \in TaskIds, NEW u \in TaskIds, t # u
  PROVE  \E v \in {t - 1, t + 1} \cap TaskIds : Far(v, u) = Far(t, u) - 1
<1> USE DEF TaskIds, Far
<1>1. CASE t < u
  <2> WITNESS t + 1 \in {t - 1, t + 1} \cap TaskIds
  <2> QED BY <1>1
<1>2. CASE u < t
  <2> WITNESS t - 1 \in {t - 1, t + 1} \cap TaskIds
  <2> QED BY <1>2
<1> QED
  BY <1>1, <1>2

\* A task that iterates is not ahead of the neighbour on the way to any other.
LEMMA SetPostCondsDrift ==
  ASSUME numTasks \in Nat, Order, Drift, NEW t \in TaskIds, SetPostConds(t)
  PROVE  Drift'
<1> SUFFICES ASSUME NEW a \in TaskIds, NEW b \in TaskIds
             PROVE  iter_number'[a] - iter_number'[b] <= Far(a, b)
  BY DEF Drift, Diff
<1>1. \A v \in TaskIds :
        /\ iter_number[v] \in Nat
        /\ iter_number'[v] = IF v = t THEN iter_number[v] + 1 ELSE iter_number[v]
  BY DEF SetPostConds, Order, CallTypes
<1>2. iter_number[a] - iter_number[b] <= Far(a, b) /\ Far(a, b) \in Nat
  BY DEF Drift, Diff, Far, TaskIds
<1>3. CASE a # t \/ b = t
  BY <1>1, <1>2, <1>3
<1>4. CASE a = t /\ b # t
  <2>1. PICK v \in {t - 1, t + 1} \cap TaskIds : Far(v, b) = Far(t, b) - 1
    BY <1>4, StepTowards
  <2>2. iter_number[t] <= iter_number[v]
    BY DEF SetPostConds, At, Order, WorkOK
  <2>3. iter_number[v] - iter_number[b] <= Far(v, b)
    BY DEF Drift, Diff
  <2> QED
    BY <1>1, <1>2, <1>4, <2>1, <2>2, <2>3
<1> QED
  BY <1>3, <1>4

LEMMA StutterDrift ==
  ASSUME Drift, iter_number' = iter_number
  PROVE  Drift'
BY DEF Drift, Diff

-----------------------------------------------------------------------------
(* The specification itself, where hasFinishedIters reads maxIter.  It is
   asked after the first attempt only: with maxIter = 0 one iteration is run. *)

lastIter == IF maxIter = 0 THEN 1 ELSE maxIter

\* A task that has reached the last iteration is not called again.
Below ==
  \A t \in TaskIds :
    /\ iter_number[t] <= lastIter
    /\ tpc[t] \in {"up", "down", "work"} => iter_number[t] < lastIter

LEMMA BelowStep ==
  ASSUME numTasks \in Nat, maxIter \in Nat, Order, Below, [Next]_vars
  PROVE  Below'
<1>1. lastIter \in Nat /\ maxIter <= lastIter /\ lastIter' = lastIter
  BY DEF lastIter
<1>2. CASE UNCHANGED vars
  BY <1>1, <1>2 DEF vars, Below
<1>3. ASSUME NEW t \in TaskIds,
             ReadUp(t) \/ ReadDown(t) \/ SetPostConds(t) \/ HasFinishedIters(t, maxIter)
      PROVE  Below'
  <2> SUFFICES ASSUME NEW v \in TaskIds
               PROVE  /\ iter_number'[v] <= lastIter
                      /\ tpc'[v] \in {"up", "down", "work"} => iter_number'[v] < lastIter
    BY <1>1 DEF Below
  <2>0. CallTypes
    BY DEF Order
  <2>1. /\ iter_number[v] \in Nat /\ DOMAIN tpc = TaskIds /\ DOMAIN iter_number = TaskIds
        /\ iter_number[v] <= lastIter
        /\ tpc[v] \in {"up", "down", "work"} => iter_number[v] < lastIter
    BY <2>0 DEF Below, CallTypes
  <2>2. CASE ReadUp(t)
    BY <2>0, <2>1, <2>2 DEF ReadUp, At, Step, CallTypes
  <2>3. CASE ReadDown(t)
    BY <2>0, <2>1, <2>3 DEF ReadDown, At, Step, CallTypes
  <2>4. CASE SetPostConds(t)
    BY <1>1, <2>0, <2>1, <2>4 DEF SetPostConds, At, Step, CallTypes
  <2>5. CASE HasFinishedIters(t, maxIter)
    BY <1>1, <2>0, <2>1, <2>5 DEF HasFinishedIters, At, Step, CallTypes
  <2> QED
    BY <1>3, <2>2, <2>3, <2>4, <2>5
<1> QED
  BY <1>2, <1>3 DEF Next

\* Every step keeps what the lemmas above say of each action.
LEMMA CallsInvariance ==
  ASSUME numTasks \in Nat, maxIter \in Nat
  PROVE  Spec => [](Order /\ Drift /\ Below)
<1>1. ASSUME Init PROVE Order /\ Drift /\ Below
  <2>1. Below
    BY <1>1 DEF Init, Below, lastIter
  <2> QED
    BY <1>1, <2>1, InitOrder, InitDrift
<1>2. Order /\ Drift /\ Below /\ [Next]_vars => (Order /\ Drift /\ Below)'
  <2> SUFFICES ASSUME Order, Drift, Below, [Next]_vars
               PROVE  Order' /\ Drift'
    BY BelowStep
  <2>1. CASE UNCHANGED vars
    BY <2>1, StutterOrder, StutterDrift DEF vars
  <2>2. ASSUME NEW t \in TaskIds, ReadUp(t) PROVE Order' /\ Drift'
    BY <2>2, ReadUpOrder, StutterDrift DEF ReadUp
  <2>3. ASSUME NEW t \in TaskIds, ReadDown(t) PROVE Order' /\ Drift'
    BY <2>3, ReadDownOrder, StutterDrift DEF ReadDown
  <2>4. ASSUME NEW t \in TaskIds, SetPostConds(t) PROVE Order' /\ Drift'
    BY <2>4, SetPostCondsOrder, SetPostCondsDrift
  <2>5. ASSUME NEW t \in TaskIds, HasFinishedIters(t, maxIter) PROVE Order' /\ Drift'
    BY <2>5, HasFinishedItersOrder, StutterDrift DEF HasFinishedIters
  <2> QED
    BY <2>1, <2>2, <2>3, <2>4, <2>5 DEF Next
<1> QED
  BY <1>1, <1>2, PTL DEF Spec

(***************************************************************************)
(* What StencilOrder promises of any number of strips, with lastIter, the  *)
(* iteration hasFinishedIters lets a task reach.                           *)
(***************************************************************************)
Stencil == INSTANCE StencilOrder

LEMMA SameTasks ==
  /\ Stencil!TaskIds = TaskIds
  /\ \A t, u : Stencil!Distance(t, u) = Far(t, u)
  /\ \A t : Stencil!Nbrs(t) = {t - 1, t + 1} \cap TaskIds
BY DEF Stencil!TaskIds, TaskIds, Stencil!Distance, Far, Stencil!Nbrs

(***************************************************************************)
(* The counters of the strips stay in 0 .. lastIter: no task iterates once *)
(* it has reached the last iteration.                                      *)
(***************************************************************************)
THEOREM OrderTypeCorrect ==
  ASSUME numTasks \in Nat, maxIter \in Nat
  PROVE  Stencil!Spec => []Stencil!TypeOK
<1>0. lastIter \in Nat
  BY DEF lastIter
<1>1. Stencil!Init => Stencil!TypeOK
  BY <1>0 DEF Stencil!Init, Stencil!TypeOK
<1>2. Stencil!TypeOK /\ [Stencil!Next]_iter_number => Stencil!TypeOK'
  <2> SUFFICES ASSUME Stencil!TypeOK, [Stencil!Next]_iter_number PROVE Stencil!TypeOK'
    OBVIOUS
  <2>1. CASE UNCHANGED iter_number
    BY <2>1 DEF Stencil!TypeOK, Stencil!TaskIds, lastIter
  <2>2. ASSUME NEW t \in Stencil!TaskIds, Stencil!Iterate(t) PROVE Stencil!TypeOK'
    <3>1. iter_number[t] + 1 \in 0 .. lastIter
      BY <1>0, <2>2 DEF Stencil!TypeOK, Stencil!Iterate
    <3>2. iter_number' \in [Stencil!TaskIds -> 0 .. lastIter]
      BY <2>2, <3>1 DEF Stencil!TypeOK, Stencil!Iterate
    <3> QED
      BY <3>2 DEF Stencil!TypeOK, Stencil!TaskIds, lastIter
  <2>3. CASE Stencil!Finished
    BY <2>1, <2>3 DEF Stencil!Finished
  <2> QED
    BY <2>1, <2>2, <2>3 DEF Stencil!Next
<1> QED
  BY <1>1, <1>2, PTL DEF Stencil!Spec

(***************************************************************************)
(* Any two tasks differ by at most their distance in the column of strips; *)
(* in particular neighbours differ by at most one iteration, which is the  *)
(* sanity check of Task::isPreCondsMet.  The order alone gives this, and   *)
(* every module that implements StencilOrder inherits it.                  *)
(***************************************************************************)
THEOREM OrderSpread ==
  ASSUME numTasks \in Nat, maxIter \in Nat
  PROVE  Stencil!Spec => []Stencil!BoundedSpread
<1>1. Stencil!Init => Stencil!BoundedSpread
  BY DEF Stencil!Init, Stencil!BoundedSpread, Stencil!Distance, Stencil!TaskIds
<1>2. Stencil!TypeOK /\ Stencil!BoundedSpread /\ [Stencil!Next]_iter_number
        => Stencil!BoundedSpread'
  <2> SUFFICES ASSUME Stencil!TypeOK, Stencil!BoundedSpread, [Stencil!Next]_iter_number,
                      NEW a \in TaskIds, NEW b \in TaskIds
               PROVE  iter_number'[a] - iter_number'[b] <= Far(a, b)
    BY SameTasks DEF Stencil!BoundedSpread, Stencil!Distance, Far, Stencil!TaskIds, TaskIds
  <2>1. iter_number \in [TaskIds -> Int] /\ Far(a, b) \in Int
    BY SameTasks DEF Stencil!TypeOK, Far, TaskIds
  <2>2. \A v \in TaskIds : iter_number[v] - iter_number[b] <= Far(v, b)
    BY SameTasks DEF Stencil!BoundedSpread
  <2>3. CASE UNCHANGED iter_number
    BY <2>2, <2>3
  <2>4. ASSUME NEW t \in TaskIds, Stencil!Iterate(t)
        PROVE  iter_number'[a] - iter_number'[b] <= Far(a, b)
    <3>1. iter_number' = [iter_number EXCEPT ![t] = @ + 1]
      BY <2>4 DEF Stencil!Iterate
    <3>2. CASE a # t \/ b = t
      BY <2>1, <2>2, <3>1, <3>2
    <3>3. CASE a = t /\ b # t
      <4>1. PICK v \in {t - 1, t + 1} \cap TaskIds : Far(v, b) = Far(t, b) - 1
        BY <3>3, StepTowards
      <4>2. iter_number[t] <= iter_number[v]
        BY <2>4, SameTasks DEF Stencil!Iterate
      <4>3. iter_number[v] - iter_number[b] <= Far(v, b)
        BY <2>2
      <4>4. iter_number[v] \in Int
        BY <2>1
      <4> QED
        BY <2>1, <3>1, <3>3, <4>1, <4>2, <4>3, <4>4
    <3> QED
      BY <3>2, <3>3
  <2>5. CASE Stencil!Finished
    BY <2>3, <2>5 DEF Stencil!Finished
  <2> QED
    BY <2>3, <2>4, <2>5, SameTasks DEF Stencil!Next
<1> QED
  BY <1>1, <1>2, OrderTypeCorrect, PTL DEF Stencil!Spec

(***************************************************************************)
(* The lambda of a task keeps that order: the two halves of isPreCondsMet, *)
(* which read the neighbours one after the other without a lock, and an    *)
(* iteration that is counted much later, are as good as the atomic test    *)
(* and increment of StencilOrder.                                          *)
(***************************************************************************)
THEOREM CallsImplementOrder ==
  ASSUME numTasks \in Nat, maxIter \in Nat
  PROVE  Spec => Stencil!Spec
<1>1. Init => Stencil!Init
  BY DEF Init, Stencil!Init, Stencil!TaskIds, TaskIds
<1>2. Order /\ Below /\ [Next]_vars => [Stencil!Next]_iter_number
  <2> SUFFICES ASSUME Order, Below, [Next]_vars, iter_number' # iter_number
               PROVE  \E t \in TaskIds : Stencil!Iterate(t)
    BY SameTasks DEF Stencil!Next
  <2>1. PICK t \in TaskIds : SetPostConds(t)
    BY DEF Next, ReadUp, ReadDown, HasFinishedIters, vars
  <2>2. iter_number[t] < lastIter
    BY <2>1 DEF SetPostConds, At, Below
  <2>3. \A u \in {t - 1, t + 1} \cap TaskIds : iter_number[t] <= iter_number[u]
    BY <2>1 DEF SetPostConds, At, Order, WorkOK
  <2> QED
    BY <2>1, <2>2, <2>3, SameTasks DEF SetPostConds, Stencil!Iterate
<1> QED
  BY <1>1, <1>2, CallsInvariance, PTL DEF Stencil!Spec, Spec

-----------------------------------------------------------------------------
(* Somebody can always go on. *)

LEMMA LeastNumber ==
  ASSUME NEW T, T \subseteq Nat, T # {}
  PROVE  \E x \in T : \A y \in T : x <= y
<1> DEFINE R == OpToRel(<, Nat)
<1>1. PICK x \in T : \A y \in T : <<y, x>> \notin R
  BY NatLessThanWellFounded, WFMin
<1>2. \A y \in T : ~(y < x)
  BY <1>1 DEF OpToRel
<1> QED
  BY <1>2

\* One of the tasks is the furthest behind.
LEMMA LastTask ==
  ASSUME CallTypes, NEW t \in TaskIds
  PROVE  \E v \in TaskIds : \A u \in TaskIds : iter_number[v] <= iter_number[u]
<1> DEFINE T == {iter_number[u] : u \in TaskIds}
<1>1. T \subseteq Nat /\ T # {}
  BY DEF CallTypes
<1>2. PICK x \in T : \A y \in T : x <= y
  BY <1>1, LeastNumber
<1> QED
  BY <1>2

\* What isPreCondsMet returns if nobody moves while it tests.
PreCondsMet(t) == \A u \in {t - 1, t + 1} \cap TaskIds : Diff(t, u) \in {-1, 0}

\* A task is only given up with all its iterations done.
Left == \A t \in TaskIds : tpc[t] = "finished" => iter_number[t] >= maxIter

(***************************************************************************)
(* The tasks never all wait for each other: as long as one of them has     *)
(* iterations left there is one, the furthest behind, that is still being  *)
(* called and that isPreCondsMet does not turn away.  This is what makes   *)
(* it enough to put refused tasks back into the queue.                     *)
(***************************************************************************)
SomeoneCanRun ==
  (\E t \in TaskIds : iter_number[t] < maxIter) =>
    \E t \in TaskIds : iter_number[t] < maxIter /\ tpc[t] # "finished" /\ PreCondsMet(t)

LEMMA LastCanRun ==
  ASSUME numTasks \in Nat, NEW bound \in Nat, Order,
         \A t \in TaskIds : tpc[t] = "finished" => iter_number[t] >= bound,
         NEW t \in TaskIds, iter_number[t] < bound
  PROVE  \E v \in TaskIds : iter_number[v] < bound /\ tpc[v] # "finished" /\ PreCondsMet(v)
<1>1. PICK v \in TaskIds : \A u \in TaskIds : iter_number[v] <= iter_number[u]
  BY LastTask DEF Order
<1>2. \A u \in TaskIds : iter_number[u] \in Nat
  BY DEF Order, CallTypes
<1>3. iter_number[v] < bound /\ tpc[v] # "finished"
  BY <1>1, <1>2
<1>4. PreCondsMet(v)
  <2> SUFFICES ASSUME NEW u \in {v - 1, v + 1} \cap TaskIds
               PROVE  Diff(v, u) \in {-1, 0}
    BY DEF PreCondsMet
  <2>1. Diff(v, u) \in -1 .. 1
    BY Close
  <2> QED
    BY <1>1, <1>2, <2>1 DEF Diff
<1> QED
  BY <1>3, <1>4

LEMMA LeftStep ==
  ASSUME Order, Left, [Next]_vars
  PROVE  Left'
<1>1. CASE UNCHANGED vars
  BY <1>1 DEF vars, Left
<1>2. ASSUME NEW t \in TaskIds,
             ReadUp(t) \/ ReadDown(t) \/ SetPostConds(t) \/ HasFinishedIters(t, maxIter)
      PROVE  Left'
  <2> SUFFICES ASSUME NEW v \in TaskIds, tpc'[v] = "finished"
               PROVE  iter_number'[v] >= maxIter
    BY DEF Left
  <2>1. CallTypes /\ (tpc[v] = "finished" => iter_number[v] >= maxIter)
    BY DEF Left, Order
  <2>2. CASE ReadUp(t)
    BY <2>1, <2>2 DEF ReadUp, At, Step, CallTypes
  <2>3. CASE ReadDown(t)
    BY <2>1, <2>3 DEF ReadDown, At, Step, CallTypes
  <2>4. CASE SetPostConds(t)
    BY <2>1, <2>4 DEF SetPostConds, At, Step, CallTypes
  <2>5. CASE HasFinishedIters(t, maxIter)
    BY <2>1, <2>5 DEF HasFinishedIters, At, Step, CallTypes
  <2> QED
    BY <1>2, <2>2, <2>3, <2>4, <2>5
<1> QED
  BY <1>1, <1>2 DEF Next

(***************************************************************************)
(* isPreCondsMet never refuses everybody (task.cpp:286-310): while a task  *)
(* has iterations left, one that is furthest behind finds the counters of  *)
(* its neighbours at its own or one further, and runs when it is called.   *)
(***************************************************************************)
THEOREM NeverAllWait ==
  ASSUME numTasks \in Nat, maxIter \in Nat
  PROVE  Spec => []SomeoneCanRun
<1>1. Init => Left
  BY DEF Init, Left
<1>2. Order /\ Left /\ [Next]_vars => Left'
  BY LeftStep
<1>3. Order /\ Left => SomeoneCanRun
  BY LastCanRun DEF Left, SomeoneCanRun
<1> QED
  BY <1>1, <1>2, <1>3, CallsInvariance, PTL DEF Spec
=============================================================================

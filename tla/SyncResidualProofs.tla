------------------------- MODULE SyncResidualProofs -------------------------
(***************************************************************************)
(* The residual and the early stop for any number of tasks.                *)
(*                                                                         *)
(* First, whatever bits are lost: the bound is changed by one task only,   *)
(* and never falls below what somebody has done.  All tasks are within     *)
(* numTasks iterations (CallProofs!Drift), so the iteration of the         *)
(* deciding task plus numTasks is beyond all of them (StopInv, EndInv).    *)
(*                                                                         *)
(* Second, as long as no bit was lost, the ring works (RingInv).  Slots of *)
(* the iterations in progress are distinct (SlotsDiffer).  Whoever reduces *)
(* an iteration has seen all tasks mark it, so it is the least iteration   *)
(* anybody is in, and no other can be reduced meanwhile.  As long as an    *)
(* iteration that all have marked is not reduced, some task is on its way  *)
(* to reduce it (Pending).                                                 *)
(*                                                                         *)
(* Third, whatever bits are lost, a sum holds no residual but those of its *)
(* iteration and of the one numTasks before it (RecentInv).                *)
(*                                                                         *)
(* Last, if no bit was lost and the tolerance is met early enough, the     *)
(* stop is decided in iteration convergedAt, and everybody stops numTasks  *)
(* iterations later (EarlyInv).                                            *)
(***************************************************************************)
EXTENDS SyncResidual, TLAPS

CallProofs == INSTANCE TaskCallsProofs WITH maxIter <- startMaxIter

LEMMA Constants ==
  /\ numTasks \in Nat \ {0, 1} /\ startMaxIter \in Nat \ {0} /\ convergedAt \in Nat
  /\ wordBits \in Nat \ {0} /\ NDEBUG \in BOOLEAN
  /\ maxBound \in Nat /\ maxBound = startMaxIter + numTasks - 1
BY numTasksAssumption, startMaxIterAssumption, convergedAtAssumption,
   wordBitsAssumption, NDEBUGAssumption DEF maxBound

-----------------------------------------------------------------------------
(* The early stop, whatever bits are lost. *)

Order == CallProofs!Order /\ CallProofs!Drift

\* Only a task at work is anywhere but at the beginning of performTask.
Outside == \A t \in TaskIds : tpc[t] # "work" => spc[t] = "residual"

\* The local variables of the loops.
Loops ==
  \A t \in TaskIds :
    /\ spc[t] = "scan" => found[t] \in 0 .. k[t]
    /\ spc[t] = "maxScan" => found[t] \in 0 .. maxBound
    /\ spc[t] \notin {"scan", "maxScan"} => found[t] = 0
    /\ spc[t] \notin {"scan", "sum", "clear", "clearWrite", "maxScan"} => k[t] = 0

Deciding(t) == spc[t] \in {"maxScan", "setMax"}

\* Nobody has changed the bound before the only task that may.
Decision ==
  /\ \A t \in TaskIds : Deciding(t) => resTermFlagSet /\ maxIter = startMaxIter
  /\ ~resTermFlagSet => maxIter = startMaxIter

\* A task that is called again has iterations left.
Bounds ==
  \A t \in TaskIds :
    /\ iter_number[t] <= maxIter
    /\ tpc[t] \in {"up", "down", "work"} => iter_number[t] < maxIter

StopInv ==
  /\ TypeOK
  /\ Order
  /\ Outside
  /\ Loops
  /\ OnlyOneChangesMaxIter
  /\ Decision
  /\ Bounds

LEMMA SameIds == CallProofs!TaskIds = TaskIds /\ Calls!TaskIds = TaskIds
BY DEF CallProofs!TaskIds, Calls!TaskIds, TaskIds

LEMMA SameCalls ==
  /\ Calls!Init <=> CallProofs!Init
  /\ \A t : Calls!ReadUp(t) <=> CallProofs!ReadUp(t)
  /\ \A t : Calls!ReadDown(t) <=> CallProofs!ReadDown(t)
  /\ \A t : Calls!SetPostConds(t) <=> CallProofs!SetPostConds(t)
  /\ \A t, b : Calls!HasFinishedIters(t, b) <=> CallProofs!HasFinishedIters(t, b)
BY DEF Calls!Init, CallProofs!Init, Calls!TaskIds, CallProofs!TaskIds,
       Calls!ReadUp, CallProofs!ReadUp, Calls!ReadDown, CallProofs!ReadDown,
       Calls!SetPostConds, CallProofs!SetPostConds, Calls!HasFinishedIters,
       CallProofs!HasFinishedIters, Calls!At, CallProofs!At, Calls!Step, CallProofs!Step,
       Calls!Diff, CallProofs!Diff, Calls!TopBound, CallProofs!TopBound,
       Calls!BottomBound, CallProofs!BottomBound

\* What Order says in the terms of SyncResidual.
LEMMA OrderFacts ==
  ASSUME Order
  PROVE  /\ iter_number \in [TaskIds -> Nat]
         /\ tpc \in [TaskIds -> {"up", "down", "work", "check", "finished"}]
         /\ \A t, u \in TaskIds : iter_number[t] < iter_number[u] + numTasks
BY Constants, SameIds, CallProofs!Window DEF Order, CallProofs!Order, CallProofs!CallTypes

LEMMA Steps ==
  ASSUME Order, [Next]_vars
  PROVE  Order'
<1>1. CASE UNCHANGED callVars
  BY <1>1 DEF callVars, Order, CallProofs!Order, CallProofs!CallTypes, CallProofs!Gap,
              CallProofs!DownOK, CallProofs!WorkOK, CallProofs!Drift, CallProofs!Diff
<1>2. ASSUME NEW t \in TaskIds, Test(t) PROVE Order'
  <2>1. Calls!ReadUp(t) \/ Calls!ReadDown(t) \/ Calls!HasFinishedIters(t, maxIter)
    BY <1>2 DEF Test
  <2>2. CallProofs!Order'
    BY <2>1, Constants, SameIds, SameCalls, CallProofs!ReadUpOrder, CallProofs!ReadDownOrder,
       CallProofs!HasFinishedItersOrder DEF Order
  <2>3. iter_number' = iter_number
    BY <2>1 DEF Calls!ReadUp, Calls!ReadDown, Calls!HasFinishedIters
  <2> QED
    BY <2>2, <2>3 DEF Order, CallProofs!Drift, CallProofs!Diff
<1>3. ASSUME NEW t \in TaskIds, SetPostConds(t) PROVE Order'
  <2>1. CallProofs!SetPostConds(t)
    BY <1>3, SameCalls DEF SetPostConds
  <2>2. CallProofs!Order'
    BY <2>1, Constants, SameIds, CallProofs!SetPostCondsOrder DEF Order
  <2>3. CallProofs!Drift'
    BY <2>1, Constants, SameIds, CallProofs!SetPostCondsDrift DEF Order
  <2> QED
    BY <2>2, <2>3 DEF Order
<1> QED
  BY <1>1, <1>2, <1>3 DEF Next, Task, SyncStep, StopStep, vars

LEMMA InitStop == Init => StopInv
<1> SUFFICES ASSUME Init PROVE StopInv
  OBVIOUS
<1>1. Order
  BY Constants, SameIds, SameCalls, CallProofs!InitOrder, CallProofs!InitDrift DEF Init, Order
<1>2. /\ iter_number = [t \in TaskIds |-> 0] /\ tpc = [t \in TaskIds |-> "up"]
  BY SameIds DEF Init, Calls!Init
<1>3. 0 \in TaskIds /\ 0 \in 0 .. maxBound
  BY Constants DEF TaskIds
<1>4. TypeOK
  <2>1. /\ iter_number \in [TaskIds -> 0 .. maxBound] /\ maxIter \in 1 .. maxBound
        /\ tpc \in [TaskIds -> {"up", "down", "work", "check", "finished"}]
        /\ k \in [TaskIds -> TaskIds]
        /\ found \in [TaskIds -> 0 .. numTasks + maxBound]
    BY <1>2, <1>3, Constants DEF Init
  <2>2. /\ loc_res2 \in [TaskIds -> [Slots -> {Unwritten} \cup 0 .. maxBound]]
        /\ loc_iters \in [TaskIds -> SUBSET Slots] /\ word \in [TaskIds -> SUBSET Slots]
        /\ isAllTasksDone \in SUBSET Slots
        /\ spc \in [TaskIds -> SpcLabels]
    BY DEF Init, SpcLabels
  <2>3. /\ global_res \in [TaskIds -> SUBSET ({Unwritten} \cup 0 .. maxBound)]
        /\ grid_gres_ \subseteq {Unwritten} \cup 0 .. maxBound /\ grid_iters_ \in 0 .. maxBound
        /\ mu_task \in TaskIds \cup {Free} /\ resTermFlagSet \in BOOLEAN
        /\ fault \in {"none", AssertMaxIter} /\ reduced \subseteq 0 .. maxBound
        /\ below \in [TaskIds -> BOOLEAN] /\ lost \in BOOLEAN
    BY <1>3 DEF Init
  <2> QED
    BY <2>1, <2>2, <2>3 DEF TypeOK
<1>5. Outside /\ Loops /\ OnlyOneChangesMaxIter /\ Decision /\ Bounds
  BY <1>2, Constants DEF Init, Outside, Loops, OnlyOneChangesMaxIter, Deciding, Decision, Bounds
<1> QED
  BY <1>1, <1>4, <1>5 DEF StopInv

\* A step within syncResidual cannot disturb the decision.
LEMMA SyncCommon ==
  ASSUME StopInv, NEW t \in TaskIds, tpc[t] = "work", UNCHANGED <<callVars, stopVars>>,
         NEW l, l \notin {"maxScan", "setMax"}, Goto(t, l)
  PROVE  Outside' /\ OnlyOneChangesMaxIter' /\ Decision' /\ Bounds'
<1>1. \A v \in TaskIds : spc'[v] = IF v = t THEN l ELSE spc[v]
  BY DEF Goto, StopInv, TypeOK
<1> QED
  BY <1>1 DEF StopInv, Outside, OnlyOneChangesMaxIter, Decision, Deciding, Bounds,
              callVars, stopVars

\* Slots and iterations in range.
LEMMA IndType == ASSUME TypeOK, NEW t \in TaskIds PROVE ind(t) \in Slots
BY Constants DEF TypeOK, ind, Slots

\* The loop over all tasks.
LEMMA LoopFacts ==
  ASSUME TypeOK, NEW t \in TaskIds, NEW stay, NEW leave, Loop(t, stay, leave)
  PROVE  \/ /\ k[t] = numTasks - 1
            /\ k' = [k EXCEPT ![t] = 0]
            /\ Goto(t, leave)
         \/ /\ k[t] # numTasks - 1 /\ k[t] + 1 \in TaskIds
            /\ k' = [k EXCEPT ![t] = k[t] + 1]
            /\ Goto(t, stay)
<1>1. k[t] \in TaskIds
  BY DEF TypeOK
<1> QED
  BY <1>1, Constants DEF Loop, TaskIds

LEMMA LoopType ==
  ASSUME TypeOK, NEW t \in TaskIds, NEW stay, NEW leave, Loop(t, stay, leave)
  PROVE  k' \in [TaskIds -> TaskIds]
<1>1. 0 \in TaskIds
  BY Constants DEF TaskIds
<1>2. k \in [TaskIds -> TaskIds]
  BY DEF TypeOK
<1> QED
  BY <1>1, <1>2, LoopFacts

LEMMA StoreResidualStop ==
  ASSUME StopInv, NEW t \in TaskIds, StoreResidual(t), UNCHANGED <<callVars, stopVars>>
  PROVE  TypeOK' /\ Loops' /\ Outside' /\ OnlyOneChangesMaxIter' /\ Decision' /\ Bounds'
<1>1. tpc[t] = "work" /\ Goto(t, "mark")
  BY DEF StoreResidual, At
<1>2. iter_number[t] \in 0 .. maxBound /\ ind(t) \in Slots
  BY IndType DEF StopInv, TypeOK
<1>3. TypeOK'
  BY <1>1, <1>2 DEF StoreResidual, StopInv, TypeOK, Goto, SpcLabels, callVars, stopVars,
     bitVars, sumVars, gridVars
<1>4. Loops'
  BY <1>1 DEF StoreResidual, At, StopInv, TypeOK, Goto, Loops, callVars, stopVars
<1> QED
  BY <1>1, <1>3, <1>4, SyncCommon

LEMMA LoadWordStop ==
  ASSUME StopInv, NEW t \in TaskIds, LoadWord(t), UNCHANGED <<callVars, stopVars>>
  PROVE  TypeOK' /\ Loops' /\ Outside' /\ OnlyOneChangesMaxIter' /\ Decision' /\ Bounds'
<1>0. loc_iters[t] \in SUBSET Slots /\ loc_iters[k[t]] \in SUBSET Slots
      /\ isAllTasksDone \in SUBSET Slots
  BY DEF StopInv, TypeOK
<1>1. PICK l \in {"markWrite", "clearWrite", "releaseWrite"}, bits \in SUBSET Slots :
        /\ tpc[t] = "work" /\ Load(t, bits, l)
        /\ l = "markWrite" => spc[t] = "mark"
        /\ l = "clearWrite" => spc[t] = "clear"
        /\ l = "releaseWrite" => spc[t] = "release"
  BY <1>0 DEF LoadWord, At
<1>2. Goto(t, l) /\ word' \in [TaskIds -> SUBSET Slots]
  BY <1>1 DEF Load, StopInv, TypeOK
<1>3. TypeOK'
  BY <1>1, <1>2 DEF LoadWord, StopInv, TypeOK, Goto, SpcLabels, callVars, stopVars,
                    bitVars, sumVars, gridVars
<1>4. Loops'
  BY <1>1, <1>2 DEF LoadWord, StopInv, TypeOK, Goto, Loops, callVars, stopVars
<1> QED
  BY <1>1, <1>2, <1>3, <1>4, SyncCommon

LEMMA PutBackType ==
  ASSUME TypeOK, NEW t \in TaskIds, NEW bits \in SUBSET Slots
  PROVE  PutBack(t, bits) \in SUBSET Slots
BY DEF TypeOK, PutBack

LEMMA StoresType ==
  ASSUME TypeOK, NEW t \in TaskIds, NEW bits, Stores(t, bits)
  PROVE  word' \in [TaskIds -> SUBSET Slots] /\ lost' \in BOOLEAN
BY DEF TypeOK, Stores

LEMMA MarkStop ==
  ASSUME StopInv, NEW t \in TaskIds, Mark(t), UNCHANGED <<callVars, stopVars>>
  PROVE  TypeOK' /\ Loops' /\ Outside' /\ OnlyOneChangesMaxIter' /\ Decision' /\ Bounds'
<1>1. tpc[t] = "work" /\ Goto(t, "scan") /\ spc[t] = "markWrite"
  BY DEF Mark, At
<1>2. PutBack(t, loc_iters[t]) \cup {ind(t)} \in SUBSET Slots
  BY IndType, PutBackType DEF StopInv, TypeOK
<1>3. /\ loc_iters' \in [TaskIds -> SUBSET Slots]
      /\ word' \in [TaskIds -> SUBSET Slots] /\ lost' \in BOOLEAN
  BY <1>2, StoresType DEF Mark, StopInv, TypeOK
<1>4. TypeOK'
  BY <1>1, <1>3 DEF Mark, StopInv, TypeOK, Goto, SpcLabels, callVars, stopVars,
     bitVars, sumVars, gridVars
<1>5. Loops'
  BY <1>1 DEF Mark, StopInv, TypeOK, Goto, Loops, callVars, stopVars, TaskIds
<1> QED
  BY <1>1, <1>4, <1>5, SyncCommon

LEMMA ScanStop ==
  ASSUME StopInv, NEW t \in TaskIds, Scan(t), UNCHANGED <<callVars, stopVars>>
  PROVE  TypeOK' /\ Loops' /\ Outside' /\ OnlyOneChangesMaxIter' /\ Decision' /\ Bounds'
<1> DEFINE more == found[t] + (IF ind(t) \in loc_iters[k[t]] THEN 1 ELSE 0)
           leave == IF more = numTasks THEN "claim" ELSE "criterion"
<1>1. /\ tpc[t] = "work" /\ spc[t] = "scan"
      /\ Loop(t, "scan", leave)
      /\ found' = [found EXCEPT ![t] = IF k[t] = numTasks - 1 THEN 0 ELSE more]
      /\ UNCHANGED <<bitVars, sumVars, mu_task>>
  BY DEF Scan, At
<1>2. k[t] \in TaskIds /\ found[t] \in 0 .. k[t] /\ k[t] \in 0 .. numTasks - 1
  BY <1>1 DEF StopInv, TypeOK, Loops, TaskIds
<1>3. more \in 0 .. k[t] + 1
  BY <1>2
<1> HIDE DEF more
<1>4. leave \in {"claim", "criterion"}
  OBVIOUS
<1> HIDE DEF leave
<1>5. PICK l \in {"scan", "claim", "criterion"} :
        /\ Goto(t, l)
        /\ \/ k[t] = numTasks - 1 /\ l = leave /\ k' = [k EXCEPT ![t] = 0]
           \/ /\ k[t] # numTasks - 1 /\ k[t] + 1 \in TaskIds /\ l = "scan"
              /\ k' = [k EXCEPT ![t] = k[t] + 1]
  <2>1. \/ k[t] = numTasks - 1 /\ k' = [k EXCEPT ![t] = 0] /\ Goto(t, leave)
        \/ /\ k[t] # numTasks - 1 /\ k[t] + 1 \in TaskIds
           /\ k' = [k EXCEPT ![t] = k[t] + 1] /\ Goto(t, "scan")
    BY <1>1, LoopFacts DEF StopInv
  <2> QED
    BY <1>4, <2>1
<1>6. TypeOK'
  <2>1. k' \in [TaskIds -> TaskIds]
    BY <1>1, LoopType DEF StopInv
  <2>2. found' \in [TaskIds -> 0 .. numTasks + maxBound]
    <3>1. more \in 0 .. numTasks + maxBound
      BY <1>2, <1>3, Constants
    <3> QED
      BY <1>1, <3>1, Constants DEF StopInv, TypeOK
  <2> QED
    BY <1>1, <1>5, <2>1, <2>2 DEF StopInv, TypeOK, Goto, SpcLabels, callVars, stopVars,
                                  bitVars, sumVars, gridVars
<1>7. Loops'
  <2> SUFFICES ASSUME NEW v \in TaskIds
               PROVE /\ spc'[v] = "scan" => found'[v] \in 0 .. k'[v]
                     /\ spc'[v] = "maxScan" => found'[v] \in 0 .. maxBound
                     /\ spc'[v] \notin {"scan", "maxScan"} => found'[v] = 0
                     /\ spc'[v] \notin {"scan", "sum", "clear", "clearWrite", "maxScan"} => k'[v] = 0
    BY DEF Loops
  <2>1. CASE v # t
    BY <1>1, <1>5, <2>1 DEF StopInv, TypeOK, Goto, Loops
  <2>2. CASE v = t
    BY <1>1, <1>2, <1>3, <1>4, <1>5, <2>2, Constants DEF StopInv, TypeOK, Goto, TaskIds
  <2> QED
    BY <2>1, <2>2
<1> QED
  BY <1>1, <1>5, <1>6, <1>7, SyncCommon

LEMMA ClaimStop ==
  ASSUME StopInv, NEW t \in TaskIds, Claim(t), UNCHANGED <<callVars, stopVars>>
  PROVE  TypeOK' /\ Loops' /\ Outside' /\ OnlyOneChangesMaxIter' /\ Decision' /\ Bounds'
<1>1. PICK l \in {"criterion", "claimWrite"} :
        /\ tpc[t] = "work" /\ spc[t] = "claim" /\ Goto(t, l)
        /\ mu_task' \in {mu_task, t}
        /\ word' \in [TaskIds -> SUBSET Slots]
        /\ UNCHANGED <<loc_iters, isAllTasksDone, lost, sumVars, k, found>>
  BY DEF Claim, At, Load, StopInv, TypeOK
<1>2. TypeOK'
  BY <1>1 DEF StopInv, TypeOK, Goto, SpcLabels, callVars, stopVars, bitVars, sumVars, gridVars
<1>3. Loops'
  BY <1>1 DEF StopInv, TypeOK, Goto, Loops, callVars, stopVars
<1> QED
  BY <1>1, <1>2, <1>3, SyncCommon

LEMMA ClaimWriteStop ==
  ASSUME StopInv, NEW t \in TaskIds, ClaimWrite(t), UNCHANGED <<callVars, stopVars>>
  PROVE  TypeOK' /\ Loops' /\ Outside' /\ OnlyOneChangesMaxIter' /\ Decision' /\ Bounds'
<1>1. tpc[t] = "work" /\ spc[t] = "claimWrite" /\ Goto(t, "sum")
  BY DEF ClaimWrite, At
<1>2. /\ isAllTasksDone' \in SUBSET Slots
      /\ word' \in [TaskIds -> SUBSET Slots] /\ lost' \in BOOLEAN
  BY IndType, PutBackType, StoresType DEF ClaimWrite, StopInv, TypeOK
<1>3. TypeOK'
  <2>1. /\ mu_task' = Free /\ global_res' = [global_res EXCEPT ![t] = {}]
        /\ UNCHANGED <<loc_iters, loc_res2, below, gridVars, reduced, k, found>>
    BY DEF ClaimWrite
  <2> QED
    BY <1>1, <1>2, <2>1 DEF StopInv, TypeOK, Goto, SpcLabels, callVars, stopVars, gridVars
<1>4. Loops'
  BY <1>1 DEF ClaimWrite, StopInv, TypeOK, Goto, Loops, callVars, stopVars
<1> QED
  BY <1>1, <1>3, <1>4, SyncCommon

LEMMA SumStop ==
  ASSUME StopInv, NEW t \in TaskIds, Sum(t), UNCHANGED <<callVars, stopVars>>
  PROVE  TypeOK' /\ Loops' /\ Outside' /\ OnlyOneChangesMaxIter' /\ Decision' /\ Bounds'
<1>1. tpc[t] = "work" /\ spc[t] = "sum" /\ Goto(t, "clear")
  BY DEF Sum, At
<1>2. loc_res2[k[t]][ind(t)] \in {Unwritten} \cup 0 .. maxBound
  BY IndType DEF StopInv, TypeOK
<1>3. global_res' \in [TaskIds -> SUBSET ({Unwritten} \cup 0 .. maxBound)]
  BY <1>2 DEF Sum, StopInv, TypeOK
<1>4. TypeOK'
  BY <1>1, <1>3 DEF Sum, StopInv, TypeOK, Goto, SpcLabels, callVars, stopVars,
     bitVars, sumVars, gridVars
<1>5. Loops'
  BY <1>1 DEF Sum, StopInv, TypeOK, Goto, Loops, callVars, stopVars
<1> QED
  BY <1>1, <1>4, <1>5, SyncCommon

LEMMA ClearStop ==
  ASSUME StopInv, NEW t \in TaskIds, Clear(t), UNCHANGED <<callVars, stopVars>>
  PROVE  TypeOK' /\ Loops' /\ Outside' /\ OnlyOneChangesMaxIter' /\ Decision' /\ Bounds'
<1>1. tpc[t] = "work" /\ spc[t] = "clearWrite" /\ Loop(t, "sum", "gridGres")
  BY DEF Clear, At
<1>2. PICK l \in {"sum", "gridGres"} :
        /\ Goto(t, l)
        /\ \/ l = "gridGres" /\ k' = [k EXCEPT ![t] = 0]
           \/ l = "sum" /\ k' = [k EXCEPT ![t] = k[t] + 1]
  BY <1>1, LoopFacts DEF StopInv
<1>3. /\ loc_iters' \in [TaskIds -> SUBSET Slots]
      /\ word' \in [TaskIds -> SUBSET Slots] /\ lost' \in BOOLEAN
  <2>1. k[t] \in TaskIds /\ loc_iters[k[t]] \in SUBSET Slots
    BY DEF StopInv, TypeOK
  <2>2. PutBack(t, loc_iters[k[t]]) \ {ind(t)} \in SUBSET Slots
    BY <2>1, PutBackType DEF StopInv
  <2> QED
    BY <2>1, <2>2, StoresType DEF Clear, StopInv, TypeOK
<1>4. TypeOK'
  <2>1. k' \in [TaskIds -> TaskIds]
    BY <1>1, LoopType DEF StopInv
  <2> QED
    BY <1>2, <1>3, <2>1 DEF Clear, StopInv, TypeOK, Goto, SpcLabels, callVars, stopVars,
     bitVars, sumVars, gridVars
<1>5. Loops'
  BY <1>1, <1>2 DEF Clear, StopInv, TypeOK, Goto, Loops, callVars, stopVars
<1> QED
  BY <1>1, <1>2, <1>4, <1>5, SyncCommon

LEMMA StoreGridStop ==
  ASSUME StopInv, NEW t \in TaskIds, StoreGres(t) \/ StoreIters(t),
         UNCHANGED <<callVars, stopVars>>
  PROVE  TypeOK' /\ Loops' /\ Outside' /\ OnlyOneChangesMaxIter' /\ Decision' /\ Bounds'
<1>1. PICK l \in {"gridIters", "release"} :
        /\ tpc[t] = "work" /\ spc[t] \in {"gridGres", "gridIters"} /\ Goto(t, l)
        /\ grid_gres_' \in {grid_gres_, global_res[t]}
        /\ grid_iters_' \in {grid_iters_, iter_number[t]}
        /\ below' \in [TaskIds -> BOOLEAN]
        /\ UNCHANGED <<bitVars, loc_res2, global_res, reduced, k, found, mu_task>>
  BY DEF StoreGres, StoreIters, Verdicts, At, StopInv, TypeOK
<1>2. TypeOK'
  BY <1>1 DEF StopInv, TypeOK, Goto, SpcLabels, callVars, stopVars, bitVars
<1>3. Loops'
  BY <1>1 DEF StopInv, TypeOK, Goto, Loops, callVars, stopVars
<1> QED
  BY <1>1, <1>2, <1>3, SyncCommon

LEMMA ReleaseStop ==
  ASSUME StopInv, NEW t \in TaskIds, Release(t), UNCHANGED <<callVars, stopVars>>
  PROVE  TypeOK' /\ Loops' /\ Outside' /\ OnlyOneChangesMaxIter' /\ Decision' /\ Bounds'
<1>1. tpc[t] = "work" /\ spc[t] = "releaseWrite" /\ Goto(t, "criterion")
  BY DEF Release, At
<1>2. /\ isAllTasksDone' \in SUBSET Slots
      /\ word' \in [TaskIds -> SUBSET Slots] /\ lost' \in BOOLEAN
  BY PutBackType, StoresType DEF Release, StopInv, TypeOK
<1>3. TypeOK'
  <2>1. iter_number[t] \in 0 .. maxBound /\ reduced \subseteq 0 .. maxBound
    BY DEF StopInv, TypeOK
  <2>2. reduced' \subseteq 0 .. maxBound
    BY <2>1 DEF Release
  <2>3. UNCHANGED <<loc_iters, loc_res2, global_res, below, gridVars, k, found, mu_task>>
    BY DEF Release
  <2> QED
    BY <1>1, <1>2, <2>2, <2>3 DEF StopInv, TypeOK, Goto, SpcLabels, callVars, stopVars, gridVars
<1>4. Loops'
  BY <1>1 DEF Release, StopInv, TypeOK, Goto, Loops, callVars, stopVars
<1> QED
  BY <1>1, <1>3, <1>4, SyncCommon

-----------------------------------------------------------------------------
(* The steps of the early stop, of the lambda around it, and the result. *)

LEMMA IsResTerCriMetStop ==
  ASSUME StopInv, NEW t \in TaskIds, IsResTerCriMet(t),
         UNCHANGED <<callVars, bitVars, sumVars, mu_task>>
  PROVE  TypeOK' /\ Loops' /\ Outside' /\ OnlyOneChangesMaxIter' /\ Decision' /\ Bounds'
<1>1. PICK l \in {"maxScan", "update"} :
        /\ tpc[t] = "work" /\ spc[t] = "criterion" /\ Goto(t, l)
        /\ \/ l = "maxScan" /\ ~resTermFlagSet /\ resTermFlagSet' = TRUE
           \/ l = "update" /\ resTermFlagSet' = resTermFlagSet
        /\ UNCHANGED <<maxIter, fault, k, found>>
  BY DEF IsResTerCriMet, At
<1>2. \A v \in TaskIds : spc'[v] = IF v = t THEN l ELSE spc[v]
  BY <1>1 DEF Goto, StopInv, TypeOK
<1>3. TypeOK'
  BY <1>1 DEF StopInv, TypeOK, Goto, SpcLabels, callVars, bitVars, sumVars, gridVars
<1>4. found[t] = 0 /\ k[t] = 0
  BY <1>1 DEF StopInv, Loops
<1>5. Loops'
  BY <1>1, <1>2, <1>4, Constants DEF StopInv, Loops
<1>6. Outside' /\ Bounds'
  BY <1>1, <1>2 DEF StopInv, Outside, Bounds, callVars
<1>7. OnlyOneChangesMaxIter' /\ Decision'
  BY <1>1, <1>2 DEF StopInv, OnlyOneChangesMaxIter, Decision, Deciding
<1> QED
  BY <1>3, <1>5, <1>6, <1>7

LEMMA MaxScanStop ==
  ASSUME StopInv, NEW t \in TaskIds, MaxScan(t),
         UNCHANGED <<callVars, bitVars, sumVars, mu_task>>
  PROVE  TypeOK' /\ Loops' /\ Outside' /\ OnlyOneChangesMaxIter' /\ Decision' /\ Bounds'
<1> DEFINE seen == iter_number[k[t]]
           max_iter == IF seen > found[t] THEN seen ELSE found[t]
<1>1. /\ tpc[t] = "work" /\ spc[t] = "maxScan"
      /\ UNCHANGED <<maxIter, resTermFlagSet>>
  BY DEF MaxScan, At
<1>2. max_iter \in 0 .. maxBound
  BY <1>1 DEF StopInv, TypeOK, Loops
<1>3. CASE fault' = AssertMaxIter /\ UNCHANGED <<k, found, spc>>
  BY <1>1, <1>3 DEF StopInv, TypeOK, Loops, Outside, OnlyOneChangesMaxIter, Decision,
                    Deciding, Bounds, callVars, bitVars, sumVars, gridVars
<1>4. CASE /\ Loop(t, "maxScan", "setMax")
           /\ found' = [found EXCEPT ![t] = IF k[t] = numTasks - 1 THEN 0 ELSE max_iter]
           /\ UNCHANGED fault
  <2> HIDE DEF max_iter
  <2>1. \/ k[t] = numTasks - 1 /\ k' = [k EXCEPT ![t] = 0] /\ Goto(t, "setMax")
        \/ /\ k[t] # numTasks - 1 /\ k[t] + 1 \in TaskIds
           /\ k' = [k EXCEPT ![t] = k[t] + 1] /\ Goto(t, "maxScan")
    BY <1>4, LoopFacts DEF StopInv
  <2>2. PICK l \in {"maxScan", "setMax"}, x \in 0 .. maxBound :
          /\ Goto(t, l) /\ found' = [found EXCEPT ![t] = x]
          /\ l = "setMax" => x = 0 /\ k' = [k EXCEPT ![t] = 0]
          /\ l = "maxScan" => k' = [k EXCEPT ![t] = k[t] + 1]
    <3>1. 0 \in 0 .. maxBound
      BY Constants
    <3>2. CASE k[t] = numTasks - 1
      BY <1>4, <2>1, <3>1, <3>2
    <3>3. CASE k[t] # numTasks - 1
      BY <1>2, <1>4, <2>1, <3>3
    <3> QED
      BY <3>2, <3>3
  <2>3. \A v \in TaskIds : spc'[v] = IF v = t THEN l ELSE spc[v]
    BY <2>2 DEF Goto, StopInv, TypeOK
  <2>4. TypeOK'
    <3>1. k' \in [TaskIds -> TaskIds]
      BY <1>4, LoopType DEF StopInv
    <3>2. found' \in [TaskIds -> 0 .. numTasks + maxBound]
      <4>1. x \in 0 .. numTasks + maxBound
        BY <2>2, Constants
      <4> QED
        BY <2>2, <4>1 DEF StopInv, TypeOK
    <3> QED
      BY <1>1, <1>4, <2>2, <3>1, <3>2
         DEF StopInv, TypeOK, Goto, SpcLabels, callVars, bitVars, sumVars, gridVars
  <2>5. Loops'
    BY <1>1, <2>2, <2>3 DEF StopInv, TypeOK, Loops
  <2>6. Outside' /\ Bounds'
    BY <1>1, <2>2, <2>3 DEF StopInv, Outside, Bounds, callVars
  <2>7. OnlyOneChangesMaxIter' /\ Decision'
    BY <1>1, <2>2, <2>3 DEF StopInv, OnlyOneChangesMaxIter, Decision, Deciding
  <2> QED
    BY <2>4, <2>5, <2>6, <2>7
<1> QED
  BY <1>3, <1>4 DEF MaxScan

\* All others are within numTasks iterations of the task that sets the bound.
LEMMA SetMaxStop ==
  ASSUME StopInv, NEW t \in TaskIds, SetMax(t),
         UNCHANGED <<callVars, bitVars, sumVars, mu_task>>
  PROVE  TypeOK' /\ Loops' /\ Outside' /\ OnlyOneChangesMaxIter' /\ Decision' /\ Bounds'
<1>1. /\ tpc[t] = "work" /\ spc[t] = "setMax" /\ Goto(t, "update")
      /\ maxIter' = iter_number[t] + numTasks
      /\ UNCHANGED <<resTermFlagSet, fault, k, found>>
  BY DEF SetMax, At
<1>2. \A v \in TaskIds : spc'[v] = IF v = t THEN "update" ELSE spc[v]
  BY <1>1 DEF Goto, StopInv, TypeOK
<1>3. /\ iter_number[t] \in Nat /\ iter_number[t] < startMaxIter /\ resTermFlagSet
  BY <1>1 DEF StopInv, TypeOK, Decision, Deciding, Bounds
<1>4. \A v \in TaskIds : iter_number[v] \in Nat /\ iter_number[v] < maxIter'
  BY <1>1, OrderFacts DEF StopInv
<1>5. TypeOK'
  <2>1. maxIter' \in 1 .. maxBound
    BY <1>1, <1>3, Constants
  <2> QED
    BY <1>1, <2>1 DEF StopInv, TypeOK, Goto, SpcLabels, callVars, bitVars, sumVars, gridVars
<1>6. Loops'
  BY <1>1, <1>2 DEF StopInv, Loops
<1>7. Outside' /\ Bounds'
  BY <1>1, <1>2, <1>4 DEF StopInv, Outside, Bounds, callVars
<1>8. OnlyOneChangesMaxIter' /\ Decision'
  BY <1>1, <1>2, <1>3 DEF StopInv, OnlyOneChangesMaxIter, Decision, Deciding
<1> QED
  BY <1>5, <1>6, <1>7, <1>8

LEMMA TestStop ==
  ASSUME StopInv, NEW t \in TaskIds, Test(t)
  PROVE  TypeOK' /\ Loops' /\ Outside' /\ OnlyOneChangesMaxIter' /\ Decision' /\ Bounds'
<1>1. PICK l \in {"up", "down", "work", "check", "finished"} :
        /\ iter_number' = iter_number
        /\ tpc' = [tpc EXCEPT ![t] = l] /\ tpc[t] # "work"
        /\ tpc[t] \in {"up", "down"} \/ l = "finished" \/ iter_number[t] < maxIter
        /\ UNCHANGED <<bitVars, sumVars, stopVars, spc, k, found, mu_task>>
  <2>1. iter_number[t] \in Nat /\ maxIter \in Nat
    BY Constants DEF StopInv, TypeOK
  <2> QED
    BY <2>1 DEF Test, Calls!ReadUp, Calls!ReadDown, Calls!HasFinishedIters, Calls!At, Calls!Step
<1>2. \A v \in TaskIds : tpc'[v] = IF v = t THEN l ELSE tpc[v]
  BY <1>1 DEF StopInv, TypeOK
<1>3. TypeOK'
  BY <1>1 DEF StopInv, TypeOK, stopVars, bitVars, sumVars, gridVars
<1>4. Loops' /\ OnlyOneChangesMaxIter' /\ Decision'
  BY <1>1 DEF StopInv, Loops, OnlyOneChangesMaxIter, Decision, Deciding, stopVars
<1>5. Outside' /\ Bounds'
  BY <1>1, <1>2 DEF StopInv, Outside, Bounds, stopVars
<1> QED
  BY <1>3, <1>4, <1>5

LEMMA SetPostCondsStop ==
  ASSUME StopInv, NEW t \in TaskIds, SetPostConds(t)
  PROVE  TypeOK' /\ Loops' /\ Outside' /\ OnlyOneChangesMaxIter' /\ Decision' /\ Bounds'
<1>1. /\ iter_number' = [iter_number EXCEPT ![t] = iter_number[t] + 1]
      /\ tpc[t] = "work" /\ tpc' = [tpc EXCEPT ![t] = "check"]
      /\ spc[t] = "update" /\ Goto(t, "residual")
      /\ UNCHANGED <<bitVars, sumVars, stopVars, k, found, mu_task>>
  BY DEF SetPostConds, At, Calls!SetPostConds, Calls!Step
<1>2. iter_number[t] \in Nat /\ iter_number[t] < maxIter /\ maxIter \in 0 .. maxBound
  BY <1>1, Constants DEF StopInv, TypeOK, Bounds
<1>3. iter_number[t] + 1 \in 0 .. maxBound /\ iter_number[t] + 1 <= maxIter
  BY <1>2, Constants
<1>4. \A v \in TaskIds : /\ spc'[v] = IF v = t THEN "residual" ELSE spc[v]
                         /\ tpc'[v] = IF v = t THEN "check" ELSE tpc[v]
                         /\ iter_number'[v] = IF v = t THEN iter_number[t] + 1 ELSE iter_number[v]
  BY <1>1 DEF Goto, StopInv, TypeOK
<1>5. TypeOK'
  BY <1>1, <1>3 DEF StopInv, TypeOK, Goto, SpcLabels, stopVars, bitVars, sumVars, gridVars
<1>6. Loops' /\ OnlyOneChangesMaxIter' /\ Decision'
  BY <1>1, <1>4 DEF StopInv, Loops, OnlyOneChangesMaxIter, Decision, Deciding, stopVars
<1>7. Outside' /\ Bounds'
  BY <1>1, <1>3, <1>4 DEF StopInv, Outside, Bounds, stopVars
<1> QED
  BY <1>5, <1>6, <1>7

LEMMA NextStop == StopInv /\ [Next]_vars => StopInv'
<1> SUFFICES ASSUME StopInv, [Next]_vars PROVE StopInv'
  OBVIOUS
<1>1. Order'
  BY Steps DEF StopInv
<1>2. CASE UNCHANGED vars
  <2>1. UNCHANGED <<callVars, bitVars, sumVars, stopVars, spc, k, found, mu_task>>
    BY <1>2 DEF vars
  <2>2. TypeOK'
    BY <2>1 DEF StopInv, TypeOK, callVars, bitVars, sumVars, stopVars, gridVars
  <2> QED
    BY <1>1, <2>1, <2>2 DEF StopInv, Loops, Outside, OnlyOneChangesMaxIter, Decision,
       Deciding, Bounds, callVars, stopVars
<1>3. ASSUME NEW t \in TaskIds, Test(t) PROVE StopInv'
  BY <1>1, <1>3, TestStop DEF StopInv
<1>4. ASSUME NEW t \in TaskIds, SyncStep(t) PROVE StopInv'
  BY <1>1, <1>4, StoreResidualStop, LoadWordStop, MarkStop, ScanStop, ClaimStop,
     ClaimWriteStop, SumStop, ClearStop, StoreGridStop, ReleaseStop DEF SyncStep, StopInv
<1>5. ASSUME NEW t \in TaskIds, StopStep(t) PROVE StopInv'
  BY <1>1, <1>5, IsResTerCriMetStop, MaxScanStop, SetMaxStop DEF StopStep, StopInv
<1>6. ASSUME NEW t \in TaskIds, SetPostConds(t) PROVE StopInv'
  BY <1>1, <1>6, SetPostCondsStop DEF StopInv
<1> QED
  BY <1>2, <1>3, <1>4, <1>5, <1>6 DEF Next, Task

LEMMA StopInvariance == Spec => []StopInv
BY InitStop, NextStop, PTL DEF Spec

(***************************************************************************)
(* Types: in particular, the bound of the iterations stays in              *)
(* 1 .. startMaxIter + numTasks - 1, however late it is changed.           *)
(***************************************************************************)
THEOREM TypeCorrect == Spec => []TypeOK
BY StopInvariance, PTL DEF StopInv

(***************************************************************************)
(* "safe condition" (task.cpp:890) is right: no task is ever past the      *)
(* bound, even if marks are lost and iterations are reduced out of order.  *)
(***************************************************************************)
THEOREM BoundIsSafe == Spec => []SafeCondition
<1>1. StopInv => SafeCondition
  BY DEF StopInv, Bounds, SafeCondition
<1> QED
  BY <1>1, StopInvariance, PTL

Stencil == INSTANCE StencilOrder WITH lastIter <- maxBound

(***************************************************************************)
(* The early stop does not disturb the order of the strips: although the   *)
(* bound changes while others read it, the tasks do what StencilOrder      *)
(* allows them within the first maxBound iterations.                       *)
(***************************************************************************)
THEOREM ImplementsOrder == Spec => Stencil!Spec
<1>1. Init => Stencil!Init
  BY DEF Init, Calls!Init, Calls!TaskIds, Stencil!Init, Stencil!TaskIds
<1>2. StopInv /\ [Next]_vars => [Stencil!Next]_iter_number
  <2> SUFFICES ASSUME StopInv, [Next]_vars, iter_number' # iter_number
               PROVE  \E t \in TaskIds : Stencil!Iterate(t)
    BY DEF Stencil!Next, Stencil!TaskIds, TaskIds
  <2>1. PICK t \in TaskIds : SetPostConds(t)
    BY DEF Next, Task, Test, SyncStep, StopStep, Calls!ReadUp, Calls!ReadDown,
           Calls!HasFinishedIters, callVars, vars
  <2>2. /\ tpc[t] = "work"
        /\ iter_number' = [iter_number EXCEPT ![t] = @ + 1]
    BY <2>1 DEF SetPostConds, Calls!SetPostConds, Calls!At
  <2>3. iter_number[t] < maxBound
    <3>1. maxIter \in 1 .. maxBound /\ iter_number[t] \in 0 .. maxBound
      BY DEF StopInv, TypeOK
    <3>2. iter_number[t] < maxIter
      BY <2>2 DEF StopInv, Bounds
    <3> QED
      BY <3>1, <3>2, Constants
  <2>4. \A u \in {t - 1, t + 1} \cap TaskIds : iter_number[t] <= iter_number[u]
    BY <2>2, SameIds DEF StopInv, Order, CallProofs!Order, CallProofs!WorkOK
  <2> QED
    BY <2>2, <2>3, <2>4 DEF Stencil!Iterate, Stencil!Nbrs, Stencil!TaskIds, TaskIds
<1> QED
  BY <1>1, <1>2, StopInvariance, PTL DEF Spec, Stencil!Spec

(***************************************************************************)
(* changeMaxIter is run by one task only, whatever the marks do.           *)
(***************************************************************************)
THEOREM OneChanger == Spec => []OnlyOneChangesMaxIter
BY StopInvariance, PTL DEF StopInv

-----------------------------------------------------------------------------
(* The ring of slots, as long as no bit was lost. *)

Slot(n) == n % numTasks

\* The two halves of the write of a bit are one, unless somebody came between.
LEMMA NotLost ==
  ASSUME NEW t, NEW bits, Stores(t, bits), ~lost'
  PROVE  PutBack(t, bits) = bits
BY DEF Stores

LEMMA SlotType == ASSUME NEW n \in Nat PROVE Slot(n) \in Slots
BY Constants DEF Slot, Slots

LEMMA DivMod ==
  ASSUME NEW a \in Nat, NEW n \in Nat \ {0}
  PROVE  a \div n \in Nat /\ a % n \in Nat /\ a = n * (a \div n) + (a % n)
OBVIOUS

\* Iterations less than numTasks apart have different slots.
LEMMA SlotsDiffer ==
  ASSUME NEW a \in Nat, NEW b \in Nat, Slot(a) = Slot(b),
         a < b + numTasks, b < a + numTasks
  PROVE  a = b
<1> DEFINE N == numTasks
           p == a \div N
           q == b \div N
           r == a % N
<1>1. N \in Nat \ {0}
  BY Constants
<1>2. p \in Nat /\ q \in Nat /\ r \in Nat /\ a = N * p + r /\ b = N * q + (b % N)
  BY <1>1, DivMod
<1>3. b = N * q + r
  BY <1>2 DEF Slot
<1> HIDE DEF p, q, r, N
<1>4. ~(p < q)
  <2> SUFFICES ASSUME p < q PROVE FALSE
    OBVIOUS
  <2>1. PICK d \in Nat : q = p + 1 + d
    <3>1. q - p - 1 \in Nat /\ q = p + 1 + (q - p - 1)
      BY <1>2
    <3> QED
      BY <3>1
  <2>2. N * q = N * p + N + N * d /\ N * d \in Nat /\ N * p \in Nat
    BY <1>1, <1>2, <2>1
  <2>3. b >= a + N
    BY <1>1, <1>2, <1>3, <2>2
  <2> QED
    BY <1>1, <2>3 DEF N
<1>5. ~(q < p)
  <2> SUFFICES ASSUME q < p PROVE FALSE
    OBVIOUS
  <2>1. PICK d \in Nat : p = q + 1 + d
    <3>1. p - q - 1 \in Nat /\ p = q + 1 + (p - q - 1)
      BY <1>2
    <3> QED
      BY <3>1
  <2>2. N * p = N * q + N + N * d /\ N * d \in Nat /\ N * q \in Nat
    BY <1>1, <1>2, <2>1
  <2>3. a >= b + N
    BY <1>1, <1>2, <1>3, <2>2
  <2> QED
    BY <1>1, <2>3 DEF N
<1> QED
  BY <1>2, <1>3, <1>4, <1>5

Reducing(t) ==
  spc[t] \in {"sum", "clear", "clearWrite", "gridGres", "gridIters", "release", "releaseWrite"}

OneReducer == \A t, v \in TaskIds : Reducing(t) /\ Reducing(v) => t = v

\* Task u has marked the iterations before Marks(u).
Marks(u) ==
  IF spc[u] \in {"residual", "mark", "markWrite"} THEN iter_number[u] ELSE iter_number[u] + 1

AllMarked(n) == \A u \in TaskIds : n < Marks(u)

\* A task that has seen all marks of its iteration, and has not given up.
Engaged(t) == spc[t] \in {"claim", "claimWrite"} \/ Reducing(t)

\* ... or that still counts and has missed none.
Counting(t) == spc[t] = "scan" /\ found[t] = k[t]

\* A mark that is set belongs to an iteration not reduced yet.
MarkOK ==
  \A u \in TaskIds : \A s \in loc_iters[u] :
    \E n \in Nat : Slot(n) = s /\ n < Marks(u) /\ n \notin reduced

CountOK ==
  \A t \in TaskIds :
    /\ Counting(t) => \A u \in TaskIds : u < k[t] => iter_number[t] < Marks(u)
    /\ Engaged(t) => AllMarked(iter_number[t])

\* Only the reducer of an iteration takes its marks away.
Kept ==
  \A u \in TaskIds, n \in Nat :
    n < Marks(u) /\ n \notin reduced =>
      \/ Slot(n) \in loc_iters[u]
      \/ \E r \in TaskIds : Reducing(r) /\ iter_number[r] = n

\* An iteration that all have marked is reduced or about to be.
Pending ==
  \A n \in Nat :
    AllMarked(n) /\ n \notin reduced =>
      \E w \in TaskIds : iter_number[w] = n /\ (Engaged(w) \/ Counting(w))

ReducedOK == \A n \in reduced : AllMarked(n)

Flags ==
  /\ \A s \in isAllTasksDone : \E r \in TaskIds : Reducing(r) /\ Slot(iter_number[r]) = s
  /\ \A r \in TaskIds : Reducing(r) => Slot(iter_number[r]) \in isAllTasksDone
  /\ \A t \in TaskIds : spc[t] = "claimWrite" =>
       mu_task = t /\ Slot(iter_number[t]) \notin isAllTasksDone

\* A slot keeps its residual until the task comes round again.
Stored ==
  \A u \in TaskIds, n \in Nat :
    /\ n < iter_number[u] \/ (n = iter_number[u] /\ spc[u] # "residual")
    /\ iter_number[u] < n + numTasks
    => loc_res2[u][Slot(n)] = n

Sums ==
  \A r \in TaskIds : Reducing(r) =>
    global_res[r] = IF spc[r] = "sum" /\ k[r] = 0 THEN {} ELSE {iter_number[r]}

Cleared ==
  \A r, u \in TaskIds : Reducing(r) =>
    \/ spc[r] \in {"sum", "clear", "clearWrite"} /\ u >= k[r]
    \/ Slot(iter_number[r]) \notin loc_iters[u]

GridOK ==
  /\ \A t \in TaskIds :
       /\ spc[t] \in {"gridIters", "release", "releaseWrite"} => grid_gres_ = {iter_number[t]}
       /\ spc[t] \in {"release", "releaseWrite"} => grid_iters_ = iter_number[t]
  /\ \A n \in reduced : n <= grid_iters_
  /\ (\A t \in TaskIds : spc[t] # "gridIters") /\ reduced # {} => grid_gres_ = {grid_iters_}

RingInv ==
  /\ MarkOK
  /\ CountOK
  /\ Kept
  /\ Pending
  /\ ReducedOK
  /\ Flags
  /\ OneReducer
  /\ Stored
  /\ Sums
  /\ Cleared
  /\ GridOK


LEMMA RingFacts ==
  ASSUME StopInv
  PROVE  /\ \A v \in TaskIds : /\ iter_number[v] \in Nat /\ Marks(v) \in Nat
                               /\ iter_number[v] <= Marks(v) /\ Marks(v) <= iter_number[v] + 1
                               /\ k[v] \in Nat /\ k[v] \in TaskIds /\ k[v] <= numTasks - 1
         /\ \A v, w \in TaskIds : iter_number[v] < iter_number[w] + numTasks
<1>1. iter_number \in [TaskIds -> Nat] /\ k \in [TaskIds -> TaskIds]
  BY OrderFacts DEF StopInv, TypeOK
<1>2. TaskIds = 0 .. numTasks - 1
  BY DEF TaskIds
<1>3. \A v \in TaskIds : k[v] \in Nat /\ k[v] \in TaskIds /\ k[v] <= numTasks - 1
  BY <1>1, <1>2, Constants
<1>4. \A v \in TaskIds : /\ iter_number[v] \in Nat /\ Marks(v) \in Nat
                         /\ iter_number[v] <= Marks(v) /\ Marks(v) <= iter_number[v] + 1
  BY <1>1 DEF Marks
<1> QED
  BY <1>3, <1>4, OrderFacts DEF StopInv

\* Two tasks that have seen all marks of their iterations are in the same one.
LEMMA SameIteration ==
  ASSUME StopInv, RingInv, NEW t \in TaskIds, NEW r \in TaskIds, Engaged(t), Engaged(r)
  PROVE  iter_number[t] = iter_number[r]
<1>1. /\ AllMarked(iter_number[t]) /\ AllMarked(iter_number[r])
      /\ iter_number[t] < Marks(r) /\ iter_number[r] < Marks(t)
  BY DEF RingInv, CountOK, AllMarked
<1> QED
  BY <1>1, RingFacts

\* An iteration that some task has not reduced is one that nobody may be
\* numTasks ahead of.
LEMMA NotReduced ==
  ASSUME StopInv, RingInv, NEW n \in Nat, n \notin reduced
  PROVE  /\ \E w \in TaskIds : iter_number[w] <= n
         /\ \A v \in TaskIds : iter_number[v] < n + numTasks
<1>1. \E w \in TaskIds : iter_number[w] <= n
  BY RingFacts DEF RingInv, Pending, AllMarked
<1> QED
  BY <1>1, RingFacts, Constants

Calm == {"residual", "mark", "markWrite", "criterion", "maxScan", "setMax", "update"}

\* A step that neither touches the ring nor goes in or out of the reduction.
LEMMA Frame ==
  ASSUME RingInv,
         UNCHANGED <<loc_iters, isAllTasksDone, global_res, gridVars, reduced, mu_task>>,
         \A v \in TaskIds : Marks(v)' = Marks(v),
         \A v \in TaskIds :
           \/ spc[v] \in Calm /\ spc'[v] \in Calm
           \/ /\ iter_number'[v] = iter_number[v] /\ k'[v] = k[v] /\ found'[v] = found[v]
              /\ \/ spc'[v] = spc[v]
                 \/ spc[v] = "clear" /\ spc'[v] = "clearWrite"
                 \/ spc[v] = "release" /\ spc'[v] = "releaseWrite"
  PROVE  /\ MarkOK' /\ CountOK' /\ Kept' /\ Pending' /\ ReducedOK' /\ Flags' /\ OneReducer'
         /\ Sums' /\ Cleared' /\ GridOK'
<1>1. \A v \in TaskIds : /\ Reducing(v)' <=> Reducing(v)
                         /\ Engaged(v)' <=> Engaged(v)
                         /\ Counting(v)' <=> Counting(v)
  BY DEF Reducing, Engaged, Counting, Calm
<1>2. \A v \in TaskIds : Engaged(v) \/ Counting(v) =>
        iter_number'[v] = iter_number[v] /\ k'[v] = k[v] /\ found'[v] = found[v]
  BY DEF Reducing, Engaged, Counting, Calm
<1>3. \A v \in TaskIds : Reducing(v) => Engaged(v)
  BY DEF Engaged
<1>4. \A n : AllMarked(n)' <=> AllMarked(n)
  BY DEF AllMarked
<1>5. MarkOK' /\ ReducedOK'
  BY <1>4 DEF RingInv, MarkOK, ReducedOK
<1>6. CountOK'
  BY <1>1, <1>2, <1>4 DEF RingInv, CountOK
<1>7. Kept' /\ Pending'
  BY <1>1, <1>2, <1>3, <1>4 DEF RingInv, Kept, Pending
<1>8. Flags' /\ OneReducer'
  <2>1. \A v \in TaskIds : spc'[v] = "claimWrite" => spc[v] = "claimWrite" /\ Engaged(v)
    BY DEF Engaged, Calm
  <2> QED
    BY <1>1, <1>2, <1>3, <2>1 DEF RingInv, Flags, OneReducer, Slot
<1>9. Sums' /\ Cleared'
  <2>1. \A v \in TaskIds : Reducing(v) =>
          /\ spc'[v] = "sum" <=> spc[v] = "sum"
          /\ spc[v] \in {"sum", "clear", "clearWrite"} <=> spc'[v] \in {"sum", "clear", "clearWrite"}
    BY DEF Reducing, Calm
  <2> QED
    BY <1>1, <1>2, <1>3, <2>1 DEF RingInv, Sums, Cleared, Slot
<1>10. GridOK'
  <2>1. \A v \in TaskIds :
          /\ spc'[v] = "gridIters" <=> spc[v] = "gridIters"
          /\ spc[v] \in {"release", "releaseWrite"} <=> spc'[v] \in {"release", "releaseWrite"}
          /\ spc[v] \in {"gridIters", "release", "releaseWrite"} => Reducing(v)
    BY DEF Reducing, Calm
  <2> QED
    BY <1>2, <1>3, <2>1 DEF RingInv, GridOK, gridVars
<1> QED
  BY <1>5, <1>6, <1>7, <1>8, <1>9, <1>10

\* The step of one task t to the label l.
LEMMA GotoFacts ==
  ASSUME StopInv, NEW t \in TaskIds, NEW l, Goto(t, l)
  PROVE  \A v \in TaskIds : spc'[v] = IF v = t THEN l ELSE spc[v]
BY DEF StopInv, TypeOK, Goto

\* Slots of the steps below, in terms of Slot.
LEMMA IndSlot == \A t : ind(t) = Slot(iter_number[t])
BY DEF ind, Slot

LEMMA KeepsStored ==
  ASSUME RingInv, UNCHANGED <<loc_res2, iter_number>>,
         \A v \in TaskIds : spc'[v] # "residual" => spc[v] # "residual"
  PROVE  Stored'
BY DEF RingInv, Stored, Slot

LEMMA StoreResidualRing ==
  ASSUME StopInv, RingInv, NEW t \in TaskIds, StoreResidual(t), UNCHANGED <<callVars, stopVars>>
  PROVE  RingInv'
<1>1. /\ spc[t] = "residual" /\ Goto(t, "mark") /\ UNCHANGED <<callVars, iter_number>>
      /\ loc_res2' = [loc_res2 EXCEPT ![t][Slot(iter_number[t])] = iter_number[t]]
      /\ UNCHANGED <<loc_iters, isAllTasksDone, global_res, gridVars, reduced, k, found,
                     word, mu_task>>
  BY IndSlot DEF StoreResidual, At, callVars, bitVars
<1>2. \A v \in TaskIds : spc'[v] = IF v = t THEN "mark" ELSE spc[v]
  BY <1>1, GotoFacts
<1>3. \A v \in TaskIds : Marks(v)' = Marks(v)
  BY <1>1, <1>2 DEF Marks
<1>4. Stored'
  <2> SUFFICES ASSUME NEW u \in TaskIds, NEW n \in Nat,
                      n < iter_number[u] \/ (n = iter_number[u] /\ spc'[u] # "residual"),
                      iter_number[u] < n + numTasks
               PROVE  loc_res2'[u][Slot(n)] = n
    BY <1>1 DEF Stored, Slot
  <2>1. /\ iter_number[t] \in Nat /\ loc_res2 \in [TaskIds -> [Slots -> {Unwritten} \cup 0 .. maxBound]]
        /\ Slot(iter_number[t]) \in Slots
    BY RingFacts, SlotType DEF StopInv, TypeOK
  <2>2. CASE u # t
    BY <1>1, <1>2, <2>1, <2>2 DEF RingInv, Stored
  <2>3. CASE u = t /\ n = iter_number[t]
    BY <1>1, <2>1, <2>3
  <2>4. CASE u = t /\ n < iter_number[t]
    <3>1. Slot(n) # Slot(iter_number[t])
      BY <2>1, <2>4, SlotsDiffer, Constants
    <3> QED
      BY <1>1, <2>1, <2>4, <3>1 DEF RingInv, Stored
  <2> QED
    BY <2>2, <2>3, <2>4
<1> QED
  <2>1. \A v \in TaskIds :
          \/ spc[v] \in Calm /\ spc'[v] \in Calm
          \/ /\ iter_number'[v] = iter_number[v] /\ k'[v] = k[v] /\ found'[v] = found[v]
             /\ spc'[v] = spc[v]
    BY <1>1, <1>2 DEF Calm
  <2> QED
    BY <1>1, <1>3, <1>4, <2>1, Frame DEF RingInv

LEMMA LoadWordRing ==
  ASSUME StopInv, RingInv, NEW t \in TaskIds, LoadWord(t), UNCHANGED <<callVars, stopVars>>
  PROVE  RingInv'
<1>1. PICK l \in {"markWrite", "clearWrite", "releaseWrite"} :
        /\ Goto(t, l)
        /\ l = "markWrite" => spc[t] = "mark"
        /\ l = "clearWrite" => spc[t] = "clear"
        /\ l = "releaseWrite" => spc[t] = "release"
        /\ UNCHANGED <<callVars, iter_number, loc_iters, isAllTasksDone, lost, sumVars, k, found,
                       mu_task>>
  BY DEF LoadWord, Load, At, callVars
<1>2. \A v \in TaskIds : spc'[v] = IF v = t THEN l ELSE spc[v]
  BY <1>1, GotoFacts
<1>3. \A v \in TaskIds : Marks(v)' = Marks(v)
  BY <1>1, <1>2 DEF Marks
<1>4. UNCHANGED <<loc_res2, loc_iters, isAllTasksDone, global_res, gridVars, reduced>>
  BY <1>1 DEF bitVars, sumVars
<1>5. Stored'
  <2>1. \A v \in TaskIds : spc'[v] # "residual" => spc[v] # "residual"
    BY <1>1, <1>2
  <2> QED
    BY <1>1, <1>4, <2>1, KeepsStored
<1>6. \A v \in TaskIds :
        \/ spc[v] \in Calm /\ spc'[v] \in Calm
        \/ /\ iter_number'[v] = iter_number[v] /\ k'[v] = k[v] /\ found'[v] = found[v]
           /\ \/ spc'[v] = spc[v]
              \/ spc[v] = "clear" /\ spc'[v] = "clearWrite"
              \/ spc[v] = "release" /\ spc'[v] = "releaseWrite"
  BY <1>1, <1>2 DEF Calm
<1> QED
  BY <1>1, <1>3, <1>4, <1>5, <1>6, Frame DEF RingInv

LEMMA MarkRing ==
  ASSUME ~lost', StopInv, RingInv, NEW t \in TaskIds, Mark(t),
         UNCHANGED <<callVars, stopVars>>
  PROVE  RingInv'
<1> DEFINE m == iter_number[t]
<1>1. /\ spc[t] = "markWrite" /\ Goto(t, "scan") /\ iter_number' = iter_number
      /\ loc_iters' = [loc_iters EXCEPT ![t] = loc_iters[t] \cup {Slot(m)}]
      /\ UNCHANGED <<loc_res2, isAllTasksDone, global_res, gridVars, reduced, k, found, mu_task>>
  BY IndSlot, NotLost DEF Mark, At, callVars, sumVars
<1>2. \A v \in TaskIds : spc'[v] = IF v = t THEN "scan" ELSE spc[v]
  BY <1>1, GotoFacts
<1>3. \A v \in TaskIds : loc_iters'[v] = IF v = t THEN loc_iters[t] \cup {Slot(m)} ELSE loc_iters[v]
  BY <1>1 DEF StopInv, TypeOK
<1>4. m \in Nat /\ Marks(t) = m /\ k[t] = 0 /\ found[t] = 0
  BY <1>1, RingFacts DEF StopInv, Loops, Marks
<1>5. \A v \in TaskIds : Marks(v)' = IF v = t THEN m + 1 ELSE Marks(v)
  BY <1>1, <1>2 DEF Marks
<1>6. \A n \in Nat : /\ AllMarked(n) => AllMarked(n)'
                     /\ AllMarked(n)' /\ n # m => AllMarked(n)
  BY <1>4, <1>5 DEF AllMarked
<1>7. \A v \in TaskIds : /\ Reducing(v)' <=> Reducing(v)
                         /\ Engaged(v)' <=> Engaged(v)
                         /\ Counting(v)' <=> v = t \/ Counting(v)
  BY <1>1, <1>2, <1>4 DEF Reducing, Engaged, Counting
<1>8. ~Engaged(t) /\ ~Reducing(t)
  BY <1>1 DEF Engaged, Reducing
<1>9. m \notin reduced
  BY <1>4 DEF RingInv, ReducedOK, AllMarked
<1>10. MarkOK'
  <2> SUFFICES ASSUME NEW u \in TaskIds, NEW s \in loc_iters'[u]
               PROVE  \E n \in Nat : Slot(n) = s /\ n < Marks(u)' /\ n \notin reduced
    BY <1>1 DEF MarkOK, Slot
  <2>1. CASE u = t /\ s = Slot(m)
    BY <1>4, <1>5, <1>9, <2>1
  <2>2. CASE s \in loc_iters[u]
    <3>1. PICK n \in Nat : Slot(n) = s /\ n < Marks(u) /\ n \notin reduced
      BY <2>2 DEF RingInv, MarkOK
    <3> QED
      BY <1>4, <1>5, <3>1
  <2> QED
    BY <1>3, <2>1, <2>2
<1>11. CountOK'
  <2>1. \A u, v \in TaskIds : u \in Nat /\ iter_number[v] \in Nat /\ k[v] \in Nat
    BY RingFacts DEF TaskIds
  <2>2. \A u \in TaskIds, n \in Nat : n < Marks(u) => n < Marks(u)'
    BY <1>4, <1>5
  <2> QED
    BY <1>1, <1>4, <1>6, <1>7, <2>1, <2>2 DEF RingInv, CountOK
<1>12. Kept'
  <2>1. \A u \in TaskIds, n \in Nat : n < Marks(u)' => n < Marks(u) \/ (u = t /\ n = m)
    BY <1>4, <1>5
  <2> QED
    BY <1>1, <1>3, <1>7, <2>1 DEF RingInv, Kept, Slot
<1>13. Pending'
  BY <1>1, <1>6, <1>7 DEF RingInv, Pending
<1>14. ReducedOK'
  <2>1. \A n \in reduced : n \in Nat
    BY Constants DEF StopInv, TypeOK
  <2> QED
    BY <1>1, <1>6, <2>1 DEF RingInv, ReducedOK
<1>15. Flags' /\ OneReducer'
  BY <1>1, <1>2, <1>7 DEF RingInv, Flags, OneReducer, Slot
<1>16. Stored' /\ Sums' /\ GridOK'
  <2>1. Stored'
    BY <1>1, <1>2, KeepsStored
  <2>2. Sums'
    BY <1>1, <1>2, <1>7, <1>8 DEF RingInv, Sums
  <2>3. GridOK'
    BY <1>1, <1>2 DEF RingInv, GridOK, gridVars
  <2> QED
    BY <2>1, <2>2, <2>3
<1>17. Cleared'
  <2>1. \A r \in TaskIds : Reducing(r) => Slot(iter_number[r]) # Slot(m)
    <3> SUFFICES ASSUME NEW r \in TaskIds, Reducing(r), Slot(iter_number[r]) = Slot(m)
                 PROVE  FALSE
      OBVIOUS
    <3>1. iter_number[r] = m
      BY RingFacts, SlotsDiffer
    <3>2. iter_number[r] < Marks(t)
      BY DEF RingInv, CountOK, Engaged, AllMarked
    <3> QED
      BY <1>4, <3>1, <3>2
  <2> QED
    BY <1>1, <1>2, <1>3, <1>7, <1>8, <2>1 DEF RingInv, Cleared, Slot
<1> QED
  BY <1>10, <1>11, <1>12, <1>13, <1>14, <1>15, <1>16, <1>17 DEF RingInv

\* A set mark of the slot of t's own iteration is the mark of that iteration.
LEMMA MarkMeans ==
  ASSUME StopInv, RingInv, NEW t \in TaskIds, NEW u \in TaskIds,
         Slot(iter_number[t]) \in loc_iters[u]
  PROVE  iter_number[t] < Marks(u)
<1>1. PICK n \in Nat : Slot(n) = Slot(iter_number[t]) /\ n < Marks(u) /\ n \notin reduced
  BY DEF RingInv, MarkOK
<1>2. iter_number[t] < n + numTasks /\ iter_number[t] \in Nat /\ Marks(u) \in Nat
  BY <1>1, NotReduced, RingFacts
<1>3. CASE n < iter_number[t]
  BY <1>1, <1>2, <1>3, SlotsDiffer, Constants
<1>4. CASE iter_number[t] <= n
  BY <1>1, <1>2, <1>4
<1> QED
  BY <1>2, <1>3, <1>4

LEMMA ScanRing ==
  ASSUME StopInv, RingInv, NEW t \in TaskIds, Scan(t), UNCHANGED <<callVars, stopVars>>
  PROVE  RingInv'
<1> DEFINE m == iter_number[t]
           isSet == Slot(m) \in loc_iters[k[t]]
           more == found[t] + (IF isSet THEN 1 ELSE 0)
           last == k[t] = numTasks - 1
           l == IF ~last THEN "scan" ELSE IF more = numTasks THEN "claim" ELSE "criterion"
<1>1. /\ spc[t] = "scan" /\ Goto(t, l) /\ iter_number' = iter_number
      /\ k' = [k EXCEPT ![t] = IF last THEN 0 ELSE k[t] + 1]
      /\ found' = [found EXCEPT ![t] = IF last THEN 0 ELSE more]
      /\ UNCHANGED <<loc_res2, loc_iters, isAllTasksDone, global_res, gridVars, reduced, mu_task>>
  <2>1. Loop(t, "scan", IF more = numTasks THEN "claim" ELSE "criterion")
    BY IndSlot DEF Scan
  <2>2. Goto(t, l) /\ k' = [k EXCEPT ![t] = IF last THEN 0 ELSE k[t] + 1]
    BY <2>1, LoopFacts DEF StopInv
  <2> QED
    BY <2>2, IndSlot DEF Scan, At, callVars, bitVars, sumVars
<1>2. /\ \A v \in TaskIds : spc'[v] = IF v = t THEN l ELSE spc[v]
      /\ \A v \in TaskIds : k'[v] = IF v # t THEN k[v] ELSE IF last THEN 0 ELSE k[t] + 1
      /\ \A v \in TaskIds : found'[v] = IF v # t THEN found[v] ELSE IF last THEN 0 ELSE more
  BY <1>1, GotoFacts DEF StopInv, TypeOK
<1>3. /\ k[t] \in Nat /\ k[t] \in TaskIds /\ k[t] <= numTasks - 1
      /\ found[t] \in Nat /\ found[t] <= k[t]
  <2>1. k[t] \in Nat /\ k[t] \in TaskIds /\ k[t] <= numTasks - 1
    BY RingFacts
  <2> QED
    BY <1>1, <2>1 DEF StopInv, Loops
<1>4. isSet => m < Marks(k[t])
  BY <1>3, MarkMeans
<1>5. l \in {"scan", "claim", "criterion"}
  OBVIOUS
\* Who has missed no mark so far, and misses none now, has seen the marks of all.
<1>6. l = "claim" \/ (l = "scan" /\ more = k[t] + 1) =>
        Counting(t) /\ isSet /\ \A u \in TaskIds : u <= k[t] => m < Marks(u)
  <2> SUFFICES ASSUME l = "claim" \/ (l = "scan" /\ more = k[t] + 1)
               PROVE  Counting(t) /\ isSet /\ \A u \in TaskIds : u <= k[t] => m < Marks(u)
    OBVIOUS
  <2>1. found[t] = k[t] /\ isSet
    BY <1>3, Constants
  <2>2. Counting(t)
    BY <1>1, <2>1 DEF Counting
  <2>3. \A u \in TaskIds : u < k[t] => m < Marks(u)
    BY <2>2 DEF RingInv, CountOK
  <2>4. \A u \in TaskIds : u <= k[t] => u < k[t] \/ u = k[t]
    BY <1>3 DEF TaskIds
  <2> QED
    BY <1>4, <2>1, <2>2, <2>3, <2>4
\* Who counts without having missed a mark, and finds the next one, still does.
<1>7. Counting(t) /\ isSet => l = "claim" \/ (l = "scan" /\ more = k[t] + 1)
  BY <1>3, Constants DEF Counting
<1> HIDE DEF isSet, l
<1>8. \A v \in TaskIds : /\ Marks(v)' = Marks(v)
                         /\ Reducing(v)' <=> Reducing(v)
                         /\ v # t => (Engaged(v)' <=> Engaged(v)) /\ (Counting(v)' <=> Counting(v))
                         /\ ~Engaged(t) /\ (Engaged(t)' <=> l = "claim")
  BY <1>1, <1>2, <1>5 DEF Marks, Reducing, Engaged, Counting
<1>9. Counting(t)' <=> (l = "scan" /\ more = k[t] + 1)
  <2>1. l = "scan" => ~last
    BY DEF l
  <2> QED
    BY <1>1, <1>2, <1>3, <2>1 DEF Counting
<1> HIDE DEF more, last
<1>10. \A n : AllMarked(n)' <=> AllMarked(n)
  BY <1>8 DEF AllMarked
<1>11. l = "claim" => AllMarked(m)
  <2>1. l = "claim" => k[t] = numTasks - 1
    BY DEF l, last
  <2>2. \A u \in TaskIds : u <= numTasks - 1
    BY Constants DEF TaskIds
  <2> QED
    BY <1>6, <2>1, <2>2 DEF AllMarked
<1>12. MarkOK' /\ Kept' /\ ReducedOK'
  BY <1>1, <1>8, <1>10 DEF RingInv, MarkOK, Kept, ReducedOK, Slot
<1>13. CountOK'
  <2> SUFFICES ASSUME NEW v \in TaskIds
               PROVE  /\ Counting(v)' => \A u \in TaskIds : u < k'[v] => iter_number[v] < Marks(u)
                      /\ Engaged(v)' => AllMarked(iter_number[v])
    BY <1>1, <1>8, <1>10 DEF CountOK
  <2>1. CASE v # t
    BY <1>2, <1>8, <2>1 DEF RingInv, CountOK
  <2>2. CASE v = t
    <3>1. Counting(t)' => \A u \in TaskIds : u < k'[t] => m < Marks(u)
      <4>1. SUFFICES ASSUME l = "scan" /\ more = k[t] + 1, NEW u \in TaskIds, u < k'[t]
                     PROVE  m < Marks(u)
        BY <1>9
      <4>2. k'[t] = k[t] + 1
        BY <1>2, <4>1 DEF l, last
      <4>3. u <= k[t]
        BY <1>3, <4>1, <4>2 DEF TaskIds
      <4> QED
        BY <1>6, <4>1, <4>3
    <3> QED
      BY <1>8, <1>11, <2>2, <3>1
  <2> QED
    BY <2>1, <2>2
<1>14. Pending'
  <2> SUFFICES ASSUME NEW n \in Nat, AllMarked(n), n \notin reduced
               PROVE  \E w \in TaskIds : iter_number[w] = n /\ (Engaged(w)' \/ Counting(w)')
    BY <1>1, <1>10 DEF Pending
  <2>1. PICK w \in TaskIds : iter_number[w] = n /\ (Engaged(w) \/ Counting(w))
    BY DEF RingInv, Pending
  <2>2. CASE w # t
    BY <1>8, <2>1, <2>2
  <2>3. CASE w = t /\ isSet
    BY <1>7, <1>8, <1>9, <2>1, <2>3
  <2>4. CASE w = t /\ ~isSet
    <3>1. n < Marks(k[t]) /\ Slot(n) \notin loc_iters[k[t]]
      BY <1>3, <2>1, <2>4 DEF AllMarked, isSet
    <3>2. PICK r \in TaskIds : Reducing(r) /\ iter_number[r] = n
      BY <1>3, <3>1 DEF RingInv, Kept
    <3>3. r # t /\ Engaged(r)
      BY <1>8, <3>2 DEF Engaged
    <3> QED
      BY <1>8, <3>2, <3>3
  <2> QED
    BY <2>2, <2>3, <2>4
<1>15. Flags' /\ OneReducer'
  <2>1. \A v \in TaskIds : spc'[v] = "claimWrite" => spc[v] = "claimWrite"
    BY <1>2, <1>5
  <2> QED
    BY <1>1, <1>8, <2>1 DEF RingInv, Flags, OneReducer, Slot
<1>16. Stored'
  <2>1. \A v \in TaskIds : spc'[v] # "residual" => spc[v] # "residual"
    BY <1>1, <1>2
  <2> QED
    BY <1>1, <2>1, KeepsStored
<1>17. Sums' /\ Cleared' /\ GridOK'
  <2>1. \A v \in TaskIds : Reducing(v) => v # t
    BY <1>1 DEF Reducing
  <2>2. Sums' /\ Cleared'
    BY <1>1, <1>2, <1>8, <2>1 DEF RingInv, Sums, Cleared, Slot
  <2>3. GridOK'
    BY <1>1, <1>2, <1>5 DEF RingInv, GridOK, gridVars
  <2> QED
    BY <2>2, <2>3
<1> QED
  BY <1>12, <1>13, <1>14, <1>15, <1>16, <1>17 DEF RingInv

LEMMA ClaimRing ==
  ASSUME StopInv, RingInv, NEW t \in TaskIds, Claim(t), UNCHANGED <<callVars, stopVars>>
  PROVE  RingInv'
<1> DEFINE m == iter_number[t]
           taken == Slot(m) \in isAllTasksDone
           l == IF taken THEN "criterion" ELSE "claimWrite"
<1>1. /\ spc[t] = "claim" /\ mu_task = Free /\ Goto(t, l) /\ iter_number' = iter_number
      /\ mu_task' = IF taken THEN mu_task ELSE t
      /\ UNCHANGED <<loc_res2, loc_iters, isAllTasksDone, global_res, gridVars, reduced, k, found>>
  BY IndSlot DEF Claim, At, Load, callVars, bitVars, sumVars
<1>2. \A v \in TaskIds : spc'[v] = IF v = t THEN l ELSE spc[v]
  BY <1>1, GotoFacts
<1>3. l = "claimWrite" <=> ~taken
  OBVIOUS
<1>4. l \in {"criterion", "claimWrite"}
  OBVIOUS
<1>5. Engaged(t) /\ ~Reducing(t) /\ ~Counting(t)
  BY <1>1 DEF Engaged, Reducing, Counting
<1> HIDE DEF l
<1>6. \A v \in TaskIds : /\ Marks(v)' = Marks(v)
                         /\ Reducing(v)' <=> Reducing(v)
                         /\ Counting(v)' <=> Counting(v)
                         /\ Engaged(v)' <=> Engaged(v) /\ (v # t \/ ~taken)
  BY <1>1, <1>2, <1>3, <1>4, <1>5 DEF Marks, Reducing, Engaged, Counting
<1>7. \A n : AllMarked(n)' <=> AllMarked(n)
  BY <1>6 DEF AllMarked
<1>8. MarkOK' /\ Kept' /\ ReducedOK' /\ CountOK'
  BY <1>1, <1>6, <1>7 DEF RingInv, MarkOK, Kept, ReducedOK, CountOK, Slot
\* If t gives up, whoever has set the flag reduces the iteration of t.
<1>9. Pending'
  <2> SUFFICES ASSUME NEW n \in Nat, AllMarked(n), n \notin reduced
               PROVE  \E w \in TaskIds : iter_number[w] = n /\ (Engaged(w)' \/ Counting(w)')
    BY <1>1, <1>7 DEF Pending
  <2>1. PICK w \in TaskIds : iter_number[w] = n /\ (Engaged(w) \/ Counting(w))
    BY DEF RingInv, Pending
  <2>2. CASE w # t \/ ~taken
    BY <1>6, <2>1, <2>2
  <2>3. CASE w = t /\ taken
    <3>1. PICK r \in TaskIds : Reducing(r) /\ Slot(iter_number[r]) = Slot(m)
      BY <2>3 DEF RingInv, Flags
    <3>2. Engaged(r) /\ r # t
      BY <1>5, <3>1 DEF Engaged
    <3>3. iter_number[r] = m
      BY <1>5, <3>2, SameIteration
    <3> QED
      BY <1>6, <2>1, <2>3, <3>2, <3>3
  <2> QED
    BY <2>2, <2>3
<1>10. Flags' /\ OneReducer'
  <2>1. \A v \in TaskIds : v \in Int
    BY DEF TaskIds
  <2>2. \A v \in TaskIds : spc[v] # "claimWrite"
    BY <1>1, <2>1, Constants DEF RingInv, Flags, Free, TaskIds
  <2>3. \A v \in TaskIds : spc'[v] = "claimWrite" => v = t /\ ~taken
    BY <1>2, <1>3, <2>2
  <2> QED
    BY <1>1, <1>6, <2>3 DEF RingInv, Flags, OneReducer, Slot
<1>11. Stored'
  <2>1. \A v \in TaskIds : spc'[v] # "residual" => spc[v] # "residual"
    BY <1>1, <1>2
  <2> QED
    BY <1>1, <2>1, KeepsStored
<1>12. Sums' /\ Cleared' /\ GridOK'
  <2>1. \A v \in TaskIds : Reducing(v) => v # t
    BY <1>5
  <2>2. Sums' /\ Cleared'
    BY <1>1, <1>2, <1>6, <2>1 DEF RingInv, Sums, Cleared, Slot
  <2>3. GridOK'
    BY <1>1, <1>2, <1>4 DEF RingInv, GridOK, gridVars
  <2> QED
    BY <2>2, <2>3
<1> QED
  BY <1>8, <1>9, <1>10, <1>11, <1>12 DEF RingInv

LEMMA ClaimWriteRing ==
  ASSUME ~lost', StopInv, RingInv, NEW t \in TaskIds, ClaimWrite(t),
         UNCHANGED <<callVars, stopVars>>
  PROVE  RingInv'
<1> DEFINE m == iter_number[t]
<1>1. /\ spc[t] = "claimWrite" /\ Goto(t, "sum") /\ iter_number' = iter_number
      /\ isAllTasksDone' = isAllTasksDone \cup {Slot(m)}
      /\ mu_task' = Free
      /\ global_res' = [global_res EXCEPT ![t] = {}]
      /\ UNCHANGED <<loc_res2, loc_iters, gridVars, reduced, k, found>>
  BY IndSlot, NotLost DEF ClaimWrite, At, callVars
<1>2. /\ \A v \in TaskIds : spc'[v] = IF v = t THEN "sum" ELSE spc[v]
      /\ \A v \in TaskIds : global_res'[v] = IF v = t THEN {} ELSE global_res[v]
      /\ k[t] = 0
  BY <1>1, GotoFacts DEF StopInv, TypeOK, Loops
<1>3. Engaged(t) /\ ~Reducing(t) /\ ~Counting(t)
  BY <1>1 DEF Engaged, Reducing, Counting
<1>4. \A v \in TaskIds : /\ Marks(v)' = Marks(v)
                         /\ Reducing(v)' <=> v = t \/ Reducing(v)
                         /\ Counting(v)' <=> Counting(v)
                         /\ Engaged(v)' <=> Engaged(v)
  BY <1>1, <1>2, <1>3 DEF Marks, Reducing, Engaged, Counting
<1>5. \A n : AllMarked(n)' <=> AllMarked(n)
  BY <1>4 DEF AllMarked
\* The flag was not set when t looked, and nobody could set it since.
<1>6. \A r \in TaskIds : ~Reducing(r)
  <2> SUFFICES ASSUME NEW r \in TaskIds, Reducing(r) PROVE FALSE
    OBVIOUS
  <2>1. iter_number[r] = m
    BY <1>3, SameIteration DEF Engaged
  <2> QED
    BY <1>1, <2>1 DEF RingInv, Flags
<1>7. MarkOK' /\ Kept' /\ ReducedOK' /\ CountOK' /\ Pending'
  BY <1>1, <1>4, <1>5 DEF RingInv, MarkOK, Kept, ReducedOK, CountOK, Pending, Slot
<1>8. Flags'
  <2>1. \A v \in TaskIds : spc'[v] # "claimWrite"
    BY <1>1, <1>2 DEF RingInv, Flags
  <2> QED
    BY <1>1, <1>4, <1>6, <2>1 DEF RingInv, Flags, Slot
<1>9. OneReducer'
  BY <1>4, <1>6 DEF OneReducer
<1>10. Stored'
  <2>1. \A v \in TaskIds : spc'[v] # "residual" => spc[v] # "residual"
    BY <1>1, <1>2
  <2> QED
    BY <1>1, <2>1, KeepsStored
<1>11. Sums' /\ Cleared' /\ GridOK'
  <2>1. Sums'
    BY <1>1, <1>2, <1>4, <1>6 DEF RingInv, Sums
  <2>2. Cleared'
    <3>1. \A u \in TaskIds : u >= 0
      BY DEF TaskIds
    <3> QED
      BY <1>1, <1>2, <1>4, <1>6, <3>1 DEF Cleared
  <2>3. GridOK'
    BY <1>1, <1>2 DEF RingInv, GridOK, gridVars
  <2> QED
    BY <2>1, <2>2, <2>3
<1> QED
  BY <1>7, <1>8, <1>9, <1>10, <1>11 DEF RingInv

LEMMA SumRing ==
  ASSUME StopInv, RingInv, NEW t \in TaskIds, Sum(t), UNCHANGED <<callVars, stopVars>>
  PROVE  RingInv'
<1> DEFINE m == iter_number[t]
<1>1. /\ spc[t] = "sum" /\ Goto(t, "clear") /\ iter_number' = iter_number
      /\ global_res' = [global_res EXCEPT ![t] = global_res[t] \cup {loc_res2[k[t]][Slot(m)]}]
      /\ UNCHANGED <<loc_res2, loc_iters, isAllTasksDone, gridVars, reduced, k, found, mu_task>>
  BY IndSlot DEF Sum, At, callVars, bitVars
<1>2. /\ \A v \in TaskIds : spc'[v] = IF v = t THEN "clear" ELSE spc[v]
      /\ \A v \in TaskIds : global_res'[v] =
           IF v = t THEN global_res[t] \cup {loc_res2[k[t]][Slot(m)]} ELSE global_res[v]
  BY <1>1, GotoFacts DEF StopInv, TypeOK
<1>3. Reducing(t) /\ Engaged(t)
  BY <1>1 DEF Engaged, Reducing
<1>4. \A v \in TaskIds : /\ Marks(v)' = Marks(v)
                         /\ Reducing(v)' <=> Reducing(v)
                         /\ Counting(v)' <=> Counting(v)
                         /\ Engaged(v)' <=> Engaged(v)
  BY <1>1, <1>2 DEF Marks, Reducing, Engaged, Counting
<1>5. \A n : AllMarked(n)' <=> AllMarked(n)
  BY <1>4 DEF AllMarked
<1>6. MarkOK' /\ Kept' /\ ReducedOK' /\ CountOK' /\ Pending'
  BY <1>1, <1>4, <1>5 DEF RingInv, MarkOK, Kept, ReducedOK, CountOK, Pending, Slot
<1>7. Flags' /\ OneReducer'
  BY <1>1, <1>2, <1>4 DEF RingInv, Flags, OneReducer, Slot
<1>8. Stored'
  <2>1. \A v \in TaskIds : spc'[v] # "residual" => spc[v] # "residual"
    BY <1>1, <1>2
  <2> QED
    BY <1>1, <2>1, KeepsStored
\* The slot of every task still holds the residual of iteration m.
<1>9. loc_res2[k[t]][Slot(m)] = m
  <2>1. m < Marks(k[t]) /\ k[t] \in TaskIds
    BY <1>3, RingFacts DEF RingInv, CountOK, AllMarked
  <2>2. m < iter_number[k[t]] \/ (m = iter_number[k[t]] /\ spc[k[t]] # "residual")
    BY <2>1, RingFacts DEF Marks
  <2> QED
    BY <2>1, <2>2, RingFacts DEF RingInv, Stored
<1>10. Sums'
  BY <1>1, <1>2, <1>3, <1>4, <1>9 DEF RingInv, Sums
<1>11. Cleared' /\ GridOK'
  BY <1>1, <1>2, <1>4 DEF RingInv, Cleared, GridOK, gridVars, Slot
<1> QED
  BY <1>6, <1>7, <1>8, <1>10, <1>11 DEF RingInv


LEMMA ClearRing ==
  ASSUME ~lost', StopInv, RingInv, NEW t \in TaskIds, Clear(t),
         UNCHANGED <<callVars, stopVars>>
  PROVE  RingInv'
<1> DEFINE m == iter_number[t]
           last == k[t] = numTasks - 1
           l == IF last THEN "gridGres" ELSE "sum"
<1>1. /\ spc[t] = "clearWrite" /\ Goto(t, l) /\ iter_number' = iter_number
      /\ k' = [k EXCEPT ![t] = IF last THEN 0 ELSE k[t] + 1]
      /\ loc_iters' = [loc_iters EXCEPT ![k[t]] = loc_iters[k[t]] \ {Slot(m)}]
      /\ UNCHANGED <<loc_res2, isAllTasksDone, global_res, gridVars, reduced, found, mu_task>>
  <2>1. Loop(t, "sum", "gridGres")
    BY DEF Clear
  <2>2. Goto(t, l) /\ k' = [k EXCEPT ![t] = IF last THEN 0 ELSE k[t] + 1]
    BY <2>1, LoopFacts DEF StopInv
  <2> QED
    BY <2>2, IndSlot, NotLost DEF Clear, At, callVars, sumVars
<1>2. /\ k[t] \in Nat /\ k[t] \in TaskIds /\ k[t] <= numTasks - 1 /\ m \in Nat
      /\ l \in {"sum", "gridGres"}
      /\ l = "sum" => ~last
  BY RingFacts
<1>3. /\ \A v \in TaskIds : spc'[v] = IF v = t THEN l ELSE spc[v]
      /\ \A v \in TaskIds : k'[v] = IF v # t THEN k[v] ELSE IF last THEN 0 ELSE k[t] + 1
      /\ \A v \in TaskIds : loc_iters'[v] =
           IF v = k[t] THEN loc_iters[v] \ {Slot(m)} ELSE loc_iters[v]
  BY <1>1, GotoFacts DEF StopInv, TypeOK
<1>4. Reducing(t) /\ Engaged(t)
  BY <1>1 DEF Engaged, Reducing
<1> HIDE DEF l
<1>5. \A v \in TaskIds : /\ Marks(v)' = Marks(v)
                         /\ Reducing(v)' <=> Reducing(v)
                         /\ Counting(v)' <=> Counting(v)
                         /\ Engaged(v)' <=> Engaged(v)
  BY <1>1, <1>2, <1>3 DEF Marks, Reducing, Engaged, Counting
<1>6. \A n : AllMarked(n)' <=> AllMarked(n)
  BY <1>5 DEF AllMarked
<1>7. MarkOK'
  <2>1. \A u \in TaskIds : \A s \in loc_iters'[u] : s \in loc_iters[u]
    BY <1>3
  <2> QED
    BY <1>1, <1>5, <2>1 DEF RingInv, MarkOK, Slot
<1>8. ReducedOK' /\ Pending'
  BY <1>1, <1>5, <1>6 DEF RingInv, ReducedOK, Pending
<1>9. CountOK'
  <2>1. \A v \in TaskIds : Counting(v) => v # t
    BY <1>1 DEF Counting
  <2> QED
    BY <1>1, <1>3, <1>5, <1>6, <2>1 DEF RingInv, CountOK
\* The mark cleared is that of the iteration being reduced: nobody is a round ahead.
<1>10. Kept'
  <2> SUFFICES ASSUME NEW u \in TaskIds, NEW n \in Nat, n < Marks(u), n \notin reduced
               PROVE  \/ Slot(n) \in loc_iters'[u]
                      \/ \E r \in TaskIds : Reducing(r) /\ iter_number[r] = n
    BY <1>1, <1>5 DEF Kept, Slot
  <2>1. CASE u # k[t] \/ Slot(n) # Slot(m)
    BY <1>3, <2>1 DEF RingInv, Kept
  <2>2. CASE u = k[t] /\ Slot(n) = Slot(m)
    <3>1. m < n + numTasks
      BY NotReduced
    <3>2. n < m + numTasks
      BY <1>2, RingFacts, Constants
    <3>3. n = m
      BY <1>2, <2>2, <3>1, <3>2, SlotsDiffer
    <3> QED
      BY <1>4, <3>3
  <2> QED
    BY <2>1, <2>2
<1>11. Flags' /\ OneReducer'
  <2>1. \A v \in TaskIds : spc'[v] = "claimWrite" => spc[v] = "claimWrite"
    BY <1>2, <1>3
  <2> QED
    BY <1>1, <1>5, <2>1 DEF RingInv, Flags, OneReducer, Slot
<1>12. Stored'
  <2>1. \A v \in TaskIds : spc'[v] # "residual" => spc[v] # "residual"
    BY <1>1, <1>3
  <2> QED
    BY <1>1, <2>1, KeepsStored
<1>13. Sums'
  <2>1. \A r \in TaskIds : Reducing(r) => r = t
    BY <1>4 DEF RingInv, OneReducer
  <2>2. ~(spc'[t] = "sum" /\ k'[t] = 0)
    BY <1>2, <1>3
  <2>3. global_res[t] = {m}
    BY <1>1, <1>4 DEF RingInv, Sums
  <2> QED
    BY <1>1, <1>5, <2>1, <2>2, <2>3 DEF Sums
<1>14. Cleared'
  <2> SUFFICES ASSUME NEW u \in TaskIds
               PROVE  \/ l = "sum" /\ u >= k[t] + 1
                      \/ Slot(m) \notin loc_iters'[u]
    <3>1. \A r \in TaskIds : Reducing(r) => r = t
      BY <1>4 DEF RingInv, OneReducer
    <3>2. l = "sum" => spc'[t] = "sum" /\ k'[t] = k[t] + 1
      BY <1>2, <1>3
    <3> QED
      BY <1>1, <1>5, <3>1, <3>2 DEF Cleared, Slot
  <2>1. u \in Int /\ u <= numTasks - 1
    BY Constants DEF TaskIds
  <2>2. CASE u = k[t]
    BY <1>3, <2>2
  <2>3. CASE u < k[t]
    <3>1. ~(u >= k[t])
      BY <1>2, <2>1, <2>3
    <3>2. Slot(m) \notin loc_iters[u]
      BY <1>4, <3>1 DEF RingInv, Cleared
    <3> QED
      BY <1>3, <3>2
  <2>4. CASE u > k[t]
    <3>1. k[t] # numTasks - 1
      BY <1>2, <2>1, <2>4, Constants
    <3>2. l = "sum"
      BY <3>1 DEF l
    <3> QED
      BY <1>2, <2>1, <2>4, <3>2
  <2> QED
    BY <1>2, <2>1, <2>2, <2>3, <2>4
<1>15. GridOK'
  BY <1>1, <1>2, <1>3 DEF RingInv, GridOK, gridVars
<1> QED
  BY <1>7, <1>8, <1>9, <1>10, <1>11, <1>12, <1>13, <1>14, <1>15 DEF RingInv

\* The only reducer is in the latest iteration of those that all have marked.
LEMMA ReducesLatest ==
  ASSUME StopInv, RingInv, NEW t \in TaskIds, Reducing(t), NEW n \in reduced
  PROVE  n <= iter_number[t]
<1>1. n < Marks(t) /\ n \in Nat
  BY Constants DEF RingInv, ReducedOK, AllMarked, StopInv, TypeOK
<1> QED
  BY <1>1, RingFacts

LEMMA StoreGresRing ==
  ASSUME StopInv, RingInv, NEW t \in TaskIds, StoreGres(t), UNCHANGED <<callVars, stopVars>>
  PROVE  RingInv'
<1>1. /\ spc[t] = "gridGres" /\ Goto(t, "gridIters") /\ iter_number' = iter_number
      /\ grid_gres_' = global_res[t]
      /\ UNCHANGED <<loc_res2, loc_iters, isAllTasksDone, global_res, grid_iters_, reduced,
                     k, found, mu_task>>
  BY DEF StoreGres, At, callVars, bitVars
<1>2. \A v \in TaskIds : spc'[v] = IF v = t THEN "gridIters" ELSE spc[v]
  BY <1>1, GotoFacts
<1>3. Reducing(t) /\ Engaged(t)
  BY <1>1 DEF Engaged, Reducing
<1>4. \A v \in TaskIds : /\ Marks(v)' = Marks(v)
                         /\ Reducing(v)' <=> Reducing(v)
                         /\ Counting(v)' <=> Counting(v)
                         /\ Engaged(v)' <=> Engaged(v)
  BY <1>1, <1>2 DEF Marks, Reducing, Engaged, Counting
<1>5. \A n : AllMarked(n)' <=> AllMarked(n)
  BY <1>4 DEF AllMarked
<1>6. MarkOK' /\ Kept' /\ ReducedOK' /\ CountOK' /\ Pending'
  BY <1>1, <1>4, <1>5 DEF RingInv, MarkOK, Kept, ReducedOK, CountOK, Pending, Slot
<1>7. Flags' /\ OneReducer'
  BY <1>1, <1>2, <1>4 DEF RingInv, Flags, OneReducer, Slot
<1>8. Stored'
  <2>1. \A v \in TaskIds : spc'[v] # "residual" => spc[v] # "residual"
    BY <1>1, <1>2
  <2> QED
    BY <1>1, <2>1, KeepsStored
<1>9. Sums' /\ Cleared'
  BY <1>1, <1>2, <1>4 DEF RingInv, Sums, Cleared, Slot
<1>10. GridOK'
  <2>1. global_res[t] = {iter_number[t]}
    BY <1>1, <1>3 DEF RingInv, Sums
  <2>2. \A v \in TaskIds : spc'[v] \in {"gridIters", "release", "releaseWrite"} => v = t
    BY <1>2, <1>3 DEF RingInv, OneReducer, Reducing
  <2> QED
    BY <1>1, <1>2, <2>1, <2>2 DEF RingInv, GridOK
<1> QED
  BY <1>6, <1>7, <1>8, <1>9, <1>10 DEF RingInv

LEMMA StoreItersRing ==
  ASSUME StopInv, RingInv, NEW t \in TaskIds, StoreIters(t), UNCHANGED <<callVars, stopVars>>
  PROVE  RingInv'
<1>1. /\ spc[t] = "gridIters" /\ Goto(t, "release") /\ iter_number' = iter_number
      /\ grid_iters_' = iter_number[t]
      /\ UNCHANGED <<loc_res2, loc_iters, isAllTasksDone, global_res, grid_gres_, reduced,
                     k, found, mu_task>>
  BY DEF StoreIters, At, callVars, bitVars
<1>2. \A v \in TaskIds : spc'[v] = IF v = t THEN "release" ELSE spc[v]
  BY <1>1, GotoFacts
<1>3. Reducing(t) /\ Engaged(t)
  BY <1>1 DEF Engaged, Reducing
<1>4. \A v \in TaskIds : /\ Marks(v)' = Marks(v)
                         /\ Reducing(v)' <=> Reducing(v)
                         /\ Counting(v)' <=> Counting(v)
                         /\ Engaged(v)' <=> Engaged(v)
  BY <1>1, <1>2 DEF Marks, Reducing, Engaged, Counting
<1>5. \A n : AllMarked(n)' <=> AllMarked(n)
  BY <1>4 DEF AllMarked
<1>6. MarkOK' /\ Kept' /\ ReducedOK' /\ CountOK' /\ Pending'
  BY <1>1, <1>4, <1>5 DEF RingInv, MarkOK, Kept, ReducedOK, CountOK, Pending, Slot
<1>7. Flags' /\ OneReducer'
  BY <1>1, <1>2, <1>4 DEF RingInv, Flags, OneReducer, Slot
<1>8. Stored'
  <2>1. \A v \in TaskIds : spc'[v] # "residual" => spc[v] # "residual"
    BY <1>1, <1>2
  <2> QED
    BY <1>1, <2>1, KeepsStored
<1>9. Sums' /\ Cleared'
  BY <1>1, <1>2, <1>4 DEF RingInv, Sums, Cleared, Slot
<1>10. GridOK'
  <2>1. \A n \in reduced : n <= iter_number[t]
    BY <1>3, ReducesLatest
  <2>2. \A v \in TaskIds : spc'[v] \in {"gridIters", "release", "releaseWrite"} => v = t
    BY <1>2, <1>3 DEF RingInv, OneReducer, Reducing
  <2>3. grid_gres_ = {iter_number[t]}
    BY <1>1 DEF RingInv, GridOK
  <2> QED
    BY <1>1, <1>2, <2>1, <2>2, <2>3 DEF GridOK
<1> QED
  BY <1>6, <1>7, <1>8, <1>9, <1>10 DEF RingInv

LEMMA ReleaseRing ==
  ASSUME ~lost', StopInv, RingInv, NEW t \in TaskIds, Release(t),
         UNCHANGED <<callVars, stopVars>>
  PROVE  RingInv'
<1> DEFINE m == iter_number[t]
<1>1. /\ spc[t] = "releaseWrite" /\ Goto(t, "criterion") /\ iter_number' = iter_number
      /\ isAllTasksDone' = isAllTasksDone \ {Slot(m)}
      /\ reduced' = reduced \cup {m}
      /\ UNCHANGED <<loc_res2, loc_iters, global_res, gridVars, k, found, mu_task>>
  BY IndSlot, NotLost DEF Release, At, callVars
<1>2. \A v \in TaskIds : spc'[v] = IF v = t THEN "criterion" ELSE spc[v]
  BY <1>1, GotoFacts
<1>3. Reducing(t) /\ Engaged(t) /\ m \in Nat
  BY <1>1, RingFacts DEF Engaged, Reducing
<1>4. \A v \in TaskIds : /\ Marks(v)' = Marks(v)
                         /\ ~Reducing(v)'
                         /\ Counting(v)' <=> Counting(v)
                         /\ Engaged(v)' <=> Engaged(v) /\ v # t
  <2>1. \A v \in TaskIds : Reducing(v) => v = t
    BY <1>3 DEF RingInv, OneReducer
  <2>2. \A v \in TaskIds : /\ Marks(v)' = Marks(v)
                           /\ Reducing(v)' <=> Reducing(v) /\ v # t
                           /\ Counting(v)' <=> Counting(v)
                           /\ Engaged(v)' <=> Engaged(v) /\ v # t
    BY <1>1, <1>2 DEF Marks, Reducing, Engaged, Counting
  <2> QED
    BY <2>1, <2>2
<1>5. \A n : AllMarked(n)' <=> AllMarked(n)
  BY <1>4 DEF AllMarked
<1>6. \A u \in TaskIds : Slot(m) \notin loc_iters[u]
  BY <1>1, <1>3 DEF RingInv, Cleared
<1>7. MarkOK'
  <2> SUFFICES ASSUME NEW u \in TaskIds, NEW s \in loc_iters[u]
               PROVE  \E n \in Nat : Slot(n) = s /\ n < Marks(u) /\ n \notin reduced'
    BY <1>1, <1>4 DEF MarkOK, Slot
  <2>1. PICK n \in Nat : Slot(n) = s /\ n < Marks(u) /\ n \notin reduced
    BY DEF RingInv, MarkOK
  <2>2. n # m
    BY <1>6, <2>1
  <2> QED
    BY <1>1, <2>1, <2>2
<1>8. CountOK'
  BY <1>1, <1>4, <1>5 DEF RingInv, CountOK
<1>9. Kept'
  <2>1. \A r \in TaskIds : Reducing(r) => r = t
    BY <1>3 DEF RingInv, OneReducer
  <2> QED
    BY <1>1, <1>4, <2>1 DEF RingInv, Kept, Slot
<1>10. Pending'
  <2> SUFFICES ASSUME NEW n \in Nat, AllMarked(n), n \notin reduced, n # m
               PROVE  \E w \in TaskIds : iter_number[w] = n /\ (Engaged(w)' \/ Counting(w)')
    BY <1>1, <1>5 DEF Pending
  <2>1. PICK w \in TaskIds : iter_number[w] = n /\ (Engaged(w) \/ Counting(w))
    BY DEF RingInv, Pending
  <2> QED
    BY <1>4, <2>1
<1>11. ReducedOK'
  <2>1. AllMarked(m)
    BY <1>3 DEF RingInv, CountOK
  <2> QED
    BY <1>1, <1>5, <2>1 DEF RingInv, ReducedOK
\* The flags set were those of t alone.
<1>12. Flags' /\ OneReducer'
  <2>1. isAllTasksDone' = {}
    BY <1>1, <1>3 DEF RingInv, Flags, OneReducer
  <2>2. \A v \in TaskIds : spc'[v] = "claimWrite" => mu_task' = v
    BY <1>1, <1>2 DEF RingInv, Flags
  <2> QED
    BY <1>4, <2>1, <2>2 DEF Flags, OneReducer
<1>13. Stored'
  <2>1. \A v \in TaskIds : spc'[v] # "residual" => spc[v] # "residual"
    BY <1>1, <1>2
  <2> QED
    BY <1>1, <2>1, KeepsStored
<1>14. Sums' /\ Cleared'
  BY <1>4 DEF Sums, Cleared
<1>15. GridOK'
  <2>1. \A n \in reduced : n <= m
    BY <1>3, ReducesLatest
  <2>2. \A v \in TaskIds : spc'[v] \notin {"gridIters", "release", "releaseWrite"}
    BY <1>4 DEF Reducing
  <2>3. grid_gres_ = {m} /\ grid_iters_ = m
    BY <1>1 DEF RingInv, GridOK
  <2> QED
    BY <1>1, <1>3, <2>1, <2>2, <2>3 DEF GridOK, gridVars
<1> QED
  BY <1>7, <1>8, <1>9, <1>10, <1>11, <1>12, <1>13, <1>14, <1>15 DEF RingInv


LEMMA StopRing ==
  ASSUME StopInv, RingInv, NEW t \in TaskIds, StopStep(t)
  PROVE  RingInv'
<1> DEFINE Late == {"criterion", "maxScan", "setMax", "update"}
<1>1. UNCHANGED <<callVars, iter_number, loc_res2, loc_iters, isAllTasksDone, global_res,
                  gridVars, reduced, mu_task>>
  BY DEF StopStep, callVars, bitVars, sumVars
<1>2. /\ spc[t] \in Late
      /\ \A v \in TaskIds : v # t => spc'[v] = spc[v] /\ k'[v] = k[v] /\ found'[v] = found[v]
      /\ spc'[t] \in Late
  <2>1. CASE IsResTerCriMet(t)
    BY <2>1 DEF IsResTerCriMet, At, Goto, StopInv, TypeOK
  <2>2. CASE MaxScan(t)
    <3>1. \/ Goto(t, "maxScan") /\ k' = [k EXCEPT ![t] = k[t] + 1]
          \/ Goto(t, "setMax") /\ k' = [k EXCEPT ![t] = 0]
          \/ UNCHANGED <<spc, k>>
      BY <2>2, LoopFacts DEF MaxScan, StopInv
    <3>2. \A v \in TaskIds : v # t => found'[v] = found[v]
      BY <2>2 DEF MaxScan, StopInv, TypeOK
    <3> QED
      BY <2>2, <3>1, <3>2 DEF MaxScan, At, Goto, StopInv, TypeOK
  <2>3. CASE SetMax(t)
    BY <2>3 DEF SetMax, At, Goto, StopInv, TypeOK
  <2> QED
    BY <2>1, <2>2, <2>3 DEF StopStep
<1>3. \A v \in TaskIds : Marks(v)' = Marks(v)
  BY <1>1, <1>2 DEF Marks
<1>4. Stored'
  <2>1. \A v \in TaskIds : spc'[v] # "residual" => spc[v] # "residual"
    BY <1>2
  <2> QED
    BY <1>1, <2>1, KeepsStored
<1>5. \A v \in TaskIds :
        \/ spc[v] \in Calm /\ spc'[v] \in Calm
        \/ /\ iter_number'[v] = iter_number[v] /\ k'[v] = k[v] /\ found'[v] = found[v]
           /\ spc'[v] = spc[v]
  BY <1>1, <1>2 DEF Calm
<1> QED
  BY <1>1, <1>3, <1>4, <1>5, Frame DEF RingInv

LEMMA TestRing ==
  ASSUME StopInv, RingInv, NEW t \in TaskIds, Test(t)
  PROVE  RingInv'
<1>1. UNCHANGED <<iter_number, spc, loc_res2, loc_iters, isAllTasksDone, global_res, gridVars,
                  reduced, k, found, mu_task>>
  BY DEF Test, bitVars, sumVars, Calls!ReadUp, Calls!ReadDown, Calls!HasFinishedIters
<1>2. \A v \in TaskIds : Marks(v)' = Marks(v)
  BY <1>1 DEF Marks
<1>3. Stored'
  BY <1>1, KeepsStored
<1> QED
  BY <1>1, <1>2, <1>3, Frame DEF RingInv

LEMMA SetPostCondsRing ==
  ASSUME StopInv, RingInv, NEW t \in TaskIds, SetPostConds(t)
  PROVE  RingInv'
<1>1. /\ spc[t] = "update" /\ Goto(t, "residual")
      /\ iter_number' = [iter_number EXCEPT ![t] = iter_number[t] + 1]
      /\ UNCHANGED <<loc_res2, loc_iters, isAllTasksDone, global_res, gridVars, reduced, k,
                     found, mu_task>>
  BY DEF SetPostConds, At, Calls!SetPostConds, bitVars, sumVars
<1>2. /\ \A v \in TaskIds : spc'[v] = IF v = t THEN "residual" ELSE spc[v]
      /\ \A v \in TaskIds : iter_number'[v] = IF v = t THEN iter_number[t] + 1 ELSE iter_number[v]
  BY <1>1, GotoFacts DEF StopInv, TypeOK
<1>3. \A v \in TaskIds : Marks(v)' = Marks(v)
  BY <1>1, <1>2 DEF Marks
\* The residual of the iteration just done was stored in it.
<1>4. Stored'
  <2> SUFFICES ASSUME NEW u \in TaskIds, NEW n \in Nat,
                      n < iter_number'[u] \/ (n = iter_number'[u] /\ spc'[u] # "residual"),
                      iter_number'[u] < n + numTasks
               PROVE  loc_res2[u][Slot(n)] = n
    BY <1>1 DEF Stored, Slot
  <2>1. CASE u # t
    BY <1>2, <2>1 DEF RingInv, Stored
  <2>2. CASE u = t
    <3>1. /\ n < iter_number[t] \/ (n = iter_number[t] /\ spc[t] # "residual")
          /\ iter_number[t] < n + numTasks
      BY <1>1, <1>2, <2>2, RingFacts, Constants
    <3> QED
      BY <2>2, <3>1 DEF RingInv, Stored
  <2> QED
    BY <2>1, <2>2
<1>5. \A v \in TaskIds :
        \/ spc[v] \in Calm /\ spc'[v] \in Calm
        \/ /\ iter_number'[v] = iter_number[v] /\ k'[v] = k[v] /\ found'[v] = found[v]
           /\ spc'[v] = spc[v]
  BY <1>1, <1>2 DEF Calm
<1> QED
  BY <1>1, <1>3, <1>4, <1>5, Frame DEF RingInv

LEMMA InitRing == Init => RingInv
<1> SUFFICES ASSUME Init PROVE RingInv
  OBVIOUS
<1>1. /\ \A t \in TaskIds : iter_number[t] = 0 /\ spc[t] = "residual" /\ loc_iters[t] = {}
      /\ isAllTasksDone = {} /\ reduced = {}
  BY SameIds DEF Init, Calls!Init
<1>2. \A t \in TaskIds : Marks(t) = 0 /\ ~Reducing(t) /\ ~Engaged(t) /\ ~Counting(t)
  BY <1>1 DEF Marks, Reducing, Engaged, Counting
<1>3. \A n \in Nat : ~AllMarked(n)
  <2>1. 0 \in TaskIds
    BY Constants DEF TaskIds
  <2> QED
    BY <1>2, <2>1 DEF AllMarked
<1>4. MarkOK /\ Kept /\ CountOK /\ Pending /\ ReducedOK
  BY <1>1, <1>2, <1>3 DEF MarkOK, Kept, CountOK, Pending, ReducedOK
<1>5. Flags /\ OneReducer /\ Sums /\ Cleared /\ GridOK
  BY <1>1, <1>2 DEF Flags, OneReducer, Sums, Cleared, GridOK
<1>6. Stored
  BY <1>1 DEF Stored
<1> QED
  BY <1>4, <1>5, <1>6 DEF RingInv

LEMMA NextRing == ~lost' /\ StopInv /\ RingInv /\ [Next]_vars => RingInv'
<1> SUFFICES ASSUME ~lost', StopInv, RingInv, [Next]_vars PROVE RingInv'
  OBVIOUS
<1>1. CASE UNCHANGED vars
  <2>1. UNCHANGED <<iter_number, spc, loc_res2, loc_iters, isAllTasksDone, global_res, gridVars,
                    reduced, k, found, mu_task>>
    BY <1>1 DEF vars, callVars, bitVars, sumVars
  <2>2. \A v \in TaskIds : Marks(v)' = Marks(v)
    BY <2>1 DEF Marks
  <2>3. Stored'
    BY <2>1, KeepsStored
  <2> QED
    BY <2>1, <2>2, <2>3, Frame DEF RingInv
<1>2. ASSUME NEW t \in TaskIds, SyncStep(t) PROVE RingInv'
  BY <1>2, StoreResidualRing, LoadWordRing, MarkRing, ScanRing, ClaimRing, ClaimWriteRing,
     SumRing, ClearRing, StoreGresRing, StoreItersRing, ReleaseRing DEF SyncStep
<1>3. ASSUME NEW t \in TaskIds, Test(t) \/ StopStep(t) \/ SetPostConds(t) PROVE RingInv'
  BY <1>3, TestRing, StopRing, SetPostCondsRing
<1> QED
  BY <1>1, <1>2, <1>3 DEF Next, Task

\* What was lost stays lost.
LEMMA LostStays == lost /\ [Next]_vars => lost'
BY DEF Next, Task, Test, SyncStep, StoreResidual, LoadWord, Mark, Scan, Claim, ClaimWrite, Sum,
       Clear, StoreGres, StoreIters, Release, StopStep, SetPostConds, Stores, bitVars, vars

LEMMA RingInvariance == Spec => [](StopInv /\ (~lost => RingInv))
<1>1. Init => (~lost => RingInv)
  BY InitRing
<1>2. StopInv /\ (~lost => RingInv) /\ [Next]_vars => (~lost => RingInv)'
  BY NextRing, LostStays
<1> QED
  BY <1>1, <1>2, InitStop, NextStop, PTL DEF Spec

(***************************************************************************)
(* "Only one thread should do this per iteration" (task.cpp:751): as long  *)
(* as no bit was lost no two tasks reduce at the same time, whatever the   *)
(* iterations.                                                             *)
(***************************************************************************)
THEOREM OneAtATime == Spec => [](~lost => OneReducer)
BY RingInvariance, PTL DEF RingInv

(***************************************************************************)
(* An iteration that all tasks have left behind has been reduced unless a  *)
(* bit was lost: whoever gave it up had seen somebody else at it, and left *)
(* only after that one.                                                    *)
(***************************************************************************)
THEOREM NothingMissed == Spec => []OnlyLossMissesIteration
<1>1. StopInv /\ RingInv => NoIterationMissed
  <2> SUFFICES ASSUME StopInv, RingInv, NEW n \in 0 .. maxBound,
                      \A t \in TaskIds : iter_number[t] > n, n \notin reduced
               PROVE  FALSE
    BY DEF NoIterationMissed
  <2>1. n \in Nat /\ AllMarked(n)
    BY RingFacts, Constants DEF AllMarked
  <2>2. PICK w \in TaskIds : iter_number[w] = n
    BY <2>1 DEF RingInv, Pending
  <2> QED
    BY <2>1, <2>2
<1>2. StopInv /\ (~lost => RingInv) => OnlyLossMissesIteration
  BY <1>1 DEF OnlyLossMissesIteration
<1> QED
  BY <1>2, RingInvariance, PTL

(***************************************************************************)
(* What writeSol2File would write belongs together, as long as no bit was  *)
(* lost.                                                                   *)
(***************************************************************************)
THEOREM GridIsLatest == Spec => []GridHoldsLatest
<1>1. (~lost => RingInv) => GridHoldsLatest
  BY DEF RingInv, GridOK, GridHoldsLatest
<1> QED
  BY <1>1, RingInvariance, PTL

-----------------------------------------------------------------------------
(* The end of the tasks, whatever bits are lost.  The scan of changeMaxIter *)
(* finds nobody numTasks iterations ahead, so its assertion fails only if   *)
(* startMaxIter is less than that away.  A task that has stopped has done   *)
(* enough as long as the bound has not risen.                               *)

FoundLow == \A t \in TaskIds : spc[t] = "maxScan" => found[t] < iter_number[t] + numTasks

Stopped ==
  maxIter <= startMaxIter => \A t \in TaskIds : tpc[t] = "finished" => iter_number[t] >= maxIter

EndInv == FoundLow /\ Stopped /\ AbortsOnlyLate

\* What every step of syncResidual leaves alone.
LEMMA SyncFacts ==
  ASSUME StopInv, NEW t \in TaskIds, SyncStep(t)
  PROVE  /\ UNCHANGED <<iter_number, tpc, maxIter, resTermFlagSet, fault>>
         /\ Alive /\ tpc[t] = "work"
         /\ spc[t] \notin {"criterion", "maxScan", "setMax", "update"}
         /\ spc'[t] \notin {"maxScan", "setMax"}
         /\ \A v \in TaskIds : v # t => /\ spc'[v] = spc[v] /\ k'[v] = k[v] /\ found'[v] = found[v]
                                        /\ global_res'[v] = global_res[v] /\ below'[v] = below[v]
<1>1. /\ UNCHANGED <<iter_number, tpc, maxIter, resTermFlagSet, fault>>
      /\ Alive /\ tpc[t] = "work"
  BY DEF SyncStep, StoreResidual, LoadWord, Mark, Scan, Claim, ClaimWrite, Sum, Clear,
         StoreGres, StoreIters, Release, At, callVars, stopVars
<1>2. /\ spc[t] \notin {"criterion", "maxScan", "setMax", "update"}
      /\ spc'[t] \notin {"maxScan", "setMax"}
      /\ \A v \in TaskIds : v # t => spc'[v] = spc[v]
  BY GotoFacts, LoopFacts
     DEF SyncStep, StoreResidual, LoadWord, Load, Mark, Scan, Claim, ClaimWrite, Sum, Clear,
         StoreGres, StoreIters, Release, At, Loop, Goto, StopInv, TypeOK
<1>3. \A v \in TaskIds : v # t => /\ k'[v] = k[v] /\ found'[v] = found[v]
                                  /\ global_res'[v] = global_res[v] /\ below'[v] = below[v]
  BY LoopFacts
     DEF SyncStep, StoreResidual, LoadWord, Mark, Scan, Claim, ClaimWrite, Sum, Clear,
         StoreGres, StoreIters, Release, StopInv, TypeOK, sumVars
<1> QED
  BY <1>1, <1>2, <1>3

LEMMA MaxScanEnd ==
  ASSUME StopInv, EndInv, NEW t \in TaskIds, MaxScan(t), UNCHANGED callVars
  PROVE  EndInv'
<1> DEFINE seen == iter_number[k[t]]
           max_iter == IF seen > found[t] THEN seen ELSE found[t]
<1>1. /\ spc[t] = "maxScan" /\ Alive /\ maxIter' = maxIter /\ maxIter = startMaxIter
      /\ iter_number' = iter_number /\ tpc' = tpc
  BY DEF MaxScan, At, StopInv, Decision, Deciding, callVars
<1>2. max_iter \in Nat /\ max_iter < iter_number[t] + numTasks
  <2>1. seen \in Nat /\ seen < iter_number[t] + numTasks
    BY RingFacts
  <2>2. found[t] \in Nat /\ found[t] < iter_number[t] + numTasks
    BY <1>1, Constants DEF StopInv, Loops, EndInv, FoundLow
  <2> QED
    BY <2>1, <2>2
<1>3. Stopped'
  BY <1>1 DEF EndInv, Stopped
<1> HIDE DEF max_iter
<1>4. CASE fault' = AssertMaxIter /\ UNCHANGED <<k, found, spc>> /\ ~(max_iter < maxIter)
  <2>1. iter_number[t] + numTasks > startMaxIter
    BY <1>1, <1>2, <1>4, RingFacts, Constants
  <2> QED
    BY <1>1, <1>3, <1>4, <2>1 DEF EndInv, FoundLow, AbortsOnlyLate
<1>5. CASE /\ Loop(t, "maxScan", "setMax") /\ fault' = fault
           /\ found' = [found EXCEPT ![t] = IF k[t] = numTasks - 1 THEN 0 ELSE max_iter]
  <2>1. \A v \in TaskIds : v # t => spc'[v] = spc[v]
    BY <1>5, GotoFacts DEF Loop
  <2>2. /\ \A v \in TaskIds : v # t => found'[v] = found[v]
        /\ found'[t] < iter_number[t] + numTasks
    BY <1>2, <1>5, RingFacts, Constants DEF StopInv, TypeOK
  <2>3. FoundLow'
    BY <1>1, <2>1, <2>2 DEF EndInv, FoundLow
  <2> QED
    BY <1>1, <1>3, <1>5, <2>3 DEF EndInv, AbortsOnlyLate, Alive
<1> QED
  BY <1>4, <1>5 DEF MaxScan, max_iter

LEMMA NextEnd == StopInv /\ EndInv /\ [Next]_vars => EndInv'
<1> SUFFICES ASSUME StopInv, EndInv, [Next]_vars PROVE EndInv'
  OBVIOUS
<1>1. CASE UNCHANGED vars
  BY <1>1 DEF vars, callVars, stopVars, EndInv, FoundLow, Stopped, AbortsOnlyLate, Alive
<1>2. ASSUME NEW t \in TaskIds, Test(t) PROVE EndInv'
  <2>1. UNCHANGED <<iter_number, spc, found, maxIter, fault>> /\ Alive
    BY <1>2 DEF Test, stopVars, Calls!ReadUp, Calls!ReadDown, Calls!HasFinishedIters
  <2>2. Stopped'
    BY <1>2, <2>1, RingFacts DEF Test, Calls!ReadUp, Calls!ReadDown, Calls!HasFinishedIters,
      Calls!Step, EndInv, Stopped, StopInv, TypeOK
  <2> QED
    BY <2>1, <2>2 DEF EndInv, FoundLow, AbortsOnlyLate, Alive
<1>3. ASSUME NEW t \in TaskIds, SyncStep(t) PROVE EndInv'
  <2>1. \A v \in TaskIds : spc'[v] = "maxScan" => spc[v] = "maxScan" /\ found'[v] = found[v]
    BY <1>3, SyncFacts
  <2>2. UNCHANGED <<iter_number, tpc, maxIter, fault>> /\ Alive
    BY <1>3, SyncFacts
  <2> QED
    BY <2>1, <2>2 DEF EndInv, FoundLow, Stopped, AbortsOnlyLate, Alive
<1>4. ASSUME NEW t \in TaskIds, IsResTerCriMet(t), UNCHANGED callVars PROVE EndInv'
  <2>1. UNCHANGED <<iter_number, tpc, found, maxIter, fault>> /\ Alive /\ spc[t] = "criterion"
    BY <1>4 DEF IsResTerCriMet, At, callVars
  <2>2. \A v \in TaskIds : v # t => spc'[v] = spc[v]
    BY <1>4, GotoFacts DEF IsResTerCriMet
  <2>3. found[t] < iter_number[t] + numTasks
    BY <2>1, RingFacts, Constants DEF StopInv, Loops
  <2> QED
    BY <2>1, <2>2, <2>3 DEF EndInv, FoundLow, Stopped, AbortsOnlyLate, Alive
<1>5. ASSUME NEW t \in TaskIds, SetMax(t), UNCHANGED callVars PROVE EndInv'
  <2>1. /\ UNCHANGED <<iter_number, tpc, found, fault>> /\ Alive /\ maxIter = startMaxIter
        /\ \A v \in TaskIds : spc'[v] = IF v = t THEN "update" ELSE spc[v]
    BY <1>5, GotoFacts DEF SetMax, At, callVars, StopInv, Decision, Deciding
  <2>2. maxIter' \in Nat
    BY <1>5, RingFacts, Constants DEF SetMax
  <2>3. Stopped'
    BY <2>1, <2>2, RingFacts, Constants DEF EndInv, Stopped
  <2> QED
    BY <2>1, <2>3 DEF EndInv, FoundLow, AbortsOnlyLate, Alive
<1>6. ASSUME NEW t \in TaskIds, SetPostConds(t) PROVE EndInv'
  <2>1. /\ UNCHANGED <<found, maxIter, fault>> /\ Alive
        /\ \A v \in TaskIds : spc'[v] = "maxScan" => v # t /\ spc[v] = "maxScan"
        /\ \A v \in TaskIds : v # t => iter_number'[v] = iter_number[v] /\ tpc'[v] = tpc[v]
        /\ tpc'[t] = "check"
    BY <1>6, GotoFacts DEF SetPostConds, At, Calls!SetPostConds, Calls!Step, stopVars,
      StopInv, TypeOK
  <2> QED
    BY <2>1 DEF EndInv, FoundLow, Stopped, AbortsOnlyLate, Alive
<1> QED
  BY <1>1, <1>2, <1>3, <1>4, <1>5, <1>6, MaxScanEnd DEF Next, Task, StopStep

LEMMA EndInvariance == Spec => [](StopInv /\ EndInv)
<1>1. Init => EndInv
  BY SameIds DEF Init, Calls!Init, EndInv, FoundLow, Stopped, AbortsOnlyLate, Alive
<1> QED
  BY <1>1, InitStop, NextStop, NextEnd, PTL DEF Spec

(***************************************************************************)
(* The assertion of changeMaxIter (task.cpp:882) can fail only in the last *)
(* numTasks iterations of the computation, whatever bits are lost and      *)
(* whoever decides the stop: nobody else is numTasks iterations ahead.     *)
(***************************************************************************)
THEOREM NeverAborts == Spec => []AbortsOnlyLate
BY EndInvariance, PTL DEF EndInv

\* A task below the bound that is still called and not turned away.
SomeoneCanRun ==
  (\E t \in TaskIds : iter_number[t] < maxIter) =>
    \E t \in TaskIds : /\ iter_number[t] < maxIter
                       /\ tpc[t] # "finished"
                       /\ CallProofs!PreCondsMet(t)

(***************************************************************************)
(* Unless the stop raises the bound, the tasks never all wait for each     *)
(* other, whatever bits are lost: the one furthest behind has not been     *)
(* given up.  A bound that rises after tasks have finished is the one way  *)
(* to a standstill.                                                        *)
(***************************************************************************)
THEOREM NeverAllWait == Spec => [](maxIter <= startMaxIter => SomeoneCanRun)
<1>1. StopInv /\ EndInv => (maxIter <= startMaxIter => SomeoneCanRun)
  <2> SUFFICES ASSUME StopInv, EndInv, maxIter <= startMaxIter,
                      NEW t \in TaskIds, iter_number[t] < maxIter
               PROVE  \E v \in TaskIds : /\ iter_number[v] < maxIter
                                         /\ tpc[v] # "finished"
                                         /\ CallProofs!PreCondsMet(v)
    BY DEF SomeoneCanRun
  <2>1. maxIter \in Nat /\ numTasks \in Nat
    BY Constants DEF StopInv, TypeOK
  <2> QED
    BY <2>1, SameIds, CallProofs!LastCanRun DEF StopInv, Order, EndInv, Stopped
<1> QED
  BY <1>1, EndInvariance, PTL

-----------------------------------------------------------------------------
(* What is summed up, whatever bits are lost.  A bit that was cleared may   *)
(* come back, but only where a mark has been set before, and so where a     *)
(* residual has been stored.  A slot holds the residual of the latest       *)
(* iteration that its task has stored there: since all tasks are within     *)
(* numTasks iterations, that of the iteration that is reduced or the one    *)
(* numTasks before.                                                         *)

Written(u, s) == loc_res2[u][s] # Unwritten

SlotOK ==
  \A u \in TaskIds, s \in Slots : Written(u, s) =>
    /\ loc_res2[u][s] \in Nat /\ Slot(loc_res2[u][s]) = s
    /\ loc_res2[u][s] <= iter_number[u] /\ iter_number[u] <= loc_res2[u][s] + numTasks
    /\ spc[u] # "residual" => iter_number[u] < loc_res2[u][s] + numTasks

OwnStored ==
  \A t \in TaskIds : spc[t] # "residual" => loc_res2[t][ind(t)] = iter_number[t]

\* A mark that is set, or that a word to be put back holds, was set before.
MarksWritten ==
  \A t \in TaskIds :
    /\ \A s \in loc_iters[t] : Written(t, s)
    /\ spc[t] = "markWrite" => \A s \in word[t] : Written(t, s)
    /\ spc[t] = "clearWrite" => \A s \in word[t] : Written(k[t], s)

CountWritten ==
  \A t \in TaskIds :
    /\ Counting(t) => \A u \in TaskIds : u < k[t] => Written(u, ind(t))
    /\ Engaged(t) => \A u \in TaskIds : Written(u, ind(t))

\* The sum of t has its own contribution.
OwnAdded(t) ==
  \/ t < k[t]
  \/ t = k[t] /\ spc[t] # "sum"
  \/ spc[t] \notin {"sum", "clear", "clearWrite"}

SumOK ==
  \A t \in TaskIds : Reducing(t) =>
    /\ global_res[t] \subseteq Nat \cap {iter_number[t], iter_number[t] - numTasks}
    /\ OwnAdded(t) => iter_number[t] \in global_res[t]

RecentInv == SlotOK /\ OwnStored /\ MarksWritten /\ CountWritten /\ SumOK

LEMMA NextRound == ASSUME NEW x \in Nat PROVE Slot(x + numTasks) = Slot(x)
<1> DEFINE N == numTasks
           p == x \div N
           r == x % N
           q == (x + N) \div N
           w == (x + N) % N
<1>1. N \in Nat \ {0}
  BY Constants
<1>2. p \in Nat /\ r \in Nat /\ x = N * p + r /\ r < N
  BY <1>1, DivMod
<1>3. q \in Nat /\ w \in Nat /\ x + N = N * q + w /\ w < N
  <2>1. x + N \in Nat
    BY <1>1
  <2> QED
    BY <1>1, <2>1, DivMod
<1> SUFFICES r = w
  BY DEF Slot
<1> HIDE DEF p, q, r, w, N
<1>4. ~(p + 1 < q)
  <2> SUFFICES ASSUME p + 1 < q PROVE FALSE
    OBVIOUS
  <2>1. PICK d \in Nat : q = p + 2 + d
    <3>1. q - p - 2 \in Nat /\ q = p + 2 + (q - p - 2)
      BY <1>2, <1>3
    <3> QED
      BY <3>1
  <2>2. N * q = N * p + 2 * N + N * d /\ N * d \in Nat /\ N * p \in Nat
    BY <1>1, <1>2, <2>1
  <2> QED
    BY <1>1, <1>2, <1>3, <2>2
<1>5. ~(q < p + 1)
  <2> SUFFICES ASSUME q < p + 1 PROVE FALSE
    OBVIOUS
  <2>1. PICK d \in Nat : p = q + d
    <3>1. p - q \in Nat /\ p = q + (p - q)
      BY <1>2, <1>3
    <3> QED
      BY <3>1
  <2>2. N * p = N * q + N * d /\ N * d \in Nat /\ N * q \in Nat
    BY <1>1, <1>3, <2>1
  <2> QED
    BY <1>1, <1>2, <1>3, <2>2
<1>6. q = p + 1
  BY <1>2, <1>3, <1>4, <1>5
<1>7. N * q = N * p + N /\ N * p \in Nat
  BY <1>1, <1>2, <1>6
<1> QED
  BY <1>1, <1>2, <1>3, <1>7

\* A slot of the iteration of t holds its residual or the one a round before.
LEMMA RecentValue ==
  ASSUME StopInv, SlotOK, NEW t \in TaskIds, NEW u \in TaskIds, Written(u, ind(t))
  PROVE  loc_res2[u][ind(t)] \in Nat \cap {iter_number[t], iter_number[t] - numTasks}
<1> DEFINE x == loc_res2[u][ind(t)]
           m == iter_number[t]
<1>1. /\ x \in Nat /\ Slot(x) = Slot(m) /\ x <= iter_number[u]
      /\ iter_number[u] <= x + numTasks
  BY IndType, IndSlot DEF SlotOK, StopInv
<1>2. /\ m \in Nat /\ iter_number[u] \in Nat /\ numTasks \in Nat
      /\ iter_number[u] < m + numTasks /\ m < iter_number[u] + numTasks
  BY RingFacts, Constants
<1> HIDE DEF x, m
<1>3. CASE m < x + numTasks
  <2>1. x = m
    BY <1>1, <1>2, <1>3, SlotsDiffer
  <2> QED
    BY <1>1, <2>1 DEF x, m
<1>4. CASE ~(m < x + numTasks)
  <2>1. x + numTasks \in Nat /\ Slot(x + numTasks) = Slot(m)
    BY <1>1, <1>2, NextRound
  <2>2. x + numTasks < m + numTasks /\ m < x + numTasks + numTasks
    BY <1>1, <1>2, <1>4, Constants
  <2>3. x + numTasks = m
    BY <1>2, <2>1, <2>2, SlotsDiffer
  <2> QED
    BY <1>1, <1>2, <2>3 DEF x, m
<1> QED
  BY <1>3, <1>4

Grows == \A u \in TaskIds, s \in Slots : Written(u, s) => Written(u, s)'

LEMMA SlotFrame ==
  ASSUME RecentInv, UNCHANGED <<loc_res2, iter_number>>,
         \A v \in TaskIds : spc'[v] # "residual" => spc[v] # "residual"
  PROVE  SlotOK' /\ OwnStored' /\ Grows
BY DEF RecentInv, SlotOK, OwnStored, Written, Grows, Slot, ind

LEMMA MarksFrame ==
  ASSUME StopInv, RecentInv, Grows, loc_iters' = loc_iters,
         \A v \in TaskIds : spc'[v] \in {"markWrite", "clearWrite"} =>
           spc'[v] = spc[v] /\ word'[v] = word[v] /\ k'[v] = k[v]
  PROVE  MarksWritten'
<1>1. \A v \in TaskIds : /\ loc_iters[v] \subseteq Slots /\ word[v] \subseteq Slots
                         /\ k[v] \in TaskIds
  BY DEF StopInv, TypeOK
<1> QED
  BY <1>1 DEF RecentInv, MarksWritten, Grows

LEMMA CountFrame ==
  ASSUME StopInv, RecentInv, Grows,
         \A v \in TaskIds : Counting(v)' =>
           Counting(v) /\ k'[v] = k[v] /\ iter_number'[v] = iter_number[v],
         \A v \in TaskIds : Engaged(v)' => Engaged(v) /\ iter_number'[v] = iter_number[v]
  PROVE  CountWritten'
<1>1. \A v \in TaskIds : ind(v) \in Slots
  BY IndType DEF StopInv
<1> QED
  BY <1>1 DEF RecentInv, CountWritten, Grows, ind

LEMMA SumFrame ==
  ASSUME RecentInv,
         \A v \in TaskIds : Reducing(v)' =>
           /\ Reducing(v) /\ iter_number'[v] = iter_number[v]
           /\ k'[v] = k[v] /\ global_res'[v] = global_res[v]
           /\ spc'[v] = "sum" <=> spc[v] = "sum"
           /\ spc'[v] \in {"sum", "clear", "clearWrite"} <=> spc[v] \in {"sum", "clear", "clearWrite"}
  PROVE  SumOK'
BY DEF RecentInv, SumOK, OwnAdded

\* A step that touches neither slots nor marks nor sums.
LEMMA RecentFrame ==
  ASSUME StopInv, RecentInv, UNCHANGED <<loc_res2, loc_iters, iter_number, global_res>>,
         \A v \in TaskIds :
           \/ spc'[v] = spc[v] /\ word'[v] = word[v] /\ k'[v] = k[v] /\ found'[v] = found[v]
           \/ spc[v] # "residual" /\ spc'[v] \in {"criterion", "maxScan", "setMax", "update"}
           \/ spc[v] = "claim" /\ spc'[v] = "claimWrite"
           \/ /\ spc[v] \in {"gridGres", "gridIters"} /\ spc'[v] \in {"gridIters", "release"}
              /\ k'[v] = k[v]
  PROVE  RecentInv'
<1>1. SlotOK' /\ OwnStored' /\ Grows
  BY SlotFrame
<1>2. MarksWritten'
  BY <1>1, MarksFrame
<1>3. CountWritten'
  BY <1>1, CountFrame DEF Counting, Engaged, Reducing
<1>4. SumOK'
  BY SumFrame DEF Reducing
<1> QED
  BY <1>1, <1>2, <1>3, <1>4 DEF RecentInv

LEMMA StoreResidualRecent ==
  ASSUME StopInv, RecentInv, NEW t \in TaskIds, StoreResidual(t), UNCHANGED callVars
  PROVE  RecentInv'
<1> DEFINE m == iter_number[t]
<1>1. /\ spc[t] = "residual" /\ iter_number' = iter_number
      /\ loc_res2' = [loc_res2 EXCEPT ![t][ind(t)] = m]
      /\ UNCHANGED <<loc_iters, word, global_res, k, found>>
      /\ \A v \in TaskIds : spc'[v] = IF v = t THEN "mark" ELSE spc[v]
  BY GotoFacts DEF StoreResidual, At, callVars, bitVars
<1>2. m \in Nat /\ ind(t) \in Slots /\ ind(t) = Slot(m)
  BY RingFacts, IndType, IndSlot DEF StopInv
<1>3. \A u \in TaskIds, s \in Slots :
        loc_res2'[u][s] = IF u = t /\ s = ind(t) THEN m ELSE loc_res2[u][s]
  BY <1>1, <1>2 DEF StopInv, TypeOK
<1>4. Grows
  BY <1>2, <1>3 DEF Grows, Written, Unwritten
<1>5. SlotOK'
  <2> SUFFICES ASSUME NEW u \in TaskIds, NEW s \in Slots, Written(u, s)'
               PROVE  /\ loc_res2'[u][s] \in Nat /\ Slot(loc_res2'[u][s]) = s
                      /\ loc_res2'[u][s] <= iter_number[u]
                      /\ iter_number[u] <= loc_res2'[u][s] + numTasks
                      /\ spc'[u] # "residual" => iter_number[u] < loc_res2'[u][s] + numTasks
    BY <1>1 DEF SlotOK, Slot
  <2>1. CASE u = t /\ s = ind(t)
    BY <1>2, <1>3, <2>1, Constants
  <2>2. CASE u # t
    BY <1>1, <1>3, <2>2 DEF RecentInv, SlotOK, Written
  <2>3. CASE u = t /\ s # ind(t)
    <3>1. /\ loc_res2'[t][s] = loc_res2[t][s] /\ loc_res2[t][s] \in Nat
          /\ Slot(loc_res2[t][s]) = s /\ loc_res2[t][s] <= m /\ m <= loc_res2[t][s] + numTasks
      BY <1>3, <2>3 DEF RecentInv, SlotOK, Written
    <3>2. m # loc_res2[t][s] + numTasks
      BY <1>2, <2>3, <3>1, NextRound
    <3> QED
      BY <1>2, <2>3, <3>1, <3>2, Constants
  <2> QED
    BY <2>1, <2>2, <2>3
<1>6. OwnStored'
  <2>1. \A v \in TaskIds : ind(v)' = ind(v) /\ ind(v) \in Slots
    BY <1>1, IndType DEF ind, StopInv
  <2> QED
    BY <1>1, <1>3, <2>1 DEF RecentInv, OwnStored
<1>7. MarksWritten'
  BY <1>1, <1>4, MarksFrame
<1>8. CountWritten'
  BY <1>1, <1>4, CountFrame DEF Counting, Engaged, Reducing
<1>9. SumOK'
  BY <1>1, SumFrame DEF Reducing
<1> QED
  BY <1>5, <1>6, <1>7, <1>8, <1>9 DEF RecentInv

LEMMA LoadWordRecent ==
  ASSUME StopInv, RecentInv, NEW t \in TaskIds, LoadWord(t), UNCHANGED callVars
  PROVE  RecentInv'
<1>1. PICK l \in {"markWrite", "clearWrite", "releaseWrite"} :
        /\ \A v \in TaskIds : spc'[v] = IF v = t THEN l ELSE spc[v]
        /\ l = "markWrite" => spc[t] = "mark" /\ word'[t] = loc_iters[t]
        /\ l = "clearWrite" => spc[t] = "clear" /\ word'[t] = loc_iters[k[t]]
        /\ l = "releaseWrite" => spc[t] = "release"
        /\ \A v \in TaskIds : v # t => word'[v] = word[v]
        /\ UNCHANGED <<iter_number, loc_res2, loc_iters, global_res, k, found>>
  BY GotoFacts DEF LoadWord, Load, At, callVars, sumVars, StopInv, TypeOK
<1>2. SlotOK' /\ OwnStored' /\ Grows
  <2>1. \A v \in TaskIds : spc'[v] # "residual" => spc[v] # "residual"
    BY <1>1
  <2> QED
    BY <1>1, <2>1, SlotFrame
<1>3. MarksWritten'
  <2>1. k[t] \in TaskIds
    BY DEF StopInv, TypeOK
  <2> QED
    BY <1>1, <2>1 DEF RecentInv, MarksWritten, Written
<1>4. CountWritten'
  BY <1>1, <1>2, CountFrame DEF Counting, Engaged, Reducing
<1>5. SumOK'
  BY <1>1, SumFrame DEF Reducing
<1> QED
  BY <1>2, <1>3, <1>4, <1>5 DEF RecentInv

LEMMA MarkRecent ==
  ASSUME StopInv, RecentInv, NEW t \in TaskIds, Mark(t), UNCHANGED callVars
  PROVE  RecentInv'
<1>1. /\ spc[t] = "markWrite"
      /\ \A v \in TaskIds : spc'[v] = IF v = t THEN "scan" ELSE spc[v]
      /\ \A v \in TaskIds : loc_iters'[v] =
           IF v = t THEN PutBack(t, loc_iters[t]) \cup {ind(t)} ELSE loc_iters[v]
      /\ \A v \in TaskIds : v # t => word'[v] = word[v]
      /\ UNCHANGED <<iter_number, loc_res2, global_res, k, found>>
  BY GotoFacts DEF Mark, Stores, At, callVars, sumVars, StopInv, TypeOK
<1>2. SlotOK' /\ OwnStored' /\ Grows
  <2>1. \A v \in TaskIds : spc'[v] # "residual" => spc[v] # "residual"
    BY <1>1
  <2> QED
    BY <1>1, <2>1, SlotFrame
<1>3. MarksWritten'
  <2>1. Written(t, ind(t))
    BY <1>1, RingFacts DEF RecentInv, OwnStored, Written, Unwritten
  <2>2. \A s \in PutBack(t, loc_iters[t]) : s \in loc_iters[t] \/ s \in word[t]
    BY DEF PutBack
  <2>3. \A s \in loc_iters'[t] : Written(t, s)
    BY <1>1, <2>1, <2>2 DEF RecentInv, MarksWritten
  <2> QED
    BY <1>1, <2>3 DEF RecentInv, MarksWritten, Written
<1>4. CountWritten'
  <2>1. k[t] = 0 /\ \A u \in TaskIds : ~(u < 0)
    BY <1>1 DEF StopInv, Loops, TaskIds
  <2>2. \A v \in TaskIds : /\ v # t => (Counting(v)' <=> Counting(v))
                           /\ Engaged(v)' => Engaged(v)
    BY <1>1 DEF Counting, Engaged, Reducing
  <2> QED
    BY <1>1, <2>1, <2>2 DEF RecentInv, CountWritten, Written, ind
<1>5. SumOK'
  BY <1>1, SumFrame DEF Reducing
<1> QED
  BY <1>2, <1>3, <1>4, <1>5 DEF RecentInv

LEMMA ScanRecent ==
  ASSUME StopInv, RecentInv, NEW t \in TaskIds, Scan(t), UNCHANGED callVars
  PROVE  RecentInv'
<1> DEFINE isSet == ind(t) \in loc_iters[k[t]]
           more == found[t] + (IF isSet THEN 1 ELSE 0)
           last == k[t] = numTasks - 1
           l == IF ~last THEN "scan" ELSE IF more = numTasks THEN "claim" ELSE "criterion"
<1>1. /\ spc[t] = "scan"
      /\ UNCHANGED <<iter_number, loc_res2, loc_iters, global_res, word>>
      /\ \A v \in TaskIds : spc'[v] = IF v = t THEN l ELSE spc[v]
      /\ \A v \in TaskIds : k'[v] = IF v # t THEN k[v] ELSE IF last THEN 0 ELSE k[t] + 1
      /\ \A v \in TaskIds : found'[v] = IF v # t THEN found[v] ELSE IF last THEN 0 ELSE more
  <2>1. Loop(t, "scan", IF more = numTasks THEN "claim" ELSE "criterion")
    BY DEF Scan
  <2>2. Goto(t, l) /\ k' = [k EXCEPT ![t] = IF last THEN 0 ELSE k[t] + 1]
    BY <2>1, LoopFacts DEF StopInv
  <2>3. \A v \in TaskIds : spc'[v] = IF v = t THEN l ELSE spc[v]
    BY <2>2, GotoFacts
  <2> HIDE DEF l
  <2> QED
    BY <2>2, <2>3 DEF Scan, At, callVars, bitVars, sumVars, StopInv, TypeOK
<1>2. /\ k[t] \in Nat /\ k[t] \in TaskIds /\ k[t] <= numTasks - 1
      /\ found[t] \in Nat /\ found[t] <= k[t]
  <2>1. k[t] \in Nat /\ k[t] \in TaskIds /\ k[t] <= numTasks - 1
    BY RingFacts
  <2> QED
    BY <1>1, <2>1 DEF StopInv, Loops
<1>3. l \in {"scan", "claim", "criterion"} /\ (l = "scan" <=> ~last)
  OBVIOUS
\* Who has missed no mark has seen that all slots so far are written.
<1>4. l = "claim" \/ (l = "scan" /\ more = k[t] + 1) =>
        \A u \in TaskIds : u <= k[t] => Written(u, ind(t))
  <2> SUFFICES ASSUME l = "claim" \/ (l = "scan" /\ more = k[t] + 1),
                      NEW u \in TaskIds, u <= k[t]
               PROVE  Written(u, ind(t))
    OBVIOUS
  <2>1. found[t] = k[t] /\ isSet
    BY <1>2, Constants
  <2>2. u < k[t] \/ u = k[t]
    BY <1>2 DEF TaskIds
  <2> QED
    BY <1>1, <1>2, <2>1, <2>2 DEF Counting, RecentInv, CountWritten, MarksWritten
<1>5. l = "claim" => k[t] = numTasks - 1
  OBVIOUS
<1> HIDE DEF l, isSet
<1>6. SlotOK' /\ OwnStored' /\ Grows
  <2>1. \A v \in TaskIds : spc'[v] # "residual" => spc[v] # "residual"
    BY <1>1
  <2> QED
    BY <1>1, <2>1, SlotFrame
<1>7. MarksWritten'
  BY <1>1, <1>3, <1>6, MarksFrame
<1>8. CountWritten'
  <2>1. \A v \in TaskIds : v # t => /\ Counting(v)' <=> Counting(v)
                                    /\ Engaged(v)' <=> Engaged(v)
    BY <1>1 DEF Counting, Engaged, Reducing
  <2>2. Counting(t)' => \A u \in TaskIds : u < k'[t] => Written(u, ind(t))
    <3> SUFFICES ASSUME Counting(t)', NEW u \in TaskIds, u < k'[t] PROVE Written(u, ind(t))
      OBVIOUS
    <3>1. l = "scan" /\ more = k[t] + 1 /\ k'[t] = k[t] + 1
      BY <1>1, <1>3 DEF Counting
    <3>2. u <= k[t]
      BY <1>2, <3>1 DEF TaskIds
    <3> QED
      BY <1>4, <3>1, <3>2
  <2>3. Engaged(t)' => \A u \in TaskIds : Written(u, ind(t))
    <3>1. Engaged(t)' => l = "claim"
      BY <1>1, <1>3 DEF Engaged, Reducing
    <3>2. \A u \in TaskIds : u <= numTasks - 1
      BY Constants DEF TaskIds
    <3> QED
      BY <1>4, <1>5, <3>1, <3>2
  <2> QED
    BY <1>1, <2>1, <2>2, <2>3 DEF RecentInv, CountWritten, Written, ind
<1>9. SumOK'
  <2>1. ~Reducing(t)'
    BY <1>1, <1>3 DEF Reducing
  <2>2. \A v \in TaskIds : v # t => spc'[v] = spc[v] /\ k'[v] = k[v]
    BY <1>1
  <2>3. \A v \in TaskIds : v # t => (Reducing(v)' <=> Reducing(v))
    BY <2>2 DEF Reducing
  <2> QED
    BY <1>1, <2>1, <2>2, <2>3, SumFrame
<1> QED
  BY <1>6, <1>7, <1>8, <1>9 DEF RecentInv

LEMMA ClaimWriteRecent ==
  ASSUME StopInv, RecentInv, NEW t \in TaskIds, ClaimWrite(t), UNCHANGED callVars
  PROVE  RecentInv'
<1>1. /\ spc[t] = "claimWrite" /\ k[t] = 0
      /\ \A v \in TaskIds : spc'[v] = IF v = t THEN "sum" ELSE spc[v]
      /\ \A v \in TaskIds : global_res'[v] = IF v = t THEN {} ELSE global_res[v]
      /\ \A v \in TaskIds : v # t => word'[v] = word[v]
      /\ UNCHANGED <<iter_number, loc_res2, loc_iters, k, found>>
  BY GotoFacts DEF ClaimWrite, Stores, At, callVars, StopInv, TypeOK, Loops
<1>2. SlotOK' /\ OwnStored' /\ Grows
  <2>1. \A v \in TaskIds : spc'[v] # "residual" => spc[v] # "residual"
    BY <1>1
  <2> QED
    BY <1>1, <2>1, SlotFrame
<1>3. MarksWritten'
  BY <1>1, <1>2, MarksFrame
<1>4. CountWritten'
  BY <1>1, <1>2, CountFrame DEF Counting, Engaged, Reducing
<1>5. SumOK'
  <2>1. ~OwnAdded(t)'
    BY <1>1 DEF OwnAdded, TaskIds
  <2> QED
    BY <1>1, <2>1 DEF RecentInv, SumOK, OwnAdded, Reducing
<1> QED
  BY <1>2, <1>3, <1>4, <1>5 DEF RecentInv

LEMMA SumRecent ==
  ASSUME StopInv, RecentInv, NEW t \in TaskIds, Sum(t), UNCHANGED callVars
  PROVE  RecentInv'
<1> DEFINE x == loc_res2[k[t]][ind(t)]
<1>1. /\ spc[t] = "sum" /\ k[t] \in TaskIds
      /\ \A v \in TaskIds : spc'[v] = IF v = t THEN "clear" ELSE spc[v]
      /\ \A v \in TaskIds : global_res'[v] = IF v = t THEN global_res[t] \cup {x} ELSE global_res[v]
      /\ UNCHANGED <<iter_number, loc_res2, loc_iters, word, k, found>>
  BY GotoFacts DEF Sum, At, callVars, bitVars, StopInv, TypeOK
<1>2. SlotOK' /\ OwnStored' /\ Grows
  <2>1. \A v \in TaskIds : spc'[v] # "residual" => spc[v] # "residual"
    BY <1>1
  <2> QED
    BY <1>1, <2>1, SlotFrame
<1>3. MarksWritten'
  BY <1>1, <1>2, MarksFrame
<1>4. CountWritten'
  BY <1>1, <1>2, CountFrame DEF Counting, Engaged, Reducing
<1>5. SumOK'
  <2>1. x \in Nat \cap {iter_number[t], iter_number[t] - numTasks}
    BY <1>1, RecentValue DEF RecentInv, CountWritten, Engaged, Reducing
  <2>2. k[t] = t => x = iter_number[t]
    BY <1>1 DEF RecentInv, OwnStored
  <2>3. OwnAdded(t)' => OwnAdded(t) \/ k[t] = t
    BY <1>1 DEF OwnAdded
  <2>4. \A v \in TaskIds : v # t => /\ Reducing(v)' <=> Reducing(v)
                                    /\ OwnAdded(v)' <=> OwnAdded(v)
    BY <1>1 DEF Reducing, OwnAdded
  <2>5. Reducing(t)
    BY <1>1 DEF Reducing
  <2> HIDE DEF x
  <2> QED
    BY <1>1, <2>1, <2>2, <2>3, <2>4, <2>5 DEF RecentInv, SumOK
<1> QED
  BY <1>2, <1>3, <1>4, <1>5 DEF RecentInv

LEMMA ClearRecent ==
  ASSUME StopInv, RecentInv, NEW t \in TaskIds, Clear(t), UNCHANGED callVars
  PROVE  RecentInv'
<1> DEFINE last == k[t] = numTasks - 1
           l == IF last THEN "gridGres" ELSE "sum"
<1>1. /\ spc[t] = "clearWrite"
      /\ \A v \in TaskIds : spc'[v] = IF v = t THEN l ELSE spc[v]
      /\ \A v \in TaskIds : k'[v] = IF v # t THEN k[v] ELSE IF last THEN 0 ELSE k[t] + 1
      /\ \A v \in TaskIds : loc_iters'[v] =
           IF v = k[t] THEN PutBack(t, loc_iters[v]) \ {ind(t)} ELSE loc_iters[v]
      /\ \A v \in TaskIds : v # t => word'[v] = word[v]
      /\ UNCHANGED <<iter_number, loc_res2, global_res, found>>
  <2>1. Loop(t, "sum", "gridGres")
    BY DEF Clear
  <2>2. Goto(t, l) /\ k' = [k EXCEPT ![t] = IF last THEN 0 ELSE k[t] + 1]
    BY <2>1, LoopFacts DEF StopInv
  <2>3. \A v \in TaskIds : spc'[v] = IF v = t THEN l ELSE spc[v]
    BY <2>2, GotoFacts
  <2> HIDE DEF l
  <2> QED
    BY <2>2, <2>3 DEF Clear, Stores, At, callVars, sumVars, StopInv, TypeOK
<1>2. /\ k[t] \in Nat /\ k[t] \in TaskIds /\ k[t] <= numTasks - 1
      /\ l \in {"sum", "gridGres"} /\ (l = "sum" <=> ~last)
  BY RingFacts
<1> HIDE DEF l
<1>3. SlotOK' /\ OwnStored' /\ Grows
  <2>1. \A v \in TaskIds : spc'[v] # "residual" => spc[v] # "residual"
    BY <1>1
  <2> QED
    BY <1>1, <2>1, SlotFrame
<1>4. MarksWritten'
  <2>1. \A s \in PutBack(t, loc_iters[k[t]]) : s \in loc_iters[k[t]] \/ s \in word[t]
    BY DEF PutBack
  <2>2. \A s \in loc_iters'[k[t]] : Written(k[t], s)
    BY <1>1, <1>2, <2>1 DEF RecentInv, MarksWritten
  <2>3. \A v \in TaskIds : spc'[v] \in {"markWrite", "clearWrite"} => v # t
    BY <1>1, <1>2
  <2>4. \A v \in TaskIds : \A s : Written(v, s)' <=> Written(v, s)
    BY <1>1 DEF Written
  <2>5. \A v \in TaskIds : \A s \in loc_iters'[v] : Written(v, s)
    BY <1>1, <2>2 DEF RecentInv, MarksWritten
  <2>6. ASSUME NEW v \in TaskIds, spc'[v] \in {"markWrite", "clearWrite"}
        PROVE  spc'[v] = spc[v] /\ word'[v] = word[v] /\ k'[v] = k[v]
    BY <1>1, <2>3, <2>6
  <2> HIDE DEF Written
  <2>7. \A v \in TaskIds : /\ spc'[v] = "markWrite" => \A s \in word'[v] : Written(v, s)
                           /\ spc'[v] = "clearWrite" => \A s \in word'[v] : Written(k'[v], s)
    BY <2>6 DEF RecentInv, MarksWritten
  <2>8. \A v \in TaskIds : spc'[v] = "clearWrite" => k'[v] \in TaskIds
    BY <2>6 DEF StopInv, TypeOK
  <2> QED
    BY <2>4, <2>5, <2>7, <2>8 DEF MarksWritten
<1>5. CountWritten'
  <2>1. \A v \in TaskIds : /\ Counting(v)' => v # t /\ Counting(v)
                           /\ Engaged(v)' => Engaged(v)
    BY <1>1, <1>2 DEF Counting, Engaged, Reducing
  <2> QED
    BY <1>1, <1>3, <2>1, CountFrame
<1>6. SumOK'
  <2>1. OwnAdded(t)' => OwnAdded(t)
    <3>1. t \in Int /\ t <= numTasks - 1
      BY Constants DEF TaskIds
    <3>2. CASE last
      BY <1>1, <1>2, <3>1, <3>2 DEF OwnAdded
    <3>3. CASE ~last
      <4>1. OwnAdded(t)' => t < k[t] + 1
        BY <1>1, <1>2, <3>3 DEF OwnAdded
      <4> QED
        BY <1>1, <1>2, <3>1, <4>1 DEF OwnAdded
    <3> QED
      BY <3>2, <3>3
  <2>2. \A v \in TaskIds : /\ Reducing(v)' <=> Reducing(v)
                           /\ v # t => (OwnAdded(v)' <=> OwnAdded(v))
    BY <1>1, <1>2 DEF Reducing, OwnAdded
  <2> QED
    BY <1>1, <2>1, <2>2 DEF RecentInv, SumOK
<1> QED
  BY <1>3, <1>4, <1>5, <1>6 DEF RecentInv

LEMMA SetPostCondsRecent ==
  ASSUME StopInv, RecentInv, NEW t \in TaskIds, SetPostConds(t)
  PROVE  RecentInv'
<1>1. /\ spc[t] = "update"
      /\ \A v \in TaskIds : spc'[v] = IF v = t THEN "residual" ELSE spc[v]
      /\ \A v \in TaskIds : iter_number'[v] = IF v = t THEN iter_number[t] + 1 ELSE iter_number[v]
      /\ UNCHANGED <<loc_res2, loc_iters, word, global_res, k, found>>
  BY GotoFacts DEF SetPostConds, At, Calls!SetPostConds, bitVars, sumVars, StopInv, TypeOK
<1>2. Grows
  BY <1>1 DEF Grows, Written
<1>3. SlotOK'
  <2>1. iter_number[t] \in Nat /\ numTasks \in Nat
    BY RingFacts, Constants
  <2> QED
    BY <1>1, <2>1 DEF RecentInv, SlotOK, Written, Slot
<1>4. OwnStored'
  BY <1>1 DEF RecentInv, OwnStored, ind
<1>5. MarksWritten'
  BY <1>1, <1>2, MarksFrame
<1>6. CountWritten'
  BY <1>1, <1>2, CountFrame DEF Counting, Engaged, Reducing
<1>7. SumOK'
  BY <1>1, SumFrame DEF Reducing
<1> QED
  BY <1>3, <1>4, <1>5, <1>6, <1>7 DEF RecentInv

LEMMA OtherRecent ==
  ASSUME StopInv, RecentInv, NEW t \in TaskIds,
         \/ UNCHANGED callVars /\ (\/ Claim(t) \/ StoreGres(t) \/ StoreIters(t) \/ Release(t))
         \/ StopStep(t) \/ Test(t)
  PROVE  RecentInv'
<1>1. UNCHANGED <<loc_res2, loc_iters, iter_number, global_res>>
  BY DEF Claim, StoreGres, StoreIters, Release, StopStep, Test, Calls!ReadUp, Calls!ReadDown,
         Calls!HasFinishedIters, callVars, bitVars, sumVars
<1>2. \A v \in TaskIds : v # t => /\ spc'[v] = spc[v] /\ word'[v] = word[v]
                                  /\ k'[v] = k[v] /\ found'[v] = found[v]
  BY GotoFacts, LoopFacts
     DEF Claim, Load, StoreGres, StoreIters, Release, Stores, StopStep, IsResTerCriMet, MaxScan,
         SetMax, Test, Goto, bitVars, StopInv, TypeOK
<1>3. \/ spc'[t] = spc[t] /\ word'[t] = word[t] /\ k'[t] = k[t] /\ found'[t] = found[t]
      \/ spc[t] # "residual" /\ spc'[t] \in {"criterion", "maxScan", "setMax", "update"}
      \/ spc[t] = "claim" /\ spc'[t] = "claimWrite"
      \/ /\ spc[t] \in {"gridGres", "gridIters"} /\ spc'[t] \in {"gridIters", "release"}
         /\ k'[t] = k[t]
  <2>1. CASE Claim(t)
    BY <2>1, GotoFacts DEF Claim, Load, At
  <2>2. CASE StoreGres(t) \/ StoreIters(t) \/ Release(t)
    BY <2>2, GotoFacts DEF StoreGres, StoreIters, Release, At
  <2>3. CASE IsResTerCriMet(t) \/ SetMax(t)
    BY <2>3, GotoFacts DEF IsResTerCriMet, SetMax, At
  <2>4. CASE MaxScan(t)
    BY <2>4, GotoFacts DEF MaxScan, Loop, At
  <2>5. CASE Test(t)
    BY <2>5 DEF Test, bitVars
  <2> QED
    BY <2>1, <2>2, <2>3, <2>4, <2>5 DEF StopStep
<1> QED
  BY <1>1, <1>2, <1>3, RecentFrame

LEMMA NextRecent == StopInv /\ RecentInv /\ [Next]_vars => RecentInv'
<1> SUFFICES ASSUME StopInv, RecentInv, [Next]_vars PROVE RecentInv'
  OBVIOUS
<1>1. CASE UNCHANGED vars
  <2>1. UNCHANGED <<loc_res2, loc_iters, iter_number, global_res, spc, word, k, found>>
    BY <1>1 DEF vars, callVars, bitVars, sumVars
  <2> QED
    BY <2>1, RecentFrame
<1>2. ASSUME NEW t \in TaskIds, SyncStep(t) PROVE RecentInv'
  BY <1>2, StoreResidualRecent, LoadWordRecent, MarkRecent, ScanRecent, ClaimWriteRecent,
     SumRecent, ClearRecent, OtherRecent DEF SyncStep
<1>3. ASSUME NEW t \in TaskIds, Test(t) \/ StopStep(t) \/ SetPostConds(t) PROVE RecentInv'
  BY <1>3, SetPostCondsRecent, OtherRecent
<1> QED
  BY <1>1, <1>2, <1>3 DEF Next, Task

LEMMA InitRecent == Init => RecentInv
<1> SUFFICES ASSUME Init PROVE RecentInv
  OBVIOUS
<1>1. /\ \A t \in TaskIds : spc[t] = "residual" /\ loc_iters[t] = {}
      /\ \A t \in TaskIds : ~Reducing(t) /\ ~Engaged(t) /\ ~Counting(t)
      /\ \A t \in TaskIds, s \in Slots : ~Written(t, s)
  BY DEF Init, Reducing, Engaged, Counting, Written
<1> QED
  BY <1>1 DEF RecentInv, SlotOK, OwnStored, MarksWritten, CountWritten, SumOK

LEMMA RecentInvariance == Spec => [](StopInv /\ RecentInv)
BY InitStop, InitRecent, NextStop, NextRecent, PTL DEF Spec

(***************************************************************************)
(* Whatever bits are lost, a reduction adds up residuals of its own        *)
(* iteration and of none but the one a round of the ring before; it is the *)
(* residual of its iteration, whole, as long as no bit was lost.           *)
(***************************************************************************)
THEOREM WholeResidual == Spec => []SumsRecent
<1>1. StopInv /\ RecentInv /\ (~lost => RingInv) => SumsRecent
  <2> SUFFICES ASSUME StopInv, RecentInv, ~lost => RingInv,
                      NEW t \in TaskIds, spc[t] = "releaseWrite"
               PROVE  /\ iter_number[t] \in global_res[t]
                      /\ global_res[t] \subseteq Nat \cap {iter_number[t], iter_number[t] - numTasks}
                      /\ lost \/ global_res[t] = {iter_number[t]}
    BY DEF SumsRecent
  <2>1. Reducing(t) /\ OwnAdded(t)
    BY DEF Reducing, OwnAdded
  <2>2. lost \/ global_res[t] = {iter_number[t]}
    BY <2>1 DEF RingInv, Sums
  <2> QED
    BY <2>1, <2>2 DEF RecentInv, SumOK
<1> QED
  BY <1>1, RecentInvariance, RingInvariance, PTL

-----------------------------------------------------------------------------
(* The early stop that comes early enough, as long as no bit was lost.  The *)
(* residual of iteration convergedAt is below the tolerance, and its        *)
(* reducer has not left that iteration before it has asked isResTerCriMet.  *)
(* So the stop is decided in that iteration.                                *)

EarlyEnough == convergedAt + numTasks <= startMaxIter

\* t has compared what it has added up, and not yet ended the reduction.
Compared(t) == spc[t] \in {"gridIters", "release", "releaseWrite"}

Verdict == \A t \in TaskIds : Compared(t) => (below[t] <=> iter_number[t] >= convergedAt)

\* Only a task that has just reduced could decide.
Deciders ==
  \A t \in TaskIds :
    below[t] /\ ~resTermFlagSet =>
      Compared(t) \/ (spc[t] = "criterion" /\ iter_number[t] = convergedAt)

\* Once the residual is reduced somebody is about to decide, or has decided.
Converging ==
  convergedAt \in reduced /\ ~resTermFlagSet =>
    \E u \in TaskIds : spc[u] = "criterion" /\ iter_number[u] = convergedAt /\ below[u]

Decided ==
  /\ \A t \in TaskIds : Deciding(t) => iter_number[t] = convergedAt
  /\ resTermFlagSet => \/ \E t \in TaskIds : Deciding(t)
                       \/ maxIter = convergedAt + numTasks

EarlyInv == Verdict /\ Deciders /\ Converging /\ Decided

\* Nobody reduces a later iteration before the stop is decided.
LEMMA NotLater ==
  ASSUME StopInv, RingInv, Converging, ~resTermFlagSet, NEW t \in TaskIds, Reducing(t)
  PROVE  iter_number[t] <= convergedAt
<1> SUFFICES ASSUME iter_number[t] > convergedAt PROVE FALSE
  BY RingFacts, Constants
<1>1. \A u \in TaskIds : iter_number[t] < Marks(u)
  BY DEF Engaged, RingInv, CountOK, AllMarked
<1>2. \E u \in TaskIds : iter_number[u] = convergedAt
  <2>1. CASE convergedAt \in reduced
    BY <2>1 DEF Converging
  <2>2. CASE convergedAt \notin reduced
    <3>1. AllMarked(convergedAt)
      BY <1>1, RingFacts, Constants DEF AllMarked
    <3> QED
      BY <2>2, <3>1, Constants DEF RingInv, Pending
  <2> QED
    BY <2>1, <2>2
<1> QED
  BY <1>1, <1>2, RingFacts, Constants

\* The residual that is compared is that of the iteration, whole.
LEMMA StoreGresVerdict ==
  ASSUME StopInv, RingInv, NEW t \in TaskIds, StoreGres(t)
  PROVE  /\ spc[t] = "gridGres" /\ spc'[t] = "gridIters"
         /\ reduced' = reduced
         /\ below'[t] <=> iter_number[t] >= convergedAt
<1>1. spc[t] = "gridGres" /\ spc'[t] = "gridIters" /\ reduced' = reduced
  BY GotoFacts DEF StoreGres, At
<1>2. global_res[t] = {iter_number[t]}
  BY <1>1 DEF RingInv, Sums, Reducing
<1>3. PICK b \in Verdicts(global_res[t]) : below' = [below EXCEPT ![t] = b]
  BY DEF StoreGres
<1>4. b \in BOOLEAN /\ b = (iter_number[t] >= convergedAt)
  BY <1>2, <1>3 DEF Verdicts
<1> QED
  BY <1>1, <1>3, <1>4 DEF StopInv, TypeOK

\* The other steps of syncResidual.
LEMMA NoVerdict ==
  ASSUME StopInv, NEW t \in TaskIds, SyncStep(t), ~StoreGres(t)
  PROVE  /\ below'[t] = below[t]
         /\ Compared(t)' => Compared(t)
         /\ Compared(t) => Compared(t)' \/ spc[t] = "releaseWrite"
         /\ spc[t] = "releaseWrite" => /\ spc'[t] = "criterion"
                                       /\ reduced' = reduced \cup {iter_number[t]}
         /\ spc[t] # "releaseWrite" => reduced' = reduced
<1>1. CASE StoreResidual(t) \/ LoadWord(t) \/ Mark(t) \/ Scan(t) \/ Claim(t) \/ ClaimWrite(t)
  BY <1>1, GotoFacts, LoopFacts
     DEF StoreResidual, LoadWord, Load, Mark, Scan, Claim, ClaimWrite, At, sumVars, Compared, StopInv
<1>2. CASE Sum(t) \/ Clear(t) \/ StoreIters(t) \/ Release(t)
  BY <1>2, GotoFacts, LoopFacts DEF Sum, Clear, StoreIters, Release, At, sumVars, Compared, StopInv
<1> QED
  BY <1>1, <1>2 DEF SyncStep

LEMMA SyncEarly ==
  ASSUME StopInv, RingInv, EarlyInv, NEW t \in TaskIds, SyncStep(t)
  PROVE  EarlyInv'
<1>1. /\ UNCHANGED <<iter_number, tpc, maxIter, resTermFlagSet, fault>>
      /\ spc[t] \notin {"criterion", "maxScan", "setMax", "update"}
      /\ spc'[t] \notin {"maxScan", "setMax"}
      /\ \A v \in TaskIds : v # t => spc'[v] = spc[v] /\ below'[v] = below[v]
  BY SyncFacts
<1>2. Decided'
  BY <1>1 DEF EarlyInv, Decided, Deciding
<1>3. iter_number[t] \in Nat /\ convergedAt \in Nat
  BY RingFacts, Constants
<1>4. CASE StoreGres(t)
  <2>1. /\ spc[t] = "gridGres" /\ spc'[t] = "gridIters" /\ reduced' = reduced
        /\ below'[t] <=> iter_number[t] >= convergedAt
    BY <1>4, StoreGresVerdict
  <2>2. Verdict' /\ Deciders'
    BY <1>1, <2>1 DEF EarlyInv, Verdict, Deciders, Compared
  <2>3. Converging'
    BY <1>1, <2>1 DEF EarlyInv, Converging
  <2> QED
    BY <1>2, <2>2, <2>3 DEF EarlyInv
<1>5. CASE ~StoreGres(t)
  <2>1. /\ below'[t] = below[t] /\ (Compared(t)' => Compared(t))
        /\ Compared(t) => Compared(t)' \/ spc[t] = "releaseWrite"
        /\ spc[t] = "releaseWrite" => /\ spc'[t] = "criterion"
                                      /\ reduced' = reduced \cup {iter_number[t]}
        /\ spc[t] # "releaseWrite" => reduced' = reduced
    BY <1>5, NoVerdict
  <2>2. \A v \in TaskIds : v # t => (Compared(v)' <=> Compared(v))
    BY <1>1 DEF Compared
  <2>3. Verdict'
    BY <1>1, <2>1, <2>2 DEF EarlyInv, Verdict
  <2>4. Deciders'
    <3>1. ASSUME below[t], ~resTermFlagSet, spc[t] = "releaseWrite"
          PROVE  iter_number[t] = convergedAt
      <4>1. iter_number[t] >= convergedAt
        BY <3>1 DEF EarlyInv, Verdict, Compared
      <4>2. iter_number[t] <= convergedAt
        BY <3>1, NotLater DEF EarlyInv, Reducing
      <4> QED
        BY <1>3, <4>1, <4>2
    <3> QED
      BY <1>1, <2>1, <2>2, <3>1 DEF EarlyInv, Deciders
  <2>5. Converging'
    <3> SUFFICES ASSUME convergedAt \in reduced', ~resTermFlagSet'
                 PROVE  \E u \in TaskIds : /\ spc'[u] = "criterion" /\ below'[u]
                                           /\ iter_number'[u] = convergedAt
      BY DEF Converging
    <3>1. CASE convergedAt \in reduced
      <4>1. PICK u \in TaskIds : spc[u] = "criterion" /\ iter_number[u] = convergedAt /\ below[u]
        BY <1>1, <3>1 DEF EarlyInv, Converging
      <4> QED
        BY <1>1, <4>1
    <3>2. CASE convergedAt \notin reduced
      <4>1. spc[t] = "releaseWrite" /\ iter_number[t] = convergedAt
        BY <2>1, <3>2
      <4>2. below[t]
        BY <1>3, <4>1 DEF EarlyInv, Verdict, Compared
      <4> QED
        BY <1>1, <2>1, <4>1, <4>2
    <3> QED
      BY <3>1, <3>2
  <2> QED
    BY <1>2, <2>3, <2>4, <2>5 DEF EarlyInv
<1> QED
  BY <1>4, <1>5

LEMMA IsResTerCriMetEarly ==
  ASSUME StopInv, EarlyInv, NEW t \in TaskIds, IsResTerCriMet(t),
         UNCHANGED <<callVars, bitVars, sumVars, mu_task>>
  PROVE  EarlyInv'
<1>1. /\ UNCHANGED <<iter_number, maxIter, below, reduced>>
      /\ spc[t] = "criterion"
      /\ \A v \in TaskIds : v # t => spc'[v] = spc[v]
  BY GotoFacts DEF IsResTerCriMet, At, callVars, sumVars
<1>2. CASE below[t] /\ ~resTermFlagSet
  <2>1. resTermFlagSet' /\ spc'[t] = "maxScan" /\ iter_number[t] = convergedAt
    BY <1>1, <1>2, GotoFacts DEF IsResTerCriMet, EarlyInv, Deciders, Compared
  <2>2. Decided'
    BY <1>1, <2>1 DEF EarlyInv, Decided, Deciding
  <2> QED
    BY <1>1, <2>1, <2>2 DEF EarlyInv, Verdict, Compared, Deciders, Converging
<1>3. CASE ~(below[t] /\ ~resTermFlagSet)
  <2>1. resTermFlagSet' = resTermFlagSet /\ spc'[t] = "update"
    BY <1>3, GotoFacts DEF IsResTerCriMet
  <2> QED
    BY <1>1, <1>3, <2>1
       DEF EarlyInv, Verdict, Compared, Deciders, Converging, Decided, Deciding
<1> QED
  BY <1>2, <1>3

\* The task that decides is in iteration convergedAt until it has set the bound.
LEMMA ChangeMaxIterEarly ==
  ASSUME StopInv, EarlyInv, NEW t \in TaskIds, MaxScan(t) \/ SetMax(t),
         UNCHANGED <<callVars, bitVars, sumVars, mu_task>>
  PROVE  EarlyInv'
<1>1. /\ UNCHANGED <<iter_number, resTermFlagSet, below, reduced>>
      /\ spc[t] \in {"maxScan", "setMax"} /\ resTermFlagSet
      /\ iter_number[t] = convergedAt
  BY DEF MaxScan, SetMax, At, callVars, sumVars, Deciding, StopInv, Decision, EarlyInv, Decided
<1>2. PICK l \in {"maxScan", "setMax", "update"} :
        /\ \A v \in TaskIds : spc'[v] = IF v = t THEN l ELSE spc[v]
        /\ IF l = "update" THEN maxIter' = convergedAt + numTasks ELSE maxIter' = maxIter
  <2>1. CASE SetMax(t)
    BY <1>1, <2>1, GotoFacts DEF SetMax
  <2>2. CASE MaxScan(t)
    <3>1. /\ Loop(t, "maxScan", "setMax") \/ (UNCHANGED spc /\ spc[t] = "maxScan")
          /\ maxIter' = maxIter
      BY <2>2 DEF MaxScan, At
    <3> QED
      BY <3>1, GotoFacts DEF Loop
  <2> QED
    BY <2>1, <2>2
<1>3. Verdict' /\ Deciders' /\ Converging'
  BY <1>1, <1>2 DEF EarlyInv, Verdict, Compared, Deciders, Converging
<1>4. Decided'
  BY <1>1, <1>2 DEF EarlyInv, Decided, Deciding
<1> QED
  BY <1>3, <1>4 DEF EarlyInv

\* The steps of TaskCalls, which touch neither residuals nor the decision.
LEMMA CallEarly ==
  ASSUME StopInv, EarlyInv, NEW t \in TaskIds, Test(t) \/ SetPostConds(t)
  PROVE  EarlyInv'
<1>1. UNCHANGED <<maxIter, resTermFlagSet, below, reduced>>
  BY DEF Test, SetPostConds, stopVars, sumVars
<1>2. \A v \in TaskIds :
        \/ spc'[v] = spc[v] /\ iter_number'[v] = iter_number[v]
        \/ spc[v] = "update" /\ spc'[v] = "residual"
  BY GotoFacts DEF Test, Calls!ReadUp, Calls!ReadDown, Calls!HasFinishedIters,
                   SetPostConds, Calls!SetPostConds, At, Goto, StopInv, TypeOK
<1> QED
  BY <1>1, <1>2 DEF EarlyInv, Verdict, Compared, Deciders, Converging, Decided, Deciding

LEMMA InitEarly == Init => EarlyInv
BY DEF Init, EarlyInv, Verdict, Compared, Deciders, Converging, Decided, Deciding

LEMMA NextEarly == StopInv /\ RingInv /\ EarlyInv /\ [Next]_vars => EarlyInv'
<1> SUFFICES ASSUME StopInv, RingInv, EarlyInv, [Next]_vars PROVE EarlyInv'
  OBVIOUS
<1>1. CASE UNCHANGED vars
  BY <1>1 DEF vars, callVars, sumVars, stopVars, EarlyInv, Verdict, Compared, Deciders,
              Converging, Decided, Deciding
<1>2. ASSUME NEW t \in TaskIds, StopStep(t) PROVE EarlyInv'
  BY <1>2, IsResTerCriMetEarly, ChangeMaxIterEarly DEF StopStep
<1>3. ASSUME NEW t \in TaskIds, Test(t) \/ SyncStep(t) \/ SetPostConds(t) PROVE EarlyInv'
  BY <1>3, CallEarly, SyncEarly
<1> QED
  BY <1>1, <1>2, <1>3 DEF Next, Task

LEMMA EarlyInvariance == Spec => [](~lost => EarlyInv)
<1>1. Init => (~lost => EarlyInv)
  BY InitEarly
<1>2. StopInv /\ (~lost => RingInv) /\ (~lost => EarlyInv) /\ [Next]_vars => (~lost => EarlyInv)'
  BY NextEarly, LostStays
<1> QED
  BY <1>1, <1>2, RingInvariance, PTL DEF Spec

(***************************************************************************)
(* Unless the bound rises, no task stops short of it.  If the tolerance is *)
(* met numTasks iterations before the bound or earlier, the stop comes     *)
(* numTasks iterations after the one whose residual was below, unless a    *)
(* bit was lost.                                                           *)
(***************************************************************************)
THEOREM AllStopTogether ==
  ASSUME EarlyEnough
  PROVE  Spec => []StopsTogether
<1>1. ASSUME StopInv, EndInv, maxIter <= startMaxIter, NEW t \in TaskIds, tpc[t] = "finished"
      PROVE  iter_number[t] = maxIter
  <2>1. maxIter \in Nat /\ iter_number[t] \in Nat
    BY <1>1, RingFacts, Constants DEF StopInv, TypeOK
  <2>2. iter_number[t] <= maxIter /\ iter_number[t] >= maxIter
    BY <1>1 DEF StopInv, Bounds, EndInv, Stopped
  <2> QED
    BY <2>1, <2>2
<1>2. ASSUME StopInv, EndInv, RingInv, EarlyInv, Finished
      PROVE  maxIter = convergedAt + numTasks
  <2>1. \A t \in TaskIds : spc[t] = "residual"
    BY <1>2 DEF Finished, StopInv, Outside
  <2>2. CASE resTermFlagSet
    BY <1>2, <2>1, <2>2 DEF EarlyInv, Decided, Deciding
  <2>3. CASE ~resTermFlagSet
    <3>1. maxIter = startMaxIter
      BY <1>2, <2>3 DEF StopInv, Decision
    <3>2. \A t \in TaskIds : iter_number[t] = startMaxIter
      BY <1>1, <1>2, <3>1, Constants DEF Finished
    <3>3. convergedAt \notin reduced
      BY <1>2, <2>1, <2>3 DEF EarlyInv, Converging
    <3>4. AllMarked(convergedAt) /\ \A t \in TaskIds : iter_number[t] # convergedAt
      BY <1>2, <3>2, RingFacts, Constants DEF AllMarked, EarlyEnough
    <3> QED
      BY <1>2, <3>3, <3>4, Constants DEF RingInv, Pending
  <2> QED
    BY <2>2, <2>3
<1>3. StopInv /\ EndInv /\ (~lost => RingInv) /\ (~lost => EarlyInv) => StopsTogether
  <2> SUFFICES ASSUME StopInv, EndInv, ~lost => RingInv, ~lost => EarlyInv PROVE StopsTogether
    OBVIOUS
  <2>1. ASSUME ~lost, Finished, NEW t \in TaskIds PROVE iter_number[t] = convergedAt + numTasks
    <3>1. maxIter = convergedAt + numTasks
      BY <1>2, <2>1
    <3>2. maxIter <= startMaxIter
      BY <3>1 DEF EarlyEnough
    <3> QED
      BY <1>1, <2>1, <3>1, <3>2 DEF Finished
  <2> QED
    BY <1>1, <2>1 DEF StopsTogether
<1> QED
  BY <1>3, EndInvariance, RingInvariance, EarlyInvariance, PTL

-----------------------------------------------------------------------------
(* The early stop that does not come: every residual up to the bound is    *)
(* above the tolerance, and no bit was lost.                               *)

NeverConverges == convergedAt >= startMaxIter

NeverInv == ~resTermFlagSet /\ \A t \in TaskIds : ~below[t]

LEMMA NextNever ==
  ASSUME NeverConverges
  PROVE  StopInv /\ RingInv /\ NeverInv /\ [Next]_vars => NeverInv'
<1> SUFFICES ASSUME StopInv, RingInv, NeverInv, [Next]_vars PROVE NeverInv'
  OBVIOUS
<1>1. CASE UNCHANGED vars
  BY <1>1 DEF vars, sumVars, stopVars, NeverInv
<1>2. ASSUME NEW t \in TaskIds, SyncStep(t) PROVE NeverInv'
  <2>1. /\ resTermFlagSet' = resTermFlagSet /\ tpc[t] = "work"
        /\ \A v \in TaskIds : v # t => below'[v] = below[v]
    BY <1>2, SyncFacts
  <2>2. CASE StoreGres(t)
    <3>1. iter_number[t] \in Nat /\ iter_number[t] < startMaxIter
      BY <2>1, RingFacts DEF StopInv, Bounds, Decision, NeverInv
    <3>2. ~below'[t]
      BY <2>2, <3>1, StoreGresVerdict, Constants DEF NeverConverges
    <3> QED
      BY <2>1, <3>2 DEF NeverInv
  <2>3. CASE ~StoreGres(t)
    BY <1>2, <2>1, <2>3, NoVerdict DEF NeverInv
  <2> QED
    BY <2>2, <2>3
<1>3. ASSUME NEW t \in TaskIds, StopStep(t) PROVE NeverInv'
  <2>1. ~Deciding(t) /\ below' = below
    BY <1>3 DEF StopStep, sumVars, StopInv, Decision, NeverInv
  <2>2. UNCHANGED resTermFlagSet
    BY <1>3, <2>1 DEF StopStep, IsResTerCriMet, MaxScan, SetMax, NeverInv
  <2> QED
    BY <2>1, <2>2 DEF NeverInv
<1>4. ASSUME NEW t \in TaskIds, Test(t) \/ SetPostConds(t) PROVE NeverInv'
  BY <1>4 DEF Test, SetPostConds, stopVars, sumVars, NeverInv
<1> QED
  BY <1>1, <1>2, <1>3, <1>4 DEF Next, Task

\* Nobody stops early, and nobody runs further than asked.
RunsToTheBound ==
  /\ ~resTermFlagSet /\ Alive
  /\ \A t \in TaskIds : tpc[t] = "finished" => iter_number[t] = startMaxIter

(***************************************************************************)
(* If no residual within the bound is below the tolerance, the early stop  *)
(* is never decided and every task does all startMaxIter iterations.  It   *)
(* takes a lost bit to stop the tasks earlier, by a sum that is made of    *)
(* the residuals of two iterations.                                        *)
(***************************************************************************)
THEOREM NoEarlyStop ==
  ASSUME NeverConverges
  PROVE  Spec => [](lost \/ RunsToTheBound)
<1>1. ASSUME StopInv, EndInv, NeverInv PROVE RunsToTheBound
  <2>1. maxIter = startMaxIter /\ \A t \in TaskIds : ~Deciding(t)
    BY <1>1 DEF StopInv, Decision, NeverInv
  <2>2. Alive
    BY <1>1, <2>1 DEF EndInv, AbortsOnlyLate, Deciding
  <2>3. ASSUME NEW t \in TaskIds, tpc[t] = "finished" PROVE iter_number[t] = startMaxIter
    <3>1. iter_number[t] <= startMaxIter /\ iter_number[t] >= startMaxIter
      BY <1>1, <2>1, <2>3, Constants DEF StopInv, Bounds, EndInv, Stopped
    <3> QED
      BY <1>1, <3>1, RingFacts, Constants
  <2> QED
    BY <1>1, <2>2, <2>3 DEF NeverInv, RunsToTheBound
<1>2. Init => (~lost => NeverInv)
  BY DEF Init, NeverInv
<1>3. StopInv /\ (~lost => RingInv) /\ (~lost => NeverInv) /\ [Next]_vars => (~lost => NeverInv)'
  BY NextNever, LostStays
<1>4. StopInv /\ EndInv /\ (~lost => NeverInv) => lost \/ RunsToTheBound
  BY <1>1
<1> QED
  BY <1>2, <1>3, <1>4, RingInvariance, EndInvariance, PTL DEF Spec

-----------------------------------------------------------------------------
(* Waiting for the mutex. *)

HolderReleases == mu_task # Free => tpc[mu_task] = "work" /\ spc[mu_task] = "claimWrite"

LEMMA NextReleases == StopInv /\ HolderReleases /\ [Next]_vars => HolderReleases'
<1> SUFFICES ASSUME StopInv, HolderReleases, [Next]_vars PROVE HolderReleases'
  OBVIOUS
<1> USE DEF StopInv, TypeOK, Free, HolderReleases
<1>1. CASE UNCHANGED vars
  BY <1>1 DEF vars, callVars
<1>2. ASSUME NEW t \in TaskIds, Claim(t), UNCHANGED callVars PROVE HolderReleases'
  <2>1. mu_task' = Free \/ (mu_task' = t /\ Goto(t, "claimWrite"))
    BY <1>2 DEF Claim, Load
  <2> QED
    BY <1>2, <2>1 DEF Claim, At, Goto, callVars
<1>3. ASSUME NEW t \in TaskIds, ClaimWrite(t) PROVE HolderReleases'
  BY <1>3 DEF ClaimWrite
<1>4. ASSUME NEW t \in TaskIds, mu_task' = mu_task,
             \A v \in TaskIds : v # t => tpc'[v] = tpc[v] /\ spc'[v] = spc[v],
             ~(tpc[t] = "work" /\ spc[t] = "claimWrite")
      PROVE  HolderReleases'
  BY <1>4
<1>5. ASSUME NEW t \in TaskIds, Test(t) PROVE HolderReleases'
  <2>1. mu_task' = mu_task /\ spc' = spc /\ tpc[t] # "work"
        /\ \A v \in TaskIds : v # t => tpc'[v] = tpc[v]
    BY <1>5 DEF Test, Calls!ReadUp, Calls!ReadDown, Calls!HasFinishedIters, Calls!At, Calls!Step
  <2> QED
    BY <1>4, <2>1
<1>6. ASSUME NEW t \in TaskIds, SyncStep(t), ~Claim(t), ~ClaimWrite(t) PROVE HolderReleases'
  <2>1. /\ mu_task' = mu_task /\ tpc' = tpc /\ spc[t] # "claimWrite"
        /\ \A v \in TaskIds : v # t => spc'[v] = spc[v]
    BY <1>6 DEF SyncStep, StoreResidual, LoadWord, Load, Mark, Scan, Loop, Sum, Clear,
                StoreGres, StoreIters, Release, At, Goto, callVars
  <2> QED
    BY <1>4, <2>1
<1>7. ASSUME NEW t \in TaskIds, StopStep(t) \/ SetPostConds(t) PROVE HolderReleases'
  <2>1. /\ mu_task' = mu_task /\ spc[t] # "claimWrite"
        /\ \A v \in TaskIds : v # t => tpc'[v] = tpc[v] /\ spc'[v] = spc[v]
    BY <1>7 DEF StopStep, IsResTerCriMet, MaxScan, SetMax, SetPostConds, Calls!SetPostConds,
                Calls!Step, Loop, At, Goto, callVars
  <2> QED
    BY <1>4, <2>1
<1> QED
  BY <1>1, <1>2, <1>3, <1>5, <1>6, <1>7 DEF Next, Task, SyncStep

(***************************************************************************)
(* Nobody waits for mu_task in vain: between its lock and its unlock a     *)
(* task waits for nothing, whichever way it leaves the section, and it     *)
(* never waits for the mutex while it holds it.                            *)
(***************************************************************************)
THEOREM MutexComesFree == Spec => []HolderReleases
<1>1. Init => HolderReleases
  BY DEF Init, HolderReleases
<1> QED
  BY <1>1, NextReleases, StopInvariance, PTL DEF Spec
=============================================================================

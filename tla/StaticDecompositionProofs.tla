---------------------- MODULE StaticDecompositionProofs ----------------------
(***************************************************************************)
(* The static scheduler for any number of threads, tasks and iterations.   *)
(*                                                                         *)
(* The ranges dealt out are disjoint and cover all tasks, whatever the     *)
(* division leaves over (Disjoint, Covered).  The barrier keeps everybody  *)
(* in the same round (Rounds): a thread that waits at a barrier which has  *)
(* been released counts as being in the next round already.  A task has    *)
(* then been executed once for every iteration of its thread, and once     *)
(* more if the thread has passed it in the present one (Progress).         *)
(***************************************************************************)
EXTENDS StaticDecomposition, FiniteSetTheorems, TLAPS

First(tid) == Share(tid)[1]
Last(tid) == Share(tid)[2]

\* The tasks of thread tid.
Own(tid) == {t \in TaskIds : First(tid) <= t /\ t < Last(tid)}

Mapped ==
  /\ mpc = "map" => \A tid \in Threads : tpc[tid] = "unborn"
  /\ mpc # "map" => taskInds = [tid \in Threads |-> Share(tid)]

Waiting ==
  /\ arrived # Threads
  /\ \A tid \in arrived : tpc[tid] = "barrier"

Round(tid) == IF tpc[tid] = "barrier" /\ tid \notin arrived THEN iter[tid] + 1 ELSE iter[tid]
Rounds == \A a, b \in Threads : Round(a) = Round(b)

Loops ==
  \A tid \in Threads :
    /\ tpc[tid] \in {"tasks", "sleep", "barrier"} => iter[tid] < niters
    /\ tpc[tid] = "ended" => iter[tid] = niters
    /\ tpc[tid] \in {"tasks", "sleep"} => First(tid) <= taskid[tid]
    /\ tpc[tid] = "sleep" => taskid[tid] < Last(tid)

Executed(tid, t) ==
  tpc[tid] = "barrier" \/ (tpc[tid] \in {"tasks", "sleep"} /\ t < taskid[tid])

Progress ==
  \A tid \in Threads : \A t \in Own(tid) :
    done[t] = IF Executed(tid, t) THEN iter[tid] + 1 ELSE iter[tid]

Returned == mpc = "returned" => \A tid \in Threads : tpc[tid] = "ended"

Inv ==
  /\ TypeOK
  /\ Mapped
  /\ Waiting
  /\ Rounds
  /\ Loops
  /\ Progress
  /\ Returned

-----------------------------------------------------------------------------
(* The ranges of setThreadTaskMap. *)

LEMMA Constants ==
  niters \in Nat /\ nthreads \in Nat \ {0} /\ ntasks \in Nat \ {0}
BY nitersAssumption, nthreadsAssumption, ntasksAssumption

LEMMA DivMod ==
  ASSUME NEW a \in Nat, NEW n \in Nat \ {0}
  PROVE  /\ a \div n \in Nat /\ a % n \in Nat /\ a % n < n
         /\ a = n * (a \div n) + (a % n)
OBVIOUS

LEMMA Monotone ==
  ASSUME NEW a \in Nat, NEW b \in Nat, NEW q \in Nat, a <= b
  PROVE  a * q \in Nat /\ b * q \in Nat /\ a * q <= b * q
<1>1. PICK d \in Nat : b = a + d
  <2>1. b - a \in Nat /\ b = a + (b - a)
    OBVIOUS
  <2> QED
    BY <2>1
<1>2. b * q = a * q + d * q /\ d * q \in Nat /\ a * q \in Nat
  BY <1>1
<1> QED
  BY <1>2

LEMMA ShareFacts ==
  ASSUME NEW tid \in Threads
  PROVE  /\ Share(tid) = <<First(tid), Last(tid)>>
         /\ First(tid) \in 0 .. ntasks /\ Last(tid) \in 0 .. ntasks
         /\ First(tid) = tid * (ntasks \div nthreads)
         /\ Last(tid) = IF tid = nthreads - 1 THEN ntasks
                        ELSE (tid + 1) * (ntasks \div nthreads)
<1> DEFINE q == ntasks \div nthreads
<1>1. q \in Nat /\ nthreads * q \in Nat /\ nthreads * q <= ntasks /\ ntasks \in Nat
  <2>1. q \in Nat /\ ntasks % nthreads \in Nat /\ ntasks = nthreads * q + (ntasks % nthreads)
    BY Constants, DivMod
  <2>2. nthreads * q \in Nat
    BY <2>1, Constants
  <2> QED
    BY <2>1, <2>2, Constants
<1>2. tid \in Nat /\ tid + 1 \in Nat /\ tid <= nthreads /\ tid + 1 <= nthreads
  BY Constants DEF Threads
<1>3. /\ First(tid) = tid * q
      /\ Last(tid) = IF tid = nthreads - 1 THEN ntasks ELSE (tid + 1) * q
      /\ Share(tid) = <<First(tid), Last(tid)>>
  BY DEF First, Last, Share
<1> HIDE DEF q
<1>4. tid * q \in Nat /\ (tid + 1) * q \in Nat
      /\ tid * q <= nthreads * q /\ (tid + 1) * q <= nthreads * q
  BY <1>1, <1>2, Monotone, Constants
<1>5. First(tid) \in 0 .. ntasks /\ Last(tid) \in 0 .. ntasks
  BY <1>1, <1>3, <1>4
<1> QED
  BY <1>3, <1>5 DEF q

\* No task belongs to two threads.
LEMMA Disjoint ==
  ASSUME NEW a \in Threads, NEW b \in Threads, NEW t \in TaskIds, t \in Own(a), t \in Own(b)
  PROVE  a = b
<1> DEFINE q == ntasks \div nthreads
<1>1. q \in Nat
  BY Constants, DivMod
<1>2. ASSUME NEW c \in Threads, NEW d \in Threads, c < d
      PROVE  Last(c) <= First(d)
  <2>1. c \in Nat /\ d \in Nat /\ c + 1 <= d /\ c # nthreads - 1 /\ c + 1 \in Nat
    BY <1>2, Constants DEF Threads
  <2>2. Last(c) = (c + 1) * q /\ First(d) = d * q
    BY <2>1, ShareFacts
  <2> QED
    BY <1>1, <2>1, <2>2, Monotone
<1>3. /\ First(a) <= t /\ t < Last(a) /\ First(b) <= t /\ t < Last(b) /\ t \in Int
      /\ First(a) \in Int /\ Last(a) \in Int /\ First(b) \in Int /\ Last(b) \in Int
      /\ a \in Int /\ b \in Int
  BY ShareFacts DEF Own, TaskIds, Threads
<1>4. ~(a < b) /\ ~(b < a)
  BY <1>2, <1>3
<1> QED
  BY <1>3, <1>4

\* Every task belongs to a thread.
LEMMA Covered == \A t \in TaskIds : \E tid \in Threads : t \in Own(tid)
<1> DEFINE q == ntasks \div nthreads
           last == nthreads - 1
<1> SUFFICES ASSUME NEW t \in TaskIds PROVE \E tid \in Threads : t \in Own(tid)
  OBVIOUS
<1>1. q \in Nat /\ last \in Nat /\ last \in Threads /\ t \in Nat /\ t < ntasks
  BY Constants, DivMod DEF TaskIds, Threads
<1>2. CASE last * q <= t
  BY <1>1, <1>2, ShareFacts DEF Own
<1>3. CASE t < last * q
  <2> HIDE DEF last, q
  <2>1. q # 0
    BY <1>1, <1>3
  <2> DEFINE p == t \div q
  <2>2. p \in Nat /\ t % q \in Nat /\ t % q < q /\ t = q * p + (t % q)
    BY <1>1, <2>1, DivMod
  <2> HIDE DEF p
  <2>3. p * q \in Nat /\ p * q <= t /\ t < (p + 1) * q /\ (p + 1) * q \in Nat
    <3>1. q * p = p * q /\ p * q \in Nat /\ (p + 1) * q = p * q + q
      BY <1>1, <2>2
    <3> QED
      BY <1>1, <2>2, <3>1
  <2>4. p < last
    <3>1. last * q \in Nat /\ (last <= p => last * q <= p * q)
      BY <1>1, <2>2, Monotone
    <3> QED
      BY <1>1, <1>3, <2>2, <2>3, <3>1
  <2>5. p \in Threads /\ p # nthreads - 1
    BY <2>2, <2>4, Constants DEF Threads, last
  <2>6. First(p) = p * q /\ Last(p) = (p + 1) * q
    BY <2>5, ShareFacts DEF q
  <2> QED
    BY <2>3, <2>5, <2>6 DEF Own
<1> QED
  BY <1>1, <1>2, <1>3

-----------------------------------------------------------------------------
LEMMA InitInv == Init => Inv
<1> SUFFICES ASSUME Init PROVE Inv
  OBVIOUS
<1>1. TypeOK
  BY Constants DEF Init, TypeOK, ThreadPC
<1>2. Mapped /\ Loops /\ Returned
  BY DEF Init, Mapped, Loops, Returned
<1>3. Waiting
  <2>1. 0 \in Threads
    BY Constants DEF Threads
  <2> QED
    BY <2>1 DEF Init, Waiting
<1>4. Rounds /\ Progress
  BY DEF Init, Rounds, Round, Progress, Own, Executed
<1> QED
  BY <1>1, <1>2, <1>3, <1>4 DEF Inv

\* What a step needs to know of the thread that takes it.
LEMMA ThreadFacts ==
  ASSUME Inv, NEW tid \in Threads
  PROVE  /\ iter[tid] \in Nat /\ iter[tid] <= niters /\ taskid[tid] \in Nat
         /\ tpc[tid] # "unborn" =>
              mpc # "map" /\ taskInds[tid][1] = First(tid) /\ taskInds[tid][2] = Last(tid)
         /\ First(tid) \in 0 .. ntasks /\ Last(tid) \in 0 .. ntasks
<1>1. iter[tid] \in Nat /\ iter[tid] <= niters /\ taskid[tid] \in Nat
  BY Constants DEF Inv, TypeOK
<1>2. tpc[tid] # "unborn" => mpc # "map" /\ taskInds[tid] = Share(tid)
  BY DEF Inv, Mapped
<1> QED
  BY <1>1, <1>2, ShareFacts DEF First, Last

LEMMA MainInv == ASSUME Inv, Main PROVE Inv'
<1>1. CASE setThreadTaskMap
  <2>1. UNCHANGED <<tpc, iter, taskid, arrived, done, fault>> /\ mpc' = "spawn"
        /\ taskInds' = [tid \in Threads |-> Share(tid)]
    BY <1>1 DEF setThreadTaskMap
  <2>2. \A tid \in Threads : Share(tid) \in (0 .. ntasks) \X (0 .. ntasks)
    BY ShareFacts
  <2>3. TypeOK'
    BY <2>1, <2>2 DEF Inv, TypeOK
  <2> QED
    BY <2>1, <2>3 DEF Inv, Mapped, Waiting, Rounds, Round, Loops, Progress, Executed, Returned
<1>2. CASE Spawn
  <2>1. PICK tid \in Threads :
          /\ tpc[tid] = "unborn" /\ tpc' = [tpc EXCEPT ![tid] = "pin"]
          /\ mpc = "spawn" /\ mpc' \in {"join", "spawn"}
          /\ UNCHANGED <<taskInds, iter, taskid, arrived, done, fault>>
    BY <1>2 DEF Spawn, Unborn, Goto
  <2>2. TypeOK'
    BY <2>1 DEF Inv, TypeOK, ThreadPC
  <2>3. \A v \in Threads : tpc'[v] = IF v = tid THEN "pin" ELSE tpc[v]
    BY <2>1 DEF Inv, TypeOK
  <2>4. Mapped' /\ Waiting' /\ Rounds' /\ Loops' /\ Returned'
    <3>1. arrived \subseteq Threads
      BY DEF Inv, TypeOK
    <3> QED
      BY <2>1, <2>3, <3>1 DEF Inv, Mapped, Waiting, Rounds, Round, Loops, Returned
  <2>5. Progress'
    BY <2>1, <2>3 DEF Inv, Progress, Executed
  <2> QED
    BY <2>2, <2>4, <2>5 DEF Inv
<1>3. CASE Join
  <2>1. /\ UNCHANGED <<taskInds, tpc, iter, taskid, arrived, done, fault>>
        /\ mpc = "join" /\ mpc' = "returned" /\ \A tid \in Threads : tpc[tid] = "ended"
    BY <1>3 DEF Join
  <2> QED
    BY <2>1 DEF Inv, TypeOK, Mapped, Waiting, Rounds, Round, Loops, Progress, Executed, Returned
<1> QED
  BY <1>1, <1>2, <1>3 DEF Main

LEMMA pinThreadInv ==
  ASSUME Inv, NEW tid \in Threads, pinThreadOnSocket(tid) PROVE Inv'
<1>1. PICK l \in {"pin", "loop"} :
        /\ tpc[tid] = "pin" /\ tpc' = [tpc EXCEPT ![tid] = l]
        /\ fault' \in {fault, TooManyThreads}
        /\ UNCHANGED <<taskInds, mpc, iter, taskid, arrived, done>>
  BY DEF pinThreadOnSocket, At, Goto, Inv, TypeOK
<1>2. \A v \in Threads : tpc'[v] = IF v = tid THEN l ELSE tpc[v]
  BY <1>1 DEF Inv, TypeOK
<1>3. TypeOK'
  BY <1>1 DEF Inv, TypeOK, ThreadPC
<1>4. Mapped' /\ Waiting' /\ Rounds' /\ Loops' /\ Returned'
  <2>1. arrived \subseteq Threads
    BY DEF Inv, TypeOK
  <2> QED
    BY <1>1, <1>2, <2>1 DEF Inv, Mapped, Waiting, Rounds, Round, Loops, Returned
<1>5. Progress'
  BY <1>1, <1>2 DEF Inv, Progress, Executed
<1> QED
  BY <1>3, <1>4, <1>5 DEF Inv

LEMMA StartIterInv == ASSUME Inv, NEW tid \in Threads, StartIter(tid) PROVE Inv'
<1>1. PICK l \in {"tasks", "ended"} :
        /\ tpc[tid] = "loop" /\ tpc' = [tpc EXCEPT ![tid] = l]
        /\ l = "tasks" => iter[tid] < niters /\ taskid' = [taskid EXCEPT ![tid] = First(tid)]
        /\ l = "ended" => ~(iter[tid] < niters) /\ taskid' = taskid
        /\ UNCHANGED <<taskInds, mpc, iter, arrived, done, fault>>
  BY ThreadFacts DEF StartIter, At, Goto
<1>2. /\ \A v \in Threads : tpc'[v] = IF v = tid THEN l ELSE tpc[v]
      /\ \A v \in Threads : v # tid => taskid'[v] = taskid[v]
      /\ l = "tasks" => taskid'[tid] = First(tid)
  BY <1>1 DEF Inv, TypeOK
<1>3. TypeOK'
  <2>1. First(tid) \in 0 .. ntasks
    BY ThreadFacts
  <2> QED
    BY <1>1, <2>1 DEF Inv, TypeOK, ThreadPC
<1>4. Mapped' /\ Waiting' /\ Rounds' /\ Returned'
  <2>1. arrived \subseteq Threads
    BY DEF Inv, TypeOK
  <2> QED
    BY <1>1, <1>2, <2>1, ThreadFacts DEF Inv, Mapped, Waiting, Rounds, Round, Returned
<1>5. Loops'
  BY <1>1, <1>2, ThreadFacts, Constants DEF Inv, Loops
<1>6. Progress'
  <2>1. \A t \in Own(tid) : ~(t < First(tid))
    BY ThreadFacts DEF Own, TaskIds
  <2> QED
    BY <1>1, <1>2, <2>1 DEF Inv, Progress, Executed
<1> QED
  BY <1>3, <1>4, <1>5, <1>6 DEF Inv

LEMMA StartTaskInv == ASSUME Inv, NEW tid \in Threads, StartTask(tid) PROVE Inv'
<1>1. /\ tpc[tid] = "tasks" /\ tpc' = [tpc EXCEPT ![tid] = "sleep"]
      /\ taskid[tid] < Last(tid)
      /\ UNCHANGED <<taskInds, mpc, iter, taskid, arrived, done, fault>>
  BY ThreadFacts DEF StartTask, At, Goto
<1>2. \A v \in Threads : tpc'[v] = IF v = tid THEN "sleep" ELSE tpc[v]
  BY <1>1 DEF Inv, TypeOK
<1>3. TypeOK'
  BY <1>1 DEF Inv, TypeOK, ThreadPC
<1>4. Mapped' /\ Waiting' /\ Rounds' /\ Returned'
  <2>1. arrived \subseteq Threads
    BY DEF Inv, TypeOK
  <2> QED
    BY <1>1, <1>2, <2>1, ThreadFacts DEF Inv, Mapped, Waiting, Rounds, Round, Returned
<1>5. Loops' /\ Progress'
  BY <1>1, <1>2 DEF Inv, Loops, Progress, Executed
<1> QED
  BY <1>3, <1>4, <1>5 DEF Inv

\* The task that a thread executes is one of its own and was due.
LEMMA Due ==
  ASSUME Inv, NEW tid \in Threads, tpc[tid] = "sleep"
  PROVE  /\ taskid[tid] \in Own(tid) /\ taskid[tid] \in TaskIds
         /\ done[taskid[tid]] = iter[tid] /\ iter[tid] < niters
<1>1. First(tid) <= taskid[tid] /\ taskid[tid] < Last(tid) /\ iter[tid] < niters
  BY DEF Inv, Loops
<1>2. taskid[tid] \in TaskIds /\ taskid[tid] \in Own(tid) /\ ~(taskid[tid] < taskid[tid])
  BY <1>1, ThreadFacts, Constants DEF Own, TaskIds
<1> QED
  BY <1>1, <1>2 DEF Inv, Progress, Executed

LEMMA EndTaskInv == ASSUME Inv, NEW tid \in Threads, EndTask(tid) PROVE Inv'
<1> DEFINE t == taskid[tid]
<1>1. /\ tpc[tid] = "sleep" /\ tpc' = [tpc EXCEPT ![tid] = "tasks"]
      /\ done' = [done EXCEPT ![t] = done[t] + 1]
      /\ taskid' = [taskid EXCEPT ![tid] = t + 1]
      /\ UNCHANGED <<taskInds, mpc, iter, arrived, fault>>
  BY DEF EndTask, At, Goto
<1>2. /\ t \in Own(tid) /\ t \in TaskIds /\ t \in Nat /\ done[t] = iter[tid]
      /\ iter[tid] < niters /\ iter[tid] \in Nat
      /\ First(tid) <= t /\ t < Last(tid) /\ First(tid) \in Int /\ Last(tid) \in 0 .. ntasks
  BY <1>1, Due, ThreadFacts DEF Own
<1> HIDE DEF t
<1>3. /\ \A v \in Threads : tpc'[v] = IF v = tid THEN "tasks" ELSE tpc[v]
      /\ \A v \in Threads : taskid'[v] = IF v = tid THEN t + 1 ELSE taskid[v]
      /\ \A u \in TaskIds : done'[u] = IF u = t THEN iter[tid] + 1 ELSE done[u]
  BY <1>1, <1>2 DEF Inv, TypeOK
<1>4. TypeOK'
  <2>1. t + 1 \in 0 .. ntasks /\ done[t] + 1 \in 0 .. niters
    BY <1>2, Constants
  <2> QED
    BY <1>1, <2>1 DEF Inv, TypeOK, ThreadPC
<1>5. Mapped' /\ Waiting' /\ Rounds' /\ Returned'
  <2>1. arrived \subseteq Threads
    BY DEF Inv, TypeOK
  <2> QED
    BY <1>1, <1>3, <2>1, ThreadFacts DEF Inv, Mapped, Waiting, Rounds, Round, Returned
<1>6. Loops'
  BY <1>1, <1>2, <1>3 DEF Inv, Loops
<1>7. Progress'
  <2> SUFFICES ASSUME NEW v \in Threads, NEW u \in Own(v)
               PROVE  done'[u] = IF Executed(v, u)' THEN iter[v] + 1 ELSE iter[v]
    BY <1>1 DEF Progress
  <2>1. u \in TaskIds /\ u \in Int
    BY DEF Own, TaskIds
  <2>2. CASE v # tid
    <3>1. u # t
      BY <1>2, <2>1, <2>2, Disjoint
    <3> QED
      BY <1>3, <2>1, <2>2, <3>1 DEF Inv, Progress, Executed
  <2>3. CASE v = tid /\ u = t
    BY <1>2, <1>3, <2>1, <2>3 DEF Executed
  <2>4. CASE v = tid /\ u # t
    <3>1. u < t + 1 <=> u < t
      BY <1>2, <2>1, <2>4
    <3>2. Executed(v, u)' <=> Executed(v, u)
      BY <1>1, <1>3, <2>4, <3>1 DEF Executed, t
    <3> QED
      BY <1>3, <2>1, <2>4, <3>2 DEF Inv, Progress
  <2> QED
    BY <2>2, <2>3, <2>4
<1> QED
  BY <1>4, <1>5, <1>6, <1>7 DEF Inv

\* The last to arrive completes the set of all threads.
LEMMA LastArrival ==
  ASSUME Inv, NEW tid \in Threads, tid \notin arrived
  PROVE  /\ Cardinality(arrived) + 1 = nthreads <=> arrived \cup {tid} = Threads
<1>1. IsFiniteSet(Threads) /\ Cardinality(Threads) = nthreads
  BY Constants, FS_Interval DEF Threads
<1>2. /\ arrived \subseteq Threads /\ IsFiniteSet(arrived) /\ Cardinality(arrived) \in Nat
  BY <1>1, FS_Subset, FS_CardinalityType DEF Inv, TypeOK
<1>3. Cardinality(arrived \cup {tid}) = Cardinality(arrived) + 1
  BY <1>2, FS_AddElement
<1>4. arrived \cup {tid} \subseteq Threads
  BY <1>2
<1> QED
  BY <1>1, <1>3, <1>4, FS_Subset

LEMMA applyBarrierInv == ASSUME Inv, NEW tid \in Threads, applyBarrier(tid) PROVE Inv'
<1>1. /\ tpc[tid] = "tasks" /\ tpc' = [tpc EXCEPT ![tid] = "barrier"]
      /\ ~(taskid[tid] < Last(tid))
      /\ UNCHANGED <<taskInds, mpc, iter, taskid, done, fault>>
  BY ThreadFacts DEF applyBarrier, At, Goto
<1>2. tid \notin arrived /\ arrived \subseteq Threads
  BY <1>1 DEF Inv, Waiting, TypeOK
<1>3. arrived' = IF arrived \cup {tid} = Threads THEN {} ELSE arrived \cup {tid}
  BY <1>2, LastArrival DEF applyBarrier
<1>4. \A v \in Threads : tpc'[v] = IF v = tid THEN "barrier" ELSE tpc[v]
  BY <1>1 DEF Inv, TypeOK
<1>5. TypeOK'
  BY <1>1, <1>2, <1>3 DEF Inv, TypeOK, ThreadPC
<1>6. Mapped' /\ Loops' /\ Returned'
  BY <1>1, <1>4, ThreadFacts DEF Inv, Mapped, Loops, Returned
<1>7. Waiting'
  BY <1>2, <1>3, <1>4 DEF Inv, Waiting
<1>8. Rounds'
  <2>1. CASE arrived \cup {tid} = Threads
    <3>1. \A v \in Threads : Round(v) = iter[v] /\ Round(v)' = iter[v] + 1
      BY <1>1, <1>3, <1>4, <2>1 DEF Inv, Waiting, Round
    <3> QED
      BY <3>1 DEF Inv, Rounds
  <2>2. CASE arrived \cup {tid} # Threads
    <3>1. \A v \in Threads : Round(v)' = Round(v)
      BY <1>1, <1>3, <1>4, <2>2 DEF Round
    <3> QED
      BY <3>1 DEF Inv, Rounds
  <2> QED
    BY <2>1, <2>2
<1>9. Progress'
  <2>1. \A t \in Own(tid) : t < taskid[tid]
    BY <1>1, ThreadFacts DEF Own, TaskIds
  <2> QED
    BY <1>1, <1>4, <2>1 DEF Inv, Progress, Executed
<1> QED
  BY <1>5, <1>6, <1>7, <1>8, <1>9 DEF Inv

LEMMA LeaveBarrierInv == ASSUME Inv, NEW tid \in Threads, LeaveBarrier(tid) PROVE Inv'
<1>1. /\ tpc[tid] = "barrier" /\ tid \notin arrived /\ tpc' = [tpc EXCEPT ![tid] = "loop"]
      /\ iter' = [iter EXCEPT ![tid] = iter[tid] + 1]
      /\ UNCHANGED <<taskInds, mpc, taskid, arrived, done, fault>>
  BY DEF LeaveBarrier, At, Goto
<1>2. iter[tid] \in Nat /\ iter[tid] < niters /\ arrived \subseteq Threads
  BY <1>1, ThreadFacts DEF Inv, Loops, TypeOK
<1>3. /\ \A v \in Threads : tpc'[v] = IF v = tid THEN "loop" ELSE tpc[v]
      /\ \A v \in Threads : iter'[v] = IF v = tid THEN iter[tid] + 1 ELSE iter[v]
  BY <1>1 DEF Inv, TypeOK
<1>4. TypeOK'
  <2>1. iter[tid] + 1 \in 0 .. niters
    BY <1>2, Constants
  <2> QED
    BY <1>1, <2>1 DEF Inv, TypeOK, ThreadPC
<1>5. Mapped' /\ Waiting' /\ Loops' /\ Returned'
  BY <1>1, <1>2, <1>3, ThreadFacts DEF Inv, Mapped, Waiting, Loops, Returned
<1>6. Rounds'
  <2>1. \A v \in Threads : Round(v)' = Round(v)
    BY <1>1, <1>3 DEF Round
  <2> QED
    BY <2>1 DEF Inv, Rounds
<1>7. Progress'
  BY <1>1, <1>3 DEF Inv, Progress, Executed
<1> QED
  BY <1>4, <1>5, <1>6, <1>7 DEF Inv

LEMMA NextInv == Inv /\ [Next]_vars => Inv'
<1> SUFFICES ASSUME Inv, [Next]_vars PROVE Inv'
  OBVIOUS
<1>1. CASE UNCHANGED vars
  BY <1>1 DEF vars, Inv, TypeOK, Mapped, Waiting, Rounds, Round, Loops, Progress, Executed,
     Returned
<1>2. CASE Main
  BY <1>2, MainInv
<1>3. ASSUME NEW tid \in Threads, Thread(tid) PROVE Inv'
  BY <1>3, pinThreadInv, StartIterInv, StartTaskInv, EndTaskInv, applyBarrierInv,
     LeaveBarrierInv DEF Thread
<1> QED
  BY <1>1, <1>2, <1>3 DEF Next, Ended

LEMMA Invariance == Spec => []Inv
BY InitInv, NextInv, PTL DEF Spec

(***************************************************************************)
(* Types: no index leaves the ranges, and no task is executed more often   *)
(* than there are iterations.                                              *)
(***************************************************************************)
THEOREM TypeCorrect == Spec => []TypeOK
BY Invariance, PTL DEF Inv

\* A thread that is executing sees its iteration, or the next one, everywhere.
LEMMA Synchronous ==
  ASSUME Inv, NEW tid \in Threads, tpc[tid] = "sleep", NEW t \in TaskIds
  PROVE  done[t] \in {iter[tid], iter[tid] + 1}
<1>1. PICK owner \in Threads : t \in Own(owner)
  BY Covered
<1>2. Round(owner) = iter[tid] /\ iter[owner] \in Nat /\ iter[tid] \in Nat
  BY ThreadFacts DEF Inv, Rounds, Round
<1>3. done[t] = IF Executed(owner, t) THEN iter[owner] + 1 ELSE iter[owner]
  BY <1>1 DEF Inv, Progress
<1> QED
  BY <1>2, <1>3 DEF Round, Executed

(***************************************************************************)
(* While a thread executes iteration k, every task has been executed k or  *)
(* k + 1 times, and the task it executes k times.                          *)
(***************************************************************************)
THEOREM BulkSynchrony == Spec => []BulkSynchronous
<1>1. Inv => BulkSynchronous
  <2> SUFFICES ASSUME Inv, NEW tid \in Threads, tpc[tid] = "sleep"
               PROVE  /\ done[taskid[tid]] = iter[tid]
                      /\ \A t \in TaskIds : done[t] - iter[tid] \in {0, 1}
    BY DEF BulkSynchronous
  <2>1. \A t \in TaskIds : done[t] \in {iter[tid], iter[tid] + 1}
    BY Synchronous
  <2> QED
    BY <2>1, Due, ThreadFacts
<1> QED
  BY <1>1, Invariance, PTL

(***************************************************************************)
(* No two threads execute the same task at once, whatever ntasks divided   *)
(* by nthreads leaves over.                                                *)
(***************************************************************************)
THEOREM NoTaskShared == Spec => []NoSharedTask
<1>1. Inv => NoSharedTask
  BY Due, Disjoint DEF NoSharedTask
<1> QED
  BY <1>1, Invariance, PTL

(***************************************************************************)
(* When main returns, every task has been executed once per iteration.     *)
(***************************************************************************)
THEOREM EverythingExecuted == Spec => []AllTasksExecuted
<1>1. Inv => AllTasksExecuted
  <2> SUFFICES ASSUME Inv, mpc = "returned", NEW t \in TaskIds PROVE done[t] = niters
    BY DEF AllTasksExecuted
  <2>1. PICK owner \in Threads : t \in Own(owner)
    BY Covered
  <2>2. tpc[owner] = "ended" /\ iter[owner] = niters
    BY DEF Inv, Returned, Loops
  <2> QED
    BY <2>1, <2>2 DEF Inv, Progress, Executed
<1> QED
  BY <1>1, Invariance, PTL

(***************************************************************************)
(* The global barrier keeps the order of neighbouring strips: the static   *)
(* scheduler implements StencilOrder, like the dynamic one.                *)
(***************************************************************************)
THEOREM ImplementsOrder == Spec => ImplementsStencilOrder
<1>1. Init => Stencil!Init
  BY DEF Init, Stencil!Init, Stencil!TaskIds, TaskIds
<1>2. Inv /\ [Next]_vars => [Stencil!Next]_done
  <2> SUFFICES ASSUME Inv, [Next]_vars, ~UNCHANGED done
               PROVE  \E t \in TaskIds : Stencil!Iterate(t)
    BY DEF Stencil!Next, Stencil!TaskIds, TaskIds
  <2>1. PICK tid \in Threads : EndTask(tid)
    BY DEF Next, Main, setThreadTaskMap, Spawn, Join, Thread, pinThreadOnSocket, StartIter,
           StartTask, applyBarrier, LeaveBarrier, Ended, vars
  <2>2. tpc[tid] = "sleep" /\ done' = [done EXCEPT ![taskid[tid]] = @ + 1]
    BY <2>1 DEF EndTask, At
  <2>3. taskid[tid] \in TaskIds /\ done[taskid[tid]] < niters
    BY <2>2, Due
  <2>4. \A u \in TaskIds : done[taskid[tid]] <= done[u]
    BY <2>2, Due, Synchronous, ThreadFacts
  <2> QED
    BY <2>2, <2>3, <2>4 DEF Stencil!Iterate, Stencil!Nbrs, Stencil!TaskIds, TaskIds
<1>3. ImplementsStencilOrder <=> Stencil!Init /\ [][Stencil!Next]_done
  BY DEF ImplementsStencilOrder, Stencil!Spec
<1> QED
  BY <1>1, <1>2, <1>3, Invariance, PTL DEF Spec

-----------------------------------------------------------------------------
(* The barrier never holds everybody. *)

\* Main joins only when all threads have been started.
Started == mpc \in {"join", "returned"} => \A tid \in Threads : tpc[tid] # "unborn"

LEMMA NextStarted == Inv /\ Started /\ [Next]_vars => Started'
<1> SUFFICES ASSUME Inv, Started, [Next]_vars, mpc' \in {"join", "returned"},
                    NEW v \in Threads
             PROVE  tpc'[v] # "unborn"
  BY DEF Started
<1> USE DEF Inv, TypeOK, Started
<1>1. CASE UNCHANGED vars \/ Ended
  BY <1>1 DEF vars, Ended
<1>2. CASE setThreadTaskMap \/ Join
  BY <1>2 DEF setThreadTaskMap, Join
<1>3. CASE Spawn
  <2>1. PICK tid \in Unborn :
          /\ \A other \in Unborn : tid <= other
          /\ tpc' = [tpc EXCEPT ![tid] = "pin"]
          /\ mpc' = IF tid = nthreads - 1 THEN "join" ELSE "spawn"
    BY <1>3 DEF Spawn, Goto
  <2>2. tid = nthreads - 1 /\ \A other \in Unborn : other = tid
    BY <2>1, Constants DEF Unborn, Threads
  <2> QED
    BY <2>1, <2>2 DEF Unborn
<1>4. ASSUME NEW tid \in Threads, Thread(tid) PROVE tpc'[v] # "unborn"
  BY <1>4 DEF Thread, pinThreadOnSocket, StartIter, StartTask, EndTask, applyBarrier,
              LeaveBarrier, At, Goto
<1> QED
  BY <1>1, <1>2, <1>3, <1>4 DEF Next, Main

\* Somebody can go on: main, a thread outside of the barrier or one that the
\* barrier has released, or main may join the threads that have all ended.
NoStandstill ==
  \/ mpc \in {"map", "spawn"}
  \/ \E tid \in Threads : tpc[tid] \in {"pin", "loop", "tasks", "sleep"}
  \/ \E tid \in Threads : tpc[tid] = "barrier" /\ tid \notin arrived
  \/ \A tid \in Threads : tpc[tid] = "ended"

(***************************************************************************)
(* It never happens that everybody waits: no thread ends while another is  *)
(* still held by the barrier, as threads that have passed it equally often *)
(* are in the same round (Rounds), and the last to arrive lets all go.     *)
(***************************************************************************)
THEOREM NeverStandsStill == Spec => []NoStandstill
<1>1. Init => Started
  BY DEF Init, Started
<1>2. Inv /\ Started => NoStandstill
  <2> SUFFICES ASSUME Inv, Started, mpc \notin {"map", "spawn"},
                      \A tid \in Threads :
                        tpc[tid] = "ended" \/ (tpc[tid] = "barrier" /\ tid \in arrived),
                      NEW b \in Threads, tpc[b] # "ended"
               PROVE  FALSE
    BY DEF NoStandstill, Inv, TypeOK, Started, ThreadPC
  <2>1. tpc[b] = "barrier" /\ iter[b] < niters /\ Round(b) = iter[b]
    BY DEF Round, Inv, Loops
  <2>2. PICK a \in Threads : a \notin arrived
    BY DEF Inv, Waiting, TypeOK
  <2>3. tpc[a] = "ended" /\ iter[a] = niters /\ Round(a) = iter[a]
    BY <2>2 DEF Round, Inv, Loops
  <2>4. iter[a] = iter[b]
    BY <2>1, <2>3 DEF Inv, Rounds
  <2> QED
    BY <2>1, <2>3, <2>4, Constants
<1> QED
  BY <1>1, <1>2, NextStarted, Invariance, PTL DEF Spec
=============================================================================
